------------------------------ MODULE MCWebPage ------------------------------
(***************************************************************************)
(* Three documents of one category, which make a full page and one that is *)
(* half full, two queries that rank them differently, two files and a text.*)
(* In the other ranking one document is out of reach of either query.      *)
(***************************************************************************)
EXTENDS WebPage, TLC

CONSTANTS d1, d2, d3, f1, f2, t1, wiki, empty, lions

MCDocs == {d1, d2, d3, f1, f2, t1}
MCUploaded == [doc : {d1, d2, d3}, category : {wiki}]
MCListed == <<wiki>>
MCAll == LET others == (f1 :> 4) @@ (f2 :> 5) @@ (t1 :> 6)
         IN  empty :> ((d1 :> 1) @@ (d2 :> 2) @@ (d3 :> 3) @@ others)
             @@ lions :> ((d3 :> 1) @@ (d1 :> 2) @@ (d2 :> 3) @@ others)
MCNearest == LET others == (f1 :> 4) @@ (t1 :> 6)
             IN  empty :> ((d1 :> 1) @@ (d3 :> 3) @@ others)
                 @@ lions :> ((d2 :> 1) @@ (d3 :> 2) @@ others)
MCRankings == {MCAll, MCNearest}
=============================================================================
