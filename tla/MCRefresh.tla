------------------------------- MODULE MCRefresh -------------------------------
(* One category with two embeddings under one centroid.                        *)
EXTENDS Refresh

CONSTANT news

Two == {[id |-> 1, category |-> news, centroid |-> 3],
        [id |-> 2, category |-> news, centroid |-> 3]}
=============================================================================
