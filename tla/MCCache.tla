------------------------------ MODULE MCCache ------------------------------
(* Instances of Cache for TLC.                                              *)
EXTENDS Cache

CONSTANTS c1, c2, k1, k2

\* Two owners, for whose lock the callers and the cleanup task compete, so that a
\* read of one can meet a write of the other, and a category.
OwnersAndCategory == {<<"owner", k1>>, <<"owner", k2>>, <<"category", k1>>}

\* One owner is asked for by both callers, the rest by one of them.
InPart == [c \in Caller |-> IF c = c1 THEN Question ELSE {<<"owner", k1>>}]

\* The other maps, which the cleanup task enters without their locks.
OthersOnly == {<<"category", k1>>, <<"centroids", k1>>}

Anything == [c \in Caller |-> Question]
=============================================================================
