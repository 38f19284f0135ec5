-------------------------------- MODULE Memo --------------------------------
(***************************************************************************)
(* What the cache promises the handlers: while the answer to a question is   *)
(* being fetched nobody else fetches it, and nobody fetches it while an       *)
(* answer is at hand.  Answers may be forgotten at any moment, and that is    *)
(* all Catalog relies on.                                                   *)
(***************************************************************************)

CONSTANT Question

VARIABLES
  answered,  \* questions with an answer at hand
  asking     \* questions somebody is fetching the answer of

vars == <<answered, asking>>

Init == answered = {} /\ asking = {}

Fetch == \E q \in Question \ (answered \cup asking) :
           /\ asking' = asking \cup {q}
           /\ UNCHANGED answered

Fill == \E q \in asking :
          /\ asking' = asking \ {q}
          /\ answered' = answered \cup {q}

Fail == \E q \in asking :
          /\ asking' = asking \ {q}
          /\ UNCHANGED answered

Forget == /\ answered' \in SUBSET answered
          /\ UNCHANGED asking

Next == Fetch \/ Fill \/ Fail \/ Forget

Spec == Init /\ [][Next]_vars
=============================================================================
