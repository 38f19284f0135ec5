---------------------------- MODULE Partitioning ----------------------------
(***************************************************************************)
(* What dividing a category's rows promises the caller who waits for the    *)
(* centroids: sets of rows are divided until they are small enough, each of *)
(* them gives one centroid, and the wait ends when nothing is left.  How the *)
(* work is spread over goroutines is the business of DivideAndConquer.      *)
(***************************************************************************)
EXTENDS Naturals, FiniteSets

CONSTANTS
  Row,     \* the rows to be divided: embeddings of one category
  Target   \* targetSize, the size at which a set is left whole

VARIABLES
  open,       \* sets of rows not dealt with yet
  leaves,     \* sets of rows that have given their centroid
  cancelled,  \* the context has ended: sets are no longer divided
  finished    \* the caller has all centroids

vars == <<open, leaves, cancelled, finished>>

Disjoint(sets) == \A S, T \in sets : S = T \/ S \cap T = {}

Init ==
  /\ open = {Row}
  /\ leaves = {}
  /\ cancelled = FALSE
  /\ finished = FALSE

\* A set is replaced by sets that make it up.
Divide ==
  /\ \E S \in open : LET subsets == {T \in open' : T \subseteq S}
                     IN  /\ open' = (open \ {S}) \cup subsets
                         /\ UNION subsets = S
                         /\ Disjoint(subsets)
  /\ UNCHANGED <<leaves, cancelled, finished>>

\* A set gives its centroid.
Conquer ==
  /\ \E S \in open : /\ S # {}
                     /\ Cardinality(S) <= Target \/ cancelled
                     /\ open' = open \ {S}
                     /\ leaves' = leaves \cup {S}
  /\ UNCHANGED <<cancelled, finished>>

Cancel ==
  /\ cancelled' = TRUE
  /\ UNCHANGED <<open, leaves, finished>>

Finish ==
  /\ open = {}
  /\ finished' = TRUE
  /\ UNCHANGED <<open, leaves, cancelled>>

Next == Divide \/ Conquer \/ Cancel \/ Finish

Spec == Init /\ [][Next]_vars

-----------------------------------------------------------------------------

\* The caller has the centroid of every row's set, and of no row twice; the sets
\* are as small as it asked unless its context ended.
EveryRowOnce ==
  finished => /\ UNION leaves = Row
              /\ Disjoint(leaves)
              /\ ~cancelled => \A S \in leaves : Cardinality(S) <= Target
=============================================================================
