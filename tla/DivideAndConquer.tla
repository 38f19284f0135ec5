-------------------------- MODULE DivideAndConquer --------------------------
(***************************************************************************)
(* divideNconquer of dnc/dnc.go and the loop that waits for its centroids:  *)
(* a goroutine for each set of rows takes a slot of the bounded queue, finds *)
(* the mean of its rows and sends it, or splits the rows and starts one      *)
(* goroutine for each part; the one that takes the count of goroutines to    *)
(* zero closes the channel.                                                 *)
(*                                                                         *)
(* A vector is abstracted away: a centroid is the set of rows it is the      *)
(* mean of, and k-means assigns rows to centroids in any way it may.        *)
(***************************************************************************)
EXTENDS Integers, Sequences, FiniteSets

CONSTANTS
  Row,         \* the embeddings of the category
  Target,      \* CENTROID_SIZE
  SplitSize,   \* SPLIT_SIZE
  SampleSize,  \* SAMPLE_SIZE
  Parallel,    \* capacity of queue, the number of CPUs
  EmptyLevels  \* levels of the recursion at which a k-means centroid may be
               \* the nearest one of no row (equal vectors do that)

ASSUME DivideAssumption ==
  /\ IsFiniteSet(Row) /\ Row # {}
  /\ Target \in Nat \ {0}
  /\ SplitSize \in Nat \ {0, 1}
  /\ SampleSize \in Nat \ {0, 1}
  /\ Parallel \in Nat \ {0}
  /\ EmptyLevels \in Nat

VARIABLES
  at,          \* where each goroutine started so far is
  rows,        \* the rows of its data set
  parts,       \* the data sets it has still to start a goroutine for
  queue,       \* slots taken
  concurrent,  \* the counter of that name
  Y,           \* the channel
  centroids,   \* what the caller has received from it
  caller,      \* the caller ranges over Y until it is closed
  cancelled,   \* ctx.Err() # nil
  process      \* up, or stopped by a panic no goroutine recovers from

vars == <<at, rows, parts, queue, concurrent, Y, centroids, caller, cancelled,
          process>>

\* A goroutine is named by the way from the first one to it.
Worker == DOMAIN at
First == <<>>

Init ==
  /\ at = [w \in {First} |-> "queued"]
  /\ rows = [w \in {First} |-> Row]
  /\ parts = [w \in {First} |-> <<>>]
  /\ queue = 0
  /\ concurrent = 1
  /\ Y = "open"
  /\ centroids = {}
  /\ caller = "waiting"
  /\ cancelled = FALSE
  /\ process = "up"

\* w is at a, the process being up, and goes on to b.
Go(w, a, b) ==
  /\ process = "up"
  /\ at[w] = a
  /\ at' = [at EXCEPT ![w] = b]

-----------------------------------------------------------------------------
(* The steps of one goroutine.                                               *)

\* queue <- struct{}{}
Enter(w) ==
  /\ Go(w, "queued", "begin")
  /\ queue < Parallel
  /\ queue' = queue + 1
  /\ UNCHANGED <<rows, parts, concurrent, Y, centroids, caller, cancelled, process>>

\* initX takes element 0 of the one mean of the rows: of no rows there is none.
Panic(w) ==
  /\ Go(w, "begin", "begin") /\ rows[w] = {}
  /\ process' = "panicked"
  /\ UNCHANGED <<rows, parts, queue, concurrent, Y, centroids, caller, cancelled>>

\* (mutant) a set is left whole at twice the size asked
SmallEnoughTwice(w) == Cardinality(rows[w]) <= 2 * Target

SmallEnough(w) == Cardinality(rows[w]) <= Target

Check(w) ==
  /\ rows[w] # {}
  /\ Go(w, "begin", IF SmallEnough(w) \/ cancelled THEN "send" ELSE "split")
  /\ UNCHANGED <<rows, parts, queue, concurrent, Y, centroids, caller, cancelled, process>>

\* Y <- X.centroid: the channel has no buffer, sender and receiver meet.
Send(w) ==
  /\ Go(w, "send", "close")
  /\ Y = "open" /\ caller = "waiting"
  /\ centroids' = centroids \cup {rows[w]}
  /\ UNCHANGED <<rows, parts, queue, concurrent, Y, caller, cancelled, process>>

Smaller(m, n) == IF m < n THEN m ELSE n
Larger(m, n) == IF m < n THEN n ELSE m

\* The number of centroids k-means makes of a sample of w's rows.
SubsetCount(w) ==
  LET total == Cardinality(rows[w])
      k == Smaller(SplitSize, Larger(2, total \div Target))
  IN  Smaller(k, Smaller(total, SampleSize))

\* (mutant) the row that is left over after the last full batch is not written
SubsetsShort(w, nearest) ==
  LET last == CHOOSE x \in rows[w] : TRUE
  IN  [i \in 1 .. SubsetCount(w) |-> {x \in rows[w] \ {last} : nearest[x] = i}]

Subsets(w, nearest) ==
  [i \in 1 .. SubsetCount(w) |-> {x \in rows[w] : nearest[x] = i}]

\* Each row is written to the data set of its nearest centroid.
Split(w) ==
  /\ Go(w, "split", "start")
  /\ \E nearest \in [rows[w] -> 1 .. SubsetCount(w)] :
       /\ Len(w) < EmptyLevels \/ \A i \in 1 .. SubsetCount(w) : \E x \in rows[w] : nearest[x] = i
       /\ parts' = [parts EXCEPT ![w] = Subsets(w, nearest)]
  /\ UNCHANGED <<rows, queue, concurrent, Y, centroids, caller, cancelled, process>>

\* (mutant) a goroutine is started and not counted
CountNobody(n) == n

CountOne(n) == n + 1

Extended(f, w, value) == [u \in DOMAIN f \cup {w} |-> IF u = w THEN value ELSE f[u]]

\* concurrent.Add(1); go divideNconquer(...), for the next data set.
Start(w) ==
  /\ process = "up" /\ at[w] = "start" /\ parts[w] # <<>>
  /\ LET child == Append(w, Len(parts[w]))
     IN  /\ at' = Extended(at, child, "queued")
         /\ rows' = Extended(rows, child, Head(parts[w]))
         /\ parts' = Extended([parts EXCEPT ![w] = Tail(@)], child, <<>>)
  /\ concurrent' = CountOne(concurrent)
  /\ UNCHANGED <<queue, Y, centroids, caller, cancelled, process>>

Started(w) ==
  /\ Go(w, "start", "close") /\ parts[w] = <<>>
  /\ UNCHANGED <<rows, parts, queue, concurrent, Y, centroids, caller, cancelled, process>>

\* The deferred function: X.Close() and <-queue, then the count, then the channel.
Leave(w) ==
  /\ Go(w, "close", "count")
  /\ queue' = queue - 1
  /\ UNCHANGED <<rows, parts, concurrent, Y, centroids, caller, cancelled, process>>

\* (mutant) the count has to go below zero
LastOneLate(n) == n < 0

LastOne(n) == n <= 0

Discount(w) ==
  /\ Go(w, "count", IF LastOne(concurrent - 1) THEN "closeY" ELSE "ended")
  /\ concurrent' = concurrent - 1
  /\ UNCHANGED <<rows, parts, queue, Y, centroids, caller, cancelled, process>>

CloseY(w) ==
  /\ Go(w, "closeY", "ended")
  /\ Y' = "closed"
  /\ UNCHANGED <<rows, parts, queue, concurrent, centroids, caller, cancelled, process>>

-----------------------------------------------------------------------------
(* The caller and its context.                                               *)

Finish ==
  /\ process = "up" /\ caller = "waiting" /\ Y = "closed"
  /\ caller' = "finished"
  /\ UNCHANGED <<at, rows, parts, queue, concurrent, Y, centroids, cancelled, process>>

Cancel ==
  /\ process = "up" /\ ~cancelled
  /\ cancelled' = TRUE
  /\ UNCHANGED <<at, rows, parts, queue, concurrent, Y, centroids, caller, process>>

Step(w) ==
  \/ Enter(w) \/ Panic(w) \/ Check(w) \/ Send(w) \/ Split(w)
  \/ Start(w) \/ Started(w) \/ Leave(w) \/ Discount(w) \/ CloseY(w)

\* The caller has gone on, or the process is no more.
Over == /\ caller = "finished" \/ process = "panicked"
        /\ UNCHANGED vars

Work == Finish \/ \E w \in Worker : Step(w)

Next == Work \/ Cancel \/ Over

Spec == Init /\ [][Next]_vars

\* While some goroutine can run, one does.
FairSpec == Spec /\ WF_vars(Work)

-----------------------------------------------------------------------------
(* Properties.                                                              *)

Live == {w \in Worker : at[w] \notin {"closeY", "ended"}}
Slotted == {w \in Worker : at[w] \in {"begin", "send", "split", "start", "close"}}

Stage == {"queued", "begin", "send", "split", "start", "close", "count", "closeY", "ended"}

\* Types of the state; the sets of rows a goroutine has still to hand on are only
\* there while it starts others.
TypeOK ==
  /\ at \in [Worker -> Stage] /\ Worker \subseteq Seq(Nat)
  /\ rows \in [Worker -> SUBSET Row]
  /\ parts \in [Worker -> Seq(SUBSET Row)]
  /\ \A w \in Worker : parts[w] # <<>> => at[w] = "start"
  /\ queue \in 0 .. Parallel
  /\ concurrent \in Nat
  /\ Y \in {"open", "closed"}
  /\ centroids \in SUBSET SUBSET Row
  /\ caller \in {"waiting", "finished"}
  /\ cancelled \in BOOLEAN
  /\ process \in {"up", "panicked"}

\* Whoever is about to close the channel, or has closed it, is the last: nobody
\* is left who could send on it, close it again or start somebody who would.
\* Nothing but the order of the increments and decrements of concurrent sees to it.
ClosedByTheLast ==
  \A w \in Worker : (at[w] = "closeY" \/ Y = "closed") =>
    \A u \in Worker \ {w} : at[u] = "ended"

\* Every set of rows gives its centroid once, and the caller gets them all: the
\* sets it has received are a partition of the category's rows, none larger than
\* targetSize unless the context ended.
Childless == {"queued", "begin", "send", "split"}

Pending(w) == CASE at[w] \in Childless -> {rows[w]}
                [] at[w] = "start" -> {parts[w][i] : i \in DOMAIN parts[w]}
                [] OTHER -> {}

Open == UNION {Pending(w) : w \in Worker}

Promised == INSTANCE Partitioning WITH
  open <- Open,
  leaves <- centroids,
  finished <- (caller = "finished")

ImplementsPartitioning == Promised!Spec

EveryRowOnce == Promised!EveryRowOnce

\* The goroutines wait for slots, for the caller and for nothing else: the caller
\* gets the end of the channel, unless an empty data set stops the process.
Terminates == <>(caller = "finished" \/ process = "panicked")

-----------------------------------------------------------------------------
(* What the code claims and does not keep.                                   *)

\* dnc.go:299: X is divided into k subsets until the target is reached.
NeverPanics == process = "up"

-----------------------------------------------------------------------------
(* The inductive invariant behind these properties.                          *)

\* The two counters count.
Counted == /\ IsFiniteSet(Live) /\ concurrent = Cardinality(Live)
           /\ IsFiniteSet(Slotted) /\ queue = Cardinality(Slotted)

\* Whoever closes the channel is alone.
LastCloses ==
  /\ \A w \in Worker : at[w] = "closeY" =>
       Live = {} /\ Y = "open" /\ \A u \in Worker : at[u] = "closeY" => u = w
  /\ Y = "closed" => Live = {} /\ \A w \in Worker : at[w] # "closeY"
  /\ caller = "finished" => Y = "closed"

\* Who was started, was started by somebody, for a set no longer in its hands.
Named ==
  \A u \in Worker : u = First \/ \E p \in Worker :
    /\ u = Append(p, u[Len(u)])
    /\ at[p] \notin Childless
    /\ u[Len(u)] > Len(parts[p])

Order == TypeOK /\ Counted /\ LastCloses /\ Named

\* A row is in one place: in the hands of one goroutine or behind one centroid.
Held(w) == UNION Pending(w)

OnePlace ==
  /\ \A u, v \in Worker : u # v => Held(u) \cap Held(v) = {}
  /\ \A w \in Worker : \A i, j \in DOMAIN parts[w] :
       i # j => parts[w][i] \cap parts[w][j] = {}
  /\ \A w \in Worker : \A S \in centroids : Held(w) \cap S = {}
  /\ \A S, T \in centroids : S = T \/ S \cap T = {}

SomePlace == \A x \in Row : \/ \E w \in Worker : x \in Held(w)
                            \/ \E S \in centroids : x \in S

\* Sets are sent when they may be, and never empty.
Sized == /\ \A w \in Worker : at[w] \in {"send", "split"} => rows[w] # {}
         /\ \A w \in Worker : at[w] = "send" => SmallEnough(w) \/ cancelled
         /\ {} \notin centroids
         /\ ~cancelled => \A S \in centroids : Cardinality(S) <= Target

IInv == Order /\ OnePlace /\ SomePlace /\ Sized
=============================================================================
