---------------------------- MODULE RefreshProofs ----------------------------
(* Theorems about Refresh, for any number of processes, categories and        *)
(* embeddings, and any batch size.                                            *)
EXTENDS Refresh, FiniteSetTheorems, WellFoundedInduction, TLAPS

\* Ids are numbers that have a largest among them.
LEMMA LargestId ==
  ASSUME NEW S \in SUBSET (0 .. MaxId), S # {}
  PROVE  \E x \in S : \A y \in S : x >= y
<1> DEFINE T == {n \in Nat : MaxId - n \in S}
           R == OpToRel(<, Nat)
<1>1. MaxId \in Nat
  BY RefreshAssumption
<1>2. T \subseteq Nat /\ T # {}
  <2>1. PICK x \in S : TRUE
    OBVIOUS
  <2>2. x \in 0 .. MaxId /\ MaxId - x \in Nat /\ MaxId - (MaxId - x) = x
    BY <1>1
  <2> QED BY <2>1, <2>2
<1>3. PICK m \in T : \A n \in T : ~(<<n, m>> \in R)
  <2> HIDE DEF T, R
  <2>1. IsWellFoundedOn(R, Nat)
    BY NatLessThanWellFounded DEF R
  <2> QED BY <1>2, <2>1, WFMin
<1>4. \A n \in T : ~(n < m)
  BY <1>2, <1>3 DEF OpToRel
<1>5. ASSUME NEW y \in S PROVE MaxId - m >= y
  <2>1. y \in 0 .. MaxId /\ m \in Nat
    BY <1>2
  <2>2. MaxId - y \in Nat /\ MaxId - (MaxId - y) = y
    BY <1>1, <2>1
  <2>3. ~(MaxId - y < m)
    BY <1>4, <2>2
  <2> HIDE DEF T, R
  <2> QED BY <1>1, <2>1, <2>3
<1>6. MaxId - m \in S
  OBVIOUS
<1> QED BY <1>5, <1>6

\* Max is well defined on ids.
LEMMA MaxOf == ASSUME NEW S \in SUBSET (0 .. MaxId), S # {} PROVE Max(S) \in S
  BY LargestId DEF Max

\* A set of rows with keys of their own is finite.
LEMMA RowsFinite ==
  ASSUME NEW rows, \A x \in rows : x.id \in 1 .. MaxId,
         \A x, y \in rows : x.id = y.id => x = y
  PROVE  IsFiniteSet(rows) /\ Cardinality(rows) \in Nat
<1> DEFINE f == [x \in rows |-> x.id]
<1>1. f \in Injection(rows, 1 .. MaxId)
  BY DEF Injection, IsInjective
<1>2. IsFiniteSet(1 .. MaxId)
  BY RefreshAssumption, FS_Interval
<1> HIDE DEF f
<1>3. IsFiniteSet(rows)
  BY <1>1, <1>2, FS_Injection
<1> QED BY <1>3, FS_CardinalityType

\* The key of a scan stays a key.
LEMMA KeyAfterType ==
  ASSUME NEW batch, \A x \in batch : x.id \in 1 .. MaxId, NEW key
  PROVE  KeyAfter(batch, key) \in 0 .. MaxId
<1>1. CASE batch = {}
  BY <1>1, FS_EmptySet, RefreshAssumption DEF KeyAfter
<1>2. CASE batch # {}
  <2>1. Ids(batch) \in SUBSET (0 .. MaxId) /\ Ids(batch) # {}
    BY <1>2, RefreshAssumption DEF Ids
  <2>2. Max(Ids(batch)) \in 0 .. MaxId
    BY <2>1, MaxOf
  <2> QED BY <2>2, RefreshAssumption DEF KeyAfter
<1> QED BY <1>1, <1>2

-----------------------------------------------------------------------------
(* What holds of the tables, and of what a process has in hand.              *)

Unique(rows) == \A x, y \in rows : x.id = y.id => x = y

Tables ==
    /\ postgres \in BOOLEAN
    /\ categories \subseteq Categories
    /\ embeddings \subseteq Row
    /\ centroids \subseteq Centroid
    /\ orphans \subseteq Ids(embeddings) /\ (postgres => orphans = {})
    /\ fresh \in 1 .. MaxId + 1
    /\ Unique(embeddings) /\ Unique(centroids)
    /\ \A x \in embeddings \union centroids : x.id < fresh
    /\ Filed

Places ==
    /\ shared \in [Categories -> SUBSET Processes]
    /\ pc \in [Processes -> {"list", "next", "count", "take", "read", "retrieve", "save",
                             "scan", "drop", "centre", "wait", "unlock", "end"}]
    /\ todo \in [Processes -> SUBSET Categories]
    /\ cat \in [Processes -> Categories]
    /\ sound \in [Processes -> BOOLEAN]

Working(p) == pc[p] \notin {"list", "next", "end"}

\* A process at a category holds the lock of it where there are locks.
Locked(p) == Working(p) /\ postgres => p \in shared[cat[p]]

\* What a process has in hand it has taken at one statement and lets go at a later.
Empty(p) ==
    /\ pc[p] \in {"list", "next", "count", "take", "end"} => data[p] = {}
    /\ pc[p] \notin {"save", "scan", "drop"} => held[p] = {}
    /\ pc[p] \notin {"scan", "drop"} => nearest[p] = {}
    /\ pc[p] # "scan" => moves[p] = {}
    /\ pc[p] # "centre" => found[p] = <<>>

HandTypes(p) ==
    /\ data[p] \subseteq 1 .. MaxId
    /\ held[p] \subseteq Centroid
    /\ nearest[p] \subseteq Ids(held[p])
    /\ last[p] \in 0 .. MaxId
    /\ moves[p] \subseteq [to : nearest[p], ids : (SUBSET (1 .. MaxId)) \ {{}}]
    /\ DOMAIN found[p] \subseteq 1 .. MaxId
    /\ \A k \in DOMAIN found[p] :
         found[p][k] \in [upto : 0 .. MaxId, ids : SUBSET (1 .. MaxId)]

\* The centroids in hand are there, and of the category at hand ...
Mine(p) ==
    /\ \A i \in Ids(held[p]) \union DOMAIN found[p] :
         \E k \in centroids : k.id = i /\ k.category = cat[p]
    /\ \A k \in held[p] : k.category = cat[p]
    /\ Unique(held[p])

\* ... and so are the embeddings to be moved, those of them that are left.
MovesMine(p) ==
    \A g \in moves[p] : \A i \in g.ids :
      i < fresh /\ \A e \in embeddings : e.id = i => e.category = cat[p]

Hand(p) == Locked(p) /\ Empty(p) /\ HandTypes(p) /\ Mine(p) /\ MovesMine(p)

Shapes == \A f \in {data, held, nearest, last, moves, found} : DOMAIN f = Processes

FInv == Tables /\ Places /\ Shapes /\ \A p \in Processes : Hand(p)

\* What the progress bars of a process show.
BarTypes ==
    /\ total \in [Processes -> Nat] /\ current \in [Processes -> Nat]
    /\ short \in [Processes -> BOOLEAN] /\ deleted \in [Processes -> BOOLEAN]

\* The invariants have the types in them.
LEMMA FInvTypes == FInv /\ BarTypes => TypeOK
<1> SUFFICES ASSUME FInv, BarTypes PROVE TypeOK
  OBVIOUS
<1> USE DEF FInv, Tables, Places, Hand, HandTypes, Unique, BarTypes
<1>1. \A p \in Processes :
         /\ data[p] \subseteq 1 .. MaxId
         /\ held[p] \subseteq Centroid
         /\ nearest[p] \subseteq Ids(held[p])
         /\ last[p] \in 0 .. MaxId
         /\ total[p] \in Nat /\ current[p] \in Nat
         /\ moves[p] \subseteq [to : nearest[p], ids : (SUBSET (1 .. MaxId)) \ {{}}]
         /\ DOMAIN found[p] \subseteq 1 .. MaxId
         /\ \A k \in DOMAIN found[p] :
              found[p][k] \in [upto : 0 .. MaxId, ids : SUBSET (1 .. MaxId)]
  OBVIOUS
<1> QED BY <1>1 DEF TypeOK

\* It holds of the stock.
LEMMA FInvInit == Init => FInv
<1> SUFFICES ASSUME Init PROVE FInv
  OBVIOUS
<1>1. fresh \in 1 .. MaxId + 1 /\ \A x \in Stock : x.id < fresh /\ x.centroid < fresh
  <2> DEFINE S == {e.id : e \in Stock} \union {e.centroid : e \in Stock} \union {0}
  <2>1. S \in SUBSET (0 .. MaxId) /\ S # {}
    BY RefreshAssumption DEF Row
  <2>2. \A x \in Stock : /\ x.id \in S /\ x.centroid \in S
                         /\ x.id \in 1 .. MaxId /\ x.centroid \in 1 .. MaxId
    BY RefreshAssumption DEF Row
  <2>3. fresh = Max(S) + 1
    BY DEF Init
  <2> HIDE DEF S
  <2>4. Max(S) \in S /\ \A y \in S : Max(S) >= y
    <3>1. Max(S) \in S
      BY <2>1, MaxOf
    <3>2. \E x \in S : \A y \in S : x >= y
      BY <2>1, LargestId
    <3> QED BY <3>1, <3>2 DEF Max
  <2>5. Max(S) \in 0 .. MaxId /\ MaxId \in Nat
    BY <2>1, <2>4, RefreshAssumption
  <2>6. fresh \in 1 .. MaxId + 1
    BY <2>3, <2>5
  <2>7. ASSUME NEW x \in Stock PROVE x.id < fresh /\ x.centroid < fresh
    BY <2>2, <2>3, <2>4, <2>5
  <2> QED BY <2>6, <2>7
<1>2. embeddings = Stock /\ embeddings \subseteq Row /\ Unique(embeddings)
  <2>1. embeddings = Stock
    BY DEF Init
  <2>2. Stock \subseteq Row /\ \A x, y \in Stock : x.id = y.id => x = y
    BY RefreshAssumption
  <2> QED BY <2>1, <2>2 DEF Unique
<1>3. \A k \in centroids : \E e \in Stock :
        k = [id |-> e.centroid, category |-> e.category, mean |-> KMeansVector]
  BY DEF Init
<1>4. \A e \in Stock : /\ e.id \in 1 .. MaxId /\ e.centroid \in 1 .. MaxId
                       /\ e.category \in Categories
  BY RefreshAssumption DEF Row
<1>5. centroids \subseteq Centroid /\ \A k \in centroids : k.id < fresh
  <2>1. KMeansVector \in SUBSET (0 .. MaxId)
    BY RefreshAssumption DEF KMeansVector
  <2> QED BY <1>1, <1>3, <1>4, <2>1 DEF Centroid
<1>6. Unique(centroids)
  <2> SUFFICES ASSUME NEW x \in centroids, NEW y \in centroids, x.id = y.id PROVE x = y
    BY DEF Unique
  <2>1. PICK e \in Stock : x = [id |-> e.centroid, category |-> e.category, mean |-> KMeansVector]
    BY <1>3
  <2>2. PICK f \in Stock : y = [id |-> f.centroid, category |-> f.category, mean |-> KMeansVector]
    BY <1>3
  <2>3. e.centroid = f.centroid
    BY <2>1, <2>2
  <2>4. e.category = f.category
    <3>1. \A g, h \in Stock : g.centroid = h.centroid => g.category = h.category
      BY RefreshAssumption
    <3> QED BY <2>3, <3>1
  <2> QED BY <2>1, <2>2, <2>3, <2>4
<1>7. Filed
  <2> SUFFICES ASSUME NEW e \in Stock
               PROVE  \E k \in centroids : k.id = e.centroid /\ k.category = e.category
    BY <1>2 DEF Filed
  <2>1. [id |-> e.centroid, category |-> e.category, mean |-> KMeansVector] \in centroids
    BY DEF Init
  <2> QED BY <2>1
<1>8. Tables
  BY <1>1, <1>2, <1>5, <1>6, <1>7 DEF Init, Tables
<1>9. Places /\ Shapes
  BY DEF Init, Places, Shapes
<1>10. ASSUME NEW p \in Processes PROVE Hand(p)
  <2>1. /\ data[p] = {} /\ held[p] = {} /\ nearest[p] = {} /\ last[p] = 0 /\ moves[p] = {}
        /\ found[p] = <<>> /\ ~Working(p)
    BY DEF Init, Working
  <2>2. DOMAIN found[p] = {}
    BY <2>1
  <2>3. 0 \in 0 .. MaxId
    BY RefreshAssumption
  <2> QED BY <2>1, <2>2, <2>3 DEF Hand, Locked, Empty, HandTypes, Mine, MovesMine, Ids, Unique
<1> QED BY <1>8, <1>9, <1>10 DEF FInv

-----------------------------------------------------------------------------
(* What a step leaves alone.                                                 *)

\* A process that does not take the step.
Same(q) ==
    /\ UNCHANGED <<cat[q], data[q], held[q], nearest[q], last[q], moves[q], found[q]>>
    /\ pc'[q] = pc[q] \/ (~Working(q) /\ ~Working(q)')

\* What a step may do to the tables without a process being troubled.
Benign(q) ==
    /\ postgres' = postgres
    /\ fresh' \in Int /\ fresh <= fresh'
    /\ Working(q) =>
         /\ \A k \in centroids : k.category = cat[q] =>
              \E x \in centroids' : x.id = k.id /\ x.category = cat[q]
         /\ postgres => q \in shared'[cat[q]]
    /\ \A e \in embeddings' :
         \/ ~(e.id < fresh)
         \/ \E x \in embeddings : x.id = e.id /\ x.category = e.category

\* A process beside a benign step has in hand what it had.
LEMMA HandKept ==
  ASSUME FInv, NEW q \in Processes, Same(q), Benign(q)
  PROVE  Hand(q)'
<1>1. Hand(q)
  BY DEF FInv
<1>2. Locked(q)'
  BY <1>1 DEF Hand, Locked, Same, Benign, Working
<1>6. Empty(q)'
  BY <1>1 DEF Hand, Empty, Same, Working
<1>3. HandTypes(q)'
  BY <1>1 DEF Hand, HandTypes, Same, Ids
<1>4. Mine(q)'
  <2>1. CASE Working(q)
    <3> SUFFICES ASSUME NEW i \in Ids(held[q]) \union DOMAIN found[q]
                 PROVE  \E k \in centroids' : k.id = i /\ k.category = cat[q]
      BY <1>1 DEF Hand, Mine, Same, Ids, Unique
    <3>1. PICK k \in centroids : k.id = i /\ k.category = cat[q]
      BY <1>1 DEF Hand, Mine
    <3> QED BY <2>1, <3>1 DEF Benign
  <2>2. CASE ~Working(q)
    <3>1. held'[q] = {} /\ found'[q] = <<>>
      BY <1>1, <2>2 DEF Hand, Empty, Working, Same
    <3> QED BY <3>1 DEF Mine, Ids, Unique
  <2> QED BY <2>1, <2>2
<1>5. MovesMine(q)'
  <2> SUFFICES ASSUME NEW g \in moves[q], NEW i \in g.ids
               PROVE  i < fresh' /\ \A e \in embeddings' : e.id = i => e.category = cat[q]
    BY DEF MovesMine, Same
  <2>1. i < fresh /\ \A e \in embeddings : e.id = i => e.category = cat[q]
    BY <1>1 DEF Hand, MovesMine
  <2>2. i \in Nat /\ fresh \in Nat
    BY <1>1, RefreshAssumption DEF Hand, HandTypes, FInv, Tables
  <2>3. i < fresh'
    BY <2>1, <2>2 DEF Benign
  <2> QED BY <2>1, <2>3 DEF Benign
<1> QED BY <1>2, <1>3, <1>4, <1>5, <1>6 DEF Hand

\* A step of one process that leaves the tables as they are.
LEMMA QuietStep ==
  ASSUME FInv, NEW p \in Processes,
         UNCHANGED <<postgres, tables>>,
         \A q \in Processes \ {p} : Same(q),
         \A q \in Processes \ {p}, c \in Categories : q \in shared[c] => q \in shared'[c],
         Places', Shapes', (Same(p) /\ shared' = shared) \/ Hand(p)'
  PROVE  FInv'
<1>1. Tables'
  BY DEF FInv, Tables, Unique, Ids, Filed, tables
<1>2. ASSUME NEW q \in Processes,
             Same(q), \A c \in Categories : q \in shared[c] => q \in shared'[c]
      PROVE  Hand(q)'
  <2>1. cat[q] \in Categories /\ fresh \in Nat /\ Locked(q)
    BY RefreshAssumption DEF FInv, Tables, Places, Hand
  <2>2. Benign(q)
    BY <1>2, <2>1 DEF Locked, Benign, tables
  <2> QED BY <1>2, <2>2, HandKept
<1> QED BY <1>1, <1>2 DEF FInv

-----------------------------------------------------------------------------
(* Steps that leave the tables as they are.                                  *)

\* The categories are listed and one is passed over.
LEMMA ListingKeeps ==
  ASSUME FInv, NEW p \in Processes,
         List(p) \/ CategoryGone(p) \/ AllDone(p) \/ \E c \in Categories : LockRefused(p, c)
  PROVE  FInv'
<1>1. UNCHANGED <<postgres, tables>> /\ UNCHANGED <<shared, cat, work, sound>>
  BY DEF List, CategoryGone, AllDone, LockRefused
<1>2. Places'
  BY <1>1 DEF FInv, Tables, Places, List, CategoryGone, AllDone, LockRefused, Go
<1>3. Shapes'
  BY <1>1 DEF FInv, Shapes, work
<1>4. \A q \in Processes : pc'[q] = pc[q] \/ (~Working(q) /\ ~Working(q)')
  BY DEF Working, FInv, Places, List, CategoryGone, AllDone, LockRefused, Go
<1>5. \A q \in Processes : Same(q)
  BY <1>1, <1>4 DEF Same, work
<1> QED BY <1>1, <1>2, <1>3, <1>5, QuietStep

\* A category is begun with empty hands.
LEMMA LockKeeps == ASSUME FInv, NEW p \in Processes, NEW c \in Categories, Lock(p, c) PROVE FInv'
<1>1. UNCHANGED <<postgres, tables>> /\ UNCHANGED work
  BY DEF Lock
<1>2. /\ shared' \in [Categories -> SUBSET Processes]
      /\ \A d \in Categories : shared[d] \subseteq shared'[d]
      /\ postgres => p \in shared'[c]
  BY DEF Lock, ShareLock, FInv, Places
<1>3. Places'
  <2>1. sound' \in [Processes -> BOOLEAN]
    BY DEF Lock
  <2>2. todo' \in [Processes -> SUBSET Categories] /\ cat' \in [Processes -> Categories]
    BY DEF Lock, FInv, Places
  <2> QED BY <1>2, <2>1, <2>2 DEF Lock, FInv, Places, Go
<1>4. Shapes'
  BY <1>1 DEF FInv, Shapes, work
<1>5. \A q \in Processes \ {p} : Same(q)
  <2>1. \A q \in Processes \ {p} : pc'[q] = pc[q] /\ cat'[q] = cat[q]
    BY DEF Working, FInv, Places, Lock, Go
  <2> QED BY <1>1, <2>1 DEF Same, work
<1>6. Hand(p)'
  <2>1. /\ data[p] = {} /\ held[p] = {} /\ nearest[p] = {} /\ moves[p] = {}
        /\ found[p] = <<>>
    BY DEF Lock, FInv, Hand, Empty
  <2>2. cat'[p] = c /\ pc'[p] = "count" /\ postgres' = postgres
    BY DEF Lock, FInv, Places, Go
  <2>3. Locked(p)'
    BY <1>2, <2>2 DEF Locked, Working
  <2>6. Empty(p)'
    BY <1>1, <2>1 DEF Empty, work
  <2>4. HandTypes(p)'
    BY <1>1 DEF FInv, Hand, HandTypes, work, Ids
  <2>5. Mine(p)' /\ MovesMine(p)'
    BY <1>1, <2>1 DEF Mine, MovesMine, Ids, Unique, work
  <2> QED BY <2>3, <2>4, <2>5, <2>6 DEF Hand
<1> QED BY <1>1, <1>2, <1>3, <1>4, <1>5, <1>6, QuietStep

\* The ways out of it.
Leaving(p) == Unlock(p) \/ Fail(p) \/ NothingToTake(p) \/ Shutdown(p)

\* It is left with empty hands.
LEMMA LeaveKeeps ==
  ASSUME FInv, NEW p \in Processes, Leaving(p)
  PROVE  FInv'
<1>1. UNCHANGED <<postgres, tables>> /\ UNCHANGED <<todo, cat>> /\ Leave(p)
  BY DEF Leaving, Unlock, Fail, NothingToTake, Shutdown
<1>2. pc' \in [Processes -> {"list", "next", "count", "take", "read", "retrieve", "save",
                             "scan", "drop", "centre", "wait", "unlock", "end"}]
      /\ ~Working(p)' /\ \A q \in Processes \ {p} : pc'[q] = pc[q]
  BY DEF Leaving, Unlock, Fail, NothingToTake, Shutdown, FInv, Places, Go, Working
<1>3. /\ shared' \in [Categories -> SUBSET Processes]
      /\ \A q \in Processes \ {p}, c \in Categories : q \in shared[c] => q \in shared'[c]
  BY <1>1 DEF Leave, FInv, Places
<1>4. Places'
  BY <1>1, <1>2, <1>3 DEF Leave, FInv, Places
<1>5. Shapes'
  BY <1>1 DEF Leave, FInv, Shapes
<1>6. \A q \in Processes \ {p} : Same(q)
  BY <1>1, <1>2 DEF Leave, FInv, Shapes, Same, Working
<1>7. Hand(p)'
  <2>1. /\ data'[p] = {} /\ held'[p] = {} /\ nearest'[p] = {} /\ last'[p] = 0
        /\ moves'[p] = {} /\ found'[p] = <<>>
    BY <1>1 DEF Leave, FInv, Shapes
  <2>2. DOMAIN found'[p] = {} /\ 0 \in 0 .. MaxId
    BY <2>1, RefreshAssumption
  <2>3. Locked(p)'
    BY <1>2, <2>1 DEF Locked
  <2>6. Empty(p)'
    BY <2>1 DEF Empty
  <2>4. HandTypes(p)'
    BY <2>1, <2>2 DEF HandTypes, Ids
  <2>5. Mine(p)' /\ MovesMine(p)'
    BY <2>1, <2>2 DEF Mine, MovesMine, Ids, Unique
  <2> QED BY <2>3, <2>4, <2>5, <2>6 DEF Hand
<1> QED BY <1>1, <1>3, <1>4, <1>5, <1>6, <1>7, QuietStep

\* A step of a process at its category.
AtWork(p) ==
    /\ Working(p) /\ Working(p)'
    /\ UNCHANGED <<postgres, shared, todo, cat>>
    /\ \E place : pc' = [pc EXCEPT ![p] = place]
    /\ pc'[p] \in {"count", "take", "read", "retrieve", "save", "scan", "drop", "centre",
                   "wait", "unlock"}
    /\ sound' \in [Processes -> BOOLEAN]

\* A step at a category keeps the lock and the others' places.
LEMMA AtWorkKeeps ==
  ASSUME FInv, NEW p \in Processes, AtWork(p)
  PROVE  /\ Places' /\ Locked(p)'
         /\ \A q \in Processes \ {p} : pc'[q] = pc[q] /\ cat'[q] = cat[q]
<1>1. Places'
  BY DEF AtWork, FInv, Places
<1>2. Locked(p)'
  BY DEF AtWork, FInv, Hand, Locked, Working
<1>3. \A q \in Processes \ {p} : pc'[q] = pc[q] /\ cat'[q] = cat[q]
  BY DEF AtWork, FInv, Places, Working
<1> QED BY <1>1, <1>2, <1>3

\* A step at a category that reads.
LEMMA QuietWork ==
  ASSUME FInv, NEW p \in Processes, AtWork(p), UNCHANGED tables, Shapes',
         \A q \in Processes \ {p} :
           UNCHANGED <<data[q], held[q], nearest[q], last[q], moves[q], found[q]>>,
         Empty(p)', HandTypes(p)', Mine(p)', MovesMine(p)'
  PROVE  FInv'
<1>1. \A q \in Processes \ {p} : Same(q)
  BY AtWorkKeeps DEF Same
<1>2. Hand(p)'
  BY AtWorkKeeps DEF Hand
<1>3. UNCHANGED <<postgres, shared>>
  BY DEF AtWork
<1> QED BY <1>1, <1>2, <1>3, AtWorkKeeps, QuietStep

\* Statements that take nothing, and the wait.
Passing(p) == Count(p) \/ Take(p) \/ Completed(p) \/ Waited(p)

\* The data set and the centroids are read.
LEMMA ReadKeeps ==
  ASSUME FInv, NEW p \in Processes, Passing(p) \/ Read(p) \/ Retrieve(p)
  PROVE  FInv'
<1> USE DEF Passing, Count, Take, Completed, Waited, Read, Retrieve
<1>1. AtWork(p)
  BY DEF AtWork, Working, FInv, Places, Go, work
<1>2. UNCHANGED tables /\ UNCHANGED <<nearest, moves, found, cat>>
  BY DEF work
<1>3. Shapes'
  BY DEF FInv, Shapes, work
<1>4. \A q \in Processes \ {p} : UNCHANGED <<data[q], held[q], last[q]>>
  BY DEF FInv, Shapes, work
<1>5. data'[p] \subseteq 1 .. MaxId /\ last'[p] \in 0 .. MaxId
  <2>1. CASE Read(p)
    <3> DEFINE batch == BatchAfter(Joined(cat[p]), last[p])
    <3>1. /\ data'[p] = data[p] \union Ids(batch)
          /\ last'[p] \in {0, KeyAfter(batch, last[p])}
      BY <2>1 DEF FInv, Shapes
    <3>2. \A e \in batch : e.id \in 1 .. MaxId
      BY DEF BatchAfter, Joined, FInv, Tables, Row
    <3>3. data[p] \subseteq 1 .. MaxId
      BY DEF FInv, Hand, HandTypes
    <3> HIDE DEF batch
    <3>4. KeyAfter(batch, last[p]) \in 0 .. MaxId
      BY <3>2, KeyAfterType
    <3> QED BY <3>1, <3>2, <3>3, <3>4, RefreshAssumption DEF Ids
  <2>2. CASE ~Read(p)
    BY <2>2 DEF FInv, Shapes, Hand, HandTypes, work
  <2> QED BY <2>1, <2>2
<1>6. /\ nearest[p] = {} /\ moves[p] = {} /\ found[p] = <<>>
      /\ pc'[p] # "centre"
  BY DEF FInv, Places, Hand, Empty, Go
<1>7. \/ held'[p] = {}
      \/ held'[p] = CentroidsOf(cat[p]) /\ pc'[p] = "save"
  BY DEF FInv, Places, Hand, Empty, Shapes, work, Go
<1>8. HandTypes(p)'
  BY <1>2, <1>5, <1>6, <1>7 DEF FInv, Tables, Hand, HandTypes, CentroidsOf
<1>9. Mine(p)'
  BY <1>2, <1>6, <1>7 DEF FInv, Tables, Mine, CentroidsOf, Ids, Unique, tables
<1>10. MovesMine(p)'
  BY <1>2, <1>6 DEF MovesMine
<1>11. Empty(p)'
  <2>1. pc'[p] \in {"count", "take"} => data'[p] = {}
    BY DEF FInv, Places, Hand, Empty, Go
  <2> QED BY <1>1, <1>2, <1>6, <1>7, <2>1 DEF Empty, AtWork
<1> QED BY <1>1, <1>2, <1>3, <1>4, <1>8, <1>9, <1>10, <1>11, QuietWork

\* A batch is read and grouped: it is of the category at hand.
LEMMA ScanKeeps == ASSUME FInv, NEW p \in Processes, Scan(p) PROVE FInv'
<1> DEFINE batch == BatchAfter(Joined(cat[p]), last[p])
<1>1. AtWork(p)
  BY DEF AtWork, Scan, Working, FInv, Places, Go
<1>2. UNCHANGED tables /\ UNCHANGED <<data, held, nearest, found, cat>>
  BY DEF Scan
<1>3. Shapes' /\ \A q \in Processes \ {p} : UNCHANGED <<last[q], moves[q]>>
  BY DEF Scan, FInv, Shapes
<1>4. \A e \in batch : e \in embeddings /\ e.id \in 1 .. MaxId /\ e.category = cat[p]
  BY DEF BatchAfter, Joined, FInv, Tables, Row
<1>5. last'[p] \in 0 .. MaxId
  <2>1. last'[p] = KeyAfter(batch, last[p])
    BY DEF Scan, FInv, Shapes
  <2> HIDE DEF batch
  <2> QED BY <1>4, <2>1, KeyAfterType
<1>6. PICK to \in [Ids(batch) -> nearest[p]] : moves'[p] = Groups(batch, to)
  BY DEF Scan, FInv, Shapes
<1>7. pc'[p] = IF batch = {} THEN "drop" ELSE "scan"
  BY DEF Scan, FInv, Places, Go
<1> HIDE DEF batch
<1>8. ASSUME NEW g \in Groups(batch, to)
      PROVE  /\ g \in [to : nearest[p], ids : (SUBSET (1 .. MaxId)) \ {{}}]
             /\ \A i \in g.ids : \E e \in batch : e.id = i
  <2>1. PICK k \in Range(to) :
           g = [to |-> k, ids |-> {e.id : e \in {f \in batch : to[f.id] = k /\ f.centroid # k}}]
    BY DEF Groups
  <2>2. g.ids # {}
    BY DEF Groups
  <2>3. k \in nearest[p]
    BY DEF Range
  <2>4. g.to = k /\ \A i \in g.ids : \E e \in batch : e.id = i
    BY <2>1
  <2>5. g.ids \in (SUBSET (1 .. MaxId)) \ {{}}
    <3>1. \A i \in g.ids : i \in 1 .. MaxId
      BY <1>4, <2>4
    <3>2. g.ids \subseteq 1 .. MaxId
      BY <3>1
    <3>3. g.ids \in SUBSET (1 .. MaxId) /\ g.ids \notin {{}}
      BY <2>2, <3>2
    <3> QED BY <3>3
  <2>6. g = [to |-> g.to, ids |-> g.ids]
    BY <2>1
  <2> QED BY <2>3, <2>4, <2>5, <2>6
<1>9. HandTypes(p)'
  BY <1>2, <1>5, <1>6, <1>8 DEF FInv, Hand, HandTypes, Ids
<1>10. Mine(p)'
  BY <1>2 DEF FInv, Hand, Mine, Ids, Unique, tables
<1>11. MovesMine(p)'
  <2> SUFFICES ASSUME NEW g \in Groups(batch, to), NEW i \in g.ids
               PROVE  i < fresh /\ \A e \in embeddings : e.id = i => e.category = cat[p]
    BY <1>2, <1>6 DEF MovesMine, tables
  <2>1. PICK e \in batch : e.id = i
    BY <1>8
  <2> QED BY <1>4, <2>1 DEF FInv, Tables, Unique
<1>12. Empty(p)'
  <2>1. batch = {} => Groups(batch, to) = {}
    BY DEF Groups, Range, Ids
  <2>2. found[p] = <<>>
    BY DEF Scan, FInv, Hand, Empty
  <2> QED BY <1>2, <1>6, <1>7, <2>1, <2>2 DEF Empty
<1> QED BY <1>1, <1>2, <1>3, <1>9, <1>10, <1>11, <1>12, QuietWork

\* A group is given up.
LEMMA UpdateFailsKeeps ==
  ASSUME FInv, NEW p \in Processes, NEW g \in moves[p], UpdateFails(p, g)
  PROVE  FInv'
<1>1. AtWork(p)
  <2>1. pc' = [pc EXCEPT ![p] = pc[p]]
    BY DEF UpdateFails, FInv, Places
  <2> QED BY <2>1 DEF AtWork, UpdateFails, Working, FInv, Places
<1>2. UNCHANGED tables /\ UNCHANGED <<pc, data, held, nearest, last, found, cat>>
  BY DEF UpdateFails
<1>3. Shapes' /\ \A q \in Processes \ {p} : moves'[q] = moves[q]
  BY DEF UpdateFails, FInv, Shapes
<1>4. moves'[p] \subseteq moves[p]
  BY DEF UpdateFails, FInv, Shapes
<1>5. HandTypes(p)'
  BY <1>2, <1>4 DEF FInv, Hand, HandTypes, Ids
<1>6. Mine(p)'
  BY <1>2 DEF FInv, Hand, Mine, Ids, Unique, tables
<1>7. MovesMine(p)'
  BY <1>2, <1>4 DEF FInv, Hand, MovesMine, tables
<1>8. Empty(p)'
  BY <1>2, <1>4 DEF FInv, Hand, Empty
<1> QED BY <1>1, <1>2, <1>3, <1>5, <1>6, <1>7, <1>8, QuietWork

\* A batch is measured, or the centroid given up.
LEMMA MeasureKeeps ==
  ASSUME FInv, NEW p \in Processes, NEW k \in DOMAIN found[p], Measure(p, k) \/ RecentreFails(p, k)
  PROVE  FInv'
<1>1. AtWork(p)
  <2>1. pc' = [pc EXCEPT ![p] = pc[p]]
    BY DEF Measure, RecentreFails, FInv, Places
  <2> QED BY <2>1 DEF AtWork, Measure, RecentreFails, Working, FInv, Places
<1>2. UNCHANGED tables /\ UNCHANGED <<pc, data, held, nearest, last, moves, cat>> /\ pc[p] = "centre"
  BY DEF Measure, RecentreFails
<1>3. Shapes' /\ \A q \in Processes \ {p} : found'[q] = found[q]
  BY DEF Measure, RecentreFails, FInv, Shapes
<1>4. /\ DOMAIN found'[p] \subseteq DOMAIN found[p]
      /\ \A i \in DOMAIN found'[p] :
           found'[p][i] \in [upto : 0 .. MaxId, ids : SUBSET (1 .. MaxId)]
  <2>1. CASE Measure(p, k)
    <3> DEFINE batch == BatchAfter(Under(k), found[p][k].upto)
               new == [upto |-> KeyAfter(batch, found[p][k].upto),
                       ids  |-> found[p][k].ids \union Ids(batch)]
    <3>1. \A e \in batch : e.id \in 1 .. MaxId
      BY DEF BatchAfter, Under, FInv, Tables, Row
    <3>2. found[p][k] \in [upto : 0 .. MaxId, ids : SUBSET (1 .. MaxId)]
      BY DEF FInv, Hand, HandTypes
    <3>3. found' = [found EXCEPT ![p][k] = new]
      BY <2>1 DEF Measure
    <3> HIDE DEF batch
    <3>4. KeyAfter(batch, found[p][k].upto) \in 0 .. MaxId
      BY <3>1, KeyAfterType
    <3>5. new \in [upto : 0 .. MaxId, ids : SUBSET (1 .. MaxId)]
      BY <3>1, <3>2, <3>4 DEF Ids
    <3> HIDE DEF new
    <3>6. found'[p] = [found[p] EXCEPT ![k] = new]
      BY <3>3 DEF FInv, Shapes
    <3> QED BY <3>5, <3>6 DEF FInv, Hand, HandTypes
  <2>2. CASE RecentreFails(p, k)
    <3>1. found'[p] = [i \in DOMAIN found[p] \ {k} |-> found[p][i]]
      BY <2>2 DEF RecentreFails, Others, FInv, Shapes
    <3> QED BY <3>1 DEF FInv, Hand, HandTypes
  <2> QED BY <2>1, <2>2
<1>5. HandTypes(p)'
  BY <1>2, <1>4 DEF FInv, Hand, HandTypes, Ids
<1>6. Mine(p)'
  BY <1>2, <1>4 DEF FInv, Hand, Mine, Ids, Unique, tables
<1>7. MovesMine(p)' /\ Empty(p)'
  BY <1>2 DEF FInv, Hand, MovesMine, Empty, tables
<1> QED BY <1>1, <1>2, <1>3, <1>5, <1>6, <1>7, QuietWork

\* Every small centroid would have to be smaller than itself.
LEMMA NoneDropped == ASSUME FInv PROVE Dropped = {}
<1> SUFFICES ASSUME NEW k \in Dropped PROVE FALSE
  OBVIOUS
<1>1. ASSUME NEW c PROVE Total(c) \in Nat
  <2> DEFINE rows == Under(c.id)
  <2>1. /\ \A x \in rows : x.id \in 1 .. MaxId
        /\ \A x, y \in rows : x.id = y.id => x = y
    BY DEF Under, FInv, Tables, Unique, Row
  <2> HIDE DEF rows
  <2>2. Cardinality(rows) \in Nat
    BY <2>1, RowsFinite
  <2> QED BY <2>2 DEF Total, rows
<1>2. PICK s \in Counted : Total(s) < Small
  BY DEF Dropped
<1>3. /\ k \in Counted /\ Total(k) < Total(s)
      /\ \A c \in Counted : Total(c) < Small => Total(k) < Total(c)
  BY <1>2 DEF Dropped
<1>4. Total(k) \in Nat /\ Total(s) \in Nat /\ Small \in Nat
  BY <1>1, RefreshAssumption
<1>5. Total(k) < Small
  BY <1>2, <1>3, <1>4
<1> QED BY <1>3, <1>4, <1>5

\* Nothing is dropped, and the rows in hand are to be measured.
LEMMA DropKeeps == ASSUME FInv, NEW p \in Processes, Drop(p) PROVE FInv'
<1>1. AtWork(p)
  BY DEF AtWork, Drop, Working, FInv, Places, Go
<1>2. UNCHANGED tables
  <2>1. PICK place : embeddings' = {IF e.centroid \in Ids(Dropped)
                                    THEN [e EXCEPT !.centroid = place] ELSE e : e \in embeddings}
    BY DEF Drop
  <2>2. Ids(Dropped) = {}
    BY NoneDropped DEF Ids
  <2>3. embeddings' = embeddings
    BY <2>1, <2>2
  <2> QED BY <2>3 DEF Drop, tables
<1>3. Shapes' /\ \A q \in Processes \ {p} : UNCHANGED <<held[q], nearest[q], found[q]>>
  BY DEF Drop, FInv, Shapes
<1>4. /\ UNCHANGED <<data, last, moves, cat>> /\ pc'[p] = "centre"
      /\ held'[p] = {} /\ nearest'[p] = {} /\ moves[p] = {}
      /\ found'[p] = [k \in Ids(held[p]) |-> [upto |-> 0, ids |-> {}]]
  BY DEF Drop, FInv, Places, Hand, Empty, Shapes, Go
<1>5. HandTypes(p)'
  <2>1. Ids(held[p]) \subseteq 1 .. MaxId /\ 0 \in 0 .. MaxId
    BY RefreshAssumption DEF FInv, Hand, HandTypes, Ids, Centroid
  <2>2. \A k \in DOMAIN found'[p] :
          found'[p][k] \in [upto : 0 .. MaxId, ids : SUBSET (1 .. MaxId)]
    BY <1>4, <2>1
  <2> QED BY <1>4, <2>1, <2>2 DEF FInv, Hand, HandTypes, Ids
<1>6. Mine(p)'
  <2> SUFFICES ASSUME NEW i \in Ids(held[p])
               PROVE  \E k \in centroids : k.id = i /\ k.category = cat[p]
    BY <1>2, <1>4 DEF Mine, Ids, Unique, tables
  <2> QED BY DEF FInv, Hand, Mine
<1>7. MovesMine(p)' /\ Empty(p)'
  BY <1>4 DEF MovesMine, Empty
<1> QED BY <1>1, <1>2, <1>3, <1>4, <1>5, <1>6, <1>7, QuietWork

-----------------------------------------------------------------------------
(* Steps of a process that write.                                            *)

\* Rows written over rows of the same category.
LEMMA CentroidsWritten ==
  ASSUME FInv, NEW p \in Processes, AtWork(p),
         UNCHANGED <<categories, embeddings, orphans>>,
         fresh' \in fresh .. MaxId + 1,
         NEW rows, centroids' = Written(rows),
         rows \subseteq Centroid, Unique(rows), \A r \in rows : r.id < fresh',
         \A k \in centroids, r \in rows : k.id = r.id => k.category = r.category
  PROVE  /\ Tables'
         /\ \A k \in centroids :
              \E x \in centroids' : x.id = k.id /\ x.category = k.category
         /\ \A q \in Processes \ {p} : Benign(q)
<1>1. centroids' \subseteq Centroid /\ Unique(centroids)'
  BY DEF FInv, Tables, Unique, Written, Ids
<1>2. ASSUME NEW k \in centroids
      PROVE  \E x \in centroids' : x.id = k.id /\ x.category = k.category
  <2>1. CASE k.id \in Ids(rows)
    <3>1. PICK r \in rows : r.id = k.id
      BY <2>1 DEF Ids
    <3> QED BY <3>1 DEF Written
  <2>2. CASE k.id \notin Ids(rows)
    BY <2>2 DEF Written
  <2> QED BY <2>1, <2>2
<1>3. fresh \in Nat /\ fresh' \in Nat /\ fresh <= fresh' /\ fresh' \in 1 .. MaxId + 1
  BY RefreshAssumption DEF FInv, Tables
<1>4. \A x \in embeddings' \union centroids' : x.id < fresh'
  <2>1. \A x \in embeddings \union centroids : x.id < fresh /\ x.id \in Nat
    BY DEF FInv, Tables, Row, Centroid
  <2>2. ASSUME NEW x \in embeddings \union centroids PROVE x.id < fresh'
    BY <1>3, <2>1
  <2> QED BY <2>2 DEF Written
<1>5. Filed'
  <2> SUFFICES ASSUME NEW e \in embeddings
               PROVE  \E k \in centroids' : k.id = e.centroid /\ k.category = e.category
    BY DEF Filed
  <2>1. PICK k \in centroids : k.id = e.centroid /\ k.category = e.category
    BY DEF FInv, Tables, Filed
  <2> QED BY <1>2, <2>1
<1>6. postgres' = postgres /\ shared' = shared
  BY DEF AtWork
<1>7. Tables'
  BY <1>1, <1>3, <1>4, <1>5, <1>6 DEF FInv, Tables, Unique, Ids
<1>8. ASSUME NEW q \in Processes \ {p} PROVE Benign(q)
  BY <1>2, <1>3, <1>6 DEF FInv, Hand, Locked, Benign
<1> QED BY <1>2, <1>7, <1>8

\* A step at a category that writes.
LEMMA WritingWork ==
  ASSUME FInv, NEW p \in Processes, AtWork(p), Tables', Shapes',
         \A q \in Processes \ {p} :
           /\ Benign(q)
           /\ UNCHANGED <<data[q], held[q], nearest[q], last[q], moves[q], found[q]>>,
         Empty(p)', HandTypes(p)', Mine(p)', MovesMine(p)'
  PROVE  FInv'
<1>1. \A q \in Processes \ {p} : Same(q)
  BY AtWorkKeeps DEF Same
<1>2. Hand(p)'
  BY AtWorkKeeps DEF Hand
<1> QED BY <1>1, <1>2, AtWorkKeeps, HandKept DEF FInv

\* A mean is written over its centroid.
LEMMA RecentreKeeps ==
  ASSUME FInv, NEW p \in Processes, NEW k \in DOMAIN found[p], Recentre(p, k)
  PROVE  FInv'
<1> DEFINE r == [id |-> k, category |-> cat[p], mean |-> found[p][k].ids]
<1>1. AtWork(p)
  <2>1. pc' = [pc EXCEPT ![p] = pc[p]]
    BY DEF Recentre, FInv, Places
  <2> QED BY <2>1 DEF AtWork, Recentre, Working, FInv, Places
<1>2. /\ UNCHANGED <<categories, embeddings, orphans, fresh>>
      /\ UNCHANGED <<pc, data, held, nearest, last, moves, cat>> /\ pc[p] = "centre"
      /\ centroids' = Written({r})
  BY DEF Recentre
<1>3. PICK old \in centroids : old.id = k /\ old.category = cat[p]
  BY DEF FInv, Hand, Mine
<1>4. r.id = old.id /\ r.category = old.category /\ r \in Centroid
  <2>1. k \in 1 .. MaxId /\ cat[p] \in Categories /\ found[p][k].ids \in SUBSET (0 .. MaxId)
    BY DEF FInv, Places, Hand, HandTypes
  <2> QED BY <1>3, <2>1 DEF Centroid
<1> HIDE DEF r
<1>5. fresh' \in fresh .. MaxId + 1 /\ r.id < fresh'
  BY <1>2, <1>4, RefreshAssumption DEF FInv, Tables
<1>6. /\ Unique({r})
      /\ \A c \in centroids : c.id = r.id => c.category = r.category
  BY <1>4 DEF FInv, Tables, Unique
<1>7. /\ Tables'
      /\ \A c \in centroids : \E x \in centroids' : x.id = c.id /\ x.category = c.category
      /\ \A q \in Processes \ {p} : Benign(q)
  <2> DEFINE rows == {r}
  <2>1. /\ rows \subseteq Centroid /\ Unique(rows) /\ centroids' = Written(rows)
        /\ \A s \in rows : s.id < fresh'
        /\ \A c \in centroids, s \in rows : c.id = s.id => c.category = s.category
    BY <1>2, <1>4, <1>5, <1>6
  <2> HIDE DEF rows
  <2> QED BY <1>1, <1>2, <1>5, <2>1, CentroidsWritten
<1>8. Shapes' /\ \A q \in Processes \ {p} : found'[q] = found[q]
  BY DEF Recentre, FInv, Shapes
<1>9. found'[p] = [i \in DOMAIN found[p] \ {k} |-> found[p][i]]
  BY DEF Recentre, Others, FInv, Shapes
<1>10. HandTypes(p)'
  BY <1>2, <1>9 DEF FInv, Hand, HandTypes, Ids
<1>11. Mine(p)'
  <2>1. ASSUME NEW i \in Ids(held[p]) \union DOMAIN found[p]
        PROVE  \E c \in centroids' : c.id = i /\ c.category = cat[p]
    <3>1. PICK c \in centroids : c.id = i /\ c.category = cat[p]
      BY DEF FInv, Hand, Mine
    <3> QED BY <1>7, <3>1
  <2>2. (\A k1 \in held[p] : k1.category = cat[p]) /\ Unique(held[p])
    BY DEF FInv, Hand, Mine
  <2>3. DOMAIN found'[p] \subseteq DOMAIN found[p] /\ held'[p] = held[p] /\ cat'[p] = cat[p]
    BY <1>2, <1>9
  <2> QED BY <2>1, <2>2, <2>3 DEF Mine, Ids, Unique
<1>12. MovesMine(p)' /\ Empty(p)'
  BY <1>2 DEF FInv, Hand, MovesMine, Empty
<1> QED BY <1>1, <1>2, <1>7, <1>8, <1>10, <1>11, <1>12, WritingWork

\* The data set and the rows in hand can be counted.
LEMMA HandFinite ==
  ASSUME FInv, NEW p \in Processes
  PROVE  /\ Ids(held[p]) \subseteq 1 .. MaxId
         /\ Cardinality(Ids(held[p])) \in Nat /\ Cardinality(data[p]) \in Nat
<1>1. ASSUME NEW S, S \subseteq 1 .. MaxId PROVE Cardinality(S) \in Nat
  <2>1. IsFiniteSet(1 .. MaxId)
    BY RefreshAssumption, FS_Interval
  <2> QED BY <1>1, <2>1, FS_Subset, FS_CardinalityType
<1>2. Ids(held[p]) \subseteq 1 .. MaxId /\ data[p] \subseteq 1 .. MaxId
  BY DEF FInv, Hand, HandTypes, Centroid, Ids
<1> QED BY <1>1, <1>2

\* The new vectors are written over the rows in hand and under new keys.
LEMMA SaveKeeps == ASSUME FInv, NEW p \in Processes, Save(p) PROVE FInv'
<1> DEFINE old == Ids(held[p])
<1>1. AtWork(p)
  BY DEF AtWork, Save, Working, FInv, Places, Go
<1>2. /\ UNCHANGED <<categories, embeddings, orphans>>
      /\ UNCHANGED <<data, last, moves, found, cat>> /\ pc'[p] = "scan"
      /\ nearest[p] = {} /\ moves[p] = {} /\ found[p] = <<>>
  BY DEF Save, FInv, Places, Hand, Empty, Go
<1>3. PICK n \in 1 .. Cardinality(data[p]) :
        LET new == fresh .. fresh + n - Cardinality(old) - 1
        IN  /\ fresh + n - Cardinality(old) <= MaxId + 1
            /\ \E ids \in SUBSET (old \union new) :
               /\ LET rows == {[id |-> i, category |-> cat[p], mean |-> KMeansVector] : i \in ids}
                                \union {k \in held[p] : k.id \notin ids}
                  IN  /\ centroids' = Written(rows)
                      /\ held' = [held EXCEPT ![p] = rows]
               /\ nearest' = [nearest EXCEPT ![p] = ids]
            /\ fresh' = fresh + Cardinality(new)
  BY DEF Save
<1> DEFINE new == fresh .. fresh + n - Cardinality(old) - 1
<1>4. PICK ids \in SUBSET (old \union new) :
        /\ centroids' = Written({[id |-> i, category |-> cat[p], mean |-> KMeansVector] : i \in ids}
                                  \union {k \in held[p] : k.id \notin ids})
        /\ held' = [held EXCEPT ![p] =
                      {[id |-> i, category |-> cat[p], mean |-> KMeansVector] : i \in ids}
                        \union {k \in held[p] : k.id \notin ids}]
        /\ nearest' = [nearest EXCEPT ![p] = ids]
  BY <1>3
<1> DEFINE rows == {[id |-> i, category |-> cat[p], mean |-> KMeansVector] : i \in ids}
                      \union {k \in held[p] : k.id \notin ids}
<1>5. /\ old \subseteq 1 .. MaxId /\ Cardinality(old) \in Nat /\ n \in Nat
      /\ MaxId \in Nat /\ fresh \in 1 .. MaxId + 1
  BY HandFinite, RefreshAssumption DEF FInv, Tables
<1>6. /\ fresh' \in fresh .. MaxId + 1
      /\ \A i \in new : i \in fresh .. MaxId /\ i < fresh'
  <2> DEFINE top == fresh + n - Cardinality(old) - 1
  <2>1. top \in Int /\ fresh \in Int /\ top <= MaxId
    BY <1>3, <1>5
  <2>2. fresh' = fresh + Cardinality(fresh .. top)
    BY <1>3
  <2>6. new = fresh .. top
    OBVIOUS
  <2> HIDE DEF top, new, old
  <2>3. Cardinality(fresh .. top) = IF fresh > top THEN 0 ELSE top - fresh + 1
    BY <2>1, FS_Interval
  <2>4. CASE fresh > top
    <3>1. fresh' = fresh /\ fresh .. top = {}
      BY <1>5, <2>1, <2>2, <2>3, <2>4
    <3> QED BY <1>5, <2>6, <3>1
  <2>5. CASE ~(fresh > top)
    <3>1. fresh' = top + 1
      BY <2>1, <2>2, <2>3, <2>5
    <3>2. fresh' \in fresh .. MaxId + 1
      BY <1>5, <2>1, <2>5, <3>1
    <3>3. \A i \in fresh .. top : i \in fresh .. MaxId /\ i < fresh'
      BY <1>5, <2>1, <3>1
    <3> QED BY <2>6, <3>2, <3>3
  <2> QED BY <2>4, <2>5
<1> HIDE DEF new
<1>7. \A i \in ids : i \in 1 .. MaxId /\ i < fresh'
                     /\ \A k \in centroids : k.id = i => k.category = cat[p]
  <2>1. ASSUME NEW i \in old
        PROVE  /\ i \in 1 .. MaxId /\ i < fresh'
               /\ \A k \in centroids : k.id = i => k.category = cat[p]
    <3>1. PICK c \in centroids : c.id = i /\ c.category = cat[p]
      BY DEF FInv, Hand, Mine
    <3>2. i < fresh
      BY <3>1 DEF FInv, Tables
    <3> QED BY <1>5, <1>6, <3>1, <3>2 DEF FInv, Tables, Unique
  <2>2. ASSUME NEW i \in new
        PROVE  /\ i \in 1 .. MaxId /\ i < fresh'
               /\ \A k \in centroids : k.id = i => k.category = cat[p]
    <3>1. i \in fresh .. MaxId /\ i < fresh'
      BY <1>6
    <3>2. \A k \in centroids : k.id < fresh /\ k.id \in Nat
      BY DEF FInv, Tables, Centroid
    <3> QED BY <1>5, <3>1, <3>2
  <2> HIDE DEF old
  <2> QED BY <2>1, <2>2
<1>8. \A k \in held[p] : /\ k \in Centroid /\ k.id \in old /\ k.id < fresh'
                         /\ \A c \in centroids : c.id = k.id => c.category = k.category
  <2> TAKE k \in held[p]
  <2>1. k \in Centroid /\ k.id \in old
    BY DEF FInv, Hand, HandTypes, Ids
  <2>2. PICK c \in centroids : c.id = k.id /\ c.category = cat[p]
    BY <2>1 DEF FInv, Hand, Mine
  <2>3. c.id < fresh /\ c.id \in Nat
    BY DEF FInv, Tables, Centroid
  <2>4. k.id < fresh'
    BY <1>5, <1>6, <2>2, <2>3
  <2> QED BY <2>1, <2>2, <2>4 DEF FInv, Tables, Unique, Hand, Mine
<1>9. \A r \in rows : \/ /\ r.id \in ids /\ r.category = cat[p] /\ r.mean = KMeansVector
                         /\ r = [id |-> r.id, category |-> cat[p], mean |-> KMeansVector]
                      \/ r \in held[p] /\ r.id \notin ids
  OBVIOUS
<1>10. rows \subseteq Centroid
  <2>1. KMeansVector \in SUBSET (0 .. MaxId) /\ cat[p] \in Categories
    BY <1>5 DEF KMeansVector, FInv, Places
  <2> HIDE DEF rows, old
  <2> QED BY <1>7, <1>8, <1>9, <2>1 DEF Centroid
<1>11. Unique(rows)
  <2> HIDE DEF rows, old
  <2> SUFFICES ASSUME NEW x \in rows, NEW y \in rows, x.id = y.id PROVE x = y
    BY DEF Unique
  <2>1. CASE x.id \in ids
    BY <1>9, <2>1
  <2>2. CASE x.id \notin ids
    <3>1. x \in held[p] /\ y \in held[p]
      BY <1>9, <2>2
    <3> QED BY <3>1 DEF FInv, Hand, Mine, Unique
  <2> QED BY <2>1, <2>2
<1>12. /\ \A r \in rows : r.id < fresh' /\ r.category = cat[p]
       /\ \A k \in centroids, r \in rows : k.id = r.id => k.category = r.category
  <2> HIDE DEF rows, old
  <2>1. \A k \in held[p] : k.category = cat[p]
    BY DEF FInv, Hand, Mine
  <2> QED BY <1>7, <1>8, <1>9, <2>1
<1>13. centroids' = Written(rows)
  BY <1>4
<1>14. /\ held'[p] = rows /\ nearest'[p] = ids /\ Shapes'
       /\ \A q \in Processes \ {p} : UNCHANGED <<data[q], held[q], nearest[q], last[q], moves[q],
                                                 found[q]>>
  BY <1>2, <1>4 DEF FInv, Shapes
<1>15. /\ ids \subseteq Ids(rows)
       /\ \A i \in Ids(rows) : \E x \in centroids' : x.id = i /\ x.category = cat[p]
  <2>1. \A i \in ids : [id |-> i, category |-> cat[p], mean |-> KMeansVector] \in rows
    OBVIOUS
  <2> HIDE DEF rows
  <2>2. ids \subseteq Ids(rows)
    <3> SUFFICES ASSUME NEW i \in ids PROVE i \in Ids(rows)
      OBVIOUS
    <3> DEFINE x == [id |-> i, category |-> cat[p], mean |-> KMeansVector]
    <3>1. x \in rows /\ x.id = i
      BY <2>1
    <3> HIDE DEF x
    <3> QED BY <3>1 DEF Ids
  <2>3. rows \subseteq centroids'
    BY <1>13 DEF Written
  <2> QED BY <1>12, <2>2, <2>3 DEF Ids
<1> HIDE DEF rows, old
<1>16. Tables' /\ \A q \in Processes \ {p} : Benign(q)
  BY <1>1, <1>2, <1>6, <1>10, <1>11, <1>12, <1>13, CentroidsWritten
<1>17. HandTypes(p)'
  BY <1>2, <1>10, <1>14, <1>15 DEF FInv, Hand, HandTypes
<1>18. Mine(p)'
  BY <1>2, <1>11, <1>12, <1>14, <1>15 DEF Mine, Unique, Ids
<1>19. MovesMine(p)' /\ Empty(p)'
  BY <1>2 DEF MovesMine, Empty
<1> QED BY <1>1, <1>14, <1>16, <1>17, <1>18, <1>19, WritingWork

\* A group is moved to a centroid of the same category.
LEMMA UpdateKeeps ==
  ASSUME FInv, NEW p \in Processes, NEW g \in moves[p], Update(p, g)
  PROVE  FInv'
<1> DEFINE moved(e) == IF e.id \in g.ids THEN [e EXCEPT !.centroid = g.to] ELSE e
<1>1. AtWork(p)
  <2>1. pc' = [pc EXCEPT ![p] = pc[p]]
    BY DEF Update, FInv, Places
  <2> QED BY <2>1 DEF AtWork, Update, Working, FInv, Places
<1>2. /\ UNCHANGED <<postgres, categories, centroids, orphans, fresh, shared>>
      /\ UNCHANGED <<pc, data, held, nearest, last, found, cat>> /\ pc[p] = "scan"
      /\ embeddings' = {moved(e) : e \in embeddings}
  BY DEF Update
<1>3. Shapes' /\ \A q \in Processes \ {p} : moves'[q] = moves[q]
  BY DEF Update, FInv, Shapes
<1>4. moves'[p] \subseteq moves[p]
  BY DEF Update, FInv, Shapes
<1>5. PICK k \in centroids : k.id = g.to /\ k.category = cat[p]
  <2>1. g.to \in Ids(held[p])
    BY DEF FInv, Hand, HandTypes
  <2> QED BY <2>1 DEF FInv, Hand, Mine
<1>6. k.id \in 1 .. MaxId
  BY DEF FInv, Tables, Centroid
<1>7. ASSUME NEW e \in embeddings
      PROVE  /\ moved(e) \in Row /\ moved(e).id = e.id /\ moved(e).category = e.category
             /\ e.id < fresh
             /\ \E c \in centroids : c.id = moved(e).centroid /\ c.category = e.category
  <2>1. e \in Row /\ e.id < fresh
    BY DEF FInv, Tables
  <2>2. CASE e.id \in g.ids
    <3>1. moved(e) = [e EXCEPT !.centroid = g.to] /\ e.category = cat[p]
      BY <2>2 DEF FInv, Hand, MovesMine
    <3> QED BY <1>5, <1>6, <2>1, <3>1 DEF Row
  <2>3. CASE e.id \notin g.ids
    BY <2>1, <2>3 DEF FInv, Tables, Filed
  <2> QED BY <2>2, <2>3
<1> HIDE DEF moved
<1>8. \A x \in embeddings' : \E e \in embeddings : x = moved(e)
  BY <1>2
<1>9. \A e \in embeddings : moved(e) \in embeddings'
  BY <1>2
<1>10. embeddings' \subseteq Row /\ \A x \in embeddings' : x.id < fresh
  BY <1>7, <1>8
<1>11. Unique(embeddings)'
  BY <1>7, <1>8 DEF FInv, Tables, Unique
<1>12. orphans \subseteq Ids(embeddings)'
  <2> SUFFICES ASSUME NEW i \in orphans PROVE i \in Ids(embeddings)'
    OBVIOUS
  <2>1. PICK e \in embeddings : e.id = i
    BY DEF FInv, Tables, Ids
  <2>2. moved(e) \in embeddings' /\ moved(e).id = i
    BY <1>7, <1>9, <2>1
  <2> QED BY <2>2 DEF Ids
<1>13. Filed'
  <2> SUFFICES ASSUME NEW x \in embeddings'
               PROVE  \E c \in centroids : c.id = x.centroid /\ c.category = x.category
    BY <1>2 DEF Filed
  <2>1. PICK e \in embeddings : x = moved(e)
    BY <1>8
  <2> QED BY <1>7, <2>1
<1>14. Tables'
  <2>1. Unique(centroids)' /\ \A x \in centroids : x.id < fresh
    BY <1>2 DEF FInv, Tables, Unique
  <2> QED BY <1>2, <1>10, <1>11, <1>12, <1>13, <2>1 DEF FInv, Tables
<1>15. \A q \in Processes : Benign(q)
  <2>1. \A x \in embeddings' : \E e \in embeddings : e.id = x.id /\ e.category = x.category
    BY <1>7, <1>8
  <2>2. fresh \in Int /\ fresh <= fresh
    BY RefreshAssumption DEF FInv, Tables
  <2> QED BY <1>2, <2>1, <2>2 DEF Benign, FInv, Hand, Locked
<1>16. HandTypes(p)'
  BY <1>2, <1>4 DEF FInv, Hand, HandTypes, Ids
<1>17. Mine(p)'
  BY <1>2 DEF FInv, Hand, Mine, Ids, Unique
<1>18. MovesMine(p)'
  <2> SUFFICES ASSUME NEW h \in moves[p], NEW i \in h.ids
               PROVE  i < fresh /\ \A x \in embeddings' : x.id = i => x.category = cat[p]
    BY <1>2, <1>4 DEF MovesMine
  <2>1. i < fresh /\ \A e \in embeddings : e.id = i => e.category = cat[p]
    BY DEF FInv, Hand, MovesMine
  <2> QED BY <1>7, <1>8, <2>1
<1>19. Empty(p)'
  BY <1>2, <1>4 DEF FInv, Hand, Empty
<1> QED BY <1>1, <1>2, <1>3, <1>14, <1>15, <1>16, <1>17, <1>18, <1>19, WritingWork

-----------------------------------------------------------------------------
(* Uploads and deletes.                                                      *)

\* What a process has in hand.
hands == <<data, held, nearest, last, moves, found>>

\* A step of a user, with the tables it leaves.
LEMMA UserStep ==
  ASSUME FInv, UNCHANGED <<postgres, shared, pc, todo, cat, hands, sound>>,
         Tables', \A q \in Processes : Benign(q)
  PROVE  FInv'
<1>1. Places' /\ Shapes'
  BY DEF FInv, Places, Shapes, hands
<1>2. \A q \in Processes : Same(q)
  BY DEF Same, hands
<1>3. \A q \in Processes : Hand(q)'
  BY <1>2, HandKept
<1> QED BY <1>1, <1>3 DEF FInv

\* An upload adds rows under new keys.
LEMMA UploadKeeps == ASSUME FInv, NEW c \in Categories, Upload(c) PROVE FInv'
<1> DEFINE fst == [id |-> fresh, category |-> c, mean |-> KMeansVector]
           new == IF CentroidsOf(c) = {} THEN {fst} ELSE {}
           id == fresh + Cardinality(new)
<1>1. /\ id <= MaxId /\ fresh' = id + 1 /\ centroids' = centroids \union new
      /\ UNCHANGED <<postgres, categories, orphans, shared, pc, todo, cat, hands, sound>>
  BY DEF Upload, work, hands
<1>2. PICK k \in CentroidsOf(c) \union new :
        embeddings' = embeddings \union {[id |-> id, category |-> c, centroid |-> k.id]}
  BY DEF Upload
<1> DEFINE row == [id |-> id, category |-> c, centroid |-> k.id]
<1>3. fresh \in 1 .. MaxId + 1 /\ MaxId \in Nat
  BY RefreshAssumption DEF FInv, Tables
<1>4. new \in {{}, {fst}} /\ fst.id = fresh /\ fst.category = c
  OBVIOUS
<1>5. fst \in Centroid \/ fresh > MaxId
  BY <1>3 DEF Centroid, KMeansVector
<1> HIDE DEF fst, new
<1>6. /\ id \in fresh .. MaxId
      /\ \A x \in new : x = fst /\ fresh < id
  <2>1. CASE new = {}
    <3>1. id = fresh
      BY <1>3, <2>1, FS_EmptySet
    <3> QED BY <1>1, <1>3, <2>1, <3>1
  <2>2. CASE new = {fst}
    <3>1. id = fresh + 1
      BY <2>2, FS_Singleton
    <3> QED BY <1>1, <1>3, <2>2, <3>1
  <2> QED BY <1>4, <2>1, <2>2
<1> HIDE DEF id
<1>7. fresh' \in 1 .. MaxId + 1 /\ id < fresh' /\ fresh < fresh' /\ id \in 1 .. MaxId
  BY <1>1, <1>3, <1>6
<1>8. /\ centroids' \subseteq Centroid /\ centroids \subseteq centroids'
      /\ \A x \in centroids' : x.id < fresh'
  <2>1. \A x \in new : x \in Centroid /\ x.id < fresh'
    BY <1>3, <1>4, <1>5, <1>6, <1>7
  <2>2. \A x \in centroids : x \in Centroid /\ x.id < fresh'
    <3>1. \A x \in centroids : x \in Centroid /\ x.id \in Nat /\ x.id < fresh
      BY DEF FInv, Tables, Centroid
    <3> QED BY <1>3, <1>7, <3>1
  <2> QED BY <1>1, <2>1, <2>2
<1>9. Unique(centroids)'
  <2> SUFFICES ASSUME NEW x \in centroids', NEW y \in centroids', x.id = y.id PROVE x = y
    BY DEF Unique
  <2>1. \A z \in centroids : z.id < fresh /\ z.id \in Nat
    BY DEF FInv, Tables, Centroid
  <2>2. \A z \in new : z = fst /\ z.id = fresh
    BY <1>4, <1>6
  <2>3. CASE x \in centroids /\ y \in centroids
    BY <2>3 DEF FInv, Tables, Unique
  <2>4. CASE x \in new /\ y \in new
    BY <2>2, <2>4
  <2>5. CASE x \in new /\ y \in centroids
    BY <1>3, <2>1, <2>2, <2>5
  <2>6. CASE x \in centroids /\ y \in new
    BY <1>3, <2>1, <2>2, <2>6
  <2> QED BY <1>1, <2>3, <2>4, <2>5, <2>6
<1>10. k \in centroids' /\ k.category = c
  BY <1>1, <1>4, <1>6 DEF CentroidsOf
<1>11. k.id \in 1 .. MaxId
  BY <1>8, <1>10 DEF Centroid
<1>12. row \in Row /\ row.id = id /\ row.category = c /\ row.centroid = k.id
  BY <1>7, <1>11 DEF Row
<1> HIDE DEF row
<1>13. embeddings' = embeddings \union {row}
  BY <1>2 DEF row
<1>14. \A e \in embeddings : e \in Row /\ e.id < fresh /\ e.id \in Nat
  BY DEF FInv, Tables, Row
<1>15. embeddings' \subseteq Row /\ \A e \in embeddings' : e.id < fresh'
  <2>1. \A e \in embeddings : e.id < fresh'
    BY <1>3, <1>7, <1>14
  <2> QED BY <1>7, <1>12, <1>13, <1>14, <2>1
<1>16. Unique(embeddings)'
  <2>1. \A e \in embeddings : e.id # row.id
    BY <1>3, <1>6, <1>12, <1>14
  <2> QED BY <1>13, <2>1 DEF FInv, Tables, Unique
<1>17. Filed'
  <2> SUFFICES ASSUME NEW e \in embeddings'
               PROVE  \E x \in centroids' : x.id = e.centroid /\ x.category = e.category
    BY DEF Filed
  <2>1. CASE e = row
    BY <1>10, <1>12, <2>1
  <2>2. CASE e \in embeddings
    <3>1. PICK x \in centroids : x.id = e.centroid /\ x.category = e.category
      BY <2>2 DEF FInv, Tables, Filed
    <3> QED BY <1>8, <3>1
  <2> QED BY <1>13, <2>1, <2>2
<1>18. Tables'
  <2>1. orphans' \subseteq Ids(embeddings)' /\ (postgres' => orphans' = {})
    BY <1>1, <1>13 DEF FInv, Tables, Ids
  <2> QED BY <1>1, <1>7, <1>8, <1>9, <1>15, <1>16, <1>17, <2>1 DEF FInv, Tables
<1>19. ASSUME NEW q \in Processes PROVE Benign(q)
  <2>1. \A e \in embeddings' : \/ ~(e.id < fresh)
                               \/ \E x \in embeddings : x.id = e.id /\ x.category = e.category
    <3>1. ~(row.id < fresh)
      BY <1>3, <1>6, <1>12
    <3> QED BY <1>13, <3>1
  <2>2. fresh' \in Int /\ fresh <= fresh'
    BY <1>3, <1>7
  <2> QED BY <1>1, <1>8, <2>1, <2>2 DEF Benign, FInv, Hand, Locked
<1> QED BY <1>1, <1>18, <1>19, UserStep

\* A delete of a document takes its embedding, or leaves it an orphan.
LEMMA DeleteDocumentKeeps ==
  ASSUME FInv, NEW e \in embeddings, DeleteDocument(e)
  PROVE  FInv'
<1>1. UNCHANGED <<postgres, categories, centroids, fresh>>
      /\ UNCHANGED <<postgres, shared, pc, todo, cat, hands, sound>>
  BY DEF DeleteDocument, hands
<1>2. /\ embeddings' \subseteq embeddings
      /\ orphans' \subseteq Ids(embeddings)' /\ (postgres' => orphans' = {})
  <2>1. CASE postgres
    BY <1>1, <2>1 DEF DeleteDocument, FInv, Tables
  <2>2. CASE ~postgres
    BY <1>1, <2>2 DEF DeleteDocument, FInv, Tables, Ids
  <2> QED BY <2>1, <2>2
<1>3. Tables'
  <2>1. Unique(embeddings)' /\ Unique(centroids)' /\ Filed'
    BY <1>1, <1>2 DEF FInv, Tables, Unique, Filed
  <2>2. embeddings' \subseteq Row /\ \A x \in embeddings' \union centroids' : x.id < fresh'
    BY <1>1, <1>2 DEF FInv, Tables
  <2> QED BY <1>1, <1>2, <2>1, <2>2 DEF FInv, Tables
<1>4. \A q \in Processes : Benign(q)
  <2>1. fresh \in Int /\ fresh <= fresh
    BY RefreshAssumption DEF FInv, Tables
  <2> QED BY <1>1, <1>2, <2>1 DEF Benign, FInv, Hand, Locked
<1> QED BY <1>1, <1>3, <1>4, UserStep

\* The lock keeps the category until no refresh is at it.
LEMMA DeleteCategoryKeeps ==
  ASSUME FInv, NEW c \in Categories, DeleteCategory(c)
  PROVE  FInv'
<1>1. /\ UNCHANGED <<postgres, orphans, fresh>> /\ shared[c] = {}
      /\ UNCHANGED <<postgres, shared, pc, todo, cat, hands, sound>>
      /\ categories' \subseteq categories
  BY DEF DeleteCategory, work, hands
<1>2. /\ embeddings' \subseteq embeddings /\ centroids' \subseteq centroids
      /\ orphans' \subseteq Ids(embeddings)' /\ (postgres' => orphans' = {})
  <2>1. CASE postgres
    BY <1>1, <2>1 DEF DeleteCategory, FInv, Tables
  <2>2. CASE ~postgres
    BY <1>1, <2>2 DEF DeleteCategory, FInv, Tables, Ids
  <2> QED BY <2>1, <2>2
<1>3. /\ \A e \in embeddings' : postgres => e.category # c
      /\ \A k \in centroids : (postgres /\ k.category = c) \/ k \in centroids'
  BY DEF DeleteCategory
<1>4. Filed'
  BY <1>2, <1>3 DEF FInv, Tables, Filed
<1>5. Tables'
  <2>1. Unique(embeddings)' /\ Unique(centroids)'
    BY <1>2 DEF FInv, Tables, Unique
  <2>2. /\ embeddings' \subseteq Row /\ centroids' \subseteq Centroid
        /\ categories' \subseteq Categories
        /\ \A x \in embeddings' \union centroids' : x.id < fresh'
    BY <1>1, <1>2 DEF FInv, Tables
  <2> QED BY <1>1, <1>2, <1>4, <2>1, <2>2 DEF FInv, Tables
<1>6. ASSUME NEW q \in Processes PROVE Benign(q)
  <2>1. fresh \in Int /\ fresh <= fresh
    BY RefreshAssumption DEF FInv, Tables
  <2>2. Working(q) /\ postgres => q \in shared[cat[q]] /\ cat[q] # c
    BY <1>1 DEF FInv, Hand, Locked
  <2> QED BY <1>1, <1>2, <1>3, <2>1, <2>2 DEF Benign
<1> QED BY <1>1, <1>5, <1>6, UserStep

-----------------------------------------------------------------------------
(* The theorems.                                                             *)

\* Every step keeps the invariant.
LEMMA FInvStep == FInv /\ [Next]_vars => FInv'
<1> SUFFICES ASSUME FInv, [Next]_vars PROVE FInv'
  OBVIOUS
<1>1. ASSUME NEW c \in Categories, Upload(c) PROVE FInv'
  BY <1>1, UploadKeeps
<1>2. ASSUME NEW c \in Categories, DeleteCategory(c) PROVE FInv'
  BY <1>2, DeleteCategoryKeeps
<1>3. ASSUME NEW e \in embeddings, DeleteDocument(e) PROVE FInv'
  BY <1>3, DeleteDocumentKeeps
<1>4. ASSUME NEW p \in Processes, Process(p) \/ Fail(p) \/ Shutdown(p) PROVE FInv'
  <2>1. CASE List(p) \/ CategoryGone(p) \/ AllDone(p)
             \/ \E c \in Categories : LockRefused(p, c)
    BY <2>1, ListingKeeps
  <2>2. ASSUME NEW c \in Categories, Lock(p, c) PROVE FInv'
    BY <2>2, LockKeeps
  <2>3. CASE Leaving(p)
    BY <2>3, LeaveKeeps
  <2>4. CASE Passing(p) \/ Read(p) \/ Retrieve(p)
    BY <2>4, ReadKeeps
  <2>5. CASE Save(p)
    BY <2>5, SaveKeeps
  <2>6. CASE Scan(p)
    BY <2>6, ScanKeeps
  <2>7. CASE Drop(p)
    BY <2>7, DropKeeps
  <2>8. ASSUME NEW g \in moves[p], Update(p, g) PROVE FInv'
    BY <2>8, UpdateKeeps
  <2>9. ASSUME NEW g \in moves[p], UpdateFails(p, g) PROVE FInv'
    BY <2>9, UpdateFailsKeeps
  <2>10. ASSUME NEW k \in DOMAIN found[p], Measure(p, k) \/ RecentreFails(p, k) PROVE FInv'
    BY <2>10, MeasureKeeps
  <2>11. ASSUME NEW k \in DOMAIN found[p], Recentre(p, k) PROVE FInv'
    BY <2>11, RecentreKeeps
  <2> QED BY <1>4, <2>1, <2>2, <2>3, <2>4, <2>5, <2>6, <2>7, <2>8, <2>9, <2>10, <2>11
          DEF Process, Leaving, Passing
<1>5. CASE UNCHANGED vars
  <2>1. /\ UNCHANGED <<postgres, shared, pc, todo, cat, hands, sound>>
        /\ UNCHANGED <<postgres, tables>>
    BY <1>5 DEF vars, work, hands
  <2>2. Tables'
    BY <2>1 DEF FInv, Tables, Unique, Ids, Filed, tables
  <2>3. \A q \in Processes : Benign(q)
    <3>1. fresh \in Int /\ fresh <= fresh
      BY RefreshAssumption DEF FInv, Tables
    <3> QED BY <2>1, <3>1 DEF Benign, FInv, Hand, Locked, tables
  <2> QED BY <2>1, <2>2, <2>3, UserStep
<1> QED BY <1>1, <1>2, <1>3, <1>4, <1>5 DEF Next, Users

\* So it always holds.
LEMMA FInvHolds == Spec => []FInv
  BY FInvInit, FInvStep, PTL DEF Spec

\* An embedding is always under a centroid of its own category, whichever
\* refreshes move it while uploads and deletes go on: a search of the category,
\* which goes through the centroids, can reach it.
THEOREM FiledHolds == Spec => []Filed
<1>1. FInv => Filed
  BY DEF FInv, Tables
<1> QED BY <1>1, FInvHolds, PTL

-----------------------------------------------------------------------------
(* The centres.                                                              *)

\* Of the embeddings in the data set that are left, ids has those under k as
\* far as upto.
Reckoned(p, k, ids, upto) ==
    \A e \in embeddings :
      e.id \in data[p] => (e.id \in ids <=> (e.centroid = k /\ e.id <= upto))

Alone(p) == \A o \in Processes \ {p} : ~At(o, cat[p])

\* What a refresh that is alone at its category can rely on: the embeddings it
\* read are not taken for later ones; the centroids of the category are those it
\* has in hand; while they are measured each has what lies behind the key, and
\* then its mean.
Account(p) ==
    /\ \A i \in data[p] : i < fresh
    /\ data[p] = {} \/ CentroidsOf(cat[p]) # {}
    /\ pc[p] \in {"retrieve", "save", "scan", "drop", "centre"} => data[p] # {}
    /\ pc[p] \in {"save", "scan", "drop"} => Ids(CentroidsOf(cat[p])) \subseteq Ids(held[p])
    /\ pc[p] \in {"centre", "wait", "unlock"} =>
         \A k \in CentroidsOf(cat[p]) :
           IF k.id \in DOMAIN found[p]
           THEN Reckoned(p, k.id, found[p][k.id].ids, found[p][k.id].upto)
           ELSE Reckoned(p, k.id, k.mean, MaxId)

Steady(p) == Working(p) /\ Alone(p) /\ Account(p)

CInv == \A p \in Processes : sound[p] => Steady(p)

\* At its end the centroids have their means.
LEMMA CInvMeans == FInv /\ CInv => Centred
<1> SUFFICES ASSUME FInv, CInv, NEW p \in Processes, pc[p] \in {"wait", "unlock"}, sound[p],
                    NEW k \in CentroidsOf(cat[p])
             PROVE  LET begun == data[p] \intersect Ids(embeddings)
                    IN  k.mean \intersect begun = Ids(Under(k.id)) \intersect begun
  BY DEF Centred
<1> DEFINE begun == data[p] \intersect Ids(embeddings)
<1>1. DOMAIN found[p] = {}
  BY DEF FInv, Hand, Empty
<1>2. Reckoned(p, k.id, k.mean, MaxId)
  BY <1>1 DEF CInv, Steady, Account
<1>3. ASSUME NEW i \in begun PROVE i \in k.mean <=> i \in Ids(Under(k.id))
  <2>1. PICK e \in embeddings : e.id = i
    BY DEF Ids
  <2>2. e.id <= MaxId
    BY RefreshAssumption DEF FInv, Tables, Row
  <2>3. i \in k.mean <=> e.centroid = k.id
    BY <1>2, <2>1, <2>2 DEF Reckoned
  <2>4. i \in Ids(Under(k.id)) <=> e.centroid = k.id
    BY <2>1 DEF Ids, Under, FInv, Tables, Unique
  <2> QED BY <2>3, <2>4
<1> QED BY <1>3

\* What a step of others may do beside a process at a category.
Apart(q) ==
    /\ UNCHANGED <<pc[q], cat[q], data[q], held[q], found[q]>>
    /\ fresh <= fresh'
    /\ \A k \in centroids : k.category = cat[q] => k \in centroids'
    /\ \A k \in centroids' :
         k.category = cat[q] => k \in centroids \/ CentroidsOf(cat[q]) = {}
    /\ \A x \in embeddings' :
         \/ x \in embeddings
         \/ ~(x.id < fresh)
         \/ /\ x.category # cat[q]
            /\ \E e \in embeddings : e.id = x.id /\ e.category # cat[q]

\* An embedding of another category is under none of its centroids.
LEMMA OtherCategory ==
  ASSUME FInv, NEW e \in embeddings, NEW k \in centroids, e.category # k.category
  PROVE  e.centroid # k.id
  BY DEF FInv, Tables, Filed, Unique

\* What has been measured is not disturbed by steps of others.
LEMMA ReckonedKept ==
  ASSUME FInv, FInv', NEW q \in Processes, Apart(q), \A i \in data[q] : i < fresh,
         NEW k \in centroids, k.category = cat[q], k \in centroids',
         NEW ids, NEW upto, Reckoned(q, k.id, ids, upto)
  PROVE  \A x \in embeddings' :
           x.id \in data[q] => (x.id \in ids <=> (x.centroid = k.id /\ x.id <= upto))
<1> SUFFICES ASSUME NEW x \in embeddings', x.id \in data[q]
             PROVE  x.id \in ids <=> (x.centroid = k.id /\ x.id <= upto)
  OBVIOUS
<1>1. CASE x \in embeddings
  BY <1>1 DEF Reckoned
<1>2. ASSUME x.category # cat[q], NEW e \in embeddings, e.id = x.id, e.category # cat[q]
      PROVE  x.id \in ids <=> (x.centroid = k.id /\ x.id <= upto)
  <2>1. e.centroid # k.id
    BY <1>2, OtherCategory
  <2>2. x.centroid # k.id
    BY <1>2 DEF FInv, Tables, Filed, Unique
  <2>3. x.id \notin ids
    BY <1>2, <2>1 DEF Reckoned
  <2> QED BY <2>2, <2>3
<1> QED BY <1>1, <1>2 DEF Apart

\* Nor is what else a refresh that is alone relies on.
LEMMA AccountKept ==
  ASSUME FInv, FInv', NEW q \in Processes, Account(q), Apart(q)
  PROVE  Account(q)'
<1>1. UNCHANGED <<pc[q], cat[q], data[q], held[q], found[q]>>
  BY DEF Apart
<1>2. \A i \in data[q] : i < fresh /\ i < fresh'
  <2>1. \A i \in data[q] : i < fresh /\ i \in Nat
    BY RefreshAssumption DEF Account, FInv, Hand, HandTypes
  <2>2. fresh \in Nat /\ fresh' \in Nat /\ fresh <= fresh'
    BY RefreshAssumption DEF FInv, Tables, Apart
  <2> QED BY <2>1, <2>2
<1>3. CASE data[q] = {}
  BY <1>1, <1>2, <1>3 DEF Account, Reckoned
<1>4. CASE data[q] # {}
  <2>1. CentroidsOf(cat[q]) # {}
    BY <1>4 DEF Account
  <2>2. CentroidsOf(cat[q])' = CentroidsOf(cat[q])
    BY <1>1, <2>1 DEF CentroidsOf, Apart
  <2>3. ASSUME NEW k \in CentroidsOf(cat[q]), NEW ids, NEW upto,
               Reckoned(q, k.id, ids, upto)
        PROVE  \A x \in embeddings' :
                 x.id \in data[q] => (x.id \in ids <=> (x.centroid = k.id /\ x.id <= upto))
    <3>1. k \in centroids /\ k.category = cat[q] /\ k \in centroids'
      BY <2>2 DEF CentroidsOf
    <3> QED BY <1>2, <2>3, <3>1, ReckonedKept
  <2>4. ASSUME pc[q] \in {"centre", "wait", "unlock"}, NEW k \in CentroidsOf(cat[q])
        PROVE  (IF k.id \in DOMAIN found[q]
                THEN Reckoned(q, k.id, found[q][k.id].ids, found[q][k.id].upto)
                ELSE Reckoned(q, k.id, k.mean, MaxId))'
    <3>1. CASE k.id \in DOMAIN found[q]
      <4>1. Reckoned(q, k.id, found[q][k.id].ids, found[q][k.id].upto)
        BY <2>4, <3>1 DEF Account
      <4> DEFINE ids == found[q][k.id].ids
                 upto == found[q][k.id].upto
      <4> HIDE DEF ids, upto
      <4>2. \A x \in embeddings' :
              x.id \in data[q] => (x.id \in ids <=> (x.centroid = k.id /\ x.id <= upto))
        BY <2>3, <4>1 DEF ids, upto
      <4> QED BY <1>1, <3>1, <4>2 DEF Reckoned, ids, upto
    <3>2. CASE k.id \notin DOMAIN found[q]
      <4>1. Reckoned(q, k.id, k.mean, MaxId)
        BY <2>4, <3>2 DEF Account
      <4> DEFINE mean == k.mean
      <4> HIDE DEF mean
      <4>2. \A x \in embeddings' :
              x.id \in data[q] => (x.id \in mean <=> (x.centroid = k.id /\ x.id <= MaxId))
        BY <2>3, <4>1 DEF mean
      <4> QED BY <1>1, <3>2, <4>2 DEF Reckoned, mean
    <3> QED BY <3>1, <3>2
  <2>5. Ids(CentroidsOf(cat[q]))' = Ids(CentroidsOf(cat[q])) /\ Ids(held[q])' = Ids(held[q])
    BY <1>1, <2>2 DEF Ids
  <2> QED BY <1>1, <1>2, <2>1, <2>2, <2>4, <2>5 DEF Account
<1> QED BY <1>3, <1>4

\* It stays alone until another comes.
LEMMA AloneKept ==
  ASSUME NEW q \in Processes, Alone(q), cat'[q] = cat[q],
         \A o \in Processes \ {q} : At(o, cat[q])' => At(o, cat[q])
  PROVE  Alone(q)'
  BY DEF Alone, At

\* A step beside which a process stays as apart from the others as it was, or
\* after which it is so anew.
LEMMA CInvKept ==
  ASSUME FInv, FInv', CInv,
         \A q \in Processes : sound'[q] =>
           \/ Steady(q)'
           \/ /\ sound[q] /\ Apart(q)
              /\ \A o \in Processes \ {q} : At(o, cat[q])' => At(o, cat[q])
  PROVE  CInv'
<1> SUFFICES ASSUME NEW q \in Processes, sound[q], Apart(q),
                    \A o \in Processes \ {q} : At(o, cat[q])' => At(o, cat[q])
             PROVE  Steady(q)'
  BY DEF CInv
<1>1. Steady(q) /\ cat'[q] = cat[q] /\ pc'[q] = pc[q]
  BY DEF CInv, Apart
<1>2. Account(q)'
  BY <1>1, AccountKept DEF Steady
<1>3. Alone(q)'
  BY <1>1, AloneKept DEF Steady
<1> QED BY <1>1, <1>2, <1>3 DEF Steady, Working

\* A set of at most one element can be counted.
LEMMA AtMostOne ==
  ASSUME NEW S, NEW x, S = {} \/ S = {x} PROVE Cardinality(S) \in Nat
<1>1. CASE S = {}
  BY <1>1, FS_EmptySet
<1>2. CASE S = {x}
  <2>1. Cardinality({x}) = 1
    BY FS_Singleton
  <2> QED BY <1>2, <2>1
<1> QED BY <1>1, <1>2

\* Uploads and deletes.
LEMMA CInvUsers == ASSUME FInv, FInv', CInv, Users PROVE CInv'
<1>1. UNCHANGED <<pc, cat, sound, data, held, found, postgres, shared>>
  BY DEF Users, Upload, DeleteDocument, DeleteCategory, work
<1>2. fresh <= fresh' /\ fresh \in Nat
  <2>1. fresh \in Nat
    BY RefreshAssumption DEF FInv, Tables
  <2>2. ASSUME NEW c \in Categories, Upload(c) PROVE fresh <= fresh'
    <3> DEFINE new == IF CentroidsOf(c) = {}
                      THEN {[id |-> fresh, category |-> c, mean |-> KMeansVector]} ELSE {}
    <3>1. fresh' = fresh + Cardinality(new) + 1
      BY <2>2 DEF Upload
    <3>2. Cardinality(new) \in Nat
      BY AtMostOne
    <3> HIDE DEF new
    <3> QED BY <2>1, <3>1, <3>2
  <2> QED BY <2>1, <2>2 DEF Users, DeleteDocument, DeleteCategory
<1>3. ASSUME NEW q \in Processes, sound[q] PROVE Apart(q)
  <2>1. Working(q) /\ cat[q] \in Categories
    BY <1>3 DEF CInv, Steady, FInv, Places
  <2>2. ASSUME NEW c \in Categories, Upload(c) PROVE Apart(q)
    <3> DEFINE new == IF CentroidsOf(c) = {}
                      THEN {[id |-> fresh, category |-> c, mean |-> KMeansVector]} ELSE {}
               id == fresh + Cardinality(new)
    <3>1. PICK k \in CentroidsOf(c) \union new :
            embeddings' = embeddings \union {[id |-> id, category |-> c, centroid |-> k.id]}
      BY <2>2 DEF Upload
    <3>2. centroids' = centroids \union new /\ fresh' = id + 1
      BY <2>2 DEF Upload
    <3>3. \A x \in new : x.category = c /\ CentroidsOf(c) = {}
      OBVIOUS
    <3>4. ~(id < fresh)
      <4>1. Cardinality(new) \in Nat
        BY AtMostOne
      <4> HIDE DEF new
      <4> QED BY <1>2, <4>1
    <3> HIDE DEF new, id
    <3> QED BY <1>1, <1>2, <3>1, <3>2, <3>3, <3>4 DEF Apart
  <2>3. ASSUME NEW e \in embeddings, DeleteDocument(e) PROVE Apart(q)
    BY <1>1, <1>2, <2>3 DEF DeleteDocument, Apart
  <2>4. ASSUME NEW c \in Categories, DeleteCategory(c) PROVE Apart(q)
    <3>1. postgres => cat[q] # c
      BY <2>1, <2>4 DEF DeleteCategory, FInv, Hand, Locked
    <3> QED BY <1>1, <1>2, <2>4, <3>1 DEF DeleteCategory, Apart
  <2> QED BY <2>2, <2>3, <2>4 DEF Users
<1>4. \A o \in Processes, c \in Categories : At(o, c)' => At(o, c)
  BY <1>1 DEF At
<1> QED BY <1>1, <1>3, <1>4, CInvKept DEF FInv, Places

\* Steps at no category.
LEMMA CInvListing ==
  ASSUME FInv, FInv', CInv, NEW p \in Processes,
         List(p) \/ CategoryGone(p) \/ AllDone(p) \/ \E c \in Categories : LockRefused(p, c)
  PROVE  CInv'
<1>1. UNCHANGED tables /\ UNCHANGED <<cat, work, sound>> /\ ~Working(p) /\ ~Working(p)'
      /\ \A q \in Processes \ {p} : pc'[q] = pc[q]
  BY DEF List, CategoryGone, AllDone, LockRefused, Working, FInv, Places, Go
<1>2. fresh <= fresh'
  BY <1>1, RefreshAssumption DEF FInv, Tables, tables
<1>3. ASSUME NEW q \in Processes, sound[q] PROVE Apart(q)
  <2>1. q # p
    BY <1>1, <1>3 DEF CInv, Steady
  <2> QED BY <1>1, <1>2, <2>1 DEF Apart, work, tables
<1>4. \A o \in Processes, c \in Categories : At(o, c)' => At(o, c)
  BY <1>1 DEF At, Working
<1> QED BY <1>1, <1>3, <1>4, CInvKept DEF FInv, Places

\* A process comes to a category: whoever is there is alone no longer.
LEMMA CInvLock ==
  ASSUME FInv, FInv', CInv, NEW p \in Processes, NEW c \in Categories, Lock(p, c)
  PROVE  CInv'
<1>1. /\ UNCHANGED tables /\ UNCHANGED work /\ pc'[p] = "count" /\ cat'[p] = c
      /\ \A q \in Processes \ {p} : pc'[q] = pc[q] /\ cat'[q] = cat[q]
  BY DEF Lock, FInv, Places, Go
<1>2. \A q \in Processes :
        sound'[q] = IF q = p THEN \A o \in Processes \ {p} : ~At(o, c)
                             ELSE sound[q] /\ ~At(q, c)
  BY DEF Lock
<1>3. fresh <= fresh'
  BY <1>1, RefreshAssumption DEF FInv, Tables, tables
<1>4. ASSUME sound'[p] PROVE Steady(p)'
  <2>1. Alone(p)'
    BY <1>1, <1>2, <1>4 DEF Alone, At
  <2>2. data'[p] = {}
    BY <1>1 DEF FInv, Hand, Empty
  <2> QED BY <1>1, <2>1, <2>2 DEF Steady, Working, Account
<1>5. ASSUME NEW q \in Processes \ {p}, sound'[q]
      PROVE  /\ sound[q] /\ Apart(q)
             /\ \A o \in Processes \ {q} : At(o, cat[q])' => At(o, cat[q])
  <2>1. sound[q] /\ ~At(q, c)
    BY <1>2, <1>5
  <2>2. cat[q] # c
    BY <2>1 DEF CInv, Steady, Working, At
  <2>3. Apart(q)
    BY <1>1, <1>3 DEF Apart, work, tables
  <2> QED BY <1>1, <2>1, <2>2, <2>3 DEF At
<1> QED BY <1>4, <1>5, CInvKept

\* A process leaves its category.
LEMMA CInvLeave ==
  ASSUME FInv, FInv', CInv, NEW p \in Processes, Leaving(p)
  PROVE  CInv'
<1>1. UNCHANGED tables /\ UNCHANGED cat /\ Leave(p) /\ ~Working(p)'
      /\ \A q \in Processes \ {p} : pc'[q] = pc[q]
  BY DEF Leaving, Unlock, Fail, NothingToTake, Shutdown, FInv, Places, Go, Working
<1>2. ~sound'[p] /\ \A q \in Processes \ {p} :
        UNCHANGED <<sound[q], data[q], held[q], found[q]>>
  BY <1>1 DEF Leave, FInv, Places, Shapes
<1>3. fresh <= fresh'
  BY <1>1, RefreshAssumption DEF FInv, Tables, tables
<1>4. \A q \in Processes \ {p} : Apart(q)
  BY <1>1, <1>2, <1>3 DEF Apart, tables
<1>5. \A o \in Processes, c \in Categories : At(o, c)' => At(o, c)
  BY <1>1 DEF At, Working
<1>6. ASSUME NEW q \in Processes, sound'[q]
      PROVE  /\ sound[q] /\ Apart(q)
             /\ \A o \in Processes \ {q} : At(o, cat[q])' => At(o, cat[q])
  <2>1. q \in Processes \ {p} /\ sound[q] /\ cat[q] \in Categories
    BY <1>2, <1>6 DEF FInv, Places
  <2> QED BY <1>1, <1>4, <1>5, <2>1
<1> QED BY <1>6, CInvKept

\* A step of a process at its category leaves the others apart.
LEMMA CInvWork ==
  ASSUME FInv, FInv', CInv, NEW p \in Processes, AtWork(p), fresh <= fresh',
         \A q \in Processes : sound'[q] => sound[q],
         \A q \in Processes \ {p} : UNCHANGED <<data[q], held[q], found[q]>>,
         \A k \in centroids \union centroids' :
           k.category # cat[p] => k \in centroids /\ k \in centroids',
         \A x \in embeddings' :
           \/ x \in embeddings
           \/ x.category = cat[p] /\ \E e \in embeddings : e.id = x.id /\ e.category = cat[p],
         sound'[p] /\ Account(p) => Account(p)'
  PROVE  CInv'
<1>1. /\ cat' = cat /\ Working(p) /\ Working(p)'
      /\ \A q \in Processes \ {p} : pc'[q] = pc[q]
  BY AtWorkKeeps DEF AtWork
<1>2. \A o \in Processes, c \in Categories : At(o, c)' => At(o, c)
  BY <1>1 DEF At, Working
<1>3. ASSUME NEW q \in Processes, sound'[q]
      PROVE  /\ sound[q] /\ Steady(q)
             /\ \A o \in Processes \ {q} : At(o, cat[q])' => At(o, cat[q])
  <2>1. sound[q] /\ cat[q] \in Categories
    BY <1>3 DEF FInv, Places
  <2> QED BY <1>1, <1>2, <2>1 DEF CInv
<1>4. ASSUME sound'[p] PROVE Steady(p)'
  <2>1. Steady(p) /\ Alone(p)'
    BY <1>1, <1>3, <1>4, AloneKept DEF Steady
  <2> QED BY <1>1, <1>4, <2>1 DEF Steady
<1>5. ASSUME NEW q \in Processes \ {p}, sound'[q] PROVE Apart(q)
  <2>1. cat[q] # cat[p]
    BY <1>1, <1>3, <1>5 DEF Steady, Alone, At, Working
  <2> QED BY <1>1, <2>1 DEF Apart
<1> QED BY <1>3, <1>4, <1>5, CInvKept

\* A step that leaves the tables as they are.
LEMMA CInvQuiet ==
  ASSUME FInv, FInv', CInv, NEW p \in Processes, AtWork(p), UNCHANGED tables,
         \A q \in Processes : sound'[q] => sound[q],
         \A q \in Processes \ {p} : UNCHANGED <<data[q], held[q], found[q]>>,
         sound'[p] /\ Account(p) => Account(p)'
  PROVE  CInv'
<1>1. fresh <= fresh'
  BY RefreshAssumption DEF FInv, Tables, tables
<1> QED BY <1>1, CInvWork DEF tables

\* The data set, and the rows of the category.
LEMMA CInvRead ==
  ASSUME FInv, FInv', CInv, NEW p \in Processes, Passing(p) \/ Read(p) \/ Retrieve(p)
  PROVE  CInv'
<1> USE DEF Passing, Count, Take, Completed, Waited, Read, Retrieve
<1>1. AtWork(p)
  BY DEF AtWork, Working, FInv, Places, Go, work
<1>2. UNCHANGED tables /\ UNCHANGED <<cat, found, sound>>
  BY DEF work
<1>3. \A q \in Processes \ {p} : UNCHANGED <<data[q], held[q], found[q]>>
  BY DEF FInv, Shapes, work
<1>4. CentroidsOf(cat[p])' = CentroidsOf(cat[p])
  BY <1>2 DEF CentroidsOf, tables
<1>5. ASSUME Read(p), Account(p) PROVE Account(p)'
  <2> DEFINE batch == BatchAfter(Joined(cat[p]), last[p])
  <2>1. /\ data'[p] = data[p] \union Ids(batch)
        /\ pc'[p] = IF batch # {} THEN "read"
                    ELSE IF data[p] = {} THEN "unlock" ELSE "retrieve"
    BY <1>5 DEF FInv, Places, Shapes, Go
  <2>2. \A e \in batch : e \in embeddings /\ e.category = cat[p]
    BY DEF BatchAfter, Joined
  <2> HIDE DEF batch
  <2>3. \A i \in data'[p] : i < fresh
    BY <1>5, <2>1, <2>2 DEF Account, Ids, FInv, Tables
  <2>4. data'[p] = {} \/ CentroidsOf(cat[p]) # {}
    <3>1. CASE batch = {}
      BY <1>5, <2>1, <3>1 DEF Account, Ids
    <3>2. CASE batch # {}
      BY <2>2, <3>2 DEF CentroidsOf, FInv, Tables, Filed
    <3> QED BY <3>1, <3>2
  <2>5. CASE batch # {}
    BY <1>2, <1>4, <2>1, <2>3, <2>4, <2>5 DEF Account, tables
  <2>6. CASE batch = {}
    <3>1. data'[p] = data[p] /\ pc'[p] = IF data[p] = {} THEN "unlock" ELSE "retrieve"
      BY <2>1, <2>6 DEF Ids
    <3> QED BY <1>2, <1>4, <2>3, <2>4, <3>1 DEF Account, Reckoned, tables
  <2> QED BY <2>5, <2>6
<1>6. ASSUME Retrieve(p), Account(p) PROVE Account(p)'
  <2>1. held'[p] = CentroidsOf(cat[p]) /\ data' = data /\ pc[p] = "retrieve" /\ pc'[p] = "save"
    BY <1>6 DEF FInv, Places, Shapes, Go
  <2> QED BY <1>2, <1>4, <1>6, <2>1 DEF Account, Ids, tables
<1>7. ASSUME Passing(p), Account(p) PROVE Account(p)'
  <2>1. /\ UNCHANGED <<data, held, found>>
        /\ \/ pc[p] = "count" /\ pc'[p] = "take"
           \/ pc[p] = "take" /\ pc'[p] = "read"
           \/ pc[p] = "centre" /\ pc'[p] = "wait"
           \/ pc[p] = "wait" /\ pc'[p] = "unlock"
    BY <1>7 DEF FInv, Places, Go, work
  <2> QED BY <1>2, <1>4, <1>7, <2>1 DEF Account, Reckoned, tables
<1> QED BY <1>1, <1>2, <1>3, <1>5, <1>6, <1>7, CInvQuiet

\* The scan, and what it moves.
LEMMA CInvScan ==
  ASSUME FInv, FInv', CInv, NEW p \in Processes,
         Scan(p) \/ \E g \in moves[p] : UpdateFails(p, g)
  PROVE  CInv'
<1>1. AtWork(p) /\ pc[p] = "scan" /\ pc'[p] \in {"scan", "drop"}
  <2>1. CASE Scan(p)
    BY <2>1 DEF AtWork, Scan, Working, FInv, Places, Go
  <2>2. ASSUME NEW g \in moves[p], UpdateFails(p, g)
        PROVE  AtWork(p) /\ pc[p] = "scan" /\ pc'[p] = "scan"
    <3>1. pc' = [pc EXCEPT ![p] = pc[p]]
      BY <2>2 DEF UpdateFails, FInv, Places
    <3> QED BY <2>2, <3>1 DEF AtWork, UpdateFails, Working, FInv, Places
  <2> QED BY <2>1, <2>2
<1>2. UNCHANGED tables /\ UNCHANGED <<data, held, found, cat, sound>>
  BY DEF Scan, UpdateFails
<1>3. CentroidsOf(cat[p])' = CentroidsOf(cat[p])
  BY <1>2 DEF CentroidsOf, tables
<1>4. Account(p) => Account(p)'
  BY <1>1, <1>2, <1>3 DEF Account, Ids, tables
<1> QED BY <1>1, <1>2, <1>4, CInvQuiet

\* A group is moved before anything is measured.
LEMMA CInvUpdate ==
  ASSUME FInv, FInv', CInv, NEW p \in Processes, NEW g \in moves[p], Update(p, g)
  PROVE  CInv'
<1>1. AtWork(p) /\ pc[p] = "scan" /\ pc'[p] = "scan"
  <2>1. pc' = [pc EXCEPT ![p] = pc[p]]
    BY DEF Update, FInv, Places
  <2> QED BY <2>1 DEF AtWork, Update, Working, FInv, Places
<1>2. /\ UNCHANGED <<centroids, fresh>> /\ UNCHANGED <<data, held, found, cat, sound>>
      /\ embeddings' = {IF e.id \in g.ids THEN [e EXCEPT !.centroid = g.to] ELSE e :
                          e \in embeddings}
  BY DEF Update
<1>3. ASSUME NEW x \in embeddings'
      PROVE  \/ x \in embeddings
             \/ x.category = cat[p] /\ \E e \in embeddings : e.id = x.id /\ e.category = cat[p]
  <2>1. PICK e \in embeddings :
          x = IF e.id \in g.ids THEN [e EXCEPT !.centroid = g.to] ELSE e
    BY <1>2
  <2>2. CASE e.id \in g.ids
    <3>1. e \in Row /\ e.category = cat[p]
      BY <2>2 DEF FInv, Tables, Hand, MovesMine
    <3>2. x.id = e.id /\ x.category = e.category
      BY <2>1, <2>2, <3>1 DEF Row
    <3> QED BY <3>1, <3>2
  <2> QED BY <2>1, <2>2
<1>4. CentroidsOf(cat[p])' = CentroidsOf(cat[p]) /\ fresh <= fresh'
  BY <1>2, RefreshAssumption DEF CentroidsOf, FInv, Tables
<1>5. Account(p) => Account(p)'
  BY <1>1, <1>2, <1>4 DEF Account, Ids
<1> QED BY <1>1, <1>2, <1>3, <1>4, <1>5, CInvWork

\* The measuring begins with nothing.
LEMMA CInvDrop == ASSUME FInv, FInv', CInv, NEW p \in Processes, Drop(p) PROVE CInv'
<1>1. AtWork(p) /\ pc[p] = "drop" /\ pc'[p] = "centre"
  BY DEF AtWork, Drop, Working, FInv, Places, Go
<1>2. UNCHANGED tables
  <2>1. PICK place : embeddings' = {IF e.centroid \in Ids(Dropped)
                                    THEN [e EXCEPT !.centroid = place] ELSE e : e \in embeddings}
    BY DEF Drop
  <2>2. Ids(Dropped) = {}
    BY NoneDropped DEF Ids
  <2>3. embeddings' = embeddings
    BY <2>1, <2>2
  <2> QED BY <2>3 DEF Drop, tables
<1>3. /\ UNCHANGED <<data, cat, sound>>
      /\ found'[p] = [k \in Ids(held[p]) |-> [upto |-> 0, ids |-> {}]]
      /\ \A q \in Processes \ {p} : UNCHANGED <<held[q], found[q]>>
  BY DEF Drop, FInv, Shapes
<1>4. CentroidsOf(cat[p])' = CentroidsOf(cat[p])
  BY <1>2, <1>3 DEF CentroidsOf, tables
<1>5. ASSUME Account(p) PROVE Account(p)'
  <2>1. ASSUME NEW k \in CentroidsOf(cat[p])
        PROVE  /\ k.id \in DOMAIN found'[p]
               /\ found'[p][k.id].ids = {} /\ found'[p][k.id].upto = 0
    <3>1. k.id \in Ids(held[p])
      BY <1>1, <1>5 DEF Account, Ids
    <3> QED BY <1>3, <3>1
  <2>2. \A e \in embeddings : ~(e.id <= 0)
    BY RefreshAssumption DEF FInv, Tables, Row
  <2>3. \A k \in CentroidsOf(cat[p]) :
          Reckoned(p, k.id, found'[p][k.id].ids, found'[p][k.id].upto)
    BY <2>1, <2>2 DEF Reckoned
  <2>4. \A k \in CentroidsOf(cat[p]) :
          \A e \in embeddings' : e.id \in data'[p] =>
            (e.id \in found'[p][k.id].ids
               <=> (e.centroid = k.id /\ e.id <= found'[p][k.id].upto))
    BY <1>2, <1>3, <2>3 DEF Reckoned, tables
  <2> QED BY <1>1, <1>2, <1>3, <1>4, <1>5, <2>1, <2>4 DEF Account, Reckoned, tables
<1> QED BY <1>1, <1>2, <1>3, <1>5, CInvQuiet

\* A set of ids has a smallest.
LEMMA SmallestId ==
  ASSUME NEW S \in SUBSET Nat, S # {}
  PROVE  \E x \in S : \A y \in S : ~(y < x)
<1>1. IsWellFoundedOn(OpToRel(<, Nat), Nat)
  BY NatLessThanWellFounded
<1>2. \E x \in S : \A y \in S : ~(<<y, x>> \in OpToRel(<, Nat))
  BY <1>1, WFMin
<1> QED BY <1>2 DEF OpToRel

\* The batches of a scan leave nothing out: what lies between two keys is the
\* batch, and the key does not go back.
LEMMA BatchCovers ==
  ASSUME NEW rows, \A x \in rows : x.id \in 1 .. MaxId, Unique(rows),
         NEW key \in 0 .. MaxId
  PROVE  LET batch == BatchAfter(rows, key)
         IN  /\ key <= KeyAfter(batch, key)
             /\ \A e \in rows : e \in batch <=> (key < e.id /\ e.id <= KeyAfter(batch, key))
<1> DEFINE batch == BatchAfter(rows, key)
           Between(e) == {f \in rows : key < f.id /\ f.id < e.id}
<1>1. /\ MaxId \in Nat /\ Batch \in Nat \ {0} /\ key \in Nat
      /\ \A x \in rows : x.id \in Nat /\ x.id <= MaxId
  BY RefreshAssumption
<1>2. /\ batch \subseteq rows
      /\ \A e \in rows : e \in batch <=> (e.id > key /\ Cardinality(Between(e)) < Batch)
  BY DEF BatchAfter
<1>3. IsFiniteSet(rows)
  BY RowsFinite DEF Unique
<1>4. ASSUME NEW S, NEW T, S \subseteq T, T \subseteq rows
      PROVE  /\ Cardinality(S) \in Nat /\ Cardinality(T) \in Nat
             /\ Cardinality(S) <= Cardinality(T)
  <2>1. IsFiniteSet(T)
    BY <1>3, <1>4, FS_Subset
  <2> QED BY <1>4, <2>1, FS_Subset, FS_CardinalityType
<1> HIDE DEF batch
<1>5. CASE Cardinality(batch) < Batch
  <2>1. KeyAfter(batch, key) = MaxId
    BY <1>5 DEF KeyAfter
  <2>2. ASSUME NEW e \in rows, key < e.id PROVE e \in batch
    <3> DEFINE S == {x.id : x \in {f \in rows : key < f.id /\ f \notin batch}}
    <3>1. SUFFICES ASSUME e \notin batch PROVE FALSE
      OBVIOUS
    <3>2. S \in SUBSET Nat /\ S # {}
      BY <1>1, <2>2, <3>1
    <3>3. PICK i \in S : \A j \in S : ~(j < i)
      <4> HIDE DEF S
      <4> QED BY <3>2, SmallestId
    <3>4. PICK m \in rows : key < m.id /\ m \notin batch /\ m.id = i
      OBVIOUS
    <3>5. \A f \in rows : key < f.id /\ f.id < m.id => f \in batch
      BY <3>3, <3>4
    <3>6. Between(m) \subseteq batch
      BY <3>5
    <3> HIDE DEF S, Between
    <3>7. Cardinality(Between(m)) < Batch
      <4>1. /\ Cardinality(Between(m)) \in Nat /\ Cardinality(batch) \in Nat
            /\ Cardinality(Between(m)) <= Cardinality(batch)
        BY <1>2, <1>4, <3>6
      <4> QED BY <1>1, <1>5, <4>1
    <3> QED BY <1>1, <1>2, <3>4, <3>7
  <2>3. \A e \in batch : e.id > key
    BY <1>2
  <2> QED BY <1>1, <1>2, <2>1, <2>2, <2>3 DEF batch
<1>6. CASE ~(Cardinality(batch) < Batch)
  <2>1. KeyAfter(batch, key) = Max(Ids(batch))
    BY <1>6 DEF KeyAfter
  <2>2. batch # {}
    BY <1>1, <1>6, FS_EmptySet
  <2>3. Ids(batch) \in SUBSET (0 .. MaxId) /\ Ids(batch) # {}
    BY <1>1, <1>2, <2>2 DEF Ids
  <2>4. Max(Ids(batch)) \in Ids(batch) /\ \A y \in Ids(batch) : Max(Ids(batch)) >= y
    <3>1. Max(Ids(batch)) \in Ids(batch)
      BY <2>3, MaxOf
    <3>2. \E x \in Ids(batch) : \A y \in Ids(batch) : x >= y
      BY <2>3, LargestId
    <3> QED BY <3>1, <3>2 DEF Max
  <2>5. PICK m \in batch : m.id = KeyAfter(batch, key)
    BY <2>1, <2>4 DEF Ids
  <2>6. m \in rows /\ m.id > key /\ Cardinality(Between(m)) < Batch
    BY <1>2
  <2>7. ASSUME NEW e \in rows, key < e.id, e.id <= m.id PROVE e \in batch
    <3>1. Between(e) \subseteq Between(m)
      BY <1>1, <2>6, <2>7
    <3>2. Between(m) \subseteq rows
      OBVIOUS
    <3> HIDE DEF Between
    <3>3. Cardinality(Between(e)) < Batch
      <4>1. /\ Cardinality(Between(e)) \in Nat /\ Cardinality(Between(m)) \in Nat
            /\ Cardinality(Between(e)) <= Cardinality(Between(m))
        BY <1>4, <3>1, <3>2
      <4> QED BY <1>1, <2>6, <4>1
    <3> QED BY <1>1, <1>2, <2>7, <3>3
  <2>8. ASSUME NEW e \in batch PROVE key < e.id /\ e.id <= m.id
    <3>1. e.id \in Ids(batch) /\ e.id \in Nat /\ m.id \in Nat
      BY <1>1, <1>2, <2>6 DEF Ids
    <3>2. e.id <= m.id
      BY <2>1, <2>4, <2>5, <3>1
    <3>3. key < e.id
      BY <1>1, <1>2, <3>1
    <3> QED BY <3>2, <3>3
  <2>9. key <= m.id
    BY <1>1, <2>6
  <2> QED BY <2>5, <2>7, <2>8, <2>9 DEF batch
<1> QED BY <1>5, <1>6

\* A batch of what is under a centroid is measured.
LEMMA CInvMeasure ==
  ASSUME FInv, FInv', CInv, NEW p \in Processes, NEW k \in DOMAIN found[p], Measure(p, k)
  PROVE  CInv'
<1> DEFINE key == found[p][k].upto
           batch == BatchAfter(Under(k), key)
           new == [upto |-> KeyAfter(batch, key), ids |-> found[p][k].ids \union Ids(batch)]
<1>1. AtWork(p) /\ pc[p] = "centre" /\ pc'[p] = "centre"
  <2>1. pc' = [pc EXCEPT ![p] = pc[p]]
    BY DEF Measure, FInv, Places
  <2> QED BY <2>1 DEF AtWork, Measure, Working, FInv, Places
<1>2. /\ UNCHANGED tables /\ UNCHANGED <<data, held, cat, sound>>
      /\ \A q \in Processes \ {p} : UNCHANGED found[q]
  BY DEF Measure, FInv, Shapes
<1>3. found'[p] = [found[p] EXCEPT ![k] = new]
  BY DEF Measure, FInv, Shapes
<1>4. CentroidsOf(cat[p])' = CentroidsOf(cat[p])
  BY <1>2 DEF CentroidsOf, tables
<1>5. /\ key \in 0 .. MaxId
      /\ \A x \in Under(k) : x.id \in 1 .. MaxId
      /\ Unique(Under(k))
  BY DEF FInv, Hand, HandTypes, Tables, Under, Unique, Row
<1>6. /\ key <= new.upto
      /\ \A e \in Under(k) : e \in batch <=> (key < e.id /\ e.id <= new.upto)
  <2> DEFINE rows == Under(k)
  <2>1. /\ key <= KeyAfter(batch, key)
        /\ \A e \in rows : e \in batch <=> (key < e.id /\ e.id <= KeyAfter(batch, key))
    <3> HIDE DEF key, rows
    <3>1. LET b == BatchAfter(rows, key)
          IN  /\ key <= KeyAfter(b, key)
              /\ \A e \in rows : e \in b <=> (key < e.id /\ e.id <= KeyAfter(b, key))
      BY <1>5, BatchCovers DEF rows
    <3> QED BY <3>1 DEF rows
  <2> HIDE DEF batch
  <2> QED BY <2>1
<1>7. batch \subseteq Under(k) /\ new.ids = found[p][k].ids \union Ids(batch)
  BY DEF BatchAfter
<1>8. new.upto \in Nat
  <2>1. \A e \in batch : e.id \in 1 .. MaxId
    BY <1>5, <1>7
  <2> HIDE DEF batch
  <2>2. KeyAfter(batch, key) \in 0 .. MaxId
    BY <2>1, KeyAfterType
  <2> QED BY <2>2, RefreshAssumption
<1> HIDE DEF batch, new, key
<1>9. ASSUME Reckoned(p, k, found[p][k].ids, key) PROVE Reckoned(p, k, new.ids, new.upto)
  <2> SUFFICES ASSUME NEW e \in embeddings, e.id \in data[p]
               PROVE  e.id \in new.ids <=> (e.centroid = k /\ e.id <= new.upto)
    BY DEF Reckoned
  <2>1. e.id \in found[p][k].ids <=> (e.centroid = k /\ e.id <= key)
    BY <1>9 DEF Reckoned
  <2>2. e.id \in Ids(batch) <=> e \in batch
    BY <1>7 DEF Ids, Under, FInv, Tables, Unique
  <2>3. e \in batch <=> (e.centroid = k /\ key < e.id /\ e.id <= new.upto)
    BY <1>6, <1>7 DEF Under
  <2>4. e.id \in Nat /\ key \in Nat
    BY <1>5, RefreshAssumption DEF FInv, Tables, Row
  <2>5. e.id <= key \/ key < e.id
    BY <2>4
  <2>6. e.id <= key => e.id <= new.upto
    BY <1>6, <1>8, <2>4
  <2> QED BY <1>7, <2>1, <2>2, <2>3, <2>5, <2>6
<1>10. ASSUME Account(p) PROVE Account(p)'
  <2>1. DOMAIN found'[p] = DOMAIN found[p]
    BY <1>3
  <2>2. ASSUME NEW c \in CentroidsOf(cat[p])
        PROVE  IF c.id \in DOMAIN found[p]
               THEN Reckoned(p, c.id, found'[p][c.id].ids, found'[p][c.id].upto)
               ELSE Reckoned(p, c.id, c.mean, MaxId)
    <3>1. IF c.id \in DOMAIN found[p]
          THEN Reckoned(p, c.id, found[p][c.id].ids, found[p][c.id].upto)
          ELSE Reckoned(p, c.id, c.mean, MaxId)
      BY <1>1, <1>10 DEF Account
    <3>2. CASE c.id = k
      <4>1. Reckoned(p, k, new.ids, new.upto)
        BY <1>9, <3>1, <3>2 DEF key
      <4>2. found'[p][k] = new
        BY <1>3
      <4> QED BY <3>2, <4>1, <4>2
    <3>3. CASE c.id # k
      BY <1>3, <3>1, <3>3
    <3> QED BY <3>2, <3>3
  <2>3. \A c \in CentroidsOf(cat[p]) :
          IF c.id \in DOMAIN found'[p]
          THEN Reckoned(p, c.id, found'[p][c.id].ids, found'[p][c.id].upto)
          ELSE Reckoned(p, c.id, c.mean, MaxId)
    BY <2>1, <2>2
  <2>4. (\A c \in CentroidsOf(cat[p]) :
           IF c.id \in DOMAIN found[p]
           THEN Reckoned(p, c.id, found[p][c.id].ids, found[p][c.id].upto)
           ELSE Reckoned(p, c.id, c.mean, MaxId))'
    BY <1>2, <1>4, <2>3 DEF Reckoned, tables
  <2> QED BY <1>1, <1>2, <1>4, <1>10, <2>4 DEF Account, tables
<1> QED BY <1>1, <1>2, <1>10, CInvQuiet

\* A centroid that could not be measured makes the refresh unsound.
LEMMA CInvRecentreFails ==
  ASSUME FInv, FInv', CInv, NEW p \in Processes, NEW k \in DOMAIN found[p], RecentreFails(p, k)
  PROVE  CInv'
<1>1. AtWork(p)
  <2>1. pc' = [pc EXCEPT ![p] = pc[p]]
    BY DEF RecentreFails, FInv, Places
  <2> QED BY <2>1 DEF AtWork, RecentreFails, Working, FInv, Places
<1>2. /\ UNCHANGED tables /\ UNCHANGED <<data, held>>
      /\ \A q \in Processes \ {p} : UNCHANGED found[q]
      /\ ~sound'[p] /\ \A q \in Processes : sound'[q] => sound[q]
  BY DEF RecentreFails, FInv, Places, Shapes
<1> QED BY <1>1, <1>2, CInvQuiet

\* The mean is written.
LEMMA CInvRecentre ==
  ASSUME FInv, FInv', CInv, NEW p \in Processes, NEW k \in DOMAIN found[p], Recentre(p, k)
  PROVE  CInv'
<1> DEFINE r == [id |-> k, category |-> cat[p], mean |-> found[p][k].ids]
<1>1. AtWork(p) /\ pc[p] = "centre" /\ pc'[p] = "centre"
  <2>1. pc' = [pc EXCEPT ![p] = pc[p]]
    BY DEF Recentre, FInv, Places
  <2> QED BY <2>1 DEF AtWork, Recentre, Working, FInv, Places
<1>2. /\ UNCHANGED <<embeddings, fresh>> /\ UNCHANGED <<data, held, cat, sound>>
      /\ \A q \in Processes \ {p} : UNCHANGED found[q]
      /\ centroids' = Written({r}) /\ found[p][k].upto = MaxId
      /\ found'[p] = [i \in DOMAIN found[p] \ {k} |-> found[p][i]]
  BY DEF Recentre, Others, FInv, Shapes
<1>3. PICK old \in centroids : old.id = k /\ old.category = cat[p]
  BY DEF FInv, Hand, Mine
<1>4. r.id = k /\ r.category = cat[p] /\ r.mean = found[p][k].ids
  OBVIOUS
<1> HIDE DEF r
<1>5. centroids' = {x \in centroids : x.id # k} \union {r}
  BY <1>2, <1>4 DEF Written, Ids
<1>6. \A x \in centroids \union centroids' :
        x.category # cat[p] => x \in centroids /\ x \in centroids'
  BY <1>3, <1>4, <1>5 DEF FInv, Tables, Unique
<1>7. ASSUME Account(p) PROVE Account(p)'
  <2>1. r \in CentroidsOf(cat[p])'
    BY <1>2, <1>4, <1>5 DEF CentroidsOf
  <2>2. ASSUME NEW x \in CentroidsOf(cat[p])'
        PROVE  IF x.id \in DOMAIN found'[p]
               THEN Reckoned(p, x.id, found'[p][x.id].ids, found'[p][x.id].upto)
               ELSE Reckoned(p, x.id, x.mean, MaxId)
    <3>1. \A c \in CentroidsOf(cat[p]) :
            IF c.id \in DOMAIN found[p]
            THEN Reckoned(p, c.id, found[p][c.id].ids, found[p][c.id].upto)
            ELSE Reckoned(p, c.id, c.mean, MaxId)
      BY <1>1, <1>7 DEF Account
    <3>2. CASE x = r
      <4>1. Reckoned(p, k, found[p][k].ids, MaxId)
        BY <1>2, <1>3, <3>1 DEF CentroidsOf
      <4>2. x.id \notin DOMAIN found'[p]
        BY <1>2, <1>4, <3>2
      <4> QED BY <1>4, <3>2, <4>1, <4>2
    <3>3. CASE x # r
      <4>1. x \in CentroidsOf(cat[p]) /\ x.id # k
        BY <1>2, <1>5, <3>3 DEF CentroidsOf
      <4> QED BY <1>2, <3>1, <4>1
    <3> QED BY <3>2, <3>3
  <2>3. (\A c \in CentroidsOf(cat[p]) :
           IF c.id \in DOMAIN found[p]
           THEN Reckoned(p, c.id, found[p][c.id].ids, found[p][c.id].upto)
           ELSE Reckoned(p, c.id, c.mean, MaxId))'
    BY <1>2, <2>2 DEF Reckoned
  <2> QED BY <1>1, <1>2, <1>7, <2>1, <2>3 DEF Account
<1>8. fresh <= fresh'
  BY <1>2, RefreshAssumption DEF FInv, Tables
<1> QED BY <1>1, <1>2, <1>6, <1>7, <1>8, CInvWork

\* The new vectors are written over the rows in hand, and beside them.
LEMMA CInvSave == ASSUME FInv, FInv', CInv, NEW p \in Processes, Save(p) PROVE CInv'
<1> DEFINE old == Ids(held[p])
<1>1. AtWork(p) /\ pc[p] = "save" /\ pc'[p] = "scan"
  BY DEF AtWork, Save, Working, FInv, Places, Go
<1>2. /\ UNCHANGED embeddings /\ UNCHANGED <<data, found, cat, sound>>
      /\ \A q \in Processes \ {p} : UNCHANGED held[q]
  BY DEF Save, FInv, Shapes
<1>3. PICK n \in 1 .. Cardinality(data[p]) :
        LET new == fresh .. fresh + n - Cardinality(old) - 1
        IN  /\ \E ids \in SUBSET (old \union new) :
               LET rows == {[id |-> i, category |-> cat[p], mean |-> KMeansVector] : i \in ids}
                             \union {k \in held[p] : k.id \notin ids}
               IN  /\ centroids' = Written(rows)
                   /\ held' = [held EXCEPT ![p] = rows]
            /\ fresh' = fresh + Cardinality(new)
  BY DEF Save
<1> DEFINE top == fresh + n - Cardinality(old) - 1
           new == fresh .. top
<1>4. PICK ids \in SUBSET (old \union new) :
        LET rows == {[id |-> i, category |-> cat[p], mean |-> KMeansVector] : i \in ids}
                      \union {k \in held[p] : k.id \notin ids}
        IN  centroids' = Written(rows) /\ held' = [held EXCEPT ![p] = rows]
  BY <1>3
<1> DEFINE rows == {[id |-> i, category |-> cat[p], mean |-> KMeansVector] : i \in ids}
                      \union {k \in held[p] : k.id \notin ids}
<1>5. centroids' = Written(rows) /\ held'[p] = rows
  BY <1>4 DEF FInv, Shapes
<1>6. fresh \in Nat /\ top \in Int
  <2>1. fresh \in Nat /\ n \in Nat /\ Cardinality(old) \in Nat
    BY HandFinite, RefreshAssumption DEF FInv, Tables
  <2> HIDE DEF old
  <2> QED BY <2>1
<1>7. fresh <= fresh'
  <2>1. fresh' = fresh + Cardinality(fresh .. top)
    BY <1>3
  <2> HIDE DEF top
  <2>2. Cardinality(fresh .. top) = IF fresh > top THEN 0 ELSE top - fresh + 1
    BY <1>6, FS_Interval
  <2> QED BY <1>6, <2>1, <2>2
<1>8. \A x \in rows : x.category = cat[p]
  BY DEF FInv, Hand, Mine
<1>9. Ids(rows) \subseteq old \union new /\ old \subseteq Ids(rows)
  <2>1. ASSUME NEW k \in held[p] PROVE k.id \in Ids(rows)
    <3>1. CASE k.id \in ids
      <4>1. [id |-> k.id, category |-> cat[p], mean |-> KMeansVector] \in rows
        BY <3>1
      <4> HIDE DEF rows
      <4> QED BY <4>1 DEF Ids
    <3>2. CASE k.id \notin ids
      <4>1. k \in rows
        BY <3>2
      <4> HIDE DEF rows
      <4> QED BY <4>1 DEF Ids
    <3> QED BY <3>1, <3>2
  <2>2. \A x \in rows : x.id \in old \union new
    BY DEF Ids
  <2>3. old \subseteq Ids(rows)
    <3> HIDE DEF rows
    <3> QED BY <2>1 DEF Ids
  <2>4. Ids(rows) \subseteq old \union new
    <3> HIDE DEF rows, old, new
    <3> QED BY <2>2 DEF Ids
  <2> QED BY <2>3, <2>4
<1>10. ASSUME NEW k \in centroids, k.id \in Ids(rows) PROVE k.category = cat[p]
  <2>1. k.id < fresh /\ k.id \in Nat
    BY DEF FInv, Tables, Centroid
  <2>2. k.id \notin new
    <3> HIDE DEF top
    <3> QED BY <1>6, <2>1
  <2>3. k.id \in old
    <3> HIDE DEF old, new, rows
    <3> QED BY <1>9, <1>10, <2>2
  <2>4. PICK c \in centroids : c.id = k.id /\ c.category = cat[p]
    BY <2>3 DEF FInv, Hand, Mine
  <2>5. c = k
    <3>1. Unique(centroids)
      BY DEF FInv, Tables
    <3> QED BY <2>4, <3>1 DEF Unique
  <2> QED BY <2>4, <2>5
<1> HIDE DEF rows, new
<1>11. \A x \in centroids \union centroids' :
         x.category # cat[p] => x \in centroids /\ x \in centroids'
  BY <1>5, <1>8, <1>10 DEF Written
<1>12. ASSUME Account(p) PROVE Account(p)'
  <2>1. CentroidsOf(cat[p])' # {}
    <3>1. PICK k \in centroids : k.category = cat[p]
      BY <1>1, <1>12 DEF Account, CentroidsOf
    <3>2. k.id \in Ids(rows) \/ k \in centroids'
      BY <1>5 DEF Written
    <3>3. \E x \in centroids' : x.category = cat[p]
      BY <1>5, <1>8, <3>1, <3>2 DEF Written, Ids
    <3> QED BY <1>2, <3>3 DEF CentroidsOf
  <2>2. Ids(CentroidsOf(cat[p]))' \subseteq Ids(held[p])'
    <3> SUFFICES ASSUME NEW x \in centroids', x.category = cat[p] PROVE x.id \in Ids(rows)
      BY <1>2, <1>5 DEF Ids, CentroidsOf
    <3>1. CASE x \in rows
      BY <3>1 DEF Ids
    <3>2. CASE x \in centroids /\ x.id \notin Ids(rows)
      <4>1. x.id \in Ids(CentroidsOf(cat[p]))
        BY <3>2 DEF Ids, CentroidsOf
      <4>2. x.id \in old
        BY <1>1, <1>12, <4>1 DEF Account
      <4> HIDE DEF old
      <4> QED BY <1>9, <4>2
    <3> QED BY <1>5, <3>1, <3>2 DEF Written
  <2>3. \A i \in data'[p] : i < fresh'
    <3>1. \A i \in data[p] : i < fresh /\ i \in Nat
      BY <1>1, <1>12, RefreshAssumption DEF Account, FInv, Hand, HandTypes
    <3>2. fresh' \in Nat
      BY RefreshAssumption DEF FInv, Tables
    <3> QED BY <1>2, <1>6, <1>7, <3>1, <3>2
  <2>4. data'[p] # {}
    BY <1>1, <1>2, <1>12 DEF Account
  <2> QED BY <1>1, <2>1, <2>2, <2>3, <2>4 DEF Account
<1> QED BY <1>1, <1>2, <1>7, <1>11, <1>12, CInvWork

\* Every step keeps the account of each refresh that is alone.
LEMMA CInvStep == FInv /\ FInv' /\ CInv /\ [Next]_vars => CInv'
<1> SUFFICES ASSUME FInv, FInv', CInv, [Next]_vars PROVE CInv'
  OBVIOUS
<1>1. ASSUME NEW p \in Processes, Process(p) \/ Fail(p) \/ Shutdown(p) PROVE CInv'
  <2>1. CASE List(p) \/ CategoryGone(p) \/ AllDone(p)
             \/ \E c \in Categories : LockRefused(p, c)
    BY <2>1, CInvListing
  <2>2. ASSUME NEW c \in Categories, Lock(p, c) PROVE CInv'
    BY <2>2, CInvLock
  <2>3. CASE Leaving(p)
    BY <2>3, CInvLeave
  <2>4. CASE Passing(p) \/ Read(p) \/ Retrieve(p)
    BY <2>4, CInvRead
  <2>5. CASE Save(p)
    BY <2>5, CInvSave
  <2>6. CASE Scan(p) \/ \E g \in moves[p] : UpdateFails(p, g)
    BY <2>6, CInvScan
  <2>7. CASE Drop(p)
    BY <2>7, CInvDrop
  <2>8. ASSUME NEW g \in moves[p], Update(p, g) PROVE CInv'
    BY <2>8, CInvUpdate
  <2>9. ASSUME NEW k \in DOMAIN found[p], Measure(p, k) PROVE CInv'
    BY <2>9, CInvMeasure
  <2>10. ASSUME NEW k \in DOMAIN found[p], RecentreFails(p, k) PROVE CInv'
    BY <2>10, CInvRecentreFails
  <2>11. ASSUME NEW k \in DOMAIN found[p], Recentre(p, k) PROVE CInv'
    BY <2>11, CInvRecentre
  <2> QED BY <1>1, <2>1, <2>2, <2>3, <2>4, <2>5, <2>6, <2>7, <2>8, <2>9, <2>10, <2>11
          DEF Process, Leaving, Passing
<1>2. CASE UNCHANGED vars
  <2>1. UNCHANGED <<pc, cat, sound, data, held, found>> /\ UNCHANGED tables
    BY <1>2 DEF vars, work
  <2>2. fresh <= fresh'
    BY <2>1, RefreshAssumption DEF FInv, Tables, tables
  <2>3. \A q \in Processes : Apart(q)
    BY <2>1, <2>2 DEF Apart, tables
  <2>4. \A o \in Processes, c \in Categories : At(o, c)' => At(o, c)
    BY <2>1 DEF At
  <2> QED BY <2>1, <2>3, <2>4, CInvKept DEF FInv, Places
<1> QED BY <1>1, <1>2, CInvUsers DEF Next

\* A refresh that was alone at its category and whose writes succeeded leaves
\* each centroid with the mean of what is under it, of the embeddings it read:
\* whatever is uploaded and deleted meanwhile, and whatever the refreshes of other
\* categories do, no batch is left out, and none measured before it was moved.
THEOREM CentredHolds == Spec => []Centred
<1>1. Init => FInv /\ CInv
  <2>1. Init => CInv
    BY DEF Init, CInv
  <2> QED BY <2>1, FInvInit
<1>2. FInv /\ CInv /\ [Next]_vars => (FInv /\ CInv)'
  BY FInvStep, CInvStep
<1>3. FInv /\ CInv => Centred
  BY CInvMeans
<1> QED BY <1>1, <1>2, <1>3, PTL DEF Spec
-----------------------------------------------------------------------------
(* The progress bars.                                                        *)

\* What a scan has still to come to.
Ahead(q) == {i \in Ids(Joined(cat[q])) : i > last[q]}

\* Unless an embedding has been deleted since they were counted, what a bar lacks
\* of its total is there to be scanned.
BarsKept(q) ==
    /\ pc[q] \in {"list", "next", "count", "take", "retrieve", "save"} => last[q] = 0
    /\ pc[q] \notin {"read", "scan"} => current[q] = 0
    /\ short[q] => deleted[q]
    /\ Counting(q) /\ ~deleted[q] =>
         /\ total[q] <= Cardinality(Ids(Joined(cat[q])))
         /\ total[q] <= current[q] + Cardinality(Ahead(q))

BInv == BarTypes /\ \A q \in Processes : BarsKept(q)

\* As many rows as keys.
LEMMA CountIds ==
  ASSUME NEW rows, \A x \in rows : x.id \in 1 .. MaxId, Unique(rows)
  PROVE  /\ IsFiniteSet(Ids(rows))
         /\ Cardinality(Ids(rows)) = Cardinality(rows) /\ Cardinality(rows) \in Nat
<1> DEFINE f == [x \in rows |-> x.id]
<1>1. IsFiniteSet(Ids(rows))
  <2>1. Ids(rows) \in SUBSET (1 .. MaxId)
    BY DEF Ids
  <2>2. IsFiniteSet(1 .. MaxId)
    BY RefreshAssumption, FS_Interval
  <2> QED BY <2>1, <2>2, FS_Subset
<1>2. f \in Injection(rows, Ids(rows))
  BY DEF Injection, IsInjective, Ids, Unique
<1>3. f \in Surjection(rows, Ids(rows))
  BY DEF Surjection, Ids
<1>4. Cardinality(rows) \in Nat
  BY RowsFinite DEF Unique
<1> HIDE DEF f
<1> QED BY <1>1, <1>2, <1>3, <1>4, FS_Injection

\* The rows a scan goes through, and their keys.
LEMMA JoinedIds ==
  ASSUME FInv, NEW q \in Processes
  PROVE  LET rows == Joined(cat[q])
         IN  /\ \A x \in rows : x.id \in 1 .. MaxId
             /\ Unique(rows) /\ IsFiniteSet(Ids(rows))
             /\ Cardinality(Ids(rows)) = Cardinality(rows)
             /\ Cardinality(rows) \in Nat
             /\ IsFiniteSet(Ahead(q)) /\ Cardinality(Ahead(q)) \in Nat
             /\ last[q] \in 0 .. MaxId
<1> DEFINE rows == Joined(cat[q])
<1>1. /\ \A x \in rows : x.id \in 1 .. MaxId
      /\ Unique(rows) /\ last[q] \in 0 .. MaxId
  BY DEF Joined, FInv, Tables, Unique, Row, Hand, HandTypes
<1>2. Ahead(q) \subseteq Ids(rows)
  BY DEF Ahead
<1> HIDE DEF rows
<1>3. /\ IsFiniteSet(Ids(rows))
      /\ Cardinality(Ids(rows)) = Cardinality(rows) /\ Cardinality(rows) \in Nat
  BY <1>1, CountIds
<1>4. IsFiniteSet(Ahead(q)) /\ Cardinality(Ahead(q)) \in Nat
  BY <1>2, <1>3, FS_Subset, FS_CardinalityType
<1> QED BY <1>1, <1>3, <1>4 DEF rows

\* A step at which the bars of a process stand still.
LEMMA BarsSame ==
  ASSUME FInv, FInv', NEW q \in Processes, BarsKept(q), BarTypes,
         UNCHANGED <<last[q], total[q], current[q], short[q]>>,
         short[q] => deleted'[q],
         pc'[q] \in {"list", "next", "count", "take", "retrieve", "save"} => last[q] = 0,
         pc'[q] \notin {"read", "scan"} => current[q] = 0,
         Counting(q)' /\ ~deleted'[q] =>
           /\ Counting(q) /\ ~deleted[q]
           /\ Ids(Joined(cat[q])) \subseteq Ids(Joined(cat[q]))'
  PROVE  BarsKept(q)'
<1> SUFFICES ASSUME Counting(q)', ~deleted'[q]
             PROVE  /\ total[q] <= Cardinality(Ids(Joined(cat[q]))')
                    /\ total[q] <= current[q] + Cardinality(Ahead(q)')
  BY DEF BarsKept
<1> DEFINE A == Ids(Joined(cat[q]))
           B == Ids(Joined(cat[q]))'
           C == Ahead(q)
           D == Ahead(q)'
<1>1. A \subseteq B /\ C \subseteq D
  BY DEF Ahead
<1>2. /\ IsFiniteSet(B) /\ Cardinality(A) \in Nat /\ Cardinality(B) \in Nat
      /\ IsFiniteSet(D) /\ Cardinality(C) \in Nat /\ Cardinality(D) \in Nat
  <2>1. A \in SUBSET (1 .. MaxId) /\ B \in SUBSET (1 .. MaxId)
    BY DEF FInv, Tables, Row, Ids, Joined
  <2>2. C \subseteq A /\ D \subseteq B
    BY DEF Ahead
  <2>3. IsFiniteSet(1 .. MaxId)
    BY RefreshAssumption, FS_Interval
  <2> HIDE DEF A, B, C, D
  <2> QED BY <2>1, <2>2, <2>3, FS_Subset, FS_CardinalityType
<1>3. total[q] <= Cardinality(A) /\ total[q] <= current[q] + Cardinality(C)
  BY DEF BarsKept
<1>4. total[q] \in Nat /\ current[q] \in Nat
  BY DEF BarTypes
<1> HIDE DEF A, B, C, D
<1>5. Cardinality(A) <= Cardinality(B) /\ Cardinality(C) <= Cardinality(D)
  BY <1>1, <1>2, FS_Subset
<1>6. total[q] <= Cardinality(B) /\ total[q] <= current[q] + Cardinality(D)
  BY <1>2, <1>3, <1>4, <1>5
<1> QED BY <1>6 DEF B, D

\* A batch is scanned: it is what was ahead up to the new key, and when there is
\* none the bar has come to its total.
LEMMA BarsMoveOn ==
  ASSUME FInv, NEW p \in Processes, BarsKept(p), BarTypes,
         pc[p] \in {"read", "scan"}, UNCHANGED <<tables, cat, total, deleted>>,
         LET batch == BatchAfter(Joined(cat[p]), last[p])
         IN  /\ Progress(p, batch)
             /\ batch # {} => last'[p] = KeyAfter(batch, last[p]) /\ pc'[p] = pc[p]
             /\ batch = {} => pc'[p] \in {"unlock", "drop"}
                              \/ (pc'[p] = "retrieve" /\ last'[p] = 0)
  PROVE  BarsKept(p)'
<1> DEFINE rows == Joined(cat[p])
           batch == BatchAfter(rows, last[p])
<1>1. /\ current'[p] = IF batch = {} THEN 0 ELSE MovedOn(p, batch)
      /\ short'[p] = (short[p] \/ (batch = {} /\ current[p] < total[p]))
      /\ cat'[p] = cat[p] /\ total'[p] = total[p] /\ deleted'[p] = deleted[p]
      /\ batch # {} => last'[p] = KeyAfter(batch, last[p]) /\ pc'[p] = pc[p]
      /\ batch = {} => pc'[p] \in {"unlock", "drop"}
                       \/ (pc'[p] = "retrieve" /\ last'[p] = 0)
  BY DEF Progress, BarTypes
<1>2. /\ \A x \in rows : x.id \in 1 .. MaxId
      /\ Unique(rows) /\ IsFiniteSet(Ids(rows))
      /\ Cardinality(Ids(rows)) = Cardinality(rows)
      /\ Cardinality(rows) \in Nat
      /\ IsFiniteSet(Ahead(p)) /\ Cardinality(Ahead(p)) \in Nat
      /\ last[p] \in 0 .. MaxId
  BY JoinedIds
<1>3. \A e \in rows : e \in batch <=> (last[p] < e.id /\ e.id <= KeyAfter(batch, last[p]))
  <2> HIDE DEF rows
  <2> QED BY <1>2, BatchCovers
<1>4. batch \subseteq rows /\ Ids(rows)' = Ids(rows)
  BY <1>1 DEF BatchAfter, Joined, Ids, tables
<1>5. /\ IsFiniteSet(Ids(batch)) /\ Cardinality(Ids(batch)) = Cardinality(batch)
      /\ Cardinality(batch) \in Nat /\ KeyAfter(batch, last[p]) \in 0 .. MaxId
  <2> HIDE DEF rows, batch
  <2>1. (\A x \in batch : x.id \in 1 .. MaxId) /\ Unique(batch)
    BY <1>2, <1>4 DEF Unique
  <2> QED BY <2>1, CountIds, KeyAfterType
<1>6. Counting(p) /\ short[p] => deleted[p]
  BY DEF BarsKept
<1>7. total[p] \in Nat /\ current[p] \in Nat
  BY DEF BarTypes
<1>8. ~deleted[p] => /\ total[p] <= Cardinality(Ids(rows))
                     /\ total[p] <= current[p] + Cardinality(Ahead(p))
  BY DEF BarsKept, Counting
<1>9. CASE batch = {}
  <2>1. Ahead(p) = {}
    <3> SUFFICES ASSUME NEW e \in rows, e.id > last[p] PROVE FALSE
      BY DEF Ahead, Ids
    <3>1. KeyAfter(batch, last[p]) = MaxId
      <4>1. Batch \in Nat \ {0} /\ Cardinality({}) = 0
        BY RefreshAssumption, FS_EmptySet
      <4> HIDE DEF batch
      <4> QED BY <1>9, <4>1 DEF KeyAfter
    <3>2. e.id \in 1 .. MaxId /\ last[p] \in 0 .. MaxId /\ MaxId \in Nat
      BY <1>2, RefreshAssumption
    <3> HIDE DEF rows, batch
    <3>3. last[p] < e.id /\ e.id <= MaxId
      BY <3>2
    <3> QED BY <1>3, <1>9, <3>1, <3>3
  <2>2. Cardinality(Ahead(p)) = 0
    BY <2>1, FS_EmptySet
  <2>3. ~deleted[p] => ~(current[p] < total[p])
    BY <1>7, <1>8, <2>2
  <2>4. short'[p] => deleted'[p]
    BY <1>1, <1>9, <2>3 DEF BarsKept
  <2>5. current'[p] = 0
    BY <1>1, <1>9
  <2>6. pc'[p] = "retrieve" /\ ~deleted[p] =>
          total[p] <= Cardinality(Ahead(p)')
    <3> SUFFICES ASSUME pc'[p] = "retrieve", ~deleted[p]
                 PROVE  total[p] <= Cardinality(Ahead(p)')
      OBVIOUS
    <3>1. last'[p] = 0
      BY <1>1, <1>9
    <3>2. \A i \in Ids(rows) : i > 0
      BY <1>2, RefreshAssumption DEF Ids
    <3>3. Ahead(p)' = Ids(rows)
      <4>1. Ahead(p)' = {i \in Ids(rows)' : i > last'[p]}
        BY DEF Ahead
      <4> HIDE DEF rows
      <4> QED BY <1>4, <3>1, <3>2, <4>1
    <3> QED BY <1>8, <3>3
  <2>7. ~deleted[p] => total[p] <= Cardinality(Ids(rows)')
    <3> HIDE DEF rows
    <3> QED BY <1>4, <1>8
  <2>8. Cardinality(Ahead(p)') = 0 + Cardinality(Ahead(p)') \/ pc'[p] # "retrieve"
    <3> SUFFICES ASSUME pc'[p] = "retrieve" PROVE Cardinality(Ahead(p)') \in Nat
      OBVIOUS
    <3>1. Ahead(p)' \subseteq Ids(rows)'
      BY DEF Ahead
    <3> HIDE DEF rows
    <3> QED BY <1>2, <1>4, <3>1, FS_Subset, FS_CardinalityType
  <2> QED BY <1>1, <1>9, <2>4, <2>5, <2>6, <2>7, <2>8 DEF BarsKept, Counting
<1>10. CASE batch # {}
  <2>1. /\ last'[p] = KeyAfter(batch, last[p]) /\ pc'[p] = pc[p]
        /\ current'[p] = MovedOn(p, batch) /\ (short'[p] => short[p])
    <3> HIDE DEF batch
    <3> QED BY <1>1, <1>10
  <2>2. Ahead(p) \subseteq Ids(batch) \union Ahead(p)'
    <3> SUFFICES ASSUME NEW e \in rows, e.id > last[p], e.id \notin Ids(batch)
                 PROVE  e.id \in Ahead(p)'
      BY DEF Ahead, Ids
    <3>1. e \notin batch
      BY DEF Ids
    <3>2. e.id \in 1 .. MaxId /\ last[p] \in 0 .. MaxId /\ MaxId \in Nat
          /\ KeyAfter(batch, last[p]) \in 0 .. MaxId
      BY <1>2, <1>5, RefreshAssumption
    <3>3. ~(e.id <= KeyAfter(batch, last[p]))
      <4> HIDE DEF rows, batch
      <4> QED BY <1>3, <3>1, <3>2
    <3>4. e.id \in Ids(rows)'
      <4>1. e.id \in Ids(rows)
        BY DEF Ids
      <4> QED BY <1>4, <4>1
    <3>5. e.id > last'[p]
      <4> HIDE DEF rows, batch
      <4> QED BY <2>1, <3>2, <3>3
    <3> QED BY <3>4, <3>5 DEF Ahead
  <2>3. IsFiniteSet(Ahead(p)')
    <3>1. Ahead(p)' \subseteq Ids(rows)'
      BY DEF Ahead
    <3> HIDE DEF rows
    <3> QED BY <1>2, <1>4, <3>1, FS_Subset
  <2>4. /\ Cardinality(Ahead(p)) <= Cardinality(batch) + Cardinality(Ahead(p)')
        /\ Cardinality(Ahead(p)') \in Nat
    <3> DEFINE A == Ahead(p)
               B == Ids(batch)
               C == Ahead(p)'
    <3>1. IsFiniteSet(B) /\ IsFiniteSet(C) /\ A \subseteq B \union C
      BY <1>5, <2>2, <2>3
    <3> HIDE DEF A, B, C
    <3>2. /\ IsFiniteSet(B \union C)
          /\ Cardinality(B \union C) = Cardinality(B) + Cardinality(C) - Cardinality(B \cap C)
          /\ IsFiniteSet(B \cap C)
      BY <3>1, FS_Union, FS_Subset
    <3>3. /\ Cardinality(A) <= Cardinality(B \union C)
          /\ Cardinality(A) \in Nat /\ Cardinality(B) \in Nat /\ Cardinality(C) \in Nat
          /\ Cardinality(B \cap C) \in Nat /\ Cardinality(B \union C) \in Nat
      BY <3>1, <3>2, FS_Subset, FS_CardinalityType
    <3>4. Cardinality(A) <= Cardinality(B) + Cardinality(C)
      BY <3>2, <3>3
    <3> QED BY <1>5, <3>3, <3>4 DEF A, B, C
  <2>5. ~deleted[p] => total[p] <= current'[p] + Cardinality(Ahead(p)')
    <3>1. current'[p] = total[p] \/ current'[p] = current[p] + Cardinality(batch)
      BY <2>1 DEF MovedOn
    <3> HIDE DEF batch
    <3> QED BY <1>2, <1>5, <1>7, <1>8, <2>4, <3>1
  <2>6. ~deleted[p] => total[p] <= Cardinality(Ids(rows)')
    <3> HIDE DEF rows
    <3> QED BY <1>4, <1>8
  <2>7. short'[p] => deleted'[p]
    BY <1>1, <2>1 DEF BarsKept
  <2> QED BY <1>1, <2>1, <2>5, <2>6, <2>7 DEF BarsKept, Counting
<1> QED BY <1>9, <1>10

\* No step of a process changes which embeddings there are.
LEMMA IdsSteady ==
  ASSUME FInv, NEW p \in Processes, Process(p) \/ Fail(p) \/ Shutdown(p), NEW c \in Categories
  PROVE  Ids(Joined(c))' = Ids(Joined(c))
<1>1. CASE UNCHANGED <<embeddings, orphans>>
  BY <1>1 DEF Joined, Ids
<1>2. ASSUME NEW g, embeddings' = {IF e.id \in g.ids THEN [e EXCEPT !.centroid = g.to] ELSE e :
                                     e \in embeddings},
             orphans' = orphans
      PROVE  Ids(Joined(c))' = Ids(Joined(c))
  <2> DEFINE moved(e) == IF e.id \in g.ids THEN [e EXCEPT !.centroid = g.to] ELSE e
  <2>1. ASSUME NEW e \in embeddings PROVE moved(e).id = e.id /\ moved(e).category = e.category
    <3>1. e \in Row
      BY DEF FInv, Tables
    <3> QED BY <3>1 DEF Row
  <2>2. embeddings' = {moved(e) : e \in embeddings}
    BY <1>2
  <2> HIDE DEF moved
  <2>3. \A e \in embeddings : \E x \in embeddings' : x.id = e.id /\ x.category = e.category
    BY <2>1, <2>2
  <2>4. \A x \in embeddings' : \E e \in embeddings : x.id = e.id /\ x.category = e.category
    BY <2>1, <2>2
  <2>5. ASSUME NEW e \in Joined(c) PROVE e.id \in Ids(Joined(c))'
    <3>1. PICK x \in embeddings' : x.id = e.id /\ x.category = e.category
      BY <2>3 DEF Joined
    <3>2. x \in Joined(c)'
      BY <1>2, <3>1 DEF Joined
    <3> QED BY <3>1, <3>2 DEF Ids
  <2>6. ASSUME NEW x \in Joined(c)' PROVE x.id \in Ids(Joined(c))
    <3>1. PICK e \in embeddings : x.id = e.id /\ x.category = e.category
      BY <2>4 DEF Joined
    <3>2. e \in Joined(c)
      BY <1>2, <3>1 DEF Joined
    <3> QED BY <3>1, <3>2 DEF Ids
  <2> QED BY <2>5, <2>6 DEF Ids
<1>3. CASE Drop(p)
  <2>1. PICK place : embeddings' = {IF e.centroid \in Ids(Dropped)
                                    THEN [e EXCEPT !.centroid = place] ELSE e : e \in embeddings}
    BY <1>3 DEF Drop
  <2>2. Ids(Dropped) = {}
    BY NoneDropped DEF Ids
  <2>3. embeddings' = embeddings /\ orphans' = orphans
    BY <1>3, <2>1, <2>2 DEF Drop
  <2> QED BY <1>1, <2>3
<1>4. CASE \E g \in moves[p] : Update(p, g)
  BY <1>2, <1>4 DEF Update
<1>5. CASE \/ List(p) \/ CategoryGone(p) \/ AllDone(p) \/ Unlock(p)
           \/ \E d \in Categories : Lock(p, d) \/ LockRefused(p, d)
           \/ Count(p) \/ Take(p) \/ NothingToTake(p) \/ Read(p) \/ Retrieve(p) \/ Save(p)
           \/ Scan(p) \/ Completed(p) \/ Waited(p) \/ Fail(p) \/ Shutdown(p)
           \/ \E g \in moves[p] : UpdateFails(p, g)
           \/ \E k \in DOMAIN found[p] : Measure(p, k) \/ Recentre(p, k) \/ RecentreFails(p, k)
  <2>1. UNCHANGED <<embeddings, orphans>>
    BY <1>5 DEF List, CategoryGone, AllDone, Unlock, Lock, LockRefused, Count, Take,
                NothingToTake, Read, Retrieve, Save, Scan, Completed, Waited, Fail, Shutdown,
                UpdateFails, Measure, Recentre, RecentreFails, tables
  <2> QED BY <1>1, <2>1
<1> QED BY <1>3, <1>4, <1>5 DEF Process

\* The bars of a process that takes no step.
LEMMA BarsBeside ==
  ASSUME FInv, FInv', BInv, NEW q \in Processes,
         UNCHANGED <<pc[q], cat[q], last[q], total[q], current[q], short[q]>>,
         deleted[q] => deleted'[q],
         Counting(q) /\ ~deleted'[q] => Ids(Joined(cat[q])) \subseteq Ids(Joined(cat[q]))'
  PROVE  BarsKept(q)'
<1>1. BarsKept(q) /\ BarTypes
  BY DEF BInv
<1>2. /\ short[q] => deleted'[q]
      /\ pc'[q] \in {"list", "next", "count", "take", "retrieve", "save"} => last[q] = 0
      /\ pc'[q] \notin {"read", "scan"} => current[q] = 0
  BY <1>1 DEF BarsKept
<1>3. Counting(q)' /\ ~deleted'[q] =>
           /\ Counting(q) /\ ~deleted[q]
           /\ Ids(Joined(cat[q])) \subseteq Ids(Joined(cat[q]))'
  BY DEF Counting
<1> QED BY <1>1, <1>2, <1>3, BarsSame

\* Users: an embedding that goes is noted.
LEMMA BarsUsers == ASSUME FInv, FInv', BInv, Users PROVE BInv'
<1>1. UNCHANGED <<pc, cat, last, total, current, short, shared, postgres>>
  BY DEF Users, Upload, DeleteDocument, DeleteCategory, work
<1>2. BarTypes'
  <2>1. deleted' \in [Processes -> BOOLEAN]
    BY DEF Users, Upload, DeleteDocument, DeleteCategory, work, BInv, BarTypes
  <2> QED BY <1>1, <2>1 DEF BInv, BarTypes
<1>3. ASSUME NEW q \in Processes PROVE BarsKept(q)'
  <2>1. cat[q] \in Categories
    BY DEF FInv, Places
  <2>2. ASSUME NEW c \in Categories, Upload(c)
        PROVE  deleted' = deleted /\ embeddings \subseteq embeddings' /\ orphans' = orphans
    BY <2>2 DEF Upload, work
  <2>3. ASSUME NEW e \in embeddings, DeleteDocument(e)
        PROVE  /\ deleted'[q] = (deleted[q] \/ (cat[q] = e.category /\ Counting(q)))
               /\ embeddings \ {e} \subseteq embeddings' /\ orphans' \subseteq orphans \union {e.id}
    BY <2>3 DEF DeleteDocument, BInv, BarTypes
  <2>4. ASSUME NEW c \in Categories, DeleteCategory(c)
        PROVE  /\ deleted' = deleted /\ orphans' = orphans
               /\ Counting(q) => \A x \in Joined(cat[q]) : x \in embeddings'
    <3>1. Counting(q) /\ postgres => cat[q] # c
      BY <2>1, <2>4 DEF DeleteCategory, FInv, Hand, Locked, Working, Counting
    <3> QED BY <2>4, <3>1 DEF DeleteCategory, Joined, work
  <2>5. deleted[q] => deleted'[q]
    BY <2>2, <2>3, <2>4 DEF Users
  <2>6. ASSUME Counting(q), ~deleted'[q]
        PROVE  Ids(Joined(cat[q])) \subseteq Ids(Joined(cat[q]))'
    <3> SUFFICES ASSUME NEW x \in Joined(cat[q])
                 PROVE  x \in embeddings' /\ x.category = cat[q] /\ x.id \notin orphans'
      BY <1>1 DEF Joined, Ids
    <3>1. x \in embeddings /\ x.category = cat[q] /\ x.id \notin orphans
      BY DEF Joined
    <3>2. ASSUME NEW e \in embeddings, DeleteDocument(e) PROVE x.id # e.id /\ x # e
      BY <2>3, <2>6, <3>1, <3>2 DEF FInv, Tables, Unique
    <3> QED BY <2>2, <2>3, <2>4, <2>6, <3>1, <3>2 DEF Users
  <2> QED BY <1>1, <2>5, <2>6, BarsBeside
<1> QED BY <1>2, <1>3 DEF BInv

\* A process: what the bars show changes with the counting and the two scans.
LEMMA BarsStep ==
  ASSUME FInv, FInv', BInv, NEW p \in Processes, Process(p) \/ Fail(p) \/ Shutdown(p)
  PROVE  BInv'
<1>1. BarsKept(p) /\ BarTypes
  BY DEF BInv
<1>2. \A c \in Categories : Ids(Joined(c))' = Ids(Joined(c))
  BY IdsSteady
<1>3. /\ last[p] = 0 \/ pc[p] \notin {"list", "next", "count", "take", "retrieve", "save"}
      /\ current[p] = 0 \/ pc[p] \in {"read", "scan"}
      /\ short[p] => deleted[p]
      /\ total[p] \in Nat /\ current[p] \in Nat /\ short[p] \in BOOLEAN
      /\ deleted[p] \in BOOLEAN /\ cat[p] \in Categories
  BY <1>1 DEF BarsKept, BarTypes, FInv, Places
<1> DEFINE Rest == \A q \in Processes \ {p} :
                     /\ UNCHANGED <<pc[q], last[q], total[q], current[q], short[q]>>
                     /\ UNCHANGED <<deleted[q], cat[q]>>
<1>4. ASSUME BarTypes', BarsKept(p)', Rest PROVE BInv'
  <2> SUFFICES ASSUME NEW q \in Processes \ {p} PROVE BarsKept(q)'
    BY <1>4 DEF BInv
  <2>1. Counting(q) => Ids(Joined(cat[q])) \subseteq Ids(Joined(cat[q]))'
    <3>1. cat[q] \in Categories /\ cat'[q] = cat[q]
      BY <1>4 DEF FInv, Places
    <3>2. Ids(Joined(cat[q]))' = Ids(Joined(cat[q]))
      BY <1>2, <3>1 DEF Joined, Ids
    <3> QED BY <3>2
  <2> QED BY <1>4, <2>1, BarsBeside
\* At its category, but for the counting and the scans.
<1>5. ASSUME UNCHANGED <<last, total, current, short, deleted, cat>>,
             \E place : pc' = [pc EXCEPT ![p] = place],
             pc'[p] \in {"list", "next", "count", "take", "retrieve", "save"} => last[p] = 0,
             pc'[p] \notin {"read", "scan"} => current[p] = 0,
             Counting(p)' => Counting(p)
      PROVE  BInv'
  <2>1. BarTypes' /\ Rest
    BY <1>1, <1>5 DEF BarTypes, FInv, Places
  <2>2. Ids(Joined(cat[p])) \subseteq Ids(Joined(cat[p]))'
    <3>1. Ids(Joined(cat[p]))' = Ids(Joined(cat[p]))
      BY <1>2, <1>3, <1>5 DEF Joined, Ids
    <3> QED BY <3>1
  <2>3. BarsKept(p)'
    BY <1>1, <1>3, <1>5, <2>2, BarsSame
  <2> QED BY <1>4, <2>1, <2>3
<1>6. CASE \/ List(p) \/ CategoryGone(p) \/ AllDone(p)
           \/ \E c \in Categories : LockRefused(p, c)
           \/ Take(p) \/ Retrieve(p) \/ Save(p) \/ Completed(p) \/ Waited(p)
           \/ \E g \in moves[p] : Update(p, g) \/ UpdateFails(p, g)
           \/ \E k \in DOMAIN found[p] : Measure(p, k) \/ Recentre(p, k) \/ RecentreFails(p, k)
  <2>1. UNCHANGED <<last, total, current, short, deleted, cat>>
    BY <1>6 DEF List, CategoryGone, AllDone, LockRefused, Take, Retrieve, Save, Completed,
                Waited, Update, UpdateFails, Measure, Recentre, RecentreFails, work, bars
  <2>2. /\ \E place : pc' = [pc EXCEPT ![p] = place]
        /\ pc'[p] \in {"list", "next", "count", "take", "retrieve", "save"} =>
             pc[p] \in {"list", "next", "count", "take", "retrieve", "save"}
        /\ pc[p] \in {"read", "scan"} => pc'[p] \in {"read", "scan"}
        /\ pc'[p] \in {"take", "read", "retrieve", "save", "scan"} =>
             pc[p] \in {"take", "read", "retrieve", "save", "scan"}
    <3>1. pc = [q \in Processes |-> pc[q]]
      BY DEF FInv, Places
    <3>2. CASE pc' = pc /\ (pc[p] \in {"next", "scan", "centre"})
      <4>1. pc' = [pc EXCEPT ![p] = pc[p]]
        BY <3>1, <3>2
      <4> QED BY <3>2, <4>1
    <3>3. CASE pc' # pc \/ pc[p] \notin {"next", "scan", "centre"}
      BY <1>6, <3>3 DEF List, CategoryGone, AllDone, LockRefused, Take, Retrieve, Save,
                Completed, Waited, Update, UpdateFails, Measure, Recentre, RecentreFails,
                Go, FInv, Places
    <3> QED BY <3>2, <3>3
  <2> QED BY <1>3, <1>5, <2>1, <2>2 DEF Counting
<1>7. CASE \E c \in Categories : Lock(p, c)
  <2>1. /\ UNCHANGED <<last, total, current, short, deleted>>
        /\ pc[p] = "next" /\ pc' = [pc EXCEPT ![p] = "count"]
        /\ \E c \in Categories : cat' = [cat EXCEPT ![p] = c]
    BY <1>7 DEF Lock, Go, work
  <2>2. BarTypes' /\ Rest
    BY <1>1, <2>1 DEF BarTypes, FInv, Places
  <2>3. BarsKept(p)'
    BY <1>3, <2>1 DEF BarsKept, Counting, FInv, Places
  <2> QED BY <1>4, <2>2, <2>3
<1>8. CASE Leaving(p)
  <2>1. /\ Leave(p) /\ cat' = cat
        /\ pc' = [pc EXCEPT ![p] = "next"] \/ pc' = [pc EXCEPT ![p] = "end"]
    BY <1>8 DEF Leaving, Unlock, Fail, NothingToTake, Shutdown, Go
  <2>2. BarTypes' /\ Rest
    BY <1>1, <2>1 DEF Leave, BarTypes, FInv, Places, Shapes
  <2>3. last'[p] = 0 /\ current'[p] = 0 /\ ~short'[p] /\ pc'[p] \in {"next", "end"}
    BY <1>1, <2>1 DEF Leave, BarTypes, FInv, Places, Shapes
  <2>4. BarsKept(p)'
    BY <2>3 DEF BarsKept, Counting
  <2> QED BY <1>4, <2>2, <2>4
<1>9. CASE Count(p)
  <2> DEFINE rows == Joined(cat[p])
  <2>1. /\ UNCHANGED <<last, current, short, deleted, cat>>
        /\ pc[p] = "count" /\ pc' = [pc EXCEPT ![p] = "take"]
        /\ total' = [total EXCEPT ![p] = Cardinality(rows)]
    BY <1>9 DEF Count, Go
  <2>2. /\ Cardinality(rows) \in Nat /\ Cardinality(Ids(rows)) = Cardinality(rows)
        /\ \A x \in rows : x.id \in 1 .. MaxId
    BY JoinedIds
  <2>3. BarTypes' /\ Rest
    <3> HIDE DEF rows
    <3> QED BY <1>1, <2>1, <2>2 DEF BarTypes, FInv, Places
  <2>4. Ids(Joined(cat[p]))' = Ids(rows)
    BY <1>2, <1>3, <2>1 DEF Joined, Ids
  <2>5. Ahead(p)' = Ids(rows)
    <3>1. \A i \in Ids(rows) : i > 0
      BY <2>2, RefreshAssumption DEF Ids
    <3>2. Ahead(p)' = {i \in Ids(Joined(cat[p]))' : i > last'[p]}
      BY DEF Ahead
    <3>3. last'[p] = 0
      BY <1>3, <2>1
    <3> HIDE DEF rows
    <3> QED BY <2>4, <3>1, <3>2, <3>3
  <2>6. total'[p] = Cardinality(rows) /\ current'[p] = 0 /\ last'[p] = 0 /\ pc'[p] = "take"
    BY <1>1, <1>3, <2>1 DEF BarTypes, FInv, Places
  <2> HIDE DEF rows
  <2>7. /\ total'[p] <= Cardinality(Ids(Joined(cat[p]))')
        /\ total'[p] <= current'[p] + Cardinality(Ahead(p)')
    BY <2>2, <2>4, <2>5, <2>6
  <2>8. BarsKept(p)'
    BY <1>3, <2>1, <2>6, <2>7 DEF BarsKept
  <2> QED BY <1>4, <2>3, <2>8
<1>10. CASE Read(p) \/ Scan(p)
  <2> DEFINE batch == BatchAfter(Joined(cat[p]), last[p])
  <2>1. /\ UNCHANGED <<cat, total, deleted>> /\ UNCHANGED tables
        /\ pc[p] \in {"read", "scan"} /\ Progress(p, batch)
    BY <1>10 DEF Read, Scan
  <2>2. /\ \A q \in Processes \ {p} :
             UNCHANGED <<pc[q], last[q], current[q], short[q]>>
        /\ batch # {} => last'[p] = KeyAfter(batch, last[p]) /\ pc'[p] = pc[p]
        /\ batch = {} => pc'[p] \in {"unlock", "drop"}
                         \/ (pc'[p] = "retrieve" /\ last'[p] = 0)
    BY <1>10, <2>1 DEF Read, Scan, Progress, Go, BInv, BarTypes, FInv, Places, Shapes
  <2>3. BarTypes'
    <3>1. Cardinality(batch) \in Nat
      <4>1. batch \subseteq Joined(cat[p])
        BY DEF BatchAfter
      <4>2. (\A x \in batch : x.id \in 1 .. MaxId) /\ Unique(batch)
        BY <4>1, JoinedIds DEF Unique
      <4> HIDE DEF batch
      <4> QED BY <4>2, CountIds
    <3> HIDE DEF batch
    <3>2. MovedOn(p, batch) \in Nat
      BY <1>3, <3>1 DEF MovedOn
    <3>3. current' \in [Processes -> Nat]
      BY <1>1, <2>1, <3>2 DEF Progress, BarTypes
    <3>4. short' \in [Processes -> BOOLEAN]
      BY <1>1, <2>1 DEF Progress, BarTypes
    <3> QED BY <1>1, <2>1, <3>3, <3>4 DEF BarTypes
  <2>4. BarsKept(p)'
    BY <1>1, <2>1, <2>2, BarsMoveOn
  <2> QED BY <1>4, <2>1, <2>2, <2>3, <2>4
<1>11. CASE Drop(p)
  <2>1. /\ UNCHANGED <<last, current, short, cat>>
        /\ pc[p] = "drop" /\ pc' = [pc EXCEPT ![p] = "centre"]
        /\ total' = [total EXCEPT ![p] = 0]
        /\ deleted' = [deleted EXCEPT ![p] = @ /\ short[p]]
    BY <1>11 DEF Drop, Go
  <2>2. BarTypes' /\ Rest
    BY <1>1, <1>3, <2>1 DEF BarTypes, FInv, Places
  <2>3. pc'[p] = "centre" /\ current'[p] = 0 /\ (short'[p] => deleted'[p])
    BY <1>1, <1>3, <2>1 DEF BarTypes, FInv, Places
  <2>4. BarsKept(p)'
    BY <2>3 DEF BarsKept, Counting
  <2> QED BY <1>4, <2>2, <2>4
<1> QED BY <1>6, <1>7, <1>8, <1>9, <1>10, <1>11 DEF Process, Leaving

\* The bars are as they should be at the start, and after every step.
LEMMA BInvHolds == Spec => [](FInv /\ BInv)
<1>1. Init => FInv /\ BInv
  <2>1. Init => BInv
    <3> SUFFICES ASSUME Init PROVE BInv
      OBVIOUS
    <3>1. BarTypes
      BY DEF Init, BarTypes
    <3>2. ASSUME NEW q \in Processes PROVE BarsKept(q)
      BY DEF Init, BarsKept, Counting
    <3> QED BY <3>1, <3>2 DEF BInv
  <2> QED BY <2>1, FInvInit
<1>2. FInv /\ BInv /\ [Next]_vars => (FInv /\ BInv)'
  <2> SUFFICES ASSUME FInv, BInv, [Next]_vars PROVE FInv' /\ BInv'
    OBVIOUS
  <2>1. FInv'
    BY FInvStep
  <2>2. CASE UNCHANGED vars
    <3>1. /\ UNCHANGED <<pc, cat, last, total, current, short, deleted>>
          /\ UNCHANGED <<embeddings, orphans>>
      BY <2>2 DEF vars, work, tables
    <3>2. \A q \in Processes : Ids(Joined(cat[q])) \subseteq Ids(Joined(cat[q]))'
      BY <3>1 DEF Joined, Ids
    <3>3. \A q \in Processes : BarsKept(q)'
      BY <2>1, <3>1, <3>2, BarsBeside
    <3> QED BY <2>1, <3>1, <3>3 DEF BInv, BarTypes
  <2> QED BY <2>1, <2>2, BarsUsers, BarsStep DEF Next
<1> QED BY <1>1, <1>2, PTL DEF Spec

\* Every row, lock and process keeps its type, and no key is given to two rows,
\* whichever refreshes, uploads and deletes take turns.
THEOREM TypeCorrect == Spec => []TypeOK
<1>1. FInv /\ BInv => TypeOK
  BY FInvTypes DEF BInv
<1> QED BY <1>1, BInvHolds, PTL

\* A refresh that waits for a bar that is short, and so for the end of its process,
\* does it because an embedding of its category was deleted after it had counted
\* them and before it had scanned them twice: no upload, no refresh beside it, no
\* group that could not be written and no batch size makes the two scans come to
\* fewer embeddings than were counted.
THEOREM HeldUpByDeletion ==
  Spec => [](\A p \in Processes : pc[p] = "wait" /\ short[p] => deleted[p])
<1>1. BInv => \A p \in Processes : pc[p] = "wait" /\ short[p] => deleted[p]
  BY DEF BInv, BarsKept
<1> QED BY <1>1, BInvHolds, PTL
=============================================================================
