----------------------- MODULE DivideAndConquerProofs -----------------------
(* Theorems about DivideAndConquer, for any rows and any bounds: the channel *)
(* is closed by the last goroutine, and the goroutines implement Partitioning. *)
EXTENDS DivideAndConquer, FiniteSetTheorems, SequenceTheorems, TLAPS

USE DEF Worker, First

-----------------------------------------------------------------------------
(* Sequences, sizes, names.                                                  *)

\* What appending makes.
LEMMA Appended ==
  ASSUME NEW p \in Seq(Nat), NEW m \in Nat
  PROVE  /\ Len(Append(p, m)) = Len(p) + 1
         /\ Append(p, m)[Len(p) + 1] = m
         /\ \A i \in 1 .. Len(p) : Append(p, m)[i] = p[i]
<1>1. Len(Append(p, m)) = Len(p) + 1 /\ Append(p, m)[Len(Append(p, m))] = m
  BY AppendProperties
<1>2. \A i \in 1 .. Len(p) : Append(p, m)[i] = p[i]
  BY AppendProperties
<1> QED BY <1>1, <1>2

\* Appending is undone in one way only.
LEMMA AppendOnce ==
  ASSUME NEW p \in Seq(Nat), NEW q \in Seq(Nat), NEW m \in Nat, NEW n \in Nat,
         Append(p, m) = Append(q, n)
  PROVE  p = q /\ m = n
<1>1. /\ Len(Append(p, m)) = Len(p) + 1 /\ Len(Append(q, n)) = Len(q) + 1
      /\ Append(p, m)[Len(p) + 1] = m /\ Append(q, n)[Len(q) + 1] = n
      /\ \A i \in 1 .. Len(p) : Append(p, m)[i] = p[i]
      /\ \A i \in 1 .. Len(q) : Append(q, n)[i] = q[i]
  BY Appended
<1>2. Len(p) = Len(q) /\ m = n
  BY <1>1, LenProperties
<1> QED BY <1>1, <1>2, SeqEqual

\* The last element of what was appended to.
LEMMA AppendLast ==
  ASSUME NEW p \in Seq(Nat), NEW n \in Nat
  PROVE  /\ Append(p, n) \in Seq(Nat) /\ Append(p, n) # <<>>
         /\ Append(p, n)[Len(Append(p, n))] = n
  BY AppendProperties

\* A set of rows has a size.
LEMMA RowsFinite ==
  ASSUME NEW S \in SUBSET Row PROVE IsFiniteSet(S) /\ Cardinality(S) \in Nat
  BY FS_Subset, FS_CardinalityType, DivideAssumption

\* k-means makes a number of centroids.
LEMMA SubsetCountNat ==
  ASSUME TypeOK, NEW w \in Worker PROVE SubsetCount(w) \in Nat
<1> DEFINE total == Cardinality(rows[w])
           quotient == total \div Target
<1>1. total \in Nat /\ Target \in Nat \ {0}
  BY RowsFinite, DivideAssumption DEF TypeOK
<1>2. quotient \in Nat
  BY <1>1
<1> HIDE DEF total, quotient
<1>3. Larger(2, quotient) \in Nat
  BY <1>2 DEF Larger
<1>4. Smaller(SplitSize, Larger(2, quotient)) \in Nat
  BY <1>3, DivideAssumption DEF Smaller
<1>5. Smaller(total, SampleSize) \in Nat
  BY <1>1, DivideAssumption DEF Smaller
<1>6. SubsetCount(w) = Smaller(Smaller(SplitSize, Larger(2, quotient)), Smaller(total, SampleSize))
  BY DEF SubsetCount, total, quotient
<1> QED BY <1>4, <1>5, <1>6 DEF Smaller

\* The data sets a split makes.
LEMMA SubsetsFacts ==
  ASSUME TypeOK, NEW w \in Worker, NEW nearest \in [rows[w] -> 1 .. SubsetCount(w)]
  PROVE  /\ Subsets(w, nearest) \in Seq(SUBSET Row)
         /\ DOMAIN Subsets(w, nearest) = 1 .. SubsetCount(w)
         /\ \A i \in 1 .. SubsetCount(w) :
              Subsets(w, nearest)[i] = {x \in rows[w] : nearest[x] = i}
<1>1. rows[w] \in SUBSET Row
  BY DEF TypeOK
<1>2. Subsets(w, nearest) \in [1 .. SubsetCount(w) -> SUBSET Row]
  BY <1>1 DEF Subsets
<1>3. Subsets(w, nearest) \in Seq(SUBSET Row)
  BY <1>2, SubsetCountNat
<1> QED BY <1>2, <1>3 DEF Subsets

-----------------------------------------------------------------------------
(* How a step changes who is where.                                          *)

\* A goroutine that goes on leaves the others where they are.
LEMMA GoFacts ==
  ASSUME TypeOK, NEW w \in Worker, NEW a, NEW b \in Stage, Go(w, a, b)
  PROVE  /\ at[w] = a /\ process = "up"
         /\ Worker' = Worker
         /\ at' \in [Worker -> Stage]
         /\ at'[w] = b
         /\ \A u \in Worker \ {w} : at'[u] = at[u]
  BY DEF Go, TypeOK

\* A goroutine that starts another.
LEMMA StartFacts ==
  ASSUME TypeOK, Named, NEW w \in Worker, Start(w)
  PROVE  \E child :
           /\ child = Append(w, Len(parts[w])) /\ child \notin Worker
           /\ child \in Seq(Nat) /\ child # <<>>
           /\ Worker' = Worker \cup {child}
           /\ at' \in [Worker' -> Stage] /\ rows' \in [Worker' -> SUBSET Row]
           /\ parts' \in [Worker' -> Seq(SUBSET Row)]
           /\ at'[child] = "queued" /\ rows'[child] = Head(parts[w]) /\ parts'[child] = <<>>
           /\ \A u \in Worker : at'[u] = at[u] /\ rows'[u] = rows[u]
           /\ parts'[w] = Tail(parts[w])
           /\ \A u \in Worker \ {w} : parts'[u] = parts[u]
<1> DEFINE child == Append(w, Len(parts[w]))
<1>1. /\ at[w] = "start" /\ parts[w] # <<>> /\ parts[w] \in Seq(SUBSET Row)
      /\ w \in Seq(Nat) /\ Len(parts[w]) \in Nat
  BY LenProperties DEF Start, TypeOK
<1>2. child \in Seq(Nat) /\ child # <<>> /\ child[Len(child)] = Len(parts[w])
  BY <1>1, AppendLast
<1>3. child \notin Worker
  <2>1. SUFFICES ASSUME child \in Worker PROVE FALSE
    OBVIOUS
  <2>2. PICK p \in Worker : /\ child = Append(p, child[Len(child)])
                            /\ child[Len(child)] > Len(parts[p])
    BY <1>2, <2>1 DEF Named
  <2>3. p \in Seq(Nat) /\ Append(p, Len(parts[w])) = Append(w, Len(parts[w]))
    BY <1>2, <2>2 DEF TypeOK
  <2>4. p = w
    BY <1>1, <2>3, AppendOnce
  <2> QED BY <1>1, <1>2, <2>2, <2>4
<1>4. Head(parts[w]) \in SUBSET Row /\ Tail(parts[w]) \in Seq(SUBSET Row)
  BY <1>1, HeadTailProperties
<1>5. /\ at' = Extended(at, child, "queued")
      /\ rows' = Extended(rows, child, Head(parts[w]))
      /\ parts' = Extended([parts EXCEPT ![w] = Tail(@)], child, <<>>)
  BY DEF Start
<1> HIDE DEF child
<1>6. /\ Worker' = Worker \cup {child}
      /\ at' \in [Worker' -> Stage]
      /\ at'[child] = "queued"
      /\ \A u \in Worker : at'[u] = at[u]
  BY <1>3, <1>5 DEF Extended, TypeOK, Stage
<1>7. /\ rows' \in [Worker' -> SUBSET Row] /\ rows'[child] = Head(parts[w])
      /\ \A u \in Worker : rows'[u] = rows[u]
  BY <1>3, <1>4, <1>5, <1>6 DEF Extended, TypeOK
<1>8. /\ parts' \in [Worker' -> Seq(SUBSET Row)] /\ parts'[child] = <<>>
      /\ parts'[w] = Tail(parts[w])
      /\ \A u \in Worker \ {w} : parts'[u] = parts[u]
  <2>1. <<>> \in Seq(SUBSET Row)
    OBVIOUS
  <2> QED BY <1>3, <1>4, <1>5, <1>6, <2>1 DEF Extended, TypeOK
<1> QED BY <1>2, <1>3, <1>6, <1>7, <1>8 DEF child

-----------------------------------------------------------------------------
(* Types, counts, names, and who closes the channel.                         *)

\* As long as somebody is about, the channel is open and nobody is closing it.
LEMMA LiveOpens ==
  ASSUME TypeOK, LastCloses, NEW w \in Worker, at[w] \notin {"closeY", "ended"}
  PROVE  Y = "open" /\ caller # "finished" /\ \A u \in Worker : at[u] # "closeY"
<1>1. w \in Live
  BY DEF Live
<1>2. Y # "closed" /\ \A u \in Worker : at[u] # "closeY"
  BY <1>1 DEF LastCloses
<1>3. Y \in {"open", "closed"}
  BY DEF TypeOK
<1> QED BY <1>2, <1>3 DEF LastCloses

\* One member more, one member less.
LEMMA OneMore ==
  ASSUME NEW S, IsFiniteSet(S), NEW x, x \notin S
  PROVE  IsFiniteSet(S \cup {x}) /\ Cardinality(S \cup {x}) = Cardinality(S) + 1
  BY FS_AddElement

\* A finite set without one of its elements.
LEMMA OneLess ==
  ASSUME NEW S, IsFiniteSet(S), NEW x \in S
  PROVE  /\ IsFiniteSet(S \ {x}) /\ Cardinality(S \ {x}) = Cardinality(S) - 1
         /\ Cardinality(S) \in Nat \ {0}
         /\ Cardinality(S) = 1 => S \ {x} = {}
<1>1. IsFiniteSet(S \ {x}) /\ Cardinality(S \ {x}) = Cardinality(S) - 1
  BY FS_RemoveElement
<1>2. Cardinality(S) \in Nat /\ Cardinality(S \ {x}) \in Nat
  BY <1>1, FS_CardinalityType
<1>3. Cardinality(S) = 1 => S \ {x} = {}
  BY <1>1, FS_EmptySet
<1> QED BY <1>1, <1>2, <1>3

\* What holds of every step of a goroutine that goes on to another.
LEMMA MovesOn ==
  ASSUME Order, NEW w \in Worker, NEW a, NEW b \in Stage, Go(w, a, b),
         a \notin {"closeY", "ended"}, b \notin {"closeY", "ended"},
         b \in Childless => a \in Childless,
         a \in Childless \/ parts' = parts,
         \A u \in Worker \ {w} : parts'[u] = parts[u],
         UNCHANGED <<concurrent, Y, caller>>
  PROVE  /\ Live' = Live
         /\ LastCloses'
         /\ Named'
<1>1. /\ at[w] = a /\ at'[w] = b /\ Worker' = Worker
      /\ \A u \in Worker \ {w} : at'[u] = at[u]
  BY GoFacts DEF Order
<1>2. Live' = Live
  BY <1>1 DEF Live
<1>3. LastCloses'
  <2>1. Y' = "open" /\ caller' # "finished" /\ \A u \in Worker' : at'[u] # "closeY"
    BY <1>1, LiveOpens DEF Order
  <2> QED BY <2>1 DEF LastCloses
<1>4. Named'
  <2> SUFFICES ASSUME NEW u \in Worker', u # <<>>
               PROVE  \E p \in Worker' : /\ u = Append(p, u[Len(u)])
                                         /\ at'[p] \notin Childless
                                         /\ u[Len(u)] > Len(parts'[p])
    BY DEF Named
  <2>1. PICK p \in Worker : /\ u = Append(p, u[Len(u)])
                            /\ at[p] \notin Childless
                            /\ u[Len(u)] > Len(parts[p])
    BY <1>1 DEF Order, Named
  <2>2. at'[p] \notin Childless /\ parts'[p] = parts[p]
    BY <1>1, <2>1 DEF Order
  <2> QED BY <1>1, <2>1, <2>2
<1> QED BY <1>2, <1>3, <1>4

\* Taking a slot.
LEMMA EnterOrder == ASSUME Order, NEW w \in Worker, Enter(w) PROVE Order'
<1> USE DEF Order
<1>1. Go(w, "queued", "begin") /\ UNCHANGED <<rows, parts, concurrent, Y, centroids, caller, cancelled, process>>
  BY DEF Enter
<1>2. "begin" \in Stage
  BY DEF Stage
<1>3. Live' = Live /\ LastCloses' /\ Named'
  BY <1>1, <1>2, MovesOn DEF Childless
<1>4. /\ at[w] = "queued" /\ at'[w] = "begin" /\ Worker' = Worker
      /\ at' \in [Worker -> Stage]
      /\ \A u \in Worker \ {w} : at'[u] = at[u]
  BY <1>1, <1>2, GoFacts
<1>5. Slotted' = Slotted \cup {w} /\ w \notin Slotted
  BY <1>4 DEF Slotted
<1>6. queue < Parallel /\ queue' = queue + 1
  BY DEF Enter
<1>7. Counted'
  BY <1>1, <1>3, <1>5, <1>6, OneMore DEF Counted
<1>8. TypeOK'
  BY <1>1, <1>4, <1>6, DivideAssumption DEF TypeOK
<1> QED BY <1>3, <1>7, <1>8

\* Deciding to send or to split.
LEMMA CheckOrder == ASSUME Order, NEW w \in Worker, Check(w) PROVE Order'
<1> USE DEF Order
<1>1. PICK b \in {"send", "split"} : Go(w, "begin", b)
  BY DEF Check
<1>2. UNCHANGED <<rows, parts, queue, concurrent, Y, centroids, caller, cancelled, process>>
  BY DEF Check
<1>3. b \in Stage
  BY <1>1 DEF Stage
<1>4. Live' = Live /\ LastCloses' /\ Named'
  BY <1>1, <1>2, <1>3, MovesOn DEF Childless
<1>5. /\ at[w] = "begin" /\ at'[w] = b /\ Worker' = Worker
      /\ at' \in [Worker -> Stage]
      /\ \A u \in Worker \ {w} : at'[u] = at[u]
  BY <1>1, <1>3, GoFacts
<1>6. Slotted' = Slotted
  BY <1>1, <1>5 DEF Slotted
<1>7. Counted'
  BY <1>2, <1>4, <1>6 DEF Counted
<1>8. TypeOK'
  BY <1>2, <1>5 DEF TypeOK
<1> QED BY <1>4, <1>7, <1>8

\* Sending a centroid.
LEMMA SendOrder == ASSUME Order, NEW w \in Worker, Send(w) PROVE Order'
<1> USE DEF Order
<1>1. /\ Go(w, "send", "close") /\ centroids' = centroids \cup {rows[w]}
      /\ UNCHANGED <<rows, parts, queue, concurrent, Y, caller, cancelled, process>>
  BY DEF Send
<1>2. "close" \in Stage
  BY DEF Stage
<1>3. Live' = Live /\ LastCloses' /\ Named'
  BY <1>1, <1>2, MovesOn DEF Childless
<1>4. /\ at[w] = "send" /\ at'[w] = "close" /\ Worker' = Worker
      /\ at' \in [Worker -> Stage]
      /\ \A u \in Worker \ {w} : at'[u] = at[u]
  BY <1>1, <1>2, GoFacts
<1>5. Slotted' = Slotted
  BY <1>4 DEF Slotted
<1>6. Counted'
  BY <1>1, <1>3, <1>5 DEF Counted
<1>7. TypeOK'
  BY <1>1, <1>4 DEF TypeOK
<1> QED BY <1>3, <1>6, <1>7

\* Splitting.
LEMMA SplitOrder == ASSUME Order, NEW w \in Worker, Split(w) PROVE Order'
<1> USE DEF Order
<1>1. /\ Go(w, "split", "start")
      /\ UNCHANGED <<rows, queue, concurrent, Y, centroids, caller, cancelled, process>>
  BY DEF Split
<1>2. PICK nearest \in [rows[w] -> 1 .. SubsetCount(w)] :
        parts' = [parts EXCEPT ![w] = Subsets(w, nearest)]
  BY DEF Split
<1>3. "start" \in Stage
  BY DEF Stage
<1>4. \A u \in Worker \ {w} : parts'[u] = parts[u]
  BY <1>2 DEF TypeOK
<1>5. Live' = Live /\ LastCloses' /\ Named'
  BY <1>1, <1>3, <1>4, MovesOn DEF Childless
<1>6. /\ at[w] = "split" /\ at'[w] = "start" /\ Worker' = Worker
      /\ at' \in [Worker -> Stage]
      /\ \A u \in Worker \ {w} : at'[u] = at[u]
  BY <1>1, <1>3, GoFacts
<1>7. Slotted' = Slotted
  BY <1>6 DEF Slotted
<1>8. Counted'
  BY <1>1, <1>5, <1>7 DEF Counted
<1>9. parts' \in [Worker -> Seq(SUBSET Row)]
  BY <1>2, SubsetsFacts DEF TypeOK
<1>10. TypeOK'
  BY <1>1, <1>4, <1>6, <1>9 DEF TypeOK
<1> QED BY <1>5, <1>8, <1>10

\* The panic of a goroutine that was given no row.
LEMMA PanicOrder == ASSUME Order, NEW w \in Worker, Panic(w) PROVE Order'
<1> USE DEF Order
<1>1. /\ Go(w, "begin", "begin") /\ process' = "panicked"
      /\ UNCHANGED <<rows, parts, queue, concurrent, Y, centroids, caller, cancelled>>
  BY DEF Panic
<1>2. "begin" \in Stage
  BY DEF Stage
<1>3. Live' = Live /\ LastCloses' /\ Named'
  BY <1>1, <1>2, MovesOn DEF Childless
<1>4. /\ at[w] = "begin" /\ at'[w] = "begin" /\ Worker' = Worker
      /\ at' \in [Worker -> Stage]
      /\ \A u \in Worker \ {w} : at'[u] = at[u]
  BY <1>1, <1>2, GoFacts
<1>5. Slotted' = Slotted
  BY <1>4 DEF Slotted
<1>6. Counted'
  BY <1>1, <1>3, <1>5 DEF Counted
<1>7. TypeOK'
  BY <1>1, <1>4 DEF TypeOK
<1> QED BY <1>3, <1>6, <1>7

\* Having started a goroutine for every part.
LEMMA StartedOrder == ASSUME Order, NEW w \in Worker, Started(w) PROVE Order'
<1> USE DEF Order
<1>1. /\ Go(w, "start", "close") /\ parts[w] = <<>>
      /\ UNCHANGED <<rows, parts, queue, concurrent, Y, centroids, caller, cancelled, process>>
  BY DEF Started
<1>2. "close" \in Stage
  BY DEF Stage
<1>3. Live' = Live /\ LastCloses' /\ Named'
  BY <1>1, <1>2, MovesOn DEF Childless
<1>4. /\ at[w] = "start" /\ at'[w] = "close" /\ Worker' = Worker
      /\ at' \in [Worker -> Stage]
      /\ \A u \in Worker \ {w} : at'[u] = at[u]
  BY <1>1, <1>2, GoFacts
<1>5. Slotted' = Slotted
  BY <1>4 DEF Slotted
<1>6. Counted'
  BY <1>1, <1>3, <1>5 DEF Counted
<1>7. TypeOK'
  BY <1>1, <1>4 DEF TypeOK
<1> QED BY <1>3, <1>6, <1>7

\* Giving the slot back.
LEMMA LeaveOrder == ASSUME Order, NEW w \in Worker, Leave(w) PROVE Order'
<1> USE DEF Order
<1>1. /\ Go(w, "close", "count") /\ queue' = queue - 1
      /\ UNCHANGED <<rows, parts, concurrent, Y, centroids, caller, cancelled, process>>
  BY DEF Leave
<1>2. "count" \in Stage
  BY DEF Stage
<1>3. Live' = Live /\ LastCloses' /\ Named'
  BY <1>1, <1>2, MovesOn DEF Childless
<1>4. /\ at[w] = "close" /\ at'[w] = "count" /\ Worker' = Worker
      /\ at' \in [Worker -> Stage]
      /\ \A u \in Worker \ {w} : at'[u] = at[u]
  BY <1>1, <1>2, GoFacts
<1>5. Slotted' = Slotted \ {w} /\ w \in Slotted
  BY <1>4 DEF Slotted
<1>6. /\ IsFiniteSet(Slotted \ {w}) /\ Cardinality(Slotted \ {w}) = Cardinality(Slotted) - 1
      /\ Cardinality(Slotted) \in Nat \ {0}
  BY <1>5, OneLess DEF Counted
<1>7. Counted'
  BY <1>1, <1>3, <1>5, <1>6 DEF Counted
<1>8. queue' \in 0 .. Parallel
  BY <1>1, <1>6, DivideAssumption DEF Counted, TypeOK
<1>9. TypeOK'
  BY <1>1, <1>4, <1>8 DEF TypeOK
<1> QED BY <1>3, <1>7, <1>9

\* Starting a goroutine: it is counted before it runs.
LEMMA StartOrder == ASSUME Order, NEW w \in Worker, Start(w) PROVE Order'
<1> USE DEF Order
<1>1. PICK child :
        /\ child = Append(w, Len(parts[w])) /\ child \notin Worker
        /\ child \in Seq(Nat) /\ child # <<>>
        /\ Worker' = Worker \cup {child}
        /\ at' \in [Worker' -> Stage] /\ rows' \in [Worker' -> SUBSET Row]
        /\ parts' \in [Worker' -> Seq(SUBSET Row)]
        /\ at'[child] = "queued" /\ rows'[child] = Head(parts[w]) /\ parts'[child] = <<>>
        /\ \A u \in Worker : at'[u] = at[u] /\ rows'[u] = rows[u]
        /\ parts'[w] = Tail(parts[w])
        /\ \A u \in Worker \ {w} : parts'[u] = parts[u]
  BY StartFacts
<1>2. /\ process = "up" /\ at[w] = "start" /\ parts[w] # <<>> /\ concurrent' = concurrent + 1
      /\ UNCHANGED <<queue, Y, centroids, caller, cancelled, process>>
  BY DEF Start, CountOne
<1>3. parts[w] \in Seq(SUBSET Row) /\ w \in Seq(Nat) /\ Len(parts[w]) \in Nat \ {0}
  BY <1>2, LenProperties, EmptySeq DEF TypeOK
<1>4. /\ child[Len(child)] = Len(parts[w]) /\ Len(Tail(parts[w])) = Len(parts[w]) - 1
  BY <1>1, <1>2, <1>3, AppendLast, HeadTailProperties
<1>5. TypeOK'
  <2>1. \A u \in Worker' : parts'[u] # <<>> => at'[u] = "start"
    BY <1>1, <1>2 DEF TypeOK
  <2>2. Worker' \subseteq Seq(Nat)
    BY <1>1 DEF TypeOK
  <2>3. concurrent' \in Nat
    BY <1>2 DEF TypeOK
  <2> QED BY <1>1, <1>2, <2>1, <2>2, <2>3 DEF TypeOK
<1>6. Live' = Live \cup {child} /\ child \notin Live /\ Slotted' = Slotted
  BY <1>1 DEF Live, Slotted
<1>7. Counted'
  BY <1>2, <1>6, OneMore DEF Counted
<1>8. LastCloses'
  <2>1. Y = "open" /\ caller # "finished" /\ \A u \in Worker : at[u] # "closeY"
    BY <1>2, LiveOpens
  <2>2. Y' = "open" /\ caller' # "finished" /\ \A u \in Worker' : at'[u] # "closeY"
    BY <1>1, <1>2, <2>1
  <2> QED BY <2>2 DEF LastCloses
<1>9. Named'
  <2> SUFFICES ASSUME NEW u \in Worker', u # <<>>
               PROVE  \E p \in Worker' : /\ u = Append(p, u[Len(u)])
                                         /\ at'[p] \notin Childless
                                         /\ u[Len(u)] > Len(parts'[p])
    BY DEF Named
  <2>1. CASE u = child
    <3>1. /\ u = Append(w, u[Len(u)]) /\ at'[w] \notin Childless /\ w \in Worker'
          /\ u[Len(u)] > Len(parts'[w])
      BY <1>1, <1>2, <1>3, <1>4, <2>1 DEF Childless
    <3> QED BY <3>1
  <2>2. CASE u \in Worker
    <3>1. PICK p \in Worker : /\ u = Append(p, u[Len(u)])
                              /\ at[p] \notin Childless
                              /\ u[Len(u)] > Len(parts[p])
      BY <2>2 DEF Named
    <3>2. u[Len(u)] > Len(parts'[p])
      <4>1. CASE p = w
        <5>1. u \in Seq(Nat) /\ u[Len(u)] \in Nat
          BY <2>2, ElementOfSeq, LenProperties, EmptySeq DEF TypeOK
        <5> QED BY <1>1, <1>3, <1>4, <3>1, <4>1, <5>1
      <4>2. CASE p # w
        BY <1>1, <3>1, <4>2
      <4> QED BY <4>1, <4>2
    <3> QED BY <1>1, <3>1, <3>2
  <2> QED BY <1>1, <2>1, <2>2
<1> QED BY <1>5, <1>7, <1>8, <1>9

\* Counting oneself out: zero is reached by the last one about.
LEMMA DiscountOrder == ASSUME Order, NEW w \in Worker, Discount(w) PROVE Order'
<1> USE DEF Order
<1>1. PICK b \in {"closeY", "ended"} :
        Go(w, "count", b) /\ (b = "closeY" <=> concurrent - 1 <= 0)
  BY DEF Discount, LastOne
<1>2. /\ concurrent' = concurrent - 1
      /\ UNCHANGED <<rows, parts, queue, Y, centroids, caller, cancelled, process>>
  BY DEF Discount
<1>3. b \in Stage
  BY DEF Stage
<1>4. /\ at[w] = "count" /\ at'[w] = b /\ Worker' = Worker
      /\ at' \in [Worker -> Stage]
      /\ \A u \in Worker \ {w} : at'[u] = at[u]
  BY <1>1, <1>3, GoFacts
<1>5. Live' = Live \ {w} /\ w \in Live /\ Slotted' = Slotted
  BY <1>4 DEF Live, Slotted
<1>6. /\ IsFiniteSet(Live \ {w}) /\ Cardinality(Live \ {w}) = Cardinality(Live) - 1
      /\ Cardinality(Live) \in Nat \ {0}
      /\ Cardinality(Live) = 1 => Live \ {w} = {}
  BY <1>5, OneLess DEF Counted
<1>7. Counted'
  BY <1>2, <1>5, <1>6 DEF Counted
<1>8. Y = "open" /\ caller # "finished" /\ \A u \in Worker : at[u] # "closeY"
  BY <1>4, LiveOpens
<1>9. LastCloses'
  <2>1. b = "closeY" => Live' = {}
    BY <1>1, <1>5, <1>6 DEF Counted
  <2>2. Y' = "open" /\ caller' # "finished"
    BY <1>2, <1>8
  <2>3. \A u \in Worker' : at'[u] = "closeY" => u = w /\ b = "closeY"
    BY <1>4, <1>8
  <2> QED BY <2>1, <2>2, <2>3 DEF LastCloses
<1>10. TypeOK'
  <2>1. concurrent' \in Nat
    BY <1>2, <1>6 DEF Counted
  <2> QED BY <1>2, <1>4, <2>1 DEF TypeOK
<1>11. Named'
  BY <1>2, <1>4 DEF Named, Childless
<1> QED BY <1>7, <1>9, <1>10, <1>11

\* The last one closes the channel.
LEMMA CloseYOrder == ASSUME Order, NEW w \in Worker, CloseY(w) PROVE Order'
<1> USE DEF Order
<1>1. /\ Go(w, "closeY", "ended") /\ Y' = "closed"
      /\ UNCHANGED <<rows, parts, queue, concurrent, centroids, caller, cancelled, process>>
  BY DEF CloseY
<1>2. "ended" \in Stage
  BY DEF Stage
<1>3. /\ at[w] = "closeY" /\ at'[w] = "ended" /\ Worker' = Worker
      /\ at' \in [Worker -> Stage]
      /\ \A u \in Worker \ {w} : at'[u] = at[u]
  BY <1>1, <1>2, GoFacts
<1>4. Live' = Live /\ Slotted' = Slotted
  BY <1>3 DEF Live, Slotted
<1>5. Counted'
  BY <1>1, <1>4 DEF Counted
<1>6. Live = {} /\ \A u \in Worker : at[u] = "closeY" => u = w
  BY <1>3 DEF LastCloses
<1>7. LastCloses'
  <2>1. Live' = {} /\ \A u \in Worker' : at'[u] # "closeY"
    BY <1>3, <1>4, <1>6
  <2> QED BY <1>1, <2>1 DEF LastCloses
<1>8. TypeOK'
  BY <1>1, <1>3 DEF TypeOK
<1>9. Named'
  BY <1>1, <1>3 DEF Named, Childless
<1> QED BY <1>5, <1>7, <1>8, <1>9

\* What the caller does, and what the end of the context does.
LEMMA CallerOrder == ASSUME Order, Finish \/ Cancel PROVE Order'
<1> USE DEF Order
<1>1. /\ UNCHANGED <<at, rows, parts, queue, concurrent, Y, centroids, process>>
      /\ caller' = caller \/ (caller' = "finished" /\ Y = "closed")
      /\ caller' \in {"waiting", "finished"} /\ cancelled' \in BOOLEAN
  BY DEF Finish, Cancel, TypeOK
<1>2. Live' = Live /\ Slotted' = Slotted
  BY <1>1 DEF Live, Slotted
<1>3. TypeOK' 
  BY <1>1 DEF TypeOK
<1>4. LastCloses'
  BY <1>1, <1>2 DEF LastCloses
<1>5. Counted' /\ Named'
  BY <1>1, <1>2 DEF Counted, Named
<1> QED BY <1>3, <1>4, <1>5

\* A step that changes nothing.
LEMMA StutterOrder == ASSUME Order, UNCHANGED vars PROVE Order'
<1>1. UNCHANGED <<at, rows, parts, queue, concurrent, Y, centroids, caller, cancelled, process>>
  BY DEF vars
<1>2. Live' = Live /\ Slotted' = Slotted
  BY <1>1 DEF Live, Slotted
<1>3. TypeOK' /\ Counted'
  BY <1>1, <1>2 DEF Order, TypeOK, Counted
<1>4. LastCloses' /\ Named'
  BY <1>1, <1>2 DEF Order, LastCloses, Named
<1> QED BY <1>3, <1>4 DEF Order

\* At the start there is one goroutine, with all rows.
LEMMA InitOrder == ASSUME Init PROVE Order
<1>1. /\ Worker = {<<>>} /\ at[<<>>] = "queued" /\ rows[<<>>] = Row /\ parts[<<>>] = <<>>
      /\ queue = 0 /\ concurrent = 1 /\ Y = "open" /\ centroids = {}
      /\ caller = "waiting" /\ cancelled = FALSE /\ process = "up"
  BY DEF Init
<1>2. TypeOK
  <2>1. <<>> \in Seq(Nat) /\ <<>> \in Seq(SUBSET Row) /\ "queued" \in Stage
    BY DEF Stage
  <2>2. at \in [Worker -> Stage] /\ rows \in [Worker -> SUBSET Row]
        /\ parts \in [Worker -> Seq(SUBSET Row)]
    BY <2>1 DEF Init
  <2>3. queue \in 0 .. Parallel /\ concurrent \in Nat
    BY <1>1, DivideAssumption
  <2>4. Worker \subseteq Seq(Nat) /\ \A w \in Worker : parts[w] # <<>> => at[w] = "start"
    BY <1>1, <2>1
  <2>5. centroids \in SUBSET SUBSET Row /\ cancelled \in BOOLEAN
    BY <1>1
  <2> QED BY <1>1, <2>2, <2>3, <2>4, <2>5 DEF TypeOK
<1>3. Live = {<<>>} /\ Slotted = {}
  BY <1>1 DEF Live, Slotted
<1>4. Counted
  BY <1>1, <1>3, FS_Singleton, FS_EmptySet DEF Counted
<1>5. LastCloses
  BY <1>1 DEF LastCloses
<1>6. Named
  BY <1>1 DEF Named
<1> QED BY <1>2, <1>4, <1>5, <1>6 DEF Order

-----------------------------------------------------------------------------
(* Where the rows are.                                                       *)

\* What a goroutine has in its hands, by where it is.
LEMMA PendingAt ==
  ASSUME NEW w \in Worker
  PROVE  /\ at[w] \in Childless => Pending(w) = {rows[w]} /\ Held(w) = rows[w]
         /\ at[w] = "start" => Pending(w) = {parts[w][i] : i \in DOMAIN parts[w]}
         /\ at[w] \notin Childless \cup {"start"} => Pending(w) = {} /\ Held(w) = {}
<1>1. at[w] \in Childless => Pending(w) = {rows[w]}
  BY DEF Pending, Childless
<1>2. at[w] = "start" => Pending(w) = {parts[w][i] : i \in DOMAIN parts[w]}
  BY DEF Pending, Childless
<1>3. at[w] \notin Childless \cup {"start"} => Pending(w) = {}
  BY DEF Pending, Childless
<1> QED BY <1>1, <1>2, <1>3 DEF Held

\* The same after a step.
LEMMA PendingAtNext ==
  ASSUME NEW w \in Worker'
  PROVE  /\ at'[w] \in Childless => Pending(w)' = {rows'[w]} /\ Held(w)' = rows'[w]
         /\ at'[w] = "start" => Pending(w)' = {parts'[w][i] : i \in DOMAIN parts'[w]}
         /\ at'[w] \notin Childless \cup {"start"} => Pending(w)' = {} /\ Held(w)' = {}
<1>1. at'[w] \in Childless => Pending(w)' = {rows'[w]}
  BY DEF Pending, Childless
<1>2. at'[w] = "start" => Pending(w)' = {parts'[w][i] : i \in DOMAIN parts'[w]}
  BY DEF Pending, Childless
<1>3. at'[w] \notin Childless \cup {"start"} => Pending(w)' = {}
  BY DEF Pending, Childless
<1> QED BY <1>1, <1>2, <1>3 DEF Held

\* A goroutine that does not move keeps what it has in its hands.
LEMMA PendingKept ==
  ASSUME NEW w \in Worker, w \in Worker',
         at'[w] = at[w], rows'[w] = rows[w], parts'[w] = parts[w]
  PROVE  Pending(w)' = Pending(w) /\ Held(w)' = Held(w)
<1>1. Pending(w)' = Pending(w)
  BY DEF Pending
<1> QED BY <1>1 DEF Held

\* If nobody's hands change, no row changes its place.
LEMMA SamePlaces ==
  ASSUME OnePlace, SomePlace, Worker' = Worker, UNCHANGED <<centroids, parts>>,
         \A u \in Worker : Pending(u)' = Pending(u)
  PROVE  OnePlace' /\ SomePlace' /\ Open' = Open
<1>1. \A u \in Worker : Held(u)' = Held(u)
  BY DEF Held
<1>2. OnePlace'
  BY <1>1 DEF OnePlace
<1>3. SomePlace'
  BY <1>1 DEF SomePlace
<1>4. Open' = Open
  BY DEF Open
<1> QED BY <1>2, <1>3, <1>4

\* Going on without changing one's hands.
LEMMA GoPlaces ==
  ASSUME IInv, NEW w \in Worker, NEW a, NEW b \in Stage, Go(w, a, b),
         a \in Childless <=> b \in Childless,
         a = "start" => parts[w] = <<>>,
         b # "start",
         UNCHANGED <<rows, parts, centroids>>
  PROVE  OnePlace' /\ SomePlace' /\ Open' = Open
<1> USE DEF IInv, Order
<1>1. /\ at[w] = a /\ at'[w] = b /\ Worker' = Worker
      /\ \A u \in Worker \ {w} : at'[u] = at[u]
  BY GoFacts
<1>2. \A u \in Worker \ {w} : Pending(u)' = Pending(u)
  BY <1>1, PendingKept
<1>3. Pending(w)' = Pending(w)
  <2>1. CASE a \in Childless
    <3>1. Pending(w) = {rows[w]}
      BY <1>1, <2>1, PendingAt
    <3>2. Pending(w)' = {rows'[w]}
      BY <1>1, <2>1, PendingAtNext
    <3> QED BY <3>1, <3>2
  <2>2. CASE a \notin Childless
    <3>1. Pending(w)' = {}
      BY <1>1, <2>2, PendingAtNext
    <3>2. Pending(w) = {}
      <4>1. CASE a = "start"
        <5>1. DOMAIN parts[w] = {}
          BY <4>1
        <5> QED BY <1>1, <4>1, <5>1, PendingAt
      <4>2. CASE a # "start"
        BY <1>1, <2>2, <4>2, PendingAt
      <4> QED BY <4>1, <4>2
    <3> QED BY <3>1, <3>2
  <2> QED BY <2>1, <2>2
<1>4. \A u \in Worker : Pending(u)' = Pending(u)
  BY <1>2, <1>3
<1> QED BY <1>1, <1>4, SamePlaces

\* A set sent is a set less to deal with and a centroid more.
LEMMA SendPlaces ==
  ASSUME IInv, NEW w \in Worker, Send(w)
  PROVE  /\ OnePlace' /\ SomePlace'
         /\ rows[w] \in Open /\ Open' = Open \ {rows[w]}
<1> USE DEF IInv, Order
<1>1. /\ Go(w, "send", "close") /\ centroids' = centroids \cup {rows[w]}
      /\ UNCHANGED <<rows, parts>>
  BY DEF Send
<1>2. "close" \in Stage
  BY DEF Stage
<1>3. /\ at[w] = "send" /\ at'[w] = "close" /\ Worker' = Worker
      /\ \A u \in Worker \ {w} : at'[u] = at[u]
  BY <1>1, <1>2, GoFacts
<1>4. \A u \in Worker \ {w} : Pending(u)' = Pending(u) /\ Held(u)' = Held(u)
  BY <1>1, <1>3, PendingKept
<1>5. Pending(w) = {rows[w]} /\ Held(w) = rows[w]
  BY <1>3, PendingAt DEF Childless
<1>6. Pending(w)' = {} /\ Held(w)' = {}
  BY <1>3, PendingAtNext DEF Childless
<1>7. rows[w] # {}
  BY <1>3 DEF Sized
<1>8. \A u \in Worker \ {w} : rows[w] \notin Pending(u)
  <2> SUFFICES ASSUME NEW u \in Worker \ {w}, rows[w] \in Pending(u) PROVE FALSE
    OBVIOUS
  <2>1. rows[w] \subseteq Held(u)
    BY DEF Held
  <2>2. Held(u) \cap Held(w) = {}
    BY DEF OnePlace
  <2> QED BY <1>5, <1>7, <2>1, <2>2
<1>9. rows[w] \in Open /\ Open' = Open \ {rows[w]}
  BY <1>3, <1>4, <1>5, <1>6, <1>8 DEF Open
<1>10. OnePlace'
  <2>1. \A u, v \in Worker' : u # v => Held(u)' \cap Held(v)' = {}
    BY <1>3, <1>4, <1>6 DEF OnePlace
  <2>2. \A u \in Worker' : \A i, j \in DOMAIN parts'[u] :
          i # j => parts'[u][i] \cap parts'[u][j] = {}
    BY <1>1, <1>3 DEF OnePlace
  <2>3. \A u \in Worker' : \A S \in centroids' : Held(u)' \cap S = {}
    BY <1>1, <1>3, <1>4, <1>5, <1>6 DEF OnePlace
  <2>4. \A S, T \in centroids' : S = T \/ S \cap T = {}
    BY <1>1, <1>5 DEF OnePlace
  <2> QED BY <2>1, <2>2, <2>3, <2>4 DEF OnePlace
<1>11. SomePlace'
  BY <1>1, <1>3, <1>4, <1>5 DEF SomePlace
<1> QED BY <1>9, <1>10, <1>11

\* A split leaves the rows in the same hands, in other sets.
LEMMA SplitPlaces ==
  ASSUME IInv, NEW w \in Worker, Split(w)
  PROVE  /\ OnePlace' /\ SomePlace'
         /\ \E parted : /\ rows[w] \in Open /\ Open' = (Open \ {rows[w]}) \cup parted
                        /\ UNION parted = rows[w]
                        /\ \A S, T \in parted : S = T \/ S \cap T = {}
<1> USE DEF IInv, Order
<1>1. Go(w, "split", "start") /\ UNCHANGED <<rows, centroids>>
  BY DEF Split
<1>2. PICK nearest \in [rows[w] -> 1 .. SubsetCount(w)] :
        parts' = [parts EXCEPT ![w] = Subsets(w, nearest)]
  BY DEF Split
<1>3. "start" \in Stage
  BY DEF Stage
<1>4. /\ at[w] = "split" /\ at'[w] = "start" /\ Worker' = Worker
      /\ \A u \in Worker \ {w} : at'[u] = at[u]
  BY <1>1, <1>3, GoFacts
<1>5. \A u \in Worker \ {w} : parts'[u] = parts[u]
  BY <1>2 DEF TypeOK
<1>6. parts'[w] = Subsets(w, nearest)
  BY <1>2 DEF TypeOK
<1>7. \A u \in Worker \ {w} : Pending(u)' = Pending(u) /\ Held(u)' = Held(u)
  BY <1>1, <1>4, <1>5, PendingKept
<1>8. Pending(w) = {rows[w]} /\ Held(w) = rows[w]
  BY <1>4, PendingAt DEF Childless
<1> DEFINE parted == {parts'[w][i] : i \in DOMAIN parts'[w]}
<1>9. Pending(w)' = parted
  BY <1>4, PendingAtNext
<1>10. /\ DOMAIN parts'[w] = 1 .. SubsetCount(w)
       /\ \A i \in 1 .. SubsetCount(w) : parts'[w][i] = {x \in rows[w] : nearest[x] = i}
  BY <1>6, SubsetsFacts
<1>11. UNION parted = rows[w]
  <2>1. ASSUME NEW x \in rows[w] PROVE x \in UNION parted
    <3>1. nearest[x] \in 1 .. SubsetCount(w)
      OBVIOUS
    <3>2. x \in parts'[w][nearest[x]] /\ parts'[w][nearest[x]] \in parted
      BY <1>10, <3>1
    <3> QED BY <3>2
  <2>2. ASSUME NEW S \in parted PROVE S \subseteq rows[w]
    BY <1>10
  <2> QED BY <2>1, <2>2
<1>12. \A i, j \in DOMAIN parts'[w] : i # j => parts'[w][i] \cap parts'[w][j] = {}
  BY <1>10
<1>13. Held(w)' = rows[w]
  BY <1>9, <1>11 DEF Held
<1>14. rows[w] # {}
  BY <1>4 DEF Sized
<1>15. \A u \in Worker \ {w} : rows[w] \notin Pending(u)
  <2> SUFFICES ASSUME NEW u \in Worker \ {w}, rows[w] \in Pending(u) PROVE FALSE
    OBVIOUS
  <2>1. rows[w] \subseteq Held(u)
    BY DEF Held
  <2>2. Held(u) \cap Held(w) = {}
    BY DEF OnePlace
  <2> QED BY <1>8, <1>14, <2>1, <2>2
<1>16. \A S, T \in parted : S = T \/ S \cap T = {}
  BY <1>12
<1> HIDE DEF parted
<1>17. rows[w] \in Open /\ Open' = (Open \ {rows[w]}) \cup parted
  BY <1>4, <1>7, <1>8, <1>9, <1>15 DEF Open
<1>18. \A u \in Worker : Held(u)' = Held(u)
  BY <1>7, <1>8, <1>13
<1>19. OnePlace'
  <2>1. \A u \in Worker' : \A i, j \in DOMAIN parts'[u] :
          i # j => parts'[u][i] \cap parts'[u][j] = {}
    BY <1>4, <1>5, <1>12 DEF OnePlace
  <2> QED BY <1>1, <1>4, <1>18, <2>1 DEF OnePlace
<1>20. SomePlace'
  BY <1>1, <1>4, <1>18 DEF SomePlace
<1> QED BY <1>11, <1>16, <1>17, <1>19, <1>20

\* A goroutine started has one of the sets its parent had.
LEMMA StartPlaces ==
  ASSUME IInv, NEW w \in Worker, Start(w)
  PROVE  OnePlace' /\ SomePlace' /\ Open' = Open
<1> USE DEF IInv, Order
<1>1. PICK child :
        /\ child = Append(w, Len(parts[w])) /\ child \notin Worker
        /\ child \in Seq(Nat) /\ child # <<>>
        /\ Worker' = Worker \cup {child}
        /\ at' \in [Worker' -> Stage] /\ rows' \in [Worker' -> SUBSET Row]
        /\ parts' \in [Worker' -> Seq(SUBSET Row)]
        /\ at'[child] = "queued" /\ rows'[child] = Head(parts[w]) /\ parts'[child] = <<>>
        /\ \A u \in Worker : at'[u] = at[u] /\ rows'[u] = rows[u]
        /\ parts'[w] = Tail(parts[w])
        /\ \A u \in Worker \ {w} : parts'[u] = parts[u]
  BY StartFacts
<1>2. at[w] = "start" /\ parts[w] # <<>> /\ centroids' = centroids
  BY DEF Start
<1> DEFINE n == Len(parts[w])
<1>3. parts[w] \in Seq(SUBSET Row) /\ n \in Nat \ {0} /\ DOMAIN parts[w] = 1 .. n
  BY <1>2, LenProperties, EmptySeq DEF TypeOK
<1>4. /\ Head(parts[w]) = parts[w][1] /\ DOMAIN parts'[w] = 1 .. (n - 1)
      /\ \A i \in 1 .. (n - 1) : parts'[w][i] = parts[w][i + 1]
  <2>1. /\ Head(parts[w]) = parts[w][1]
        /\ Tail(parts[w]) \in Seq(SUBSET Row) /\ Len(Tail(parts[w])) = n - 1
        /\ \A i \in 1 .. Len(Tail(parts[w])) : Tail(parts[w])[i] = parts[w][i + 1]
    BY <1>2, <1>3, HeadTailProperties
  <2> QED BY <1>1, <2>1, LenProperties
<1> HIDE DEF n
<1> DEFINE head == parts[w][1]
           tail == {parts[w][i] : i \in 2 .. n}
<1>5. Pending(w) = {head} \cup tail
  <2>1. Pending(w) = {parts[w][i] : i \in 1 .. n}
    BY <1>2, <1>3, PendingAt
  <2>2. 1 .. n = {1} \cup 2 .. n
    BY <1>3
  <2> QED BY <2>1, <2>2
<1>6. Pending(w)' = tail
  <2>1. Pending(w)' = {parts'[w][i] : i \in 1 .. (n - 1)}
    BY <1>1, <1>2, <1>4, PendingAtNext
  <2>2. ASSUME NEW i \in 2 .. n PROVE parts[w][i] \in Pending(w)'
    <3>1. i - 1 \in 1 .. (n - 1) /\ parts'[w][i - 1] = parts[w][i]
      BY <1>3, <1>4, <2>2
    <3> QED BY <2>1, <3>1
  <2>3. ASSUME NEW i \in 1 .. (n - 1) PROVE parts'[w][i] \in tail
    <3>1. i + 1 \in 2 .. n /\ parts'[w][i] = parts[w][i + 1]
      BY <1>3, <1>4, <2>3
    <3> QED BY <3>1
  <2> QED BY <2>1, <2>2, <2>3
<1>7. Pending(child)' = {head} /\ Held(child)' = head
  <2>1. child \in Worker' /\ at'[child] \in Childless /\ rows'[child] = head
    BY <1>1, <1>4 DEF Childless
  <2> HIDE DEF head
  <2>2. Pending(child)' = {rows'[child]} /\ Held(child)' = rows'[child]
    BY <2>1, PendingAtNext
  <2> QED BY <2>1, <2>2
<1>8. \A u \in Worker \ {w} : Pending(u)' = Pending(u) /\ Held(u)' = Held(u)
  BY <1>1, PendingKept
<1>9. \A i, j \in 1 .. n : i # j => parts[w][i] \cap parts[w][j] = {}
  BY <1>3 DEF OnePlace
<1>10. head \cap Held(w)' = {}
  <2>1. \A i \in 2 .. n : head \cap parts[w][i] = {}
    BY <1>3, <1>9
  <2> QED BY <1>6, <2>1 DEF Held
<1>11. head \subseteq Held(w) /\ Held(w)' \subseteq Held(w) /\ Held(w) = head \cup Held(w)'
  BY <1>5, <1>6 DEF Held
<1> HIDE DEF head, tail
<1>12. OnePlace'
  <2>1. ASSUME NEW u \in Worker', NEW v \in Worker', u # v
        PROVE  Held(u)' \cap Held(v)' = {}
    <3>1. CASE u \in Worker /\ v \in Worker
      BY <1>8, <1>11, <2>1, <3>1 DEF OnePlace
    <3>2. \A z \in Worker : head \cap Held(z)' = {}
      <4> SUFFICES ASSUME NEW z \in Worker PROVE head \cap Held(z)' = {}
        OBVIOUS
      <4>1. CASE z = w
        BY <1>10, <4>1
      <4>2. CASE z # w
        <5>1. Held(z) \cap Held(w) = {} /\ Held(z)' = Held(z)
          BY <1>8, <4>2 DEF OnePlace
        <5> QED BY <1>11, <5>1
      <4> QED BY <4>1, <4>2
    <3>3. CASE u = child \/ v = child
      BY <1>1, <1>7, <2>1, <3>2, <3>3
    <3> QED BY <1>1, <3>1, <3>3
  <2>2. ASSUME NEW u \in Worker', NEW i \in DOMAIN parts'[u], NEW j \in DOMAIN parts'[u], i # j
        PROVE  parts'[u][i] \cap parts'[u][j] = {}
    <3>1. CASE u = child
      BY <1>1, <2>2, <3>1
    <3>2. CASE u = w
      <4>1. i \in 1 .. (n - 1) /\ j \in 1 .. (n - 1)
        BY <1>4, <2>2, <3>2
      <4>2. /\ i + 1 \in 1 .. n /\ j + 1 \in 1 .. n /\ i + 1 # j + 1
            /\ parts'[u][i] = parts[w][i + 1] /\ parts'[u][j] = parts[w][j + 1]
        BY <1>3, <1>4, <2>2, <3>2, <4>1
      <4> QED BY <1>9, <4>2
    <3>3. CASE u \in Worker \ {w}
      BY <1>1, <2>2, <3>3 DEF OnePlace
    <3> QED BY <1>1, <3>1, <3>2, <3>3
  <2>3. ASSUME NEW u \in Worker', NEW S \in centroids' PROVE Held(u)' \cap S = {}
    <3>1. CASE u = child
      BY <1>2, <1>7, <1>11, <2>3, <3>1 DEF OnePlace
    <3>2. CASE u \in Worker
      BY <1>2, <1>8, <1>11, <2>3, <3>2 DEF OnePlace
    <3> QED BY <1>1, <3>1, <3>2
  <2>4. \A S, T \in centroids' : S = T \/ S \cap T = {}
    BY <1>2 DEF OnePlace
  <2> QED BY <2>1, <2>2, <2>3, <2>4 DEF OnePlace
<1>13. SomePlace'
  <2> SUFFICES ASSUME NEW x \in Row, \A S \in centroids' : x \notin S
               PROVE  \E u \in Worker' : x \in Held(u)'
    BY DEF SomePlace
  <2>1. PICK u \in Worker : x \in Held(u)
    BY <1>2 DEF SomePlace
  <2>2. CASE u = w
    BY <1>1, <1>7, <1>11, <2>1, <2>2
  <2>3. CASE u # w
    BY <1>1, <1>8, <2>1, <2>3
  <2> QED BY <2>2, <2>3
<1>14. Open' = Open
  <2>1. Pending(w) = Pending(child)' \cup Pending(w)'
    BY <1>5, <1>6, <1>7
  <2>2. ASSUME NEW u \in Worker, NEW S \in Pending(u) PROVE \E v \in Worker' : S \in Pending(v)'
    <3>1. CASE u = w
      BY <1>1, <2>1, <2>2, <3>1
    <3>2. CASE u # w
      BY <1>1, <1>8, <2>2, <3>2
    <3> QED BY <3>1, <3>2
  <2>3. ASSUME NEW u \in Worker', NEW S \in Pending(u)' PROVE \E v \in Worker : S \in Pending(v)
    <3>1. CASE u = w \/ u = child
      BY <2>1, <2>3, <3>1
    <3>2. CASE u \in Worker \ {w}
      BY <1>8, <2>3, <3>2
    <3> QED BY <1>1, <3>1, <3>2
  <2>4. ASSUME NEW S PROVE S \in Open' <=> S \in Open
    <3>1. S \in Open' <=> \E u \in Worker' : S \in Pending(u)'
      BY DEF Open
    <3>2. S \in Open <=> \E u \in Worker : S \in Pending(u)
      BY DEF Open
    <3> QED BY <2>2, <2>3, <3>1, <3>2
  <2> QED BY <2>4
<1> QED BY <1>12, <1>13, <1>14

-----------------------------------------------------------------------------
(* Each step does what Partitioning lets it do.                              *)

\* What is sent may be: nothing but Check sends a goroutine on to Send or to Split.
LEMMA SizedKept ==
  ASSUME IInv, NEW w \in Worker, NEW a, NEW b \in Stage, Go(w, a, b),
         b \notin {"send", "split"},
         UNCHANGED <<rows, centroids, cancelled>>
  PROVE  Sized'
<1> USE DEF IInv, Order
<1>1. /\ at[w] = a /\ at'[w] = b /\ Worker' = Worker
      /\ \A u \in Worker \ {w} : at'[u] = at[u]
  BY GoFacts
<1>2. \A u \in Worker' : at'[u] \in {"send", "split"} => at'[u] = at[u]
  BY <1>1
<1> QED BY <1>1, <1>2 DEF Sized, SmallEnough

\* The size of a set is the same in both specifications.
LEMMA SameSize == ASSUME NEW S PROVE Promised!Cardinality(S) = Cardinality(S)
  BY DEF Promised!Cardinality, Cardinality

\* Sets are split, and stay in the same hands.
LEMMA SplitStep ==
  ASSUME IInv, NEW w \in Worker, Split(w)
  PROVE  Sized' /\ OnePlace' /\ SomePlace' /\ Promised!Divide
<1>1. Go(w, "split", "start") /\ UNCHANGED <<rows, centroids, caller, cancelled>>
  BY DEF Split
<1>2. Sized'
  BY <1>1, SizedKept DEF Stage
<1>3. PICK parted : /\ rows[w] \in Open /\ Open' = (Open \ {rows[w]}) \cup parted
                    /\ UNION parted = rows[w]
                    /\ \A S, T \in parted : S = T \/ S \cap T = {}
  BY SplitPlaces
<1> DEFINE subsets == {T \in Open' : T \subseteq rows[w]}
<1>4. \A T \in Open : T = rows[w] \/ T \cap rows[w] = {}
  <2> SUFFICES ASSUME NEW u \in Worker, NEW T \in Pending(u)
               PROVE  T = rows[w] \/ T \cap rows[w] = {}
    BY DEF Open
  <2>1. Pending(w) = {rows[w]} /\ Held(w) = rows[w]
    BY <1>1, PendingAt DEF Go, Childless
  <2>2. CASE u = w
    BY <2>1, <2>2
  <2>3. CASE u # w
    <3>1. T \subseteq Held(u)
      BY DEF Held
    <3>2. Held(u) \cap Held(w) = {}
      BY <2>3 DEF IInv, OnePlace
    <3> QED BY <2>1, <3>1, <3>2
  <2> QED BY <2>2, <2>3
<1>5. parted \subseteq subsets
  BY <1>3
<1>6. \A T \in subsets : T \in parted \/ T = {}
  BY <1>3, <1>4
<1>7. Open' = (Open \ {rows[w]}) \cup subsets
  BY <1>3, <1>5
<1>8. UNION subsets = rows[w]
  <2>1. UNION subsets \subseteq rows[w]
    OBVIOUS
  <2>2. UNION parted \subseteq UNION subsets
    BY <1>5
  <2> QED BY <1>3, <2>1, <2>2
<1>9. \A S, T \in subsets : S = T \/ S \cap T = {}
  BY <1>3, <1>6
<1>10. UNCHANGED <<centroids, cancelled, caller>>
  BY <1>1
<1>11. Promised!Divide
  BY <1>3, <1>7, <1>8, <1>9, <1>10 DEF Promised!Divide, Promised!Disjoint
<1> QED BY <1>2, <1>11, SplitPlaces

\* A set sent is a set that has given its centroid.
LEMMA SendStep ==
  ASSUME IInv, NEW w \in Worker, Send(w)
  PROVE  Sized' /\ OnePlace' /\ SomePlace' /\ Promised!Conquer
<1> USE DEF IInv, Order
<1>1. /\ Go(w, "send", "close") /\ centroids' = centroids \cup {rows[w]}
      /\ UNCHANGED <<rows, caller, cancelled>>
  BY DEF Send
<1>2. /\ at[w] = "send" /\ at'[w] = "close" /\ Worker' = Worker
      /\ \A u \in Worker \ {w} : at'[u] = at[u]
  BY <1>1, GoFacts DEF Stage
<1>3. rows[w] # {} /\ (Cardinality(rows[w]) <= Target \/ cancelled)
  BY <1>2 DEF Sized, SmallEnough
<1>4. Sized'
  <2>1. \A u \in Worker' : at'[u] \in {"send", "split"} => u # w /\ at'[u] = at[u]
    BY <1>2
  <2>2. ~cancelled' => \A S \in centroids' : Cardinality(S) <= Target
    BY <1>1, <1>3 DEF Sized
  <2>3. {} \notin centroids'
    BY <1>1, <1>3 DEF Sized
  <2> QED BY <1>1, <1>2, <2>1, <2>2, <2>3 DEF Sized, SmallEnough
<1>5. Promised!Conquer
  <2>1. rows[w] \in Open /\ Open' = Open \ {rows[w]}
    BY SendPlaces
  <2>2. UNCHANGED <<cancelled, (caller = "finished")>>
    BY <1>1
  <2> QED BY <1>1, <1>3, <2>1, <2>2, SameSize DEF Promised!Conquer
<1> QED BY <1>4, <1>5, SendPlaces

\* Deciding to send or to split.
LEMMA CheckStep ==
  ASSUME IInv, NEW w \in Worker, Check(w)
  PROVE  Sized' /\ OnePlace' /\ SomePlace' /\ Open' = Open
<1> USE DEF IInv, Order
<1>1. PICK b \in {"send", "split"} :
        Go(w, "begin", b) /\ (b = "send" => SmallEnough(w) \/ cancelled)
  BY DEF Check
<1>2. rows[w] # {} /\ UNCHANGED <<rows, parts, centroids, cancelled>>
  BY DEF Check
<1>3. b \in Stage
  BY DEF Stage
<1>4. /\ at[w] = "begin" /\ at'[w] = b /\ Worker' = Worker
      /\ \A u \in Worker \ {w} : at'[u] = at[u]
  BY <1>1, <1>3, GoFacts
<1>5. Sized'
  <2>1. \A u \in Worker' : at'[u] \in {"send", "split"} => u = w \/ at'[u] = at[u]
    BY <1>4
  <2> QED BY <1>1, <1>2, <1>4, <2>1 DEF Sized, SmallEnough
<1>6. OnePlace' /\ SomePlace' /\ Open' = Open
  BY <1>1, <1>2, <1>3, GoPlaces DEF Childless
<1> QED BY <1>5, <1>6

\* Starting a goroutine.
LEMMA StartStep ==
  ASSUME IInv, NEW w \in Worker, Start(w)
  PROVE  Sized' /\ OnePlace' /\ SomePlace' /\ Open' = Open
<1> USE DEF IInv, Order
<1>1. PICK child :
        /\ child \notin Worker /\ Worker' = Worker \cup {child}
        /\ at'[child] = "queued"
        /\ \A u \in Worker : at'[u] = at[u] /\ rows'[u] = rows[u]
  BY StartFacts
<1>2. UNCHANGED <<centroids, cancelled>>
  BY DEF Start
<1>3. Sized'
  BY <1>1, <1>2 DEF Sized, SmallEnough
<1> QED BY <1>3, StartPlaces

\* The steps that move no row.
LEMMA QuietStep ==
  ASSUME IInv, NEW w \in Worker,
         Enter(w) \/ Panic(w) \/ Started(w) \/ Leave(w) \/ Discount(w) \/ CloseY(w)
  PROVE  /\ Sized' /\ OnePlace' /\ SomePlace'
         /\ UNCHANGED <<Open, centroids, cancelled, caller>>
<1>1. UNCHANGED <<rows, parts, centroids, caller, cancelled>>
  BY DEF Enter, Panic, Started, Leave, Discount, CloseY
<1>2. PICK a \in Stage, b \in Stage :
        /\ Go(w, a, b) /\ b \notin {"send", "split", "start"}
        /\ a \in Childless <=> b \in Childless
        /\ a = "start" => parts[w] = <<>>
  BY DEF Enter, Panic, Started, Leave, Discount, CloseY, Stage, Childless
<1>3. Sized'
  BY <1>1, <1>2, SizedKept
<1>4. OnePlace' /\ SomePlace' /\ Open' = Open
  BY <1>1, <1>2, GoPlaces
<1> QED BY <1>1, <1>3, <1>4

\* The end of the channel reaches the caller when nothing is left.
LEMMA NothingLeft ==
  ASSUME IInv, Y = "closed" PROVE Open = {}
<1>1. \A u \in Worker : at[u] = "ended"
  BY DEF IInv, Order, LastCloses, Live
<1>2. \A u \in Worker : Pending(u) = {}
  BY <1>1, PendingAt DEF Childless
<1> QED BY <1>2 DEF Open

\* The caller's steps.
LEMMA CallerStep ==
  ASSUME IInv, Finish \/ Cancel
  PROVE  Sized' /\ OnePlace' /\ SomePlace' /\ (Promised!Finish \/ Promised!Cancel)
<1> USE DEF IInv
<1>1. UNCHANGED <<at, rows, parts, centroids>> /\ (cancelled' = cancelled \/ cancelled' = TRUE)
  BY DEF Finish, Cancel
<1>2. \A u \in Worker : Pending(u)' = Pending(u)
  BY <1>1, PendingKept
<1>3. OnePlace' /\ SomePlace' /\ Open' = Open
  BY <1>1, <1>2, SamePlaces
<1>4. Sized'
  BY <1>1 DEF Sized, SmallEnough
<1>5. CASE Finish
  <2>1. Open = {} /\ caller' = "finished" /\ cancelled' = cancelled
    BY <1>5, NothingLeft DEF Finish
  <2>2. Promised!Finish
    BY <1>1, <1>3, <2>1 DEF Promised!Finish
  <2> QED BY <1>3, <1>4, <2>2
<1>6. CASE Cancel
  <2>1. Promised!Cancel
    BY <1>1, <1>3, <1>6 DEF Cancel, Promised!Cancel
  <2> QED BY <1>3, <1>4, <2>1
<1> QED BY <1>5, <1>6

\* Nothing moves.
LEMMA StutterStep ==
  ASSUME IInv, UNCHANGED vars
  PROVE  /\ Sized' /\ OnePlace' /\ SomePlace'
         /\ UNCHANGED <<Open, centroids, cancelled, caller>>
<1>1. UNCHANGED <<at, rows, parts, centroids, cancelled, caller>>
  BY DEF vars
<1>2. \A u \in Worker : Pending(u)' = Pending(u)
  BY <1>1, PendingKept
<1>3. OnePlace' /\ SomePlace' /\ Open' = Open
  BY <1>1, <1>2, SamePlaces DEF IInv
<1>4. Sized'
  BY <1>1 DEF IInv, Sized, SmallEnough
<1> QED BY <1>1, <1>3, <1>4

\* Every step keeps the invariant and is a step of Partitioning, or none.
LEMMA NextStep ==
  ASSUME IInv, [Next]_vars
  PROVE  IInv' /\ [Promised!Next]_(Promised!vars)
<1>1. Order'
  <2>1. ASSUME NEW w \in Worker, Step(w) PROVE Order'
    BY <2>1, EnterOrder, PanicOrder, CheckOrder, SendOrder, SplitOrder, StartOrder,
       StartedOrder, LeaveOrder, DiscountOrder, CloseYOrder DEF Step, IInv
  <2> QED BY <2>1, CallerOrder, StutterOrder DEF Next, Work, Over, IInv
<1>2. ASSUME UNCHANGED <<Open, centroids, cancelled, caller>> PROVE UNCHANGED Promised!vars
  BY <1>2 DEF Promised!vars
<1>3. ASSUME NEW w \in Worker, Step(w)
      PROVE  Sized' /\ OnePlace' /\ SomePlace' /\ [Promised!Next]_(Promised!vars)
  <2>1. CASE Split(w)
    BY <2>1, SplitStep DEF Promised!Next
  <2>2. CASE Send(w)
    BY <2>2, SendStep DEF Promised!Next
  <2>3. CASE Check(w)
    <3>1. UNCHANGED <<centroids, cancelled, caller>>
      BY <2>3 DEF Check
    <3> QED BY <1>2, <2>3, <3>1, CheckStep
  <2>4. CASE Start(w)
    <3>1. UNCHANGED <<centroids, cancelled, caller>>
      BY <2>4 DEF Start
    <3> QED BY <1>2, <2>4, <3>1, StartStep
  <2>5. CASE Enter(w) \/ Panic(w) \/ Started(w) \/ Leave(w) \/ Discount(w) \/ CloseY(w)
    BY <1>2, <2>5, QuietStep
  <2> QED BY <1>3, <2>1, <2>2, <2>3, <2>4, <2>5 DEF Step
<1>4. CASE Finish \/ Cancel
  BY <1>1, <1>4, CallerStep DEF IInv, Promised!Next
<1>5. CASE UNCHANGED vars
  BY <1>1, <1>2, <1>5, StutterStep DEF IInv
<1> QED BY <1>1, <1>3, <1>4, <1>5 DEF Next, Work, Over, IInv

\* At the start all rows are in the hands of the first.
LEMMA InitStep == ASSUME Init PROVE IInv /\ Promised!Init
<1>1. /\ Worker = {<<>>} /\ at[<<>>] = "queued" /\ rows[<<>>] = Row /\ parts[<<>>] = <<>>
      /\ centroids = {} /\ caller = "waiting" /\ cancelled = FALSE
  BY DEF Init
<1>2. Pending(<<>>) = {Row} /\ Held(<<>>) = Row
  BY <1>1, PendingAt DEF Childless
<1>3. Open = {Row}
  BY <1>1, <1>2 DEF Open
<1>4. OnePlace /\ SomePlace
  BY <1>1, <1>2 DEF OnePlace, SomePlace
<1>5. Sized
  BY <1>1 DEF Sized
<1>6. Promised!Init
  BY <1>1, <1>3 DEF Promised!Init
<1> QED BY <1>4, <1>5, <1>6, InitOrder DEF IInv

-----------------------------------------------------------------------------
(* The theorems.                                                             *)

\* A row is at every moment in one place: in the hands of one goroutine or
\* behind one centroid.
THEOREM Invariant == Spec => []IInv
<1>1. ASSUME IInv, [Next]_vars PROVE IInv'
  BY <1>1, NextStep
<1>2. Init => IInv
  BY InitStep
<1> QED BY <1>1, <1>2, PTL DEF Spec

\* The goroutines do what Partitioning promises, whatever the rows, the sizes,
\* the number of slots and the way k-means assigns rows: what the caller of
\* divideNconquer may count on is that specification and not the schedule.
THEOREM Refinement == Spec => ImplementsPartitioning
<1>1. IInv /\ [Next]_vars => [Promised!Next]_(Promised!vars)
  BY NextStep
<1>2. Init => Promised!Init
  BY InitStep
<1> QED BY <1>1, <1>2, Invariant, PTL DEF Spec, ImplementsPartitioning, Promised!Spec

\* When the caller has got the end of the channel, the centroids it has received
\* stand for every row of the category, once each.
THEOREM EveryRowOnceHolds == Spec => []EveryRowOnce
<1>1. ASSUME IInv, caller = "finished" PROVE UNION centroids = Row
  <2>1. \A u \in Worker : Held(u) = {}
    <3>1. \A u \in Worker : at[u] = "ended"
      BY <1>1 DEF IInv, Order, LastCloses, Live
    <3> QED BY <3>1, PendingAt DEF Childless
  <2>2. \A x \in Row : \E S \in centroids : x \in S
    BY <1>1, <2>1 DEF IInv, SomePlace
  <2>3. \A S \in centroids : S \subseteq Row
    BY <1>1 DEF IInv, Order, TypeOK
  <2> QED BY <2>2, <2>3
<1>2. ASSUME IInv PROVE EveryRowOnce
  <2>1. Promised!Disjoint(centroids)
    BY <1>2 DEF IInv, OnePlace, Promised!Disjoint
  <2>2. ~cancelled => \A S \in centroids : Cardinality(S) <= Target
    BY <1>2 DEF IInv, Sized
  <2> QED BY <1>1, <1>2, <2>1, <2>2, SameSize DEF EveryRowOnce, Promised!EveryRowOnce
<1> QED BY <1>2, Invariant, PTL

\* The types of the state hold in every state.
THEOREM TypeInv == Spec => []TypeOK
<1>1. IInv => TypeOK
  BY DEF IInv, Order
<1> QED BY <1>1, Invariant, PTL

\* Whoever closes the channel of centroids is the last goroutine, for any rows,
\* any sizes and any number of slots: nobody sends on a closed channel, nobody
\* closes it twice.
THEOREM ClosedByTheLastHolds == Spec => []ClosedByTheLast
<1>1. ASSUME IInv PROVE ClosedByTheLast
  <2> SUFFICES ASSUME NEW w \in Worker, at[w] = "closeY" \/ Y = "closed", NEW u \in Worker \ {w}
               PROVE  at[u] = "ended"
    BY DEF ClosedByTheLast
  <2>1. Live = {} /\ at[u] # "closeY"
    BY <1>1 DEF IInv, Order, LastCloses
  <2> QED BY <2>1 DEF Live
<1> QED BY <1>1, Invariant, PTL
=============================================================================
