----------------------------- MODULE CacheProofs -----------------------------
(* Theorems about Cache, for any callers, keys, questions and durations.     *)
EXTENDS Cache, TLAPS

\* What a caller's step does to where the callers are.
LEMMA MoveFacts ==
  ASSUME TypeOK, NEW c \in Caller, NEW a, NEW b \in Place, Move(c, a, b)
  PROVE  /\ process = "up" /\ pc[c] = a /\ pc' \in [Caller -> Place]
         /\ pc'[c] = b /\ \A d \in Caller \ {c} : pc'[d] = pc[d]
  BY DEF Move, TypeOK

\* A question that is put is put somewhere.
LEMMA AskFacts ==
  ASSUME TypeOK, NEW c \in Caller, ask[c] \in Question
  PROVE  StageOf(c) \in Stage /\ KeyOf(c) \in Key /\ ask[c] = <<StageOf(c), KeyOf(c)>>
  BY CacheAssumption DEF StageOf, KeyOf

\* Who is in a lock, one by one; one who writes is alone.
LEMMA Holders ==
  ASSUME LockHolders, NEW s \in Stage
  PROVE  /\ \A c \in Caller : pc[c] = "reading" /\ StageOf(c) = s => c \in lock[s].readers
         /\ \A c \in Caller : pc[c] \in {"drain", "writing"} /\ StageOf(c) = s => c \in lock[s].writer
         /\ s = "owner" /\ cleaner.at \in {"drain", "sweep", "delete"} => "cleaner" \in lock[s].writer
         /\ \A w \in lock[s].writer : lock[s].writer = {w}
         /\ \A c \in Caller : pc[c] = "writing" /\ StageOf(c) = s => lock[s].readers = {}
         /\ s = "owner" /\ cleaner.at \in {"sweep", "delete"} => lock[s].readers = {}
<1>1. /\ lock[s].readers = {c \in Caller : pc[c] = "reading" /\ StageOf(c) = s}
      /\ lock[s].writer = {c \in Caller : pc[c] \in {"drain", "writing"} /\ StageOf(c) = s}
           \cup (IF s = "owner" /\ cleaner.at \in {"drain", "sweep", "delete"} THEN {"cleaner"} ELSE {})
      /\ \A a, b \in lock[s].writer : a = b
      /\ lock[s].readers # {} =>
           /\ \A c \in Caller : pc[c] = "writing" => StageOf(c) # s
           /\ s = "owner" => cleaner.at \notin {"sweep", "delete"}
  BY DEF LockHolders
<1> QED BY <1>1

\* Nobody goes in or out.
LEMMA HoldersStay ==
  ASSUME LockHolders, UNCHANGED <<lock, cleaner>>,
         \A c \in Caller : {pc[c], pc'[c]} \cap {"reading", "drain", "writing"} # {} =>
           pc'[c] = pc[c] /\ ask'[c] = ask[c]
  PROVE  LockHolders'
<1>1. \A s \in Stage :
        /\ {c \in Caller : pc'[c] = "reading" /\ StageOf(c)' = s}
             = {c \in Caller : pc[c] = "reading" /\ StageOf(c) = s}
        /\ {c \in Caller : pc'[c] \in {"drain", "writing"} /\ StageOf(c)' = s}
             = {c \in Caller : pc[c] \in {"drain", "writing"} /\ StageOf(c) = s}
        /\ \A c \in Caller : pc'[c] = "writing" => pc[c] = "writing" /\ StageOf(c)' = StageOf(c)
  BY DEF StageOf
<1> QED BY <1>1 DEF LockHolders

-----------------------------------------------------------------------------
(* Steps of callers.                                                         *)

\* Calling Do.
LEMMA AskStep == ASSUME IInv, NEW c \in Caller, Ask(c) PROVE IInv'
<1> USE DEF IInv
<1>1. PICK question \in Question, b \in {"rlock", "join"} :
        /\ Move(c, "idle", b)
        /\ b = "rlock" => Flight(question) = {}
        /\ ask' = [ask EXCEPT ![c] = question]
        /\ UNCHANGED <<now, map, lock, found, cleaner, process>>
  BY CacheAssumption DEF Ask
<1>2. /\ pc[c] = "idle" /\ pc' \in [Caller -> Place]
      /\ pc'[c] = b /\ \A d \in Caller \ {c} : pc'[d] = pc[d]
  BY <1>1, MoveFacts DEF Place
<1>3. ask'[c] = question /\ \A d \in Caller \ {c} : ask'[d] = ask[d]
  BY <1>1 DEF TypeOK
<1>4. TypeOK'
  BY <1>1, <1>2 DEF TypeOK
<1>5. \A d \in Caller : pc'[d] \notin {"idle", "join", "rlock"} =>
        d # c /\ pc[d] = pc'[d] /\ ask'[d] = ask[d]
  BY <1>1, <1>2, <1>3
<1>6. LockHolders'
  BY <1>1, <1>2, <1>3, HoldersStay
<1>7. OneRuns'
  <2>1. b = "rlock" => \A d \in Caller : ask[d] = question => pc[d] = "idle"
    BY <1>1 DEF Flight
  <2> QED BY <1>1, <1>2, <1>3, <2>1 DEF OneRuns, Running
<1>8. LookupHolds'
  BY <1>1, <1>2, <1>3 DEF LookupHolds, StageOf, KeyOf, Valid
<1>9. DropsExpired'
  BY <1>1 DEF DropsExpired, Expired
<1> QED BY <1>4, <1>6, <1>7, <1>8, <1>9

\* Taking the read lock.
LEMMA RLockStep == ASSUME IInv, NEW c \in Caller, RLock(c) PROVE IInv'
<1> USE DEF IInv
<1>1. /\ Move(c, "rlock", "reading") /\ lock[StageOf(c)].writer = {}
      /\ lock' = [lock EXCEPT ![StageOf(c)].readers = @ \cup {c}]
      /\ UNCHANGED <<now, map, ask, found, cleaner, process>>
  BY DEF RLock
<1>2. /\ pc[c] = "rlock" /\ pc' \in [Caller -> Place]
      /\ pc'[c] = "reading" /\ \A d \in Caller \ {c} : pc'[d] = pc[d]
  BY <1>1, MoveFacts DEF Place
<1>3. StageOf(c) \in Stage
  BY <1>2, AskFacts DEF LookupHolds
<1>4. /\ lock'[StageOf(c)].readers = lock[StageOf(c)].readers \cup {c}
      /\ \A s \in Stage : lock'[s].writer = lock[s].writer
      /\ \A s \in Stage \ {StageOf(c)} : lock'[s].readers = lock[s].readers
      /\ lock' \in [Stage -> [writer : SUBSET (Caller \cup {"cleaner"}), readers : SUBSET Caller]]
  BY <1>1, <1>3 DEF TypeOK
<1>5. TypeOK'
  BY <1>1, <1>2, <1>4 DEF TypeOK
<1>6. LockHolders'
  <2>1. \A s \in Stage : lock'[s].readers = {d \in Caller : pc'[d] = "reading" /\ StageOf(d)' = s}
    BY <1>1, <1>2, <1>3, <1>4 DEF LockHolders, StageOf
  <2>2. \A d \in Caller : pc'[d] \in {"drain", "writing"} <=> pc[d] \in {"drain", "writing"}
    BY <1>2
  <2>3. \A s \in Stage : lock'[s].writer = {d \in Caller : pc'[d] \in {"drain", "writing"} /\ StageOf(d)' = s}
          \cup (IF s = "owner" /\ cleaner'.at \in {"drain", "sweep", "delete"} THEN {"cleaner"} ELSE {})
    BY <1>1, <1>4, <2>2 DEF LockHolders, StageOf
  <2>4. \A s \in Stage : \A a, b \in lock'[s].writer : a = b
    BY <1>4 DEF LockHolders
  <2>5. ASSUME NEW s \in Stage, lock'[s].readers # {}
        PROVE  /\ \A d \in Caller : pc'[d] = "writing" => StageOf(d)' # s
               /\ s = "owner" => cleaner'.at \notin {"sweep", "delete"}
    <3>1. CASE s = StageOf(c)
      <4>1. \A d \in Caller : pc[d] = "writing" => StageOf(d) # s
        BY <1>1, <3>1, Holders
      <4>2. s = "owner" => cleaner.at \notin {"sweep", "delete"}
        BY <1>1, <3>1, Holders
      <4> QED BY <1>1, <1>2, <4>1, <4>2 DEF StageOf
    <3>2. CASE s # StageOf(c)
      BY <1>1, <1>2, <1>4, <2>5, <3>2 DEF LockHolders, StageOf
    <3> QED BY <3>1, <3>2
  <2> QED BY <2>1, <2>3, <2>4, <2>5 DEF LockHolders
<1>7. OneRuns'
  BY <1>1, <1>2 DEF OneRuns, Running
<1>8. LookupHolds'
  BY <1>1, <1>2 DEF LookupHolds, StageOf, KeyOf, Valid
<1>9. DropsExpired'
  BY <1>1 DEF DropsExpired, Expired
<1> QED BY <1>5, <1>6, <1>7, <1>8, <1>9

\* The lookup.
LEMMA LookStep == ASSUME IInv, NEW c \in Caller, Look(c) PROVE IInv'
<1> USE DEF IInv
<1> DEFINE items == map[StageOf(c)]
           seen == IF KeyOf(c) \in DOMAIN items THEN items[KeyOf(c)] ELSE 0
<1>1. /\ Move(c, "reading", "check") /\ found' = [found EXCEPT ![c] = seen]
      /\ lock' = [lock EXCEPT ![StageOf(c)] = RUnlocked(lock[StageOf(c)], c)]
      /\ UNCHANGED <<now, map, ask, cleaner, process>>
  BY DEF Look
<1>2. /\ pc[c] = "reading" /\ pc' \in [Caller -> Place]
      /\ pc'[c] = "check" /\ \A d \in Caller \ {c} : pc'[d] = pc[d]
  BY <1>1, MoveFacts DEF Place
<1>3. StageOf(c) \in Stage
  BY <1>2, AskFacts DEF LookupHolds
<1>4. /\ lock'[StageOf(c)].readers = lock[StageOf(c)].readers \ {c}
      /\ \A s \in Stage : lock'[s].writer = lock[s].writer
      /\ \A s \in Stage \ {StageOf(c)} : lock'[s].readers = lock[s].readers
      /\ lock' \in [Stage -> [writer : SUBSET (Caller \cup {"cleaner"}), readers : SUBSET Caller]]
  BY <1>1, <1>3 DEF TypeOK, RUnlocked
<1>5. seen \in 0 .. MaxTime + Duration
  BY <1>3, CacheAssumption DEF TypeOK
<1>6. TypeOK'
  BY <1>1, <1>2, <1>4, <1>5 DEF TypeOK
<1>7. LockHolders'
  BY <1>1, <1>2, <1>4 DEF LockHolders, StageOf
<1>8. OneRuns'
  BY <1>1, <1>2 DEF OneRuns, Running
<1>9. LookupHolds'
  BY <1>1, <1>2 DEF LookupHolds, StageOf, KeyOf, Valid, TypeOK
<1>10. DropsExpired'
  BY <1>1 DEF DropsExpired, Expired
<1> QED BY <1>6, <1>7, <1>8, <1>9, <1>10

\* Deciding whether to fetch.
LEMMA CheckStep == ASSUME IInv, NEW c \in Caller, Check(c) PROVE IInv'
<1> USE DEF IInv
<1>1. PICK b \in {"return", "fetch"} :
        Move(c, "check", b) /\ (b = "fetch" => ~Valid(found[c]))
  BY DEF Check
<1>2. /\ found' = [found EXCEPT ![c] = 0]
      /\ UNCHANGED <<now, map, lock, ask, cleaner, process>>
  BY DEF Check
<1>3. /\ pc[c] = "check" /\ pc' \in [Caller -> Place]
      /\ pc'[c] = b /\ \A d \in Caller \ {c} : pc'[d] = pc[d]
  BY <1>1, MoveFacts DEF Place
<1>4. TypeOK'
  <2>1. 0 \in 0 .. MaxTime + Duration
    BY CacheAssumption
  <2> QED BY <1>2, <1>3, <2>1 DEF TypeOK
<1>5. LockHolders'
  BY <1>2, <1>3, HoldersStay
<1>6. OneRuns'
  BY <1>2, <1>3 DEF OneRuns, Running
<1>7. LookupHolds'
  BY <1>1, <1>2, <1>3 DEF LookupHolds, StageOf, KeyOf, Valid, TypeOK
<1>8. DropsExpired'
  BY <1>2 DEF DropsExpired, Expired
<1> QED BY <1>4, <1>5, <1>6, <1>7, <1>8

\* fetch() returns, with a result or with an error.
LEMMA FetchedStep == ASSUME IInv, NEW c \in Caller, Fetched(c) \/ Failed(c) PROVE IInv'
<1> USE DEF IInv
<1>1. PICK b \in {"return", "lock"} : Move(c, "fetch", b)
  BY DEF Fetched, Failed
<1>2. UNCHANGED <<now, map, lock, ask, found, cleaner, process>>
  BY DEF Fetched, Failed
<1>3. /\ pc[c] = "fetch" /\ pc' \in [Caller -> Place]
      /\ pc'[c] = b /\ \A d \in Caller \ {c} : pc'[d] = pc[d]
  BY <1>1, MoveFacts DEF Place
<1>4. TypeOK'
  BY <1>2, <1>3 DEF TypeOK
<1>5. LockHolders'
  BY <1>2, <1>3, HoldersStay
<1>6. OneRuns'
  BY <1>2, <1>3 DEF OneRuns, Running
<1>7. LookupHolds'
  BY <1>2, <1>3 DEF LookupHolds, StageOf, KeyOf, Valid
<1>8. DropsExpired'
  BY <1>2 DEF DropsExpired, Expired
<1> QED BY <1>4, <1>5, <1>6, <1>7, <1>8

\* Shutting the others out.
LEMMA LockStep == ASSUME IInv, NEW c \in Caller, Lock(c) PROVE IInv'
<1> USE DEF IInv
<1>1. /\ Move(c, "lock", "drain") /\ lock[StageOf(c)].writer = {}
      /\ lock' = [lock EXCEPT ![StageOf(c)].writer = {c}]
      /\ UNCHANGED <<now, map, ask, found, cleaner, process>>
  BY DEF Lock
<1>2. /\ pc[c] = "lock" /\ pc' \in [Caller -> Place]
      /\ pc'[c] = "drain" /\ \A d \in Caller \ {c} : pc'[d] = pc[d]
  BY <1>1, MoveFacts DEF Place
<1>3. StageOf(c) \in Stage
  BY <1>2, AskFacts DEF LookupHolds
<1>4. /\ lock'[StageOf(c)].writer = {c}
      /\ \A s \in Stage : lock'[s].readers = lock[s].readers
      /\ \A s \in Stage \ {StageOf(c)} : lock'[s].writer = lock[s].writer
      /\ lock' \in [Stage -> [writer : SUBSET (Caller \cup {"cleaner"}), readers : SUBSET Caller]]
  BY <1>1, <1>3 DEF TypeOK
<1>5. TypeOK'
  BY <1>1, <1>2, <1>4 DEF TypeOK
<1>6. LockHolders'
  <2>1. \A s \in Stage : lock'[s].readers = {d \in Caller : pc'[d] = "reading" /\ StageOf(d)' = s}
    BY <1>1, <1>2, <1>4 DEF LockHolders, StageOf
  <2>2. \A s \in Stage : lock'[s].writer = {d \in Caller : pc'[d] \in {"drain", "writing"} /\ StageOf(d)' = s}
          \cup (IF s = "owner" /\ cleaner'.at \in {"drain", "sweep", "delete"} THEN {"cleaner"} ELSE {})
    <3> SUFFICES ASSUME NEW s \in Stage
                 PROVE  lock'[s].writer = {d \in Caller : pc'[d] \in {"drain", "writing"} /\ StageOf(d)' = s}
                          \cup (IF s = "owner" /\ cleaner'.at \in {"drain", "sweep", "delete"} THEN {"cleaner"} ELSE {})
      OBVIOUS
    <3>1. CASE s = StageOf(c)
      <4>1. /\ \A d \in Caller : pc[d] \in {"drain", "writing"} => StageOf(d) # s
            /\ ~(s = "owner" /\ cleaner.at \in {"drain", "sweep", "delete"})
        BY <1>1, <3>1, Holders
      <4> QED BY <1>1, <1>2, <1>4, <3>1, <4>1 DEF StageOf
    <3>2. CASE s # StageOf(c)
      <4>1. lock[s].writer = {d \in Caller : pc[d] \in {"drain", "writing"} /\ StageOf(d) = s}
              \cup (IF s = "owner" /\ cleaner.at \in {"drain", "sweep", "delete"} THEN {"cleaner"} ELSE {})
        BY DEF LockHolders
      <4> QED BY <1>1, <1>2, <1>4, <3>2, <4>1 DEF StageOf
    <3> QED BY <3>1, <3>2
  <2>3. \A s \in Stage : \A a, b \in lock'[s].writer : a = b
    BY <1>4 DEF LockHolders
  <2>4. \A s \in Stage : lock'[s].readers # {} =>
          /\ \A d \in Caller : pc'[d] = "writing" => StageOf(d)' # s
          /\ s = "owner" => cleaner'.at \notin {"sweep", "delete"}
    BY <1>1, <1>2, <1>4 DEF LockHolders, StageOf
  <2> QED BY <2>1, <2>2, <2>3, <2>4 DEF LockHolders
<1>7. OneRuns'
  BY <1>1, <1>2 DEF OneRuns, Running
<1>8. LookupHolds'
  BY <1>1, <1>2 DEF LookupHolds, StageOf, KeyOf, Valid
<1>9. DropsExpired'
  BY <1>1 DEF DropsExpired, Expired
<1> QED BY <1>5, <1>6, <1>7, <1>8, <1>9

\* The last reader has left.
LEMMA DrainStep == ASSUME IInv, NEW c \in Caller, Drain(c) PROVE IInv'
<1> USE DEF IInv
<1>1. /\ Move(c, "drain", "writing") /\ lock[StageOf(c)].readers = {}
      /\ UNCHANGED <<now, map, lock, ask, found, cleaner, process>>
  BY DEF Drain, Drained
<1>2. /\ pc[c] = "drain" /\ pc' \in [Caller -> Place]
      /\ pc'[c] = "writing" /\ \A d \in Caller \ {c} : pc'[d] = pc[d]
  BY <1>1, MoveFacts DEF Place
<1>3. TypeOK'
  BY <1>1, <1>2 DEF TypeOK
<1>4. LockHolders'
  <2>1. \A d \in Caller : /\ pc'[d] = "reading" <=> pc[d] = "reading"
                          /\ pc'[d] \in {"drain", "writing"} <=> pc[d] \in {"drain", "writing"}
                          /\ pc'[d] = "writing" => d = c \/ pc[d] = "writing"
    BY <1>2
  <2> QED BY <1>1, <2>1 DEF LockHolders, StageOf
<1>5. OneRuns'
  BY <1>1, <1>2 DEF OneRuns, Running
<1>6. LookupHolds'
  BY <1>1, <1>2 DEF LookupHolds, StageOf, KeyOf, Valid
<1>7. DropsExpired'
  BY <1>1 DEF DropsExpired, Expired
<1> QED BY <1>3, <1>4, <1>5, <1>6, <1>7

\* Saving the item.
LEMMA StoreStep == ASSUME IInv, NEW c \in Caller, Store(c) PROVE IInv'
<1> USE DEF IInv
<1>1. /\ Move(c, "writing", "return")
      /\ map' = [map EXCEPT ![StageOf(c)] = With(map[StageOf(c)], KeyOf(c), now + Duration)]
      /\ lock' = [lock EXCEPT ![StageOf(c)].writer = {}]
      /\ UNCHANGED <<now, ask, found, cleaner, process>>
  BY DEF Store
<1>2. /\ pc[c] = "writing" /\ pc' \in [Caller -> Place]
      /\ pc'[c] = "return" /\ \A d \in Caller \ {c} : pc'[d] = pc[d]
  BY <1>1, MoveFacts DEF Place
<1>3. StageOf(c) \in Stage /\ KeyOf(c) \in Key
  BY <1>2, AskFacts DEF LookupHolds
<1>4. /\ lock'[StageOf(c)].writer = {}
      /\ \A s \in Stage : lock'[s].readers = lock[s].readers
      /\ \A s \in Stage \ {StageOf(c)} : lock'[s].writer = lock[s].writer
      /\ lock' \in [Stage -> [writer : SUBSET (Caller \cup {"cleaner"}), readers : SUBSET Caller]]
  BY <1>1, <1>3 DEF TypeOK
<1>5. /\ DOMAIN map' = Stage
      /\ DOMAIN map'[StageOf(c)] = DOMAIN map[StageOf(c)] \cup {KeyOf(c)}
      /\ map'[StageOf(c)][KeyOf(c)] = now + Duration
      /\ \A k \in DOMAIN map[StageOf(c)] \ {KeyOf(c)} : map'[StageOf(c)][k] = map[StageOf(c)][k]
      /\ \A s \in Stage \ {StageOf(c)} : map'[s] = map[s]
  BY <1>1, <1>3 DEF TypeOK, With
<1>6. TypeOK'
  <2>1. now + Duration \in 1 .. now + Duration
    BY CacheAssumption DEF TypeOK
  <2>2. \A s \in Stage : /\ DOMAIN map'[s] \subseteq Key
                         /\ \A k \in DOMAIN map'[s] : map'[s][k] \in 1 .. now + Duration
    BY <1>3, <1>5, <2>1 DEF TypeOK
  <2> QED BY <1>1, <1>2, <1>4, <1>5, <2>2 DEF TypeOK
<1>7. lock[StageOf(c)].writer = {c} /\ lock[StageOf(c)].readers = {}
  BY <1>2, <1>3, Holders
<1>8. LockHolders'
  <2>1. \A s \in Stage : lock'[s].readers = {d \in Caller : pc'[d] = "reading" /\ StageOf(d)' = s}
    BY <1>1, <1>2, <1>4 DEF LockHolders, StageOf
  <2>2. \A s \in Stage : lock'[s].writer = {d \in Caller : pc'[d] \in {"drain", "writing"} /\ StageOf(d)' = s}
          \cup (IF s = "owner" /\ cleaner'.at \in {"drain", "sweep", "delete"} THEN {"cleaner"} ELSE {})
    <3> SUFFICES ASSUME NEW s \in Stage
                 PROVE  lock'[s].writer = {d \in Caller : pc'[d] \in {"drain", "writing"} /\ StageOf(d)' = s}
                          \cup (IF s = "owner" /\ cleaner'.at \in {"drain", "sweep", "delete"} THEN {"cleaner"} ELSE {})
      OBVIOUS
    <3>1. lock[s].writer = {d \in Caller : pc[d] \in {"drain", "writing"} /\ StageOf(d) = s}
            \cup (IF s = "owner" /\ cleaner.at \in {"drain", "sweep", "delete"} THEN {"cleaner"} ELSE {})
      BY DEF LockHolders
    <3>2. CASE s = StageOf(c)
      <4>1. \A d \in Caller : pc[d] \in {"drain", "writing"} /\ StageOf(d) = s => d = c
        BY <1>7, <3>1, <3>2
      <4>2. ~(s = "owner" /\ cleaner.at \in {"drain", "sweep", "delete"})
        BY <1>7, <3>1, <3>2, CacheAssumption
      <4> QED BY <1>1, <1>2, <1>4, <3>2, <4>1, <4>2 DEF StageOf
    <3>3. CASE s # StageOf(c)
      BY <1>1, <1>2, <1>4, <3>1, <3>3 DEF StageOf
    <3> QED BY <3>2, <3>3
  <2>3. \A s \in Stage : \A a, b \in lock'[s].writer : a = b
    BY <1>4 DEF LockHolders
  <2>4. \A s \in Stage : lock'[s].readers # {} =>
          /\ \A d \in Caller : pc'[d] = "writing" => StageOf(d)' # s
          /\ s = "owner" => cleaner'.at \notin {"sweep", "delete"}
    BY <1>1, <1>2, <1>4 DEF LockHolders, StageOf
  <2> QED BY <2>1, <2>2, <2>3, <2>4 DEF LockHolders
<1>9. OneRuns'
  BY <1>1, <1>2 DEF OneRuns, Running
<1>10. LookupHolds'
  <2>1. \A d \in Caller \ {c} : pc[d] \in {"check", "fetch", "lock", "drain", "writing"} =>
          ~(StageOf(d) = StageOf(c) /\ KeyOf(d) = KeyOf(c))
    <3> SUFFICES ASSUME NEW d \in Caller \ {c}, pc[d] \in {"check", "fetch", "lock", "drain", "writing"},
                        StageOf(d) = StageOf(c), KeyOf(d) = KeyOf(c)
                 PROVE  FALSE
      OBVIOUS
    <3>1. ask[d] = ask[c]
      BY <1>2, AskFacts DEF LookupHolds
    <3> QED BY <1>2, <3>1 DEF OneRuns, Running
  <2>2. \A d \in Caller \ {c} : pc[d] \in {"check", "fetch", "lock", "drain", "writing"} =>
          /\ StageOf(d) \in Stage
          /\ KeyOf(d) \in DOMAIN map'[StageOf(d)] =>
               /\ KeyOf(d) \in DOMAIN map[StageOf(d)]
               /\ map'[StageOf(d)][KeyOf(d)] = map[StageOf(d)][KeyOf(d)]
    BY <1>5, <2>1, AskFacts DEF LookupHolds
  <2> QED BY <1>1, <1>2, <2>2 DEF LookupHolds, StageOf, KeyOf, Valid
<1>11. DropsExpired'
  <2>1. StageOf(c) = "owner" => cleaner.at # "delete"
    BY <1>3, <1>7, Holders, CacheAssumption
  <2> QED BY <1>1, <1>3, <1>5, <2>1 DEF DropsExpired, Expired, Stage
<1> QED BY <1>6, <1>8, <1>9, <1>10, <1>11

\* Do returns to everybody in it.
LEMMA ReturnStep == ASSUME IInv, NEW c \in Caller, Return(c) PROVE IInv'
<1> USE DEF IInv
<1>1. /\ pc[c] = "return"
      /\ pc' = [d \in Caller |-> IF d \in Flight(ask[c]) THEN "idle" ELSE pc[d]]
      /\ ask' = [d \in Caller |-> IF d \in Flight(ask[c]) THEN Nothing ELSE ask[d]]
      /\ UNCHANGED <<now, map, lock, found, cleaner, process>>
  BY DEF Return
<1>2. \A d \in Caller : pc[d] \notin {"idle", "join", "return"} => d \notin Flight(ask[c])
  BY <1>1 DEF OneRuns, Running, Flight
<1>3. /\ pc' \in [Caller -> Place] /\ ask' \in [Caller -> Question \cup {Nothing}]
      /\ \A d \in Caller : pc'[d] = "idle" \/ (pc'[d] = pc[d] /\ ask'[d] = ask[d])
      /\ \A d \in Caller : pc[d] \notin {"idle", "join", "return"} => pc'[d] = pc[d] /\ ask'[d] = ask[d]
  BY <1>1, <1>2 DEF TypeOK, Place
<1>4. TypeOK'
  BY <1>1, <1>3 DEF TypeOK
<1>5. LockHolders'
  BY <1>1, <1>3, HoldersStay
<1>6. OneRuns'
  BY <1>3 DEF OneRuns, Running
<1>7. LookupHolds'
  BY <1>1, <1>3 DEF LookupHolds, StageOf, KeyOf, Valid
<1>8. DropsExpired'
  BY <1>1 DEF DropsExpired, Expired
<1> QED BY <1>4, <1>5, <1>6, <1>7, <1>8

-----------------------------------------------------------------------------
(* Steps of the cleanup task, of the runtime and of time.                    *)

\* What the callers' invariants need of a step that leaves callers alone.
LEMMA CallersStay ==
  ASSUME IInv, UNCHANGED <<now, pc, ask, found>>,
         \A s \in Stage : /\ DOMAIN map'[s] \subseteq DOMAIN map[s]
                          /\ \A k \in DOMAIN map'[s] : map'[s][k] = map[s][k]
  PROVE  OneRuns' /\ LookupHolds'
<1>1. OneRuns'
  BY DEF IInv, OneRuns, Running
<1>2. \A c \in Caller : pc[c] # "idle" => StageOf(c) \in Stage
  BY AskFacts DEF IInv, LookupHolds
<1>3. LookupHolds'
  BY <1>2 DEF IInv, LookupHolds, StageOf, KeyOf, Valid
<1> QED BY <1>1, <1>3

\* Waking up, and closing.
LEMMA WakeStep == ASSUME IInv, Wake \/ Close PROVE IInv'
<1> USE DEF IInv
<1>1. /\ cleaner.at = "asleep" /\ cleaner'.at \in {"lock", "ended"}
      /\ UNCHANGED <<now, map, lock, pc, ask, found, process>>
  BY DEF Wake, Close, Cleaning, Asleep
<1>2. cleaner'.time <= now /\ cleaner' \in
        [at : {"asleep", "lock", "drain", "sweep", "delete", "ended"}, stage : Stage,
         todo : SUBSET Key, key : SUBSET Key, time : 0 .. MaxTime]
  <2>1. now \in 0 .. MaxTime /\ 0 \in 0 .. MaxTime /\ 0 <= now /\ now <= now
    BY CacheAssumption DEF TypeOK
  <2>2. CASE Wake
    BY <2>1, <2>2 DEF Wake, Cleaning, Asleep, Stage
  <2>3. CASE Close
    BY <2>1, <2>3 DEF Close, Cleaning, Asleep, Stage
  <2> QED BY <2>2, <2>3
<1>3. TypeOK'
  BY <1>1, <1>2 DEF TypeOK
<1>4. LockHolders'
  BY <1>1 DEF LockHolders, StageOf
<1>5. OneRuns' /\ LookupHolds'
  BY <1>1, CallersStay
<1>6. DropsExpired'
  BY <1>1, <1>2 DEF DropsExpired, Expired
<1> QED BY <1>3, <1>4, <1>5, <1>6

\* Asking for the owners' lock.
LEMMA LockMapStep == ASSUME IInv, LockMap PROVE IInv'
<1> USE DEF IInv
<1>1. /\ cleaner.at = "lock" /\ lock["owner"].writer = {}
      /\ cleaner' = [cleaner EXCEPT !.at = "drain"]
      /\ lock' = [lock EXCEPT !["owner"].writer = {"cleaner"}]
      /\ UNCHANGED <<now, map, pc, ask, found, process>>
  BY DEF LockMap, Cleaning, CleanupLock
<1>2. /\ cleaner'.at = "drain" /\ cleaner'.time = cleaner.time
      /\ cleaner' \in [at : {"asleep", "lock", "drain", "sweep", "delete", "ended"}, stage : Stage,
                       todo : SUBSET Key, key : SUBSET Key, time : 0 .. MaxTime]
  BY <1>1 DEF TypeOK
<1>3. "owner" \in Stage
  BY DEF Stage
<1>4. /\ lock'["owner"].writer = {"cleaner"}
      /\ \A s \in Stage : lock'[s].readers = lock[s].readers
      /\ \A s \in Stage \ {"owner"} : lock'[s].writer = lock[s].writer
      /\ lock' \in [Stage -> [writer : SUBSET (Caller \cup {"cleaner"}), readers : SUBSET Caller]]
  BY <1>1, <1>3 DEF TypeOK
<1>5. TypeOK'
  BY <1>1, <1>2, <1>4 DEF TypeOK
<1>6. LockHolders'
  <2>1. {c \in Caller : pc[c] \in {"drain", "writing"} /\ StageOf(c) = "owner"} = {}
    BY <1>1, <1>3, Holders
  <2> QED BY <1>1, <1>2, <1>3, <1>4, <2>1 DEF LockHolders, StageOf
<1>7. OneRuns' /\ LookupHolds'
  BY <1>1, CallersStay
<1>8. DropsExpired'
  BY <1>1, <1>2 DEF DropsExpired
<1> QED BY <1>5, <1>6, <1>7, <1>8

\* The last reader of owners has left.
LEMMA DrainMapStep == ASSUME IInv, DrainMap PROVE IInv'
<1> USE DEF IInv
<1>1. /\ cleaner.at = "drain" /\ lock["owner"].readers = {}
      /\ cleaner' = [cleaner EXCEPT !.at = "sweep", !.todo = DOMAIN map[cleaner.stage]]
      /\ UNCHANGED <<now, map, lock, pc, ask, found, process>>
  BY DEF DrainMap, Cleaning, CleanupLock, Drained
<1>2. /\ cleaner'.at = "sweep" /\ cleaner'.time = cleaner.time
      /\ cleaner' \in [at : {"asleep", "lock", "drain", "sweep", "delete", "ended"}, stage : Stage,
                       todo : SUBSET Key, key : SUBSET Key, time : 0 .. MaxTime]
  BY <1>1 DEF TypeOK
<1>3. TypeOK'
  BY <1>1, <1>2 DEF TypeOK
<1>4. LockHolders'
  BY <1>1, <1>2 DEF LockHolders, StageOf
<1>5. OneRuns' /\ LookupHolds'
  BY <1>1, CallersStay
<1>6. DropsExpired'
  BY <1>1, <1>2 DEF DropsExpired
<1> QED BY <1>3, <1>4, <1>5, <1>6

\* Looking at the next key.
LEMMA VisitStep == ASSUME IInv, Visit PROVE IInv'
<1> USE DEF IInv
<1>1. PICK k \in cleaner.todo, drop \in BOOLEAN :
        /\ drop => k \in DOMAIN map[cleaner.stage] /\ Expired(map[cleaner.stage][k])
        /\ Cleaning("sweep", [cleaner EXCEPT !.todo = cleaner.todo \ {k},
                                !.at = IF drop THEN "delete" ELSE "sweep",
                                !.key = IF drop THEN {k} ELSE {}])
        /\ UNCHANGED <<now, map, lock, pc, ask, found, process>>
  BY DEF Visit
<1>2. /\ cleaner.at = "sweep" /\ cleaner'.at \in {"sweep", "delete"}
      /\ cleaner'.stage = cleaner.stage /\ cleaner'.time = cleaner.time
      /\ cleaner'.at = "delete" => drop /\ cleaner'.key = {k}
      /\ cleaner' \in [at : {"asleep", "lock", "drain", "sweep", "delete", "ended"}, stage : Stage,
                       todo : SUBSET Key, key : SUBSET Key, time : 0 .. MaxTime]
  BY <1>1 DEF Cleaning, TypeOK
<1>3. TypeOK'
  BY <1>1, <1>2 DEF TypeOK
<1>4. LockHolders'
  BY <1>1, <1>2 DEF LockHolders, StageOf
<1>5. OneRuns' /\ LookupHolds'
  BY <1>1, CallersStay
<1>6. DropsExpired'
  BY <1>1, <1>2 DEF DropsExpired, Expired
<1> QED BY <1>3, <1>4, <1>5, <1>6

\* Deleting the key.
LEMMA DeleteStep == ASSUME IInv, Delete PROVE IInv'
<1> USE DEF IInv
<1>1. PICK k \in cleaner.key :
        map' = [map EXCEPT ![cleaner.stage] = Without(map[cleaner.stage], k)]
  BY DEF Delete
<1>2. /\ cleaner.at = "delete" /\ cleaner'.at = "sweep" /\ cleaner'.time = cleaner.time
      /\ UNCHANGED <<now, lock, pc, ask, found, process>>
      /\ cleaner' \in [at : {"asleep", "lock", "drain", "sweep", "delete", "ended"}, stage : Stage,
                       todo : SUBSET Key, key : SUBSET Key, time : 0 .. MaxTime]
  BY DEF Delete, Cleaning, TypeOK
<1>3. /\ DOMAIN map' = Stage
      /\ \A s \in Stage : /\ DOMAIN map'[s] \subseteq DOMAIN map[s]
                          /\ \A x \in DOMAIN map'[s] : map'[s][x] = map[s][x]
  BY <1>1 DEF TypeOK, Without
<1>4. TypeOK'
  BY <1>2, <1>3 DEF TypeOK
<1>5. LockHolders'
  BY <1>2 DEF LockHolders, StageOf
<1>6. OneRuns' /\ LookupHolds'
  BY <1>2, <1>3, CallersStay
<1>7. DropsExpired'
  BY <1>2 DEF DropsExpired
<1> QED BY <1>4, <1>5, <1>6, <1>7

\* Giving the owners' lock back.
LEMMA UnlockMapStep == ASSUME IInv, UnlockMap PROVE IInv'
<1> USE DEF IInv
<1>1. /\ cleaner.at = "sweep"
      /\ cleaner' = IF cleaner.stage = "centroids" THEN Asleep
                    ELSE [cleaner EXCEPT !.at = "lock", !.stage = Following(cleaner.stage)]
      /\ lock' = [lock EXCEPT !["owner"].writer = {}]
      /\ UNCHANGED <<now, map, pc, ask, found, process>>
  BY DEF UnlockMap, Cleaning, CleanupLock
<1>2. /\ cleaner'.at \in {"asleep", "lock"}
      /\ cleaner'.at = "lock" => cleaner'.time = cleaner.time
      /\ cleaner' \in [at : {"asleep", "lock", "drain", "sweep", "delete", "ended"}, stage : Stage,
                       todo : SUBSET Key, key : SUBSET Key, time : 0 .. MaxTime]
  <2>1. CASE cleaner.stage = "centroids"
    BY <1>1, <2>1, CacheAssumption DEF Asleep, Stage
  <2>2. CASE cleaner.stage # "centroids"
    <3>1. Following(cleaner.stage) \in Stage
      BY <2>2 DEF Following, Stage, TypeOK
    <3> QED BY <1>1, <2>2, <3>1 DEF TypeOK
  <2> QED BY <2>1, <2>2
<1>3. "owner" \in Stage
  BY DEF Stage
<1>4. /\ lock'["owner"].writer = {}
      /\ \A s \in Stage : lock'[s].readers = lock[s].readers
      /\ \A s \in Stage \ {"owner"} : lock'[s].writer = lock[s].writer
      /\ lock' \in [Stage -> [writer : SUBSET (Caller \cup {"cleaner"}), readers : SUBSET Caller]]
  BY <1>1, <1>3 DEF TypeOK
<1>5. TypeOK'
  BY <1>1, <1>2, <1>4 DEF TypeOK
<1>6. LockHolders'
  <2>1. lock["owner"].writer = {"cleaner"}
    BY <1>1, <1>3, Holders
  <2>2. {c \in Caller : pc[c] \in {"drain", "writing"} /\ StageOf(c) = "owner"} = {}
    BY <1>3, <2>1, Holders, CacheAssumption
  <2> QED BY <1>1, <1>2, <1>3, <1>4, <2>2 DEF LockHolders, StageOf
<1>7. OneRuns' /\ LookupHolds'
  BY <1>1, CallersStay
<1>8. DropsExpired'
  BY <1>1, <1>2 DEF DropsExpired
<1> QED BY <1>5, <1>6, <1>7, <1>8

\* The clock, the runtime, and nothing at all.
LEMMA OtherStep == ASSUME IInv, Fatal \/ Tick \/ Dead \/ UNCHANGED vars PROVE IInv'
<1> USE DEF IInv
<1>1. /\ UNCHANGED <<map, lock, pc, ask, found, cleaner>>
      /\ now' \in 1 .. MaxTime /\ now <= now' /\ process' \in {"up", "fatal"}
  BY CacheAssumption DEF Fatal, Tick, Dead, vars, TypeOK
<1>2. now \in Nat /\ \A e \in 1 .. now + Duration : e \in 1 .. now' + Duration
  BY <1>1, CacheAssumption DEF TypeOK
<1>3. TypeOK'
  BY <1>1, <1>2 DEF TypeOK
<1>4. LockHolders'
  BY <1>1 DEF LockHolders, StageOf
<1>5. OneRuns'
  BY <1>1 DEF OneRuns, Running
<1>6. LookupHolds'
  <2>1. \A c \in Caller : pc[c] # "idle" /\ KeyOf(c) \in DOMAIN map[StageOf(c)] =>
          map[StageOf(c)][KeyOf(c)] \in Int
    BY AskFacts DEF LookupHolds, TypeOK
  <2> QED BY <1>1, <1>2, <2>1 DEF LookupHolds, StageOf, KeyOf, Valid
<1>7. DropsExpired'
  BY <1>1, <1>2 DEF DropsExpired, Expired, TypeOK
<1> QED BY <1>3, <1>4, <1>5, <1>6, <1>7

-----------------------------------------------------------------------------
(* The theorems.                                                             *)

\* The invariant holds at first.
LEMMA InitHolds == Init => IInv
<1> SUFFICES ASSUME Init PROVE IInv
  OBVIOUS
<1>1. TypeOK
  <2>1. /\ Asleep \in [at : {"asleep", "lock", "drain", "sweep", "delete", "ended"}, stage : Stage,
                       todo : SUBSET Key, key : SUBSET Key, time : 0 .. MaxTime]
        /\ 1 \in 1 .. MaxTime /\ 0 \in 0 .. MaxTime + Duration
    BY CacheAssumption DEF Asleep, Stage
  <2> QED BY <2>1 DEF Init, TypeOK, Place, Free
<1>2. LockHolders
  BY DEF Init, LockHolders, Free, Asleep
<1>3. OneRuns /\ LookupHolds /\ DropsExpired
  BY DEF Init, OneRuns, Running, LookupHolds, DropsExpired, Asleep
<1> QED BY <1>1, <1>2, <1>3 DEF IInv

\* Every step keeps the invariant.
LEMMA StepHolds == IInv /\ [Next]_vars => IInv'
<1> SUFFICES ASSUME IInv, [Next]_vars PROVE IInv'
  OBVIOUS
<1>1. ASSUME NEW c \in Caller, Ask(c) \/ Locking(c) \/ Going(c) PROVE IInv'
  BY <1>1, AskStep, RLockStep, LockStep, LookStep, CheckStep, FetchedStep, DrainStep, StoreStep, ReturnStep
     DEF Locking, Going
<1>2. ASSUME Wake \/ LockMap \/ Sweeping \/ Close PROVE IInv'
  BY <1>2, WakeStep, LockMapStep, DrainMapStep, VisitStep, DeleteStep, UnlockMapStep DEF Sweeping
<1> QED BY <1>1, <1>2, OtherStep DEF Next

\* The inductive invariant holds in every behaviour.
THEOREM Invariant == Spec => []IInv
  BY InitHolds, StepHolds, PTL DEF Spec

\* The state has its types; expirations lie at most Duration ahead.
THEOREM TypeInv == Spec => []TypeOK
<1>1. IInv => TypeOK
  BY DEF IInv
<1> QED BY <1>1, Invariant, PTL

\* Nobody reads or writes the map of owners while somebody else writes to it.
THEOREM OwnerGuardedHolds == Spec => []OwnerGuarded
<1>1. ASSUME IInv PROVE OwnerGuarded
  <2>0. TypeOK /\ LockHolders
    BY <1>1 DEF IInv
  <2> SUFFICES ASSUME NEW w \in Writers("owner") PROVE Accessing("owner") = {w}
    BY DEF OwnerGuarded, Overlap
  <2>1. "owner" \in Stage
    BY DEF Stage
  <2>2. w \in lock["owner"].writer /\ lock["owner"].readers = {} /\ w \in Accessing("owner")
    BY <2>0, <2>1, Holders DEF Writers, Accessing, Busy
  <2>3. lock["owner"].writer = {w}
    BY <2>0, <2>1, <2>2, Holders
  <2>4. \A a \in Accessing("owner") : a \in lock["owner"].writer \cup lock["owner"].readers
    BY <2>0, <2>1, Holders DEF Accessing, Busy
  <2> QED BY <2>2, <2>3, <2>4
<1> QED BY <1>1, Invariant, PTL

\* Handlers among themselves never overlap on any map.
THEOREM HandlersGuardedHolds == Spec => []HandlersGuarded
<1>1. ASSUME IInv PROVE HandlersGuarded
  <2>0. TypeOK /\ LockHolders
    BY <1>1 DEF IInv
  <2> SUFFICES ASSUME NEW s \in Stage, "cleaner" \notin Accessing(s),
                      NEW w \in Writers(s)
               PROVE  Accessing(s) = {w}
    BY DEF HandlersGuarded, Overlap
  <2>1. Accessing(s) = {c \in Caller : pc[c] \in {"reading", "writing"} /\ StageOf(c) = s}
    BY DEF Accessing
  <2>2. w \in Accessing(s) /\ pc[w] = "writing"
    BY CacheAssumption DEF Writers, Accessing, Busy
  <2>3. w \in Caller /\ w \in lock[s].writer /\ lock[s].readers = {}
    BY <2>0, <2>1, <2>2, Holders
  <2>4. lock[s].writer = {w}
    BY <2>0, <2>3, Holders
  <2>5. \A c \in Accessing(s) : c \in lock[s].writer \cup lock[s].readers
    BY <2>0, <2>1, Holders
  <2> QED BY <2>2, <2>3, <2>4, <2>5
<1> QED BY <1>1, Invariant, PTL

\* The cleanup task deletes no owner that has not expired.
THEOREM FreshOwnersStayHolds == Spec => FreshOwnersStay
<1>1. ASSUME IInv, [Next]_vars
      PROVE  [\A k \in DOMAIN map["owner"] :
                map["owner"][k] >= now => k \in DOMAIN map'["owner"]]_vars
  <2> USE DEF IInv
  <2>0. "owner" \in Stage
    BY DEF Stage
  <2> SUFFICES ASSUME Next, NEW k \in DOMAIN map["owner"], map["owner"][k] >= now
               PROVE  k \in DOMAIN map'["owner"]
    BY <1>1
  <2>1. ASSUME NEW c \in Caller, Store(c) PROVE k \in DOMAIN map'["owner"]
    BY <1>1, <2>0, <2>1 DEF Store, With, TypeOK
  <2>2. ASSUME Delete PROVE k \in DOMAIN map'["owner"]
    <3>1. PICK x \in cleaner.key :
            map' = [map EXCEPT ![cleaner.stage] = Without(map[cleaner.stage], x)]
      BY <2>2 DEF Delete
    <3>2. CASE cleaner.stage = "owner"
      <4>1. cleaner.at = "delete" /\ cleaner.time <= now
        BY <1>1, <2>2 DEF Delete, Cleaning, DropsExpired
      <4>2. map["owner"][k] \in Int /\ cleaner.time \in Int /\ now \in Int
        BY <1>1, <2>0 DEF TypeOK
      <4>3. x # k
        BY <1>1, <3>2, <4>1, <4>2 DEF DropsExpired, Expired
      <4> QED BY <1>1, <2>0, <3>1, <3>2, <4>3 DEF TypeOK, Without
    <3>3. CASE cleaner.stage # "owner"
      BY <1>1, <2>0, <3>1, <3>3 DEF TypeOK
    <3> QED BY <3>2, <3>3
  <2>3. ASSUME UNCHANGED map PROVE k \in DOMAIN map'["owner"]
    BY <2>3
  <2>4. Next => Delete \/ UNCHANGED map \/ \E c \in Caller : Store(c)
    BY DEF Next, Ask, Locking, RLock, Lock, Going, Look, Check, Fetched, Failed, Drain, Return,
           Wake, LockMap, Sweeping, DrainMap, Visit, UnlockMap, Close, Fatal, Tick, Dead, vars
  <2> QED BY <2>1, <2>2, <2>3, <2>4
<1> QED BY <1>1, Invariant, PTL DEF Spec, FreshOwnersStay

-----------------------------------------------------------------------------
(* The cache implements Memo.                                                *)

\* The caller that asks for a question is the only one that does.
LEMMA AskedByOne ==
  ASSUME OneRuns, NEW c \in Caller, Running(c), NEW d \in Caller \ {c},
         pc[d] \in {"fetch", "lock", "drain", "writing"}
  PROVE  ask[d] # ask[c]
  BY DEF OneRuns, Running

\* A step of one caller that leaves what everybody asks for alone.
LEMMA AskedAfter ==
  ASSUME OneRuns, NEW c \in Caller, Running(c), UNCHANGED ask,
         \A d \in Caller \ {c} : pc'[d] = pc[d]
  PROVE  BeingAsked' = IF pc'[c] \in {"fetch", "lock", "drain", "writing"}
                       THEN BeingAsked \cup {ask[c]} ELSE BeingAsked \ {ask[c]}
<1>1. \A d \in Caller \ {c} : pc[d] \in {"fetch", "lock", "drain", "writing"} => ask[d] # ask[c]
  BY AskedByOne
<1>2. CASE pc'[c] \in {"fetch", "lock", "drain", "writing"}
  BY <1>2 DEF BeingAsked
<1>3. CASE pc'[c] \notin {"fetch", "lock", "drain", "writing"}
  BY <1>1, <1>3 DEF BeingAsked
<1> QED BY <1>2, <1>3

\* What is at hand can only be forgotten while nothing is stored.
LEMMA HandAfter ==
  ASSUME TypeOK, TypeOK', now <= now',
         \A s \in Stage : /\ DOMAIN map'[s] \subseteq DOMAIN map[s]
                          /\ \A k \in DOMAIN map'[s] : map'[s][k] = map[s][k]
  PROVE  AtHand' \subseteq AtHand
<1> SUFFICES ASSUME NEW q \in Question, q[2] \in DOMAIN map'[q[1]], map'[q[1]][q[2]] > now'
             PROVE  q[2] \in DOMAIN map[q[1]] /\ map[q[1]][q[2]] > now
  BY DEF AtHand, Valid
<1>1. q[1] \in Stage
  BY CacheAssumption
<1>2. map'[q[1]][q[2]] \in Int /\ now \in Int /\ now' \in Int
  BY <1>1 DEF TypeOK
<1> QED BY <1>1, <1>2

\* A caller that decides to fetch.
LEMMA CheckRefines ==
  ASSUME IInv, NEW c \in Caller, Check(c) PROVE [Memoizes!Next]_Memoizes!vars
<1> USE DEF IInv
<1>1. PICK b \in {"return", "fetch"} :
        Move(c, "check", b) /\ (b = "fetch" => ~Valid(found[c]))
  BY DEF Check
<1>2. /\ pc[c] = "check" /\ pc'[c] = b /\ \A d \in Caller \ {c} : pc'[d] = pc[d]
      /\ UNCHANGED <<now, map, ask>>
  BY <1>1, MoveFacts DEF Check, Place
<1>3. ask[c] \in Question /\ Running(c)
  BY <1>2 DEF LookupHolds, Running
<1>4. UNCHANGED AtHand
  BY <1>2 DEF AtHand, Valid
<1>5. ask[c] \notin BeingAsked
  BY <1>2, <1>3, AskedByOne DEF BeingAsked
<1>6. BeingAsked' = IF b = "fetch" THEN BeingAsked \cup {ask[c]} ELSE BeingAsked \ {ask[c]}
  BY <1>2, <1>3, AskedAfter
<1>7. CASE b = "return"
  BY <1>4, <1>5, <1>6, <1>7 DEF Memoizes!vars
<1>8. CASE b = "fetch"
  <2>1. ask[c] \notin AtHand
    BY <1>1, <1>2, <1>8 DEF AtHand, LookupHolds, StageOf, KeyOf, Valid
  <2>2. Memoizes!Fetch
    BY <1>3, <1>4, <1>5, <1>6, <1>8, <2>1 DEF Memoizes!Fetch
  <2> QED BY <2>2 DEF Memoizes!Next
<1> QED BY <1>1, <1>7, <1>8

\* A fetch that fails.
LEMMA FailedRefines ==
  ASSUME IInv, NEW c \in Caller, Failed(c) PROVE Memoizes!Next
<1> USE DEF IInv
<1>1. /\ pc[c] = "fetch" /\ pc'[c] = "return" /\ \A d \in Caller \ {c} : pc'[d] = pc[d]
      /\ UNCHANGED <<now, map, ask>>
  BY MoveFacts DEF Failed, Place
<1>2. UNCHANGED AtHand
  BY <1>1 DEF AtHand, Valid
<1>3. ask[c] \in BeingAsked /\ BeingAsked' = BeingAsked \ {ask[c]}
  <2>1. Running(c)
    BY <1>1 DEF Running
  <2>2. BeingAsked' = BeingAsked \ {ask[c]}
    BY <1>1, <2>1, AskedAfter
  <2> QED BY <1>1, <2>2 DEF BeingAsked
<1> QED BY <1>2, <1>3 DEF Memoizes!Next, Memoizes!Fail

\* An item that is stored.
LEMMA StoreRefines ==
  ASSUME IInv, NEW c \in Caller, Store(c) PROVE Memoizes!Next
<1> USE DEF IInv
<1>1. /\ pc[c] = "writing" /\ pc'[c] = "return" /\ \A d \in Caller \ {c} : pc'[d] = pc[d]
      /\ UNCHANGED <<now, ask>>
      /\ map' = [map EXCEPT ![StageOf(c)] = With(map[StageOf(c)], KeyOf(c), now + Duration)]
  BY MoveFacts DEF Store, Place
<1>2. StageOf(c) \in Stage /\ KeyOf(c) \in Key /\ ask[c] \in Question /\ ask[c] = <<StageOf(c), KeyOf(c)>>
  BY <1>1, AskFacts DEF LookupHolds
<1>3. ask[c] \in BeingAsked /\ BeingAsked' = BeingAsked \ {ask[c]}
  <2>1. Running(c)
    BY <1>1 DEF Running
  <2>2. BeingAsked' = BeingAsked \ {ask[c]}
    BY <1>1, <2>1, AskedAfter
  <2> QED BY <1>1, <2>2 DEF BeingAsked
<1>4. AtHand' = AtHand \cup {ask[c]}
  <2>1. /\ DOMAIN map'[StageOf(c)] = DOMAIN map[StageOf(c)] \cup {KeyOf(c)}
        /\ map'[StageOf(c)][KeyOf(c)] = now + Duration
        /\ \A k \in DOMAIN map[StageOf(c)] \ {KeyOf(c)} : map'[StageOf(c)][k] = map[StageOf(c)][k]
        /\ \A s \in Stage \ {StageOf(c)} : map'[s] = map[s]
    BY <1>1, <1>2 DEF TypeOK, With
  <2>2. now + Duration > now
    BY CacheAssumption DEF TypeOK
  <2>3. \A q \in Question \ {ask[c]} :
          /\ q[2] \in DOMAIN map'[q[1]] <=> q[2] \in DOMAIN map[q[1]]
          /\ q[2] \in DOMAIN map[q[1]] => map'[q[1]][q[2]] = map[q[1]][q[2]]
    <3> SUFFICES ASSUME NEW q \in Question \ {ask[c]}
                 PROVE  /\ q[2] \in DOMAIN map'[q[1]] <=> q[2] \in DOMAIN map[q[1]]
                        /\ q[2] \in DOMAIN map[q[1]] => map'[q[1]][q[2]] = map[q[1]][q[2]]
      OBVIOUS
    <3>1. q = <<q[1], q[2]>> /\ q[1] \in Stage
      BY CacheAssumption
    <3>2. q[1] # StageOf(c) \/ q[2] # KeyOf(c)
      BY <1>2, <3>1
    <3> QED BY <2>1, <3>1, <3>2
  <2>4. ask[c] \in AtHand'
    BY <1>1, <1>2, <2>1, <2>2 DEF AtHand, Valid
  <2>5. \A q \in Question \ {ask[c]} : q \in AtHand' <=> q \in AtHand
    BY <1>1, <2>3 DEF AtHand, Valid
  <2> QED BY <1>2, <2>4, <2>5 DEF AtHand
<1> QED BY <1>3, <1>4 DEF Memoizes!Next, Memoizes!Fill

\* Any other step of a caller shows nothing.
LEMMA CallerStutters ==
  ASSUME IInv, NEW c \in Caller,
         Ask(c) \/ Locking(c) \/ Look(c) \/ Fetched(c) \/ Drain(c) \/ Return(c)
  PROVE  UNCHANGED Memoizes!vars
<1> USE DEF IInv
<1>1. UNCHANGED <<now, map>>
  BY DEF Ask, Locking, RLock, Lock, Look, Fetched, Drain, Return
<1>2. UNCHANGED AtHand
  BY <1>1 DEF AtHand, Valid
<1>3. \A d \in Caller : /\ pc[d] \in {"fetch", "lock", "drain", "writing"} <=> pc'[d] \in {"fetch", "lock", "drain", "writing"}
                        /\ pc[d] \in {"fetch", "lock", "drain", "writing"} => ask'[d] = ask[d]
  <2>1. CASE Ask(c)
    BY <2>1 DEF Ask, Move, TypeOK
  <2>2. CASE Locking(c) \/ Look(c) \/ Fetched(c) \/ Drain(c)
    BY <2>2 DEF Locking, RLock, Lock, Look, Fetched, Drain, Move, TypeOK
  <2>3. CASE Return(c)
    BY <2>3 DEF Return, Flight, OneRuns, Running
  <2> QED BY <2>1, <2>2, <2>3
<1>4. UNCHANGED BeingAsked
  BY <1>3 DEF BeingAsked
<1> QED BY <1>2, <1>4 DEF Memoizes!vars

\* The clock and the cleanup task at most make the cache forget.
LEMMA OthersForget ==
  ASSUME IInv, IInv',
         Wake \/ LockMap \/ Sweeping \/ Close \/ Fatal \/ Tick \/ Dead \/ UNCHANGED vars
  PROVE  [Memoizes!Next]_Memoizes!vars
<1> USE DEF IInv
<1>1. UNCHANGED <<pc, ask>> /\ now <= now'
  <2>1. UNCHANGED <<pc, ask>> /\ now' \in {now, now + 1}
    BY DEF Wake, LockMap, Sweeping, DrainMap, Visit, Delete, UnlockMap, Close, Fatal, Tick, Dead, vars
  <2> QED BY <2>1 DEF TypeOK
<1>2. UNCHANGED BeingAsked
  BY <1>1 DEF BeingAsked
<1>3. \A s \in Stage : /\ DOMAIN map'[s] \subseteq DOMAIN map[s]
                       /\ \A k \in DOMAIN map'[s] : map'[s][k] = map[s][k]
  <2>1. CASE Delete
    BY <2>1 DEF Delete, Without, TypeOK
  <2>2. CASE UNCHANGED map
    BY <2>2
  <2>3. ~Delete => UNCHANGED map
    BY DEF Wake, LockMap, Sweeping, DrainMap, Visit, UnlockMap, Close, Fatal, Tick, Dead, vars
  <2> QED BY <2>1, <2>2, <2>3
<1>4. AtHand' \subseteq AtHand
  BY <1>1, <1>3, HandAfter
<1> QED BY <1>2, <1>4 DEF Memoizes!Next, Memoizes!Forget

\* Every behaviour of the cache is one of Memo.
THEOREM Refinement == Spec => ImplementsMemo
<1>1. Init => Memoizes!Init
  <2> SUFFICES ASSUME Init PROVE AtHand = {} /\ BeingAsked = {}
    BY DEF Memoizes!Init
  <2>1. \A q \in Question : q[2] \notin DOMAIN map[q[1]]
    BY CacheAssumption DEF Init
  <2> QED BY <2>1 DEF Init, AtHand, BeingAsked
<1>2. IInv /\ IInv' /\ [Next]_vars => [Memoizes!Next]_Memoizes!vars
  <2> SUFFICES ASSUME IInv, IInv', [Next]_vars PROVE [Memoizes!Next]_Memoizes!vars
    OBVIOUS
  <2>1. ASSUME NEW c \in Caller, Ask(c) \/ Locking(c) \/ Going(c)
        PROVE  [Memoizes!Next]_Memoizes!vars
    BY <2>1, CheckRefines, FailedRefines, StoreRefines, CallerStutters DEF Going
  <2> QED BY <2>1, OthersForget DEF Next
<1> QED BY <1>1, <1>2, Invariant, PTL DEF Spec, ImplementsMemo, Memoizes!Spec
=============================================================================
