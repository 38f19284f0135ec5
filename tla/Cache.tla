-------------------------------- MODULE Cache --------------------------------
(***************************************************************************)
(* The cache of one process: FetchOwner, FetchCategory and FetchCentroids of *)
(* cache/middleware.go beside cleanupTask of cache/cache.go, at the grain of  *)
(* the accesses to the three maps and of the locks around them.               *)
(*                                                                         *)
(* An access to a map takes from one step to the next, so that two of them    *)
(* can overlap.  singleflight is modelled by what it does: callers with the   *)
(* same key wait for the one that runs the closure and get what it got.  So   *)
(* is sync.RWMutex: a writer first shuts other writers and new readers out,   *)
(* then waits for the readers inside to leave.                               *)
(***************************************************************************)
EXTENDS Integers

Stage == {"owner", "category", "centroids"}

CONSTANTS
  Caller,    \* goroutines of handlers
  Key,       \* keys of the maps
  Question,  \* what the handlers may ask for: a map and a key
  Asks,      \* those of them each caller may ask
  Duration,  \* CACHE_DURATION in ticks
  MaxTime    \* bound: the clock stops here

ASSUME CacheAssumption ==
  /\ Question \subseteq Stage \X Key
  /\ Asks \in [Caller -> SUBSET Question]
  /\ Duration \in Nat \ {0} /\ MaxTime \in Nat \ {0}
  /\ "cleaner" \notin Caller

VARIABLES
  now,      \* time.Now()
  map,      \* the three maps, each from keys to the expiration of their item
  lock,     \* the three read-write locks: the writer inside or next, the readers inside
  pc,       \* where each caller is
  ask,      \* the map and key it asks for
  found,    \* expiration of the item it has looked up, 0 if there was none
  cleaner,  \* the cleanup task: where, on which map, at which key, its own now
  process   \* up, or stopped by the runtime

vars == <<now, map, lock, pc, ask, found, cleaner, process>>

Nothing == <<>>
Free == [writer |-> {}, readers |-> {}]
Asleep == [at |-> "asleep", stage |-> "owner", todo |-> {}, key |-> {}, time |-> 0]

Init ==
  /\ now = 1
  /\ map = [s \in Stage |-> [k \in {} |-> 0]]
  /\ lock = [s \in Stage |-> Free]
  /\ pc = [c \in Caller |-> "idle"]
  /\ ask = [c \in Caller |-> Nothing]
  /\ found = [c \in Caller |-> 0]
  /\ cleaner = Asleep
  /\ process = "up"

StageOf(c) == ask[c][1]
KeyOf(c) == ask[c][2]

-----------------------------------------------------------------------------
(* A caller's way through the closure it hands to singleflight.Do.            *)

\* Those inside Do for a question.
Flight(question) == {c \in Caller : ask[c] = question /\ pc[c] # "idle"}

Move(c, a, b) == process = "up" /\ pc[c] = a /\ pc' = [pc EXCEPT ![c] = b]

Ask(c) ==
  \E question \in Asks[c] :
    /\ Move(c, "idle", IF Flight(question) = {} THEN "rlock" ELSE "join")
    /\ ask' = [ask EXCEPT ![c] = question]
    /\ UNCHANGED <<now, map, lock, found, cleaner, process>>

RLock(c) ==
  /\ Move(c, "rlock", "reading")
  /\ lock[StageOf(c)].writer = {}
  /\ lock' = [lock EXCEPT ![StageOf(c)].readers = @ \cup {c}]
  /\ UNCHANGED <<now, map, ask, found, cleaner, process>>

\* (mutant) the read lock is not given back
NotUnlocked(l, c) == l

RUnlocked(l, c) == [l EXCEPT !.readers = @ \ {c}]

\* The lookup is over.
Look(c) ==
  LET items == map[StageOf(c)]
  IN  /\ Move(c, "reading", "check")
      /\ found' = [found EXCEPT ![c] = IF KeyOf(c) \in DOMAIN items THEN items[KeyOf(c)] ELSE 0]
      /\ lock' = [lock EXCEPT ![StageOf(c)] = RUnlocked(@, c)]
      /\ UNCHANGED <<now, map, ask, cleaner, process>>

\* (mutant) an item is valid when it has expired
ValidBackwards(expiration) == expiration > 0 /\ expiration < now

Valid(expiration) == expiration > now

\* The item is good enough, or the closure calls fetch().
Check(c) ==
  /\ Move(c, "check", IF Valid(found[c]) THEN "return" ELSE "fetch")
  /\ found' = [found EXCEPT ![c] = 0]
  /\ UNCHANGED <<now, map, lock, ask, cleaner, process>>

Fetched(c) ==
  /\ Move(c, "fetch", "lock")
  /\ UNCHANGED <<now, map, lock, ask, found, cleaner, process>>

Failed(c) ==
  /\ Move(c, "fetch", "return")
  /\ UNCHANGED <<now, map, lock, ask, found, cleaner, process>>

\* The next writer.
Lock(c) ==
  /\ Move(c, "lock", "drain")
  /\ lock[StageOf(c)].writer = {}
  /\ lock' = [lock EXCEPT ![StageOf(c)].writer = {c}]
  /\ UNCHANGED <<now, map, ask, found, cleaner, process>>

\* (mutant) a writer does not wait for the readers
DrainedAtOnce(l) == TRUE

Drained(l) == l.readers = {}

\* The last reader has left.
Drain(c) ==
  /\ Move(c, "drain", "writing")
  /\ Drained(lock[StageOf(c)])
  /\ UNCHANGED <<now, map, lock, ask, found, cleaner, process>>

\* (mutant) the duration is added to the expiration once more
WithTwice(items, k, expiration) ==
  [x \in DOMAIN items \cup {k} |-> IF x = k THEN expiration + Duration ELSE items[x]]

With(items, k, expiration) ==
  [x \in DOMAIN items \cup {k} |-> IF x = k THEN expiration ELSE items[x]]

Without(items, k) == [x \in DOMAIN items \ {k} |-> items[x]]

Store(c) ==
  /\ Move(c, "writing", "return")
  /\ map' = [map EXCEPT ![StageOf(c)] = With(@, KeyOf(c), now + Duration)]
  /\ lock' = [lock EXCEPT ![StageOf(c)].writer = {}]
  /\ UNCHANGED <<now, ask, found, cleaner, process>>

\* Do returns, for the one that ran the closure and for all who joined it.
Return(c) ==
  /\ process = "up" /\ pc[c] = "return"
  /\ pc' = [d \in Caller |-> IF d \in Flight(ask[c]) THEN "idle" ELSE pc[d]]
  /\ ask' = [d \in Caller |-> IF d \in Flight(ask[c]) THEN Nothing ELSE ask[d]]
  /\ UNCHANGED <<now, map, lock, found, cleaner, process>>

-----------------------------------------------------------------------------
(* The cleanup task.                                                         *)

\* (mutant) the owners are cleaned under another map's lock
WrongLock(s) == IF s = "owner" THEN "category" ELSE "owner"

\* The lock the task takes to clean a map: the owners' lock for all three.
CleanupLock(s) == "owner"

Following(s) == CASE s = "owner" -> "category" [] s = "category" -> "centroids"

Cleaning(from, to) == process = "up" /\ cleaner.at = from /\ cleaner' = to

\* The ticker fires.
Wake ==
  /\ Cleaning("asleep", [Asleep EXCEPT !.at = "lock", !.time = now])
  /\ UNCHANGED <<now, map, lock, pc, ask, found, process>>

LockMap ==
  LET s == cleaner.stage
  IN  /\ Cleaning("lock", [cleaner EXCEPT !.at = "drain"])
      /\ lock[CleanupLock(s)].writer = {}
      /\ lock' = [lock EXCEPT ![CleanupLock(s)].writer = {"cleaner"}]
      /\ UNCHANGED <<now, map, pc, ask, found, process>>

DrainMap ==
  LET s == cleaner.stage
  IN  /\ Cleaning("drain", [cleaner EXCEPT !.at = "sweep", !.todo = DOMAIN map[s]])
      /\ Drained(lock[CleanupLock(s)])
      /\ UNCHANGED <<now, map, lock, pc, ask, found, process>>

\* (mutant) an item is dropped at the last moment it is valid
ExpiredOnTime(expiration) == expiration <= cleaner.time

Expired(expiration) == expiration < cleaner.time

\* The next key of the range loop, if it is still there.
Visit ==
  /\ \E k \in cleaner.todo :
       LET drop == /\ k \in DOMAIN map[cleaner.stage]
                   /\ Expired(map[cleaner.stage][k])
       IN  Cleaning("sweep", [cleaner EXCEPT !.todo = @ \ {k},
                                !.at = IF drop THEN "delete" ELSE "sweep",
                                !.key = IF drop THEN {k} ELSE {}])
  /\ UNCHANGED <<now, map, lock, pc, ask, found, process>>

Delete ==
  /\ Cleaning("delete", [cleaner EXCEPT !.at = "sweep", !.key = {}])
  /\ \E k \in cleaner.key : map' = [map EXCEPT ![cleaner.stage] = Without(@, k)]
  /\ UNCHANGED <<now, lock, pc, ask, found, process>>

UnlockMap ==
  LET s == cleaner.stage
  IN  /\ cleaner.todo = {}
      /\ Cleaning("sweep", IF s = "centroids" THEN Asleep
                           ELSE [cleaner EXCEPT !.at = "lock", !.stage = Following(s)])
      /\ lock' = [lock EXCEPT ![CleanupLock(s)].writer = {}]
      /\ UNCHANGED <<now, map, pc, ask, found, process>>

\* The context of the process, or the cache, is closed.
Close ==
  /\ Cleaning("asleep", [Asleep EXCEPT !.at = "ended"])
  /\ UNCHANGED <<now, map, lock, pc, ask, found, process>>

-----------------------------------------------------------------------------
(* Accesses that overlap, and time.                                          *)

Writers(s) == {c \in Caller : pc[c] = "writing" /\ StageOf(c) = s}
                \cup (IF cleaner.stage = s /\ cleaner.at = "delete" THEN {"cleaner"} ELSE {})

Busy == cleaner.at = "delete" \/ (cleaner.at = "sweep" /\ cleaner.todo # {})

Accessing(s) == {c \in Caller : pc[c] \in {"reading", "writing"} /\ StageOf(c) = s}
                  \cup (IF cleaner.stage = s /\ Busy THEN {"cleaner"} ELSE {})

\* Somebody writes to a map while somebody else is at it.
Overlap(s) == \E w \in Writers(s) : Accessing(s) # {w}

\* The runtime may notice ("concurrent map writes") and stop the process; it may
\* as well not notice.
Fatal ==
  /\ process = "up"
  /\ \E s \in Stage : Overlap(s)
  /\ process' = "fatal"
  /\ UNCHANGED <<now, map, lock, pc, ask, found, cleaner>>

Tick ==
  /\ process = "up" /\ now < MaxTime
  /\ now' = now + 1
  /\ UNCHANGED <<map, lock, pc, ask, found, cleaner, process>>

Dead == process = "fatal" /\ UNCHANGED vars

Locking(c) == RLock(c) \/ Lock(c)
Going(c) == Look(c) \/ Check(c) \/ Fetched(c) \/ Failed(c) \/ Drain(c) \/ Store(c) \/ Return(c)
Sweeping == DrainMap \/ Visit \/ Delete \/ UnlockMap

Next ==
  \/ \E c \in Caller : Ask(c) \/ Locking(c) \/ Going(c)
  \/ Wake \/ LockMap \/ Sweeping \/ Close
  \/ Fatal \/ Tick \/ Dead

Spec == Init /\ [][Next]_vars

\* What can run runs; whoever waits for a lock that is free again and again gets it.
FairSpec == /\ Spec
            /\ \A c \in Caller : WF_vars(Going(c)) /\ SF_vars(Locking(c))
            /\ WF_vars(Sweeping) /\ SF_vars(LockMap)

-----------------------------------------------------------------------------
(* Properties.                                                              *)

Place == {"idle", "join", "rlock", "reading", "check", "fetch", "lock", "drain", "writing", "return"}

\* Types of the state; expirations lie at most Duration ahead.
TypeOK ==
  /\ now \in 1 .. MaxTime
  /\ DOMAIN map = Stage
  /\ \A s \in Stage : /\ DOMAIN map[s] \subseteq Key
                      /\ \A k \in DOMAIN map[s] : map[s][k] \in 1 .. now + Duration
  /\ lock \in [Stage -> [writer : SUBSET (Caller \cup {"cleaner"}), readers : SUBSET Caller]]
  /\ pc \in [Caller -> Place]
  /\ ask \in [Caller -> Question \cup {Nothing}]
  /\ found \in [Caller -> 0 .. MaxTime + Duration]
  /\ cleaner \in [at : {"asleep", "lock", "drain", "sweep", "delete", "ended"}, stage : Stage,
                  todo : SUBSET Key, key : SUBSET Key, time : 0 .. MaxTime]
  /\ process \in {"up", "fatal"}

\* No handler reads the map of owners while another, or the cleanup task, writes
\* to it: ownerLock is around every access (middleware.go:24-26, 47-52; cache.go:52-58).
OwnerGuarded == ~Overlap("owner")

\* The handlers alone never overlap on any map: whenever a map is written while
\* somebody is at it, the cleanup task is one of the two.
HandlersGuarded == \A s \in Stage : Overlap(s) => "cleaner" \in Accessing(s)

\* The cleanup task reads an item, decides and deletes its key in three steps; an
\* owner saved meanwhile under the same key must not be what it deletes.
FreshOwnersStay ==
  [][\A k \in DOMAIN map["owner"] :
       map["owner"][k] >= now => k \in DOMAIN map'["owner"]]_vars

\* The cache is a memo: an answer is at hand as long as its item is valid, and a
\* question is being asked from the start of fetch() until the item is stored.
AtHand == {q \in Question : q[2] \in DOMAIN map[q[1]] /\ map[q[1]][q[2]] > now}

BeingAsked == {ask[c] : c \in {d \in Caller : pc[d] \in {"fetch", "lock", "drain", "writing"}}}

Memoizes == INSTANCE Memo WITH answered <- AtHand, asking <- BeingAsked

ImplementsMemo == Memoizes!Spec

\* Every caller gets its answer, although it waits for locks, for the caller whose
\* closure it joined, and for the cleanup task; and every sweep ends.
Answered == \A c \in Caller : (pc[c] # "idle") ~> (pc[c] = "idle" \/ process = "fatal")

SweepsEnd == (cleaner.at = "lock") ~> (cleaner.at = "asleep" \/ process = "fatal")

-----------------------------------------------------------------------------
(* The inductive invariant behind the safety properties.                     *)

\* A lock is held by those who are inside it, and one who writes is inside alone;
\* the cleanup task is inside the owners' lock whichever map it cleans.
LockHolders ==
  \A s \in Stage :
    /\ lock[s].readers = {c \in Caller : pc[c] = "reading" /\ StageOf(c) = s}
    /\ lock[s].writer = {c \in Caller : pc[c] \in {"drain", "writing"} /\ StageOf(c) = s}
         \cup (IF s = "owner" /\ cleaner.at \in {"drain", "sweep", "delete"} THEN {"cleaner"} ELSE {})
    /\ \A a, b \in lock[s].writer : a = b
    /\ lock[s].readers # {} =>
         /\ \A c \in Caller : pc[c] = "writing" => StageOf(c) # s
         /\ s = "owner" => cleaner.at \notin {"sweep", "delete"}

\* One caller at a time runs the closure for a question.
Running(c) == pc[c] \notin {"idle", "join"}

OneRuns == \A c, d \in Caller :
  (Running(c) /\ Running(d) /\ ask[c] = ask[d]) => c = d

\* What it has looked up is still so, unless the item has been cleaned away.
LookupHolds ==
  \A c \in Caller :
    /\ pc[c] # "idle" => ask[c] \in Question
    /\ (pc[c] = "check" /\ KeyOf(c) \in DOMAIN map[StageOf(c)])
         => map[StageOf(c)][KeyOf(c)] = found[c]
    /\ (pc[c] \in {"fetch", "lock", "drain", "writing"} /\ KeyOf(c) \in DOMAIN map[StageOf(c)])
         => ~Valid(map[StageOf(c)][KeyOf(c)])

\* An owner the cleanup task is about to delete has expired.
DropsExpired ==
  /\ cleaner.at \in {"lock", "drain", "sweep", "delete"} => cleaner.time <= now
  /\ (cleaner.at = "delete" /\ cleaner.stage = "owner") =>
       \A k \in cleaner.key : k \in DOMAIN map["owner"] => Expired(map["owner"][k])

IInv == TypeOK /\ LockHolders /\ OneRuns /\ LookupHolds /\ DropsExpired

-----------------------------------------------------------------------------
(* What the code claims and does not keep.                                   *)

\* cache.go:30-35 pairs each map with a lock of its own.
MapsGuarded == \A s \in Stage : ~Overlap(s)
=============================================================================
