---------------------------- MODULE ChatStreamProofs ----------------------------
(* Theorems about ChatStream and HttpClients, for any chats, other requests,    *)
(* urls, answers and numbers of tries.                                          *)
EXTENDS ChatStream, FiniteSetTheorems, SequenceTheorems, TLAPS

-----------------------------------------------------------------------------
(* The clients.                                                              *)

Users(i) == {r \in Requests : at[r] = "in" /\ client[r] = i}

\* An instance counts the requests that use it, and a closed one has none and
\* takes no more.
Counts ==
    \A i \in 1 .. Len(instances) :
      /\ instances[i].activeRequests = Cardinality(Users(i))
      /\ instances[i].closed => /\ Users(i) = {}
                                /\ instances[i].totalRequests >= MaxRequests

\* Who is about to be admitted, or is in, has an instance.
HasClient ==
    \A r \in Requests : at[r] \in {"admit", "in", "leave"} => client[r] # 0

HInv == HttpTypeOK /\ Balanced /\ Counts /\ HasClient

\* At first no url is in use and there is no client.
LEMMA HInvInit == HttpInit => HInv
<1> SUFFICES ASSUME HttpInit PROVE HInv
  OBVIOUS
<1>1. HttpTypeOK
  BY DEF HttpInit, HttpTypeOK
<1>2. \A u \in Urls : Holders(u) = {}
  BY DEF HttpInit, Holders
<1>3. Balanced
  BY <1>2, FS_EmptySet DEF HttpInit, Balanced
<1>4. Counts
  BY DEF HttpInit, Counts
<1>5. HasClient
  BY DEF HttpInit, HasClient
<1> QED BY <1>1, <1>3, <1>4, <1>5 DEF HInv

\* There are finitely many requests at a url.
LEMMA FiniteHolders == \A u : IsFiniteSet(Holders(u)) /\ Cardinality(Holders(u)) \in Nat
  BY FS_Subset, FS_CardinalityType, HttpAssumption DEF Holders

\* There are finitely many requests with a client.
LEMMA FiniteUsers == \A i : IsFiniteSet(Users(i)) /\ Cardinality(Users(i)) \in Nat
  BY FS_Subset, FS_CardinalityType, HttpAssumption DEF Users

\* Where a step takes a request.
LEMMA MoveFacts ==
  ASSUME HttpTypeOK, NEW r \in Requests,
         NEW place \in {"out", "lookup", "admit", "create", "in", "leave"}, Move(r, place)
  PROVE  /\ at' \in [Requests -> {"out", "lookup", "admit", "create", "in", "leave"}]
         /\ at'[r] = place
         /\ \A q \in Requests \ {r} : at'[q] = at[q]
  BY DEF Move, HttpTypeOK

\* A step that neither takes nor gives back a url.
LEMMA BalancedStays ==
  ASSUME Balanced, UNCHANGED <<connections, url>>,
         \A q \in Requests : at'[q] = "out" <=> at[q] = "out"
  PROVE  Balanced'
<1>1. \A u \in Urls : Holders(u)' = Holders(u)
  BY DEF Holders
<1> QED BY <1>1 DEF Balanced

\* A step that neither enters nor leaves an instance.
LEMMA CountsStay ==
  ASSUME Counts, UNCHANGED instances,
         \A q \in Requests : /\ at'[q] = "in" <=> at[q] = "in"
                             /\ at[q] = "in" => client'[q] = client[q]
  PROVE  Counts'
<1>1. \A i : Users(i)' = Users(i)
  BY DEF Users
<1> QED BY <1>1 DEF Counts

\* A url is taken: its count and its holders grow by one.
LEMMA UrlKeeps == ASSUME HInv, NEW r \in Requests, Url(r) PROVE HInv'
<1> USE DEF HInv
<1>1. PICK u \in Urls : /\ connections' = [connections EXCEPT ![u] = @ + 1]
                        /\ url' = [url EXCEPT ![r] = u]
  BY DEF Url
<1>2. /\ at[r] = "out"
      /\ Move(r, "lookup")
      /\ UNCHANGED <<clients, instances, client>>
  BY DEF Url
<1>3. /\ at' \in [Requests -> {"out", "lookup", "admit", "create", "in", "leave"}]
      /\ at'[r] = "lookup"
      /\ \A q \in Requests \ {r} : at'[q] = at[q]
  BY <1>2, MoveFacts
<1>4. HttpTypeOK'
  <2>1. connections' \in [Urls -> Nat] /\ url' \in [Requests -> Urls]
    BY <1>1 DEF HttpTypeOK
  <2> QED BY <1>2, <1>3, <2>1 DEF HttpTypeOK
<1>5. Balanced'
  <2> SUFFICES ASSUME NEW v \in Urls PROVE connections'[v] = Cardinality(Holders(v)')
    BY DEF Balanced
  <2>1. url'[r] = u /\ \A q \in Requests \ {r} : url'[q] = url[q]
    BY <1>1 DEF HttpTypeOK
  <2>2. CASE v = u
    <3>1. Holders(v)' = Holders(v) \union {r} /\ r \notin Holders(v)
      BY <1>2, <1>3, <2>1, <2>2 DEF Holders
    <3>2. connections'[v] = connections[v] + 1
      BY <1>1, <2>2 DEF HttpTypeOK
    <3> QED BY <3>1, <3>2, FS_AddElement, FiniteHolders DEF Balanced
  <2>3. CASE v # u
    <3>1. Holders(v)' = Holders(v)
      BY <1>2, <1>3, <2>1, <2>3 DEF Holders
    <3>2. connections'[v] = connections[v]
      BY <1>1, <2>3 DEF HttpTypeOK
    <3> QED BY <3>1, <3>2 DEF Balanced
  <2> QED BY <2>2, <2>3
<1>6. Counts'
  BY <1>2, <1>3, CountsStay
<1>7. HasClient'
  BY <1>2, <1>3 DEF HasClient
<1> QED BY <1>4, <1>5, <1>6, <1>7

\* The client of the url is looked up: nobody has been let in yet.
LEMMA LookUpKeeps == ASSUME HInv, NEW r \in Requests, LookUp(r) PROVE HInv'
<1> USE DEF HInv
<1>1. PICK place \in {"create", "admit"} :
        /\ Move(r, place)
        /\ place = "admit" => clients[url[r]] # 0
  BY DEF LookUp
<1>2. /\ at[r] = "lookup"
      /\ client' = [client EXCEPT ![r] = clients[url[r]]]
      /\ UNCHANGED <<connections, clients, instances, url>>
  BY DEF LookUp
<1>3. /\ at' \in [Requests -> {"out", "lookup", "admit", "create", "in", "leave"}]
      /\ at'[r] = place
      /\ \A q \in Requests \ {r} : at'[q] = at[q]
  BY <1>1, MoveFacts
<1>4. HttpTypeOK'
  BY <1>2, <1>3 DEF HttpTypeOK
<1>5. client'[r] = clients[url[r]] /\ \A q \in Requests \ {r} : client'[q] = client[q]
  BY <1>2 DEF HttpTypeOK
<1>6. Balanced'
  BY <1>2, <1>3, BalancedStays
<1>7. Counts'
  BY <1>2, <1>3, <1>5, CountsStay
<1>8. HasClient'
  BY <1>1, <1>3, <1>5 DEF HasClient
<1> QED BY <1>4, <1>6, <1>7, <1>8

\* An instance, field by field.
LEMMA Admitted ==
  ASSUME NEW x \in Instance
  PROVE  LET y == [x EXCEPT !.totalRequests = @ + 1, !.activeRequests = @ + 1]
         IN  /\ y \in Instance
             /\ y.activeRequests = x.activeRequests + 1
             /\ y.closed = x.closed
<1> DEFINE t == [x EXCEPT !.totalRequests = @ + 1]
           y == [x EXCEPT !.totalRequests = @ + 1, !.activeRequests = @ + 1]
<1>1. t \in Instance
  BY DEF Instance
<1>2. y = [t EXCEPT !.activeRequests = x.activeRequests + 1]
  BY DEF Instance
<1>3. y \in Instance
  <2> HIDE DEF t, y
  <2> QED BY <1>1, <1>2 DEF Instance
<1>4. y.activeRequests = x.activeRequests + 1
  BY DEF Instance
<1>5. y.closed = x.closed
  BY DEF Instance
<1> QED BY <1>3, <1>4, <1>5

\* An instance after one of its users has left.
LEMMA Left ==
  ASSUME NEW x \in Instance, NEW b \in BOOLEAN
  PROVE  LET y == [x EXCEPT !.activeRequests = @ - 1, !.closed = @ \/ b]
         IN  /\ y \in Instance
             /\ y.activeRequests = x.activeRequests - 1
             /\ y.totalRequests = x.totalRequests
             /\ y.closed = (x.closed \/ b)
<1> DEFINE a == [x EXCEPT !.activeRequests = @ - 1]
           y == [x EXCEPT !.activeRequests = @ - 1, !.closed = @ \/ b]
<1>1. a \in Instance
  BY DEF Instance
<1>2. y = [a EXCEPT !.closed = x.closed \/ b]
  BY DEF Instance
<1>3. y \in Instance
  <2> HIDE DEF a, y
  <2> QED BY <1>1, <1>2 DEF Instance
<1>4. y.activeRequests = x.activeRequests - 1
  BY DEF Instance
<1>5. y.totalRequests = x.totalRequests
  BY DEF Instance
<1>6. y.closed = (x.closed \/ b)
  BY DEF Instance
<1> QED BY <1>3, <1>4, <1>5, <1>6

\* A request is let in, or turned away because the client is full.
LEMMA AdmitKeeps == ASSUME HInv, NEW r \in Requests, Admit(r) PROVE HInv'
<1> USE DEF HInv
<1>1. at[r] = "admit" /\ UNCHANGED <<connections, clients, url, client>>
  BY DEF Admit
<1> DEFINE i == client[r]
<1>2. i \in 1 .. Len(instances)
  BY <1>1 DEF HasClient, HttpTypeOK
<1>3. CASE HasRoom(i)
  <2>1. /\ Move(r, "in")
        /\ instances' = [instances EXCEPT ![i].totalRequests = @ + 1,
                                          ![i].activeRequests = @ + 1]
    BY <1>3 DEF Admit
  <2>2. /\ at' \in [Requests -> {"out", "lookup", "admit", "create", "in", "leave"}]
        /\ at'[r] = "in"
        /\ \A q \in Requests \ {r} : at'[q] = at[q]
    BY <2>1, MoveFacts
  <2>3. instances \in Seq(Instance) /\ instances[i] \in Instance
    BY <1>2 DEF HttpTypeOK
  <2> DEFINE new == [instances[i] EXCEPT !.totalRequests = @ + 1, !.activeRequests = @ + 1]
  <2>4. /\ new \in Instance
        /\ new.activeRequests = instances[i].activeRequests + 1
        /\ new.closed = instances[i].closed
    BY <2>3, Admitted
  <2>10. instances' = [instances EXCEPT ![i] = new]
    BY <1>2, <2>1, <2>3
  <2> HIDE DEF new
  <2>5. /\ instances' \in Seq(Instance)
        /\ Len(instances') = Len(instances)
        /\ \A j \in 1 .. Len(instances) : instances'[j] = IF j = i THEN new ELSE instances[j]
    BY <1>2, <2>3, <2>4, <2>10, ExceptSeq
  <2>6. HttpTypeOK'
    BY <1>1, <2>2, <2>5 DEF HttpTypeOK
  <2>7. Balanced'
    BY <1>1, <2>2, BalancedStays
  <2>8. Counts'
    <3> SUFFICES ASSUME NEW j \in 1 .. Len(instances)
                 PROVE  /\ instances'[j].activeRequests = Cardinality(Users(j)')
                        /\ instances'[j].closed => /\ Users(j)' = {}
                                                   /\ instances'[j].totalRequests >= MaxRequests
      BY <2>5 DEF Counts
    <3>1. CASE j = i
      <4>1. Users(j)' = Users(j) \union {r} /\ r \notin Users(j)
        BY <1>1, <2>2, <3>1 DEF Users
      <4>2. /\ instances'[j].activeRequests = instances[j].activeRequests + 1
            /\ instances'[j].closed = instances[j].closed
        BY <2>4, <2>5, <3>1
      <4>3. ~instances[j].closed
        BY <1>3, <2>3, <3>1, HttpAssumption DEF HasRoom, Counts, Instance
      <4> QED BY <4>1, <4>2, <4>3, FS_AddElement, FiniteUsers DEF Counts
    <3>2. CASE j # i
      <4>1. Users(j)' = Users(j)
        BY <1>1, <2>2, <3>2 DEF Users
      <4> QED BY <2>5, <3>2, <4>1 DEF Counts
    <3> QED BY <3>1, <3>2
  <2>9. HasClient'
    BY <1>1, <2>2 DEF HasClient
  <2> QED BY <2>6, <2>7, <2>8, <2>9
<1>4. CASE ~HasRoom(i)
  <2>1. Move(r, "create") /\ UNCHANGED instances
    BY <1>4 DEF Admit
  <2>2. /\ at' \in [Requests -> {"out", "lookup", "admit", "create", "in", "leave"}]
        /\ at'[r] = "create"
        /\ \A q \in Requests \ {r} : at'[q] = at[q]
    BY <2>1, MoveFacts
  <2>3. HttpTypeOK'
    BY <1>1, <2>1, <2>2 DEF HttpTypeOK
  <2>4. Balanced'
    BY <1>1, <2>2, BalancedStays
  <2>5. Counts'
    BY <1>1, <2>1, <2>2, CountsStay
  <2>6. HasClient'
    BY <1>1, <2>2 DEF HasClient
  <2> QED BY <2>3, <2>4, <2>5, <2>6
<1> QED BY <1>3, <1>4

\* A new client comes with its first user.
LEMMA CreateKeeps == ASSUME HInv, NEW r \in Requests, Create(r) PROVE HInv'
<1> USE DEF HInv
<1> DEFINE new == [activeRequests |-> 1, totalRequests |-> 1, closed |-> FALSE]
           n == Len(instances) + 1
<1>1. /\ at[r] = "create"
      /\ Move(r, "in")
      /\ UNCHANGED <<connections, url>>
      /\ instances' = Append(instances, new)
      /\ client' = [client EXCEPT ![r] = Len(instances')]
      /\ clients' = [clients EXCEPT ![url[r]] = Len(instances')]
  BY DEF Create
<1>2. /\ at' \in [Requests -> {"out", "lookup", "admit", "create", "in", "leave"}]
      /\ at'[r] = "in"
      /\ \A q \in Requests \ {r} : at'[q] = at[q]
  BY <1>1, MoveFacts
<1>3. new \in Instance /\ instances \in Seq(Instance)
  BY DEF Instance, HttpTypeOK
<1>4. /\ instances' \in Seq(Instance)
      /\ Len(instances') = n
      /\ instances'[n] = new
      /\ \A j \in 1 .. Len(instances) : instances'[j] = instances[j]
  BY <1>1, <1>3, AppendProperties
<1>5. new.activeRequests = 1 /\ ~new.closed
  OBVIOUS
<1> HIDE DEF new
<1>6. client'[r] = n /\ \A q \in Requests \ {r} : client'[q] = client[q]
  BY <1>1, <1>4 DEF HttpTypeOK
<1>7. HttpTypeOK'
  <2>1. Len(instances) \in Nat /\ 0 .. Len(instances) \subseteq 0 .. n /\ n \in 0 .. n
    BY <1>3
  <2>2. clients' \in [Urls -> 0 .. n] /\ client' \in [Requests -> 0 .. n]
    BY <1>1, <1>4, <2>1 DEF HttpTypeOK
  <2> QED BY <1>1, <1>2, <1>4, <2>2 DEF HttpTypeOK
<1>8. Balanced'
  BY <1>1, <1>2, BalancedStays
<1>9. Counts'
  <2> SUFFICES ASSUME NEW j \in 1 .. n
               PROVE  /\ instances'[j].activeRequests = Cardinality(Users(j)')
                      /\ instances'[j].closed => /\ Users(j)' = {}
                                                 /\ instances'[j].totalRequests >= MaxRequests
    BY <1>4 DEF Counts
  <2>1. CASE j = n
    <3>1. Users(j)' = {r}
      <4>1. \A q \in Requests : client[q] # n
        BY <1>3 DEF HttpTypeOK
      <4> QED BY <1>2, <1>6, <2>1, <4>1 DEF Users
    <3> QED BY <1>4, <1>5, <2>1, <3>1, FS_Singleton
  <2>2. CASE j # n
    <3>1. j \in 1 .. Len(instances)
      BY <1>3, <2>2
    <3>2. Users(j)' = Users(j)
      BY <1>1, <1>2, <1>6, <2>2 DEF Users
    <3> QED BY <1>4, <3>1, <3>2 DEF Counts
  <2> QED BY <2>1, <2>2
<1>10. HasClient'
  BY <1>2, <1>3, <1>6 DEF HasClient
<1> QED BY <1>7, <1>8, <1>9, <1>10

\* A user leaves, and the last of a full client closes it.
LEMMA CloseKeeps == ASSUME HInv, NEW r \in Requests, Close(r) PROVE HInv'
<1> USE DEF HInv
<1> DEFINE i == client[r]
           new == [instances[i] EXCEPT !.activeRequests = @ - 1, !.closed = @ \/ LastUse(i)]
<1>1. /\ at[r] = "in"
      /\ Move(r, "leave")
      /\ UNCHANGED <<connections, clients, url, client>>
      /\ instances' = [instances EXCEPT ![i].activeRequests = @ - 1,
                                        ![i].closed = @ \/ LastUse(i)]
  BY DEF Close
<1>2. /\ at' \in [Requests -> {"out", "lookup", "admit", "create", "in", "leave"}]
      /\ at'[r] = "leave"
      /\ \A q \in Requests \ {r} : at'[q] = at[q]
  BY <1>1, MoveFacts
<1>3. /\ i \in 1 .. Len(instances)
      /\ instances \in Seq(Instance)
      /\ instances[i] \in Instance
  BY <1>1 DEF HttpTypeOK, HasClient
<1>4. instances' = [instances EXCEPT ![i] = new]
  BY <1>1, <1>3
<1>5. /\ new \in Instance
      /\ new.activeRequests = instances[i].activeRequests - 1
      /\ new.totalRequests = instances[i].totalRequests
      /\ new.closed = (instances[i].closed \/ LastUse(i))
  <2>1. LastUse(i) \in BOOLEAN
    BY DEF LastUse
  <2> QED BY <1>3, <2>1, Left
<1> HIDE DEF new
<1>6. /\ instances' \in Seq(Instance)
      /\ Len(instances') = Len(instances)
      /\ \A j \in 1 .. Len(instances) : instances'[j] = IF j = i THEN new ELSE instances[j]
  BY <1>3, <1>4, <1>5, ExceptSeq
<1>7. HttpTypeOK'
  BY <1>1, <1>2, <1>6 DEF HttpTypeOK
<1>8. Balanced'
  BY <1>1, <1>2, BalancedStays
<1>9. Counts'
  <2> SUFFICES ASSUME NEW j \in 1 .. Len(instances)
               PROVE  /\ instances'[j].activeRequests = Cardinality(Users(j)')
                      /\ instances'[j].closed => /\ Users(j)' = {}
                                                 /\ instances'[j].totalRequests >= MaxRequests
    BY <1>6 DEF Counts
  <2>1. CASE j = i
    <3>1. Users(j)' = Users(j) \ {r} /\ r \in Users(j)
      BY <1>1, <1>2, <2>1 DEF Users
    <3>2. Cardinality(Users(j)') = Cardinality(Users(j)) - 1
      BY <3>1, FS_RemoveElement, FiniteUsers
    <3>3. ~instances[j].closed
      BY <3>1 DEF Counts
    <3>4. ASSUME LastUse(i) PROVE /\ Users(j)' = {}
                                  /\ instances[j].totalRequests >= MaxRequests
      <4>1. instances[j].totalRequests >= MaxRequests /\ Cardinality(Users(j)) <= 1
        BY <2>1, <3>4 DEF LastUse, Counts
      <4>2. IsFiniteSet(Users(j) \ {r}) /\ Cardinality(Users(j) \ {r}) = Cardinality(Users(j)) - 1
        BY <3>1, FS_RemoveElement, FiniteUsers
      <4>3. Cardinality(Users(j) \ {r}) = 0
        BY <4>1, <4>2, FS_CardinalityType, FiniteUsers
      <4> QED BY <3>1, <4>1, <4>2, <4>3, FS_EmptySet
    <3> QED BY <1>5, <1>6, <2>1, <3>2, <3>3, <3>4 DEF Counts
  <2>2. CASE j # i
    <3>1. Users(j)' = Users(j)
      BY <1>1, <1>2, <2>2 DEF Users
    <3> QED BY <1>6, <2>2, <3>1 DEF Counts
  <2> QED BY <2>1, <2>2
<1>10. HasClient'
  BY <1>1, <1>2 DEF HasClient
<1> QED BY <1>7, <1>8, <1>9, <1>10

\* The url is given back: its count and its holders shrink by one.
LEMMA DoneKeeps == ASSUME HInv, NEW r \in Requests, Done(r) PROVE HInv'
<1> USE DEF HInv
<1>1. /\ at[r] = "leave"
      /\ Move(r, "out")
      /\ connections' = [connections EXCEPT ![url[r]] = @ - 1]
      /\ UNCHANGED <<clients, instances, url, client>>
  BY DEF Done, GivenBack
<1>2. /\ at' \in [Requests -> {"out", "lookup", "admit", "create", "in", "leave"}]
      /\ at'[r] = "out"
      /\ \A q \in Requests \ {r} : at'[q] = at[q]
  BY <1>1, MoveFacts
<1>3. url[r] \in Urls /\ r \in Holders(url[r])
  BY <1>1 DEF HttpTypeOK, Holders
<1>4. connections[url[r]] >= 1
  <2>1. Cardinality(Holders(url[r])) # 0
    BY <1>3, FS_EmptySet, FiniteHolders
  <2> QED BY <1>3, <2>1, FiniteHolders DEF Balanced
<1>5. HttpTypeOK'
  BY <1>1, <1>2, <1>3, <1>4 DEF HttpTypeOK
<1>6. Balanced'
  <2> SUFFICES ASSUME NEW v \in Urls PROVE connections'[v] = Cardinality(Holders(v)')
    BY DEF Balanced
  <2>1. CASE v = url[r]
    <3>1. Holders(v)' = Holders(v) \ {r}
      BY <1>1, <1>2, <2>1 DEF Holders
    <3>2. connections'[v] = connections[v] - 1
      BY <1>1, <2>1 DEF HttpTypeOK
    <3> QED BY <1>3, <2>1, <3>1, <3>2, FS_RemoveElement, FiniteHolders DEF Balanced
  <2>2. CASE v # url[r]
    <3>1. Holders(v)' = Holders(v)
      BY <1>1, <1>2, <2>2 DEF Holders
    <3>2. connections'[v] = connections[v]
      BY <1>1, <2>2 DEF HttpTypeOK
    <3> QED BY <3>1, <3>2 DEF Balanced
  <2> QED BY <2>1, <2>2
<1>7. Counts'
  BY <1>1, <1>2, CountsStay
<1>8. HasClient'
  BY <1>1, <1>2 DEF HasClient
<1> QED BY <1>5, <1>6, <1>7, <1>8

\* Every step of a request keeps the counts.
LEMMA HttpStepKeeps == ASSUME HInv, NEW r \in Requests, HttpStep(r) PROVE HInv'
  BY UrlKeeps, LookUpKeeps, AdmitKeeps, CreateKeeps, CloseKeeps, DoneKeeps DEF HttpStep

\* Nothing else touches them.
LEMMA HttpStays == ASSUME HInv, UNCHANGED http PROVE HInv'
<1> USE DEF HInv, http
<1>1. HttpTypeOK'
  BY DEF HttpTypeOK
<1>2. Balanced'
  BY BalancedStays
<1>3. Counts'
  BY CountsStay
<1>4. HasClient'
  BY DEF HasClient
<1> QED BY <1>1, <1>2, <1>3, <1>4

\* Whatever happens in the rows, the counts are right.
LEMMA HInvStep == HInv /\ [Next]_vars => HInv'
<1> SUFFICES ASSUME HInv, [Next]_vars PROVE HInv'
  OBVIOUS
<1>1. ASSUME NEW c \in Chats, User(c) \/ Browser(c) \/ Breaks(c) PROVE HInv'
  BY <1>1, HttpStays DEF User, Toggle, Ask, Browser, Read, Completed, Breaks
<1>2. ASSUME NEW c \in Chats, Handler(c) PROVE HInv'
  BY <1>2, HttpStays DEF Handler, Begin, BeginFails, Relay, PipeEnds
<1>3. ASSUME NEW c \in Chats, Goroutine(c) PROVE HInv'
  BY <1>3, HttpStays, HttpStepKeeps, ChatAssumption
     DEF Goroutine, UsesHttp, WriteReleased, ClosePipe
<1>4. ASSUME NEW c \in Chats, Provider(c) PROVE HInv'
  BY <1>4, HttpStays DEF Provider, Send, SendFails, ScanEnds, ScanFails, Fails, Line
<1>5. ASSUME NEW r \in Requests \ Chats, Embed(r) PROVE HInv'
  BY <1>5, HttpStepKeeps DEF Embed
<1>6. ASSUME UNCHANGED vars PROVE HInv'
  BY <1>6, HttpStays DEF vars
<1> QED BY <1>1, <1>2, <1>3, <1>4, <1>5, <1>6 DEF Next

\* However many requests come and go, and whoever loses the race to replace an
\* instance, none is using a connection that is closed.
THEOREM NeverClosedInUseHolds == Spec => []NeverClosedInUse
<1>1. HInv => NeverClosedInUse
  <2> SUFFICES ASSUME HInv, NEW r \in Requests, at[r] = "in", instances[client[r]].closed
               PROVE  FALSE
    BY DEF NeverClosedInUse
  <2>1. client[r] \in 1 .. Len(instances)
    BY DEF HInv, HttpTypeOK, HasClient
  <2>2. r \in Users(client[r])
    BY DEF Users
  <2> QED BY <2>1, <2>2 DEF HInv, Counts
<1>2. Init => HInv
  BY HInvInit DEF Init
<1> QED BY <1>1, <1>2, HInvStep, PTL DEF Spec

\* On every path a url is given back once.
THEOREM BalancedHolds == Spec => []Balanced
<1>1. HInv => Balanced
  BY DEF HInv
<1>2. Init => HInv
  BY HInvInit DEF Init
<1> QED BY <1>1, <1>2, HInvStep, PTL DEF Spec

-----------------------------------------------------------------------------
(* The rows: types.                                                          *)

Text == 1 .. MaxLines \union {ErrorText}
Shown == 1 .. MaxLines \union {ErrorText, Failure}

\* TypeOK but for the clients, and the bounds of the counters.
ChatTypes ==
    /\ summaryEnabled \in [Chats -> BOOLEAN]
    /\ loading \in [Chats -> BOOLEAN]
    /\ broken \in [Chats -> BOOLEAN]
    /\ summary \in [Chats -> Seq(Shown)]
    /\ relayed \in [Chats -> Seq(Text)]
    /\ received \in [Chats -> Nat]
    /\ empties \in [Chats -> Nat]
    /\ line \in [Chats -> 0 .. MaxLines]
    /\ generated \in [Chats -> Nat]
    /\ lines \in [Chats -> 0 .. MaxLines]
    /\ \A c \in Chats : generated[c] <= lines[c]
    /\ tries \in [Requests -> 0 .. MaxTries]
    /\ handler \in [Chats -> {"idle", "called", "reading", "done"}]
    /\ goroutine \in [Chats -> {"idle", "start", "scan", "write", "end"}]
    /\ pipe \in [Chats -> {"open", "error", "eof"}]
    /\ provider \in [Chats -> {"talking", "done", "broke"}]
    /\ hangs \subseteq Chats

\* The types hold at first.
LEMMA ChatTypesInit == Init => ChatTypes
<1> SUFFICES ASSUME Init PROVE ChatTypes
  OBVIOUS
<1>1. <<>> \in Seq(Shown) /\ <<>> \in Seq(Text)
  OBVIOUS
<1>2. 0 \in 0 .. MaxLines /\ 0 \in 0 .. MaxTries
  BY ChatAssumption
<1> QED BY <1>1, <1>2 DEF Init, ChatTypes

\* One more character, or an error, is relayed.
LEMMA AppendText ==
  ASSUME ChatTypes, NEW c \in Chats, NEW x \in Text
  PROVE  Append(relayed[c], x) \in Seq(Text)
  BY AppendProperties DEF ChatTypes

\* The button, and whatever breaks on the way to the row.
LEMMA UserTypes == ASSUME ChatTypes, NEW c \in Chats, User(c) \/ Breaks(c) PROVE ChatTypes'
<1>1. <<Failure>> \in Seq(Shown) /\ <<>> \in Seq(Text) /\ 0 \in 0 .. MaxLines
  BY ChatAssumption DEF Shown
<1>2. CASE Toggle(c)
  BY <1>2 DEF Toggle, row, served, asked, At, ChatTypes
<1>3. CASE Ask(c)
  <2>1. tries[c] + 1 \in 0 .. MaxTries
    BY <1>3, ChatAssumption DEF Ask, ChatTypes
  <2>2. tries' \in [Requests -> 0 .. MaxTries]
    BY <1>3, <2>1 DEF Ask, At, ChatTypes
  <2>3. /\ generated' = [generated EXCEPT ![c] = 0] /\ lines' = [lines EXCEPT ![c] = 0]
    BY <1>3 DEF Ask, At
  <2>4. \A d \in Chats : generated'[d] <= lines'[d]
    BY <2>3 DEF ChatTypes
  <2> QED BY <1>1, <1>3, <2>2, <2>4 DEF Ask, At, ChatTypes
<1>4. CASE Breaks(c)
  BY <1>1, <1>4 DEF Breaks, asked, At, LoadingAfter, ChatTypes
<1> QED BY <1>2, <1>3, <1>4 DEF User

\* The chunks the row reads.
LEMMA BrowserTypes == ASSUME ChatTypes, NEW c \in Chats, Browser(c) PROVE ChatTypes'
<1>1. CASE Completed(c)
  BY <1>1 DEF Completed, served, asked, At, ChatTypes
<1>2. ASSUME NEW n \in 1 .. 2 * Len(relayed[c]), Read(c, n) PROVE ChatTypes'
  <2>1. relayed[c] \in Seq(Text) /\ received[c] \in Nat /\ summary[c] \in Seq(Shown)
    BY DEF ChatTypes
  <2>2. received[c] \div 2 + 1 \in 1 .. Len(relayed[c]) + 1 /\ n \div 2 \in 0 .. Len(relayed[c])
    BY <1>2, <2>1 DEF Read
  <2>3. Decoded(c, n) \in Seq(Text)
    <3>1. \A i \in received[c] \div 2 + 1 .. n \div 2 : relayed[c][i] \in Text
      BY <2>1, <2>2
    <3> QED BY <2>2, <3>1, SubSeqProperties DEF Decoded
  <2>4. Decoded(c, n) \in Seq(Shown)
    BY <2>3, SeqMonotonic DEF Text, Shown
  <2>5. summary[c] \o Decoded(c, n) \in Seq(Shown)
    BY <2>1, <2>4, ConcatProperties
  <2> QED BY <1>2, <2>5 DEF Read, served, asked, At, ChatTypes
<1> QED BY <1>1, <1>2 DEF Browser

\* What the handler writes to the browser.
LEMMA HandlerTypes == ASSUME ChatTypes, NEW c \in Chats, Handler(c) PROVE ChatTypes'
<1>1. CASE Begin(c)
  BY <1>1 DEF Begin, row, asked, At, ChatTypes
<1>2. CASE BeginFails(c)
  <2>1. <<ErrorText>> \in Seq(Text)
    BY DEF Text
  <2> QED BY <1>2, <2>1 DEF BeginFails, row, asked, At, ChatTypes
<1>3. CASE Relay(c)
  <2>1. /\ goroutine' \in [Chats -> {"idle", "start", "scan", "write", "end"}]
        /\ line' \in [Chats -> 0 .. MaxLines]
    <3>1. 0 \in 0 .. MaxLines
      BY ChatAssumption
    <3> QED BY <1>3, <3>1 DEF Relay, Written, At, ChatTypes
  <2>2. /\ relayed' \in [Chats -> Seq(Text)]
        /\ empties' \in [Chats -> Nat]
        /\ handler' \in [Chats -> {"idle", "called", "reading", "done"}]
    <3>1. CASE RelayChar(c)
      <4>1. line[c] \in Text
        BY <3>1 DEF RelayChar, Text, ChatTypes
      <4> QED BY <3>1, <4>1, AppendText DEF RelayChar, At, ChatTypes
    <3>2. CASE RelayNothing(c)
      BY <3>2 DEF RelayNothing, At, ChatTypes
    <3>3. CASE GiveUp(c)
      <4>1. ErrorText \in Text
        BY DEF Text
      <4> QED BY <3>3, <4>1, AppendText DEF GiveUp, At, ChatTypes
    <3>4. CASE WriteFails(c)
      BY <3>4 DEF WriteFails, At, ChatTypes
    <3> QED BY <1>3, <3>1, <3>2, <3>3, <3>4 DEF Relay
  <2> QED BY <1>3, <2>1, <2>2 DEF Relay, row, asked, ChatTypes
<1>4. CASE PipeEnds(c)
  <2>1. ErrorText \in Text
    BY DEF Text
  <2>2. relayed' \in [Chats -> Seq(Text)]
    BY <1>4, <2>1, AppendText DEF PipeEnds, At, ChatTypes
  <2> QED BY <1>4, <2>2 DEF PipeEnds, row, asked, At, ChatTypes
<1> QED BY <1>1, <1>2, <1>3, <1>4 DEF Handler

\* What the goroutine writes to the pipe.
LEMMA GoroutineTypes == ASSUME ChatTypes, NEW c \in Chats, Goroutine(c) PROVE ChatTypes'
<1>1. CASE UsesHttp(c)
  BY <1>1 DEF UsesHttp, row, served, asked, ChatTypes
<1>2. CASE WriteReleased(c)
  <2>1. 0 \in 0 .. MaxLines
    BY ChatAssumption
  <2> QED BY <1>2, <2>1 DEF WriteReleased, Written, row, served, asked, At, ChatTypes
<1>3. CASE ClosePipe(c)
  BY <1>3 DEF ClosePipe, row, asked, At, ChatTypes
<1> QED BY <1>1, <1>2, <1>3 DEF Goroutine

\* The lines of the provider.
LEMMA ProviderTypes == ASSUME ChatTypes, NEW c \in Chats, Provider(c) PROVE ChatTypes'
<1>1. CASE Send(c)
  BY <1>1 DEF Send, row, served, asked, At, ChatTypes
<1>2. CASE Fails(c)
  BY <1>2 DEF Fails, row, At, ChatTypes
<1>3. CASE ScanEnds(c)
  BY <1>3 DEF ScanEnds, row, served, At, ChatTypes
<1>4. ASSUME NEW text \in BOOLEAN, NEW last \in BOOLEAN, Line(c, text, last) PROVE ChatTypes'
  <2>1. /\ generated[c] \in Nat /\ lines[c] \in Nat
        /\ generated[c] <= lines[c] /\ lines[c] + 1 \in 0 .. MaxLines
    BY <1>4, ChatAssumption DEF Line, ChatTypes
  <2> DEFINE more == generated[c] + (IF text THEN 1 ELSE 0)
  <2>2. /\ more \in Nat
        /\ more <= lines[c] + 1
        /\ (IF text THEN generated[c] + 1 ELSE 0) \in 0 .. MaxLines
    BY <2>1, ChatAssumption
  <2>3. /\ generated' = [generated EXCEPT ![c] = more]
        /\ lines' = [lines EXCEPT ![c] = lines[c] + 1]
    BY <1>4 DEF Line, At
  <2> HIDE DEF more
  <2>4. /\ generated' \in [Chats -> Nat] /\ lines' \in [Chats -> 0 .. MaxLines]
        /\ \A d \in Chats : generated'[d] <= lines'[d]
    BY <2>1, <2>2, <2>3 DEF ChatTypes
  <2>5. line' \in [Chats -> 0 .. MaxLines]
    BY <1>4, <2>2 DEF Line, At, ChatTypes
  <2> QED BY <1>4, <2>4, <2>5 DEF Line, ThenWrite, row, served, At, ChatTypes
<1> QED BY <1>1, <1>2, <1>3, <1>4 DEF Provider, SendFails, ScanFails

\* Every step keeps the types.
LEMMA ChatTypesStep == ChatTypes /\ [Next]_vars => ChatTypes'
<1> SUFFICES ASSUME ChatTypes, [Next]_vars PROVE ChatTypes'
  OBVIOUS
<1>1. ASSUME NEW r \in Requests \ Chats, Embed(r) PROVE ChatTypes'
  <2>1. tries' \in [Requests -> 0 .. MaxTries]
    <3>1. CASE at[r] = "out"
      BY <1>1, <3>1, ChatAssumption DEF Embed, At, ChatTypes
    <3>2. CASE at[r] # "out"
      BY <1>1, <3>2, ChatAssumption DEF Embed, At, ChatTypes
    <3> QED BY <3>1, <3>2
  <2> QED BY <1>1, <2>1 DEF Embed, served, asked, ChatTypes
<1>2. ASSUME UNCHANGED vars PROVE ChatTypes'
  BY <1>2 DEF vars, row, served, asked, ChatTypes
<1> QED BY <1>1, <1>2, UserTypes, BrowserTypes, HandlerTypes, GoroutineTypes, ProviderTypes
        DEF Next

\* Whatever breaks, clients, rows, handlers and goroutines keep their types, and
\* the counters of the clients never fall below zero.
THEOREM TypeCorrect == Spec => []TypeOK
<1>1. HInv /\ ChatTypes => TypeOK
  <2> SUFFICES ASSUME HInv, ChatTypes PROVE TypeOK
    OBVIOUS
  <2>1. line \in [Chats -> Nat] /\ lines \in [Chats -> Nat]
    BY ChatAssumption DEF ChatTypes
  <2> QED BY <2>1 DEF HInv, ChatTypes, TypeOK, Text, Shown
<1>2. Init => HInv /\ ChatTypes
  BY HInvInit, ChatTypesInit DEF Init
<1> QED BY <1>1, <1>2, HInvStep, ChatTypesStep, PTL DEF Spec

-----------------------------------------------------------------------------
(* The rows: what they show.                                                 *)

\* What the handler has relayed, and who is about, by where the handler is.
Relayed(c) ==
    /\ handler[c] \in {"idle", "called"} =>
         /\ relayed[c] = <<>> /\ generated[c] = 0
         /\ goroutine[c] = "idle" /\ pipe[c] = "open"
    /\ handler[c] = "reading" =>
         /\ (goroutine[c] # "write" \/ line[c] = 0) => relayed[c] = Generated(c, generated[c])
         /\ (goroutine[c] = "write" /\ line[c] # 0) =>
              /\ line[c] = generated[c]
              /\ relayed[c] = Generated(c, generated[c] - 1)
         /\ pipe[c] = "eof" => goroutine[c] = "idle"
    /\ handler[c] = "done" =>
         \/ goroutine[c] = "idle" /\ relayed[c] = Generated(c, generated[c])
         \/ \E n \in 0 .. generated[c] : relayed[c] = Append(Generated(c, n), ErrorText)

\* What the row shows of it.
Row(c) ==
    /\ broken[c] => ~loading[c] /\ summary[c] = <<Failure>>
    /\ ~broken[c] =>
         /\ Relayed(c)
         /\ loading[c] => /\ received[c] \in 0 .. 2 * Len(relayed[c])
                          /\ summary[c] = SubSeq(relayed[c], 1, received[c] \div 2)
         /\ ~loading[c] => /\ handler[c] \in {"idle", "done"}
                           /\ summary[c] = relayed[c]

RInv == \A c \in Chats : Row(c)

\* What has been generated is numbered from one, and grows at its end.
LEMMA GeneratedFacts ==
  ASSUME NEW c, NEW n \in Nat
  PROVE  /\ Generated(c, n) \in Seq(Nat)
         /\ Len(Generated(c, n)) = n
         /\ \A i \in 1 .. n : Generated(c, n)[i] = i
         /\ Append(Generated(c, n), n + 1) = Generated(c, n + 1)
<1>1. ASSUME NEW m \in Nat
      PROVE  /\ Generated(c, m) \in Seq(Nat)
             /\ Len(Generated(c, m)) = m
             /\ \A i \in 1 .. m : Generated(c, m)[i] = i
  BY DEF Generated
<1>2. /\ Append(Generated(c, n), n + 1) \in Seq(Nat)
      /\ Len(Append(Generated(c, n), n + 1)) = n + 1
      /\ \A i \in 1 .. n : Append(Generated(c, n), n + 1)[i] = i
      /\ Append(Generated(c, n), n + 1)[n + 1] = n + 1
  <2> DEFINE g == Generated(c, n)
  <2>1. g \in Seq(Nat) /\ Len(g) = n /\ \A i \in 1 .. n : g[i] = i
    BY <1>1
  <2>2. n + 1 \in Nat
    OBVIOUS
  <2> HIDE DEF g
  <2>3. /\ Append(g, n + 1) \in Seq(Nat)
        /\ Len(Append(g, n + 1)) = n + 1
        /\ \A i \in 1 .. n : Append(g, n + 1)[i] = g[i]
        /\ Append(g, n + 1)[n + 1] = n + 1
    BY <2>1, <2>2, AppendProperties
  <2> QED BY <2>1, <2>3 DEF g
<1>3. \A i \in 1 .. n + 1 : Append(Generated(c, n), n + 1)[i] = Generated(c, n + 1)[i]
  <2> TAKE i \in 1 .. n + 1
  <2>1. Generated(c, n + 1)[i] = i
    BY <1>1
  <2>2. i \in 1 .. n \/ i = n + 1
    OBVIOUS
  <2> QED BY <1>2, <2>1, <2>2
<1>4. Append(Generated(c, n), n + 1) = Generated(c, n + 1)
  BY <1>1, <1>2, <1>3, SeqEqual
<1> QED BY <1>1, <1>4

\* Before the first line there is nothing.
LEMMA NothingGenerated == ASSUME NEW c PROVE Generated(c, 0) = <<>>
  BY DEF Generated

\* A beginning stays one when more is relayed.
LEMMA AppendPrefix ==
  ASSUME NEW S, NEW s \in Seq(S), NEW x \in S, NEW k \in 0 .. Len(s)
  PROVE  SubSeq(Append(s, x), 1, k) = SubSeq(s, 1, k)
<1> DEFINE t == Append(s, x)
<1>1. /\ t \in Seq(S) /\ Len(t) = Len(s) + 1
      /\ \A i \in 1 .. Len(s) : t[i] = s[i]
  BY AppendProperties
<1>2. \A i \in 1 .. k : t[i] \in S /\ s[i] \in S /\ t[i] = s[i]
  BY <1>1
<1> HIDE DEF t
<1>3. /\ SubSeq(t, 1, k) \in Seq(S) /\ Len(SubSeq(t, 1, k)) = k
      /\ \A i \in 1 .. k : SubSeq(t, 1, k)[i] = t[i]
  <2>1. /\ SubSeq(t, 1, k) \in Seq(S)
        /\ Len(SubSeq(t, 1, k)) = IF 1 <= k THEN k - 1 + 1 ELSE 0
        /\ \A i \in 1 .. k - 1 + 1 : SubSeq(t, 1, k)[i] = t[1 + i - 1]
    BY <1>2, SubSeqProperties
  <2> QED BY <2>1
<1>4. /\ SubSeq(s, 1, k) \in Seq(S) /\ Len(SubSeq(s, 1, k)) = k
      /\ \A i \in 1 .. k : SubSeq(s, 1, k)[i] = s[i]
  <2>1. /\ SubSeq(s, 1, k) \in Seq(S)
        /\ Len(SubSeq(s, 1, k)) = IF 1 <= k THEN k - 1 + 1 ELSE 0
        /\ \A i \in 1 .. k - 1 + 1 : SubSeq(s, 1, k)[i] = s[1 + i - 1]
    BY <1>2, SubSeqProperties
  <2> QED BY <2>1
<1>5. SubSeq(t, 1, k) = SubSeq(s, 1, k)
  BY <1>2, <1>3, <1>4, SeqEqual
<1> QED BY <1>5 DEF t

\* The beginning of what was generated is what was generated first.
LEMMA GeneratedPrefix ==
  ASSUME NEW c, NEW n \in Nat, NEW k \in 0 .. n
  PROVE  SubSeq(Generated(c, n), 1, k) = Generated(c, k)
<1> DEFINE g == Generated(c, n)
<1>1. \A i \in 1 .. k : g[i] \in Nat /\ g[i] = i
  <2>1. \A i \in 1 .. n : g[i] = i
    BY GeneratedFacts
  <2> QED BY <2>1
<1> HIDE DEF g
<1>2. /\ SubSeq(g, 1, k) \in Seq(Nat)
      /\ Len(SubSeq(g, 1, k)) = IF 1 <= k THEN k - 1 + 1 ELSE 0
      /\ \A i \in 1 .. k - 1 + 1 : SubSeq(g, 1, k)[i] = g[1 + i - 1]
  BY <1>1, SubSeqProperties
<1>3. \A i \in 1 .. k : SubSeq(g, 1, k)[i] = i
  BY <1>1, <1>2
<1>4. SubSeq(g, 1, k) = Generated(c, k)
  <2>1. /\ Generated(c, k) \in Seq(Nat) /\ Len(Generated(c, k)) = k
        /\ \A i \in 1 .. k : Generated(c, k)[i] = i
    BY GeneratedFacts
  <2>2. Len(SubSeq(g, 1, k)) = k
    BY <1>2
  <2>3. \A i \in 1 .. Len(SubSeq(g, 1, k)) : SubSeq(g, 1, k)[i] = Generated(c, k)[i]
    BY <1>3, <2>1, <2>2
  <2> QED BY <1>2, <2>1, <2>2, <2>3, SeqEqual
<1> QED BY <1>4 DEF g

\* Every row is right at first.
LEMMA RInvInit == Init => RInv
<1> SUFFICES ASSUME Init, NEW c \in Chats PROVE Row(c)
  BY DEF RInv
<1>1. ~broken[c] /\ ~loading[c] /\ handler[c] = "idle" /\ summary[c] = <<>> /\ relayed[c] = <<>>
  BY DEF Init
<1>2. generated[c] = 0 /\ goroutine[c] = "idle" /\ pipe[c] = "open"
  BY DEF Init
<1> QED BY <1>1, <1>2 DEF Row, Relayed

\* Nothing happens to a chat that Row speaks of.
Untouched(d) ==
    /\ broken'[d] = broken[d] /\ loading'[d] = loading[d] /\ summary'[d] = summary[d]
    /\ handler'[d] = handler[d] /\ relayed'[d] = relayed[d] /\ received'[d] = received[d]
    /\ goroutine'[d] = goroutine[d] /\ line'[d] = line[d]
    /\ pipe'[d] = pipe[d] /\ generated'[d] = generated[d]

\* A row no step of its chat touches stays right.
LEMMA UntouchedRow == ASSUME NEW d \in Chats, Row(d), Untouched(d) PROVE Row(d)'
  BY DEF Row, Relayed, Generated, Untouched

-----------------------------------------------------------------------------
(* Steps of a row's chat.                                                    *)

\* A step of one chat leaves the others alone.
LEMMA Alone ==
  ASSUME RInv, NEW c \in Chats, Row(c)', \A d \in Chats \ {c} : Untouched(d)
  PROVE  RInv'
  BY UntouchedRow DEF RInv

\* What is relayed is a sequence.
LEMMA RelayedSeq ==
  ASSUME ChatTypes, NEW c \in Chats
  PROVE  relayed[c] \in Seq(Text) /\ Len(relayed[c]) \in Nat /\ received[c] \in Nat
  BY DEF ChatTypes

\* More is relayed, while the row is loading.
LEMMA MoreRelayed ==
  ASSUME ChatTypes, NEW c \in Chats, Row(c), ~broken[c], handler[c] \in {"called", "reading"},
         NEW x \in Text, relayed'[c] = Append(relayed[c], x),
         Relayed(c)',
         UNCHANGED <<broken[c], loading[c], summary[c], received[c]>>
  PROVE  Row(c)'
<1>1. loading[c]
  BY DEF Row
<1>2. /\ received[c] \in 0 .. 2 * Len(relayed[c])
      /\ summary[c] = SubSeq(relayed[c], 1, received[c] \div 2)
  BY <1>1 DEF Row
<1>3. Len(relayed'[c]) = Len(relayed[c]) + 1
  BY RelayedSeq, AppendProperties
<1>4. received[c] \div 2 \in 0 .. Len(relayed[c])
  BY <1>2, RelayedSeq
<1>5. SubSeq(relayed'[c], 1, received[c] \div 2) = SubSeq(relayed[c], 1, received[c] \div 2)
  BY <1>4, RelayedSeq, AppendPrefix
<1>6. received[c] \in 0 .. 2 * Len(relayed'[c])
  BY <1>2, <1>3, RelayedSeq
<1> QED BY <1>1, <1>2, <1>5, <1>6 DEF Row

\* A chat begins, or begins again, with nothing relayed.
LEMMA AskRow == ASSUME ChatTypes, RInv, NEW c \in Chats, Ask(c) PROVE RInv'
<1>1. ~loading[c] /\ summary[c] = <<>>
  BY DEF Ask
<1>2. ~broken[c] /\ Row(c)
  BY <1>1 DEF RInv, Row
<1>3. relayed[c] = <<>> /\ handler[c] \in {"idle", "done"}
  BY <1>1, <1>2 DEF Row
<1>4. goroutine[c] = "idle"
  <2>1. CASE handler[c] = "idle"
    BY <1>2, <2>1 DEF Row, Relayed
  <2>2. CASE handler[c] = "done"
    <3>1. ASSUME NEW n \in 0 .. generated[c], relayed[c] = Append(Generated(c, n), ErrorText)
          PROVE  FALSE
      <4>1. n \in Nat
        BY DEF ChatTypes
      <4>2. Generated(c, n) \in Seq(Nat \union {ErrorText})
        BY <4>1, GeneratedFacts, SeqMonotonic
      <4>3. Append(Generated(c, n), ErrorText) # <<>>
        <5> DEFINE S == Nat \union {ErrorText}
        <5>1. Generated(c, n) \in Seq(S) /\ ErrorText \in S
          BY <4>2
        <5> HIDE DEF S
        <5> QED BY <5>1, AppendProperties
      <4> QED BY <1>3, <3>1, <4>3
    <3> QED BY <1>2, <2>2, <3>1 DEF Row, Relayed
  <2> QED BY <1>3, <2>1, <2>2
<1>5. /\ loading'[c] = TRUE /\ received'[c] = 0 /\ handler'[c] = "called"
      /\ relayed'[c] = <<>> /\ pipe'[c] = "open" /\ generated'[c] = 0
      /\ summary'[c] = <<>> /\ broken'[c] = broken[c] /\ goroutine'[c] = goroutine[c]
  BY <1>1 DEF Ask, At, ChatTypes
<1>6. SubSeq(<<>>, 1, 0 \div 2) = <<>>
  BY SubSeqEmpty
<1>7. Row(c)'
  BY <1>2, <1>4, <1>5, <1>6 DEF Row, Relayed
<1>8. \A d \in Chats \ {c} : Untouched(d)
  BY DEF Ask, At, Untouched, ChatTypes
<1> QED BY <1>7, <1>8, Alone

\* The row takes in more of what has been relayed.
LEMMA ReadRow == ASSUME ChatTypes, RInv, NEW c \in Chats, NEW n \in Nat, Read(c, n) PROVE RInv'
<1>1. /\ loading[c] /\ ~broken[c]
      /\ n \in received[c] + 1 .. 2 * Len(relayed[c])
  BY DEF Read
<1>2. /\ received[c] \in 0 .. 2 * Len(relayed[c])
      /\ summary[c] = SubSeq(relayed[c], 1, received[c] \div 2)
      /\ Relayed(c)
  BY <1>1 DEF RInv, Row
<1>3. /\ received[c] \div 2 \in 0 .. Len(relayed[c])
      /\ n \div 2 \in received[c] \div 2 .. Len(relayed[c])
      /\ n \in 0 .. 2 * Len(relayed[c])
  BY <1>1, <1>2, RelayedSeq
<1>4. summary'[c] = summary[c] \o Decoded(c, n) /\ received'[c] = n
  BY DEF Read, At, ChatTypes
<1>5. /\ broken'[c] = broken[c] /\ loading'[c] = loading[c] /\ handler'[c] = handler[c]
      /\ relayed'[c] = relayed[c] /\ goroutine'[c] = goroutine[c] /\ line'[c] = line[c]
      /\ pipe'[c] = pipe[c] /\ generated'[c] = generated[c]
  BY DEF Read, served, asked
<1>6. summary'[c] = SubSeq(relayed[c], 1, n \div 2)
  <2> DEFINE s == relayed[c]
             k == received[c] \div 2
             m == n \div 2
  <2>1. s \in Seq(Text) /\ 1 \in 1 .. Len(s) + 1 /\ k \in 1 - 1 .. Len(s) /\ m \in k .. Len(s)
    BY <1>3, RelayedSeq
  <2>2. summary'[c] = SubSeq(s, 1, k) \o SubSeq(s, k + 1, m)
    BY <1>2, <1>4 DEF Decoded
  <2> HIDE DEF s, k, m
  <2>3. SubSeq(s, 1, k) \o SubSeq(s, k + 1, m) = SubSeq(s, 1, m)
    BY <2>1, ConcatAdjacentSubSeq
  <2> QED BY <2>2, <2>3 DEF s, m
<1>7. Relayed(c)'
  BY <1>2, <1>5 DEF Relayed, Generated
<1>8. Row(c)'
  BY <1>1, <1>3, <1>4, <1>5, <1>6, <1>7 DEF Row
<1>9. \A d \in Chats \ {c} : Untouched(d)
  BY DEF Read, served, asked, At, Untouched, ChatTypes
<1> QED BY <1>8, <1>9, Alone

\* The row has all that was relayed when it stops.
LEMMA CompletedRow == ASSUME ChatTypes, RInv, NEW c \in Chats, Completed(c) PROVE RInv'
<1>1. /\ loading[c] /\ ~broken[c]
      /\ handler[c] = "done"
      /\ received[c] = 2 * Len(relayed[c])
  BY DEF Completed
<1>2. Relayed(c) /\ summary[c] = SubSeq(relayed[c], 1, received[c] \div 2)
  BY <1>1 DEF RInv, Row
<1>3. summary[c] = relayed[c]
  <2>1. received[c] \div 2 = Len(relayed[c])
    <3>1. \A n \in Nat : (2 * n) \div 2 = n
      OBVIOUS
    <3> QED BY <1>1, <3>1, RelayedSeq
  <2> QED BY <1>2, <2>1, RelayedSeq, SubSeqFull
<1>4. /\ broken'[c] = broken[c] /\ ~loading'[c] /\ handler'[c] = handler[c]
      /\ summary'[c] = summary[c]
      /\ relayed'[c] = relayed[c] /\ goroutine'[c] = goroutine[c] /\ line'[c] = line[c]
      /\ pipe'[c] = pipe[c] /\ generated'[c] = generated[c]
  BY DEF Completed, served, asked, At, ChatTypes
<1>5. Relayed(c)'
  BY <1>2, <1>4 DEF Relayed, Generated
<1>6. Row(c)'
  BY <1>1, <1>3, <1>4, <1>5 DEF Row
<1>7. \A d \in Chats \ {c} : Untouched(d)
  BY DEF Completed, served, asked, At, Untouched, ChatTypes
<1> QED BY <1>6, <1>7, Alone

\* A row with an error promises nothing but that.
LEMMA BreaksRow == ASSUME ChatTypes, RInv, NEW c \in Chats, Breaks(c) PROVE RInv'
<1>1. broken'[c] /\ ~loading'[c] /\ summary'[c] = <<Failure>>
  BY DEF Breaks, At, LoadingAfter, ChatTypes
<1>2. Row(c)'
  BY <1>1 DEF Row
<1>3. \A d \in Chats \ {c} : Untouched(d)
  BY DEF Breaks, asked, At, Untouched, ChatTypes
<1> QED BY <1>2, <1>3, Alone

-----------------------------------------------------------------------------
(* Steps of the server for a row's chat.                                     *)

\* The row of a broken connection is done with.
LEMMA BrokenRow ==
  ASSUME NEW c \in Chats, Row(c), broken[c], UNCHANGED <<broken[c], loading[c], summary[c]>>
  PROVE  Row(c)'
  BY DEF Row

\* Nothing more is relayed.
LEMMA SameRelayed ==
  ASSUME NEW c \in Chats, Row(c), ~broken[c],
         UNCHANGED <<broken[c], loading[c], summary[c], received[c], relayed[c]>>,
         ~loading[c] => handler'[c] \in {"idle", "done"},
         Relayed(c)'
  PROVE  Row(c)'
  BY DEF Row

\* The handler answers, or refuses.
LEMMA BeginRow ==
  ASSUME ChatTypes, RInv, NEW c \in Chats, Begin(c) \/ BeginFails(c)
  PROVE  RInv'
<1> USE DEF ChatTypes
<1>1. /\ handler[c] = "called"
      /\ broken'[c] = broken[c] /\ loading'[c] = loading[c] /\ summary'[c] = summary[c]
      /\ received'[c] = received[c] /\ pipe'[c] = pipe[c] /\ generated'[c] = generated[c]
      /\ line'[c] = line[c]
  BY DEF Begin, BeginFails, row, asked
<1>2. Row(c)
  BY DEF RInv
<1>3. Row(c)'
  <2>1. CASE broken[c]
    BY <1>1, <1>2, <2>1, BrokenRow
  <2>2. CASE ~broken[c]
    <3>1. /\ relayed[c] = <<>> /\ generated[c] = 0 /\ goroutine[c] = "idle" /\ pipe[c] = "open"
          /\ loading[c]
      BY <1>1, <1>2, <2>2 DEF Row, Relayed
    <3>2. CASE Begin(c)
      <4>1. handler'[c] = "reading" /\ goroutine'[c] = "start" /\ relayed'[c] = relayed[c]
        BY <3>2 DEF Begin, At
      <4>2. Relayed(c)'
        BY <1>1, <3>1, <4>1 DEF Relayed, Generated
      <4> QED BY <1>1, <1>2, <2>2, <3>1, <4>1, <4>2, SameRelayed
    <3>3. CASE BeginFails(c)
      <4>1. handler'[c] = "done" /\ goroutine'[c] = goroutine[c] /\ relayed'[c] = <<ErrorText>>
        BY <3>3 DEF BeginFails, At
      <4>2. relayed'[c] = Append(relayed[c], ErrorText) /\ ErrorText \in Text
        BY <3>1, <4>1 DEF Text
      <4>3. relayed'[c] = Append(Generated(c, 0), ErrorText)
        BY <3>1, <4>2, NothingGenerated
      <4>4. Relayed(c)'
        BY <1>1, <3>1, <4>1, <4>3 DEF Relayed, Generated
      <4> QED BY <1>1, <1>2, <2>2, <4>2, <4>4, MoreRelayed
    <3> QED BY <3>2, <3>3
  <2> QED BY <2>1, <2>2
<1>4. \A d \in Chats \ {c} : Untouched(d)
  BY DEF Begin, BeginFails, row, asked, At, Untouched
<1> QED BY <1>3, <1>4, Alone

\* A character goes from the goroutine through the handler.
LEMMA RelayRow == ASSUME ChatTypes, RInv, NEW c \in Chats, Relay(c) PROVE RInv'
<1>1. /\ handler[c] = "reading" /\ goroutine[c] = "write"
      /\ broken'[c] = broken[c] /\ loading'[c] = loading[c] /\ summary'[c] = summary[c]
      /\ received'[c] = received[c] /\ pipe'[c] = pipe[c] /\ generated'[c] = generated[c]
  BY DEF Relay, row, asked
<1>2. goroutine'[c] \in {"end", "scan"} /\ line'[c] = 0
  BY DEF Relay, Written, At, ChatTypes
<1>3. Row(c)
  BY DEF RInv
<1>4. Row(c)'
  <2>1. CASE broken[c]
    BY <1>1, <1>3, <2>1, BrokenRow
  <2>2. CASE ~broken[c]
    <3>1. /\ loading[c]
          /\ line[c] = 0 => relayed[c] = Generated(c, generated[c])
          /\ line[c] # 0 => line[c] = generated[c] /\ relayed[c] = Generated(c, generated[c] - 1)
          /\ pipe[c] # "eof"
      BY <1>1, <1>3, <2>2 DEF Row, Relayed
    <3>2. generated[c] \in Nat /\ line[c] \in 0 .. MaxLines
      BY DEF ChatTypes
    <3>3. CASE RelayChar(c)
      <4>1. line[c] # 0 /\ relayed'[c] = Append(relayed[c], line[c]) /\ handler'[c] = handler[c]
        BY <3>3 DEF RelayChar, At, ChatTypes
      <4>2. generated[c] - 1 \in Nat /\ line[c] = generated[c] - 1 + 1 /\ line[c] \in Text
        BY <3>1, <3>2, <4>1 DEF Text
      <4>3. relayed'[c] = Generated(c, generated[c] - 1 + 1)
        <5> DEFINE m == generated[c] - 1
        <5>1. m \in Nat /\ line[c] = m + 1 /\ relayed[c] = Generated(c, m)
          BY <3>1, <4>1, <4>2
        <5> HIDE DEF m
        <5>2. Append(Generated(c, m), m + 1) = Generated(c, m + 1)
          BY <5>1, GeneratedFacts
        <5>3. relayed'[c] = Generated(c, m + 1)
          BY <4>1, <5>1, <5>2
        <5> QED BY <5>3 DEF m
      <4>4. relayed'[c] = Generated(c, generated[c])
        BY <3>2, <4>3
      <4>5. Relayed(c)'
        BY <1>1, <1>2, <3>1, <4>1, <4>4 DEF Relayed, Generated
      <4> QED BY <1>1, <1>3, <2>2, <4>1, <4>2, <4>5, MoreRelayed
    <3>4. CASE RelayNothing(c)
      <4>1. line[c] = 0 /\ relayed'[c] = relayed[c] /\ handler'[c] = handler[c]
        BY <3>4 DEF RelayNothing
      <4>2. Relayed(c)'
        BY <1>1, <1>2, <3>1, <4>1 DEF Relayed, Generated
      <4> QED BY <1>1, <1>3, <2>2, <3>1, <4>1, <4>2, SameRelayed
    <3>5. CASE GiveUp(c)
      <4>1. /\ line[c] = 0 /\ relayed'[c] = Append(relayed[c], ErrorText)
            /\ handler'[c] = "done" /\ ErrorText \in Text
        BY <3>5 DEF GiveUp, At, Text, ChatTypes
      <4>2. relayed'[c] = Append(Generated(c, generated[c]), ErrorText)
        BY <3>1, <4>1
      <4>3. Relayed(c)'
        BY <1>1, <3>2, <4>1, <4>2 DEF Relayed, Generated
      <4> QED BY <1>1, <1>3, <2>2, <4>1, <4>3, MoreRelayed
    <3>6. CASE WriteFails(c)
      BY <2>2, <3>6 DEF WriteFails
    <3> QED BY <3>3, <3>4, <3>5, <3>6 DEF Relay
  <2> QED BY <2>1, <2>2
<1>5. \A d \in Chats \ {c} : Untouched(d)
  <2>1. \A d \in Chats \ {c} : relayed'[d] = relayed[d] /\ handler'[d] = handler[d]
    BY DEF Relay, RelayChar, RelayNothing, GiveUp, WriteFails, At, ChatTypes
  <2> QED BY <2>1 DEF Relay, Written, row, asked, At, Untouched, ChatTypes
<1> QED BY <1>4, <1>5, Alone

\* The pipe ends behind the last character, or with an error.
LEMMA PipeEndsRow == ASSUME ChatTypes, RInv, NEW c \in Chats, PipeEnds(c) PROVE RInv'
<1>1. /\ handler[c] = "reading" /\ handler'[c] = "done" /\ pipe[c] \in {"error", "eof"}
      /\ broken'[c] = broken[c] /\ loading'[c] = loading[c] /\ summary'[c] = summary[c]
      /\ received'[c] = received[c] /\ pipe'[c] = pipe[c] /\ generated'[c] = generated[c]
      /\ goroutine'[c] = goroutine[c] /\ line'[c] = line[c]
  BY DEF PipeEnds, row, asked, At, ChatTypes
<1>2. Row(c)
  BY DEF RInv
<1>3. Row(c)'
  <2>1. CASE broken[c]
    BY <1>1, <1>2, <2>1, BrokenRow
  <2>2. CASE ~broken[c]
    <3>1. loading[c] /\ Relayed(c)
      BY <1>1, <1>2, <2>2 DEF Row
    <3>2. CASE pipe[c] = "eof"
      <4>1. relayed'[c] = relayed[c]
        BY <3>2 DEF PipeEnds
      <4>2. goroutine[c] = "idle" /\ relayed[c] = Generated(c, generated[c])
        BY <1>1, <3>1, <3>2 DEF Relayed
      <4>3. Relayed(c)'
        BY <1>1, <4>1, <4>2 DEF Relayed, Generated
      <4> QED BY <1>1, <1>2, <2>2, <3>1, <4>1, <4>3, SameRelayed
    <3>3. CASE pipe[c] = "error"
      <4>1. relayed'[c] = Append(relayed[c], ErrorText) /\ ErrorText \in Text
        BY <3>3 DEF PipeEnds, At, Text, ChatTypes
      <4>2. PICK n \in 0 .. generated[c] : relayed[c] = Generated(c, n)
        <5>1. generated[c] \in Nat
          BY DEF ChatTypes
        <5>2. CASE goroutine[c] # "write" \/ line[c] = 0
          BY <1>1, <3>1, <5>1, <5>2 DEF Relayed
        <5>3. CASE goroutine[c] = "write" /\ line[c] # 0
          <6>1. line[c] = generated[c] /\ relayed[c] = Generated(c, generated[c] - 1)
            BY <1>1, <3>1, <5>3 DEF Relayed
          <6>2. generated[c] - 1 \in 0 .. generated[c]
            BY <5>1, <5>3, <6>1
          <6> QED BY <6>1, <6>2
        <5> QED BY <5>2, <5>3
      <4>3. relayed'[c] = Append(Generated(c, n), ErrorText)
        BY <4>1, <4>2
      <4>4. Relayed(c)'
        BY <1>1, <4>3 DEF Relayed, Generated
      <4> QED BY <1>1, <1>2, <2>2, <4>1, <4>4, MoreRelayed
    <3> QED BY <1>1, <3>2, <3>3
  <2> QED BY <2>1, <2>2
<1>4. \A d \in Chats \ {c} : Untouched(d)
  <2>1. \A d \in Chats \ {c} : relayed'[d] = relayed[d]
    BY DEF PipeEnds, At, ChatTypes
  <2> QED BY <2>1 DEF PipeEnds, row, asked, At, Untouched, ChatTypes
<1> QED BY <1>3, <1>4, Alone

\* A step of the goroutine: it was about, and writes no character yet.
LEMMA GoroutineRow ==
  ASSUME ChatTypes, RInv, NEW c \in Chats,
         UNCHANGED <<broken[c], loading[c], summary[c], received[c], relayed[c], handler[c]>>,
         \/ goroutine[c] \in {"start", "scan", "end"}
         \/ goroutine[c] = "write" /\ handler[c] = "done",
         \/ /\ generated'[c] = generated[c] /\ goroutine'[c] # "write"
            /\ pipe'[c] \in {pipe[c], "error"}
         \/ generated'[c] = generated[c] /\ goroutine'[c] = "idle"
         \/ generated'[c] = generated[c] /\ line'[c] = 0 /\ pipe'[c] = pipe[c]
         \/ /\ generated'[c] = generated[c] + 1 /\ goroutine'[c] = "write"
            /\ line'[c] = generated'[c] /\ pipe'[c] = pipe[c],
         \A d \in Chats \ {c} : Untouched(d)
  PROVE  RInv'
<1>1. Row(c) /\ generated[c] \in Nat
  BY DEF RInv, ChatTypes
<1>2. Row(c)'
  <2>1. CASE broken[c]
    BY <1>1, <2>1, BrokenRow
  <2>2. CASE ~broken[c]
    <3>1. Relayed(c)
      BY <1>1, <2>2 DEF Row
    <3>2. handler[c] \in {"reading", "done"}
      BY <3>1 DEF Relayed, ChatTypes
    <3>3. CASE handler[c] = "reading"
      <4>1. relayed[c] = Generated(c, generated[c]) /\ pipe[c] # "eof"
        BY <3>1, <3>3 DEF Relayed
      <4>2. generated[c] + 1 - 1 = generated[c] /\ generated[c] + 1 # 0
        BY <1>1
      <4>3. Relayed(c)'
        <5>1. CASE generated'[c] = generated[c]
          <6>1. relayed'[c] = Generated(c, generated'[c])
            BY <4>1, <5>1
          <6>2. ~(goroutine'[c] = "write" /\ line'[c] # 0)
            BY <1>1, <5>1
          <6>3. pipe'[c] = "eof" => goroutine'[c] = "idle"
            BY <1>1, <4>1, <5>1
          <6> QED BY <3>3, <6>1, <6>2, <6>3 DEF Relayed, Generated
        <5>2. CASE generated'[c] = generated[c] + 1
          <6>1. /\ goroutine'[c] = "write" /\ line'[c] = generated'[c] /\ line'[c] # 0
                /\ pipe'[c] # "eof"
            BY <1>1, <4>1, <4>2, <5>2
          <6>2. relayed'[c] = Generated(c, generated'[c] - 1)
            <7>1. generated'[c] - 1 = generated[c]
              BY <1>1, <5>2
            <7>2. relayed'[c] = Generated(c, generated[c])
              BY <4>1
            <7> QED BY <7>1, <7>2, Zenon
          <6> QED BY <3>3, <6>1, <6>2 DEF Relayed, Generated
        <5> QED BY <5>1, <5>2
      <4>4. ~loading[c] => handler'[c] \in {"idle", "done"}
        BY <1>1, <2>2 DEF Row
      <4> QED BY <1>1, <2>2, <4>3, <4>4, SameRelayed
    <3>4. CASE handler[c] = "done"
      <4>1. PICK n \in 0 .. generated[c] : relayed[c] = Append(Generated(c, n), ErrorText)
        BY <3>1, <3>4 DEF Relayed
      <4>2. n \in 0 .. generated'[c]
        BY <1>1, <4>1
      <4>3. Relayed(c)'
        BY <3>4, <4>1, <4>2 DEF Relayed, Generated
      <4> QED BY <1>1, <2>2, <3>4, <4>3, SameRelayed
    <3> QED BY <3>2, <3>3, <3>4
  <2> QED BY <2>1, <2>2
<1> QED BY <1>2, Alone

\* The goroutine adds nothing that was not generated.
LEMMA GoroutineKeeps ==
  ASSUME ChatTypes, RInv, NEW c \in Chats, Goroutine(c)
  PROVE  RInv'
<1>1. CASE UsesHttp(c)
  <2>1. \A d \in Chats : Untouched(d)
    BY <1>1 DEF UsesHttp, row, served, asked, Untouched
  <2> QED BY <2>1, UntouchedRow DEF RInv
<1>2. CASE WriteReleased(c)
  <2>1. /\ UNCHANGED <<broken[c], loading[c], summary[c], received[c], relayed[c], handler[c]>>
        /\ goroutine[c] = "write" /\ handler[c] = "done"
        /\ generated'[c] = generated[c] /\ goroutine'[c] # "write" /\ pipe'[c] = pipe[c]
    BY <1>2 DEF WriteReleased, Released, Written, row, served, asked, At, ChatTypes
  <2>2. \A d \in Chats \ {c} : Untouched(d)
    BY <1>2 DEF WriteReleased, Written, row, served, asked, At, Untouched, ChatTypes
  <2> QED BY <2>1, <2>2, GoroutineRow
<1>3. CASE ClosePipe(c)
  <2>1. /\ UNCHANGED <<broken[c], loading[c], summary[c], received[c], relayed[c], handler[c]>>
        /\ goroutine[c] = "end" /\ generated'[c] = generated[c] /\ goroutine'[c] = "idle"
    BY <1>3 DEF ClosePipe, row, asked, At, ChatTypes
  <2>2. \A d \in Chats \ {c} : Untouched(d)
    BY <1>3 DEF ClosePipe, row, asked, At, Untouched, ChatTypes
  <2> QED BY <2>1, <2>2, GoroutineRow
<1> QED BY <1>1, <1>2, <1>3 DEF Goroutine

\* The provider generates the next character, ends, or fails.
LEMMA ProviderKeeps ==
  ASSUME ChatTypes, RInv, NEW c \in Chats, Provider(c)
  PROVE  RInv'
<1>1. CASE Send(c)
  <2>1. /\ UNCHANGED <<broken[c], loading[c], summary[c], received[c], relayed[c], handler[c]>>
        /\ goroutine[c] = "start" /\ generated'[c] = generated[c]
        /\ goroutine'[c] # "write" /\ pipe'[c] = pipe[c]
    BY <1>1 DEF Send, row, served, asked, At, ChatTypes
  <2>2. \A d \in Chats \ {c} : Untouched(d)
    BY <1>1 DEF Send, row, served, asked, At, Untouched, ChatTypes
  <2> QED BY <2>1, <2>2, GoroutineRow
<1>2. CASE Fails(c) /\ goroutine[c] \in {"start", "scan"}
  <2>1. /\ UNCHANGED <<broken[c], loading[c], summary[c], received[c], relayed[c], handler[c]>>
        /\ generated'[c] = generated[c]
        /\ goroutine'[c] # "write" /\ pipe'[c] = "error"
    BY <1>2 DEF Fails, row, At, ChatTypes
  <2>2. \A d \in Chats \ {c} : Untouched(d)
    BY <1>2 DEF Fails, row, At, Untouched, ChatTypes
  <2> QED BY <1>2, <2>1, <2>2, GoroutineRow
<1>3. CASE ScanEnds(c)
  <2>1. /\ UNCHANGED <<broken[c], loading[c], summary[c], received[c], relayed[c], handler[c]>>
        /\ goroutine[c] = "scan" /\ generated'[c] = generated[c]
        /\ goroutine'[c] # "write" /\ pipe'[c] = pipe[c]
    BY <1>3 DEF ScanEnds, row, served, At, ChatTypes
  <2>2. \A d \in Chats \ {c} : Untouched(d)
    BY <1>3 DEF ScanEnds, row, served, At, Untouched, ChatTypes
  <2> QED BY <2>1, <2>2, GoroutineRow
<1>4. ASSUME NEW text \in BOOLEAN, NEW last \in BOOLEAN, Line(c, text, last) PROVE RInv'
  <2>1. /\ UNCHANGED <<broken[c], loading[c], summary[c], received[c], relayed[c], handler[c]>>
        /\ goroutine[c] = "scan" /\ goroutine'[c] = "write" /\ pipe'[c] = pipe[c]
    BY <1>4 DEF Line, ThenWrite, row, served, At, ChatTypes
  <2>2. /\ line'[c] = (IF text THEN generated[c] + 1 ELSE 0)
        /\ generated'[c] = generated[c] + (IF text THEN 1 ELSE 0)
    BY <1>4 DEF Line, At, ChatTypes
  <2>3. \/ generated'[c] = generated[c] /\ line'[c] = 0
        \/ generated'[c] = generated[c] + 1 /\ line'[c] = generated'[c]
    <3>1. generated[c] \in Nat
      BY DEF ChatTypes
    <3> QED BY <2>2, <3>1
  <2>4. \A d \in Chats \ {c} : Untouched(d)
    BY <1>4 DEF Line, row, served, At, Untouched, ChatTypes
  <2> QED BY <2>1, <2>3, <2>4, GoroutineRow
<1> QED BY <1>1, <1>2, <1>3, <1>4 DEF Provider, SendFails, ScanFails

\* Every step keeps every row right.
LEMMA RInvStep == ChatTypes /\ RInv /\ [Next]_vars => RInv'
<1> SUFFICES ASSUME ChatTypes, RInv, [Next]_vars PROVE RInv'
  OBVIOUS
<1>1. ASSUME NEW c \in Chats, User(c) \/ Browser(c) \/ Breaks(c) PROVE RInv'
  <2>1. CASE Toggle(c)
    <3>1. \A d \in Chats : Untouched(d)
      BY <2>1 DEF Toggle, served, asked, Untouched
    <3> QED BY <3>1, UntouchedRow DEF RInv
  <2>2. ASSUME NEW n \in 1 .. 2 * Len(relayed[c]), Read(c, n) PROVE RInv'
    <3>1. n \in Nat
      BY RelayedSeq
    <3> QED BY <2>2, <3>1, ReadRow
  <2> QED BY <1>1, <2>1, <2>2, AskRow, CompletedRow, BreaksRow DEF User, Browser
<1>2. ASSUME NEW c \in Chats, Handler(c) PROVE RInv'
  BY <1>2, BeginRow, RelayRow, PipeEndsRow DEF Handler
<1>3. ASSUME NEW r \in Requests \ Chats, Embed(r) PROVE RInv'
  <2>1. \A d \in Chats : Untouched(d)
    BY <1>3 DEF Embed, served, asked, Untouched
  <2> QED BY <2>1, UntouchedRow DEF RInv
<1>4. CASE UNCHANGED vars
  <2>1. \A d \in Chats : Untouched(d)
    BY <1>4 DEF vars, row, served, asked, Untouched
  <2> QED BY <2>1, UntouchedRow DEF RInv
<1> QED BY <1>1, <1>2, <1>3, <1>4, GoroutineKeeps, ProviderKeeps DEF Next

-----------------------------------------------------------------------------
(* What a row shows.                                                         *)

\* The beginnings of what the handler has relayed: characters as they were
\* generated, and at most one error, which is the last.
LEMMA RelayedPrefix ==
  ASSUME ChatTypes, NEW c \in Chats, Relayed(c), NEW k \in 0 .. Len(relayed[c])
  PROVE  \E n \in 0 .. generated[c] :
           SubSeq(relayed[c], 1, k) \in {Generated(c, n), Append(Generated(c, n), ErrorText)}
<1>1. generated[c] \in Nat /\ k \in Nat
  BY RelayedSeq DEF ChatTypes
<1>2. \/ \E n \in 0 .. generated[c] : relayed[c] = Generated(c, n)
      \/ \E n \in 0 .. generated[c] : relayed[c] = Append(Generated(c, n), ErrorText)
  <2>1. CASE handler[c] \in {"idle", "called"}
    BY <1>1, <2>1, NothingGenerated DEF Relayed
  <2>2. CASE handler[c] = "reading"
    <3>1. CASE goroutine[c] = "write" /\ line[c] # 0
      <4>1. line[c] = generated[c] /\ relayed[c] = Generated(c, generated[c] - 1)
        BY <2>2, <3>1 DEF Relayed
      <4>2. generated[c] - 1 \in 0 .. generated[c]
        BY <1>1, <3>1, <4>1
      <4> QED BY <4>1, <4>2
    <3>2. CASE ~(goroutine[c] = "write" /\ line[c] # 0)
      BY <1>1, <2>2, <3>2 DEF Relayed
    <3> QED BY <3>1, <3>2
  <2>3. CASE handler[c] = "done"
    BY <1>1, <2>3 DEF Relayed
  <2> QED BY <2>1, <2>2, <2>3 DEF ChatTypes
<1>3. ASSUME NEW n \in 0 .. generated[c], NEW j \in 0 .. n
      PROVE  \E m \in 0 .. generated[c] : SubSeq(Generated(c, n), 1, j) = Generated(c, m)
  <2>1. n \in Nat /\ j \in 0 .. generated[c]
    BY <1>1
  <2> QED BY <2>1, GeneratedPrefix
<1>4. ASSUME NEW n \in 0 .. generated[c], relayed[c] = Generated(c, n)
      PROVE  \E m \in 0 .. generated[c] : SubSeq(relayed[c], 1, k) = Generated(c, m)
  <2>1. n \in Nat
    BY <1>1
  <2>2. k \in 0 .. n
    BY <1>4, <2>1, GeneratedFacts
  <2> QED BY <1>3, <1>4, <2>2
<1>5. ASSUME NEW n \in 0 .. generated[c], relayed[c] = Append(Generated(c, n), ErrorText)
      PROVE  \E m \in 0 .. generated[c] :
               SubSeq(relayed[c], 1, k) \in {Generated(c, m), Append(Generated(c, m), ErrorText)}
  <2> DEFINE S == Nat \union {ErrorText}
             g == Generated(c, n)
  <2>1. n \in Nat
    BY <1>1
  <2>2. g \in Seq(S) /\ Len(g) = n /\ ErrorText \in S
    BY <2>1, GeneratedFacts, SeqMonotonic
  <2>3. relayed[c] = Append(g, ErrorText)
    BY <1>5
  <2> HIDE DEF S, g
  <2>4. Append(g, ErrorText) \in Seq(S) /\ Len(Append(g, ErrorText)) = n + 1
    BY <2>2, AppendProperties
  <2>5. CASE k = n + 1
    <3>1. SubSeq(relayed[c], 1, k) = Append(g, ErrorText)
      BY <2>3, <2>4, <2>5, SubSeqFull
    <3> QED BY <3>1 DEF g
  <2>6. CASE k # n + 1
    <3>1. k \in 0 .. Len(g) /\ k \in 0 .. n
      BY <1>1, <2>1, <2>2, <2>3, <2>4, <2>6
    <3>2. SubSeq(relayed[c], 1, k) = SubSeq(g, 1, k)
      BY <2>2, <2>3, <3>1, AppendPrefix
    <3> QED BY <1>3, <3>1, <3>2 DEF g
  <2> QED BY <2>5, <2>6
<1> QED BY <1>2, <1>4, <1>5

\* However the bytes arrive and whatever fails, a row shows the beginning of
\* what the provider has generated, with an error after it or in its place.
THEOREM ShownIsGeneratedHolds == Spec => []ShownIsGenerated
<1>1. ChatTypes /\ RInv => ShownIsGenerated
  <2> SUFFICES ASSUME ChatTypes, RInv, NEW c \in Chats, summary[c] # <<Failure>>
               PROVE  \E n \in 0 .. generated[c] :
                        summary[c] \in {Generated(c, n), Append(Generated(c, n), ErrorText)}
    BY DEF ShownIsGenerated
  <2>1. ~broken[c] /\ Relayed(c) /\ Row(c)
    BY DEF RInv, Row
  <2>2. PICK k \in 0 .. Len(relayed[c]) : summary[c] = SubSeq(relayed[c], 1, k)
    <3>1. CASE loading[c]
      <4>1. /\ received[c] \in 0 .. 2 * Len(relayed[c])
            /\ summary[c] = SubSeq(relayed[c], 1, received[c] \div 2)
        BY <2>1, <3>1 DEF Row
      <4>2. received[c] \div 2 \in 0 .. Len(relayed[c])
        BY <4>1, RelayedSeq
      <4> QED BY <4>1, <4>2
    <3>2. CASE ~loading[c]
      <4>1. summary[c] = relayed[c]
        BY <2>1, <3>2 DEF Row
      <4>2. SubSeq(relayed[c], 1, Len(relayed[c])) = relayed[c]
        BY RelayedSeq, SubSeqFull
      <4>3. Len(relayed[c]) \in 0 .. Len(relayed[c])
        BY RelayedSeq
      <4> QED BY <4>1, <4>2, <4>3
    <3> QED BY <3>1, <3>2
  <2> QED BY <2>1, <2>2, RelayedPrefix
<1> QED BY <1>1, ChatTypesInit, ChatTypesStep, RInvInit, RInvStep, PTL DEF Spec, Init

\* A row that has stopped loading and shows no error shows the whole answer.
THEOREM WholeAnswerHolds == Spec => []WholeAnswer
<1>1. ChatTypes /\ RInv => WholeAnswer
  <2> SUFFICES ASSUME ChatTypes, RInv, NEW c \in Chats,
                      handler[c] # "called", ~loading[c],
                      \A i \in DOMAIN summary[c] : summary[c][i] \notin {ErrorText, Failure}
               PROVE  summary[c] = Generated(c, generated[c])
    BY DEF WholeAnswer
  <2>1. Row(c) /\ generated[c] \in Nat
    BY DEF RInv, ChatTypes
  <2>2. ~broken[c]
    <3>1. SUFFICES ASSUME summary[c] = <<Failure>> PROVE FALSE
      BY <2>1 DEF Row
    <3>2. 1 \in DOMAIN summary[c] /\ summary[c][1] = Failure
      BY <3>1
    <3> QED BY <3>2
  <2>3. Relayed(c) /\ handler[c] \in {"idle", "done"} /\ summary[c] = relayed[c]
    BY <2>1, <2>2 DEF Row
  <2>4. ASSUME NEW n \in 0 .. generated[c], summary[c] = Append(Generated(c, n), ErrorText)
        PROVE  FALSE
    <3> DEFINE S == Nat \union {ErrorText}
               g == Generated(c, n)
    <3>1. n \in Nat
      BY <2>1
    <3>2. g \in Seq(S) /\ Len(g) = n /\ ErrorText \in S
      BY <3>1, GeneratedFacts, SeqMonotonic
    <3>3. summary[c] = Append(g, ErrorText)
      BY <2>4
    <3> HIDE DEF S, g
    <3>4. /\ Append(g, ErrorText) \in Seq(S) /\ Len(Append(g, ErrorText)) = n + 1
          /\ Append(g, ErrorText)[Len(g) + 1] = ErrorText
      BY <3>2, AppendProperties
    <3>5. n + 1 \in DOMAIN summary[c] /\ summary[c][n + 1] = ErrorText
      BY <3>1, <3>2, <3>3, <3>4
    <3> QED BY <3>5
  <2>5. CASE handler[c] = "idle"
    BY <2>3, <2>5, NothingGenerated DEF Relayed
  <2>6. CASE handler[c] = "done"
    BY <2>3, <2>4, <2>6 DEF Relayed
  <2> QED BY <2>3, <2>5, <2>6
<1> QED BY <1>1, ChatTypesInit, ChatTypesStep, RInvInit, RInvStep, PTL DEF Spec, Init
=============================================================================
