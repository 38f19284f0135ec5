------------------------ MODULE CatalogSafetyProofs ------------------------
(* Isolation and EmbeddingsAgree of Catalog, for every value of the constants. *)
(* The first lemmas say how each part of the state may change in one step,     *)
(* whatever the action; the invariants of CatalogInvariant follow from them.   *)
EXTENDS CatalogProofs

USE DEF Stage, Ended, PC, Leader, Kind

-----------------------------------------------------------------------------
(* How each part of the state changes.                                       *)

\* The primary loses rows, or gets the row of one fetch, or an upload's rows.
LEMMA DbStep ==
  ASSUME TypeInv, [Next]_vars
  PROVE  \/ /\ db'.next = db.next
            /\ db'.owners \subseteq db.owners
            /\ db'.categories \subseteq db.categories
            /\ db'.centroids \subseteq db.centroids
            /\ db'.documents \subseteq db.documents
            /\ db'.embeddings \subseteq db.embeddings
         \/ \E r \in Request : pc[r] \in Stage /\ flight[r] = "create" /\ db' = Inserted(r)
         \/ \E r \in Request : SaveDocuments(r)
         \/ \E r \in Request : SaveEmbeddings(r)
<1>1. CASE UNCHANGED db
  BY <1>1
<1>2. ASSUME NEW r \in Request, Create(r)
      PROVE  UNCHANGED db \/ (pc[r] \in Stage /\ flight[r] = "create" /\ db' = Inserted(r))
  BY <1>2 DEF Create, TypeInv, TypeOK
<1>3. ASSUME NEW r \in Request, Delete(r)
      PROVE  /\ db'.next = db.next
             /\ db'.owners \subseteq db.owners
             /\ db'.categories \subseteq db.categories
             /\ db'.centroids \subseteq db.centroids
             /\ db'.documents \subseteq db.documents
             /\ db'.embeddings \subseteq db.embeddings
  BY <1>3, DeletedFacts DEF Delete
<1>4. \/ UNCHANGED db
      \/ \E r \in Request : Create(r) \/ Delete(r) \/ SaveDocuments(r) \/ SaveEmbeddings(r)
  BY ZenonT(60) DEF Next, vars, Step, Arrive, Join, Hit, Lead, Read, Save, MatrixPanic, Probe,
         ScanPage, FetchDocuments, LookupOwner, ListCategories, TakeCategory, Fail,
         Expire, Crash, Replicate, Quiet
<1> QED BY <1>1, <1>2, <1>3, <1>4

\* The replica stays or catches up.
LEMMA ReplicaStep ==
  ASSUME [Next]_vars PROVE replica' = replica \/ replica' = db
  BY ZenonT(60) DEF Next, vars, Step, Arrive, Join, Hit, Lead, Read, Create, Save, MatrixPanic,
         SaveDocuments, SaveEmbeddings, Probe, ScanPage, FetchDocuments, LookupOwner,
         ListCategories, TakeCategory, Delete, Fail, Expire, Crash, Replicate, Quiet

\* A new cache entry is what a leader has obtained.
LEMMA CacheStep ==
  ASSUME TypeInv, [Next]_vars, NEW i \in Instance, NEW e \in cache'[i]
  PROVE  \/ e \in cache[i]
         \/ \E r \in Request : /\ flight[r] = "save" /\ pc[r] \in Stage
                               /\ e = [stage |-> pc[r], key |-> Key(r), rows |-> got[r]]
<1>1. CASE UNCHANGED cache
  BY <1>1
<1>2. ASSUME NEW r \in Request, Save(r)
      PROVE  \/ e \in cache[i]
             \/ /\ flight[r] = "save" /\ pc[r] \in Stage
                /\ e = [stage |-> pc[r], key |-> Key(r), rows |-> got[r]]
  BY <1>2 DEF Save, TypeInv, TypeOK
<1>3. ASSUME NEW j \in Instance, Expire(j) \/ Crash(j) PROVE e \in cache[i]
  BY <1>3 DEF Expire, Crash, TypeInv, TypeOK
<1>4. \/ UNCHANGED cache
      \/ \E r \in Request : Save(r)
      \/ \E j \in Instance : Expire(j) \/ Crash(j)
  BY ZenonT(60) DEF Next, vars, Step, Arrive, Join, Hit, Lead, Read, Create, MatrixPanic,
         SaveDocuments, SaveEmbeddings, Probe, ScanPage, FetchDocuments, LookupOwner,
         ListCategories, TakeCategory, Delete, Fail, Replicate, Quiet
<1> QED BY <1>1, <1>2, <1>3, <1>4

\* What a question is does not change while it is being answered.
LEMMA ReqStep ==
  ASSUME TypeInv, [Next]_vars, NEW r \in Request, pc[r] # "idle"
  PROVE  req'[r] = req[r]
<1>1. ASSUME NEW q \in Request, Arrive(q) PROVE req'[r] = req[r]
  BY <1>1 DEF Arrive, TypeInv, TypeOK
<1>2. UNCHANGED req \/ \E q \in Request : Arrive(q)
  BY ZenonT(60) DEF Next, vars, Step, Join, Hit, Lead, Read, Create, Save, MatrixPanic,
         SaveDocuments, SaveEmbeddings, Probe, ScanPage, FetchDocuments, LookupOwner,
         ListCategories, TakeCategory, Delete, Fail, Expire, Crash, Replicate, Quiet
<1> QED BY <1>1, <1>2

\* An upload numbers its documents once.
LEMMA DocsStep ==
  ASSUME TypeInv, [Next]_vars, NEW r \in Request
  PROVE  docs'[r] = docs[r] \/ SaveDocuments(r)
<1>1. ASSUME NEW q \in Request, SaveDocuments(q) PROVE docs'[r] = docs[r] \/ SaveDocuments(r)
  <2>1. CASE q = r
    BY <1>1, <2>1
  <2>2. CASE q # r
    BY <1>1, <2>2 DEF SaveDocuments, TypeInv, TypeOK
  <2> QED BY <2>1, <2>2
<1>2. UNCHANGED docs \/ \E q \in Request : SaveDocuments(q)
  BY ZenonT(60) DEF Next, vars, Step, Arrive, Join, Hit, Lead, Read, Create, Save, MatrixPanic,
         SaveEmbeddings, Probe, ScanPage, FetchDocuments, LookupOwner,
         ListCategories, TakeCategory, Delete, Fail, Expire, Crash, Replicate, Quiet
<1> QED BY <1>1, <1>2

\* A search probes centroids it holds and adds the documents of a page.
LEMMA ScanStep ==
  ASSUME TypeInv, [Next]_vars, NEW r \in Request
  PROVE  \/ scan'[r] = scan[r]
         \/ /\ pc[r] = "probe" 
            /\ scan'[r].probe \subseteq Ids(held[r].centroids)
            /\ scan'[r].hits = {}
         \/ /\ pc[r] = "scan"
            /\ scan'[r].probe = scan[r].probe
            /\ \A id \in scan'[r].hits : \/ id \in scan[r].hits
                                         \/ \E e \in Page(r) : id = e.document
<1>1. ASSUME NEW q \in Request, Probe(q)
      PROVE  \/ scan'[r] = scan[r]
             \/ /\ pc[r] = "probe"
                /\ scan'[r].probe \subseteq Ids(held[r].centroids)
                /\ scan'[r].hits = {}
  BY <1>1 DEF Probe, TypeInv, TypeOK, NoScan
<1>2. ASSUME NEW q \in Request, ScanPage(q)
      PROVE  \/ scan'[r] = scan[r]
             \/ /\ pc[r] = "scan"
                /\ scan'[r].probe = scan[r].probe
                /\ \A id \in scan'[r].hits : \/ id \in scan[r].hits
                                             \/ \E e \in Page(r) : id = e.document
  <2>1. PICK nearest \in SUBSET (scan[q].hits \cup {e.document : e \in Page(q)}),
             last \in Ids(Page(q)) \cup {scan[q].cursor}, next \in {"fetch", "scan"} :
          /\ scan' = [scan EXCEPT ![q] = [@ EXCEPT !.hits = nearest, !.cursor = last]]
          /\ pc' = [pc EXCEPT ![q] = next]
    BY <1>2, ScanPageFacts
  <2>2. scan \in [Request -> [probe : SUBSET Nat, cursor : Nat, hits : SUBSET Nat]]
    BY DEF TypeInv, TypeOK
  <2>3. pc[q] = "scan"
    BY <1>2 DEF ScanPage
  <2>4. CASE q # r
    BY <2>1, <2>2, <2>4
  <2>5. CASE q = r
    <3>1. scan'[r].probe = scan[r].probe /\ scan'[r].hits = nearest
      BY <2>1, <2>2, <2>5
    <3> QED BY <2>1, <2>3, <2>5, <3>1
  <2> QED BY <2>4, <2>5
<1>3. UNCHANGED scan \/ \E q \in Request : Probe(q) \/ ScanPage(q)
  BY ZenonT(60) DEF Next, vars, Step, Arrive, Join, Hit, Lead, Read, Create, Save, MatrixPanic,
         SaveDocuments, SaveEmbeddings, FetchDocuments, LookupOwner,
         ListCategories, TakeCategory, Delete, Fail, Expire, Crash, Replicate, Quiet
<1> QED BY <1>1, <1>2, <1>3

\* What is shown is read at once.
LEMMA ShownStep ==
  ASSUME TypeInv, [Next]_vars, NEW r \in Request
  PROVE  \/ shown'[r] = shown[r]
         \/ /\ pc[r] = "fetch"
            /\ shown'[r] \subseteq {d \in View.documents : d.id \in scan[r].hits}
         \/ /\ pc[r] = "list"
            /\ shown'[r] = {c \in View.categories : c.owner = HeldId(r, "owner")}
<1>1. ASSUME NEW q \in Request, FetchDocuments(q)
      PROVE  \/ shown'[r] = shown[r]
             \/ /\ pc[r] = "fetch"
                /\ shown'[r] \subseteq {d \in View.documents : d.id \in scan[r].hits}
  BY <1>1 DEF FetchDocuments, TypeInv, TypeOK
<1>2. ASSUME NEW q \in Request, ListCategories(q)
      PROVE  \/ shown'[r] = shown[r]
             \/ /\ pc[r] = "list"
                /\ shown'[r] = {c \in View.categories : c.owner = HeldId(r, "owner")}
  BY <1>2 DEF ListCategories, TypeInv, TypeOK
<1>3. UNCHANGED shown \/ \E q \in Request : FetchDocuments(q) \/ ListCategories(q)
  BY ZenonT(60) DEF Next, vars, Step, Arrive, Join, Hit, Lead, Read, Create, Save, MatrixPanic,
         SaveDocuments, SaveEmbeddings, Probe, ScanPage, LookupOwner,
         TakeCategory, Delete, Fail, Expire, Crash, Replicate, Quiet
<1> QED BY <1>1, <1>2, <1>3

\* What a leader is about to save it had already, or has just read or created.
LEMMA GotStep ==
  ASSUME TypeInv, [Next]_vars, NEW r \in Request, flight'[r] = "save"
  PROVE  /\ pc'[r] = pc[r] /\ pc[r] \in Stage
         /\ held'[r] = held[r] /\ req'[r] = req[r]
         /\ \/ flight[r] = "save" /\ got'[r] = got[r]
            \/ flight[r] = "read" /\ got'[r] = Found(r)
            \/ flight[r] = "create" /\ got'[r] = {NewRow(r)} /\ db' = Inserted(r)
<1> DEFINE Same == /\ pc'[r] = pc[r] /\ pc[r] \in Stage
                   /\ held'[r] = held[r] /\ req'[r] = req[r]
           Goal == /\ Same
                   /\ \/ flight[r] = "save" /\ got'[r] = got[r]
                      \/ flight[r] = "read" /\ got'[r] = Found(r)
                      \/ flight[r] = "create" /\ got'[r] = {NewRow(r)} /\ db' = Inserted(r)
<1>1. ASSUME NEW q \in Request, Arrive(q) PROVE Goal
  <2>1. q # r /\ flight[r] = "save" /\ pc[r] \in Stage
    BY <1>1 DEF Arrive, TypeInv, TypeOK
  <2> QED BY <1>1, <2>1 DEF Arrive, TypeInv, TypeOK
<1>2. ASSUME NEW q \in Request, Join(q) \/ Lead(q) PROVE Goal
  <2>1. q # r
    BY <1>2 DEF Join, Lead, TypeInv, TypeOK
  <2> QED BY <1>2, <2>1 DEF Join, Lead, TypeInv, TypeOK
<1>3. ASSUME NEW q \in Request, Hit(q) PROVE Goal
  BY <1>3 DEF Hit, Deliver, TypeInv, TypeOK
<1>4. ASSUME NEW q \in Request, Read(q) PROVE Goal
  <2>1. CASE Refuse(Party(q), "notFound") /\ UNCHANGED got
    BY <1>4, <2>1 DEF Read, Refuse, TypeInv, TypeOK
  <2>2. CASE /\ got' = [got EXCEPT ![q] = Found(q)]
             /\ flight' = [flight EXCEPT ![q] = "save"]
             /\ UNCHANGED <<pc, held>>
    BY <1>4, <2>2 DEF Read, TypeInv, TypeOK
  <2>3. CASE /\ got' = [got EXCEPT ![q] = Found(q)]
             /\ flight' = [flight EXCEPT ![q] = "create"]
             /\ UNCHANGED <<pc, held>>
    BY <1>4, <2>3 DEF Read, TypeInv, TypeOK
  <2> QED BY <1>4, <2>1, <2>2, <2>3 DEF Read
<1>5. ASSUME NEW q \in Request, Create(q) PROVE Goal
  <2>1. CASE Refuse(Party(q), "failed") /\ UNCHANGED got
    BY <1>5, <2>1 DEF Create, Refuse, TypeInv, TypeOK
  <2>2. CASE /\ db' = Inserted(q)
             /\ got' = [got EXCEPT ![q] = {NewRow(q)}]
             /\ flight' = [flight EXCEPT ![q] = "save"]
             /\ UNCHANGED <<pc, held>>
    BY <1>5, <2>2 DEF Create, TypeInv, TypeOK
  <2> QED BY <1>5, <2>1, <2>2 DEF Create
<1>6. ASSUME NEW q \in Request, Save(q) PROVE Goal
  BY <1>6 DEF Save, Deliver, TypeInv, TypeOK
<1>7. ASSUME NEW q \in Request,
             \/ MatrixPanic(q) \/ SaveDocuments(q) \/ SaveEmbeddings(q) \/ Probe(q)
             \/ ScanPage(q) \/ FetchDocuments(q) \/ LookupOwner(q) \/ ListCategories(q)
             \/ TakeCategory(q) \/ Delete(q)
      PROVE  Goal
  <2>1. /\ pc[q] \notin Stage
        /\ UNCHANGED <<req, flight, got>>
    BY <1>7 DEF MatrixPanic, SaveDocuments, SaveEmbeddings, Probe, ScanPage,
                FetchDocuments, LookupOwner, ListCategories, TakeCategory, Delete
  <2>2. flight[r] = "save" /\ pc[r] \in Stage /\ q # r
    BY <2>1 DEF TypeInv, TypeOK
  <2>3. pc'[r] = pc[r] /\ held'[r] = held[r]
    BY <1>7, <2>2 DEF MatrixPanic, SaveDocuments, SaveEmbeddings, Probe, ScanPage,
                FetchDocuments, LookupOwner, ListCategories, TakeCategory, Delete,
                TypeInv, TypeOK
  <2> QED BY <2>1, <2>2, <2>3
<1>8. ASSUME NEW q \in Request, Fail(q) PROVE Goal
  BY <1>8 DEF Fail, Refuse, TypeInv, TypeOK
<1>9. ASSUME NEW i \in Instance, Crash(i) PROVE Goal
  BY <1>9 DEF Crash, TypeInv, TypeOK
<1>10. CASE UNCHANGED <<req, pc, flight, got, held>>
  BY <1>10 DEF TypeInv, TypeOK
<1>11. ASSUME NEW i \in Instance, Expire(i) PROVE UNCHANGED <<req, pc, flight, got, held>>
  BY <1>11 DEF Expire
<1>12. Replicate \/ Quiet \/ UNCHANGED vars => UNCHANGED <<req, pc, flight, got, held>>
  BY DEF Replicate, Quiet, vars
<1>13. ASSUME NEW q \in Request, Step(q) PROVE Goal
  BY <1>2, <1>3, <1>4, <1>5, <1>6, <1>7, <1>13 DEF Step
<1>14. CASE Replicate \/ Quiet \/ UNCHANGED vars \/ \E i \in Instance : Expire(i)
  BY <1>10, <1>11, <1>12, <1>14
<1>15. \/ \E q \in Request : Arrive(q) \/ Step(q) \/ Fail(q)
       \/ \E i \in Instance : Crash(i)
       \/ Replicate \/ Quiet \/ UNCHANGED vars \/ \E i \in Instance : Expire(i)
  BY DEF Next
<1> QED BY <1>1, <1>8, <1>9, <1>13, <1>14, <1>15

\* A handler gets rows from a cache entry or a leader with its own key, or from
\* a query of its own.
LEMMA HeldStep ==
  ASSUME TypeInv, [Next]_vars, NEW q \in Request, NEW stage \in Stage
  PROVE  \/ held'[q][stage] = held[q][stage]
         \/ /\ pc[q] = stage
            /\ \E e \in cache[At[q]] : /\ e.stage = stage /\ e.key = Key(q)
                                       /\ held'[q][stage] = e.rows
         \/ /\ pc[q] = stage
            /\ \E l \in Request : /\ flight[l] = "save" /\ pc[l] = stage
                                  /\ Key(l) = Key(q) /\ held'[q][stage] = got[l]
         \/ /\ pc[q] = "lookup" /\ stage = "owner"
            /\ held'[q].owner = {o \in View.owners : o.name = req[q].owner}
         \/ /\ pc[q] = "take" /\ stage = "category"
            /\ \A row \in held'[q].category :
                 /\ row \in View.categories
                 /\ row.owner = HeldId(q, "owner")
                 /\ row.name = req[q].category
<1> DEFINE Cachd == /\ pc[q] = stage
                    /\ \E e \in cache[At[q]] : /\ e.stage = stage /\ e.key = Key(q)
                                               /\ held'[q][stage] = e.rows
           Led == /\ pc[q] = stage
                  /\ \E l \in Request : /\ flight[l] = "save" /\ pc[l] = stage
                                        /\ Key(l) = Key(q) /\ held'[q][stage] = got[l]
           Looked == /\ pc[q] = "lookup" /\ stage = "owner"
                     /\ held'[q].owner = {o \in View.owners : o.name = req[q].owner}
           Taken == /\ pc[q] = "take" /\ stage = "category"
                    /\ \A row \in held'[q].category :
                         /\ row \in View.categories
                         /\ row.owner = HeldId(q, "owner")
                         /\ row.name = req[q].category
           Same == held'[q][stage] = held[q][stage]
<1>1. ASSUME NEW r \in Request, Hit(r) PROVE Same \/ Cachd
  <2>1. PICK e \in Cached(r) : Deliver({r}, e.rows)
    BY <1>1 DEF Hit
  <2>2. CASE q = r /\ pc[r] = stage
    <3>1. held'[q][stage] = e.rows
      BY <2>1, <2>2 DEF Deliver, TypeInv, TypeOK
    <3> QED BY <2>1, <2>2, <3>1 DEF Cached
  <2>3. CASE q # r \/ pc[r] # stage
    BY <2>1, <2>3 DEF Deliver, TypeInv, TypeOK
  <2> QED BY <2>2, <2>3
<1>2. ASSUME NEW r \in Request, Save(r) PROVE Same \/ Led
  <2>1. Deliver(Party(r), got[r]) /\ flight[r] = "save"
    BY <1>2 DEF Save
  <2>2. CASE q \in Party(r) /\ pc[q] = stage
    <3>1. held'[q][stage] = got[r]
      BY <2>1, <2>2 DEF Deliver, TypeInv, TypeOK
    <3>2. pc[r] = stage /\ Key(r) = Key(q)
      BY <2>2, PartyFacts
    <3> QED BY <2>1, <2>2, <3>1, <3>2
  <2>3. CASE q \notin Party(r) \/ pc[q] # stage
    BY <2>1, <2>3 DEF Deliver, TypeInv, TypeOK
  <2> QED BY <2>2, <2>3
<1>3. ASSUME NEW r \in Request, LookupOwner(r) PROVE Same \/ Looked
  BY <1>3 DEF LookupOwner, TypeInv, TypeOK
<1>4. ASSUME NEW r \in Request, TakeCategory(r) PROVE Same \/ Taken
  BY <1>4 DEF TakeCategory, TypeInv, TypeOK
<1>5. CASE UNCHANGED held
  BY <1>5
<1>6. \/ UNCHANGED held
      \/ \E r \in Request : Hit(r) \/ Save(r) \/ LookupOwner(r) \/ TakeCategory(r)
  BY ZenonT(60) DEF Next, vars, Step, Arrive, Join, Lead, Read, Refuse, Create, MatrixPanic,
         SaveDocuments, SaveEmbeddings, Probe, ScanPage, FetchDocuments,
         ListCategories, Delete, Fail, Expire, Crash, Replicate, Quiet
<1> QED BY <1>1, <1>2, <1>3, <1>4, <1>5, <1>6

-----------------------------------------------------------------------------
(* What does not change: rows in hand, keys, numbers.                         *)

\* A handler keeps the rows it has; only a document delete looks its category up
\* twice.
LEMMA HeldStays ==
  ASSUME TypeInv, [Next]_vars, NEW r \in Request
  PROVE  /\ held[r].owner # {} => held'[r].owner = held[r].owner
         /\ (held[r].category # {} /\ req[r].kind # "deleteDocument")
               => held'[r].category = held[r].category
         /\ held[r].centroids # {} => held'[r].centroids = held[r].centroids
<1>1. held[r].owner # {} => held'[r].owner = held[r].owner
  <2> HIDE DEF Stage
  <2>1. "owner" \in Stage
    BY DEF Stage
  <2>2. held[r].owner # {} => pc[r] # "owner" /\ pc[r] # "lookup"
    BY DEF TypeInv, InOrder
  <2> QED BY <2>1, <2>2, HeldStep
<1>2. (held[r].category # {} /\ req[r].kind # "deleteDocument")
         => held'[r].category = held[r].category
  <2> HIDE DEF Stage
  <2>1. "category" \in Stage
    BY DEF Stage
  <2>2. held[r].category # {} => pc[r] # "category"
    BY DEF TypeInv, InOrder
  <2>3. pc[r] = "take" => req[r].kind = "deleteDocument"
    BY DEF TypeInv, InOrder
  <2> QED BY <2>1, <2>2, <2>3, HeldStep
<1>3. held[r].centroids # {} => held'[r].centroids = held[r].centroids
  <2> HIDE DEF Stage
  <2>1. "centroids" \in Stage
    BY DEF Stage
  <2>2. held[r].centroids # {} => pc[r] # "centroids"
    BY DEF TypeInv, InOrder, Stage
  <2> QED BY <2>1, <2>2, HeldStep
<1> QED BY <1>1, <1>2, <1>3

\* So the ids in hand stay.
LEMMA HeldIdStays ==
  ASSUME NEW r \in Request, NEW stage \in Stage, held'[r][stage] = held[r][stage]
  PROVE  HeldId(r, stage)' = HeldId(r, stage)
  BY DEF HeldId

\* An upload's document numbers stay.
LEMMA DocsStay ==
  ASSUME TypeInv, [Next]_vars, NEW r \in Request, docs[r] # 0
  PROVE  docs'[r] = docs[r] /\ DocIds(r)' = DocIds(r)
<1>1. docs'[r] = docs[r]
  BY DocsStep DEF SaveDocuments, TypeInv, InOrder
<1> QED BY <1>1 DEF DocIds

\* Document numbers are positive.
LEMMA DocIdsMeans ==
  ASSUME NEW r \in Request, NEW id \in DocIds(r)
  PROVE  docs[r] # 0 /\ id \in docs[r] .. docs[r] + Docs - 1
  BY DEF DocIds

\* An insert takes the next key.
LEMMA NextStep ==
  ASSUME TypeInv, [Next]_vars
  PROVE  db'.next \in Nat /\ db.next \in Nat /\ db'.next >= db.next
<1>1. db.next \in Nat
  BY DEF TypeInv, TypeOK, Tables
<1>2. ASSUME NEW r \in Request, pc[r] \in Stage, db' = Inserted(r)
      PROVE  db'.next = db.next + 1
  BY <1>2, InsertedFacts
<1>3. ASSUME NEW r \in Request, SaveDocuments(r)
      PROVE  db'.next = db.next \/ db'.next = db.next + Docs
  BY <1>3, SaveDocumentsFacts
<1>4. ASSUME NEW r \in Request, SaveEmbeddings(r) PROVE db'.next >= db.next
  BY <1>4, SaveEmbeddingsFacts
<1>5. TypeInv'
  BY NextTypes
<1>6. db'.next \in Nat
  BY <1>5 DEF TypeInv, TypeOK, Tables
<1> QED BY <1>1, <1>2, <1>3, <1>4, <1>6, DbStep, CatalogAssumption

-----------------------------------------------------------------------------
(* A primary key stands for one row.                                         *)

\* The table of each stage.
LEMMA TableOfValue ==
  ASSUME NEW d
  PROVE  /\ TableOf(d, "owner") = d.owners
         /\ TableOf(d, "category") = d.categories
         /\ TableOf(d, "centroids") = d.centroids
  BY DEF TableOf

\* Where copies of rows are.
LEMMA SeenMeans ==
  ASSUME NEW stage \in Stage, NEW a
  PROVE  a \in Seen(stage) <=>
           \/ a \in TableOf(db, stage)
           \/ a \in TableOf(replica, stage)
           \/ \E i \in Instance : \E e \in cache[i] : e.stage = stage /\ a \in e.rows
           \/ \E r \in Request : flight[r] = "save" /\ pc[r] = stage /\ a \in got[r]
           \/ \E r \in Request : a \in held[r][stage]
<1>1. a \in CachedRows(stage) <=>
        \E i \in Instance : \E e \in cache[i] : e.stage = stage /\ a \in e.rows
  BY DEF CachedRows
<1> DEFINE Fetched == UNION {got[r] : r \in {q \in Request : flight[q] = "save" /\ pc[q] = stage}}
           InHand == UNION {held[r][stage] : r \in Request}
<1>2. a \in Fetched <=> \E r \in Request : flight[r] = "save" /\ pc[r] = stage /\ a \in got[r]
  OBVIOUS
<1>3. a \in InHand <=> \E r \in Request : a \in held[r][stage]
  OBVIOUS
<1>4. Seen(stage) = TableOf(db, stage) \cup TableOf(replica, stage) \cup CachedRows(stage)
                      \cup Fetched \cup InHand
  BY DEF Seen
<1> HIDE DEF Fetched, InHand
<1> QED BY <1>1, <1>2, <1>3, <1>4

\* And in the next state.
LEMMA SeenElim ==
  ASSUME NEW stage \in Stage, NEW a \in Seen(stage)'
  PROVE  \/ a \in TableOf(db', stage)
         \/ a \in TableOf(replica', stage)
         \/ \E i \in Instance : \E e \in cache'[i] : e.stage = stage /\ a \in e.rows
         \/ \E r \in Request : flight'[r] = "save" /\ pc'[r] = stage /\ a \in got'[r]
         \/ \E r \in Request : a \in held'[r][stage]
<1>1. a \in CachedRows(stage)' =>
        \E i \in Instance : \E e \in cache'[i] : e.stage = stage /\ a \in e.rows
  BY DEF CachedRows
<1> DEFINE Fetched == UNION {got'[r] : r \in {q \in Request : flight'[q] = "save" /\ pc'[q] = stage}}
           InHand == UNION {held'[r][stage] : r \in Request}
<1>2. a \in Fetched => \E r \in Request : flight'[r] = "save" /\ pc'[r] = stage /\ a \in got'[r]
  OBVIOUS
<1>3. a \in InHand => \E r \in Request : a \in held'[r][stage]
  OBVIOUS
<1>4. \/ a \in TableOf(db, stage)' \/ a \in TableOf(replica, stage)' \/ a \in CachedRows(stage)'
      \/ a \in Fetched \/ a \in InHand
  BY Zenon DEF Seen
<1>5. TableOf(db, stage)' = TableOf(db', stage) /\ TableOf(replica, stage)' = TableOf(replica', stage)
  BY DEF TableOf
<1> QED BY <1>1, <1>2, <1>3, <1>4, <1>5

\* A copy is seen.
LEMMA SeenIntro ==
  ASSUME NEW stage \in Stage
  PROVE  /\ TableOf(db, stage) \subseteq Seen(stage)
         /\ TableOf(replica, stage) \subseteq Seen(stage)
         /\ \A i \in Instance : \A e \in cache[i] : e.stage = stage => e.rows \subseteq Seen(stage)
         /\ \A r \in Request : (flight[r] = "save" /\ pc[r] = stage) => got[r] \subseteq Seen(stage)
         /\ \A r \in Request : held[r][stage] \subseteq Seen(stage)
  BY SeenMeans

\* Every row about is one of its stage.
LEMMA SeenType ==
  ASSUME TypeInv, NEW stage \in Stage, NEW a \in Seen(stage)
  PROVE  a \in RowsOf(stage) /\ a.id \in Nat
<1>1. TableOf(db, stage) \subseteq RowsOf(stage) /\ TableOf(replica, stage) \subseteq RowsOf(stage)
  BY TableOfValue, RowsOfValue DEF TypeInv, TypeOK, Tables
<1>2. \A i \in Instance : \A e \in cache[i] : e.stage = stage => e.rows \subseteq RowsOf(stage)
  BY DEF TypeInv, TypeOK
<1>3. \A r \in Request : (flight[r] = "save" /\ pc[r] = stage) => got[r] \subseteq RowsOf(stage)
  BY DEF TypeInv, TypeOK
<1>4. \A r \in Request : held[r][stage] \subseteq RowsOf(stage)
  BY DEF TypeInv, TypeOK
<1>5. a \in RowsOf(stage)
  BY <1>1, <1>2, <1>3, <1>4, SeenMeans
<1>6. a \in OwnerRow \/ a \in CategoryRow \/ a \in CentroidRow
  BY <1>5, RowsOfValue
<1>7. a.id \in Nat
  BY <1>6 DEF OwnerRow, CategoryRow, CentroidRow
<1> QED BY <1>5, <1>7

\* What a leader or a handler reads was about before.
LEMMA ViewSeen ==
  ASSUME NEW stage \in Stage PROVE TableOf(View, stage) \subseteq Seen(stage)
  BY SeenIntro DEF View

\* So were the rows a leader finds.
LEMMA FoundSeen ==
  ASSUME NEW r \in Request, pc[r] \in Stage PROVE Found(r) \subseteq Seen(pc[r])
<1>1. Found(r) \subseteq TableOf(View, pc[r])
  BY FoundValue, TableOfValue
<1> QED BY <1>1, ViewSeen

\* The row of an insert is in its table.
LEMMA InsertedRow ==
  ASSUME TypeInv, NEW r \in Request, pc[r] \in Stage
  PROVE  /\ TableOf(Inserted(r), pc[r]) = TableOf(db, pc[r]) \cup {NewRow(r)}
         /\ \A stage \in Stage \ {pc[r]} : TableOf(Inserted(r), stage) = TableOf(db, stage)
         /\ NewRow(r).id = db.next
<1>1. NewRow(r).id = db.next
  BY NewRowValue
<1>2. \A stage \in Stage : TableOf(Inserted(r), stage) =
                             IF stage = pc[r] THEN TableOf(db, stage) \cup {NewRow(r)}
                                              ELSE TableOf(db, stage)
  <2>1. /\ Inserted(r).owners =
             IF pc[r] = "owner" THEN db.owners \cup {NewRow(r)} ELSE db.owners
        /\ Inserted(r).categories =
             IF pc[r] = "category" THEN db.categories \cup {NewRow(r)} ELSE db.categories
        /\ Inserted(r).centroids =
             IF pc[r] = "centroids" THEN db.centroids \cup {NewRow(r)} ELSE db.centroids
    BY InsertedFacts
  <2> QED BY <2>1, TableOfValue
<1> QED BY <1>1, <1>2

\* Copies multiply, but a row nobody had is in the primary's table.
LEMMA SeenGrows ==
  ASSUME TypeInv, [Next]_vars, NEW stage \in Stage, NEW a \in Seen(stage)'
  PROVE  a \in Seen(stage) \/ a \in TableOf(db', stage)
<1>1. CASE a \in TableOf(replica', stage)
  BY <1>1, ReplicaStep, SeenIntro
<1>2. ASSUME NEW i \in Instance, NEW e \in cache'[i], e.stage = stage, a \in e.rows
      PROVE  a \in Seen(stage)
  <2>1. CASE e \in cache[i]
    BY <1>2, <2>1, SeenIntro
  <2>2. ASSUME NEW r \in Request, flight[r] = "save",
               e = [stage |-> pc[r], key |-> Key(r), rows |-> got[r]]
        PROVE  a \in Seen(stage)
    BY <1>2, <2>2, SeenIntro
  <2> QED BY <2>1, <2>2, CacheStep
<1>3. ASSUME NEW r \in Request, flight'[r] = "save", pc'[r] = stage, a \in got'[r]
      PROVE  a \in Seen(stage) \/ a \in TableOf(db', stage)
  <2>1. pc[r] = stage
    BY <1>3, GotStep
  <2>2. CASE flight[r] = "save" /\ got'[r] = got[r]
    BY <1>3, <2>1, <2>2, SeenIntro
  <2>3. CASE got'[r] = Found(r)
    BY <1>3, <2>1, <2>3, FoundSeen
  <2>4. CASE got'[r] = {NewRow(r)} /\ db' = Inserted(r)
    BY <1>3, <2>1, <2>4, InsertedRow
  <2> QED BY <1>3, <2>2, <2>3, <2>4, GotStep
<1>4. ASSUME NEW r \in Request, a \in held'[r][stage] PROVE a \in Seen(stage)
  <2>1. CASE held'[r][stage] = held[r][stage]
    BY <1>4, <2>1, SeenIntro
  <2>2. ASSUME NEW e \in cache[At[r]], e.stage = stage, held'[r][stage] = e.rows
        PROVE  a \in Seen(stage)
    BY <1>4, <2>2, SeenIntro, CatalogAssumption
  <2>3. ASSUME NEW l \in Request, flight[l] = "save", pc[l] = stage, held'[r][stage] = got[l]
        PROVE  a \in Seen(stage)
    BY <1>4, <2>3, SeenIntro
  <2>4. CASE /\ stage = "owner"
             /\ held'[r].owner = {o \in View.owners : o.name = req[r].owner}
    BY <1>4, <2>4, ViewSeen, TableOfValue
  <2>5. CASE /\ stage = "category"
             /\ \A row \in held'[r].category : row \in View.categories
    BY <1>4, <2>5, ViewSeen, TableOfValue
  <2> QED BY <2>1, <2>2, <2>3, <2>4, <2>5, HeldStep
<1> QED BY <1>1, <1>2, <1>3, <1>4, SeenElim

\* A table keeps its rows or gets one with the next key.
LEMMA TableStep ==
  ASSUME TypeInv, [Next]_vars
  PROVE  \/ \A stage \in Stage : TableOf(db', stage) \subseteq TableOf(db, stage)
         \/ /\ db'.next = db.next + 1
            /\ \E new : /\ new.id = db.next
                        /\ \A stage \in Stage :
                             TableOf(db', stage) \subseteq TableOf(db, stage) \cup {new}
<1>1. CASE /\ db'.owners \subseteq db.owners
           /\ db'.categories \subseteq db.categories
           /\ db'.centroids \subseteq db.centroids
  BY <1>1, TableOfValue
<1>2. ASSUME NEW r \in Request, pc[r] \in Stage, db' = Inserted(r)
      PROVE  /\ db'.next = db.next + 1
             /\ NewRow(r).id = db.next
             /\ \A stage \in Stage :
                  TableOf(db', stage) \subseteq TableOf(db, stage) \cup {NewRow(r)}
  BY <1>2, InsertedFacts, InsertedRow
<1>3. ASSUME NEW r \in Request, SaveDocuments(r)
      PROVE  /\ db'.owners \subseteq db.owners
             /\ db'.categories \subseteq db.categories
             /\ db'.centroids \subseteq db.centroids
  BY <1>3, SaveDocumentsFacts
<1>4. ASSUME NEW r \in Request, SaveEmbeddings(r)
      PROVE  /\ db'.owners \subseteq db.owners
             /\ db'.categories \subseteq db.categories
             /\ db'.centroids \subseteq db.centroids
  BY <1>4, SaveEmbeddingsFacts
<1> QED BY <1>1, <1>2, <1>3, <1>4, DbStep

\* One row for each key, whatever is copied where.
LEMMA OneRowPerKeyStays ==
  ASSUME TypeInv, OneRowPerKey, [Next]_vars PROVE OneRowPerKey'
<1> SUFFICES ASSUME NEW stage \in Stage, NEW a \in Seen(stage)', NEW b \in Seen(stage)'
             PROVE  a.id < db'.next /\ (a.id = b.id => a = b)
  BY DEF OneRowPerKey
<1>1. \A c \in Seen(stage) : c.id \in Nat /\ c.id < db.next
  BY SeenType DEF OneRowPerKey
<1>2. CASE TableOf(db', stage) \subseteq TableOf(db, stage)
  <2>1. a \in Seen(stage) /\ b \in Seen(stage)
    BY <1>2, SeenGrows, SeenIntro
  <2> QED BY <1>1, <2>1, NextStep DEF OneRowPerKey
<1>3. ASSUME db'.next = db.next + 1, NEW new, new.id = db.next,
             TableOf(db', stage) \subseteq TableOf(db, stage) \cup {new}
      PROVE  a.id < db'.next /\ (a.id = b.id => a = b)
  <2>1. (a \in Seen(stage) \/ a = new) /\ (b \in Seen(stage) \/ b = new)
    BY <1>3, SeenGrows, SeenIntro
  <2> QED BY <1>1, <1>3, <2>1, NextStep DEF OneRowPerKey
<1> QED BY <1>2, <1>3, TableStep

-----------------------------------------------------------------------------
(* A row answers the question it is filed under.                             *)

\* What each stage asks.
LEMMA MatchesValue ==
  ASSUME NEW key, NEW row
  PROVE  /\ Matches("owner", key, row) <=> row.name = key[1]
         /\ Matches("category", key, row) <=> row.owner = key[1] /\ row.name = key[2]
         /\ Matches("centroids", key, row) <=> row.category = key[1]
  BY DEF Matches

\* A leader reads rows that answer its key.
LEMMA FoundMatches ==
  ASSUME NEW r \in Request, pc[r] \in Stage, NEW row \in Found(r)
  PROVE  Matches(pc[r], Key(r), row)
<1>1. CASE pc[r] = "owner"
  BY <1>1, FoundValue, KeyValue, MatchesValue
<1>2. CASE pc[r] = "category"
  BY <1>2, FoundValue, KeyValue, MatchesValue
<1>3. CASE pc[r] = "centroids"
  BY <1>3, FoundValue, KeyValue, MatchesValue
<1> QED BY <1>1, <1>2, <1>3

\* And creates one that does.
LEMMA NewRowMatches ==
  ASSUME NEW r \in Request, pc[r] \in Stage
  PROVE  Matches(pc[r], Key(r), NewRow(r))
<1>1. CASE pc[r] = "owner"
  BY <1>1, NewRowValue, KeyValue, MatchesValue
<1>2. CASE pc[r] = "category"
  BY <1>2, NewRowValue, KeyValue, MatchesValue
<1>3. CASE pc[r] = "centroids"
  BY <1>3, NewRowValue, KeyValue, MatchesValue
<1> QED BY <1>1, <1>2, <1>3

\* A key is a function of what the handler asks and holds.
LEMMA KeyStays ==
  ASSUME NEW r \in Request, pc'[r] = pc[r], req'[r] = req[r], held'[r] = held[r]
  PROVE  Key(r)' = Key(r)
  BY DEF Key, HeldId

\* A category in hand stays while centroids of it are fetched or in hand.
LEMMA CategoryStays ==
  ASSUME TypeInv, [Next]_vars, NEW r \in Request,
         held[r].centroids # {} \/ pc[r] = "centroids"
  PROVE  /\ held[r].category # {}
         /\ HeldId(r, "category")' = HeldId(r, "category")
<1> HIDE DEF Stage
<1>1. "category" \in Stage
  BY DEF Stage
<1>2. held[r].category # {} /\ pc[r] # "category" /\ pc[r] # "take"
  BY DEF TypeInv, InOrder, Stage
<1>3. held'[r]["category"] = held[r]["category"]
  BY <1>1, <1>2, HeldStep
<1> QED BY <1>1, <1>2, <1>3, HeldIdStays

\* An owner in hand stays.
LEMMA OwnerStays ==
  ASSUME TypeInv, [Next]_vars, NEW r \in Request, held[r].owner # {}
  PROVE  HeldId(r, "owner")' = HeldId(r, "owner")
<1>1. held'[r].owner = held[r].owner
  BY HeldStays
<1>2. held'[r]["owner"] = held[r]["owner"] /\ "owner" \in Stage
  BY <1>1
<1> QED BY <1>2, HeldIdStays

\* The rows a cache call returns answer the key it was made with.
LEMMA ReturnedMatch ==
  ASSUME TypeInv, RowsMatch, [Next]_vars, NEW r \in Request, NEW stage \in Stage,
         NEW row \in held'[r][stage]
  PROVE  \/ row \in held[r][stage]
         \/ pc[r] = stage /\ Matches(stage, Key(r), row)
         \/ /\ pc[r] = "lookup" /\ stage = "owner" /\ row.name = req[r].owner
         \/ /\ pc[r] = "take" /\ stage = "category"
            /\ row.owner = HeldId(r, "owner") /\ row.name = req[r].category
<1>1. ASSUME NEW e \in cache[At[r]], e.stage = stage, e.key = Key(r), held'[r][stage] = e.rows
      PROVE  Matches(stage, Key(r), row)
  BY <1>1, CatalogAssumption DEF RowsMatch
<1>2. ASSUME NEW l \in Request, flight[l] = "save", pc[l] = stage, Key(l) = Key(r),
             held'[r][stage] = got[l]
      PROVE  Matches(stage, Key(r), row)
  BY <1>2 DEF RowsMatch
<1>3. ASSUME stage = "owner", held'[r].owner = {o \in View.owners : o.name = req[r].owner}
      PROVE  row.name = req[r].owner
  <2>1. row \in held'[r].owner
    BY <1>3
  <2> QED BY <1>3, <2>1
<1>4. ASSUME stage = "category",
             \A x \in held'[r].category : /\ x \in View.categories
                                          /\ x.owner = HeldId(r, "owner")
                                          /\ x.name = req[r].category
      PROVE  row.owner = HeldId(r, "owner") /\ row.name = req[r].category
  <2>1. row \in held'[r].category
    BY <1>4
  <2> QED BY <1>4, <2>1
<1> HIDE DEF Stage
<1> QED BY <1>1, <1>2, <1>3, <1>4, HeldStep

\* Every row goes on answering the question it is filed under.
LEMMA RowsMatchStays ==
  ASSUME TypeInv, RowsMatch, [Next]_vars PROVE RowsMatch'
<1>1. ASSUME NEW i \in Instance, NEW e \in cache'[i], NEW row \in e.rows
      PROVE  Matches(e.stage, e.key, row)
  <2>1. CASE e \in cache[i]
    BY <1>1, <2>1 DEF RowsMatch
  <2>2. ASSUME NEW r \in Request, flight[r] = "save", pc[r] \in Stage,
               e = [stage |-> pc[r], key |-> Key(r), rows |-> got[r]]
        PROVE  Matches(e.stage, e.key, row)
    BY <1>1, <2>2 DEF RowsMatch
  <2> QED BY <1>1, <2>1, <2>2, CacheStep
<1>2. ASSUME NEW r \in Request, flight'[r] = "save", NEW row \in got'[r]
      PROVE  Matches(pc[r], Key(r), row)'
  <2>1. /\ pc'[r] = pc[r] /\ pc[r] \in Stage
        /\ held'[r] = held[r] /\ req'[r] = req[r]
    BY <1>2, GotStep
  <2>2. Matches(pc[r], Key(r), row)
    <3>1. CASE flight[r] = "save" /\ got'[r] = got[r]
      BY <1>2, <3>1 DEF RowsMatch
    <3>2. CASE got'[r] = Found(r)
      BY <1>2, <2>1, <3>2, FoundMatches
    <3>3. CASE got'[r] = {NewRow(r)}
      BY <1>2, <2>1, <3>3, NewRowMatches
    <3> QED BY <1>2, <3>1, <3>2, <3>3, GotStep
  <2>3. Key(r)' = Key(r)
    BY <2>1, KeyStays
  <2> QED BY <2>1, <2>2, <2>3 DEF Matches
<1>3. ASSUME NEW r \in Request, NEW row \in held'[r].owner
      PROVE  row.name = req'[r].owner
  <2>1. pc[r] # "idle" \/ held[r].owner = {}
    BY DEF TypeInv, InOrder
  <2>2. \/ row \in held[r].owner
        \/ pc[r] = "owner" /\ Matches("owner", Key(r), row)
        \/ pc[r] = "lookup" /\ row.name = req[r].owner
    BY <1>3, ReturnedMatch
  <2>3. pc[r] # "idle" /\ row.name = req[r].owner
    <3>1. CASE row \in held[r].owner
      BY <2>1, <3>1 DEF RowsMatch
    <3>2. CASE pc[r] = "owner" /\ Matches("owner", Key(r), row)
      BY <3>2, KeyValue, MatchesValue
    <3> QED BY <2>2, <3>1, <3>2
  <2> QED BY <2>3, ReqStep
<1>4. ASSUME NEW r \in Request, NEW row \in held'[r].category
      PROVE  row.owner = HeldId(r, "owner")' /\ row.name = req'[r].category
  <2>1. \/ row \in held[r].category
        \/ pc[r] = "category" /\ Matches("category", Key(r), row)
        \/ /\ pc[r] = "take"
           /\ row.owner = HeldId(r, "owner") /\ row.name = req[r].category
    BY <1>4, ReturnedMatch
  <2>2. pc[r] # "idle" /\ held[r].owner # {}
    BY <2>1 DEF TypeInv, InOrder
  <2>3. row.owner = HeldId(r, "owner") /\ row.name = req[r].category
    <3>1. CASE row \in held[r].category
      BY <3>1 DEF RowsMatch
    <3>2. CASE pc[r] = "category" /\ Matches("category", Key(r), row)
      BY <3>2, KeyValue, MatchesValue
    <3> QED BY <2>1, <3>1, <3>2
  <2> QED BY <2>2, <2>3, ReqStep, OwnerStays
<1>5. ASSUME NEW r \in Request, NEW row \in held'[r].centroids
      PROVE  row.category = HeldId(r, "category")'
  <2>1. \/ row \in held[r].centroids
        \/ pc[r] = "centroids" /\ Matches("centroids", Key(r), row)
    BY <1>5, ReturnedMatch
  <2>2. row.category = HeldId(r, "category")
    <3>1. CASE row \in held[r].centroids
      BY <3>1 DEF RowsMatch
    <3>2. CASE pc[r] = "centroids" /\ Matches("centroids", Key(r), row)
      BY <3>2, KeyValue, MatchesValue
    <3> QED BY <2>1, <3>1, <3>2
  <2> QED BY <2>1, <2>2, CategoryStays
<1> QED BY <1>1, <1>2, <1>3, <1>4, <1>5 DEF RowsMatch

-----------------------------------------------------------------------------
(* Uploads number their documents apart from each other.                     *)

\* A new block of numbers begins where the last key ended.
LEMMA IdsApartStays ==
  ASSUME TypeInv, IdsApart, [Next]_vars PROVE IdsApart'
<1> SUFFICES ASSUME NEW u \in Request, NEW v \in Request, docs'[u] # 0
             PROVE  /\ docs'[u] + Docs <= db'.next
                    /\ (u # v /\ docs'[v] # 0) => \/ docs'[u] + Docs <= docs'[v]
                                                  \/ docs'[v] + Docs <= docs'[u]
  BY DEF IdsApart
<1>1. docs \in [Request -> Nat] /\ Docs \in Nat /\ db.next \in Nat
  BY CatalogAssumption DEF TypeInv, TypeOK, Tables
<1>2. CASE \A r \in Request : docs'[r] = docs[r]
  BY <1>1, <1>2, NextStep DEF IdsApart
<1>3. ASSUME NEW q \in Request, SaveDocuments(q),
             docs' = [docs EXCEPT ![q] = db.next], db'.next = db.next + Docs
      PROVE  /\ docs'[u] + Docs <= db'.next
             /\ (u # v /\ docs'[v] # 0) => \/ docs'[u] + Docs <= docs'[v]
                                           \/ docs'[v] + Docs <= docs'[u]
  <2>1. \A r \in Request : docs'[r] = IF r = q THEN db.next ELSE docs[r]
    BY <1>1, <1>3
  <2>2. \A r \in Request : docs[r] # 0 => docs[r] + Docs <= db.next
    BY DEF IdsApart
  <2>3. CASE u = q
    BY <1>1, <1>3, <2>1, <2>2, <2>3
  <2>4. CASE u # q /\ v = q
    BY <1>1, <1>3, <2>1, <2>2, <2>4
  <2>5. CASE u # q /\ v # q
    BY <1>1, <1>3, <2>1, <2>2, <2>5 DEF IdsApart
  <2> QED BY <2>3, <2>4, <2>5
<1>4. ASSUME NEW q \in Request, SaveDocuments(q)
      PROVE  \/ \A r \in Request : docs'[r] = docs[r]
             \/ docs' = [docs EXCEPT ![q] = db.next] /\ db'.next = db.next + Docs
  BY <1>4, SaveDocumentsFacts
<1> QED BY <1>2, <1>3, <1>4, DocsStep

\* So a document number tells its upload.
LEMMA OneUpload ==
  ASSUME TypeInv, IdsApart, NEW u \in Request, NEW v \in Request,
         NEW id, id \in DocIds(u), id \in DocIds(v)
  PROVE  u = v
<1>1. docs \in [Request -> Nat] /\ Docs \in Nat
  BY CatalogAssumption DEF TypeInv, TypeOK
<1>2. /\ docs[u] # 0 /\ id \in docs[u] .. docs[u] + Docs - 1
      /\ docs[v] # 0 /\ id \in docs[v] .. docs[v] + Docs - 1
  BY DocIdsMeans
<1> QED BY <1>1, <1>2 DEF IdsApart

-----------------------------------------------------------------------------
(* Rows can be traced to the uploads behind them.                            *)

\* A document's trace does not fade.
LEMMA DocumentTracedStays ==
  ASSUME TypeInv, [Next]_vars, NEW d, d.by \in Request, DocumentTraced(d)
  PROVE  DocumentTraced(d)'
<1>1. PICK u \in Request : u = d.by
  OBVIOUS
<1>2. d.id \in DocIds(u) /\ d.category = HeldId(u, "category") /\ docs[u] # 0
  BY <1>1, DocIdsMeans DEF DocumentTraced
<1>3. held[u].category # {} /\ req[u].kind # "deleteDocument"
  BY <1>2 DEF TypeInv, InOrder
<1>4. held'[u]["category"] = held[u]["category"] /\ "category" \in Stage
  BY <1>3, HeldStays
<1>5. HeldId(u, "category")' = HeldId(u, "category") /\ DocIds(u)' = DocIds(u)
  BY <1>2, <1>4, HeldIdStays, DocsStay
<1> QED BY <1>1, <1>2, <1>5 DEF DocumentTraced

\* Nor an embedding's.
LEMMA EmbeddingTracedStays ==
  ASSUME TypeInv, [Next]_vars, NEW e, EmbeddingTraced(e)
  PROVE  EmbeddingTraced(e)'
<1>1. PICK u \in Request : e.document \in DocIds(u) /\ e.centroid \in Ids(held[u].centroids)
  BY DEF EmbeddingTraced
<1>2. DocIds(u)' = DocIds(u)
  BY <1>1, DocIdsMeans, DocsStay
<1>3. held'[u].centroids = held[u].centroids
  BY <1>1, HeldStays DEF Ids
<1>4. Ids(held[u].centroids)' = Ids(held[u].centroids)
  BY <1>3 DEF Ids
<1> QED BY <1>1, <1>2, <1>4 DEF EmbeddingTraced

\* Nor a category's.
LEMMA CategoryTracedStays ==
  ASSUME TypeInv, [Next]_vars, NEW c, CategoryTraced(c)
  PROVE  CategoryTraced(c)'
<1>1. PICK q \in Request : /\ req[q].kind = "upload"
                           /\ held[q].owner # {}
                           /\ c.owner = HeldId(q, "owner")
                           /\ c.name = req[q].category
  BY DEF CategoryTraced
<1>2. pc[q] # "idle"
  BY <1>1 DEF TypeInv, InOrder
<1>3. req'[q] = req[q] /\ held'[q].owner = held[q].owner
  BY <1>1, <1>2, ReqStep, HeldStays
<1>4. HeldId(q, "owner")' = HeldId(q, "owner")
  BY <1>1, OwnerStays
<1> QED BY <1>1, <1>3, <1>4 DEF CategoryTraced

\* The rows of both databases are traced.
LEMMA Traced ==
  ASSUME RowsTraced, NEW d \in {db, replica}
  PROVE  /\ \A x \in d.documents : DocumentTraced(x)
         /\ \A e \in d.embeddings : EmbeddingTraced(e)
         /\ \A c \in d.categories : CategoryTraced(c)
  BY DEF RowsTraced

\* A stored document names its upload.
LEMMA ByRequest ==
  ASSUME TypeInv, NEW d \in {db, replica}, NEW x \in d.documents
  PROVE  x.by \in Request
<1>1. d \in Tables
  BY DEF TypeInv, TypeOK
<1> QED BY <1>1 DEF Tables, DocumentRow

\* New documents are their upload's.
LEMMA DocumentsTraced ==
  ASSUME TypeInv, RowsTraced, [Next]_vars, NEW x \in db'.documents
  PROVE  DocumentTraced(x)'
<1>1. CASE x \in db.documents
  BY <1>1, Traced, ByRequest, DocumentTracedStays
<1>2. ASSUME NEW r \in Request, SaveDocuments(r), x \notin db.documents
      PROVE  DocumentTraced(x)'
  <2>1. /\ docs' = [docs EXCEPT ![r] = db.next]
        /\ x \in {[id |-> n, category |-> HeldId(r, "category"), by |-> r] :
                     n \in db.next .. db.next + Docs - 1}
    BY <1>2, SaveDocumentsFacts
  <2>2. x.by = r /\ x.category = HeldId(r, "category")
        /\ x.id \in db.next .. db.next + Docs - 1
    BY <2>1
  <2>3. docs'[r] = db.next /\ db.next # 0 /\ held' = held
    BY <1>2, <2>1 DEF SaveDocuments, TypeInv, TypeOK, NeverNothing
  <2>4. x.id \in DocIds(r)'
    BY <2>2, <2>3 DEF DocIds
  <2>5. HeldId(r, "category")' = HeldId(r, "category")
    BY <2>3 DEF HeldId
  <2> QED BY <2>2, <2>4, <2>5 DEF DocumentTraced
<1>3. ASSUME NEW r \in Request, pc[r] \in Stage, db' = Inserted(r)
      PROVE  x \in db.documents
  BY <1>3, InsertedFacts
<1>4. ASSUME NEW r \in Request, SaveEmbeddings(r) PROVE x \in db.documents
  BY <1>4, SaveEmbeddingsFacts
<1> HIDE DEF Stage
<1> QED BY <1>1, <1>2, <1>3, <1>4, DbStep

\* New embeddings are of an upload's documents, under its centroids.
LEMMA EmbeddingsTraced ==
  ASSUME TypeInv, RowsTraced, [Next]_vars, NEW e \in db'.embeddings
  PROVE  EmbeddingTraced(e)'
<1>1. CASE e \in db.embeddings
  BY <1>1, Traced, EmbeddingTracedStays
<1>2. ASSUME NEW r \in Request, SaveEmbeddings(r), e \notin db.embeddings
      PROVE  EmbeddingTraced(e)'
  <2>1. e.document \in DocIds(r) /\ e.centroid \in Ids(held[r].centroids)
    BY <1>2, SaveEmbeddingsFacts
  <2>2. EmbeddingTraced(e)
    BY <2>1 DEF EmbeddingTraced
  <2> QED BY <2>2, EmbeddingTracedStays
<1>3. ASSUME NEW r \in Request, pc[r] \in Stage, db' = Inserted(r)
      PROVE  e \in db.embeddings
  BY <1>3, InsertedFacts
<1>4. ASSUME NEW r \in Request, SaveDocuments(r) PROVE e \in db.embeddings
  BY <1>4, SaveDocumentsFacts
<1> HIDE DEF Stage
<1> QED BY <1>1, <1>2, <1>3, <1>4, DbStep

\* A new category is the one an upload asked for.
LEMMA CategoriesTraced ==
  ASSUME TypeInv, RowsTraced, [Next]_vars, NEW c \in db'.categories
  PROVE  CategoryTraced(c)'
<1>1. CASE c \in db.categories
  BY <1>1, Traced, CategoryTracedStays
<1>2. ASSUME NEW r \in Request, pc[r] \in Stage, flight[r] = "create", db' = Inserted(r),
             c \notin db.categories
      PROVE  CategoryTraced(c)'
  <2>1. pc[r] = "category" /\ c = NewRow(r)
    BY <1>2, InsertedFacts
  <2>2. c.name = req[r].category /\ c.owner = HeldId(r, "owner")
    BY <2>1, NewRowValue
  <2>3. req[r].kind = "upload" /\ held[r].owner # {}
    BY <1>2, <2>1 DEF TypeInv, InOrder
  <2>4. CategoryTraced(c)
    BY <2>2, <2>3 DEF CategoryTraced
  <2> QED BY <2>4, CategoryTracedStays
<1>3. ASSUME NEW r \in Request, SaveDocuments(r) PROVE c \in db.categories
  BY <1>3, SaveDocumentsFacts
<1>4. ASSUME NEW r \in Request, SaveEmbeddings(r) PROVE c \in db.categories
  BY <1>4, SaveEmbeddingsFacts
<1> HIDE DEF Stage
<1> QED BY <1>1, <1>2, <1>3, <1>4, DbStep

\* Every stored row stays traced, on the primary and on the replica.
LEMMA RowsTracedStays ==
  ASSUME TypeInv, RowsTraced, [Next]_vars PROVE RowsTraced'
<1>1. /\ \A x \in db'.documents : DocumentTraced(x)'
      /\ \A e \in db'.embeddings : EmbeddingTraced(e)'
      /\ \A c \in db'.categories : CategoryTraced(c)'
  BY DocumentsTraced, EmbeddingsTraced, CategoriesTraced
<1>2. ASSUME NEW d \in {db, replica}
      PROVE  /\ \A x \in d.documents : DocumentTraced(x)'
             /\ \A e \in d.embeddings : EmbeddingTraced(e)'
             /\ \A c \in d.categories : CategoryTraced(c)'
  <2>1. \A x \in d.documents : DocumentTraced(x)'
    BY Traced, ByRequest, DocumentTracedStays
  <2>2. \A e \in d.embeddings : EmbeddingTraced(e)'
    BY Traced, EmbeddingTracedStays
  <2>3. \A c \in d.categories : CategoryTraced(c)'
    BY Traced, CategoryTracedStays
  <2> QED BY <2>1, <2>2, <2>3
<1>3. /\ \A x \in replica'.documents : DocumentTraced(x)'
      /\ \A e \in replica'.embeddings : EmbeddingTraced(e)'
      /\ \A c \in replica'.categories : CategoryTraced(c)'
  <2>1. CASE replica' = replica
    BY <1>2, <2>1
  <2>2. CASE replica' = db
    BY <1>2, <2>2
  <2> QED BY <2>1, <2>2, ReplicaStep
<1> QED BY <1>1, <1>3 DEF RowsTraced

-----------------------------------------------------------------------------
(* So can the hits of a search and the rows in an answer.                    *)

\* Ids in hand stay.
LEMMA CentroidIdsStay ==
  ASSUME TypeInv, [Next]_vars, NEW r \in Request, Ids(held[r].centroids) # {}
  PROVE  Ids(held[r].centroids)' = Ids(held[r].centroids)
<1>1. held'[r].centroids = held[r].centroids
  BY HeldStays DEF Ids
<1> QED BY <1>1 DEF Ids

\* Two requests that hold a common centroid go on holding it.
LEMMA SharedCentroidStays ==
  ASSUME TypeInv, [Next]_vars, NEW u \in Request, NEW r \in Request, SharedCentroid(u, r)
  PROVE  SharedCentroid(u, r)'
<1>1. Ids(held[u].centroids) # {} /\ Ids(held[r].centroids) # {}
  BY DEF SharedCentroid
<1>2. /\ Ids(held[u].centroids)' = Ids(held[u].centroids)
      /\ Ids(held[r].centroids)' = Ids(held[r].centroids)
  BY <1>1, CentroidIdsStay
<1> QED BY <1>2 DEF SharedCentroid

\* A search's hits are documents filed under the centroids it holds.
LEMMA HitsTracedStays ==
  ASSUME TypeInv, RowsTraced, HitsTraced, [Next]_vars PROVE HitsTraced'
<1>1. ASSUME NEW r \in Request PROVE scan'[r].probe \subseteq Ids(held[r].centroids)'
  <2>1. scan'[r].probe \subseteq Ids(held[r].centroids)
    BY ScanStep DEF HitsTraced
  <2>2. CASE Ids(held[r].centroids) = {}
    BY <2>1, <2>2
  <2>3. CASE Ids(held[r].centroids) # {}
    BY <2>1, <2>3, CentroidIdsStay
  <2> QED BY <2>2, <2>3
<1>2. ASSUME NEW r \in Request, NEW id \in scan'[r].hits
      PROVE  \E u \in Request : id \in DocIds(u)' /\ SharedCentroid(u, r)'
  <2>1. \E u \in Request : id \in DocIds(u) /\ SharedCentroid(u, r)
    <3>1. CASE id \in scan[r].hits
      BY <3>1 DEF HitsTraced, SharedCentroid
    <3>2. ASSUME NEW e \in Page(r), id = e.document
          PROVE  \E u \in Request : id \in DocIds(u) /\ SharedCentroid(u, r)
      <4>1. e \in View.embeddings /\ e.centroid \in scan[r].probe
        BY <3>2 DEF Page
      <4>2. EmbeddingTraced(e)
        BY <4>1, Traced DEF View
      <4>3. PICK u \in Request : e.document \in DocIds(u) /\ e.centroid \in Ids(held[u].centroids)
        BY <4>2 DEF EmbeddingTraced
      <4>4. e.centroid \in Ids(held[r].centroids)
        BY <4>1 DEF HitsTraced
      <4> QED BY <3>2, <4>3, <4>4 DEF SharedCentroid
    <3> QED BY <1>2, <3>1, <3>2, ScanStep
  <2>2. PICK u \in Request : id \in DocIds(u) /\ SharedCentroid(u, r)
    BY <2>1
  <2>3. id \in DocIds(u)'
    BY <2>2, DocIdsMeans, DocsStay
  <2> QED BY <2>2, <2>3, SharedCentroidStays
<1> QED BY <1>1, <1>2 DEF HitsTraced, SharedCentroid

\* An answer, once given, goes on being accounted for.
LEMMA ShownTracedStays ==
  ASSUME TypeInv, RowsTraced, ShownTraced, [Next]_vars PROVE ShownTraced'
<1> SUFFICES ASSUME NEW r \in Request, NEW row \in shown'[r]
             PROVE  /\ req'[r].kind = "search" => /\ row \in DocumentRow
                                                  /\ DocumentTraced(row)'
                                                  /\ row.id \in scan'[r].hits
                    /\ req'[r].kind = "names" => /\ row \in CategoryRow
                                                 /\ CategoryTraced(row)'
                                                 /\ held'[r].owner # {}
                                                 /\ row.owner = HeldId(r, "owner")'
  BY DEF ShownTraced
<1>1. pc[r] \notin {"idle", "probe", "scan"}
  <2>1. shown'[r] # shown[r] => pc[r] \in {"fetch", "list"}
    BY ShownStep
  <2>2. shown[r] # {} => pc[r] \in Ended
    BY DEF TypeInv, InOrder
  <2> QED BY <2>1, <2>2
<1>2. req'[r] = req[r] /\ scan'[r] = scan[r]
  BY <1>1, ReqStep, ScanStep
<1>3. View \in {db, replica} /\ View \in Tables
  BY ViewType DEF View, TypeInv
<1>4. /\ req[r].kind = "search" => /\ row \in DocumentRow
                                   /\ DocumentTraced(row)
                                   /\ row.id \in scan[r].hits
      /\ req[r].kind = "names" => /\ row \in CategoryRow
                                  /\ CategoryTraced(row)
                                  /\ held[r].owner # {}
                                  /\ row.owner = HeldId(r, "owner")
  <2>1. CASE shown'[r] = shown[r]
    BY <2>1 DEF ShownTraced
  <2>2. CASE /\ pc[r] = "fetch"
             /\ shown'[r] \subseteq {d \in View.documents : d.id \in scan[r].hits}
    <3>1. req[r].kind = "search" /\ row \in View.documents /\ row.id \in scan[r].hits
      BY <2>2 DEF TypeInv, InOrder
    <3> QED BY <1>3, <3>1, Traced DEF Tables
  <2>3. CASE /\ pc[r] = "list"
             /\ shown'[r] = {c \in View.categories : c.owner = HeldId(r, "owner")}
    <3>1. /\ req[r].kind = "names" /\ held[r].owner # {}
          /\ row \in View.categories /\ row.owner = HeldId(r, "owner")
      BY <2>3 DEF TypeInv, InOrder
    <3> QED BY <1>3, <3>1, Traced DEF Tables
  <2> QED BY <2>1, <2>2, <2>3, ShownStep
<1>5. CASE req[r].kind = "search"
  <2>1. row.by \in Request
    BY <1>4, <1>5 DEF DocumentRow
  <2>2. DocumentTraced(row)'
    BY <1>4, <1>5, <2>1, DocumentTracedStays
  <2> QED BY <1>2, <1>4, <1>5, <2>2
<1>6. CASE req[r].kind = "names"
  <2>1. CategoryTraced(row)'
    BY <1>4, <1>6, CategoryTracedStays
  <2>2. held'[r].owner # {} /\ HeldId(r, "owner")' = HeldId(r, "owner")
    BY <1>4, <1>6, HeldStays, OwnerStays
  <2> QED BY <1>2, <1>4, <1>6, <2>1, <2>2
<1> QED BY <1>2, <1>5, <1>6

-----------------------------------------------------------------------------
(* The invariant, and what follows from it.                                  *)

\* It holds of an empty database and idle requests.
LEMMA InitInvariant == Init => IInv
<1> SUFFICES ASSUME Init PROVE IInv
  OBVIOUS
<1>1. TypeInv
  BY InitTypes
<1>2. OneRowPerKey
  <2>1. ASSUME NEW stage \in Stage, NEW a \in Seen(stage) PROVE FALSE
    <3>1. TableOf(db, stage) = {} /\ TableOf(replica, stage) = {}
      BY TableOfValue DEF Init, EmptyTables
    <3>2. /\ \A i \in Instance : cache[i] = {}
          /\ \A r \in Request : flight[r] = "none" /\ held[r][stage] = {}
      BY DEF Init, NothingHeld
    <3> QED BY <2>1, <3>1, <3>2, SeenMeans
  <2> QED BY <2>1 DEF OneRowPerKey
<1>3. RowsMatch
  BY DEF Init, RowsMatch, NothingHeld
<1>4. IdsApart
  BY DEF Init, IdsApart
<1>5. RowsTraced
  BY DEF Init, RowsTraced, EmptyTables
<1>6. HitsTraced
  BY DEF Init, HitsTraced, NoScan
<1>7. ShownTraced
  BY DEF Init, ShownTraced
<1> QED BY <1>1, <1>2, <1>3, <1>4, <1>5, <1>6, <1>7 DEF IInv

\* Every step keeps it.
LEMMA NextInvariant == IInv /\ [Next]_vars => IInv'
<1> SUFFICES ASSUME IInv, [Next]_vars PROVE IInv'
  OBVIOUS
<1> QED BY NextTypes, OneRowPerKeyStays, RowsMatchStays, IdsApartStays, RowsTracedStays,
           HitsTracedStays, ShownTracedStays DEF IInv

\* Centroids two uploads hold under one id are of one category.
LEMMA OneCategory ==
  ASSUME IInv, NEW u \in Request, NEW a \in held[u].centroids,
         NEW c \in Seen("centroids"), a.id = c.id
  PROVE  c.category = HeldId(u, "category")
<1>1. a \in Seen("centroids")
  BY SeenIntro
<1>2. a = c
  BY <1>1 DEF IInv, OneRowPerKey
<1> QED BY <1>2 DEF IInv, RowsMatch

\* An id of a row in hand determines the row.
LEMMA OneHeld ==
  ASSUME IInv, NEW stage \in Stage, NEW q \in Request, NEW r \in Request,
         held[q][stage] # {}, held[r][stage] # {}, HeldId(q, stage) = HeldId(r, stage)
  PROVE  \E row : row \in held[q][stage] /\ row \in held[r][stage]
<1> HIDE DEF Stage
<1>1. PICK a \in held[q][stage] : HeldId(q, stage) = a.id
  BY HeldRow
<1>2. PICK b \in held[r][stage] : HeldId(r, stage) = b.id
  BY HeldRow
<1>3. a \in Seen(stage) /\ b \in Seen(stage)
  BY SeenIntro
<1>4. a = b
  BY <1>1, <1>2, <1>3 DEF IInv, OneRowPerKey
<1> QED BY <1>4

\* Handlers with the same owner row asked for the same owner.
LEMMA SameOwner ==
  ASSUME IInv, NEW q \in Request, NEW r \in Request,
         held[q].owner # {}, held[r].owner # {}, HeldId(q, "owner") = HeldId(r, "owner")
  PROVE  req[q].owner = req[r].owner
<1> HIDE DEF Stage
<1>1. "owner" \in Stage
  BY DEF Stage
<1>2. PICK row : row \in held[q].owner /\ row \in held[r].owner
  BY <1>1, OneHeld
<1> QED BY <1>2 DEF IInv, RowsMatch

\* Handlers with the same category row asked for the same owner and category.
LEMMA SameCategory ==
  ASSUME IInv, NEW q \in Request, NEW r \in Request,
         held[q].category # {}, held[r].category # {},
         HeldId(q, "category") = HeldId(r, "category")
  PROVE  req[q].owner = req[r].owner /\ req[q].category = req[r].category
<1>1. PICK row : row \in held[q].category /\ row \in held[r].category
  <2> HIDE DEF Stage
  <2>1. "category" \in Stage
    BY DEF Stage
  <2> QED BY <2>1, OneHeld
<1>2. /\ row.owner = HeldId(q, "owner") /\ row.name = req[q].category
      /\ row.owner = HeldId(r, "owner") /\ row.name = req[r].category
  BY <1>1 DEF IInv, RowsMatch
<1>3. held[q].owner # {} /\ held[r].owner # {}
  BY DEF IInv, TypeInv, InOrder
<1> QED BY <1>2, <1>3, SameOwner

\* Embeddings and documents meet in one category.
LEMMA InvariantAgrees == IInv => EmbeddingsAgree
<1> SUFFICES ASSUME IInv, NEW e \in db.embeddings, NEW d \in db.documents,
                    NEW c \in db.centroids, e.document = d.id, e.centroid = c.id
             PROVE  d.category = c.category
  BY DEF EmbeddingsAgree
<1>1. DocumentTraced(d) /\ EmbeddingTraced(e) /\ d.by \in Request
  BY Traced, ByRequest DEF IInv
<1>2. PICK u \in Request : d.id \in DocIds(u) /\ c.id \in Ids(held[u].centroids)
  BY <1>1 DEF EmbeddingTraced
<1>3. d.id \in DocIds(d.by) /\ d.category = HeldId(d.by, "category")
  BY <1>1 DEF DocumentTraced
<1>4. d.by = u
  BY <1>1, <1>2, <1>3, OneUpload DEF IInv
<1>5. PICK a \in held[u].centroids : a.id = c.id
  BY <1>2 DEF Ids
<1>6. c \in Seen("centroids")
  BY SeenIntro, TableOfValue
<1>7. c.category = HeldId(u, "category")
  BY <1>5, <1>6, OneCategory
<1> QED BY <1>3, <1>4, <1>7

\* Answers stay inside what was asked.
LEMMA InvariantIsolates == IInv => Isolation
<1> SUFFICES ASSUME IInv, NEW r \in Request, NEW row \in shown[r]
             PROVE  /\ req[r].kind = "search" =>
                         /\ req[row.by].owner = req[r].owner
                         /\ req[row.by].category = req[r].category
                    /\ req[r].kind = "names" =>
                         \E q \in Request : /\ req[q].kind = "upload"
                                            /\ req[q].owner = req[r].owner
                                            /\ req[q].category = row.name
  BY DEF Isolation
<1>1. CASE req[r].kind = "search"
  <2>1. row.by \in Request /\ DocumentTraced(row) /\ row.id \in scan[r].hits
    BY <1>1 DEF IInv, ShownTraced, DocumentRow
  <2>2. PICK u \in Request :
          row.id \in DocIds(u) /\ Ids(held[u].centroids) \cap Ids(held[r].centroids) # {}
    BY <2>1 DEF IInv, HitsTraced, SharedCentroid
  <2>3. u = row.by
    BY <2>1, <2>2, OneUpload DEF IInv, DocumentTraced
  <2>4. PICK a \in held[u].centroids, b \in held[r].centroids : a.id = b.id
    BY <2>2 DEF Ids
  <2>5. b \in Seen("centroids")
    BY SeenIntro
  <2>6. b.category = HeldId(u, "category") /\ b.category = HeldId(r, "category")
    BY <2>4, <2>5, OneCategory
  <2>7. held[u].category # {} /\ held[r].category # {}
    BY <2>4 DEF IInv, TypeInv, InOrder
  <2> QED BY <1>1, <2>3, <2>6, <2>7, SameCategory
<1>2. CASE req[r].kind = "names"
  <2>1. CategoryTraced(row) /\ held[r].owner # {} /\ row.owner = HeldId(r, "owner")
    BY <1>2 DEF IInv, ShownTraced
  <2>2. PICK q \in Request : /\ req[q].kind = "upload"
                             /\ held[q].owner # {}
                             /\ row.owner = HeldId(q, "owner")
                             /\ row.name = req[q].category
    BY <2>1 DEF CategoryTraced
  <2>3. req[q].owner = req[r].owner
    BY <2>1, <2>2, SameOwner
  <2> QED BY <1>2, <2>2, <2>3
<1> QED BY <1>1, <1>2

\* The invariant holds in every state the server can reach.
THEOREM Invariant == Spec => []IInv
<1> QED BY InitInvariant, NextInvariant, PTL DEF Spec

\* An embedding is filed under a centroid of its own document's category,
\* whatever the caches, the replica, the deletes and the crashes did: what lets
\* search.go read embeddings by centroid id alone.
THEOREM EmbeddingsAgreeHolds == Spec => []EmbeddingsAgree
  BY Invariant, InvariantAgrees, PTL

\* No answer leaves the owner and category it was asked for, although both
\* names are resolved through caches nothing ever invalidates.
THEOREM IsolationHolds == Spec => []Isolation
  BY Invariant, InvariantIsolates, PTL
=============================================================================
