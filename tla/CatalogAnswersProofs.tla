------------------------ MODULE CatalogAnswersProofs ------------------------
(* What the answers of Catalog contain, and which rows it creates: proofs of   *)
(* OneInitialCentroid, DeletedNotServed, AckedSearchable and CompleteSearch,   *)
(* each in every deployment it holds in.                                      *)
EXTENDS CatalogSafetyProofs, CatalogAnswers, FiniteSetTheorems, WellFoundedInduction

USE DEF Stage, Ended, PC, Leader, Kind

-----------------------------------------------------------------------------
(* How a step changes a table, a flight, the cache.                          *)

\* The actions that write to the primary.
LEMMA DbActions ==
  ASSUME [Next]_vars
  PROVE  \/ UNCHANGED db
         \/ \E r \in Request : Create(r) \/ Delete(r) \/ SaveDocuments(r) \/ SaveEmbeddings(r)
  BY ZenonT(60) DEF Next, vars, Step, Arrive, Join, Hit, Lead, Read, Save, MatrixPanic, Probe,
         ScanPage, FetchDocuments, LookupOwner, ListCategories, TakeCategory, Fail,
         Expire, Crash, Replicate, Quiet

\* What a leader's insert does.
LEMMA CreateFacts ==
  ASSUME TypeInv, NEW r \in Request, Create(r)
  PROVE  /\ flight[r] = "create" /\ pc[r] \in Stage
         /\ UNCHANGED <<replica, cache, req, docs, scan, shown, since>>
         /\ flight'[r] \in {"none", "save"}
         /\ \/ UNCHANGED db
            \/ Accepted(r) /\ db' = Inserted(r)
<1>1. /\ flight[r] = "create" /\ pc[r] \in Stage
      /\ UNCHANGED <<replica, cache, req, docs, scan, shown, since>>
      /\ flight \in [Request -> Leader \cup {"none", "wait"}]
  BY DEF Create, TypeInv, TypeOK
<1>2. CASE Refuse(Party(r), "failed")
  <2>1. flight'[r] = "none"
    BY <1>2, PartyFacts DEF Refuse
  <2> QED BY <1>1, <1>2, <2>1 DEF Create
<1>3. CASE /\ Accepted(r) /\ db' = Inserted(r)
           /\ flight' = [flight EXCEPT ![r] = "save"]
  BY <1>1, <1>3
<1> QED BY <1>2, <1>3 DEF Create

\* A row that is new in a stage's table is a leader's.
LEMMA TableGrows ==
  ASSUME TypeInv, [Next]_vars, NEW stage \in Stage, NEW row \in TableOf(db', stage)
  PROVE  \/ row \in TableOf(db, stage)
         \/ \E q \in Request : /\ Create(q) /\ Accepted(q) /\ db' = Inserted(q)
                               /\ pc[q] = stage /\ row = NewRow(q)
<1>1. ASSUME NEW q \in Request, Create(q)
      PROVE  \/ row \in TableOf(db, stage)
             \/ /\ Accepted(q) /\ db' = Inserted(q)
                /\ pc[q] = stage /\ row = NewRow(q)
  BY <1>1, CreateFacts, InsertedRow
<1>2. ASSUME NEW q \in Request, Delete(q) PROVE row \in TableOf(db, stage)
  BY <1>2, DeletedFacts, TableOfValue DEF Delete
<1>3. ASSUME NEW q \in Request, SaveDocuments(q) PROVE row \in TableOf(db, stage)
  BY <1>3, SaveDocumentsFacts, TableOfValue
<1>4. ASSUME NEW q \in Request, SaveEmbeddings(q) PROVE row \in TableOf(db, stage)
  BY <1>4, SaveEmbeddingsFacts, TableOfValue
<1> QED BY <1>1, <1>2, <1>3, <1>4, DbActions

\* A leader goes on leading at the same place with the same question.
LEMMA LeaderStep ==
  ASSUME TypeInv, [Next]_vars, NEW r \in Request, flight'[r] \in Leader
  PROVE  \/ Lead(r)
         \/ /\ flight[r] \in Leader
            /\ pc'[r] = pc[r] /\ pc[r] \in Stage
            /\ held'[r] = held[r] /\ req'[r] = req[r]
            /\ flight'[r] = flight[r] \/ Read(r) \/ Create(r)
<1> DEFINE Goal == \/ Lead(r)
                   \/ /\ flight[r] \in Leader
                      /\ pc'[r] = pc[r] /\ pc[r] \in Stage
                      /\ held'[r] = held[r] /\ req'[r] = req[r]
                      /\ flight'[r] = flight[r] \/ Read(r) \/ Create(r)
<1>1. ASSUME NEW q \in Request, Arrive(q) PROVE Goal
  <2>1. flight'[r] = flight[r] /\ pc[r] \in Stage /\ q # r
    BY <1>1 DEF Arrive, TypeInv, TypeOK
  <2> QED BY <1>1, <2>1 DEF Arrive, TypeInv, TypeOK
<1>2. ASSUME NEW q \in Request, Join(q) \/ Lead(q) PROVE Goal
  <2>1. CASE q = r
    BY <1>2, <2>1 DEF Join, TypeInv, TypeOK
  <2>2. CASE q # r
    BY <1>2, <2>2 DEF Join, Lead, TypeInv, TypeOK
  <2> QED BY <2>1, <2>2
<1>3. ASSUME NEW q \in Request, Hit(q) PROVE Goal
  BY <1>3 DEF Hit, Deliver, TypeInv, TypeOK
<1>4. ASSUME NEW q \in Request, Read(q) PROVE Goal
  <2>1. CASE Refuse(Party(q), "notFound")
    BY <1>4, <2>1 DEF Read, Refuse, TypeInv, TypeOK
  <2>2. CASE UNCHANGED <<pc, held>> /\ \E next \in Leader : flight' = [flight EXCEPT ![q] = next]
    <3>1. UNCHANGED req /\ flight[q] = "read"
      BY <1>4 DEF Read
    <3>2. flight[r] \in Leader
      BY <2>2, <3>1 DEF TypeInv, TypeOK
    <3>3. flight'[r] = flight[r] \/ q = r
      BY <2>2 DEF TypeInv, TypeOK
    <3> QED BY <1>4, <2>2, <3>1, <3>2, <3>3 DEF TypeInv, TypeOK
  <2> QED BY <1>4, <2>1, <2>2 DEF Read
<1>5. ASSUME NEW q \in Request, Create(q) PROVE Goal
  <2>1. CASE Refuse(Party(q), "failed")
    BY <1>5, <2>1 DEF Create, Refuse, TypeInv, TypeOK
  <2>2. CASE UNCHANGED <<pc, held>> /\ flight' = [flight EXCEPT ![q] = "save"]
    <3>1. UNCHANGED req /\ flight[q] = "create"
      BY <1>5 DEF Create
    <3>2. flight[r] \in Leader
      BY <2>2, <3>1 DEF TypeInv, TypeOK
    <3>3. flight'[r] = flight[r] \/ q = r
      BY <2>2 DEF TypeInv, TypeOK
    <3> QED BY <1>5, <2>2, <3>1, <3>2, <3>3 DEF TypeInv, TypeOK
  <2> QED BY <1>5, <2>1, <2>2 DEF Create
<1>6. ASSUME NEW q \in Request, Save(q) PROVE Goal
  BY <1>6 DEF Save, Deliver, TypeInv, TypeOK
<1>7. ASSUME NEW q \in Request,
             \/ MatrixPanic(q) \/ SaveDocuments(q) \/ SaveEmbeddings(q) \/ Probe(q)
             \/ ScanPage(q) \/ FetchDocuments(q) \/ LookupOwner(q) \/ ListCategories(q)
             \/ TakeCategory(q) \/ Delete(q)
      PROVE  Goal
  <2>1. /\ pc[q] \notin Stage
        /\ UNCHANGED <<req, flight>>
    BY <1>7 DEF MatrixPanic, SaveDocuments, SaveEmbeddings, Probe, ScanPage,
                FetchDocuments, LookupOwner, ListCategories, TakeCategory, Delete
  <2>2. flight'[r] = flight[r] /\ pc[r] \in Stage /\ q # r
    BY <2>1 DEF TypeInv, TypeOK
  <2>3. pc'[r] = pc[r] /\ held'[r] = held[r]
    BY <1>7, <2>2 DEF MatrixPanic, SaveDocuments, SaveEmbeddings, Probe, ScanPage,
                FetchDocuments, LookupOwner, ListCategories, TakeCategory, Delete,
                TypeInv, TypeOK
  <2> QED BY <2>1, <2>2, <2>3
<1>8. ASSUME NEW q \in Request, Fail(q) PROVE Goal
  BY <1>8 DEF Fail, Refuse, TypeInv, TypeOK
<1>9. ASSUME NEW i \in Instance, Crash(i) PROVE Goal
  BY <1>9 DEF Crash, TypeInv, TypeOK
<1>10. CASE UNCHANGED <<req, pc, flight, held>>
  BY <1>10 DEF TypeInv, TypeOK
<1>11. ASSUME NEW i \in Instance, Expire(i) PROVE UNCHANGED <<req, pc, flight, held>>
  BY <1>11 DEF Expire
<1>12. Replicate \/ Quiet \/ UNCHANGED vars => UNCHANGED <<req, pc, flight, held>>
  BY DEF Replicate, Quiet, vars
<1>13. ASSUME NEW q \in Request, Step(q) PROVE Goal
  BY <1>2, <1>3, <1>4, <1>5, <1>6, <1>7, <1>13 DEF Step
<1>14. CASE Replicate \/ Quiet \/ UNCHANGED vars \/ \E i \in Instance : Expire(i)
  BY <1>10, <1>11, <1>12, <1>14
<1>15. \/ \E q \in Request : Arrive(q) \/ Step(q) \/ Fail(q)
       \/ \E i \in Instance : Crash(i)
       \/ Replicate \/ Quiet \/ UNCHANGED vars \/ \E i \in Instance : Expire(i)
  BY DEF Next
<1> QED BY <1>1, <1>8, <1>9, <1>13, <1>14, <1>15

\* A new cache entry is what a leader has just saved.
LEMMA CacheGrows ==
  ASSUME TypeInv, [Next]_vars, NEW i \in Instance, NEW e \in cache'[i], e \notin cache[i]
  PROVE  \E r \in Request : /\ Save(r) /\ flight'[r] = "none"
                            /\ flight[r] = "save" /\ pc[r] \in Stage
                            /\ e = [stage |-> pc[r], key |-> Key(r), rows |-> got[r]]
<1>1. ASSUME NEW r \in Request, Save(r)
      PROVE  /\ flight'[r] = "none"
             /\ flight[r] = "save" /\ pc[r] \in Stage
             /\ e = [stage |-> pc[r], key |-> Key(r), rows |-> got[r]]
  <2>1. flight'[r] = "none"
    BY <1>1, PartyFacts DEF Save, Deliver
  <2>2. flight[r] = "save" /\ pc[r] \in Stage
    BY <1>1 DEF Save, TypeInv, TypeOK
  <2>3. e = [stage |-> pc[r], key |-> Key(r), rows |-> got[r]]
    BY <1>1 DEF Save, TypeInv, TypeOK
  <2> QED BY <2>1, <2>2, <2>3
<1>2. ASSUME NEW j \in Instance, Expire(j) \/ Crash(j) PROVE e \in cache[i]
  BY <1>2 DEF Expire, Crash, TypeInv, TypeOK
<1>3. \/ UNCHANGED cache
      \/ \E r \in Request : Save(r)
      \/ \E j \in Instance : Expire(j) \/ Crash(j)
  BY ZenonT(60) DEF Next, vars, Step, Arrive, Join, Hit, Lead, Read, Create, MatrixPanic,
         SaveDocuments, SaveEmbeddings, Probe, ScanPage, FetchDocuments, LookupOwner,
         ListCategories, TakeCategory, Delete, Fail, Replicate, Quiet
<1> QED BY <1>1, <1>2, <1>3

-----------------------------------------------------------------------------
(* One fetch of a key at a time.                                             *)

\* Whether two handlers share a fetch depends on what they ask and hold.
LEMMA SharingStays ==
  ASSUME NEW q \in Request, NEW r \in Request,
         pc'[q] = pc[q], req'[q] = req[q], held'[q] = held[q],
         pc'[r] = pc[r], req'[r] = req[r], held'[r] = held[r]
  PROVE  Sharing(q, r)' = Sharing(q, r)
<1>1. Key(q)' = Key(q) /\ Key(r)' = Key(r)
  BY KeyStays
<1> QED BY <1>1 DEF Sharing

\* What leading changes.
LEMMA LeadFacts ==
  ASSUME TypeInv, NEW r \in Request, Lead(r)
  PROVE  /\ flight[r] = "none" /\ pc[r] \in Stage
         /\ ~InFlight(r) /\ Cached(r) = {}
         /\ flight'[r] = "read"
         /\ \A q \in Request \ {r} : flight'[q] = flight[q]
         /\ UNCHANGED <<db, replica, cache, req, pc, got, held>>
  BY DEF Lead, Calling, TypeInv, TypeOK

\* Nobody leads where another leads: the singleflight admits one.
LEMMA OneLeaderStays ==
  ASSUME TypeInv, OneLeader, [Next]_vars
  PROVE  OneLeader'
<1> SUFFICES ASSUME NEW q \in Request, NEW r \in Request,
                    flight'[q] \in Leader, flight'[r] \in Leader, Sharing(q, r)'
             PROVE  q = r
  BY DEF OneLeader
<1>1. ASSUME NEW l \in Request, Lead(l) PROVE q = r
  <2>1. Sharing(q, r)
    BY <1>1, LeadFacts, SharingStays
  <2>2. /\ \A p \in Request \ {l} : flight'[p] \in Leader =>
             flight[p] \in Leader /\ pc[p] \in Stage /\ ~Sharing(p, l)
    BY <1>1, LeadFacts DEF InFlight, TypeInv, TypeOK
  <2>3. Sharing(r, q)
    BY <2>1 DEF Sharing
  <2> QED BY <2>1, <2>2, <2>3 DEF OneLeader
<1>2. CASE \A l \in Request : ~Lead(l)
  <2>1. /\ flight[q] \in Leader /\ pc'[q] = pc[q] /\ req'[q] = req[q] /\ held'[q] = held[q]
        /\ flight[r] \in Leader /\ pc'[r] = pc[r] /\ req'[r] = req[r] /\ held'[r] = held[r]
    BY <1>2, LeaderStep
  <2>2. Sharing(q, r)
    BY <2>1, SharingStays
  <2> QED BY <2>1, <2>2 DEF OneLeader
<1> QED BY <1>1, <1>2

\* A row answers one key of its stage.
LEMMA OneKey ==
  ASSUME NEW q \in Request, NEW r \in Request, pc[q] \in Stage, pc[r] = pc[q], NEW row,
         Matches(pc[q], Key(q), row), Matches(pc[q], Key(r), row)
  PROVE  Key(q) = Key(r)
<1>1. CASE pc[q] = "owner"
  BY <1>1, KeyValue, MatchesValue
<1>2. CASE pc[q] = "category"
  BY <1>2, KeyValue, MatchesValue
<1>3. CASE pc[q] = "centroids"
  BY <1>3, KeyValue, MatchesValue
<1> QED BY <1>1, <1>2, <1>3

\* The stored rows of a key, by membership.
LEMMA StoredMeans ==
  ASSUME NEW stage, NEW key, NEW row
  PROVE  /\ row \in Stored(stage, key) <=> row \in TableOf(db, stage) /\ Matches(stage, key, row)
         /\ row \in Stored(stage, key)' => row \in TableOf(db', stage) /\ Matches(stage, key, row)
  BY DEF Stored, TableOf, Matches

\* Only the leader of a key makes a new row for it.
LEMMA StoredGrows ==
  ASSUME TypeInv, [Next]_vars, NEW stage \in Stage, NEW key,
         NEW row \in TableOf(db', stage), Matches(stage, key, row)
  PROVE  \/ row \in Stored(stage, key)
         \/ \E q \in Request : /\ Create(q) /\ Accepted(q) /\ db' = Inserted(q)
                               /\ pc[q] = stage /\ row = NewRow(q)
                               /\ Matches(stage, Key(q), row)
<1>1. CASE row \in TableOf(db, stage)
  BY <1>1, StoredMeans
<1>2. ASSUME NEW q \in Request, Create(q), Accepted(q), db' = Inserted(q),
             pc[q] = stage, row = NewRow(q)
      PROVE  Matches(stage, Key(q), row)
  BY <1>2, NewRowMatches
<1> HIDE DEF Stage
<1> QED BY <1>1, <1>2, TableGrows

\* So a handler that leads goes on seeing the rows it saw, but for its own.
LEMMA LeaderSees ==
  ASSUME OneServer, TypeInv, OneLeader, [Next]_vars,
         NEW r \in Request, flight[r] \in Leader, ~Create(r),
         NEW row \in TableOf(db', pc[r]), Matches(pc[r], Key(r), row)
  PROVE  row \in Stored(pc[r], Key(r))
<1>1. pc[r] \in Stage
  BY DEF TypeInv, TypeOK
<1>2. ASSUME NEW q \in Request, Create(q), pc[q] = pc[r], Matches(pc[r], Key(q), row)
      PROVE  FALSE
  <2>1. Key(q) = Key(r)
    BY <1>1, <1>2, OneKey
  <2>2. flight[q] \in Leader /\ At[q] = At[r]
    BY <1>2, CreateFacts, CatalogAssumption DEF OneServer
  <2> QED BY <1>2, <2>1, <2>2 DEF OneLeader, Sharing
<1> HIDE DEF Stage, Leader
<1> QED BY <1>1, <1>2, StoredGrows

\* A leader's query that comes back empty makes it create, if it is an upload.
LEMMA ReadFacts ==
  ASSUME TypeInv, NEW r \in Request, Read(r)
  PROVE  /\ flight[r] = "read" /\ pc[r] \in Stage
         /\ UNCHANGED <<db, replica, cache, req, docs, scan, shown, since>>
         /\ \/ /\ Refuse(Party(r), "notFound") /\ Found(r) = {} /\ pc[r] # "centroids"
               /\ UNCHANGED got
            \/ /\ flight'[r] = "create" /\ Found(r) = {}
               /\ got' = [got EXCEPT ![r] = Found(r)]
               /\ UNCHANGED <<pc, held>>
            \/ /\ flight'[r] = "save"
               /\ got' = [got EXCEPT ![r] = Found(r)]
               /\ UNCHANGED <<pc, held>>
  BY DEF Read, TypeInv, TypeOK

\* What a leader finds on the primary is what is stored.
LEMMA FoundStored ==
  ASSUME ~Lagging, NEW r \in Request, pc[r] \in Stage
  PROVE  Found(r) = Stored(pc[r], Key(r))
<1>0. View = db
  BY DEF View
<1>1. CASE pc[r] = "owner"
  BY <1>0, <1>1, FoundValue, KeyValue, MatchesValue, TableOfValue DEF Stored
<1>2. CASE pc[r] = "category"
  BY <1>0, <1>2, FoundValue, KeyValue, MatchesValue, TableOfValue DEF Stored
<1>3. CASE pc[r] = "centroids"
  BY <1>0, <1>3, FoundValue, KeyValue, MatchesValue, TableOfValue DEF Stored
<1> QED BY <1>1, <1>2, <1>3

\* A row an upload goes on to create is not there.
LEMMA NothingToCreateStays ==
  ASSUME OneServer, ~Lagging, TypeInv, FetchInv, [Next]_vars
  PROVE  NothingToCreate'
<1> SUFFICES ASSUME NEW r \in Request, flight'[r] = "create",
                    NEW row \in Stored(pc[r], Key(r))'
             PROVE  FALSE
  BY DEF NothingToCreate
<1>1. ~Lead(r) /\ ~Create(r)
  BY LeadFacts, CreateFacts
<1>2. /\ flight[r] \in Leader
      /\ pc'[r] = pc[r] /\ pc[r] \in Stage /\ held'[r] = held[r] /\ req'[r] = req[r]
      /\ flight'[r] = flight[r] \/ Read(r)
  BY <1>1, LeaderStep
<1>3. Key(r)' = Key(r)
  BY <1>2, KeyStays
<1>4. row \in TableOf(db', pc[r]) /\ Matches(pc[r], Key(r), row)
  BY <1>2, <1>3 DEF Stored, TableOf, Matches
<1>5. row \in Stored(pc[r], Key(r))
  BY <1>1, <1>2, <1>4, LeaderSees DEF FetchInv
<1>6. CASE flight'[r] = flight[r]
  BY <1>5, <1>6 DEF FetchInv, NothingToCreate
<1>7. CASE Read(r)
  <2>1. Found(r) = {}
    BY <1>7, <1>2, ReadFacts, PartyFacts DEF Refuse
  <2> QED BY <1>2, <1>5, <2>1, FoundStored
<1> QED BY <1>2, <1>6, <1>7

\* The fetches of one process do not get in each other's way.
LEMMA NextFetch ==
  ASSUME OneServer, ~Lagging, TypeInv, FetchInv, [Next]_vars
  PROVE  FetchInv'
  BY OneLeaderStays, NothingToCreateStays DEF FetchInv

\* A centroid is inserted for a category that has none.
LEMMA CentroidStays ==
  ASSUME TypeInv, FetchInv, OneInitialCentroid, [Next]_vars
  PROVE  OneInitialCentroid'
<1> SUFFICES ASSUME NEW c \in db'.centroids, NEW e \in db'.centroids, c.category = e.category
             PROVE  c = e
  BY DEF OneInitialCentroid
<1>1. CASE c \in db.centroids /\ e \in db.centroids
  BY <1>1 DEF OneInitialCentroid
<1>2. ASSUME NEW q \in Request, Create(q), pc[q] = "centroids", db' = Inserted(q)
      PROVE  c = e
  <2>1. db'.centroids = db.centroids \cup {NewRow(q)}
    BY <1>2, InsertedFacts
  <2>2. \A x \in db.centroids : x.category # NewRow(q).category
    <3>1. flight[q] = "create"
      BY <1>2 DEF Create
    <3>2. Stored("centroids", Key(q)) = {}
      BY <1>2, <3>1 DEF FetchInv, NothingToCreate
    <3>3. Key(q)[1] = NewRow(q).category
      BY <1>2, KeyValue, NewRowValue
    <3> QED BY <3>2, <3>3, StoredMeans, MatchesValue, TableOfValue
  <2>3. CASE c \in db.centroids /\ e \in db.centroids
    BY <2>3 DEF OneInitialCentroid
  <2> QED BY <2>1, <2>2, <2>3
<1>3. TableOf(db', "centroids") = db'.centroids /\ TableOf(db, "centroids") = db.centroids
  BY TableOfValue
<1> QED BY <1>1, <1>2, <1>3, TableGrows

\* Concurrent first uploads give a category one initial centroid, in every
\* deployment of one process that reads what it writes: the look-up and the
\* insert of cache/centroid.go are one fetch of the singleflight.
THEOREM OneInitialCentroidHolds ==
  ASSUME OneServer, ~Lagging
  PROVE  Spec => []OneInitialCentroid
<1> DEFINE Inv == TypeInv /\ FetchInv /\ OneInitialCentroid
<1>1. Init => Inv
  <2> SUFFICES ASSUME Init PROVE Inv
    OBVIOUS
  <2>1. FetchInv
    BY DEF Init, FetchInv, OneLeader, NothingToCreate
  <2>2. OneInitialCentroid
    BY DEF Init, EmptyTables, OneInitialCentroid
  <2> QED BY <2>1, <2>2, InitTypes
<1>2. Inv /\ [Next]_vars => Inv'
  BY NextTypes, NextFetch, CentroidStays
<1>3. Inv => OneInitialCentroid
  OBVIOUS
<1> QED BY <1>1, <1>2, <1>3, PTL DEF Spec

-----------------------------------------------------------------------------
(* Enforced foreign keys.                                                    *)

\* A cascade takes the children of the rows it takes, and no others.
LEMMA DropCascades ==
  ASSUME ForeignKeys, NEW d \in Tables, NEW os \in SUBSET d.owners,
         NEW cs \in SUBSET d.categories, NEW ds \in SUBSET d.documents,
         NEW left, left = Drop(d, os, cs, ds)
  PROVE  /\ \A c \in left.categories : c.owner \notin Gone(d.owners, left.owners)
         /\ \A c \in left.centroids : c.category \notin Gone(d.categories, left.categories)
         /\ \A x \in left.documents : x.category \notin Gone(d.categories, left.categories)
         /\ \A e \in left.embeddings :
              /\ e.document \notin Gone(d.documents, left.documents)
              /\ e.centroid \notin Gone(d.centroids, left.centroids)
         /\ \A c \in d.centroids \ left.centroids :
              c.category \in Gone(d.categories, left.categories)
         /\ \A e \in d.embeddings \ left.embeddings :
              \/ e.document \in Gone(d.documents, left.documents)
              \/ e.centroid \in Gone(d.centroids, left.centroids)
<1> DEFINE categories == cs \cup {c \in d.categories : c.owner \in Ids(os)}
           centroids  == {c \in d.centroids : c.category \in Ids(categories)}
           documents  == ds \cup {x \in d.documents : x.category \in Ids(categories)}
           embeddings == {e \in d.embeddings : \/ e.document \in Ids(documents)
                                               \/ e.centroid \in Ids(centroids)}
<1>1. /\ left.owners = d.owners \ os
      /\ left.categories = d.categories \ categories
      /\ left.centroids = d.centroids \ centroids
      /\ left.documents = d.documents \ documents
      /\ left.embeddings = d.embeddings \ embeddings
  BY DEF Drop
<1>2. /\ d.owners \ left.owners = os
      /\ d.categories \ left.categories = categories
      /\ d.centroids \ left.centroids = centroids
      /\ d.documents \ left.documents = documents
      /\ d.embeddings \ left.embeddings = embeddings
  BY <1>1
<1>3. /\ \A c \in left.categories : c.owner \notin Ids(os)
      /\ \A c \in left.centroids : c.category \notin Ids(categories)
      /\ \A x \in left.documents : x.category \notin Ids(categories)
      /\ \A e \in left.embeddings : e.document \notin Ids(documents) /\ e.centroid \notin Ids(centroids)
      /\ \A c \in centroids : c.category \in Ids(categories)
      /\ \A e \in embeddings : e.document \in Ids(documents) \/ e.centroid \in Ids(centroids)
  BY <1>1
<1> HIDE DEF categories, centroids, documents, embeddings
<1> QED BY <1>2, <1>3 DEF Gone

\* So does the delete of each kind of request.
LEMMA DeletedCascades ==
  ASSUME ForeignKeys, TypeInv, NEW r \in Request, Delete(r)
  PROVE  /\ \A c \in db'.categories : c.owner \notin Gone(db.owners, db'.owners)
         /\ \A c \in db'.centroids : c.category \notin Gone(db.categories, db'.categories)
         /\ \A x \in db'.documents : x.category \notin Gone(db.categories, db'.categories)
         /\ \A e \in db'.embeddings :
              /\ e.document \notin Gone(db.documents, db'.documents)
              /\ e.centroid \notin Gone(db.centroids, db'.centroids)
         /\ \A c \in db.centroids \ db'.centroids :
              c.category \in Gone(db.categories, db'.categories)
         /\ \A e \in db.embeddings \ db'.embeddings :
              \/ e.document \in Gone(db.documents, db'.documents)
              \/ e.centroid \in Gone(db.centroids, db'.centroids)
<1>1. db \in Tables /\ db' = Deleted(r) /\ pc[r] = "delete"
  BY DEF Delete, TypeInv, TypeOK
<1>2. \E os \in SUBSET db.owners, cs \in SUBSET db.categories, ds \in SUBSET db.documents :
        Deleted(r) = Drop(db, os, cs, ds)
  <2>1. CASE req[r].kind = "deleteOwner"
    <3>1. Deleted(r) = Drop(db, {o \in db.owners : o.name = req[r].owner}, {}, {})
      BY <2>1 DEF Deleted
    <3>2. /\ {o \in db.owners : o.name = req[r].owner} \in SUBSET db.owners
          /\ {} \in SUBSET db.categories /\ {} \in SUBSET db.documents
      OBVIOUS
    <3> QED BY <3>1, <3>2
  <2>2. CASE req[r].kind = "deleteCategory"
    <3>1. Deleted(r) = Drop(db, {}, {c \in db.categories : /\ c.owner = HeldId(r, "owner")
                                             /\ c.name = req[r].category}, {})
      BY <2>2 DEF Deleted
    <3>2. /\ {c \in db.categories : /\ c.owner = HeldId(r, "owner")
                                    /\ c.name = req[r].category} \in SUBSET db.categories
          /\ {} \in SUBSET db.owners /\ {} \in SUBSET db.documents
      OBVIOUS
    <3> QED BY <3>1, <3>2
  <2>3. CASE req[r].kind = "deleteDocument"
    <3>1. Deleted(r) = Drop(db, {}, {}, {d \in db.documents : /\ d.id = req[r].target
                                                /\ d.category = HeldId(r, "category")})
      BY <2>3 DEF Deleted
    <3>2. /\ {d \in db.documents : /\ d.id = req[r].target
                                   /\ d.category = HeldId(r, "category")} \in SUBSET db.documents
          /\ {} \in SUBSET db.owners /\ {} \in SUBSET db.categories
      OBVIOUS
    <3> QED BY <3>1, <3>2
  <2> QED BY <1>1, <2>1, <2>2, <2>3 DEF TypeInv, InOrder
<1>3. PICK os \in SUBSET db.owners, cs \in SUBSET db.categories, ds \in SUBSET db.documents :
        db' = Drop(db, os, cs, ds)
  BY <1>1, <1>2
<1> HIDE DEF Drop
<1> QED BY <1>1, <1>3, DropCascades

\* Without enforced foreign keys a delete takes no centroid and no embedding along.
LEMMA DeletedSpares ==
  ASSUME ~ForeignKeys, TypeInv, NEW r \in Request, Delete(r)
  PROVE  db'.centroids = db.centroids /\ db'.embeddings = db.embeddings
<1>1. db' = Deleted(r) /\ pc[r] = "delete"
  BY DEF Delete
<1>2. PICK os, cs, ds : Deleted(r) = Drop(db, os, cs, ds)
  <2>1. req[r].kind \in {"deleteOwner", "deleteCategory", "deleteDocument"}
    BY <1>1 DEF TypeInv, InOrder
  <2> QED BY <2>1 DEF Deleted
<1> QED BY <1>1, <1>2 DEF Drop

\* The rows an upload's two inserts refer to.
LEMMA ParentsFit ==
  ASSUME ForeignKeys, TypeInv, NEW r \in Request
  PROVE  /\ SaveDocuments(r) => \/ UNCHANGED db
                                \/ HeldId(r, "category") \in Ids(db.categories)
         /\ (Create(r) /\ pc[r] = "category") => \/ UNCHANGED db
                                                 \/ HeldId(r, "owner") \in Ids(db.owners)
         /\ (Create(r) /\ pc[r] = "centroids") => \/ UNCHANGED db
                                                  \/ HeldId(r, "category") \in Ids(db.categories)
  BY DEF SaveDocuments, Create, Accepted, CategoryFits, ChildFits

\* What saving an upload's embeddings adds.
LEMMA SavedRows ==
  ASSUME TypeInv, NEW r \in Request, SaveEmbeddings(r)
  PROVE  \/ UNCHANGED db /\ pc' = [pc EXCEPT ![r] = "failed"]
         \/ \E nearest \in [DocIds(r) \X (0 .. Sections - 1) -> Ids(held[r].centroids)] :
              /\ EmbeddingsFit(db, EmbeddingRows(r, nearest))
              /\ db'.embeddings = db.embeddings \cup EmbeddingRows(r, nearest)
<1>1. PICK nearest \in [DocIds(r) \X (0 .. Sections - 1) -> Ids(held[r].centroids)] :
        \/ /\ EmbeddingsFit(db, EmbeddingRows(r, nearest))
           /\ db' = [db EXCEPT !.embeddings = @ \cup EmbeddingRows(r, nearest),
                               !.next = @ + Docs * Sections]
        \/ UNCHANGED db /\ pc' = [pc EXCEPT ![r] = "failed"]
  BY Zenon DEF SaveEmbeddings
<1> HIDE DEF EmbeddingRows
<1>2. db \in Tables
  BY DEF TypeInv, TypeOK
<1> QED BY <1>1, <1>2 DEF Tables

\* Enforced foreign keys keep the tables whole.
LEMMA IntactStays ==
  ASSUME ForeignKeys, TypeInv, Intact, [Next]_vars
  PROVE  Intact'
<1>1. CASE UNCHANGED db
  BY <1>1 DEF Intact
<1>2. ASSUME NEW r \in Request, Create(r) PROVE Intact'
  <2>0. UNCHANGED db \/ db' = Inserted(r)
    BY <1>2, CreateFacts
  <2>1. CASE db' = Inserted(r) /\ ~ UNCHANGED db
    <3>0. pc[r] \in Stage
      BY <1>2, CreateFacts
    <3>1. /\ db'.documents = db.documents
          /\ db'.embeddings = db.embeddings
          /\ db'.owners = IF pc[r] = "owner" THEN db.owners \cup {NewRow(r)} ELSE db.owners
          /\ db'.categories =
               IF pc[r] = "category" THEN db.categories \cup {NewRow(r)} ELSE db.categories
          /\ db'.centroids =
               IF pc[r] = "centroids" THEN db.centroids \cup {NewRow(r)} ELSE db.centroids
      BY <2>1, <3>0, InsertedFacts
    <3>2. /\ Ids(db.owners) \subseteq Ids(db'.owners)
          /\ Ids(db.categories) \subseteq Ids(db'.categories)
          /\ Ids(db.centroids) \subseteq Ids(db'.centroids)
      BY <3>1 DEF Ids
    <3>3. pc[r] = "category" => NewRow(r).owner \in Ids(db.owners)
      BY <1>2, <2>1, ParentsFit, NewRowValue
    <3>4. pc[r] = "centroids" => NewRow(r).category \in Ids(db.categories)
      BY <1>2, <2>1, ParentsFit, NewRowValue
    <3>5. \A c \in db'.categories : c.owner \in Ids(db'.owners)
      BY <3>1, <3>2, <3>3 DEF Intact
    <3>6. \A c \in db'.centroids : c.category \in Ids(db'.categories)
      BY <3>1, <3>2, <3>4 DEF Intact
    <3> QED BY <3>1, <3>2, <3>5, <3>6 DEF Intact
  <2> QED BY <1>1, <2>0, <2>1
<1>3. ASSUME NEW r \in Request, Delete(r) PROVE Intact'
  <2>0. /\ db'.categories \subseteq db.categories
        /\ db'.centroids \subseteq db.centroids
        /\ db'.documents \subseteq db.documents
        /\ db'.embeddings \subseteq db.embeddings
    BY <1>3, DeletedFacts DEF Delete
  <2>1. \A table, left, id : id \in Ids(table) /\ id \notin Gone(table, left) => id \in Ids(left)
    BY DEF Ids, Gone
  <2>2. \A c \in db'.categories : c.owner \in Ids(db'.owners)
    BY <1>3, <2>0, <2>1, DeletedCascades DEF Intact
  <2>3. \A c \in db'.centroids : c.category \in Ids(db'.categories)
    BY <1>3, <2>0, <2>1, DeletedCascades DEF Intact
  <2>4. \A d \in db'.documents : d.category \in Ids(db'.categories)
    BY <1>3, <2>0, <2>1, DeletedCascades DEF Intact
  <2>5. \A e \in db'.embeddings : e.document \in Ids(db'.documents) /\ e.centroid \in Ids(db'.centroids)
    BY <1>3, <2>0, <2>1, DeletedCascades DEF Intact
  <2> QED BY <2>2, <2>3, <2>4, <2>5 DEF Intact
<1>4. ASSUME NEW r \in Request, SaveDocuments(r), ~ UNCHANGED db PROVE Intact'
  <2>1. /\ db'.documents = db.documents \cup
             {[id |-> n, category |-> HeldId(r, "category"), by |-> r] :
                 n \in db.next .. db.next + Docs - 1}
        /\ db'.owners = db.owners
        /\ db'.categories = db.categories
        /\ db'.centroids = db.centroids
        /\ db'.embeddings = db.embeddings
    BY <1>4, SaveDocumentsFacts
  <2>2. HeldId(r, "category") \in Ids(db.categories)
    BY <1>4, ParentsFit
  <2>3. \A d \in db'.documents : d.category \in Ids(db'.categories)
    BY <2>1, <2>2 DEF Intact
  <2>4. Ids(db.documents) \subseteq Ids(db'.documents)
    BY <2>1 DEF Ids
  <2> QED BY <2>1, <2>3, <2>4 DEF Intact
<1>5. ASSUME NEW r \in Request, SaveEmbeddings(r), ~ UNCHANGED db PROVE Intact'
  <2>1. /\ db'.owners = db.owners
        /\ db'.categories = db.categories
        /\ db'.centroids = db.centroids
        /\ db'.documents = db.documents
    BY <1>5, SaveEmbeddingsFacts
  <2>2. PICK nearest \in [DocIds(r) \X (0 .. Sections - 1) -> Ids(held[r].centroids)] :
          /\ EmbeddingsFit(db, EmbeddingRows(r, nearest))
          /\ db'.embeddings = db.embeddings \cup EmbeddingRows(r, nearest)
    BY <1>5, SavedRows
  <2> HIDE DEF EmbeddingRows
  <2>3. \A e \in db'.embeddings : e.document \in Ids(db'.documents) /\ e.centroid \in Ids(db'.centroids)
    BY <2>1, <2>2 DEF Intact, EmbeddingsFit
  <2> QED BY <2>1, <2>3 DEF Intact
<1> QED BY <1>1, <1>2, <1>3, <1>4, <1>5, DbActions

-----------------------------------------------------------------------------
(* Documents that were deleted are not served.                               *)

\* What is known of a request when it arrives.
LEMMA ArriveFacts ==
  ASSUME TypeInv, NEW r \in Request, Arrive(r)
  PROVE  /\ pc[r] = "idle"
         /\ pc'[r] \in {"delete", "lookup", "owner"}
         /\ since'[r].next = db.next
         /\ since'[r].live = Ids(db.documents)
         /\ since'[r].acked = AckedFor(req'[r].owner, req'[r].category)
         /\ UNCHANGED <<db, replica, cache, flight, got, held, docs, scan, shown>>
         /\ \A q \in Request \ {r} : pc'[q] = pc[q] /\ req'[q] = req[q] /\ since'[q] = since[q]
<1>1. PICK kind \in May[r], o \in Owner, c \in Category, wide \in BOOLEAN,
           target \in {0} \cup Ids(db.documents) :
        /\ kind # "search" => wide
        /\ kind # "deleteDocument" => target = 0
        /\ req' = [req EXCEPT ![r] = [kind |-> kind, owner |-> o, category |-> c,
                                      wide |-> wide, target |-> target]]
        /\ pc' = [pc EXCEPT ![r] = FirstStep(kind)]
        /\ since' = [since EXCEPT ![r] = [next |-> db.next,
                                          live |-> Ids(db.documents),
                                          acked |-> AckedFor(o, c)]]
  BY DEF Arrive
<1>2. FirstStep(kind) \in {"delete", "lookup", "owner"}
  BY FirstStepValue, CatalogAssumption
<1> QED BY <1>1, <1>2 DEF Arrive, TypeInv, TypeOK

\* Whoever has not been asked, or has answered, stays where it is.
LEMMA RestStep ==
  ASSUME TypeInv, [Next]_vars, NEW r \in Request, pc[r] \in Ended \cup {"idle"}
  PROVE  pc'[r] = pc[r] \/ Arrive(r)
<1>0. pc \in [Request -> PC]
  BY DEF TypeInv, TypeOK
<1>1. ASSUME NEW q \in Request, Arrive(q) PROVE pc'[r] = pc[r] \/ Arrive(r)
  BY <1>1, ArriveFacts
<1>2. ASSUME NEW q \in Request, Join(q) \/ Lead(q) PROVE pc'[r] = pc[r]
  BY <1>2 DEF Join, Lead
<1>3. ASSUME NEW q \in Request, Hit(q) PROVE pc'[r] = pc[r]
  BY <1>0, <1>3 DEF Hit, Calling, Deliver
<1>4. ASSUME NEW q \in Request, NEW error, pc[q] \in Stage, Refuse(Party(q), error)
      PROVE  pc'[r] = pc[r]
  BY <1>0, <1>4, PartyFacts DEF Refuse
<1>5. ASSUME NEW q \in Request, Read(q) PROVE pc'[r] = pc[r]
  BY <1>4, <1>5, ReadFacts
<1>6. ASSUME NEW q \in Request, Create(q) PROVE pc'[r] = pc[r]
  BY <1>4, <1>6, CreateFacts DEF Create
<1>7. ASSUME NEW q \in Request, Save(q) PROVE pc'[r] = pc[r]
  <2>1. pc[q] \in Stage
    BY <1>7 DEF Save, TypeInv, TypeOK
  <2> QED BY <1>0, <1>7, <2>1, PartyFacts DEF Save, Deliver
<1>8. ASSUME NEW q \in Request,
             \/ MatrixPanic(q) \/ SaveDocuments(q) \/ SaveEmbeddings(q) \/ Probe(q)
             \/ ScanPage(q) \/ FetchDocuments(q) \/ LookupOwner(q) \/ ListCategories(q)
             \/ TakeCategory(q) \/ Delete(q)
      PROVE  pc'[r] = pc[r]
  <2>1. pc[q] \notin Ended \cup {"idle"}
    BY <1>8 DEF MatrixPanic, SaveDocuments, SaveEmbeddings, Probe, ScanPage,
                FetchDocuments, LookupOwner, ListCategories, TakeCategory, Delete
  <2> QED BY <1>0, <1>8, <2>1 DEF MatrixPanic, SaveDocuments, SaveEmbeddings, Probe, ScanPage,
                FetchDocuments, LookupOwner, ListCategories, TakeCategory, Delete
<1>9. ASSUME NEW q \in Request, Fail(q) PROVE pc'[r] = pc[r]
  <2>1. CASE flight[q] \in {"read", "create"} /\ Refuse(Party(q), "failed")
    BY <1>4, <2>1 DEF TypeInv, TypeOK
  <2>2. CASE (pc[q] \in Calls \/ pc[q] = "owner") /\ Refuse({q}, "failed")
    BY <1>0, <2>2 DEF Calls, Refuse
  <2> QED BY <1>9, <2>1, <2>2 DEF Fail
<1>10. ASSUME NEW i \in Instance, Crash(i) PROVE pc'[r] = pc[r]
  BY <1>0, <1>10 DEF Crash
<1>11. ASSUME NEW i \in Instance, Expire(i) PROVE pc'[r] = pc[r]
  BY <1>11 DEF Expire
<1>12. Replicate \/ Quiet \/ UNCHANGED vars => pc'[r] = pc[r]
  BY DEF Replicate, Quiet, vars
<1>13. ASSUME NEW q \in Request, Step(q) PROVE pc'[r] = pc[r]
  BY <1>2, <1>3, <1>5, <1>6, <1>7, <1>8, <1>13 DEF Step
<1> QED BY <1>1, <1>9, <1>10, <1>11, <1>12, <1>13 DEF Next

\* It stays known.
LEMMA SinceStep ==
  ASSUME TypeInv, [Next]_vars, NEW r \in Request, pc'[r] # "idle"
  PROVE  \/ Arrive(r)
         \/ pc[r] # "idle" /\ since'[r] = since[r] /\ req'[r] = req[r]
<1>1. CASE Arrive(r)
  BY <1>1
<1>2. CASE ~Arrive(r)
  <2>1. pc[r] # "idle"
    BY <1>2, RestStep
  <2>2. ASSUME NEW q \in Request, Arrive(q) PROVE since'[r] = since[r]
    BY <1>2, <2>2, ArriveFacts
  <2>3. UNCHANGED since \/ \E q \in Request : Arrive(q)
    BY ZenonT(60) DEF Next, vars, Step, Join, Hit, Lead, Read, Create, Save, MatrixPanic,
         SaveDocuments, SaveEmbeddings, Probe, ScanPage, FetchDocuments, LookupOwner,
         ListCategories, TakeCategory, Delete, Fail, Expire, Crash, Replicate, Quiet
  <2> QED BY <2>1, <2>2, <2>3, ReqStep
<1> QED BY <1>1, <1>2

\* A document is one that was there or takes a number nobody had.
LEMMA DocumentsGrow ==
  ASSUME TypeInv, [Next]_vars, NEW d \in db'.documents
  PROVE  \/ d \in db.documents
         \/ \E q \in Request : /\ SaveDocuments(q) /\ d.by = q
                               /\ d.id \in Nat /\ d.id >= db.next
<1>1. ASSUME NEW q \in Request, Create(q) PROVE d \in db.documents
  BY <1>1, CreateFacts, InsertedFacts
<1>2. ASSUME NEW q \in Request, Delete(q) PROVE d \in db.documents
  BY <1>2, DeletedFacts DEF Delete
<1>3. ASSUME NEW q \in Request, SaveDocuments(q), d \notin db.documents
      PROVE  d.by = q /\ d.id \in Nat /\ d.id >= db.next
  <2>1. d \in {[id |-> n, category |-> HeldId(q, "category"), by |-> q] :
                 n \in db.next .. db.next + Docs - 1}
    BY <1>3, SaveDocumentsFacts
  <2>2. PICK n \in db.next .. db.next + Docs - 1 :
          d = [id |-> n, category |-> HeldId(q, "category"), by |-> q]
    BY <2>1
  <2>3. db.next \in Nat /\ Docs \in Nat
    BY CatalogAssumption DEF TypeInv, TypeOK, Tables
  <2> QED BY <2>2, <2>3
<1>4. ASSUME NEW q \in Request, SaveEmbeddings(q) PROVE d \in db.documents
  BY <1>4, SaveEmbeddingsFacts
<1> QED BY <1>1, <1>2, <1>3, <1>4, DbActions

\* A document that was not there when a request arrived is new.
LEMMA LiveOrNewStays ==
  ASSUME TypeInv, LiveOrNew, [Next]_vars
  PROVE  LiveOrNew'
<1> SUFFICES ASSUME NEW r \in Request, pc'[r] # "idle"
             PROVE  /\ since'[r].next <= db'.next
                    /\ \A d \in db'.documents :
                         d.id \in since'[r].live \/ d.id >= since'[r].next
  BY DEF LiveOrNew
<1>1. db.next \in Nat /\ db'.next \in Nat /\ db'.next >= db.next
  BY NextStep
<1>2. CASE Arrive(r)
  <2>1. db' = db /\ since'[r].next = db.next /\ since'[r].live = Ids(db.documents)
    BY <1>2, ArriveFacts
  <2> QED BY <1>1, <2>1 DEF Ids
<1>3. CASE pc[r] # "idle" /\ since'[r] = since[r]
  <2>1. since[r].next \in Nat /\ since[r].next <= db.next
    BY <1>3 DEF LiveOrNew, TypeInv, TypeOK
  <2>2. ASSUME NEW d \in db'.documents
        PROVE  d.id \in since[r].live \/ d.id >= since[r].next
    <3>1. CASE d \in db.documents
      BY <1>3, <3>1 DEF LiveOrNew
    <3>2. CASE d.id \in Nat /\ d.id >= db.next
      BY <1>1, <2>1, <3>2
    <3> QED BY <3>1, <3>2, DocumentsGrow
  <2> QED BY <1>1, <1>3, <2>1, <2>2
<1> QED BY <1>2, <1>3, SinceStep

\* A page adds hits whose documents are there.
LEMMA DeletedNotServedStays ==
  ASSUME ~Lagging, TypeInv, Intact, LiveOrNew, DeletedNotServed, [Next]_vars
  PROVE  DeletedNotServed'
<1> SUFFICES ASSUME NEW r \in Request, NEW id \in scan'[r].hits
             PROVE  id \in since'[r].live \/ id >= since'[r].next
  BY DEF DeletedNotServed
<1>1. pc[r] # "idle"
  <2> SUFFICES ASSUME pc[r] = "idle" PROVE FALSE
    OBVIOUS
  <2>1. scan[r] = NoScan
    BY DEF TypeInv, InOrder
  <2>2. scan'[r] = scan[r]
    BY ScanStep
  <2> QED BY <2>1, <2>2 DEF NoScan
<1>2. since'[r] = since[r]
  <2>1. pc'[r] # "idle"
    <3>1. TypeInv'
      BY NextTypes
    <3>2. scan'[r] # NoScan
      BY DEF NoScan
    <3> QED BY <3>1, <3>2 DEF TypeInv, InOrder
  <2> QED BY <1>1, <2>1, SinceStep, ArriveFacts
<1>3. CASE id \in scan[r].hits
  BY <1>2, <1>3 DEF DeletedNotServed
<1>4. ASSUME NEW e \in Page(r), id = e.document
      PROVE  id \in since[r].live \/ id >= since[r].next
  <2>1. e \in db.embeddings
    BY <1>4 DEF Page, View
  <2>2. PICK d \in db.documents : d.id = id
    BY <1>4, <2>1 DEF Intact, Ids
  <2> QED BY <1>1, <2>2 DEF LiveOrNew
<1> QED BY <1>2, <1>3, <1>4, ScanStep

\* A document whose deletion was over when a search arrived is not among its
\* hits, whatever owner, category and centroids the search found in its cache:
\* the foreign keys have taken its embeddings along, and numbers are not reused.
THEOREM DeletedNotServedHolds ==
  ASSUME ForeignKeys, ~Lagging
  PROVE  Spec => []DeletedNotServed
<1> DEFINE Inv == TypeInv /\ Intact /\ LiveOrNew /\ DeletedNotServed
<1>1. Init => Inv
  <2> SUFFICES ASSUME Init PROVE Inv
    OBVIOUS
  <2>1. Intact
    BY DEF Init, EmptyTables, Intact
  <2>2. LiveOrNew
    BY DEF Init, LiveOrNew
  <2>3. DeletedNotServed
    BY DEF Init, NoScan, DeletedNotServed
  <2> QED BY <2>1, <2>2, <2>3, InitTypes
<1>2. Inv /\ [Next]_vars => Inv'
  BY NextTypes, IntactStays, LiveOrNewStays, DeletedNotServedStays
<1>3. Inv => DeletedNotServed
  OBVIOUS
<1> QED BY <1>1, <1>2, <1>3, PTL DEF Spec

-----------------------------------------------------------------------------
(* What an acknowledged upload stored stays whole.                           *)

\* A primary key is one document's.
LEMMA OneDocument ==
  ASSUME IInv, NEW d \in db.documents, NEW x \in db.documents, d.id = x.id
  PROVE  d = x
<1>1. DocumentTraced(d) /\ DocumentTraced(x) /\ d.by \in Request /\ x.by \in Request
  BY Traced, ByRequest DEF IInv
<1>2. d.by = x.by
  BY <1>1, OneUpload DEF IInv, DocumentTraced
<1>3. d.category = x.category
  BY <1>1, <1>2 DEF DocumentTraced
<1>4. d \in DocumentRow /\ x \in DocumentRow
  BY DEF IInv, TypeInv, TypeOK, Tables
<1> QED BY <1>2, <1>3, <1>4 DEF DocumentRow

\* A stored document is of the upload its number belongs to.
LEMMA DocumentOf ==
  ASSUME IInv, NEW d \in db.documents, NEW u \in Request
  PROVE  d.id \in DocIds(u) <=> d.by = u
<1>1. DocumentTraced(d) /\ d.by \in Request
  BY Traced, ByRequest DEF IInv
<1>2. d.id \in DocIds(d.by)
  BY <1>1 DEF DocumentTraced
<1> QED BY <1>1, <1>2, OneUpload DEF IInv

\* The numbers of an upload are below the next key.
LEMMA DocIdsBelow ==
  ASSUME IInv, NEW u \in Request, NEW id \in DocIds(u)
  PROVE  id \in Nat /\ id < db.next
<1>1. docs[u] \in Nat /\ Docs \in Nat \ {0} /\ db.next \in Nat
  BY CatalogAssumption DEF IInv, TypeInv, TypeOK, Tables
<1>2. docs[u] + Docs <= db.next /\ id \in docs[u] .. docs[u] + Docs - 1
  BY DocIdsMeans DEF IInv, IdsApart
<1> QED BY <1>1, <1>2

\* An upload comes to its embeddings from its documents, and to its end from them.
LEMMA UploadStep ==
  ASSUME TypeInv, [Next]_vars, NEW q \in Request
  PROVE  /\ pc'[q] = "embeddings" => pc[q] = "embeddings" \/ SaveDocuments(q)
         /\ (pc[q] = "embeddings" /\ pc'[q] = "ok") => SaveEmbeddings(q)
<1> DEFINE Fine == /\ pc'[q] = "embeddings" => pc[q] = "embeddings" \/ SaveDocuments(q)
                   /\ (pc[q] = "embeddings" /\ pc'[q] = "ok") => SaveEmbeddings(q)
<1>0. pc \in [Request -> PC]
  BY DEF TypeInv, TypeOK
<1>a. CASE pc'[q] = pc[q]
  BY <1>a
<1>1. ASSUME NEW r \in Request, Arrive(r) PROVE Fine
  <2>1. CASE r = q
    BY <1>1, <2>1, ArriveFacts
  <2>2. CASE r # q
    BY <1>1, <2>2, ArriveFacts
  <2> QED BY <2>1, <2>2
<1>2. ASSUME NEW r \in Request, Join(r) \/ Lead(r) PROVE Fine
  BY <1>2, <1>a DEF Join, Lead
<1>3. ASSUME NEW r \in Request, NEW rows, Deliver(Party(r), rows) \/ Deliver({r}, rows),
             pc[r] \in Stage
      PROVE Fine
  <2>1. pc'[q] = pc[q] \/ (pc'[q] = Onward(q, rows) /\ pc[q] \in Stage)
    BY <1>0, <1>3, PartyFacts DEF Deliver
  <2>2. pc[q] \in Stage => Onward(q, rows) # "embeddings"
    BY OnwardValue
  <2> QED BY <2>1, <2>2
<1>4. ASSUME NEW r \in Request, NEW error, pc[r] \in Stage, Refuse(Party(r), error)
      PROVE  Fine
  <2>1. pc'[q] = pc[q] \/ (pc'[q] = AfterError(q, error) /\ pc[q] \in Stage)
    BY <1>0, <1>4, PartyFacts DEF Refuse
  <2> QED BY <2>1, AfterErrorValue
<1>5. ASSUME NEW r \in Request, Hit(r) PROVE Fine
  BY <1>3, <1>5 DEF Hit, Calling
<1>6. ASSUME NEW r \in Request, Read(r) PROVE Fine
  BY <1>4, <1>6, <1>a, ReadFacts
<1>7. ASSUME NEW r \in Request, Create(r) PROVE Fine
  BY <1>4, <1>7, <1>a, CreateFacts DEF Create
<1>8. ASSUME NEW r \in Request, Save(r) PROVE Fine
  BY <1>3, <1>8 DEF Save, TypeInv, TypeOK
<1>9. ASSUME NEW r \in Request, SaveDocuments(r) PROVE Fine
  <2>1. CASE r = q
    BY <1>0, <1>9, <2>1, SaveDocumentsFacts
  <2>2. CASE r # q
    BY <1>0, <1>9, <2>2, SaveDocumentsFacts
  <2> QED BY <2>1, <2>2
<1>10. ASSUME NEW r \in Request, SaveEmbeddings(r) PROVE Fine
  <2>1. CASE r = q
    BY <1>0, <1>10, <2>1, SaveEmbeddingsFacts
  <2>2. CASE r # q
    BY <1>0, <1>10, <2>2, SaveEmbeddingsFacts
  <2> QED BY <2>1, <2>2
<1>11. ASSUME NEW r \in Request,
             \/ MatrixPanic(r) \/ Probe(r)
             \/ ScanPage(r) \/ FetchDocuments(r) \/ LookupOwner(r) \/ ListCategories(r)
             \/ TakeCategory(r) \/ Delete(r)
      PROVE  Fine
  BY <1>0, <1>11 DEF MatrixPanic, Probe, ScanPage, FetchDocuments,
                LookupOwner, ListCategories, TakeCategory, Delete
<1>12. ASSUME NEW r \in Request, Fail(r) PROVE Fine
  <2>1. CASE flight[r] \in {"read", "create"} /\ Refuse(Party(r), "failed")
    BY <1>4, <2>1 DEF TypeInv, TypeOK
  <2>2. CASE (pc[r] \in Calls \/ pc[r] = "owner") /\ Refuse({r}, "failed")
    <3>1. AfterError(r, "failed") # "embeddings" /\ AfterError(r, "failed") # "ok"
      BY DEF AfterError
    <3> QED BY <1>0, <2>2, <3>1 DEF Refuse
  <2> QED BY <1>12, <2>1, <2>2 DEF Fail
<1>13. ASSUME NEW i \in Instance, Crash(i) PROVE Fine
  BY <1>0, <1>13 DEF Crash
<1>14. ASSUME NEW i \in Instance, Expire(i) PROVE Fine
  BY <1>14, <1>a DEF Expire
<1>15. Replicate \/ Quiet \/ UNCHANGED vars => Fine
  BY <1>a DEF Replicate, Quiet, vars
<1>16. ASSUME NEW r \in Request, Step(r) PROVE Fine
  BY <1>2, <1>5, <1>6, <1>7, <1>8, <1>9, <1>10, <1>11, <1>16 DEF Step
<1> QED BY <1>1, <1>12, <1>13, <1>14, <1>15, <1>16 DEF Next

\* The embeddings of one document of an upload are as many as its sections.
LEMMA RowsOfDocument ==
  ASSUME TypeInv, NEW r \in Request, pc[r] = "embeddings",
         NEW nearest \in [DocIds(r) \X (0 .. Sections - 1) -> Ids(held[r].centroids)],
         NEW n \in DocIds(r)
  PROVE  Cardinality({e \in EmbeddingRows(r, nearest) : e.document = n}) = Sections
<1> DEFINE own == {e \in EmbeddingRows(r, nearest) : e.document = n}
           base == db.next + (n - docs[r]) * Sections
           f == [k \in 0 .. Sections - 1 |->
                  [id |-> base + k, document |-> n, centroid |-> nearest[<<n, k>>]]]
<1>1. base \in Nat /\ Sections \in Nat \ {0}
  <2>1. /\ db.next \in Nat /\ Sections \in Nat \ {0} /\ Docs \in Nat /\ docs[r] \in Nat
    BY CatalogAssumption DEF TypeInv, TypeOK, Tables
  <2>2. n - docs[r] \in Nat
    BY <2>1, DocIdsMeans
  <2>3. (n - docs[r]) * Sections \in Nat
    BY <2>1, <2>2
  <2> QED BY <2>1, <2>3
<1>2. \A k \in 0 .. Sections - 1 : f[k] \in own
  <2> TAKE k \in 0 .. Sections - 1
  <2>1. <<n, k>> \in DocIds(r) \X (0 .. Sections - 1)
    OBVIOUS
  <2>2. f[k] \in EmbeddingRows(r, nearest)
    BY <2>1 DEF EmbeddingRows
  <2> QED BY <2>2
<1>3. \A e \in own : \E k \in 0 .. Sections - 1 : f[k] = e
  <2> TAKE e \in own
  <2>1. PICK p \in DocIds(r) \X (0 .. Sections - 1) :
          e = [id |-> db.next + (p[1] - docs[r]) * Sections + p[2],
               document |-> p[1],
               centroid |-> nearest[p]]
    BY DEF EmbeddingRows
  <2>2. p[1] = n /\ p[2] \in 0 .. Sections - 1 /\ p = <<p[1], p[2]>>
    BY <2>1
  <2>3. f[p[2]] = e
    BY <2>1, <2>2
  <2> QED BY <2>2, <2>3
<1>4. \A j, k \in 0 .. Sections - 1 : f[j] = f[k] => j = k
  <2> TAKE j, k \in 0 .. Sections - 1
  <2>1. f[j].id = base + j /\ f[k].id = base + k
    OBVIOUS
  <2> HIDE DEF f
  <2>2. f[j] = f[k] => base + j = base + k
    BY <2>1
  <2> HIDE DEF base
  <2>3. base + j = base + k => j = k
    BY <1>1
  <2> QED BY <2>2, <2>3
<1>5. f = [k \in 0 .. Sections - 1 |-> f[k]]
  OBVIOUS
<1> HIDE DEF own, f, base
<1>6. f \in Bijection(0 .. Sections - 1, own)
  BY <1>2, <1>3, <1>4, <1>5 DEF Bijection, Injection, Surjection, IsInjective
<1>7. IsFiniteSet(0 .. Sections - 1) /\ Cardinality(0 .. Sections - 1) = Sections
  BY <1>1, FS_Interval
<1>8. Cardinality(own) = Sections
  BY <1>6, <1>7, FS_Bijection DEF ExistsBijection
<1> QED BY <1>8 DEF own

\* The embeddings of an upload are finitely many and counted on from next.
LEMMA RowsCounted ==
  ASSUME TypeInv, NEW r \in Request,
         NEW nearest \in [DocIds(r) \X (0 .. Sections - 1) -> Ids(held[r].centroids)]
  PROVE  /\ IsFiniteSet(EmbeddingRows(r, nearest))
         /\ \A e \in EmbeddingRows(r, nearest) : e.id # 0
<1>0. /\ db.next \in Nat \ {0} /\ Sections \in Nat \ {0} /\ Docs \in Nat /\ docs[r] \in Nat
  BY CatalogAssumption DEF TypeInv, TypeOK, NeverNothing, Tables
<1> DEFINE S == DocIds(r) \X (0 .. Sections - 1)
           f == [p \in S |-> [id |-> db.next + (p[1] - docs[r]) * Sections + p[2],
                              document |-> p[1],
                              centroid |-> nearest[p]]]
<1>1. IsFiniteSet(S)
  <2>1. IsFiniteSet(DocIds(r))
    <3>1. IsFiniteSet(docs[r] .. docs[r] + Docs - 1)
      BY <1>0, FS_Interval
    <3> QED BY <3>1, FS_EmptySet DEF DocIds
  <2>2. IsFiniteSet(0 .. Sections - 1)
    BY <1>0, FS_Interval
  <2> QED BY <2>1, <2>2, FS_Product
<1>2. f \in Surjection(S, EmbeddingRows(r, nearest))
  BY DEF Surjection, EmbeddingRows
<1>3. ASSUME NEW e \in EmbeddingRows(r, nearest) PROVE e.id # 0
  <2>1. PICK p \in DocIds(r) \X (0 .. Sections - 1) :
          e.id = db.next + (p[1] - docs[r]) * Sections + p[2]
    BY DEF EmbeddingRows
  <2>2. p[1] - docs[r] \in Nat /\ p[2] \in Nat
    BY <1>0, DocIdsMeans
  <2>3. PICK m \in Nat : m = (p[1] - docs[r]) * Sections
    BY <1>0, <2>2
  <2>4. e.id = db.next + m + p[2]
    BY <2>1, <2>3
  <2>5. \A a, b, c \in Nat : a # 0 => a + b + c # 0
    OBVIOUS
  <2>6. db.next + m + p[2] # 0
    BY <1>0, <2>2, <2>5
  <2> QED BY <2>4, <2>6
<1> HIDE DEF f, S, EmbeddingRows
<1> QED BY <1>1, <1>2, <1>3, FS_Surjection

\* The actions that change the embeddings.
LEMMA EmbeddingsStep ==
  ASSUME TypeInv, [Next]_vars
  PROVE  \/ db'.embeddings = db.embeddings
         \/ \E r \in Request : Delete(r) \/ SaveEmbeddings(r)
<1>1. ASSUME NEW r \in Request, Create(r) PROVE db'.embeddings = db.embeddings
  BY <1>1, CreateFacts, InsertedFacts
<1>2. ASSUME NEW r \in Request, SaveDocuments(r) PROVE db'.embeddings = db.embeddings
  BY <1>2, SaveDocumentsFacts
<1> QED BY <1>1, <1>2, DbActions

\* Embeddings stay finitely many, numbered from 1.
LEMMA CountedStays ==
  ASSUME TypeInv, EmbeddingsCounted, [Next]_vars
  PROVE  EmbeddingsCounted'
<1>1. CASE db'.embeddings = db.embeddings
  BY <1>1 DEF EmbeddingsCounted
<1>2. ASSUME NEW r \in Request, Delete(r) PROVE EmbeddingsCounted'
  <2>1. db'.embeddings \subseteq db.embeddings
    BY <1>2, DeletedFacts DEF Delete
  <2> QED BY <2>1, FS_Subset DEF EmbeddingsCounted
<1>3. ASSUME NEW r \in Request, SaveEmbeddings(r) PROVE EmbeddingsCounted'
  <2>1. ASSUME NEW nearest \in [DocIds(r) \X (0 .. Sections - 1) -> Ids(held[r].centroids)],
               db'.embeddings = db.embeddings \cup EmbeddingRows(r, nearest)
        PROVE  EmbeddingsCounted'
    <3> HIDE DEF EmbeddingRows
    <3> QED BY <2>1, RowsCounted, FS_Union DEF EmbeddingsCounted
  <2> HIDE DEF EmbeddingRows
  <2> QED BY <1>1, <1>3, <2>1, SavedRows
<1> QED BY <1>1, <1>2, <1>3, EmbeddingsStep

\* A stored document keeps its embeddings and gets no more, but from its upload.
LEMMA OwnStays ==
  ASSUME IInv, [Next]_vars,
         NEW d \in db.documents, d \in db'.documents, ~SaveEmbeddings(d.by)
  PROVE  Own(d)' = Own(d)
<1>0. d.by \in Request /\ d.id \in DocIds(d.by)
  BY Traced, ByRequest DEF IInv, DocumentTraced
<1>1. CASE db'.embeddings = db.embeddings
  BY <1>1 DEF Own
<1>2. ASSUME NEW r \in Request, Delete(r) PROVE Own(d)' = Own(d)
  <2>0. CASE ~ForeignKeys
    BY <1>1, <1>2, <2>0, DeletedSpares DEF IInv
  <2>1. db'.embeddings \subseteq db.embeddings
    BY <1>2, DeletedFacts DEF Delete, IInv
  <2>2. ASSUME ForeignKeys, NEW e \in db.embeddings, e.document = d.id, e \notin db'.embeddings
        PROVE  FALSE
    <3>1. CASE e.document \in Gone(db.documents, db'.documents)
      <4>1. PICK x \in db.documents \ db'.documents : x.id = d.id
        BY <2>2, <3>1 DEF Gone, Ids
      <4> QED BY <4>1, OneDocument
    <3>2. CASE e.centroid \in Gone(db.centroids, db'.centroids)
      <4>1. PICK c \in db.centroids \ db'.centroids : c.id = e.centroid
        BY <3>2 DEF Gone, Ids
      <4>2. d.category = c.category
        BY <2>2, <4>1, InvariantAgrees DEF EmbeddingsAgree
      <4> QED BY <1>2, <2>2, <4>1, <4>2, DeletedCascades DEF IInv
    <3> QED BY <1>2, <2>2, <3>1, <3>2, DeletedCascades DEF IInv
  <2> QED BY <2>0, <2>1, <2>2 DEF Own
<1>3. ASSUME NEW r \in Request, SaveEmbeddings(r) PROVE Own(d)' = Own(d)
  <2>1. /\ db.embeddings \subseteq db'.embeddings
        /\ \A e \in db'.embeddings : e \in db.embeddings \/ e.document \in DocIds(r)
    <3>1. ASSUME NEW nearest, db'.embeddings = db.embeddings \cup EmbeddingRows(r, nearest)
          PROVE  db.embeddings \subseteq db'.embeddings
      BY <3>1
    <3>2. db.embeddings \subseteq db'.embeddings
      <4> HIDE DEF EmbeddingRows
      <4> QED BY <1>3, <3>1, SavedRows DEF IInv
    <3> QED BY <1>3, <3>2, SaveEmbeddingsFacts DEF IInv
  <2>2. d.id \notin DocIds(r)
    BY <1>0, <1>3, OneUpload DEF IInv
  <2> QED BY <2>1, <2>2 DEF Own
<1> QED BY <1>1, <1>2, <1>3, EmbeddingsStep DEF IInv

\* An upload saves its embeddings at once and only then answers.
LEMMA OwnEmbeddingsStays ==
  ASSUME IInv, OwnEmbeddings, [Next]_vars
  PROVE  OwnEmbeddings'
<1>0. TypeInv
  BY DEF IInv
<1>1. ASSUME NEW q \in Request, pc'[q] = "embeddings", NEW e \in db'.embeddings,
             e.document \in DocIds(q)'
      PROVE  FALSE
  <2>1. CASE pc[q] = "embeddings"
    <3>1. docs[q] # 0
      BY <1>0, <2>1 DEF TypeInv, InOrder
    <3>2. DocIds(q)' = DocIds(q)
      BY <1>0, <3>1, DocsStay
    <3>3. CASE e \in db.embeddings
      BY <1>1, <2>1, <3>2, <3>3 DEF OwnEmbeddings
    <3>4. ASSUME NEW r \in Request, SaveEmbeddings(r), e \notin db.embeddings
          PROVE  FALSE
      <4>1. e.document \in DocIds(r)
        BY <1>0, <3>4, SaveEmbeddingsFacts
      <4>2. q = r
        BY <1>1, <3>2, <4>1, OneUpload DEF IInv
      <4>3. pc' \in {[pc EXCEPT ![r] = "ok"], [pc EXCEPT ![r] = "failed"]}
        BY <1>0, <3>4, SaveEmbeddingsFacts
      <4>4. pc'[r] # "embeddings"
        BY <1>0, <4>3 DEF TypeInv, TypeOK
      <4> QED BY <1>1, <4>2, <4>4
    <3>5. ASSUME NEW r \in Request, Delete(r) PROVE e \in db.embeddings
      BY <1>0, <3>5, DeletedFacts DEF Delete
    <3> QED BY <1>0, <3>3, <3>4, <3>5, EmbeddingsStep
  <2>2. CASE SaveDocuments(q)
    <3>1. docs'[q] = db.next /\ db.next \in Nat /\ e \in db.embeddings
      BY <1>0, <1>1, <2>2, SaveDocumentsFacts DEF TypeInv, TypeOK, Tables
    <3>2. e.document \in db.next .. db.next + Docs - 1
      BY <1>1, <3>1 DEF DocIds
    <3>3. EmbeddingTraced(e)
      BY <3>1, Traced DEF IInv
    <3>4. PICK u \in Request : e.document \in DocIds(u)
      BY <3>3 DEF EmbeddingTraced
    <3>5. e.document \in Nat /\ e.document < db.next
      BY <3>4, DocIdsBelow
    <3> QED BY <3>1, <3>2, <3>5, CatalogAssumption
  <2> QED BY <1>0, <1>1, <2>1, <2>2, UploadStep
<1>2. ASSUME NEW q \in Request, pc'[q] = "ok", NEW d \in db'.documents, d.by = q
      PROVE  Cardinality(Own(d)') = Sections
  <2>1. d \in db.documents
    <3>1. SUFFICES ASSUME SaveDocuments(q) PROVE FALSE
      BY <1>0, <1>2, DocumentsGrow
    <3>2. pc' \in {[pc EXCEPT ![q] = "embeddings"], [pc EXCEPT ![q] = "failed"]}
      BY <1>0, <3>1, SaveDocumentsFacts
    <3>3. pc \in [Request -> PC]
      BY <1>0 DEF TypeInv, TypeOK
    <3>4. pc'[q] \in {"embeddings", "failed"}
      BY <3>2, <3>3
    <3> QED BY <1>2, <3>4
  <2>2. d.id \in DocIds(q)
    BY <1>2, <2>1, DocumentOf
  <2>3. pc[q] \in Ended \cup {"embeddings"}
    BY <1>0, <2>2, DocIdsMeans DEF TypeInv, InOrder
  <2>4. CASE pc[q] = "ok" /\ ~SaveEmbeddings(q)
    BY <1>2, <2>1, <2>4, OwnStays DEF OwnEmbeddings
  <2>5. CASE SaveEmbeddings(q)
    <3>1. PICK nearest \in [DocIds(q) \X (0 .. Sections - 1) -> Ids(held[q].centroids)] :
            db'.embeddings = db.embeddings \cup EmbeddingRows(q, nearest)
      <4>1. pc' # [pc EXCEPT ![q] = "failed"]
        BY <1>0, <1>2 DEF TypeInv, TypeOK
      <4> HIDE DEF EmbeddingRows
      <4> QED BY <1>0, <2>5, <4>1, SavedRows
    <3>2. pc[q] = "embeddings"
      BY <2>5 DEF SaveEmbeddings
    <3>3. \A e \in db.embeddings : e.document # d.id
      BY <2>2, <3>2 DEF OwnEmbeddings
    <3>4. Own(d)' = {e \in EmbeddingRows(q, nearest) : e.document = d.id}
      <4> HIDE DEF EmbeddingRows
      <4> QED BY <3>1, <3>3 DEF Own
    <3> HIDE DEF EmbeddingRows
    <3> QED BY <1>0, <2>2, <3>2, <3>4, RowsOfDocument
  <2>6. pc[q] = "ok" \/ SaveEmbeddings(q)
    <3>1. CASE pc[q] = "embeddings"
      BY <1>0, <1>2, <3>1, UploadStep
    <3>2. CASE pc[q] \in Ended
      <4>1. ~Arrive(q)
        BY <1>0, <3>2, ArriveFacts
      <4> QED BY <1>0, <1>2, <3>2, <4>1, RestStep
    <3> QED BY <2>3, <3>1, <3>2
  <2> QED BY <2>4, <2>5, <2>6
<1> QED BY <1>1, <1>2 DEF OwnEmbeddings

\* The tables stay whole, and documents with all their embeddings.
LEMMA NextKeep ==
  ASSUME ForeignKeys, IInv, KeepInv, [Next]_vars
  PROVE  KeepInv'
<1> QED BY IntactStays, OwnEmbeddingsStays, CountedStays DEF KeepInv, IInv

\* It begins empty.
LEMMA InitKeep == Init => KeepInv
<1> SUFFICES ASSUME Init PROVE KeepInv
  OBVIOUS
<1>1. Intact
  BY DEF Init, EmptyTables, Intact
<1>2. OwnEmbeddings
  BY DEF Init, OwnEmbeddings
<1>3. EmbeddingsCounted
  BY FS_EmptySet DEF Init, EmptyTables, EmbeddingsCounted
<1> QED BY <1>1, <1>2, <1>3 DEF KeepInv

\* Where nothing cascades, centroids are only added, and copies are of stored ones.
LEMMA CentroidsStayStays ==
  ASSUME ~ForeignKeys, TypeInv, CentroidsStay, [Next]_vars
  PROVE  CentroidsStay'
<1>1. db.centroids \subseteq db'.centroids
  <2>1. ASSUME NEW r \in Request, Create(r) PROVE db.centroids \subseteq db'.centroids
    BY <2>1, CreateFacts, InsertedFacts
  <2>2. ASSUME NEW r \in Request, Delete(r) PROVE db.centroids \subseteq db'.centroids
    BY <2>2, DeletedSpares
  <2>3. ASSUME NEW r \in Request, SaveDocuments(r) \/ SaveEmbeddings(r)
        PROVE  db.centroids \subseteq db'.centroids
    BY <2>3, SaveDocumentsFacts, SaveEmbeddingsFacts
  <2> QED BY <2>1, <2>2, <2>3, DbActions
<1>2. ASSUME NEW a \in Seen("centroids")' PROVE a \in db'.centroids
  <2>1. a \in Seen("centroids") \/ a \in TableOf(db', "centroids")
    BY <1>2, SeenGrows
  <2> QED BY <1>1, <2>1 DEF CentroidsStay, TableOf
<1> QED BY <1>2 DEF CentroidsStay

\* A document that an acknowledged upload stored has an embedding for each of its
\* sections as long as it is there, each under a centroid that is there: in every
\* deployment, whatever else was deleted, and although documents and embeddings are
\* two statements.  Foreign keys take documents and centroids of a category
\* together, and without them neither goes with the category.
THEOREM AckedSearchableHolds == Spec => []AckedSearchable
<1> DEFINE Inv == IInv /\ WholeInv
<1>1. Init => Inv
  <2> SUFFICES ASSUME Init PROVE Inv
    OBVIOUS
  <2>1. Intact /\ OwnEmbeddings
    BY InitKeep DEF KeepInv
  <2>2. CentroidsStay
    <3>1. ASSUME NEW a \in Seen("centroids") PROVE FALSE
      BY <3>1 DEF Init, EmptyTables, NothingHeld, Seen, TableOf, CachedRows
    <3> QED BY <3>1 DEF CentroidsStay
  <2> QED BY <2>1, <2>2, InitInvariant DEF WholeInv
<1>2. Inv /\ [Next]_vars => Inv'
  <2> SUFFICES ASSUME Inv, [Next]_vars PROVE Inv'
    OBVIOUS
  <2>1. CASE ForeignKeys
    BY <2>1, NextInvariant, IntactStays, OwnEmbeddingsStays DEF WholeInv, IInv
  <2>2. CASE ~ForeignKeys
    BY <2>2, NextInvariant, CentroidsStayStays, OwnEmbeddingsStays DEF WholeInv, IInv
  <2> QED BY <2>1, <2>2
<1>3. Inv => AckedSearchable
  <2> SUFFICES ASSUME Inv, NEW q \in Request, NEW d \in db.documents, pc[q] = "ok", d.by = q
               PROVE  /\ Cardinality(Own(d)) = Sections
                      /\ \A e \in Own(d) : e.centroid \in Ids(db.centroids)
    BY DEF AckedSearchable, Own
  <2>1. ASSUME ~ForeignKeys, NEW e \in db.embeddings PROVE e.centroid \in Ids(db.centroids)
    <3>1. PICK u \in Request : e.centroid \in Ids(held[u].centroids)
      BY <2>1, Traced DEF IInv, EmbeddingTraced
    <3>2. held[u]["centroids"] \subseteq Seen("centroids")
      BY SeenIntro
    <3> QED BY <2>1, <3>1, <3>2 DEF WholeInv, CentroidsStay, Ids
  <2> QED BY <2>1 DEF WholeInv, Intact, OwnEmbeddings, Own
<1> QED BY <1>1, <1>2, <1>3, PTL DEF Spec

-----------------------------------------------------------------------------
(* What is cached is all there is.                                           *)

\* What a cached entry of a handler's key is.
LEMMA CachedMeans ==
  ASSUME NEW r \in Request, NEW e
  PROVE  e \in Cached(r) <=> e \in cache[At[r]] /\ e.stage = pc[r] /\ e.key = Key(r)
  BY DEF Cached

\* Keys go on having their form.
LEMMA KeysFormedStays ==
  ASSUME TypeInv, KeysFormed, [Next]_vars
  PROVE  KeysFormed'
<1> SUFFICES ASSUME NEW i \in Instance, NEW e \in cache'[i]
             PROVE  e.key = IF e.stage = "category" THEN <<e.key[1], e.key[2]>> ELSE <<e.key[1]>>
  BY DEF KeysFormed
<1>1. CASE e \in cache[i]
  BY <1>1 DEF KeysFormed
<1>2. CASE e \notin cache[i]
  <2>1. PICK r \in Request : /\ pc[r] \in Stage
                             /\ e = [stage |-> pc[r], key |-> Key(r), rows |-> got[r]]
    BY <1>2, CacheGrows
  <2>2. e.stage = pc[r] /\ e.key = Key(r)
    BY <2>1
  <2>3. CASE pc[r] = "owner"
    BY <2>2, <2>3, KeyValue
  <2>4. CASE pc[r] = "category"
    BY <2>2, <2>4, KeyValue
  <2>5. CASE pc[r] = "centroids"
    BY <2>2, <2>5, KeyValue
  <2> QED BY <2>1, <2>3, <2>4, <2>5
<1> QED BY <1>1, <1>2

\* A row answers one key of its stage, a cached one as well.
LEMMA OneCachedKey ==
  ASSUME TypeInv, KeysFormed, NEW i \in Instance, NEW e \in cache[i],
         NEW q \in Request, pc[q] = e.stage, NEW row,
         Matches(e.stage, e.key, row), Matches(e.stage, Key(q), row)
  PROVE  e.key = Key(q)
<1>0. e.stage \in Stage
  BY DEF TypeInv, TypeOK, Entry
<1>1. e.key = IF e.stage = "category" THEN <<e.key[1], e.key[2]>> ELSE <<e.key[1]>>
  BY DEF KeysFormed
<1>2. CASE e.stage = "owner"
  BY <1>1, <1>2, KeyValue, MatchesValue
<1>3. CASE e.stage = "category"
  BY <1>1, <1>3, KeyValue, MatchesValue
<1>4. CASE e.stage = "centroids"
  BY <1>1, <1>4, KeyValue, MatchesValue
<1> QED BY <1>0, <1>2, <1>3, <1>4

\* A leader's key is not cached until the leader saves it.
LEMMA LeaderMissedStays ==
  ASSUME OneServer, TypeInv, OneLeader, LeaderMissed, [Next]_vars
  PROVE  LeaderMissed'
<1> SUFFICES ASSUME NEW r \in Request, flight'[r] \in Leader, NEW e \in Cached(r)'
             PROVE  FALSE
  BY DEF LeaderMissed
<1>1. e \in cache'[At[r]] /\ e.stage = pc'[r] /\ e.key = Key(r)'
  BY DEF Cached
<1>2. CASE Lead(r)
  <2>1. Key(r)' = Key(r) /\ pc' = pc /\ cache' = cache /\ Cached(r) = {}
    BY <1>2, LeadFacts, KeyStays
  <2> QED BY <1>1, <2>1, CachedMeans
<1>3. CASE flight[r] \in Leader /\ pc'[r] = pc[r] /\ held'[r] = held[r] /\ req'[r] = req[r]
  <2>1. Key(r)' = Key(r)
    BY <1>3, KeyStays
  <2>2. CASE e \in cache[At[r]]
    BY <1>1, <1>3, <2>1, <2>2, CachedMeans DEF LeaderMissed
  <2>3. CASE e \notin cache[At[r]]
    <3>1. PICK q \in Request : /\ flight'[q] = "none" /\ flight[q] = "save"
                               /\ e = [stage |-> pc[q], key |-> Key(q), rows |-> got[q]]
      BY <1>1, <2>3, CacheGrows, CatalogAssumption
    <3>2. pc[q] = pc[r] /\ Key(q) = Key(r) /\ At[q] = At[r]
      BY <1>1, <1>3, <2>1, <3>1, CatalogAssumption DEF OneServer
    <3>3. q = r
      BY <1>3, <3>1, <3>2 DEF OneLeader, Sharing
    <3> QED BY <3>1, <3>3
  <2> QED BY <2>2, <2>3
<1> QED BY <1>2, <1>3, LeaderStep

\* A leader that saves has all the rows of its key.
LEMMA GotCurrentStays ==
  ASSUME OneServer, ~Lagging, TypeInv, FetchInv, GotCurrent, [Next]_vars
  PROVE  GotCurrent'
<1> SUFFICES ASSUME NEW r \in Request, flight'[r] = "save", NEW row \in Stored(pc[r], Key(r))'
             PROVE  row \in got'[r]
  BY DEF GotCurrent
<1>1. /\ pc'[r] = pc[r] /\ pc[r] \in Stage
      /\ held'[r] = held[r] /\ req'[r] = req[r]
  BY GotStep
<1>2. Key(r)' = Key(r)
  BY <1>1, KeyStays
<1>3. row \in TableOf(db', pc[r]) /\ Matches(pc[r], Key(r), row)
  BY <1>1, <1>2 DEF Stored, TableOf, Matches
<1>4. CASE flight[r] = "save" /\ got'[r] = got[r]
  <2>1. ~Create(r)
    BY <1>4, CreateFacts
  <2>2. row \in Stored(pc[r], Key(r))
    BY <1>3, <1>4, <2>1, LeaderSees DEF FetchInv
  <2> QED BY <1>4, <2>2 DEF GotCurrent
<1>5. CASE flight[r] = "read" /\ got'[r] = Found(r)
  <2>1. ~Create(r)
    BY <1>5, CreateFacts
  <2>2. row \in Stored(pc[r], Key(r))
    BY <1>3, <1>5, <2>1, LeaderSees DEF FetchInv
  <2> QED BY <1>1, <1>5, <2>2, FoundStored
<1>6. CASE flight[r] = "create" /\ got'[r] = {NewRow(r)} /\ db' = Inserted(r)
  <2>1. row \in TableOf(db, pc[r]) \/ row = NewRow(r)
    BY <1>1, <1>3, <1>6, InsertedRow
  <2>2. row \notin TableOf(db, pc[r])
    BY <1>3, <1>6, StoredMeans DEF FetchInv, NothingToCreate
  <2> QED BY <1>6, <2>1, <2>2
<1> QED BY <1>4, <1>5, <1>6, GotStep

\* A cached entry has all the rows of its key.
LEMMA CacheCurrentStays ==
  ASSUME OneServer, TypeInv, OneLeader, KeysFormed, LeaderMissed, CacheCurrent, GotCurrent,
         [Next]_vars
  PROVE  CacheCurrent'
<1> SUFFICES ASSUME NEW i \in Instance, NEW e \in cache'[i], NEW row \in Stored(e.stage, e.key)'
             PROVE  row \in e.rows
  BY DEF CacheCurrent
<1>0. e.stage \in Stage
  <2>1. TypeInv'
    BY NextTypes
  <2> QED BY <2>1 DEF TypeInv, TypeOK, Entry
<1>1. row \in TableOf(db', e.stage) /\ Matches(e.stage, e.key, row)
  BY StoredMeans
<1>2. CASE e \in cache[i]
  <2>1. CASE row \in Stored(e.stage, e.key)
    BY <1>2, <2>1 DEF CacheCurrent
  <2>2. ASSUME NEW q \in Request, Create(q), pc[q] = e.stage, Matches(e.stage, Key(q), row)
        PROVE  FALSE
    <3>1. e.key = Key(q)
      BY <1>1, <1>2, <2>2, OneCachedKey
    <3>2. i = At[q]
      BY CatalogAssumption DEF OneServer
    <3>3. e \in Cached(q)
      BY <1>2, <2>2, <3>1, <3>2, CachedMeans
    <3> QED BY <2>2, <3>3, CreateFacts DEF LeaderMissed
  <2> HIDE DEF Stage
  <2> QED BY <1>0, <1>1, <2>1, <2>2, StoredGrows
<1>3. CASE e \notin cache[i]
  <2>1. PICK r \in Request : /\ flight[r] = "save" /\ pc[r] \in Stage
                             /\ e = [stage |-> pc[r], key |-> Key(r), rows |-> got[r]]
    BY <1>3, CacheGrows
  <2>2. ~Create(r)
    BY <2>1, CreateFacts
  <2>3. row \in TableOf(db', pc[r]) /\ Matches(pc[r], Key(r), row)
    BY <1>1, <2>1
  <2>4. row \in Stored(pc[r], Key(r))
    BY <2>1, <2>2, <2>3, LeaderSees
  <2> QED BY <2>1, <2>4 DEF GotCurrent
<1> QED BY <1>2, <1>3

\* Names stay unique: the two unique indexes.
LEMMA NamesUniqueStays ==
  ASSUME TypeInv, NamesUnique, [Next]_vars
  PROVE  NamesUnique'
<1>1. ASSUME NEW a \in db'.owners, NEW b \in db'.owners, a.name = b.name PROVE a = b
  <2>1. CASE a \in db.owners /\ b \in db.owners
    BY <1>1, <2>1 DEF NamesUnique
  <2>2. ASSUME NEW q \in Request, Accepted(q), db' = Inserted(q), pc[q] = "owner"
        PROVE  a = b
    <3>0. pc[q] \in Stage
      BY <2>2
    <3>a. Inserted(q).owners = IF pc[q] = "owner" THEN db.owners \cup {NewRow(q)} ELSE db.owners
      BY <3>0, InsertedFacts
    <3>b. NewRow(q) = [id |-> db.next, name |-> req[q].owner]
      BY <2>2, NewRowValue
    <3>1. db'.owners = db.owners \cup {NewRow(q)} /\ NewRow(q).name = req[q].owner
      BY <2>2, <3>a, <3>b
    <3>2. \A o \in db.owners : o.name # req[q].owner
      BY <2>2 DEF Accepted, OwnerFits
    <3> QED BY <1>1, <2>1, <3>1, <3>2
  <2>3. TableOf(db', "owner") = db'.owners /\ TableOf(db, "owner") = db.owners
    BY TableOfValue
  <2> QED BY <2>1, <2>2, <2>3, TableGrows
<1>2. ASSUME NEW a \in db'.categories, NEW b \in db'.categories,
             a.name = b.name, a.owner = b.owner
      PROVE  a = b
  <2>1. CASE a \in db.categories /\ b \in db.categories
    BY <1>2, <2>1 DEF NamesUnique
  <2>2. ASSUME NEW q \in Request, Accepted(q), db' = Inserted(q), pc[q] = "category"
        PROVE  a = b
    <3>0. pc[q] \in Stage
      BY <2>2
    <3>a. Inserted(q).categories =
            IF pc[q] = "category" THEN db.categories \cup {NewRow(q)} ELSE db.categories
      BY <3>0, InsertedFacts
    <3>b. NewRow(q) = [id |-> db.next, name |-> req[q].category, owner |-> HeldId(q, "owner")]
      BY <2>2, NewRowValue
    <3>1. /\ db'.categories = db.categories \cup {NewRow(q)}
          /\ NewRow(q).name = req[q].category /\ NewRow(q).owner = HeldId(q, "owner")
      BY <2>2, <3>a, <3>b
    <3>2. \A c \in db.categories : ~(c.name = req[q].category /\ c.owner = HeldId(q, "owner"))
      BY <2>2 DEF Accepted, CategoryFits
    <3> QED BY <1>2, <2>1, <3>1, <3>2
  <2>3. TableOf(db', "category") = db'.categories /\ TableOf(db, "category") = db.categories
    BY TableOfValue
  <2> QED BY <2>1, <2>2, <2>3, TableGrows
<1> QED BY <1>1, <1>2 DEF NamesUnique

\* An owner or category is cached as one row.
LEMMA SingleRowsStays ==
  ASSUME ~Lagging, TypeInv, NamesUnique, SingleRows, [Next]_vars
  PROVE  SingleRows'
<1>1. ASSUME NEW i \in Instance, NEW e \in cache'[i], e.stage # "centroids"
      PROVE  AtMostOne(e.rows)
  <2>1. CASE e \in cache[i]
    BY <1>1, <2>1 DEF SingleRows
  <2>2. CASE e \notin cache[i]
    <3>1. PICK r \in Request : /\ flight[r] = "save"
                               /\ e = [stage |-> pc[r], key |-> Key(r), rows |-> got[r]]
      BY <2>2, CacheGrows
    <3> QED BY <1>1, <3>1 DEF SingleRows
  <2> QED BY <2>1, <2>2
<1>2. ASSUME NEW r \in Request, flight'[r] = "save", pc'[r] # "centroids"
      PROVE  AtMostOne(got'[r])
  <2>0. pc'[r] = pc[r] /\ pc[r] \in Stage
    BY <1>2, GotStep
  <2>1. CASE flight[r] = "save" /\ got'[r] = got[r]
    BY <1>2, <2>0, <2>1 DEF SingleRows
  <2>2. CASE got'[r] = Found(r)
    <3>1. View = db
      BY DEF View
    <3>2. CASE pc[r] = "owner"
      BY <2>2, <3>1, <3>2, FoundValue DEF NamesUnique, AtMostOne
    <3>3. CASE pc[r] = "category"
      BY <2>2, <3>1, <3>3, FoundValue DEF NamesUnique, AtMostOne
    <3> QED BY <1>2, <2>0, <3>2, <3>3
  <2>3. CASE got'[r] = {NewRow(r)}
    BY <2>3 DEF AtMostOne
  <2> QED BY <1>2, <2>1, <2>2, <2>3, GotStep
<1>3. ASSUME NEW rows, AtMostOne(rows) PROVE \A a, b \in rows : a = b
  BY <1>3 DEF AtMostOne
<1> QED BY <1>1, <1>2 DEF SingleRows, AtMostOne

\* The caches of one process are current.
LEMMA NextCurrent ==
  ASSUME OneServer, ~Lagging, TypeInv, CurrentInv, [Next]_vars
  PROVE  CurrentInv'
<1> USE DEF CurrentInv
<1>1. OneLeader
  BY DEF FetchInv
<1> QED BY <1>1, NextFetch, KeysFormedStays, LeaderMissedStays, CacheCurrentStays,
           GotCurrentStays, NamesUniqueStays, SingleRowsStays

\* They begin empty.
LEMMA InitCurrent == Init => CurrentInv
<1> SUFFICES ASSUME Init PROVE CurrentInv
  OBVIOUS
<1>1. FetchInv
  BY DEF Init, FetchInv, OneLeader, NothingToCreate
<1>2. KeysFormed /\ LeaderMissed /\ CacheCurrent /\ GotCurrent
  BY DEF Init, KeysFormed, LeaderMissed, CacheCurrent, GotCurrent
<1>3. NamesUnique /\ SingleRows
  BY DEF Init, EmptyTables, NamesUnique, SingleRows
<1> QED BY <1>1, <1>2, <1>3 DEF CurrentInv

-----------------------------------------------------------------------------
(* A search for documents that were acknowledged before it.                  *)

\* An acknowledged upload stays one, of the documents it stored.
LEMMA AckedUploadStays ==
  ASSUME TypeInv, [Next]_vars, NEW u \in Request, pc[u] = "ok", NEW id \in DocIds(u)
  PROVE  pc'[u] = "ok" /\ req'[u] = req[u] /\ id \in DocIds(u)'
<1>1. ~Arrive(u)
  BY DEF Arrive
<1>2. pc'[u] = pc[u]
  BY <1>1, RestStep
<1>3. docs[u] # 0
  BY DocIdsMeans
<1> QED BY <1>2, <1>3, ReqStep, DocsStay

\* What was acknowledged under two names.
LEMMA AckedForMeans ==
  ASSUME NEW o, NEW c, NEW id \in AckedFor(o, c)
  PROVE  \E u \in Request : /\ pc[u] = "ok"
                            /\ req[u].kind = "upload"
                            /\ req[u].owner = o
                            /\ req[u].category = c
                            /\ id \in DocIds(u)
  BY DEF AckedFor

\* What a request knows to be acknowledged is an acknowledged upload's.
LEMMA AckedMeansStays ==
  ASSUME TypeInv, AckedMeans, [Next]_vars
  PROVE  AckedMeans'
<1> SUFFICES ASSUME NEW r \in Request, pc'[r] # "idle", NEW id \in since'[r].acked
             PROVE  \E u \in Request : /\ pc'[u] = "ok"
                                       /\ req'[u].kind = "upload"
                                       /\ req'[u].owner = req'[r].owner
                                       /\ req'[u].category = req'[r].category
                                       /\ id \in DocIds(u)'
  BY DEF AckedMeans
<1>1. CASE Arrive(r)
  <2>1. id \in AckedFor(req'[r].owner, req'[r].category)
    BY <1>1, ArriveFacts
  <2> QED BY <2>1, AckedForMeans, AckedUploadStays
<1>2. CASE pc[r] # "idle" /\ since'[r] = since[r] /\ req'[r] = req[r]
  BY <1>2, AckedUploadStays DEF AckedMeans
<1> QED BY <1>1, <1>2, SinceStep

\* The rows of such a document: its upload is over, its category and that one's
\* owner are the ones the names now stand for.
LEMMA AckedRows ==
  ASSUME IInv, Intact, AckedMeans, NEW r \in Request, pc[r] # "idle",
         NEW d \in db.documents, d.id \in since[r].acked
  PROVE  /\ d.by \in Request /\ pc[d.by] = "ok"
         /\ d.id < db.next
         /\ \E c \in db.categories, o \in db.owners :
              /\ c.id = d.category /\ c.name = req[r].category
              /\ c.owner = o.id /\ o.name = req[r].owner
<1>1. PICK u \in Request : /\ pc[u] = "ok"
                           /\ req[u].owner = req[r].owner
                           /\ req[u].category = req[r].category
                           /\ d.id \in DocIds(u)
  BY DEF AckedMeans
<1>2. d.by = u
  BY <1>1, DocumentOf
<1>3. d.category = HeldId(u, "category")
  BY <1>2 DEF IInv, RowsTraced, DocumentTraced
<1>4. held[u].category # {} /\ held[u].owner # {}
  BY <1>1, DocIdsMeans DEF IInv, TypeInv, InOrder
<1> HIDE DEF Stage
<1>5. "owner" \in Stage /\ "category" \in Stage
  BY DEF Stage
<1>6. PICK k \in held[u].category : HeldId(u, "category") = k.id
  BY <1>4, <1>5, HeldRow
<1>7. PICK h \in held[u].owner : HeldId(u, "owner") = h.id
  BY <1>4, <1>5, HeldRow
<1>8. k.owner = h.id /\ k.name = req[r].category /\ h.name = req[r].owner
  BY <1>1, <1>6, <1>7 DEF IInv, RowsMatch
<1>9. PICK c \in db.categories : c.id = d.category
  BY DEF Intact, Ids
<1>10. c = k
  <2>1. c \in Seen("category") /\ k \in Seen("category")
    BY <1>5, <1>6, <1>9, SeenIntro, TableOfValue
  <2> QED BY <1>3, <1>5, <1>6, <1>9, <2>1 DEF IInv, OneRowPerKey
<1>11. PICK o \in db.owners : o.id = c.owner
  BY <1>9 DEF Intact, Ids
<1>12. o = h
  <2>1. o \in Seen("owner") /\ h \in Seen("owner")
    BY <1>5, <1>7, <1>11, SeenIntro, TableOfValue
  <2> QED BY <1>5, <1>8, <1>10, <1>11, <2>1 DEF IInv, OneRowPerKey
<1> QED BY <1>1, <1>2, <1>8, <1>9, <1>10, <1>11, <1>12, DocIdsBelow

\* A search that gets an error has failed, unless it is told there is nothing.
LEMMA SearchError ==
  ASSUME NEW r \in Request, req[r].kind = "search"
  PROVE  AfterError(r, "failed") = "failed"
  BY DEF AfterError

\* How a search leaves a cache call.
LEMMA StageStep ==
  ASSUME TypeInv, [Next]_vars, NEW r \in Request, pc[r] \in Stage, req[r].kind = "search"
  PROVE  \/ pc'[r] = pc[r]
         \/ pc'[r] \in {"failed", "lost"}
         \/ NotFound(r)
         \/ \E rows \in Returned(r) : /\ held'[r][pc[r]] = rows
                                      /\ pc'[r] = Onward(r, rows)
<1> DEFINE Gives == \E rows \in Returned(r) : /\ held'[r][pc[r]] = rows
                                              /\ pc'[r] = Onward(r, rows)
           Goal == pc'[r] \in {pc[r], "failed", "lost"} \/ NotFound(r) \/ Gives
<1>0. /\ pc \in [Request -> PC]
      /\ held \in [Request -> [Stage -> SUBSET AnyRow]]
  BY DEF TypeInv, TypeOK
<1>1. ASSUME NEW q \in Request, Arrive(q) PROVE Goal
  BY <1>1, ArriveFacts
<1>2. ASSUME NEW q \in Request, Join(q) \/ Lead(q) PROVE Goal
  BY <1>2 DEF Join, Lead
<1>3. ASSUME NEW q \in Request, Hit(q) PROVE Goal
  <2>1. PICK e \in Cached(q) : Deliver({q}, e.rows)
    BY <1>3 DEF Hit
  <2>2. CASE q = r
    <3>1. held'[r][pc[r]] = e.rows /\ pc'[r] = Onward(r, e.rows)
      BY <1>0, <2>1, <2>2 DEF Deliver
    <3>2. e.rows \in Returned(r)
      BY <2>1, <2>2 DEF Returned
    <3> QED BY <3>1, <3>2
  <2>3. CASE q # r
    BY <1>0, <2>1, <2>3 DEF Deliver
  <2> QED BY <2>2, <2>3
<1>4. ASSUME NEW q \in Request, Refuse(Party(q), "failed") PROVE Goal
  BY <1>0, <1>4, SearchError DEF Refuse
<1>5. ASSUME NEW q \in Request, Read(q) PROVE Goal
  <2>1. CASE UNCHANGED pc
    BY <2>1
  <2>2. CASE Refuse(Party(q), "notFound") /\ Found(q) = {} /\ pc[q] # "centroids"
    <3>1. CASE r \in Party(q)
      BY <1>5, <2>2, <3>1, ReadFacts, PartyFacts DEF NotFound
    <3>2. CASE r \notin Party(q)
      BY <1>0, <2>2, <3>2 DEF Refuse
    <3> QED BY <3>1, <3>2
  <2> QED BY <1>5, <2>1, <2>2, ReadFacts
<1>6. ASSUME NEW q \in Request, Create(q) PROVE Goal
  BY <1>4, <1>6 DEF Create
<1>7. ASSUME NEW q \in Request, Save(q) PROVE Goal
  <2>1. Deliver(Party(q), got[q]) /\ flight[q] = "save"
    BY <1>7 DEF Save
  <2>2. CASE r \in Party(q)
    <3>1. held'[r][pc[r]] = got[q] /\ pc'[r] = Onward(r, got[q])
      BY <1>0, <2>1, <2>2 DEF Deliver
    <3>2. got[q] \in Returned(r)
      BY <2>1, <2>2, PartyFacts DEF Returned
    <3> QED BY <3>1, <3>2
  <2>3. CASE r \notin Party(q)
    BY <1>0, <2>1, <2>3 DEF Deliver
  <2> QED BY <2>2, <2>3
<1>8. ASSUME NEW q \in Request,
             \/ MatrixPanic(q) \/ SaveDocuments(q) \/ SaveEmbeddings(q) \/ Probe(q)
             \/ ScanPage(q) \/ FetchDocuments(q) \/ LookupOwner(q) \/ ListCategories(q)
             \/ TakeCategory(q) \/ Delete(q)
      PROVE  Goal
  <2>1. pc[q] \notin Stage
    BY <1>8 DEF MatrixPanic, SaveDocuments, SaveEmbeddings, Probe, ScanPage,
                FetchDocuments, LookupOwner, ListCategories, TakeCategory, Delete
  <2>2. pc'[r] = pc[r]
    BY <1>0, <1>8, <2>1 DEF MatrixPanic, SaveDocuments, SaveEmbeddings, Probe, ScanPage,
                FetchDocuments, LookupOwner, ListCategories, TakeCategory, Delete
  <2> QED BY <2>2
<1>9. ASSUME NEW q \in Request, Fail(q) PROVE Goal
  <2>1. CASE Refuse({q}, "failed")
    BY <1>0, <2>1, SearchError DEF Refuse
  <2> QED BY <1>4, <1>9, <2>1 DEF Fail
<1>10. ASSUME NEW i \in Instance, Crash(i) PROVE Goal
  BY <1>0, <1>10 DEF Crash
<1>11. ASSUME NEW i \in Instance, Expire(i) PROVE Goal
  BY <1>11 DEF Expire
<1>12. Replicate \/ Quiet \/ UNCHANGED vars => Goal
  BY DEF Replicate, Quiet, vars
<1>13. ASSUME NEW q \in Request, Step(q) PROVE Goal
  BY <1>2, <1>3, <1>5, <1>6, <1>7, <1>8, <1>13 DEF Step
<1>14. Goal
  BY <1>1, <1>9, <1>10, <1>11, <1>12, <1>13 DEF Next
<1> QED BY <1>14

\* What a cache call returns is all there is, and of an owner or a category one row.
LEMMA ReturnedCurrent ==
  ASSUME CurrentInv, NEW r \in Request, pc[r] \in Stage, NEW rows \in Returned(r)
  PROVE  /\ Stored(pc[r], Key(r)) \subseteq rows
         /\ pc[r] # "centroids" => AtMostOne(rows)
<1>1. ASSUME NEW e \in Cached(r), rows = e.rows
      PROVE  /\ Stored(pc[r], Key(r)) \subseteq rows
             /\ pc[r] # "centroids" => AtMostOne(rows)
  <2>1. e \in cache[At[r]] /\ e.stage = pc[r] /\ e.key = Key(r) /\ At[r] \in Instance
    BY <1>1, CachedMeans, CatalogAssumption
  <2> QED BY <1>1, <2>1 DEF CurrentInv, CacheCurrent, SingleRows
<1>2. ASSUME NEW l \in Request, flight[l] = "save", pc[l] = pc[r], Key(l) = Key(r),
             rows = got[l]
      PROVE  /\ Stored(pc[r], Key(r)) \subseteq rows
             /\ pc[r] # "centroids" => AtMostOne(rows)
  BY <1>2 DEF CurrentInv, GotCurrent, SingleRows
<1> QED BY <1>1, <1>2 DEF Returned

\* How a search goes on after its cache calls.
LEMMA SearchStep ==
  ASSUME TypeInv, [Next]_vars, NEW r \in Request, pc[r] \in {"probe", "scan", "fetch"},
         req[r].kind = "search"
  PROVE  \/ pc'[r] = pc[r] /\ scan'[r] = scan[r]
         \/ pc'[r] \in {"failed", "lost"}
         \/ Probe(r) \/ ScanPage(r)
         \/ pc[r] = "fetch" /\ pc'[r] = "ok" /\ scan'[r] = scan[r]
<1> DEFINE Goal == \/ pc'[r] = pc[r] /\ scan'[r] = scan[r]
                   \/ pc'[r] \in {"failed", "lost"}
                   \/ Probe(r) \/ ScanPage(r)
                   \/ pc[r] = "fetch" /\ pc'[r] = "ok" /\ scan'[r] = scan[r]
<1>0. pc \in [Request -> PC] /\ DOMAIN scan = Request
  BY DEF TypeInv, TypeOK
<1>1. ASSUME NEW q \in Request, Arrive(q) PROVE Goal
  BY <1>1, ArriveFacts
<1>2. ASSUME NEW q \in Request, Join(q) \/ Lead(q) PROVE Goal
  BY <1>2 DEF Join, Lead
<1>3. ASSUME NEW q \in Request, Hit(q) PROVE Goal
  BY <1>0, <1>3 DEF Hit, Calling, Deliver
<1>4. ASSUME NEW q \in Request, NEW error, pc[q] \in Stage, Refuse(Party(q), error),
             UNCHANGED scan
      PROVE  Goal
  BY <1>0, <1>4, PartyFacts DEF Refuse
<1>5. ASSUME NEW q \in Request, Read(q) PROVE Goal
  BY <1>4, <1>5, ReadFacts
<1>6. ASSUME NEW q \in Request, Create(q) PROVE Goal
  BY <1>4, <1>6, CreateFacts DEF Create
<1>7. ASSUME NEW q \in Request, Save(q) PROVE Goal
  <2>1. pc[q] \in Stage
    BY <1>7 DEF Save, TypeInv, TypeOK
  <2> QED BY <1>0, <1>7, <2>1, PartyFacts DEF Save, Deliver
<1>8. ASSUME NEW q \in Request,
             \/ MatrixPanic(q) \/ SaveDocuments(q) \/ SaveEmbeddings(q)
             \/ LookupOwner(q) \/ ListCategories(q) \/ TakeCategory(q) \/ Delete(q)
      PROVE  Goal
  <2>1. pc[q] \notin {"probe", "scan", "fetch"}
    BY <1>8 DEF MatrixPanic, SaveDocuments, SaveEmbeddings, LookupOwner, ListCategories,
                TakeCategory, Delete
  <2> QED BY <1>0, <1>8, <2>1 DEF MatrixPanic, SaveDocuments, SaveEmbeddings,
                LookupOwner, ListCategories, TakeCategory, Delete
<1>9. ASSUME NEW q \in Request, Probe(q) \/ ScanPage(q) PROVE Goal
  <2>1. CASE q # r
    BY <1>0, <1>9, <2>1 DEF Probe, ScanPage
  <2> QED BY <1>9, <2>1
<1>10. ASSUME NEW q \in Request, FetchDocuments(q) PROVE Goal
  BY <1>0, <1>10 DEF FetchDocuments
<1>11. ASSUME NEW q \in Request, Fail(q) PROVE Goal
  <2>1. CASE flight[q] \in {"read", "create"} /\ Refuse(Party(q), "failed")
    BY <1>4, <1>11, <2>1 DEF Fail, TypeInv, TypeOK
  <2>2. CASE Refuse({q}, "failed")
    BY <1>0, <1>11, <2>2, SearchError DEF Fail, Refuse
  <2> QED BY <1>11, <2>1, <2>2 DEF Fail
<1>12. ASSUME NEW i \in Instance, Crash(i) PROVE Goal
  BY <1>0, <1>12 DEF Crash
<1>13. ASSUME NEW i \in Instance, Expire(i) PROVE Goal
  BY <1>13 DEF Expire
<1>14. Replicate \/ Quiet \/ UNCHANGED vars => Goal
  BY DEF Replicate, Quiet, vars
<1>15. ASSUME NEW q \in Request, Step(q) PROVE Goal
  BY <1>2, <1>3, <1>5, <1>6, <1>7, <1>8, <1>9, <1>10, <1>15 DEF Step
<1>16. Goal
  BY <1>1, <1>11, <1>12, <1>13, <1>14, <1>15 DEF Next
<1> QED BY <1>16

\* What a page does: the hits stay all the candidates while there is room, the
\* cursor moves to the last embedding seen, a short page is the last.
LEMMA PageStep ==
  ASSUME TypeInv, NEW r \in Request, ScanPage(r), Cardinality(Candidates(r)) <= Limit
  PROVE  /\ UNCHANGED <<db, replica, cache, req, flight, got, held, docs, shown, since>>
         /\ scan'[r].hits = Candidates(r)
         /\ scan'[r].probe = scan[r].probe
         /\ scan'[r].cursor \in Ids(Page(r)) \cup {scan[r].cursor}
         /\ \A n \in Ids(Page(r)) : n <= scan'[r].cursor
         /\ pc'[r] = IF Cardinality(Page(r)) < Batch THEN "fetch" ELSE "scan"
<1>1. PICK nearest \in SUBSET Candidates(r), last \in Ids(Page(r)) \cup {scan[r].cursor} :
        /\ nearest = Candidates(r)
        /\ \A n \in Ids(Page(r)) : n <= last
        /\ scan' = [scan EXCEPT ![r] = [@ EXCEPT !.hits = nearest, !.cursor = last]]
  BY Zenon DEF ScanPage, Candidates
<1>2. scan \in [Request -> [probe : SUBSET Nat, cursor : Nat, hits : SUBSET Nat]]
  BY DEF TypeInv, TypeOK
<1>3. scan'[r] = [scan[r] EXCEPT !.hits = nearest, !.cursor = last]
  BY <1>1, <1>2
<1>4. /\ scan'[r].hits = nearest
      /\ scan'[r].cursor = last
      /\ scan'[r].probe = scan[r].probe
  BY <1>2, <1>3
<1>5. pc'[r] = IF Cardinality(Page(r)) < Batch THEN "fetch" ELSE "scan"
  BY DEF ScanPage, TypeInv, TypeOK
<1> QED BY <1>1, <1>4, <1>5 DEF ScanPage

\* A page of the primary, by membership.
LEMMA PageMeans ==
  ASSUME ~Lagging, NEW r \in Request, NEW e
  PROVE  e \in Page(r) <=> /\ e \in Ahead(r)
                           /\ Cardinality({f \in Ahead(r) : f.id < e.id}) < Batch
  BY DEF Page, Ahead, View

\* What is ahead of a search is finitely many rows with keys.
LEMMA AheadCounted ==
  ASSUME TypeInv, EmbeddingsCounted, NEW r \in Request
  PROVE  /\ IsFiniteSet(Ahead(r))
         /\ \A e \in Ahead(r) : e.id \in Nat
         /\ \A S \in SUBSET Ahead(r) : IsFiniteSet(S) /\ Cardinality(S) \in Nat
<1>1. Ahead(r) \in SUBSET db.embeddings
  BY DEF Ahead
<1>2. db.embeddings \in SUBSET EmbeddingRow
  BY DEF TypeInv, TypeOK, Tables
<1>3. IsFiniteSet(Ahead(r))
  BY <1>1, FS_Subset DEF EmbeddingsCounted
<1>4. ASSUME NEW S \in SUBSET Ahead(r) PROVE IsFiniteSet(S) /\ Cardinality(S) \in Nat
  BY <1>3, FS_Subset, FS_CardinalityType
<1> QED BY <1>1, <1>2, <1>3, <1>4 DEF EmbeddingRow

\* A page leaves out nothing before a row it holds.
LEMMA PageUpTo ==
  ASSUME TypeInv, EmbeddingsCounted, ~Lagging, NEW r \in Request, NEW p \in Page(r),
         NEW e \in Ahead(r), e.id <= p.id
  PROVE  e \in Page(r)
<1> DEFINE before(x) == {f \in Ahead(r) : f.id < x.id}
<1>1. p \in Ahead(r) /\ Cardinality(before(p)) < Batch
  BY PageMeans
<1>2. before(e) \in SUBSET before(p)
  BY <1>1, AheadCounted
<1>3. Cardinality(before(e)) <= Cardinality(before(p))
  BY <1>2, AheadCounted, FS_Subset
<1>4. Cardinality(before(e)) \in Nat /\ Cardinality(before(p)) \in Nat /\ Batch \in Nat
  BY AheadCounted, CatalogAssumption
<1> QED BY <1>1, <1>3, <1>4, PageMeans

\* A short page leaves out nothing.
LEMMA PageAll ==
  ASSUME TypeInv, EmbeddingsCounted, ~Lagging, NEW r \in Request,
         Cardinality(Page(r)) < Batch, NEW e \in Ahead(r)
  PROVE  e \in Page(r)
<1> SUFFICES ASSUME e \notin Page(r) PROVE FALSE
  OBVIOUS
<1> DEFINE R == OpToRel(<, Nat)
           T == {x.id : x \in Ahead(r) \ Page(r)}
<1>1. T \in SUBSET Nat /\ T # {}
  BY AheadCounted
<1>2. \E m \in T : \A n \in T : ~(<<n, m>> \in R)
  <2>1. IsWellFoundedOn(R, Nat)
    BY NatLessThanWellFounded DEF R
  <2> QED BY <1>1, <2>1, WFMin
<1>3. PICK x \in Ahead(r) \ Page(r) : \A n \in T : ~(<<n, x.id>> \in R)
  BY <1>2
<1>4. \A n \in T : ~(n < x.id)
  BY <1>1, <1>3, AheadCounted DEF OpToRel
<1> DEFINE before == {f \in Ahead(r) : f.id < x.id}
<1>5. before \in SUBSET Page(r)
  BY <1>4
<1>6. Page(r) \in SUBSET Ahead(r)
  BY PageMeans
<1>7. Cardinality(before) <= Cardinality(Page(r))
  BY <1>5, <1>6, AheadCounted, FS_Subset
<1>8. before \in SUBSET Ahead(r) /\ Batch \in Nat
  BY CatalogAssumption
<1>9. ~(Cardinality(before) < Batch)
  BY <1>3, PageMeans
<1>10. Cardinality(before) \in Nat /\ Cardinality(Page(r)) \in Nat
  BY <1>6, <1>8, AheadCounted
<1> QED BY <1>7, <1>8, <1>9, <1>10

\* There is room for all the documents there are among the hits.
LEMMA CandidatesFit ==
  ASSUME IInv, Roomy, ~Lagging, NEW r \in Request
  PROVE  Cardinality(Candidates(r)) <= Limit
<1>1. \A id \in Candidates(r) : \E u \in Request : id \in DocIds(u)
  <2>1. ASSUME NEW id \in scan[r].hits PROVE \E u \in Request : id \in DocIds(u)
    BY DEF IInv, HitsTraced
  <2>2. ASSUME NEW e \in Page(r) PROVE \E u \in Request : e.document \in DocIds(u)
    <3>1. e \in db.embeddings
      BY PageMeans DEF Ahead
    <3> QED BY <3>1 DEF IInv, RowsTraced, EmbeddingTraced
  <2> QED BY <2>1, <2>2 DEF Candidates
<1> DEFINE C == Candidates(r)
           S == 0 .. Docs - 1
           of(id) == CHOOSE u \in Request : id \in DocIds(u)
           f == [id \in C |-> <<of(id), id - docs[of(id)]>>]
<1>2. \A id \in C : of(id) \in Request /\ id \in DocIds(of(id))
  BY <1>1
<1>3. ASSUME NEW id \in C
      PROVE  /\ id \in Nat /\ docs[of(id)] \in Nat
             /\ id - docs[of(id)] \in S
  <2>1. of(id) \in Request /\ id \in DocIds(of(id))
    BY <1>2
  <2>2. docs[of(id)] \in Nat /\ Docs \in Nat
    BY <2>1, CatalogAssumption DEF IInv, TypeInv, TypeOK
  <2>3. id \in docs[of(id)] .. docs[of(id)] + Docs - 1
    BY <2>1, DocIdsMeans
  <2> HIDE DEF of, C
  <2> QED BY <2>2, <2>3
<1>4. f \in Injection(C, Request \X S)
  <2>1. f \in [C -> Request \X S]
    <3> HIDE DEF C, S, of
    <3> QED BY <1>2, <1>3
  <2>2. ASSUME NEW a \in C, NEW b \in C, f[a] = f[b] PROVE a = b
    <3>1. of(a) = of(b) /\ a - docs[of(a)] = b - docs[of(b)]
      <4> HIDE DEF C, of
      <4> QED BY <2>2
    <3>2. a - docs[of(a)] = b - docs[of(a)]
      BY <3>1
    <3>3. a \in Nat /\ b \in Nat /\ docs[of(a)] \in Nat
      BY <1>3
    <3> HIDE DEF C, of
    <3> QED BY <3>2, <3>3
  <2> HIDE DEF C, S, f
  <2> QED BY <2>1, <2>2 DEF Injection, IsInjective
<1>5. IsFiniteSet(S) /\ Cardinality(S) = Docs
  <2>1. Docs \in Nat \ {0}
    BY CatalogAssumption
  <2> QED BY <2>1, FS_Interval
<1>6. /\ IsFiniteSet(Request \X S)
      /\ Cardinality(Request \X S) = Cardinality(Request) * Docs
  <2> HIDE DEF S
  <2> QED BY <1>5, FS_Product DEF Roomy
<1>7. Cardinality(C) <= Cardinality(Request) * Docs /\ IsFiniteSet(C)
  <2> HIDE DEF C, S, f
  <2> QED BY <1>4, <1>6, FS_Injection
<1>8. /\ Cardinality(C) \in Nat /\ Cardinality(Request) \in Nat
      /\ Docs \in Nat /\ Limit \in Nat
  BY <1>7, FS_CardinalityType, CatalogAssumption DEF Roomy
<1>9. Cardinality(Request) * Docs = Docs * Cardinality(Request)
  BY <1>8
<1>10. PICK m \in Nat : m = Docs * Cardinality(Request)
  BY <1>8
<1> HIDE DEF C
<1>11. Cardinality(C) <= m /\ m <= Limit
  BY <1>7, <1>9, <1>10 DEF Roomy
<1>12. Cardinality(C) <= Limit
  BY <1>8, <1>11
<1> QED BY <1>12 DEF C

\* One row in hand, and its id.
LEMMA HeldOne ==
  ASSUME NEW r \in Request, NEW stage \in Stage, NEW row \in held'[r][stage],
         AtMostOne(held'[r][stage])
  PROVE  HeldId(r, stage)' = row.id
  BY DEF HeldId, AtMostOne

\* A document a search is to find was there, is untouched, and has embeddings.
LEMMA ExpectedStep ==
  ASSUME ForeignKeys, IInv, KeepInv, AckedMeans, [Next]_vars, NEW r \in Request,
         ~Arrive(r), NEW d \in db'.documents, Expected(r, d)'
  PROVE  /\ d \in db.documents /\ Expected(r, d)
         /\ Own(d)' = Own(d) /\ Own(d) # {}
<1>1. pc[r] # "idle" /\ since'[r] = since[r] /\ req'[r] = req[r]
  BY SinceStep DEF Expected, IInv
<1>2. d.id \in since[r].acked
  BY <1>1 DEF Expected
<1>3. d \in db.documents
  <2>1. PICK u \in Request : d.id \in DocIds(u)
    BY <1>1, <1>2 DEF AckedMeans
  <2>2. d.id \in Nat /\ d.id < db.next /\ db.next \in Nat
    BY <2>1, DocIdsBelow DEF IInv, TypeInv, TypeOK, Tables
  <2>3. ~(d.id >= db.next)
    BY <2>2
  <2> QED BY <2>3, DocumentsGrow DEF IInv
<1>4. d.by \in Request /\ pc[d.by] = "ok"
  BY <1>1, <1>2, <1>3, AckedRows DEF KeepInv
<1>5. Own(d)' = Own(d)
  BY <1>3, <1>4, OwnStays DEF SaveEmbeddings
<1>6. Cardinality(Own(d)) = Sections /\ Sections # 0
  BY <1>3, <1>4, CatalogAssumption DEF KeepInv, OwnEmbeddings
<1>7. Own(d) # {}
  BY <1>6, FS_EmptySet
<1> QED BY <1>1, <1>2, <1>3, <1>5, <1>7 DEF Expected

\* The category of such a document is not made anew.
LEMMA CategoryKept ==
  ASSUME IInv, KeepInv, AckedMeans, [Next]_vars, NEW r \in Request,
         NEW d \in db.documents, Expected(r, d),
         NEW x \in db'.categories, x.id = d.category
  PROVE  \E o \in db.owners : /\ x \in db.categories
                              /\ x.name = req[r].category
                              /\ x.owner = o.id /\ o.name = req[r].owner
<1>1. PICK c \in db.categories, o \in db.owners :
        /\ c.id = d.category /\ c.name = req[r].category
        /\ c.owner = o.id /\ o.name = req[r].owner
  BY AckedRows DEF Expected, KeepInv
<1> HIDE DEF Stage
<1>2. "category" \in Stage
  BY DEF Stage
<1>3. c \in Seen("category") /\ c.id < db.next /\ c.id \in Nat /\ db.next \in Nat
  <2>1. c \in Seen("category")
    BY <1>1, <1>2, SeenIntro, TableOfValue
  <2>2. c.id < db.next
    BY <1>2, <2>1 DEF IInv, OneRowPerKey
  <2> QED BY <1>2, <2>1, <2>2, SeenType DEF IInv, TypeInv, TypeOK, Tables
<1>4. x \in db.categories
  <2>1. x \in TableOf(db', "category")
    BY TableOfValue
  <2>2. ASSUME NEW q \in Request, pc[q] = "category", x = NewRow(q) PROVE FALSE
    <3>1. x.id = db.next
      BY <1>2, <2>2, InsertedRow DEF IInv
    <3> QED BY <1>1, <1>3, <3>1
  <2>3. x \in TableOf(db, "category")
    BY <1>2, <2>1, <2>2, TableGrows DEF IInv
  <2> QED BY <2>3, TableOfValue
<1>5. x = c
  <2>1. x \in Seen("category")
    BY <1>2, <1>4, SeenIntro, TableOfValue
  <2> QED BY <1>1, <1>2, <1>3, <2>1 DEF IInv, OneRowPerKey
<1> QED BY <1>1, <1>4, <1>5

\* While it is in its cache calls, a search goes after the right rows.
LEMMA StageOnTrack ==
  ASSUME ForeignKeys, ~Lagging, IInv, KeepInv, CurrentInv, AckedMeans, [Next]_vars,
         NEW r \in Request, pc[r] \in Stage, NEW d \in db.documents,
         Expected(r, d), OnTrack(r, d), Own(d)' = Own(d), Own(d) # {}
  PROVE  OnTrack(r, d)'
<1>0. TypeInv /\ req[r].kind = "search"
  BY DEF IInv, Expected
<1>1. PICK c \in db.categories, o \in db.owners :
        /\ c.id = d.category /\ c.name = req[r].category
        /\ c.owner = o.id /\ o.name = req[r].owner
  BY AckedRows DEF Expected, KeepInv
\* It is still there.
<1>2. CASE pc'[r] = pc[r]
  <2>1. CASE pc[r] = "owner"
    BY <1>2, <2>1 DEF OnTrack
  <2>2. CASE pc[r] = "category"
    <3>1. HeldId(r, "owner")' = HeldId(r, "owner")
      BY <1>0, <2>2, OwnerStays DEF TypeInv, InOrder
    <3>2. \A x \in db'.categories : x.id = d.category => x.owner = HeldId(r, "owner")
      BY <2>2, CategoryKept DEF OnTrack
    <3> QED BY <1>2, <2>2, <3>1, <3>2 DEF OnTrack
  <2>3. CASE pc[r] = "centroids"
    <3>1. HeldId(r, "category")' = HeldId(r, "category")
      BY <1>0, <2>3, CategoryStays
    <3> QED BY <1>2, <2>3, <3>1 DEF OnTrack
  <2> QED BY <2>1, <2>2, <2>3
\* It has failed.
<1>3. CASE pc'[r] \in {"failed", "lost"}
  BY <1>3 DEF OnTrack
<1>4. o \in Stored("owner", <<req[r].owner>>)
  BY <1>1, TableOfValue, MatchesValue DEF Stored
<1>5. pc[r] = "category" =>
        c \in Stored("category", <<HeldId(r, "owner"), req[r].category>>)
  BY <1>1, TableOfValue, MatchesValue DEF Stored, OnTrack
\* It is told that nothing is there.
<1>6. CASE NotFound(r)
  <2>1. PICK l \in Request : /\ Found(l) = {} /\ pc[l] = pc[r] /\ Key(l) = Key(r)
                             /\ pc[r] # "centroids"
    BY <1>6 DEF NotFound
  <2>2. Stored(pc[r], Key(r)) = {}
    BY <2>1, FoundStored
  <2> QED BY <1>4, <1>5, <2>1, <2>2, KeyValue
\* It is given rows.
<1>7. ASSUME NEW rows \in Returned(r), held'[r][pc[r]] = rows, pc'[r] = Onward(r, rows)
      PROVE  OnTrack(r, d)'
  <2>1. /\ Stored(pc[r], Key(r)) \subseteq rows
        /\ pc[r] # "centroids" => AtMostOne(rows)
    BY ReturnedCurrent
  <2>2. CASE pc[r] = "owner"
    <3>1. pc'[r] = "category"
      BY <1>0, <1>7, <2>2, OnwardValue
    <3>2. HeldId(r, "owner")' = o.id
      BY <1>4, <1>7, <2>1, <2>2, KeyValue, HeldOne
    <3>3. \A x \in db'.categories : x.id = d.category => x.owner = o.id
      <4> SUFFICES ASSUME NEW x \in db'.categories, x.id = d.category PROVE x.owner = o.id
        OBVIOUS
      <4>1. PICK h \in db.owners : x.owner = h.id /\ h.name = req[r].owner
        BY CategoryKept
      <4>2. h = o
        BY <1>1, <4>1 DEF CurrentInv, NamesUnique
      <4> QED BY <4>1, <4>2
    <3> QED BY <3>1, <3>2, <3>3 DEF OnTrack
  <2>3. CASE pc[r] = "category"
    <3>1. pc'[r] = "centroids"
      BY <1>0, <1>7, <2>3, OnwardValue
    <3>2. HeldId(r, "category")' = c.id
      BY <1>5, <1>7, <2>1, <2>3, KeyValue, HeldOne
    <3> QED BY <1>1, <3>1, <3>2 DEF OnTrack
  <2>4. CASE pc[r] = "centroids"
    <3>1. \A e \in Own(d) : e.centroid \in Ids(rows)
      <4> SUFFICES ASSUME NEW e \in Own(d) PROVE e.centroid \in Ids(rows)
        OBVIOUS
      <4>1. e \in db.embeddings /\ e.document = d.id
        BY DEF Own
      <4>2. PICK x \in db.centroids : x.id = e.centroid
        BY <4>1 DEF KeepInv, Intact, Ids
      <4>3. x.category = HeldId(r, "category")
        BY <2>4, <4>1, <4>2, InvariantAgrees DEF EmbeddingsAgree, OnTrack
      <4>4. x \in Stored("centroids", <<HeldId(r, "category")>>)
        BY <4>3, TableOfValue, MatchesValue DEF Stored
      <4>5. x \in rows
        BY <2>1, <2>4, <4>4, KeyValue
      <4> QED BY <4>2, <4>5 DEF Ids
    <3>2. rows # {}
      BY <3>1 DEF Ids
    <3>3. pc'[r] = "probe"
      BY <1>0, <1>7, <2>4, <3>2, OnwardValue
    <3>4. held'[r].centroids = rows
      BY <1>7, <2>4
    <3> QED BY <3>1, <3>3, <3>4 DEF OnTrack
  <2> QED BY <2>2, <2>3, <2>4
<1> QED BY <1>0, <1>2, <1>3, <1>6, <1>7, StageStep

\* When it begins to scan, it goes through every centroid of the document.
LEMMA ProbeOnTrack ==
  ASSUME TypeInv, EmbeddingsCounted, NEW r \in Request, Probe(r), NEW d,
         req[r].wide, OnTrack(r, d), Own(d)' = Own(d)
  PROVE  OnTrack(r, d)'
<1>1. /\ scan'[r] = [NoScan EXCEPT !.probe = Ids(held[r].centroids)]
      /\ pc'[r] = "scan" /\ held' = held /\ pc[r] = "probe"
  BY DEF Probe, TypeInv, TypeOK
<1>2. scan'[r].probe = Ids(held[r].centroids) /\ scan'[r].cursor = 0
  BY <1>1 DEF NoScan
<1>3. \A e \in Own(d) : ~(e.id <= 0)
  <2>1. \A e \in db.embeddings : e.id \in Nat /\ e.id # 0
    BY DEF EmbeddingsCounted, TypeInv, TypeOK, Tables, EmbeddingRow
  <2> QED BY <2>1 DEF Own
<1> QED BY <1>1, <1>2, <1>3 DEF OnTrack

\* Page by page, it has the document among its hits once it has passed one of its
\* embeddings, and at the last page it has passed them all.
LEMMA PageOnTrack ==
  ASSUME Roomy, ~Lagging, IInv, EmbeddingsCounted, NEW r \in Request, ScanPage(r), NEW d,
         OnTrack(r, d), Own(d)' = Own(d), Own(d) # {}
  PROVE  OnTrack(r, d)'
<1>0. TypeInv /\ pc[r] = "scan"
  BY DEF IInv, ScanPage
<1>1. /\ UNCHANGED <<db, replica, cache, req, flight, got, held, docs, shown, since>>
      /\ scan'[r].hits = Candidates(r)
      /\ scan'[r].probe = scan[r].probe
      /\ scan'[r].cursor \in Ids(Page(r)) \cup {scan[r].cursor}
      /\ \A n \in Ids(Page(r)) : n <= scan'[r].cursor
      /\ pc'[r] = IF Cardinality(Page(r)) < Batch THEN "fetch" ELSE "scan"
  BY <1>0, CandidatesFit, PageStep
<1>2. /\ scan[r].probe = Ids(held[r].centroids)
      /\ \A e \in Own(d) : /\ e.centroid \in scan[r].probe
                           /\ e.id <= scan[r].cursor => d.id \in scan[r].hits
  BY <1>0 DEF OnTrack
<1>3. scan[r].cursor \in Nat /\ \A e \in Own(d) : e.id \in Nat
  BY <1>0 DEF Own, TypeInv, TypeOK, Tables, EmbeddingRow
<1>4. ASSUME NEW e \in Own(d) PROVE d.id \in scan[r].hits \/ e \in Ahead(r)
  BY <1>2, <1>3 DEF Own, Ahead
<1>5. ASSUME NEW e \in Own(d), e \in Page(r) PROVE d.id \in Candidates(r)
  BY <1>5 DEF Own, Candidates
<1>6. d.id \in scan[r].hits => d.id \in Candidates(r)
  BY DEF Candidates
<1>7. ASSUME NEW e \in Own(d), e.id <= scan'[r].cursor PROVE d.id \in Candidates(r)
  <2>1. CASE e.id <= scan[r].cursor
    BY <1>2, <1>6, <2>1
  <2>2. CASE ~(e.id <= scan[r].cursor)
    <3>1. scan'[r].cursor # scan[r].cursor
      BY <1>7, <2>2
    <3>2. PICK p \in Page(r) : p.id = scan'[r].cursor
      BY <1>1, <3>1 DEF Ids
    <3>3. e \in Ahead(r) \/ d.id \in scan[r].hits
      BY <1>4
    <3>4. e \in Ahead(r) => e \in Page(r)
      BY <1>0, <1>7, <3>2, PageUpTo
    <3> QED BY <1>5, <1>6, <3>3, <3>4
  <2> QED BY <2>1, <2>2
<1>8. Cardinality(Page(r)) < Batch => d.id \in Candidates(r)
  <2> SUFFICES ASSUME Cardinality(Page(r)) < Batch PROVE d.id \in Candidates(r)
    OBVIOUS
  <2>1. PICK e \in Own(d) : TRUE
    OBVIOUS
  <2>2. e \in Ahead(r) => e \in Page(r)
    BY <1>0, PageAll
  <2> QED BY <1>4, <1>5, <1>6, <2>2
<1> QED BY <1>1, <1>2, <1>7, <1>8 DEF OnTrack

\* A search stays on track of every document it is to find.
LEMMA SearchOnTrackStays ==
  ASSUME ForeignKeys, ~Lagging, Roomy, IInv, KeepInv, CurrentInv, AckedMeans,
         SearchOnTrack, [Next]_vars
  PROVE  SearchOnTrack'
<1> SUFFICES ASSUME NEW r \in Request, NEW d \in db'.documents, Expected(r, d)'
             PROVE  OnTrack(r, d)'
  BY DEF SearchOnTrack
<1>1. CASE Arrive(r)
  <2>1. pc'[r] \in {"delete", "lookup", "owner"}
    BY <1>1, ArriveFacts DEF IInv
  <2> QED BY <2>1 DEF OnTrack
<1>2. CASE ~Arrive(r)
  <2>1. /\ d \in db.documents /\ Expected(r, d)
        /\ Own(d)' = Own(d) /\ Own(d) # {}
    BY <1>2, ExpectedStep
  <2>2. OnTrack(r, d) /\ TypeInv /\ EmbeddingsCounted
    BY <2>1 DEF SearchOnTrack, IInv, KeepInv
  <2>3. pc[r] # "idle" /\ req[r].kind = "search" /\ req[r].wide
    BY <2>1 DEF Expected
  <2>4. CASE pc[r] \in Stage
    BY <2>1, <2>2, <2>4, StageOnTrack
  <2>5. CASE pc[r] \in {"probe", "scan", "fetch"}
    <3>1. held'[r].centroids = held[r].centroids
      <4>1. held'[r]["centroids"] = held[r]["centroids"]
        BY <2>2, <2>5, HeldStep
      <4> QED BY <4>1
    <3>2. CASE pc'[r] = pc[r] /\ scan'[r] = scan[r]
      BY <2>1, <2>2, <2>5, <3>1, <3>2 DEF OnTrack
    <3>3. CASE pc'[r] \in {"failed", "lost"}
      BY <3>3 DEF OnTrack
    <3>4. CASE Probe(r)
      BY <2>1, <2>2, <2>3, <3>4, ProbeOnTrack
    <3>5. CASE ScanPage(r)
      BY <2>1, <2>2, <3>5, PageOnTrack
    <3>6. CASE pc[r] = "fetch" /\ pc'[r] = "ok" /\ scan'[r] = scan[r]
      BY <2>2, <3>6 DEF OnTrack
    <3> QED BY <2>2, <2>3, <2>5, <3>2, <3>3, <3>4, <3>5, <3>6, SearchStep
  <2>6. CASE pc[r] \in Ended
    <3>1. pc'[r] = pc[r]
      BY <1>2, <2>2, <2>6, RestStep
    <3>2. scan'[r] = scan[r]
      BY <2>2, <2>6, ScanStep
    <3> QED BY <2>2, <2>6, <3>1, <3>2 DEF OnTrack
  <2>7. pc[r] \in Stage \cup Ended \cup {"probe", "scan", "fetch"}
    BY <2>2, <2>3 DEF TypeInv, TypeOK, InOrder
  <2> QED BY <2>4, <2>5, <2>6, <2>7
<1> QED BY <1>1, <1>2

\* In one process on a primary with enforced foreign keys, a search over all
\* centroids that arrives after an upload under its names was acknowledged has all
\* of the upload's documents that are still there among its hits, as long as there
\* is room for them: however stale the lists it has cached, and although documents
\* and embeddings are two statements and are scanned page by page.
THEOREM CompleteSearchHolds ==
  ASSUME OneServer, ~Lagging, ForeignKeys, Roomy
  PROVE  Spec => []CompleteSearch
<1> DEFINE Inv == IInv /\ KeepInv /\ CurrentInv /\ AckedMeans /\ SearchOnTrack
<1>1. Init => Inv
  <2> SUFFICES ASSUME Init PROVE Inv
    OBVIOUS
  <2>1. AckedMeans
    BY DEF Init, AckedMeans
  <2>2. SearchOnTrack
    BY DEF Init, EmptyTables, SearchOnTrack
  <2> QED BY <2>1, <2>2, InitInvariant, InitKeep, InitCurrent
<1>2. Inv /\ [Next]_vars => Inv'
  <2> SUFFICES ASSUME Inv, [Next]_vars PROVE Inv'
    OBVIOUS
  <2>1. TypeInv
    BY DEF IInv
  <2> QED BY <2>1, NextInvariant, NextKeep, NextCurrent, AckedMeansStays, SearchOnTrackStays
<1>3. Inv => CompleteSearch
  <2> SUFFICES ASSUME Inv, NEW r \in Request, pc[r] = "ok", req[r].kind = "search",
                      req[r].wide, NEW d \in db.documents, d.id \in since[r].acked
               PROVE  d.id \in scan[r].hits
    BY DEF CompleteSearch, Ids
  <2> QED BY DEF SearchOnTrack, Expected, OnTrack
<1> QED BY <1>1, <1>2, <1>3, PTL DEF Spec
=============================================================================
