------------------------------ MODULE Catalog ------------------------------
(***************************************************************************)
(* The request path of the server: upload, search, the three deletes and    *)
(* the category listing, each a process that advances one database          *)
(* statement or one cache call at a time, over shared tables (Database), a  *)
(* read replica, and the per-process cache whose fetches are shared by the  *)
(* singleflight groups of cache/middleware.go.                              *)
(***************************************************************************)
EXTENDS Database, FiniteSets, Sequences

CONSTANTS
  Instance,     \* server processes that share the database
  At,           \* the process that serves a request
  May,          \* the operations a request may turn out to be
  After,        \* the requests a client has had answered before it asks
  Docs,         \* documents in one upload
  Sections,     \* sections (embeddings) of one document
  Batch,        \* BATCH_SIZE_DATABASE, the page of a scan
  Limit,        \* Count + Offset of a search
  Fallible,     \* requests whose context may end or whose calls may fail
  Lagging,      \* reads are served by a replica that lags
  Crashing      \* processes that may crash

Kind == {"upload", "search", "names",
         "deleteOwner", "deleteCategory", "deleteDocument"}

ASSUME CatalogAssumption ==
  /\ At \in [Request -> Instance]
  /\ May \in [Request -> SUBSET Kind]
  /\ After \in [Request -> SUBSET Request]
  /\ Docs \in Nat \ {0}
  /\ Sections \in Nat \ {0}
  /\ Batch \in Nat \ {0}
  /\ Limit \in Nat \ {0}
  /\ Lagging \in BOOLEAN

VARIABLES
  db,       \* the primary
  replica,  \* what the read replica has applied
  cache,    \* per process, unexpired entries [stage, key, rows]
  req,      \* what the client asked
  pc,       \* where the handler is; a stage name while it is in a cache call
  flight,   \* its part in a singleflight: none, wait, or a leader's progress
  got,      \* what the closure of a leader has obtained
  held,     \* the rows the three cache calls returned
  docs,     \* id of the first document an upload has stored, 0 before
  scan,     \* a search's probed centroids, last embedding seen, nearest ids
  shown,    \* rows in the answer
  since     \* history: the database and the acknowledgements at arrival

vars == <<db, replica, cache, req, pc, flight, got, held, docs, scan, shown,
          since>>

Stage == {"owner", "category", "centroids"}
Ended == {"ok", "failed", "panic", "lost"}
PC == Stage \cup Ended \cup
      {"idle", "documents", "embeddings", "probe", "scan", "fetch",
       "take", "delete", "lookup", "list"}
Leader == {"read", "create", "save"}

NotAsked == [kind |-> "none"]
NoScan == [probe |-> {}, cursor |-> 0, hits |-> {}]
NothingHeld == [s \in Stage |-> {}]

Init ==
  /\ db = EmptyTables
  /\ replica = EmptyTables
  /\ cache = [i \in Instance |-> {}]
  /\ req = [r \in Request |-> NotAsked]
  /\ pc = [r \in Request |-> "idle"]
  /\ flight = [r \in Request |-> "none"]
  /\ got = [r \in Request |-> {}]
  /\ held = [r \in Request |-> NothingHeld]
  /\ docs = [r \in Request |-> 0]
  /\ scan = [r \in Request |-> NoScan]
  /\ shown = [r \in Request |-> {}]
  /\ since = [r \in Request |-> [next |-> 0, live |-> {}, acked |-> {}]]

\* Where a query with the Read clause goes.
View == IF Lagging THEN replica ELSE db

\* owner.ID and category.ID of the row a cache call returned.
HeldId(r, stage) == (CHOOSE row \in held[r][stage] : TRUE).id

\* The ids of the documents of an upload; one insert numbers them in a row.
DocIds(r) == IF docs[r] = 0 THEN {} ELSE docs[r] .. docs[r] + Docs - 1

-----------------------------------------------------------------------------
(* A request arrives.  Embedding its texts precedes every database access    *)
(* and touches no shared state: it is part of the first step.  A document    *)
(* id a client can name is one it was told, or none that exists.             *)

FirstStep(kind) == CASE kind = "deleteOwner" -> "delete"
                     [] kind = "names" -> "lookup"
                     [] OTHER -> "owner"

\* Documents acknowledged to uploads under the same names.
AckedFor(o, c) ==
  UNION {DocIds(q) : q \in {u \in Request : /\ pc[u] = "ok"
                                          /\ req[u].kind = "upload"
                                          /\ req[u].owner = o
                                          /\ req[u].category = c}}

Arrive(r) ==
  /\ pc[r] = "idle" /\ \A q \in After[r] : pc[q] \in Ended
  /\ \E kind \in May[r], o \in Owner, c \in Category, wide \in BOOLEAN,
        target \in {0} \cup Ids(db.documents) :
       /\ kind # "search" => wide
       /\ kind # "deleteDocument" => target = 0
       /\ req' = [req EXCEPT ![r] = [kind |-> kind, owner |-> o, category |-> c,
                                     wide |-> wide, target |-> target]]
       /\ pc' = [pc EXCEPT ![r] = FirstStep(kind)]
       /\ since' = [since EXCEPT ![r] = [next |-> db.next,
                                         live |-> Ids(db.documents),
                                         acked |-> AckedFor(o, c)]]
  /\ UNCHANGED <<db, replica, cache, flight, got, held, docs, scan, shown>>

-----------------------------------------------------------------------------
(* The cache calls FetchOwner, FetchCategory, FetchCentroids: one code, three *)
(* maps and three singleflight groups, keyed as cache/types.go formats them.  *)

\* (mutant) the centroid list cached under the owner's id
KeyByOwner(r) == CASE pc[r] = "owner" -> <<req[r].owner>>
                   [] pc[r] = "category" -> <<HeldId(r, "owner"), req[r].category>>
                   [] pc[r] = "centroids" -> <<HeldId(r, "owner")>>

\* (mutant) the centroid list cached under the category's name
KeyByName(r) == CASE pc[r] = "owner" -> <<req[r].owner>>
                  [] pc[r] = "category" -> <<HeldId(r, "owner"), req[r].category>>
                  [] pc[r] = "centroids" -> <<req[r].category>>

Key(r) == CASE pc[r] = "owner" -> <<req[r].owner>>
            [] pc[r] = "category" -> <<HeldId(r, "owner"), req[r].category>>
            [] pc[r] = "centroids" -> <<HeldId(r, "category")>>

Sharing(q, r) == At[q] = At[r] /\ pc[q] = pc[r] /\ Key(q) = Key(r)

\* (mutant) no singleflight: every miss fetches on its own
NeverInFlight(r) == FALSE

InFlight(r) == \E l \in Request : /\ flight[l] \in Leader
                                  /\ pc[l] \in Stage
                                  /\ Sharing(l, r)

Cached(r) == {e \in cache[At[r]] : e.stage = pc[r] /\ e.key = Key(r)}

\* (mutant) the waiting callers are not given the result
LeaderAlone(l) == {l}

\* A leader with the callers that wait for its result.
Party(l) == {l} \cup {q \in Request : /\ flight[q] = "wait"
                                      /\ pc[q] \in Stage
                                      /\ Sharing(q, l)}

Calling(r) == pc[r] \in Stage /\ flight[r] = "none"

\* Where a handler goes with the rows a stage gave it, and when it gets an
\* error: DeleteDocument overwrites the error of FetchCategory, the others
\* but Upload answer "not found" with an empty success.
Onward(r, rows) ==
  CASE pc[r] = "owner" -> IF req[r].kind = "deleteCategory" THEN "delete"
                                                            ELSE "category"
    [] pc[r] = "category" -> IF req[r].kind = "deleteDocument" THEN "take"
                                                               ELSE "centroids"
    [] pc[r] = "centroids" -> IF req[r].kind = "upload" THEN "documents"
                              ELSE IF rows = {} THEN "ok" ELSE "probe"

AfterError(r, error) ==
  CASE pc[r] = "category" /\ req[r].kind = "deleteDocument" -> "take"
    [] error = "notFound" /\ req[r].kind # "upload" -> "ok"
    [] OTHER -> "failed"

Deliver(callers, rows) ==
  /\ held' = [q \in Request |->
               IF q \in callers THEN [held[q] EXCEPT ![pc[q]] = rows] ELSE held[q]]
  /\ pc' = [q \in Request |-> IF q \in callers THEN Onward(q, rows) ELSE pc[q]]
  /\ flight' = [q \in Request |-> IF q \in callers THEN "none" ELSE flight[q]]

Refuse(callers, error) ==
  /\ pc' = [q \in Request |-> IF q \in callers THEN AfterError(q, error) ELSE pc[q]]
  /\ flight' = [q \in Request |-> IF q \in callers THEN "none" ELSE flight[q]]
  /\ UNCHANGED held

Join(r) ==
  /\ Calling(r) /\ InFlight(r)
  /\ flight' = [flight EXCEPT ![r] = "wait"]
  /\ UNCHANGED <<db, replica, cache, req, pc, got, held, docs, scan, shown, since>>

Hit(r) ==
  /\ Calling(r) /\ ~InFlight(r)
  /\ \E e \in Cached(r) : Deliver({r}, e.rows)
  /\ UNCHANGED <<db, replica, cache, req, got, docs, scan, shown, since>>

Lead(r) ==
  /\ Calling(r) /\ ~InFlight(r) /\ Cached(r) = {}
  /\ flight' = [flight EXCEPT ![r] = "read"]
  /\ UNCHANGED <<db, replica, cache, req, pc, got, held, docs, scan, shown, since>>

\* (mutant) the centroids are looked up in the wrong table
FoundInWrongTable(r) ==
  CASE pc[r] = "owner" -> {o \in View.owners : o.name = req[r].owner}
    [] pc[r] = "category" -> {c \in View.categories : /\ c.name = req[r].category
                                                      /\ c.owner = HeldId(r, "owner")}
    [] pc[r] = "centroids" -> {c \in View.categories : c.id = HeldId(r, "category")}

\* The leader's query.  Only an upload creates what is missing; centroids are
\* read by Find, which reports an empty list as a success.
Found(r) ==
  CASE pc[r] = "owner" -> {o \in View.owners : o.name = req[r].owner}
    [] pc[r] = "category" -> {c \in View.categories : /\ c.name = req[r].category
                                                      /\ c.owner = HeldId(r, "owner")}
    [] pc[r] = "centroids" -> {c \in View.centroids : c.category = HeldId(r, "category")}

Read(r) ==
  /\ flight[r] = "read"
  /\ LET creates == Found(r) = {} /\ req[r].kind = "upload"
         missing == Found(r) = {} /\ ~creates /\ pc[r] # "centroids"
     IN  \/ /\ missing
            /\ Refuse(Party(r), "notFound")
            /\ UNCHANGED got
         \/ /\ ~missing
            /\ got' = [got EXCEPT ![r] = Found(r)]
            /\ flight' = [flight EXCEPT ![r] = IF creates THEN "create" ELSE "save"]
            /\ UNCHANGED <<pc, held>>
  /\ UNCHANGED <<db, replica, cache, req, docs, scan, shown, since>>

\* The row an upload creates on the primary, and whether the insert is accepted.
NewRow(r) ==
  CASE pc[r] = "owner" -> [id |-> db.next, name |-> req[r].owner]
    [] pc[r] = "category" -> [id |-> db.next, name |-> req[r].category,
                              owner |-> HeldId(r, "owner")]
    [] pc[r] = "centroids" -> [id |-> db.next, category |-> HeldId(r, "category")]

Accepted(r) ==
  CASE pc[r] = "owner" -> OwnerFits(db, req[r].owner)
    [] pc[r] = "category" -> CategoryFits(db, req[r].category, HeldId(r, "owner"))
    [] pc[r] = "centroids" -> ChildFits(db, HeldId(r, "category"))

Inserted(r) ==
  CASE pc[r] = "owner" -> [db EXCEPT !.owners = @ \cup {NewRow(r)}, !.next = @ + 1]
    [] pc[r] = "category" -> [db EXCEPT !.categories = @ \cup {NewRow(r)}, !.next = @ + 1]
    [] pc[r] = "centroids" -> [db EXCEPT !.centroids = @ \cup {NewRow(r)}, !.next = @ + 1]

\* The insert may take effect and still be reported as failed.
Create(r) ==
  /\ flight[r] = "create"
  /\ \/ /\ Accepted(r)
        /\ db' = Inserted(r)
        /\ got' = [got EXCEPT ![r] = {NewRow(r)}]
        /\ flight' = [flight EXCEPT ![r] = "save"]
        /\ UNCHANGED <<pc, held>>
     \/ /\ Accepted(r) /\ r \in Fallible
        /\ db' = Inserted(r)
        /\ Refuse(Party(r), "failed")
        /\ UNCHANGED got
     \/ /\ ~Accepted(r)
        /\ Refuse(Party(r), "failed")
        /\ UNCHANGED <<db, got>>
  /\ UNCHANGED <<replica, cache, req, docs, scan, shown, since>>

Save(r) ==
  /\ flight[r] = "save"
  /\ cache' = [cache EXCEPT ![At[r]] =
                 (@ \ Cached(r)) \cup {[stage |-> pc[r], key |-> Key(r), rows |-> got[r]]}]
  /\ Deliver(Party(r), got[r])
  /\ UNCHANGED <<db, replica, req, got, docs, scan, shown, since>>

\* CACHE_DURATION has passed since the entry was saved.
Expire(i) ==
  /\ \E e \in cache[i] : cache' = [cache EXCEPT ![i] = @ \ {e}]
  /\ UNCHANGED <<db, replica, req, pc, flight, got, held, docs, scan, shown, since>>

-----------------------------------------------------------------------------
(* Upload, after the three cache calls: NewMatrix panics on an empty list of *)
(* centroids; then documents and embeddings are saved by two statements of   *)
(* their own, the embeddings of a document each under its nearest centroid   *)
(* of the list in hand (any, as vectors are abstracted).                     *)

MatrixPanic(r) ==
  /\ pc[r] = "documents" /\ held[r].centroids = {}
  /\ pc' = [pc EXCEPT ![r] = "panic"]
  /\ UNCHANGED <<db, replica, cache, req, flight, got, held, docs, scan, shown, since>>

SaveDocuments(r) ==
  /\ pc[r] = "documents" /\ held[r].centroids # {}
  /\ LET category == HeldId(r, "category")
         rows == {[id |-> n, category |-> category, by |-> r] : n \in db.next .. db.next + Docs - 1}
     IN  \/ /\ ChildFits(db, category)
            /\ db' = [db EXCEPT !.documents = @ \cup rows, !.next = @ + Docs]
            /\ docs' = [docs EXCEPT ![r] = db.next]
            /\ \/ pc' = [pc EXCEPT ![r] = "embeddings"]
               \/ r \in Fallible /\ pc' = [pc EXCEPT ![r] = "failed"]
         \/ /\ ~ChildFits(db, category)
            /\ pc' = [pc EXCEPT ![r] = "failed"]
            /\ UNCHANGED <<db, docs>>
  /\ UNCHANGED <<replica, cache, req, flight, got, held, scan, shown, since>>

\* (mutant) the last section of a document gets no embedding
EmbeddingRowsShort(r, nearest) ==
  {[id |-> db.next + (p[1] - docs[r]) * Sections + p[2],
    document |-> p[1],
    centroid |-> nearest[p]] : p \in DocIds(r) \X (0 .. Sections - 2)}

\* One embedding for each section, numbered document by document.
EmbeddingRows(r, nearest) ==
  {[id |-> db.next + (p[1] - docs[r]) * Sections + p[2],
    document |-> p[1],
    centroid |-> nearest[p]] : p \in DocIds(r) \X (0 .. Sections - 1)}

SaveEmbeddings(r) ==
  /\ pc[r] = "embeddings"
  /\ \E nearest \in [DocIds(r) \X (0 .. Sections - 1) -> Ids(held[r].centroids)] :
       LET rows == EmbeddingRows(r, nearest)
       IN  \/ /\ EmbeddingsFit(db, rows)
              /\ db' = [db EXCEPT !.embeddings = @ \cup rows,
                                  !.next = @ + Docs * Sections]
              /\ \/ pc' = [pc EXCEPT ![r] = "ok"]
                 \/ r \in Fallible /\ pc' = [pc EXCEPT ![r] = "failed"]
           \/ /\ ~EmbeddingsFit(db, rows)
              /\ pc' = [pc EXCEPT ![r] = "failed"]
              /\ UNCHANGED db
  /\ UNCHANGED <<replica, cache, req, flight, got, held, docs, scan, shown, since>>

-----------------------------------------------------------------------------
(* Search: rank the centroids in hand and keep the nearest one, or all of     *)
(* them; page through their embeddings in key order, keeping the nearest      *)
(* Limit documents (any, as similarities are abstracted); load the documents. *)

Probe(r) ==
  /\ pc[r] = "probe"
  /\ \E probed \in SUBSET Ids(held[r].centroids) :
       /\ IF req[r].wide THEN probed = Ids(held[r].centroids)
                         ELSE Cardinality(probed) = 1
       /\ scan' = [scan EXCEPT ![r] = [NoScan EXCEPT !.probe = probed]]
  /\ pc' = [pc EXCEPT ![r] = "scan"]
  /\ UNCHANGED <<db, replica, cache, req, flight, got, held, docs, shown, since>>

Page(r) ==
  LET ahead == {e \in View.embeddings : /\ e.centroid \in scan[r].probe
                                        /\ e.id > scan[r].cursor}
  IN  {e \in ahead : Cardinality({f \in ahead : f.id < e.id}) < Batch}

ScanPage(r) ==
  /\ pc[r] = "scan"
  /\ LET candidates == scan[r].hits \cup {e.document : e \in Page(r)}
     IN  \E nearest \in SUBSET candidates, last \in Ids(Page(r)) \cup {scan[r].cursor} :
           /\ IF Cardinality(candidates) <= Limit THEN nearest = candidates
                                                  ELSE Cardinality(nearest) = Limit
           /\ \A n \in Ids(Page(r)) : n <= last
           /\ scan' = [scan EXCEPT ![r] = [@ EXCEPT !.hits = nearest, !.cursor = last]]
  /\ pc' = [pc EXCEPT ![r] = IF Cardinality(Page(r)) < Batch THEN "fetch" ELSE "scan"]
  /\ UNCHANGED <<db, replica, cache, req, flight, got, held, docs, shown, since>>

\* Find with an empty id list has no WHERE and loads every document; a loaded
\* document is shown only at the place of a hit with its id.
FetchDocuments(r) ==
  /\ pc[r] = "fetch"
  /\ LET loaded == IF scan[r].hits = {} THEN View.documents
                   ELSE {d \in View.documents : d.id \in scan[r].hits}
     IN  shown' = [shown EXCEPT ![r] = {d \in loaded : d.id \in scan[r].hits}]
  /\ pc' = [pc EXCEPT ![r] = "ok"]
  /\ UNCHANGED <<db, replica, cache, req, flight, got, held, docs, scan, since>>

-----------------------------------------------------------------------------
(* FetchCategoryNames, which goes around the cache.                          *)

LookupOwner(r) ==
  /\ pc[r] = "lookup"
  /\ LET owners == {o \in View.owners : o.name = req[r].owner}
     IN  /\ held' = [held EXCEPT ![r].owner = owners]
         /\ pc' = [pc EXCEPT ![r] = IF owners = {} THEN "ok" ELSE "list"]
  /\ UNCHANGED <<db, replica, cache, req, flight, got, docs, scan, shown, since>>

ListCategories(r) ==
  /\ pc[r] = "list"
  /\ shown' = [shown EXCEPT ![r] =
                 {c \in View.categories : c.owner = HeldId(r, "owner")}]
  /\ pc' = [pc EXCEPT ![r] = "ok"]
  /\ UNCHANGED <<db, replica, cache, req, flight, got, held, docs, scan, since>>

-----------------------------------------------------------------------------
(* Deletes.  DeleteDocument looks its category up once more, with the cached *)
(* primary key as a further condition when it has one.  None of them tells   *)
(* the cache.                                                               *)

TakeCategory(r) ==
  /\ pc[r] = "take"
  /\ LET rows == {c \in View.categories :
                    /\ c.owner = HeldId(r, "owner")
                    /\ c.name = req[r].category
                    /\ held[r].category # {} => c.id = HeldId(r, "category")}
     IN  /\ held' = [held EXCEPT ![r].category = IF rows = {} THEN @ ELSE rows]
         /\ pc' = [pc EXCEPT ![r] = IF rows = {} THEN "ok" ELSE "delete"]
  /\ UNCHANGED <<db, replica, cache, req, flight, got, docs, scan, shown, since>>

Deleted(r) ==
  CASE req[r].kind = "deleteOwner" ->
         Drop(db, {o \in db.owners : o.name = req[r].owner}, {}, {})
    [] req[r].kind = "deleteCategory" ->
         Drop(db, {}, {c \in db.categories : /\ c.owner = HeldId(r, "owner")
                                             /\ c.name = req[r].category}, {})
    [] req[r].kind = "deleteDocument" ->
         Drop(db, {}, {}, {d \in db.documents : /\ d.id = req[r].target
                                                /\ d.category = HeldId(r, "category")})

Delete(r) ==
  /\ pc[r] = "delete"
  /\ db' = Deleted(r)
  /\ \/ pc' = [pc EXCEPT ![r] = "ok"]
     \/ r \in Fallible /\ pc' = [pc EXCEPT ![r] = "failed"]
  /\ UNCHANGED <<replica, cache, req, flight, got, held, docs, scan, shown, since>>

-----------------------------------------------------------------------------
(* Failures.  The context of a request ends, or a call it makes fails before  *)
(* it takes effect: a leader hands its error, its own cancellation included, *)
(* to everyone who joined it.  A caller that waits does not look at its own  *)
(* context.  A process crash takes its requests and its cache.               *)

Calls == {"documents", "embeddings", "scan", "fetch", "take", "delete", "lookup", "list"}

Fail(r) ==
  /\ r \in Fallible
  /\ \/ flight[r] \in {"read", "create"} /\ Refuse(Party(r), "failed")
     \/ /\ flight[r] = "none"
        /\ \/ pc[r] \in Calls
           \/ pc[r] = "owner" /\ req[r].kind \in {"upload", "search"}
        /\ Refuse({r}, "failed")
  /\ UNCHANGED <<db, replica, cache, req, got, docs, scan, shown, since>>

Crash(i) ==
  /\ i \in Crashing
  /\ LET running == {r \in Request : At[r] = i /\ pc[r] \notin Ended \cup {"idle"}}
     IN  /\ running # {}
         /\ pc' = [r \in Request |-> IF r \in running THEN "lost" ELSE pc[r]]
         /\ flight' = [r \in Request |-> IF r \in running THEN "none" ELSE flight[r]]
  /\ cache' = [cache EXCEPT ![i] = {}]
  /\ UNCHANGED <<db, replica, req, got, held, docs, scan, shown, since>>

\* The replica catches up with the primary.
Replicate ==
  /\ Lagging /\ replica # db
  /\ replica' = db
  /\ UNCHANGED <<db, cache, req, pc, flight, got, held, docs, scan, shown, since>>

-----------------------------------------------------------------------------
Step(r) ==
  \/ Join(r) \/ Hit(r) \/ Lead(r) \/ Read(r) \/ Create(r) \/ Save(r)
  \/ MatrixPanic(r) \/ SaveDocuments(r) \/ SaveEmbeddings(r)
  \/ Probe(r) \/ ScanPage(r) \/ FetchDocuments(r)
  \/ LookupOwner(r) \/ ListCategories(r)
  \/ TakeCategory(r) \/ Delete(r)

\* Every request has been answered; the server goes on listening.
Quiet == /\ \A r \in Request : pc[r] \in Ended
         /\ UNCHANGED vars

Next ==
  \/ \E r \in Request : Arrive(r) \/ Step(r) \/ Fail(r)
  \/ \E i \in Instance : Expire(i) \/ Crash(i)
  \/ Replicate
  \/ Quiet

Spec == Init /\ [][Next]_vars

\* The runtime schedules every handler, and a call returns in the end.
FairSpec == Spec /\ \A r \in Request : WF_vars(Step(r))

-----------------------------------------------------------------------------
(* Properties.                                                              *)

RowsOf(stage) == CASE stage = "owner" -> OwnerRow
                   [] stage = "category" -> CategoryRow
                   [] stage = "centroids" -> CentroidRow
AnyRow == OwnerRow \cup CategoryRow \cup CentroidRow
Entry == [stage : Stage, key : Seq(Owner \cup Category \cup Nat),
          rows : SUBSET AnyRow]
Asked == [kind : Kind, owner : Owner, category : Category, wide : BOOLEAN,
          target : Nat]

\* Types of the state: tables hold rows of their own type, and a cache entry, a
\* leader that saves and a handler hold the rows of the stage in question.
TypeOK ==
  /\ db \in Tables
  /\ replica \in Tables
  /\ cache \in [Instance -> SUBSET Entry]
  /\ \A i \in Instance : \A e \in cache[i] : e.rows \subseteq RowsOf(e.stage)
  /\ req \in [Request -> Asked \cup {NotAsked}]
  /\ \A r \in Request : pc[r] # "idle" => req[r] \in Asked
  /\ pc \in [Request -> PC]
  /\ flight \in [Request -> Leader \cup {"none", "wait"}]
  /\ \A r \in Request : flight[r] # "none" => pc[r] \in Stage
  /\ got \in [Request -> SUBSET AnyRow]
  /\ \A r \in Request : flight[r] = "save" => got[r] \subseteq RowsOf(pc[r])
  /\ held \in [Request -> [Stage -> SUBSET AnyRow]]
  /\ \A r \in Request, s \in Stage : held[r][s] \subseteq RowsOf(s)
  /\ docs \in [Request -> Nat]
  /\ scan \in [Request -> [probe : SUBSET Nat, cursor : Nat, hits : SUBSET Nat]]
  /\ shown \in [Request -> SUBSET (DocumentRow \cup CategoryRow)]
  /\ since \in [Request -> [next : Nat, live : SUBSET Nat, acked : SUBSET Nat]]

\* Answers stay inside what was asked: a search shows only documents uploaded
\* under the owner and category names it gave, and a listing only categories
\* somebody uploaded to under that owner's name, whatever was deleted, created
\* again under the same name, cached or replicated late in the meantime.
Isolation ==
  \A r \in Request : \A row \in shown[r] :
    /\ req[r].kind = "search" =>
         /\ req[row.by].owner = req[r].owner
         /\ req[row.by].category = req[r].category
    /\ req[r].kind = "names" =>
         \E q \in Request : /\ req[q].kind = "upload"
                            /\ req[q].owner = req[r].owner
                            /\ req[q].category = row.name

\* An embedding is filed under a centroid of its own document's category: what
\* lets a search find documents by centroid without looking at their category.
EmbeddingsAgree ==
  \A e \in db.embeddings, d \in db.documents, c \in db.centroids :
    (e.document = d.id /\ e.centroid = c.id) => d.category = c.category

\* Concurrent first uploads of one process give a category one initial
\* centroid: the read that finds none and the insert are one fetch, and the
\* singleflight admits one fetch of a category at a time.
OneInitialCentroid ==
  \A c, e \in db.centroids : c.category = e.category => c = e

\* A document an acknowledged upload has stored, if it is still there, has every
\* one of its embeddings, each under a centroid that exists.
AckedSearchable ==
  \A q \in Request, d \in db.documents :
    (pc[q] = "ok" /\ d.by = q) =>
      LET own == {e \in db.embeddings : e.document = d.id}
      IN  /\ Cardinality(own) = Sections
          /\ \A e \in own : e.centroid \in Ids(db.centroids)

\* A search over all centroids that begins after an upload under the same names
\* was acknowledged finds its documents, unless they have been deleted.
CompleteSearch ==
  \A r \in Request :
    (pc[r] = "ok" /\ req[r].kind = "search" /\ req[r].wide) =>
      since[r].acked \cap Ids(db.documents) \subseteq scan[r].hits

\* A document whose deletion (its own, its category's or its owner's) was over
\* when a search arrived is not among the search's hits, although the search
\* may go by a cached owner, category and centroid list.
DeletedNotServed ==
  \A r \in Request : \A id \in scan[r].hits :
    id \in since[r].live \/ id >= since[r].next

\* Every request is answered: nobody waits for a singleflight leader that
\* waits in turn, and a scan gets to its last page.
Answered == \A r \in Request : (pc[r] # "idle") ~> (pc[r] \in Ended)

-----------------------------------------------------------------------------
(* What the code and its comments claim and the program does not keep.       *)

\* upload.go:110 and 161: an upload whose context lives and whose calls succeed
\* creates the owner it does not find, and saves its documents.
UploadSucceeds ==
  \A r \in Request : pc[r] = "failed" => req[r].kind # "upload"

\* compute.go:26: the matrix of centroids is never built from an empty list.
CentroidsInHand == \A r \in Request : pc[r] # "panic"
=============================================================================
