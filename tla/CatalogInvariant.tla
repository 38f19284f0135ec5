-------------------------- MODULE CatalogInvariant --------------------------
(* The inductive invariant behind EmbeddingsAgree and Isolation of Catalog:   *)
(* every row in circulation is the one its primary key stands for, answers    *)
(* the question it is filed under, and can be traced to the upload behind it. *)
EXTENDS Catalog

\* What a handler holds at each place, and of which operation it then is.
InOrder ==
  \A r \in Request :
    /\ pc[r] \in {"idle", "owner", "lookup"} => held[r].owner = {}
    /\ pc[r] \in {"idle", "owner", "category", "lookup", "list"} => held[r].category = {}
    /\ pc[r] \in {"idle", "lookup", "list", "take", "delete"} \cup Stage
         => held[r].centroids = {}
    /\ held[r].centroids # {} => held[r].category # {}
    /\ held[r].category # {} => held[r].owner # {}
    /\ pc[r] \in {"category", "centroids", "documents", "embeddings", "probe",
                 "scan", "fetch", "take", "list"} => held[r].owner # {}
    /\ pc[r] \in {"centroids", "documents", "embeddings", "probe", "scan",
                 "fetch"} => held[r].category # {}
    /\ pc[r] = "delete" => /\ req[r].kind # "deleteOwner" => held[r].owner # {}
                           /\ req[r].kind = "deleteDocument" => held[r].category # {}
    /\ pc[r] = "owner" => req[r].kind \in {"upload", "search", "deleteCategory", "deleteDocument"}
    /\ pc[r] = "category" => req[r].kind \in {"upload", "search", "deleteDocument"}
    /\ pc[r] = "centroids" => req[r].kind \in {"upload", "search"}
    /\ pc[r] \in {"documents", "embeddings"} => req[r].kind = "upload"
    /\ pc[r] \in {"probe", "scan", "fetch"} => req[r].kind = "search"
    /\ pc[r] \in {"lookup", "list"} => req[r].kind = "names"
    /\ pc[r] = "take" => req[r].kind = "deleteDocument"
    /\ pc[r] = "delete" => req[r].kind \in {"deleteOwner", "deleteCategory", "deleteDocument"}
    /\ flight[r] \in {"create"} => req[r].kind = "upload"
    /\ pc[r] = "embeddings" => docs[r] # 0
    /\ docs[r] # 0 => /\ pc[r] \in Ended \cup {"embeddings"}
                      /\ req[r].kind = "upload"
                      /\ held[r].category # {}
                      /\ held[r].owner # {}
    /\ scan[r] # NoScan => pc[r] \in Ended \cup {"scan", "fetch"}
    /\ shown[r] # {} => pc[r] \in Ended

\* An owner or category that is cached or about to be is there; keys start at 1,
\* so that docs is 0 only before an upload has stored its documents.
NeverNothing ==
  /\ db.next # 0
  /\ \A i \in Instance : \A e \in cache[i] : e.stage # "centroids" => e.rows # {}
  /\ \A r \in Request : (flight[r] = "save" /\ pc[r] # "centroids") => got[r] # {}

TypeInv == TypeOK /\ InOrder /\ NeverNothing

\* All the rows of a stage's table that are about: stored, replicated, cached,
\* being fetched, in a handler's hands.
TableOf(d, stage) == CASE stage = "owner" -> d.owners
                       [] stage = "category" -> d.categories
                       [] stage = "centroids" -> d.centroids

CachedRows(stage) ==
  UNION {e.rows : e \in {x \in UNION {cache[i] : i \in Instance} : x.stage = stage}}

Seen(stage) ==
  TableOf(db, stage) \cup TableOf(replica, stage) \cup CachedRows(stage)
    \cup (UNION {got[r] : r \in {q \in Request : flight[q] = "save" /\ pc[q] = stage}})
    \cup (UNION {held[r][stage] : r \in Request})

\* A primary key stands for one row, wherever a copy of it is kept.
OneRowPerKey ==
  \A stage \in Stage : \A a, b \in Seen(stage) :
    a.id < db.next /\ (a.id = b.id => a = b)

\* A row answers the question its key asks.
Matches(stage, key, row) ==
  CASE stage = "owner" -> row.name = key[1]
    [] stage = "category" -> row.owner = key[1] /\ row.name = key[2]
    [] stage = "centroids" -> row.category = key[1]

RowsMatch ==
  /\ \A i \in Instance : \A e \in cache[i] : \A row \in e.rows : Matches(e.stage, e.key, row)
  /\ \A r \in Request : flight[r] = "save" => \A row \in got[r] : Matches(pc[r], Key(r), row)
  /\ \A r \in Request : \A row \in held[r].owner : row.name = req[r].owner
  /\ \A r \in Request : \A row \in held[r].category :
       row.owner = HeldId(r, "owner") /\ row.name = req[r].category
  /\ \A r \in Request : \A row \in held[r].centroids : row.category = HeldId(r, "category")

\* Uploads number their documents apart from each other.
IdsApart ==
  \A u, v \in Request :
    docs[u] # 0 => /\ docs[u] + Docs <= db.next
                   /\ (u # v /\ docs[v] # 0) => \/ docs[u] + Docs <= docs[v]
                                                \/ docs[v] + Docs <= docs[u]

\* Where stored and shown rows come from.
DocumentTraced(d) == /\ d.id \in DocIds(d.by)
                     /\ d.category = HeldId(d.by, "category")

EmbeddingTraced(e) == \E u \in Request : /\ e.document \in DocIds(u)
                                         /\ e.centroid \in Ids(held[u].centroids)

CategoryTraced(c) == \E q \in Request : /\ req[q].kind = "upload"
                                        /\ held[q].owner # {}
                                        /\ c.owner = HeldId(q, "owner")
                                        /\ c.name = req[q].category

RowsTraced ==
  \A d \in {db, replica} :
    /\ \A x \in d.documents : DocumentTraced(x)
    /\ \A e \in d.embeddings : EmbeddingTraced(e)
    /\ \A c \in d.categories : CategoryTraced(c)

\* Two requests hold a centroid in common.
SharedCentroid(u, r) == Ids(held[u].centroids) \cap Ids(held[r].centroids) # {}

HitsTraced ==
  \A r \in Request :
    /\ scan[r].probe \subseteq Ids(held[r].centroids)
    /\ \A id \in scan[r].hits :
         \E u \in Request : id \in DocIds(u) /\ SharedCentroid(u, r)

ShownTraced ==
  \A r \in Request : \A row \in shown[r] :
    /\ req[r].kind = "search" => /\ row \in DocumentRow
                                 /\ DocumentTraced(row)
                                 /\ row.id \in scan[r].hits
    /\ req[r].kind = "names" => /\ row \in CategoryRow
                                /\ CategoryTraced(row)
                                /\ held[r].owner # {}
                                /\ row.owner = HeldId(r, "owner")

IInv == /\ TypeInv
        /\ OneRowPerKey
        /\ RowsMatch
        /\ IdsApart
        /\ RowsTraced
        /\ HitsTraced
        /\ ShownTraced
=============================================================================
