--------------------------- MODULE CatalogAnswers ---------------------------
(* The inductive invariants behind OneInitialCentroid, DeletedNotServed,      *)
(* AckedSearchable and CompleteSearch of Catalog, and the deployments that    *)
(* all but AckedSearchable need.                                              *)
EXTENDS CatalogInvariant

\* One process, so one cache and one set of singleflight groups.
OneServer == \A i, j \in Instance : i = j

\* Limit is no smaller than the number of documents there can be.
Roomy == IsFiniteSet(Request) /\ Docs * Cardinality(Request) <= Limit

-----------------------------------------------------------------------------
(* One fetch of a key at a time, and nobody else creates its row meanwhile.   *)

\* The stored rows that answer a key.
Stored(stage, key) == {row \in TableOf(db, stage) : Matches(stage, key, row)}

OneLeader ==
  \A q, r \in Request :
    (flight[q] \in Leader /\ flight[r] \in Leader /\ Sharing(q, r)) => q = r

NothingToCreate ==
  \A r \in Request : flight[r] = "create" => Stored(pc[r], Key(r)) = {}

FetchInv == OneLeader /\ NothingToCreate

-----------------------------------------------------------------------------
(* What is cached, or about to be, is all there is.                          *)

\* A cached key has the form of its stage's.
KeysFormed ==
  \A i \in Instance : \A e \in cache[i] :
    e.key = IF e.stage = "category" THEN <<e.key[1], e.key[2]>> ELSE <<e.key[1]>>

LeaderMissed == \A r \in Request : flight[r] \in Leader => Cached(r) = {}

CacheCurrent ==
  \A i \in Instance : \A e \in cache[i] : Stored(e.stage, e.key) \subseteq e.rows

GotCurrent ==
  \A r \in Request : flight[r] = "save" => Stored(pc[r], Key(r)) \subseteq got[r]

\* An owner's name, and a category's under its owner, is one row's.
NamesUnique ==
  /\ \A a, b \in db.owners : a.name = b.name => a = b
  /\ \A a, b \in db.categories : (a.name = b.name /\ a.owner = b.owner) => a = b

AtMostOne(rows) == \A a, b \in rows : a = b

SingleRows ==
  /\ \A i \in Instance : \A e \in cache[i] : e.stage # "centroids" => AtMostOne(e.rows)
  /\ \A r \in Request : (flight[r] = "save" /\ pc[r] # "centroids") => AtMostOne(got[r])

CurrentInv == /\ FetchInv
              /\ KeysFormed
              /\ LeaderMissed
              /\ CacheCurrent
              /\ GotCurrent
              /\ NamesUnique
              /\ SingleRows

-----------------------------------------------------------------------------
(* Enforced foreign keys: nothing outlives its parents.                      *)

Intact ==
  /\ \A c \in db.categories : c.owner \in Ids(db.owners)
  /\ \A c \in db.centroids : c.category \in Ids(db.categories)
  /\ \A d \in db.documents : d.category \in Ids(db.categories)
  /\ \A e \in db.embeddings : /\ e.document \in Ids(db.documents)
                              /\ e.centroid \in Ids(db.centroids)

\* The ids of the rows of a table that a step has not left.
Gone(table, left) == Ids(table \ left)

\* What was there when a request arrived, and what has come since.
LiveOrNew ==
  \A r \in Request : pc[r] # "idle" =>
    /\ since[r].next <= db.next
    /\ \A d \in db.documents : d.id \in since[r].live \/ d.id >= since[r].next

\* The embeddings of a document, which an upload saves all at once.
Own(d) == {e \in db.embeddings : e.document = d.id}

OwnEmbeddings ==
  \A q \in Request :
    /\ pc[q] = "embeddings" => \A e \in db.embeddings : e.document \notin DocIds(q)
    /\ pc[q] = "ok" => \A d \in db.documents : d.by = q => Cardinality(Own(d)) = Sections

\* Embeddings are counted from 1.
EmbeddingsCounted == IsFiniteSet(db.embeddings) /\ \A e \in db.embeddings : e.id # 0

KeepInv == Intact /\ OwnEmbeddings /\ EmbeddingsCounted

\* Where nothing cascades, no centroid goes: all that are cached, replicated or
\* held are stored.
CentroidsStay == Seen("centroids") \subseteq db.centroids

WholeInv == OwnEmbeddings /\ (IF ForeignKeys THEN Intact ELSE CentroidsStay)

-----------------------------------------------------------------------------
(* A search for documents that were acknowledged before it.                  *)

\* What a cache call may return: a cached list, or what a leader obtained.
Returned(r) ==
  {e.rows : e \in Cached(r)} \cup
  {got[l] : l \in {q \in Request : /\ flight[q] = "save"
                                   /\ pc[q] = pc[r] /\ Key(q) = Key(r)}}

\* A leader has found nothing under a key.
NotFound(r) ==
  \E l \in Request : /\ flight[l] = "read" /\ Found(l) = {}
                     /\ pc[l] = pc[r] /\ Key(l) = Key(r)
                     /\ pc[r] # "centroids"

AckedMeans ==
  \A r \in Request : pc[r] # "idle" =>
    \A id \in since[r].acked :
      \E u \in Request : /\ pc[u] = "ok"
                         /\ req[u].kind = "upload"
                         /\ req[u].owner = req[r].owner
                         /\ req[u].category = req[r].category
                         /\ id \in DocIds(u)

\* The search has the owner, the category, the centroids of such a document,
\* and has it among its hits when it has passed one of its embeddings.
OnTrack(r, d) ==
  /\ pc[r] = "category" =>
       \A c \in db.categories : c.id = d.category => c.owner = HeldId(r, "owner")
  /\ pc[r] = "centroids" => d.category = HeldId(r, "category")
  /\ pc[r] \in {"probe", "scan", "fetch"} =>
       \A e \in Own(d) : e.centroid \in Ids(held[r].centroids)
  /\ pc[r] = "scan" =>
       /\ scan[r].probe = Ids(held[r].centroids)
       /\ \A e \in Own(d) : e.id <= scan[r].cursor => d.id \in scan[r].hits
  /\ pc[r] \in {"fetch", "ok"} => d.id \in scan[r].hits

\* What a search has yet to page through, and its hits with those of the page.
Ahead(r) == {e \in db.embeddings : /\ e.centroid \in scan[r].probe
                                   /\ e.id > scan[r].cursor}
Candidates(r) == scan[r].hits \cup {e.document : e \in Page(r)}

\* A wide search that such a document concerns.
Expected(r, d) == /\ pc[r] # "idle"
                  /\ req[r].kind = "search" /\ req[r].wide
                  /\ d.id \in since[r].acked

SearchOnTrack ==
  \A r \in Request : \A d \in db.documents : Expected(r, d) => OnTrack(r, d)
=============================================================================
