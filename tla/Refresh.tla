------------------------------- MODULE Refresh -------------------------------
(***************************************************************************)
(* The refresh of the centroids (server/centroids.go and                   *)
(* KMeansDivideAndConquer, dropSmallCentroids, recenterDbCentroid of       *)
(* dnc/dnc.go), run once by every process at its start, statement by       *)
(* statement, beside uploads and deletes.  The vector of a centroid is the *)
(* set of embeddings it is the mean of, {} for zero divided by zero and    *)
(* KMeansVector for one that K-means made.  Which embeddings it puts       *)
(* together (module Partitioning) and which centroid is the nearest to an  *)
(* embedding is any choice.                                                *)
(***************************************************************************)
EXTENDS Integers, FiniteSets, FiniteSetsExt, Functions

CONSTANTS
    Processes, Categories,
    Batch,          \* config.BATCH_SIZE_DATABASE
    Small,          \* config.CENTROID_SIZE / 10
    MaxId,          \* bound on the ids
    Stock           \* embeddings at the start, with category and centroid

Row == [id : 1 .. MaxId, category : Categories, centroid : 1 .. MaxId]

ASSUME RefreshAssumption ==
    /\ IsFiniteSet(Processes) /\ IsFiniteSet(Categories)
    /\ {Batch, Small} \subseteq Nat \ {0}
    /\ MaxId \in Nat
    /\ Stock \subseteq Row
    /\ \A x, y \in Stock : x.id = y.id => x = y
    /\ \A x, y \in Stock : x.centroid = y.centroid => x.category = y.category

VARIABLES
    postgres,       \* Provider is PostgreSQL: locks and foreign keys; fixed
    categories, embeddings, centroids,  \* the tables
    orphans,        \* ids of embeddings whose document is gone (SQLite)
    fresh,          \* the first id not handed out
    shared,         \* processes that hold the share lock of a category's row
    pc, todo, cat,  \* a process: statement, categories to come, the present one
    data,           \* ids of the embeddings in its data set
    held,           \* dbCentroids: rows as they were read or saved
    nearest,        \* ids of those that got one of the new vectors
    last,           \* key the scan of the embeddings has reached
    moves,          \* updateMap: where embeddings of the batch are to go
    found,          \* for each centroid to recentre, the embeddings read so far
    total,          \* embeddings it counted: the total of the bar of either scan
    current,        \* rows the bar of the present scan has been moved on by
    short,          \* a bar has been left short of its total
    deleted,        \* history: an embedding of its category has been deleted after
                    \* it counted them, before it had them scanned
    sound           \* history: since it locked the category, no other refresh
                    \* was at it and no write of its own failed

tables == <<categories, embeddings, centroids, orphans, fresh>>
bars == <<total, current, short, deleted>>
work == <<data, held, nearest, last, moves, found, total, current, short, deleted>>
vars == <<postgres, tables, shared, pc, todo, cat, work, sound>>

KMeansVector == {0}

Centroid == [id : 1 .. MaxId, category : Categories, mean : SUBSET (0 .. MaxId)]

Ids(rows) == {x.id : x \in rows}

\* The rows the join with the documents of a category yields.
Joined(c) == {e \in embeddings : e.category = c /\ e.id \notin orphans}
CentroidsOf(c) == {k \in centroids : k.category = c}
Under(k) == {e \in embeddings : e.centroid = k}

\* One batch of FindInBatches: by key, after the key of the batch before.
BatchAfter(rows, key) ==
    {e \in rows : e.id > key /\ Cardinality({f \in rows : key < f.id /\ f.id < e.id}) < Batch}

\* (mutant) Every batch is the last.
OneBatch(batch, key) == MaxId

\* The key after a batch; a short batch is the last, whatever comes later.
KeyAfter(batch, key) ==
    IF Cardinality(batch) < Batch THEN MaxId ELSE Max(Ids(batch))

Go(p, place) == pc' = [pc EXCEPT ![p] = place]

At(p, c) == pc[p] \notin {"list", "next", "end"} /\ cat[p] = c

\* The embeddings are counted, and not all scanned for the second time.
Counting(p) == pc[p] \in {"take", "read", "retrieve", "save", "scan"}

Init ==
    /\ postgres \in BOOLEAN
    /\ categories = Categories
    /\ embeddings = Stock
    /\ centroids = {[id |-> e.centroid, category |-> e.category,
                     mean |-> KMeansVector] : e \in Stock}
    /\ orphans = {}
    /\ fresh = Max({e.id : e \in Stock} \union {e.centroid : e \in Stock} \union {0}) + 1
    /\ shared = [c \in Categories |-> {}]
    /\ \E running \in SUBSET Processes :
         /\ postgres \/ Cardinality(running) = 1     \* a file has one process
         /\ pc = [p \in Processes |-> IF p \in running THEN "list" ELSE "end"]
    /\ todo = [p \in Processes |-> {}]
    /\ cat \in [Processes -> Categories]
    /\ data = [p \in Processes |-> {}]
    /\ held = [p \in Processes |-> {}]
    /\ nearest = [p \in Processes |-> {}]
    /\ last = [p \in Processes |-> 0]
    /\ moves = [p \in Processes |-> {}]
    /\ found = [p \in Processes |-> <<>>]
    /\ total = [p \in Processes |-> 0]
    /\ current = [p \in Processes |-> 0]
    /\ short = [p \in Processes |-> FALSE]
    /\ deleted = [p \in Processes |-> FALSE]
    /\ sound = [p \in Processes |-> FALSE]

(***************************************************************************)
(* RefreshCentroids                                                        *)
(***************************************************************************)
List(p) ==
    /\ pc[p] = "list"
    /\ todo' = [todo EXCEPT ![p] = categories]
    /\ Go(p, "next")
    /\ UNCHANGED <<postgres, tables, shared, cat, work, sound>>

ShareLock(p, c) == [shared EXCEPT ![c] = IF postgres THEN @ \union {p} ELSE @]

\* First with the lock.  The lock is a shared one: another refresh that holds
\* it is no obstacle.
Lock(p, c) ==
    /\ pc[p] = "next"
    /\ c \in todo[p] \intersect categories
    /\ todo' = [todo EXCEPT ![p] = @ \ {c}]
    /\ cat' = [cat EXCEPT ![p] = c]
    /\ shared' = ShareLock(p, c)
    /\ sound' = [r \in Processes |->
                   IF r = p THEN \A o \in Processes \ {p} : ~At(o, c)
                            ELSE sound[r] /\ ~At(r, c)]
    /\ Go(p, "count")
    /\ UNCHANGED <<postgres, tables, work>>

\* A category deleted since the listing ends the whole refresh.
CategoryGone(p) ==
    /\ pc[p] = "next"
    /\ ~(todo[p] \subseteq categories)
    /\ Go(p, "end")
    /\ UNCHANGED <<postgres, tables, shared, todo, cat, work, sound>>

\* NOWAIT: a delete is at the row, or waits for it.
LockRefused(p, c) ==
    /\ pc[p] = "next"
    /\ postgres
    /\ c \in todo[p]
    /\ todo' = [todo EXCEPT ![p] = @ \ {c}]
    /\ UNCHANGED <<postgres, tables, shared, pc, cat, work, sound>>

AllDone(p) ==
    /\ pc[p] = "next"
    /\ todo[p] = {}
    /\ Go(p, "end")
    /\ UNCHANGED <<postgres, tables, shared, todo, cat, work, sound>>

\* The lock is given back, and what the function had is gone.
Leave(p) ==
    /\ shared' = [shared EXCEPT ![cat[p]] = @ \ {p}]
    /\ data' = [data EXCEPT ![p] = {}]
    /\ held' = [held EXCEPT ![p] = {}]
    /\ nearest' = [nearest EXCEPT ![p] = {}]
    /\ last' = [last EXCEPT ![p] = 0]
    /\ moves' = [moves EXCEPT ![p] = {}]
    /\ found' = [found EXCEPT ![p] = <<>>]
    /\ total' = [total EXCEPT ![p] = 0]
    /\ current' = [current EXCEPT ![p] = 0]
    /\ short' = [short EXCEPT ![p] = FALSE]
    /\ deleted' = [deleted EXCEPT ![p] = FALSE]
    /\ sound' = [sound EXCEPT ![p] = FALSE]

Unlock(p) ==
    /\ pc[p] = "unlock"
    /\ Leave(p)
    /\ Go(p, "next")
    /\ UNCHANGED <<postgres, tables, todo, cat>>

\* A statement fails or the context ends: the lock is rolled back, what has been
\* written stays.
Fail(p) ==
    /\ pc[p] \in {"list", "next", "count", "take", "read", "retrieve", "save", "scan",
                  "drop", "centre"}
    /\ Leave(p)
    /\ Go(p, "end")
    /\ UNCHANGED <<postgres, tables, todo, cat>>

(***************************************************************************)
(* KMeansDivideAndConquer                                                  *)
(***************************************************************************)
Count(p) ==
    /\ pc[p] = "count"
    /\ total' = [total EXCEPT ![p] = Cardinality(Joined(cat[p]))]
    /\ Go(p, "take")
    /\ UNCHANGED <<postgres, tables, shared, todo, cat, data, held, nearest, last, moves,
                   found, current, short, deleted, sound>>

\* For the length of a vector any embedding will do.
Take(p) ==
    /\ pc[p] = "take"
    /\ embeddings # {}
    /\ Go(p, "read")
    /\ UNCHANGED <<postgres, tables, shared, todo, cat, work, sound>>

\* Not one in the whole database: an error, which ends the refresh.
NothingToTake(p) ==
    /\ pc[p] = "take"
    /\ embeddings = {}
    /\ Leave(p)
    /\ Go(p, "end")
    /\ UNCHANGED <<postgres, tables, todo, cat>>

\* (mutant) The bar is not told of the batch.
NotTold(p, batch) == current[p]

MovedOn(p, batch) ==
    IF current[p] + Cardinality(batch) < total[p] THEN current[p] + Cardinality(batch)
    ELSE total[p]

\* The progress bar of a scan.  One with a total above zero completes when it has
\* come that far and not before, whatever EnableTriggerComplete is called for when
\* the scan is over.
Progress(p, batch) ==
    /\ current' = [current EXCEPT ![p] = IF batch = {} THEN 0 ELSE MovedOn(p, batch)]
    /\ short' = [short EXCEPT ![p] = @ \/ (batch = {} /\ current[p] < total[p])]

\* A category without embeddings is left as it is, and nothing waited for.
Read(p) ==
    /\ pc[p] = "read"
    /\ LET batch == BatchAfter(Joined(cat[p]), last[p])
       IN  /\ data' = [data EXCEPT ![p] = @ \union Ids(batch)]
           /\ last' = [last EXCEPT ![p] = IF batch = {} THEN 0 ELSE KeyAfter(batch, @)]
           /\ Progress(p, batch)
           /\ Go(p, IF batch # {} THEN "read"
                    ELSE IF data[p] = {} THEN "unlock" ELSE "retrieve")
    /\ UNCHANGED <<postgres, tables, shared, todo, cat, held, nearest, moves, found,
                   total, deleted, sound>>

Retrieve(p) ==
    /\ pc[p] = "retrieve"
    /\ held' = [held EXCEPT ![p] = CentroidsOf(cat[p])]
    /\ Go(p, "save")
    /\ UNCHANGED <<postgres, tables, shared, todo, cat, data, nearest, last, moves,
                   found, bars, sound>>

\* (mutant) Rows are inserted, whatever is there.
Inserted(rows) == centroids \union rows

\* Rows written by key: over those that are there, else inserted.
Written(rows) == {k \in centroids : k.id \notin Ids(rows)} \union rows

\* n new vectors, at least one and no more than rows read: they go to rows that
\* were retrieved, then to new ones; rows left over are saved as they were.
Save(p) ==
    /\ pc[p] = "save"
    /\ \E n \in 1 .. Cardinality(data[p]) :
       LET old == Ids(held[p])
           new == fresh .. fresh + n - Cardinality(old) - 1
       IN  /\ fresh + n - Cardinality(old) <= MaxId + 1
           /\ \E ids \in SUBSET (old \union new) :
              /\ Cardinality(ids) = n
              /\ new \subseteq ids
              /\ LET rows == {[id |-> i, category |-> cat[p], mean |-> KMeansVector] : i \in ids}
                               \union {k \in held[p] : k.id \notin ids}
                 IN  /\ centroids' = Written(rows)
                     /\ held' = [held EXCEPT ![p] = rows]
              /\ nearest' = [nearest EXCEPT ![p] = ids]
           /\ fresh' = fresh + Cardinality(new)
    /\ Go(p, "scan")
    /\ UNCHANGED <<postgres, categories, embeddings, orphans, shared, todo, cat, data, last,
                   moves, found, bars, sound>>

\* The embeddings of a batch by the centroid they are nearest to, but for those
\* that are there already.
Groups(batch, to) ==
    {g \in {[to |-> k, ids |-> {e.id : e \in {f \in batch : to[f.id] = k /\ f.centroid # k}}] :
              k \in Range(to)} : g.ids # {}}

Scan(p) ==
    /\ pc[p] = "scan"
    /\ moves[p] = {}
    /\ LET batch == BatchAfter(Joined(cat[p]), last[p])
       IN  /\ last' = [last EXCEPT ![p] = KeyAfter(batch, @)]
           /\ Progress(p, batch)
           /\ \E to \in [Ids(batch) -> nearest[p]] :
                moves' = [moves EXCEPT ![p] = Groups(batch, to)]
           /\ Go(p, IF batch = {} THEN "drop" ELSE "scan")
    /\ UNCHANGED <<postgres, tables, shared, todo, cat, data, held, nearest, found,
                   total, deleted, sound>>

\* The groups are written side by side, each by a statement of its own.
Update(p, g) ==
    /\ pc[p] = "scan"
    /\ g \in moves[p]
    /\ moves' = [moves EXCEPT ![p] = @ \ {g}]
    /\ embeddings' = {IF e.id \in g.ids THEN [e EXCEPT !.centroid = g.to] ELSE e :
                        e \in embeddings}
    /\ UNCHANGED <<postgres, categories, centroids, orphans, fresh, shared, pc, todo, cat,
                   data, held, nearest, last, found, bars, sound>>

\* A group that cannot be written is logged and left where it was.
UpdateFails(p, g) ==
    /\ pc[p] = "scan"
    /\ g \in moves[p]
    /\ moves' = [moves EXCEPT ![p] = @ \ {g}]
    /\ UNCHANGED <<postgres, tables, shared, pc, todo, cat, data, held, nearest, last,
                   found, bars, sound>>

(***************************************************************************)
(* dropSmallCentroids, over the centroids of all categories.               *)
(***************************************************************************)
Counted == {k \in centroids : Under(k.id) # {}}

Total(k) == Cardinality(Under(k.id))

\* (mutant) The small ones, but for the last in the order.
TheSmall ==
    LET largest == CHOOSE k \in Counted : \A o \in Counted : Total(o) <= Total(k)
    IN  {k \in Counted : Total(k) < Small /\ k # largest}

\* Those in front of the first small one in ascending order: there are none.
Dropped ==
    {k \in Counted : /\ \E s \in Counted : Total(s) < Small
                     /\ \A s \in Counted : Total(s) < Small => Total(k) < Total(s)}

\* The embeddings of a dropped centroid would go to a place in the matrix, which
\* is not a key.
Drop(p) ==
    /\ pc[p] = "drop"
    /\ \E place \in {0} \union 0 .. Cardinality(Counted \ Dropped) - 1 :
         embeddings' = {IF e.centroid \in Ids(Dropped)
                        THEN [e EXCEPT !.centroid = place] ELSE e : e \in embeddings}
    /\ found' = [found EXCEPT ![p] = [k \in Ids(held[p]) |-> [upto |-> 0, ids |-> {}]]]
    /\ held' = [held EXCEPT ![p] = {}]
    /\ nearest' = [nearest EXCEPT ![p] = {}]
    /\ total' = [total EXCEPT ![p] = 0]
    /\ deleted' = [deleted EXCEPT ![p] = @ /\ short[p]]
    /\ Go(p, "centre")
    /\ UNCHANGED <<postgres, categories, centroids, orphans, fresh, shared, todo, cat,
                   data, last, moves, current, short, sound>>

(***************************************************************************)
(* recenterDbCentroid, for all rows held side by side.                     *)
(***************************************************************************)
Measure(p, k) ==
    /\ pc[p] = "centre"
    /\ found[p][k].upto < MaxId
    /\ LET batch == BatchAfter(Under(k), found[p][k].upto)
       IN  found' = [found EXCEPT ![p][k] = [upto |-> KeyAfter(batch, @.upto),
                                             ids  |-> @.ids \union Ids(batch)]]
    /\ UNCHANGED <<postgres, tables, shared, pc, todo, cat, data, held, nearest, last,
                   moves, bars, sound>>

Others(f, k) == [i \in DOMAIN f \ {k} |-> f[i]]

\* Zero divided by zero when the centroid has no embeddings.
Recentre(p, k) ==
    /\ pc[p] = "centre"
    /\ found[p][k].upto = MaxId
    /\ centroids' = Written({[id |-> k, category |-> cat[p], mean |-> found[p][k].ids]})
    /\ found' = [found EXCEPT ![p] = Others(@, k)]
    /\ UNCHANGED <<postgres, categories, embeddings, orphans, fresh, shared, pc, todo,
                   cat, data, held, nearest, last, moves, bars, sound>>

\* An error on the way is logged and the centroid left as it is.
RecentreFails(p, k) ==
    /\ pc[p] = "centre"
    /\ found' = [found EXCEPT ![p] = Others(@, k)]
    /\ sound' = [sound EXCEPT ![p] = FALSE]
    /\ UNCHANGED <<postgres, tables, shared, pc, todo, cat, data, held, nearest, last,
                   moves, bars>>

Completed(p) ==
    /\ pc[p] = "centre"
    /\ found[p] = <<>>
    /\ Go(p, "wait")
    /\ UNCHANGED <<postgres, tables, shared, todo, cat, work, sound>>

\* multibar.Wait() waits for every bar, with the lock.  The bars of other loops
\* have no total, or one they always reach.
Waited(p) ==
    /\ pc[p] = "wait"
    /\ ~short[p]
    /\ Go(p, "unlock")
    /\ UNCHANGED <<postgres, tables, shared, todo, cat, work, sound>>

\* The end of the context closes the bars; the next statement fails.
Shutdown(p) ==
    /\ pc[p] = "wait"
    /\ Leave(p)
    /\ Go(p, "end")
    /\ UNCHANGED <<postgres, tables, todo, cat>>

(***************************************************************************)
(* The others: modules Catalog and Cache have them in full.                *)
(***************************************************************************)
Upload(c) ==
    /\ c \in categories
    /\ LET new == IF CentroidsOf(c) = {}
                  THEN {[id |-> fresh, category |-> c, mean |-> KMeansVector]} ELSE {}
           id == fresh + Cardinality(new)
       IN  /\ id <= MaxId
           /\ fresh' = id + 1
           /\ centroids' = centroids \union new
           /\ \E k \in CentroidsOf(c) \union new :
                embeddings' = embeddings \union {[id |-> id, category |-> c, centroid |-> k.id]}
    /\ UNCHANGED <<postgres, categories, orphans, shared, pc, todo, cat, work, sound>>

\* SQLite does not follow the foreign keys: the embedding of the document stays.
DeleteDocument(e) ==
    /\ e \in embeddings
    /\ e.id \notin orphans
    /\ IF postgres THEN embeddings' = embeddings \ {e} /\ UNCHANGED orphans
                   ELSE orphans' = orphans \union {e.id} /\ UNCHANGED embeddings
    /\ deleted' = [p \in Processes |-> deleted[p] \/ (cat[p] = e.category /\ Counting(p))]
    /\ UNCHANGED <<postgres, categories, centroids, fresh, shared, pc, todo, cat, data,
                   held, nearest, last, moves, found, total, current, short, sound>>

\* PostgreSQL waits for the locks of the row.
DeleteCategory(c) ==
    /\ c \in categories
    /\ shared[c] = {}
    /\ categories' = categories \ {c}
    /\ IF postgres
       THEN /\ embeddings' = {e \in embeddings : e.category # c}
            /\ centroids' = {k \in centroids : k.category # c}
       ELSE UNCHANGED <<embeddings, centroids>>
    /\ UNCHANGED <<postgres, orphans, fresh, shared, pc, todo, cat, work, sound>>

Process(p) ==
    \/ List(p) \/ CategoryGone(p) \/ AllDone(p) \/ Unlock(p)
    \/ \E c \in Categories : Lock(p, c) \/ LockRefused(p, c)
    \/ Count(p) \/ Take(p) \/ NothingToTake(p) \/ Read(p) \/ Retrieve(p) \/ Save(p)
    \/ Scan(p) \/ Drop(p) \/ Completed(p) \/ Waited(p)
    \/ \E g \in moves[p] : Update(p, g) \/ UpdateFails(p, g)
    \/ \E k \in DOMAIN found[p] : Measure(p, k) \/ Recentre(p, k) \/ RecentreFails(p, k)

Users ==
    \/ \E c \in Categories : Upload(c) \/ DeleteCategory(c)
    \/ \E e \in embeddings : DeleteDocument(e)

Next == Users \/ \E p \in Processes : Process(p) \/ Fail(p) \/ Shutdown(p)

Spec == Init /\ [][Next]_vars

\* A process runs, and every statement comes to an end; that one fails, or the
\* process is shut down, nobody relies on.
FairSpec == Spec /\ \A p \in Processes : WF_vars(Process(p))

-----------------------------------------------------------------------------
\* Every variable has its type, and no two rows have one key.
TypeOK ==
    /\ postgres \in BOOLEAN
    /\ categories \subseteq Categories
    /\ embeddings \subseteq Row
    /\ centroids \subseteq Centroid
    /\ orphans \subseteq Ids(embeddings)
    /\ fresh \in 1 .. MaxId + 1
    /\ shared \in [Categories -> SUBSET Processes]
    /\ pc \in [Processes -> {"list", "next", "count", "take", "read", "retrieve", "save",
                             "scan", "drop", "centre", "wait", "unlock", "end"}]
    /\ todo \in [Processes -> SUBSET Categories]
    /\ cat \in [Processes -> Categories]
    /\ \A p \in Processes :
         /\ data[p] \subseteq 1 .. MaxId
         /\ held[p] \subseteq Centroid
         /\ nearest[p] \subseteq Ids(held[p])
         /\ last[p] \in 0 .. MaxId
         /\ total[p] \in Nat /\ current[p] \in Nat
         /\ moves[p] \subseteq [to : nearest[p], ids : (SUBSET (1 .. MaxId)) \ {{}}]
         /\ DOMAIN found[p] \subseteq 1 .. MaxId
         /\ \A k \in DOMAIN found[p] :
              found[p][k] \in [upto : 0 .. MaxId, ids : SUBSET (1 .. MaxId)]
    /\ {short, deleted, sound} \subseteq [Processes -> BOOLEAN]
    /\ \A x, y \in embeddings : x.id = y.id => x = y
    /\ \A x, y \in centroids : x.id = y.id => x = y

\* Whatever two refreshes that run at once, uploads and deletes do to a
\* category, each embedding is under a centroid there is, and of its category: a
\* search goes through the centroids of the category and no others.
Filed ==
    \A e \in embeddings :
      \E k \in centroids : k.id = e.centroid /\ k.category = e.category

\* A refresh that was alone at the category and could write all it wanted leaves
\* each centroid with the mean of what is under it, as far as the embeddings go
\* it began with: whatever was uploaded or deleted while it ran, no batch has been
\* left out, and nothing been measured before it was moved.
Centred ==
    \A p \in Processes :
      pc[p] \in {"wait", "unlock"} /\ sound[p] =>
        LET begun == data[p] \intersect Ids(embeddings)
        IN  \A k \in CentroidsOf(cat[p]) :
              k.mean \intersect begun = Ids(Under(k.id)) \intersect begun

\* Every refresh comes to its end, unless an embedding is deleted after it has
\* counted them and before it has scanned them twice: then it may wait for its bars
\* as long as the process lives.  Uploads, refreshes beside it, groups that cannot
\* be written and failing statements never make it.
RefreshEnds ==
    \A p \in Processes : <>[](pc[p] = "end" \/ (pc[p] = "wait" /\ deleted[p]))

=============================================================================
