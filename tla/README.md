# A verification of go-vectorsearch

go-vectorsearch is an HTTP server, written in Go, that stores JSON documents with
their embeddings in PostgreSQL or SQLite and answers nearest-neighbour searches. A
document belongs to a category, a category to an owner; the embeddings of a
category are grouped under centroids, so that a search needs to read only the
embeddings under the nearest ones. This directory holds TLA+ models of the
program, their checks by TLC and proofs about them checked by TLAPS.

Contents: 1 inventory, 2 modules, 3 the request path, 3b dividing a category's rows,
3c the cache, 3d the refresh of the centroids, 3e the web page, 3f the chat and the HTTP
clients, 4 runs, 5 proofs, 6 what the program does not keep, 7 not modelled, 8 plan.

## 1. Inventory

| Component | State | Operations | Hard parts | What makes it correct |
|---|---|---|---|---|
| Request path (`server/upload.go`, `search.go`, `delete.go`, `fetch.go`) | none of its own: rows held between database statements | upload, search, delete of an owner, a category, a document, listings | each handler is a sequence of statements with no transaction around them; handlers interleave at every one | answers stay inside the owner and category asked for; an acknowledged document can be found; a finished delete is not served |
| Cache (`cache/`) | three maps with an expiry, three read-write locks, three singleflight groups | fetch of an owner, a category, a centroid list; cleanup every 15 s | concurrent misses share one closure, and with it its error; entries outlive the rows | one fetch of a key at a time; an entry holds the row its key names |
| Schema (`database/`) | five tables | insert, select, delete | unique indexes and cascades are enforced by PostgreSQL only; reads go to replicas | keys are not reused; children go with their parent |
| Centroid refresh (`server/centroids.go`, `dnc/dnc.go`) | centroids and the centroid of each embedding | once per start: cluster the embeddings of each category, save centroids, refile embeddings, re-centre | runs beside uploads, searches and deletes, in several processes | no embedding is left under a centroid that is gone; the category's rows stay its own |
| Divide and conquer (`dnc/dnc.go`) | live-worker count, channel of centroids, slot queue, temporary files | split, recurse, send | the last worker closes the channel; workers wait for slots | each row reaches one leaf; one close, after the last send; it ends |
| K-means, data sets, sampling (`dnc/`) | arrays, temporary files | write, finalize, read, reset, sample, cluster | empty clusters and empty subsets | a sample has the asked size; as many centroids as asked |
| Chat (`server/chat.go`, `ai/*/chat.go`, `ui/src/api/chat.ts`) | a pipe, a reader and a goroutine for each request | load documents, read the provider's lines, relay characters, decode bytes | every part can fail or go away on its own; the pipe has no buffer; bytes arrive in any cut | what the row shows is a beginning of what was generated; nobody is left waiting |
| Formatting (`server/format.go`) | none | flatten, split | boundaries | no word is lost; no section exceeds the limit |
| Quantization, similarity (`compute/`) | none | quantize, dequantize, cosine | rounding at the ends of the range | round trip within one step |
| Providers (`ai/`, `ai/httpclient/`) | use counts of urls and of HTTP clients, the map of clients | choose a url, take a client, give both back; embed, generate, chat | a client is replaced while in use; counts and map are under locks of their own | no client is closed under a request; a count is the number of requests there |
| TLS (`config/config_tls*.go`) | certificates under locks | choose, reload | lock pairing | nobody waits for ever on a certificate |
| Life cycle (`main.go`) | contexts | start, stop | the refresh task is not waited for | every task ends |
| Web interface (`ui/`) | what the page shows: categories and the selected one, results and page number, files and text to upload, a summary per result | list, add, select and delete categories; search, page, delete a document; add and remove files, upload; ask for a summary | calls overlap and are answered in any order, and the user goes on meanwhile | spinners end; what a panel shows belongs to the category it names; no file is lost or sent twice |

Interactions. A handler calls the cache; the cache runs the handler's closure on a
miss, inside the singleflight, and the closure calls the database; afterwards the
handler calls the database itself. Reads carry `Clauses(dbresolver.Read)` and go to
replicas where the configuration names some; writes go to a primary. The deletes
never call the cache. The refresh task shares only the database with the handlers. The
page talks to the handlers by calls it does not cancel; its panels share the selected
category. A chat holds a url and a client of its provider for as long as the stream lasts.
`PROJECT.json` lists the components with the state of their modelling, and the
hazards, each at its line, with the properties that watch it.

## 2. Modules

| Module | What it holds |
|---|---|
| `Database` | the row types of `database/model.go`, and insert and delete with the constraints |
| `Catalog` | the request path over `Database`, a replica and the cache |
| `CatalogInvariant` | the inductive invariant behind `Isolation` and `EmbeddingsAgree` |
| `CatalogProofs` | theorem: type correctness of `Catalog` |
| `CatalogSafetyProofs` | theorems: `Isolation` and `EmbeddingsAgree` |
| `CatalogAnswers` | the inductive invariants behind `OneInitialCentroid`, `DeletedNotServed`, `AckedSearchable` and `CompleteSearch`, and the deployments they hold in |
| `CatalogAnswersProofs` | theorems: these four |
| `MCCatalog` | values of `Catalog`'s constants for TLC |
| `Partitioning` | abstract: rows are divided into sets until they are small, each gives one centroid |
| `DivideAndConquer` | `divideNconquer` and its caller, goroutine by goroutine |
| `DivideAndConquerProofs` | theorems: the goroutines implement `Partitioning`, and the channel is closed by the last |
| `MCDivideAndConquer` | symmetry of the rows |
| `Memo` | abstract: an answer is fetched once at a time and not while one is at hand |
| `Cache` | the fetch functions and the cleanup task, lock by lock and map access by map access |
| `CacheProofs` | theorems: the cache implements `Memo`, and what the locks guard |
| `MCCache` | the questions of the instances |
| `Refresh` | the refresh of the centroids, statement by statement, in several processes, beside uploads and deletes |
| `RefreshProofs` | theorems: types, `Filed`, `Centred`, and what can keep a refresh waiting |
| `MCRefresh` | the stock of embeddings of the instance |
| `App` | the page's shared state, its mount effect and the server as the page sees it |
| `CategoryPanel`, `SearchPanel`, `ContentPanel` | the three panels over `App`, with the calls of `ui/src/api` each makes |
| `WebPage` | the panels together, and the properties of the page |
| `WebPageProofs` | theorems: types, `SelectedKnown`, `WalkIsComplete`, `SpinnerMeansSearch`, `HitsBelong`, `FilesKept`, `SentOnce` |
| `MCWebPage` | documents, rankings and names of the instance |
| `HttpClients` | the choice of a url and the life of the HTTP clients |
| `ChatStream` | a summary, from the button through handler, pipe and goroutine to the provider and back, over `HttpClients` |
| `ChatStreamProofs` | theorems: types, clients, counts, and what a row shows |
| `MCChatStream` | the instance |

`Catalog` composes `Database` and the cache at the grain of database statements, where
a look-up is one step. `Cache` takes the same code apart at the grain of locks, and
`Memo` is what the two have in common: `Catalog` assumes of its entries only that a key
is fetched by one leader at a time and that an entry may go at any moment. `Refresh`
takes uploads and deletes at the grain of their effect on centroids and embeddings
(`Catalog` has their steps) and leaves to any choice how the rows of a category are put
together (`DivideAndConquer` has that). `WebPage` composes the panels; its server
executes each call in one step, of which `Catalog` has the parts.

## 3. The request path

`Catalog` runs a fixed set `Request` of client requests. `May[r]` is the set of
operations a request may turn out to be, `After[r]` the requests whose answers its
client has waited for, `At[r]` the process that serves it. `Arrive` chooses the
names, for a search whether it asks for all centroids or for the nearest one, and
for a document delete the document.

| State | In the code |
|---|---|
| `db`, `replica` | the tables of the primary, and as far as the replica has applied them |
| `cache` | unexpired entries of the three maps of a process, tagged with the stage they belong to |
| `pc` | the statement a handler is about to make. A stage name, `owner`, `category` or `centroids`, means it is inside that cache call |
| `flight`, `got` | its part in a singleflight: it waits, or leads and is about to read, create or save; and what its closure has obtained |
| `held` | the variables `owner`, `category` and `centroids` of the handler, as sets of rows |
| `docs` | the ids the database gave an upload's documents |
| `scan` | a search's probed centroids, the key its batch scan has reached, its nearest documents |
| `shown` | the rows in the answer |
| `since` | history: the documents that existed and were acknowledged on arrival |

One action is one statement or one call. `Join`, `Hit` and `Lead` are the entry to
the singleflight: the code looks at the map inside the flight, so a caller that
finds no flight runs the closure, whose lookup and return take no other step;
`Hit` is that whole flight when the entry is valid, and `Lead` its start when it is
not. `Read`, `Create` and `Save` are the closure's query, its insert and the write
to the map, and `Deliver` or `Refuse` hand the result to the leader and all who
joined. `SaveDocuments` and `SaveEmbeddings` are the two inserts of an upload;
`Probe`, `ScanPage` and `FetchDocuments` the three parts of a search.

What is abstracted. Vectors, texts and names are not there: the nearest centroid of
an embedding, the nearest centroid of a query and the best documents of a page are
any choice of the right size, so what is checked holds for every similarity. Time is
not there: an entry may expire at any moment (`Expire`), sooner or later than the
five seconds of `CACHE_DURATION`. Primary keys come from one counter for the five
tables; the code never compares keys of two tables.

Three details of GORM the model depends on: a `Find` with an empty list of ids has
no WHERE clause and loads every document (`FetchDocuments`); `Take` on a struct with
a primary key adds that key to the condition (`TakeCategory`); `Find` reports no
error for an empty result while `Take` does (`Read`).

### Properties

| Property | States | What could go wrong |
|---|---|---|
| `Isolation` | a search shows only documents uploaded under its own owner and category names, a listing only categories uploaded under its owner's name | cached keys of deleted rows, recreated names, orphans that SQLite leaves, a replica that lags |
| `EmbeddingsAgree` | an embedding is filed under a centroid of its document's category | a centroid list shared by key among concurrent uploads |
| `AckedSearchable` | a stored document of an acknowledged upload has all its embeddings, under centroids that exist | two inserts without a transaction, deletes between them |
| `CompleteSearch` | a search over all centroids finds what was acknowledged before it arrived | a centroid list older than a concurrent upload's insert |
| `DeletedNotServed` | what was deleted before a search arrived is not a hit | cached owner, category and centroids outlive the rows |
| `OneInitialCentroid` | one process gives a category one initial centroid | check and insert are two statements; a failed leader's insert may have happened |
| `Answered` | every request is answered | a caller waits for a leader; a scan pages for ever |

`AckedSearchable` holds in every deployment; three of the others are promises of some only.
The theorems (section 5) name the conditions by operators of `CatalogAnswers`, the
instances that check the properties satisfy them, and TLC refutes each property when one of
its conditions is dropped:

| Property | Holds with | Otherwise |
|---|---|---|
| `DeletedNotServed` | `ForeignKeys`, no lagging replica | a deleted document's embeddings stay to be scanned, or the replica still has them |
| `OneInitialCentroid` | `OneServer`, no lagging replica | two processes, or one that does not see its own insert, both find nothing and create |
| `CompleteSearch` | all of these, and `Roomy` | a second process goes on with a list cached before the upload; the limit cuts hits off |

`CompleteSearch` is a promise of the request path alone: the refresh task, which
refiles embeddings, is not part of `Catalog`.

Fairness. `FairSpec` asks for weak fairness of the steps of each request, `Step(r)`:
the Go scheduler runs every goroutine that can run, and a database call returns.
Arrivals, expiry, failures, crashes and replication are not fair: `Answered` does
not need them. `Step(r)` is disabled while `r` waits in a flight, so the property
rests on the leader's steps.

## 3b. Dividing a category's rows

`KMeansDivideAndConquer` (dnc.go) starts one goroutine with all rows of a category and
ranges over a channel until it is closed. A goroutine takes a slot, finds its rows few
enough (or the context over) and sends their mean, or splits them by k-means and starts
a goroutine for each part. Its deferred function gives the slot back, discounts it, and
closes the channel if it was the last.

| State | In the code |
|---|---|
| `at` | where each goroutine of `divideNconquer` is; its name is the path from the first one |
| `rows`, `parts` | its data set, and those it has written and not yet handed on |
| `queue`, `concurrent`, `Y` | the semaphore, the atomic counter, the unbuffered channel |
| `centroids`, `caller` | what the loop at dnc.go:132 has received, and whether it has ended |
| `cancelled`, `process` | the context; whether a panic has stopped the process |

A vector is not there: a centroid is the set of rows it is the mean of, and `Split`
assigns rows to the centroids of a sample in any way. `EmptyLevels` bounds the depth at
which a centroid may be the nearest of no row: 0 excludes it, 1 allows it for the first
split. It can happen with equal vectors, and with rows outside the sample it can happen
for other reasons as well.

| Property | States | What could go wrong |
|---|---|---|
| `ClosedByTheLast` | when the channel is being closed or is closed, every other goroutine has ended | a send on, or a second close of, a closed channel stops the process; only the order of the counter's updates prevents it |
| `EveryRowOnce` | when the caller goes on, its centroids stand for a partition of the rows, in sets no larger than asked unless the context ended | a part not started, a batch's last rows not written, a leaf sent twice |
| `ImplementsPartitioning` | the goroutines implement `Partitioning` | the same, at every step on the way |
| `Terminates` | the caller gets the end of the channel, or the process has panicked | goroutines with a slot start others that need one, and send on a channel without a buffer |

Fairness: weak fairness of `Work`, the disjunction of all steps of goroutines and
caller: the scheduler runs something while something can run. No goroutine is promised
a slot before another, and none needs it. Rows are finitely many and with `EmptyLevels`
bounded a split makes its parts smaller, so the run is finite.

## 3c. The cache

`Catalog` treats a look-up as one step. `Cache` is the code below that: the three maps,
their read-write locks, time, and the cleanup task.

| State | In the code |
|---|---|
| `now`, `map` | the clock, and the expirations of the items in the three maps |
| `lock` | `ownerLock`, `categoryLock`, `centroidsLock`: who is inside |
| `pc`, `ask`, `found` | a caller's place in the closure, map and key it is about, what it has looked up |
| `cleaner` | the cleanup task: which map, which keys it has still to visit, the key it deletes, the time it read on waking |
| `process` | up, or stopped by the runtime |

A map access takes time: it lies between two steps (`reading`, `writing`, `sweep`,
`delete`), so two of them can overlap, and `Fatal` is the runtime's answer, which it may
or may not give. Two libraries are modelled by what they do. singleflight: a caller whose
question is in flight waits at `join` and returns with the one that runs. RWMutex: a
writer shuts out other writers and new readers (`Lock`, `LockMap`) and then waits for
the readers inside to leave (`Drain`, `DrainMap`). The first half matters: without it
two handlers that keep reading the owners would keep the cleanup task out for ever.

| Property | States | What could go wrong |
|---|---|---|
| `OwnerGuarded` | no access to the map of owners overlaps a write to it | a lock left out, or another map's |
| `HandlersGuarded` | on all three maps, an overlap involves the cleanup task | the same among the handlers |
| `FreshOwnersStay` | no step takes an owner out that has not expired | the cleanup task reads the time before it waits for the lock, and looks before it deletes |
| `ImplementsMemo` | a question is fetched by one caller at a time and not while an answer is at hand | the item is judged after the lock is given back |
| `Answered`, `SweepsEnd` | every call returns and every sweep ends | callers wait for locks, for each other and for the cleanup task |

Fairness: weak fairness of what a goroutine does by itself, strong fairness of getting
past the writers at a lock. The second is what `sync.RWMutex` gives: a writer that leaves
lets all waiting readers in before the next one, and among writers a mutex in starvation
mode is handed over in order. Asking, waking, the clock and `Fatal` are not fair. `Fetched` or
`Failed` happens: a query returns or its context ends.

## 3d. The refresh of the centroids

Every process goes once, at its start, through the categories it finds
(`RefreshCentroids`, centroids.go). On PostgreSQL it holds a share lock on the
category's row meanwhile. For each category `KMeansDivideAndConquer` reads the
embeddings into a file, makes new vectors of them, reads and overwrites the centroids,
refiles the embeddings batch by batch, looks for small centroids, and re-centres the
ones it has saved. At the end it waits for the progress bars it has shown meanwhile,
with the lock (dnc.go:294).

| State | In the code |
|---|---|
| `categories`, `embeddings`, `centroids`, `orphans` | the tables; an embedding whose document is gone stays on SQLite, and the join leaves it out |
| `shared` | who holds the share lock of a category's row |
| `pc`, `todo`, `cat` | the statement a process is at, the categories to come and the present one |
| `data`, `held`, `nearest` | its data file, the `dbCentroids` it has read or saved, and those among them that got a new vector |
| `last`, `moves` | the key the batch scan has reached, and the groups of the batch not yet written |
| `found` | for each centroid to re-centre, how far its scan is and what it has read |
| `total`, `current`, `short` | what it has counted (dnc.go:38), how far the bar of the present scan has come, and whether a bar has been left short of its total |
| `deleted` | history: an embedding of its category was deleted after the count and before the end of the second scan |
| `sound` | history: no other refresh was at the category since it was locked, and no write of the refresh failed |

The vector of a centroid is the set of embeddings it is the mean of, so that `Centred`
can say that a mean is right; the nearest centroid of an embedding is any of those with
a new vector. `Users` are an upload that files an embedding under a centroid it has read,
and the deletes of a document and of a category; a category's delete waits for the share
locks on PostgreSQL and nothing else does.

The bars are modelled by what mpb does. A bar with a total above zero completes when it
has been moved on that far and at no other time: `EnableTriggerComplete`, which is called
after each scan, completes one that is there already and otherwise does nothing. A bar
with total zero has none until then, and completes. `multibar.Wait()` returns when all
have, or at the end of the context. Of the bars of a refresh only the two whose total is
the count (dnc.go:81, 182) can be left short; the others have no total, or, in
`divideNconquer`, the number of rows in a file that nobody else writes.

| Property | States | What could go wrong |
|---|---|---|
| `Filed` | each embedding is under a centroid there is, of its own category | two refreshes overlap, each saving rows the other has read; a delete between reading and saving; a small centroid dropped and its embeddings filed under a place in a matrix (dnc.go:538) |
| `Centred` | a refresh that was alone and could write all it wanted leaves each centroid with the mean of what is under it, among the embeddings it began with | a batch skipped because rows are moved while they are scanned; a centroid measured before the moves are over |
| `RefreshEnds` | every refresh comes to its end, unless an embedding was deleted between its count and its second scan: then it may wait for its bars as long as the process lives | a batch scan whose key does not move on, while uploads add rows behind it; a bar that is not told of a batch, or is left short by anything but such a delete |

Fairness: weak fairness of `Process(p)`: the process runs, and the database answers a
statement. Failures (`Fail`) and the end of the context (`Shutdown`), which would end a
refresh too, are not fair, so no refresh owes its end to them. Users are not fair.

## 3e. The web page

React runs a handler to its end before the next event, so a handler is one action. A
call to the server is sent by it, executed (`Serve…`, `…Reaches`) and answered
(`…Answered`, `Answer`) in steps of their own, or fails (`…Fails`), in any order with
other calls and with what the user does.

| State | In the code |
|---|---|
| `categories`, `category`, `listings` | the state of `App` and the calls of its mount effect |
| `stored`, `known` | the server: documents with their category, and the categories |
| `ranking` | the server's index: for a query, the documents with an embedding under the centroid nearest to it, by how near they come |
| `categoryDeletes`, `documentDeletes`, `uploads` | calls sent and not executed |
| `searchQuery`, `searchResults`, `searching`, `currentPage` | the state of `Search` |
| `searches` | its calls, with what each asked and, once executed, the answer |
| `uploadedFiles`, `directText`, `uploading` | the state of `Content` |
| `jobs` | calls of `handleProcessFiles` that are decoding |
| `asked`, `seen`, `calm`, `crossed`, `removed`, `used`, `discarded`, `late`, `sent` | history, for the properties |

A page of results is a set: nothing on the page depends on the order in it. The page
names no number of centroids in its searches (Search.tsx:31-38), and the server then
searches under the nearest one (search.go:118-119, 202-227). So `Hits` are the documents
of the category that `ranking` reaches, not all there are, and no walk through the pages
shows the others. A refresh, or a list of centroids that expires in the cache, changes
what is reached and in which order while the documents stay (`Refile`). Two documents
equally near to a query are left out: `slices.SortFunc` is not stable, and in which order
two searches have them nobody promises. The effect of `Search` on `category` (clear the
results) is part of each step that changes the category (`CategoryEffect`).

| Property | States | What could go wrong |
|---|---|---|
| `SpinnerMeansSearch`, `SpinnerStops` | the spinner turns only while a search is in flight, and it stops | overlapping searches share one flag |
| `WalkIsComplete` | pressing Next to a page has shown every document up to it that the search reaches, when documents and index stayed as they were and every search was answered | the offset of a page; Next pressed before the answer is there |
| `HitsBelong` | hits on the screen and still to come are of the selected category, unless a search was in flight when it changed | a delete is sent with the category selected now (Search.tsx:64); the server ignores one that does not match |
| `SelectedKnown` | the selected category is on the list, or is one the user has deleted | the listing overwrites a list that was changed meanwhile; an empty listing selects nothing |
| `FilesKept` | a file that was added is on the list, carried by an upload, taken off by the user, or was added during decoding | the list is replaced, or cleared after awaits during which it changes |
| `SentOnce` | no document goes out in two uploads | the files stay on the list while they are decoded |
| `UploadEnds` | the upload button comes back, unless a file is broken | the spinner is cleared only after the last await |

Fairness: the browser settles every search it has sent, with an answer or an error, and
a decoder of a sound file ends. Users and the other calls are not fair.

## 3f. The chat and the HTTP clients

The button under a result asks for a summary. `Chat` (api/chat.ts) reads the body of the
answer piece by piece; the handler (server/chat.go) copies character by character from a
pipe; a goroutine (`ChatStream` of `ai/ollama` and `ai/openai`) writes to the pipe what
each line of the provider's stream carries. It holds a url of the provider and an HTTP
client all the while.

| State | In the code |
|---|---|
| `summaryEnabled`, `loading`, `summary` | the row (`Result` of Search.tsx) |
| `received` | bytes the browser has read; a character has two |
| `handler`, `relayed`, `empties` | `ChatHttp`: where it is, what it has written, and how many empty reads in a row its `bufio.Reader` has counted |
| `goroutine`, `line`, `pipe` | that of `ChatStream`, the character it is writing (0 for a line without one), its end of the pipe |
| `generated`, `provider`, `hangs` | what the provider has generated, how it ended, and whether it may stop without a word |
| `broken` | the connection between browser and server |
| `connections` | `Provider`: requests at each url |
| `clients`, `instances` | `ClientManager`: the client of a host, and all there ever were with their counts |
| `at`, `url`, `client` | where a request is between `Url` and its `done`, and what it holds |

An action of `HttpClients` is what a goroutine does under one lock: `LookUp` reads the
map, `Admit` counts the request under the lock of the instance, and in between the
instance may be closed or replaced. A write to the pipe and the read that takes it are
one step (`Relay`); a write nobody takes waits until the handler closes its end
(`WriteReleased`). `Embed` stands for the other requests to a provider, which take a
client and give it back.

| Property | States | What could go wrong |
|---|---|---|
| `NeverClosedInUse` | no client is closed while a request uses it, and none is admitted to a closed one | the counts are looked at some time after the map was |
| `Balanced` | a url's count is the number of requests that hold it | four ways out before the stream begins (openai/chat.go:122), several inside, each with a url and a client to give back |
| `ShownIsGenerated` | a row shows a beginning of what was generated, in order, with an error after it or in its place | chunks that end inside a character; two attempts that mix |
| `WholeAnswer` | a row that has stopped and shows no error shows all, when the provider said it was done | the last line carries text; the pipe is closed before it was read |
| `LoadingEnds` | the row stops loading if the provider does not hang | an error path that leaves it on |
| `NothingLeftBehind` | when handler or connection is gone, the goroutine ends and has given back its url and its client, even if the provider hangs | a write to a pipe nobody reads |

Fairness: weak fairness of the browser, of the handler and of the goroutine; of the
provider unless the chat is in `hangs`; and of giving up a request whose context has
ended (`Cancelled`), which net/http does whatever the provider does.
## 4. Runs

| Run | Instance | Shows |
|---|---|---|
| `catalog_core` | upload, search, and a search or any delete; one owner and category; foreign keys | `TypeOK`, `AckedSearchable`, `DeletedNotServed`, `CompleteSearch` |
| `catalog_sqlite` | two uploads into two categories, the owner's deletion, then a search; no foreign keys, and a replica that lags | `Isolation`, `EmbeddingsAgree` |
| `catalog_faults` | an upload and any other request, each call may fail, the process may crash, fair | `OneInitialCentroid`, `Answered` |
| `catalog_not_found_shared`, `catalog_empty_centroids` | an upload and a search | counterexamples, section 6 |
| `divide` | three rows down to single ones, two slots, an empty part possible in the first split, the context may end, fair | `TypeOK`, `ClosedByTheLast`, `EveryRowOnce`, `Terminates`, `ImplementsPartitioning` |
| `divide_empty` | the same | counterexample, section 6 |
| `cache` | two callers, two owners and a category, the cleanup task, two ticks of the clock, fair | `TypeOK`, `OwnerGuarded`, `HandlersGuarded`, `FreshOwnersStay`, `ImplementsMemo`, `Answered`, `SweepsEnd` |
| `cache_unguarded` | two callers, a category and a centroid list | counterexample, section 6 |
| `refresh` | two processes on PostgreSQL, or one on SQLite; one category with two embeddings, batches of two, uploads and deletes, fair | `TypeOK`, `Filed`, `Centred`, `RefreshEnds` |
| `web_page` | three documents in two pages, two queries, three categories, a sound and a broken file, a text; an index that reaches all documents or some; five things the user does or the index changes, fair | `TypeOK`, `SpinnerMeansSearch`, `WalkIsComplete`, `HitsBelong`, `SelectedKnown`, `FilesKept`, `SentOnce`, `SpinnerStops`, `UploadEnds` |
| `chat` | a row, asked twice, up to three lines; another request to the provider; clients for two requests; a provider that may hang, fair | `TypeOK`, `NeverClosedInUse`, `Balanced`, `ShownIsGenerated`, `WholeAnswer`, `LoadingEnds`, `NothingLeftBehind` |

Bounds. Two uploads are the fewest that race to create a row; one search or delete
beside them is the fewest that shares a flight with them; two categories are the
fewest that can be confused. `Docs` is 1 and `Sections` 1, or 2 in `catalog_faults`,
where `Batch` 2 makes a scan over one document's two embeddings read a second, empty
page. `Limit` 3 keeps every candidate. Category names are symmetric in
`catalog_sqlite`, as nothing in the specification or in the properties tells them apart.
In `catalog_core` no call fails and a document has one section: what the run shows of
`AckedSearchable` is the deletes between the two inserts. That a failure between them is
never acknowledged, and that all of several sections are there, is the theorem
`AckedSearchableHolds`.
Several processes at one database are not among the instances of `Catalog`: the theorems
cover them.

For `DivideAndConquer`, three rows split in two give a second and, behind an empty part,
a third level of goroutines, and two slots are fewer than the goroutines that want one.
For `Cache`, two callers are a leader and one who joins, or two with different keys in
one map (`Asks` lets the second ask for one owner only, which keeps the instance small);
an item lasts `Duration` = 1 tick and is expired and dropped at the third (`MaxTime` = 3;
4 in the counterexample, where two items follow each other).

For `Refresh`, two processes are the fewest that share the lock; with `Batch` 2 the stock
is a full batch, after which the scan must go on, and an upload behind it is a second
one; `MaxId` 4 leaves one id for a new centroid or an upload beside the two embeddings
and their centroid. `Small` 2 makes both a small and a large centroid possible.

For the page, two documents to a page of the three give a full page and a short one. One
of the two rankings reaches all documents, the other leaves one of the three out under
either query, so that the pages hold fewer documents than the category. `MaxEvents` 5
counts what the user does and the changes of the index together: a walk to the second
page and back with a search, a change of category, a delete or a refresh between, or three
files and two presses of the upload button. `Mounts` is 1, as in the built page (React runs the mount
effect twice only while developing). For the chat, `MaxLines` 3 gives a character, an empty line and
a last one in every order, `MaxEmpty` 2 (100 in bufio) makes its reader give up, and
`MaxRequests` 2 makes a client close under a second request and a third find another.

`Quiet`, `Over` and `Dead` are what is left to do after the last answer in `Catalog`,
`DivideAndConquer` and `Cache`: nothing stops for good there, and deadlock is checked.
`refresh`, `web_page` and `chat` come to an end when the refreshes have run, the ids or
the bound on events and tries are used up and everything is answered; deadlock is not
checked in them, and their liveness properties say that what must happen has happened
by then.

## 5. Proofs

Eight modules hold theorems; each extends the module it is about, and the model checker
never reads them. Every invariant and every action or refinement property of a passing
run is a theorem. The induction is the same everywhere: an inductive invariant, a lemma
per action that the action keeps it, and the theorems from it. The inductive invariants
were checked by TLC on small instances of the modules before they were proved.

What the proofs assume of the constants is in the ASSUMEs of the modules and no more:
`Catalog` is proved for any number of requests, processes, names, documents, sections
and pages, for `Enforced` and `Replicas` either way, and for any operations that may
fail or processes that may crash.

`CatalogProofs`: `TypeCorrect`, `Spec => []TypeOK`. `TypeOK` alone is not inductive.
That a cache key is a sequence of names and ids needs an owner in hand at the category
stage (`InOrder`: what a handler holds at each of its statements), and that it has one
needs cached and fetched owners and categories to be there (`NeverNothing`).

`CatalogSafetyProofs`: `EmbeddingsAgreeHolds` and `IsolationHolds`. The code keeps rows
in the primary, the replica, the caches, closures and handlers, and deletes from the
first only, so the argument is about copies: a primary key stands for one row wherever
a copy is (`OneRowPerKey`), a row answers the question it is filed under (`RowsMatch`),
and it can be traced to the upload behind it (`RowsTraced`, `HitsTraced`,
`ShownTraced`, with `IdsApart` so that an id names one upload). `Search` reads
embeddings by centroid id and documents by document id, with no condition on the
category; what makes that sound is that a shown document leads back to an upload that
held a centroid the search holds too, hence the same category row, hence the same owner.
Caches, replica and missing cascades need no case of their own.

`CatalogAnswersProofs`: `OneInitialCentroidHolds`, `DeletedNotServedHolds`,
`AckedSearchableHolds` and `CompleteSearchHolds`, for any number of requests, names,
documents and sections, any operations that may fail and processes that may crash. The
deployments they need are hypotheses (`OneServer`, `ForeignKeys`, `~Lagging`, `Roomy`),
as the table in section 3 has them; the instances of `catalog_core` and
`catalog_faults` satisfy them. The arguments build on each other:

- `OneInitialCentroid` needs only that a key has one leader (`OneLeader`) and that no one
  else creates its row while the leader is between look-up and insert
  (`NothingToCreate`): `FetchInv`. This is what singleflight gives one process, and not two.
- `AckedSearchable` needs no condition. It rests on `OwnEmbeddings`: an upload's documents
  have no embeddings before the second insert, and all of them after it, since the
  insert succeeds or fails as a whole. With enforced foreign keys it fails if a document
  or centroid has gone, rows have their parents (`Intact`), and a delete takes an embedding only with its
  document: a centroid goes with its category, and the document is of the same category.
  Without them no centroid goes, so that any copy of one is stored (`CentroidsStay`).
- `DeletedNotServed` says of a hit that it was live on arrival or is newer. A cached list
  may name rows that are gone, but a scan reads embeddings, and of these only those whose
  document is there (`Intact`); so it is enough that what is stored was live on arrival
  or came later (`LiveOrNew`), since keys are not reused.
- `CompleteSearch` has to exclude that something is missing from a list, where the others
  have to exclude that something is left in one. `CacheCurrent` and `GotCurrent` say that
  what is cached, or about to be, contains every stored row of its key: a row can be added
  only by the key's own leader, who ran because nothing was cached (`LeaderMissed`). So
  an entry may be so old that it has a deleted row and never so old that it lacks a live one.
  `AckedMeans` leads from what was acknowledged to the upload, and `SearchOnTrack` follows
  such a document through the search's statements: its category, its centroids, the
  embeddings behind the key of the scan, the hits. `Roomy` enters where a page is cut to
  `Limit` hits.

`DivideAndConquerProofs`: `TypeInv`, `ClosedByTheLastHolds`, `EveryRowOnceHolds` and
`Refinement`, the goroutines implement `Partitioning`. `Counted` says that the two
counters count goroutines: a parent counts a child before it discounts itself, so the
count is zero only when nobody is left (`LastCloses`). `Named` keeps the names of
goroutines apart, which the model needs and the code has for free. `OnePlace`,
`SomePlace` and `Sized` say that a row is in one place, in the hands of a goroutine or
behind a centroid. Under the refinement `open` is the sets in somebody's hands; a split
and the starts of its parts are then one step of `Partitioning` and stutters.

`CacheProofs`: `TypeInv`, `OwnerGuardedHolds`, `HandlersGuardedHolds`,
`FreshOwnersStayHolds` and `Refinement`, the cache implements `Memo`. `LockHolders` ties
each lock to the places of callers and cleanup task, and says that whoever writes is
in it alone, `OneRuns` is what singleflight
gives, `LookupHolds` says that what a caller has looked up stays so until it acts on
it, except for being cleaned away, and `DropsExpired` that the cleanup task deletes an
owner that has expired. The refinement needs no lock around the maps: what
`MapsGuarded` lacks can stop the process, but cannot make the cache lie.

`WebPageProofs`: `TypeCorrect`, `SelectedKnownHolds`, `WalkIsCompleteHolds`,
`SpinnerMeansSearchHolds`, `HitsBelongHolds`, `FilesKeptHolds` and `SentOnceHolds`, for any documents,
rankings, page size and number of events. `SpinnerMeansSearch` holds because any answer, of whichever search, puts the flag out. `HitsBelong` needs that
results on the screen are there only for the category that is selected, because every
step that changes it clears them. `FilesKept` and `SentOnce` rest on there being one job
at a time, whose files are on the list, off it by the user's hand, or not yet sent, and
on files and texts being different documents. That sets of files stay finite, which their
types need, is part of the same invariant. `SelectedKnown` needs only the types: the
answers to the mount effect select from the list they fill, and a category that stays
selected when it is deleted is in `removed`. `WalkInv` says
that, while nothing disturbs the walk, every page up to the current one has been shown
or is coming (`AskedPage`, `Coming`): Next is pressed only from a page that is shown or
coming, and it sends for the page it goes to. When nothing is under way
any more, all of them have been shown, and each document the search reaches has a
place, since no two of them come equally near, and so a page among them (`PageNumber`,
`WalkEnds`). A step that changes the index ends `calm`, like one that changes the documents. The list without a category is `Without` in `App`, a function on
places: the provers know nothing of `SelectSeq`.

`ChatStreamProofs`: `TypeCorrect`, `NeverClosedInUseHolds`, `BalancedHolds`,
`ShownIsGeneratedHolds` and `WholeAnswerHolds`. `HInv` ties the counts of an instance and
of a url to the sets of requests that are there, and says that a closed instance has no
user and no room, so that `Admit`, however late, turns the request away. `Row` ties what
a row shows to what the handler has relayed (`received` halved, the first of them) and
that, in `Relayed`, to what was generated: all of it, or all but the character in the
goroutine's hands, or a beginning with an error at its end. A chat that is asked for
again begins with nothing, which needs the goroutine of the last one to be gone:
`Relayed` says so, since an empty answer without an error is the only one that may be
asked for again.

`RefreshProofs`: `TypeCorrect`, `FiledHolds`, `CentredHolds` and `HeldUpByDeletion`, for any number of processes and
embeddings and any batch size, on PostgreSQL and on SQLite. `FInv` says what a process
has in hand: the centroids it holds are there and of its category (`Mine`), and the
embeddings it is about to move are of that category or gone (`MovesMine`), so a move
can only lead to a centroid of the same category. That nothing takes them away in
between is `Locked` on PostgreSQL, where a delete of the category waits, and the
missing cascade on SQLite. `NoneDropped` is why the statement that would file
embeddings under a place in a matrix (dnc.go:538) does no harm: its loop looks for a
small centroid with fewer embeddings than itself. The other refreshes count as any
other writer (`Benign`): they write rows of a category over rows of that category. The
stock is assumed to be what the tables allow, one row per key and no centroid shared by
two categories.

`CentredHolds` needs more, since `FInv` says only where embeddings are and not what has
been counted. `CInv` is about a refresh that is alone at its category and has failed at
nothing (`Steady`). `Account`: later uploads have later keys than what it read, and the
centroids of the category are those it holds; while it measures a centroid, what it has
found is, of the embeddings it read, those under the centroid as far as the key has come
(`Reckoned`), and what it has written is all of them. That a batch leaves nothing out, a
short one being the last, is `BatchCovers`. What others do is divided in two: refreshes of
other categories touch none of its rows (`Apart`), and uploads and deletes take from what
it read or add to what it did not (`AccountKept`).

`HeldUpByDeletion` says what a refresh can be kept waiting by: if a bar is short, an
embedding of the category was deleted between count and scan. It rests on `BInv`: unless one
was, the total is no more than the embeddings there are, and no more than what the bar has
come to and the scan has still before it (`Ahead`, those with a later key). The bar of the
first scan starts with all of them before it, and so does the second, since no key was
taken away; a batch moves as many from before the scan to the bar (`BarsMoveOn`), an upload adds
before it or, with a key after a short batch, nothing, and nobody else takes any (`BarsBeside`,
`BarsUsers`). That `RefreshEnds` excuses only what the deletion causes is this theorem; that the
rest comes to an end is TLC's.

Checked and not proved: the properties under fairness (`Answered` twice, `Terminates`,
`SweepsEnd`, `RefreshEnds`, `SpinnerStops`, `UploadEnds`, `LoadingEnds`,
`NothingLeftBehind`). The prover has no rule for ENABLED, on which weak fairness rests.

## 6. What the program does not keep

Promises of docs, comments and assertions that a run refutes (the `violation` runs):

- `UploadSucceeds`. The doc comment of `Upload` (upload.go:110) and the branch
  `// owner create` (upload.go:160) say that an upload creates the owner and the
  category it does not find. It does, unless a search or a delete got to the
  singleflight first: then the upload is handed their `ErrRecordNotFound` and fails.
- `CentroidsInHand`. `NewMatrix` asserts that its list is not empty
  (compute.go:26). A search of a category whose upload has created the category and
  not yet its first centroid caches an empty list; the upload that joins the fetch
  or hits the entry panics.
- `NeverPanics`. A part of a split may be empty (equal vectors are all nearest to the
  first centroid); its goroutine takes element 0 of the means of no rows
  (dataset.go:94) before anything is deferred, and the process stops. The comment at
  dnc.go:299 says that the rows are divided until the target is reached.
- `MapsGuarded`. cache.go:30-35 gives each map a lock. The cleanup task goes over the
  maps of categories and centroids under the lock of the owners (cache.go:61, 70), while
  handlers write to them under their own.

Observed while modelling, without a run of its own:

- The tags of model.go:57-58 declare cascades. SQLite enforces foreign keys only after a
  pragma nobody issues, and a delete leaves the children (`Database!Enforced`).
- centroids.go:52 says "skip if another instance is already processing the category". The
  lock is a shared one, so two instances process it side by side; only a delete at the
  row makes them skip. `Filed` holds all the same.
- centroids.go:55 and 72: a category deleted after the listing, or one that fails, ends
  the whole refresh; so does a database without embeddings.
- dnc.go:294: a refresh waits for its progress bars before it gives back the category's
  lock. The total of two of them is the count of dnc.go:38; when a document of the category
  is deleted after the count and before a scan has come to it, the bar stays below its
  total and the wait lasts until the process is stopped. Meanwhile the categories after it are
  not refreshed and, on PostgreSQL, the share lock keeps deletes of the category waiting.
  No comment or doc promises otherwise, so there is no `violation` run; `RefreshEnds`
  excuses this case and no other, and `HeldUpByDeletion` is the theorem that it needs the
  deletion.
- Search.tsx:31-38: the page's searches name no number of centroids, so each sees the
  documents under the nearest one only (search.go:118-119); the others are on no page.
- dnc.go:447: the mean of a centroid that has no embeddings is zero by zero.
- dnc.go:485: the loop stops at the first small centroid in ascending order, which is the
  first or none, so nothing is dropped. This protects the embeddings: dnc.go:538 would
  file them under a place in a matrix.
- dnc.go:235: a search that goes by an older list of centroids misses what the refresh
  has moved to a new one. `CompleteSearch` is stated without a refresh.
- Categories.tsx:35, 63: the click on the delete button reaches the list item as well, so
  the deleted category stays selected, and the next upload creates it again.
- App.tsx:30: the answer of the listing overwrites what was added meanwhile. App.tsx:21:
  an upload before it goes to the category ''.
- Search.tsx:45: an older answer may stand under a newer page number. Search.tsx:64: a
  delete of a hit of another category than the selected one is lost without a word. Failed
  uploads and deletes are logged in the console only.
- Content.tsx:94: a file added while others are decoded is taken off the list unsent, and
  one removed then is sent all the same. Content.tsx:81, doc.ts:8, pdf.ts:9: a file
  that cannot be decoded leaves the spinner for ever.
- The text of a failed chat is the row's summary from then on and is not asked for again;
  the status of the answer is not looked at; an answer the provider breaks off looks
  complete; 100 lines without text in a row end it with an error.
- config_tls.go:102: the last branch of `GetCertificate` takes a read lock and gives back
  a write lock.

## 7. Not modelled

Liveness under fairness is checked by TLC and not proved: the prover has no rule for
ENABLED. Every clock and counter stops at a bound (`MaxTime`, `MaxId`, `MaxEvents`,
`MaxLines`, `MaxTries`).

- K-means, data set files and sampling: floating-point arithmetic and temporary files.
  What the rest needs of them, that rows are divided into subsets some of which may be
  empty, is in `DivideAndConquer`, which leaves out the exits on file errors (`Fatalf`).
- Quantization and similarity: rounding and matrix kernels. Every model leaves open what
  is nearest, so nothing rests on it.
- Formatting: functions on texts whose properties are about characters and words; a model
  of `Split` (format.go:91) would be the program again. `Catalog` uses that a document has
  at least one section.
- The merge of pages in a search's answer and its JSON layout, with the hit whose document
  is deleted between scan and load (search.go:291): it stays in the answer with its id, its
  similarity and empty content (search.go:301-331).
- A read from a lagging replica before a create (upload.go:158) is in `Catalog`, and no
  property of a run is about it: `OneInitialCentroid` does not hold there.
- Of `ai/openai/chat.go`, the ways out before a client is taken (lines 116-128), for a body
  that cannot be marshalled and a url that cannot be parsed.
- TLS: certificates are read at start; the slip at config_tls.go:102 is one line, no
  behaviour of several steps.
- Configuration, logging, environment: read once, no state afterwards.
- The life cycle in main.go: a start, and one shutdown on a signal. What it cuts off is a
  failing statement in `Catalog` and `Refresh`.
- Of the page: which tab is open, dragging, the text of the box for a new category, and
  `DeleteOwner` of api/delete.ts, which nothing calls.

## 8. Plan

What the plan has left, in this order:

1. An abstract specification of the search service, a map from names to sets of documents
   with atomic uploads, deletes and searches, and the part of it that `Catalog`
   implements in the deployment of `CompleteSearch`.
2. `Refresh` over a database with a replica that lags, where batch scans and re-centring
   read an older state than they write.
3. Properties for the hazards that have none: a document deleted between the scan of its
   embedding and its load (search.go:291), a search that goes by centroids from before a
   refresh (dnc.go:235), and the mean of a centroid without embeddings (dnc.go:447).
