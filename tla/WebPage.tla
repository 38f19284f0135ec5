------------------------------- MODULE WebPage -------------------------------
(***************************************************************************)
(* The page as a whole: the three panels, which share the selected         *)
(* category, and the server behind them.                                   *)
(***************************************************************************)
EXTENDS CategoryPanel, SearchPanel, ContentPanel

CONSTANTS
    MaxEvents,      \* bound on what the user does and how often the index changes
    Uploaded,       \* documents an earlier visit has left, with their category
    Listed          \* the categories it has left, each once

ASSUME WebPageAssumption ==
    /\ MaxEvents \in Nat
    /\ Uploaded \subseteq StoredDocument
    /\ Listed \in Seq(Categories)
    /\ \A i, j \in DOMAIN Listed : Listed[i] = Listed[j] => i = j

VARIABLE events     \* how much of that there has been

vars == <<app, server, categoryPanel, searchPanel, contentPanel, events>>

Init ==
    /\ stored = Uploaded
    /\ known = Listed
    /\ ranking \in Rankings
    /\ AppInit
    /\ CategoryPanelInit
    /\ SearchPanelInit
    /\ ContentPanelInit
    /\ events = 0

OnCategories == CategoryEffect /\ UNCHANGED contentPanel
OnSearch == UNCHANGED <<categoryPanel, contentPanel>>
OnContent == CategoryEffect /\ UNCHANGED categoryPanel
OnServer == CategoryEffect /\ UNCHANGED <<categoryPanel, contentPanel>>

User ==
    /\ events < MaxEvents
    /\ events' = events + 1
    /\ \/ CategoryUser /\ OnCategories
       \/ SearchUser /\ OnSearch
       \/ ContentUser /\ OnContent

Network ==
    /\ UNCHANGED events
    /\ \/ CategoryNetwork /\ OnCategories
       \/ SearchNetwork /\ OnSearch
       \/ ContentNetwork /\ OnContent

IndexChanges ==
    /\ events < MaxEvents
    /\ events' = events + 1
    /\ Refile /\ OnServer

Next == User \/ Network \/ IndexChanges

Spec == Init /\ [][Next]_vars

\* The browser settles every fetch, with an answer or an error, and a decoder
\* of a sound file ends.
FairSpec ==
    /\ Spec
    /\ \A n \in 1 .. MaxEvents :
         WF_vars(/\ \E s \in searches : s.query.no = n /\ Call(s)
                 /\ OnSearch /\ UNCHANGED events)
    /\ WF_vars((\E j \in jobs : FinishJob(j)) /\ OnContent /\ UNCHANGED events)

-----------------------------------------------------------------------------

TypeOK ==
    /\ categories \in Seq(Categories)
    /\ category \in Categories
    /\ \A l \in listings : \/ l \in [no : Nat, reply : {Waiting}]
                           \/ l \in [no : Nat, reply : Seq(Categories)]
    /\ stored \subseteq StoredDocument
    /\ known \in Seq(Categories)
    /\ ranking \in Rankings
    /\ categoryDeletes \subseteq Categories
    /\ removed \subseteq Categories
    /\ searchQuery \in Queries
    /\ \/ searchResults = Undefined
       \/ searchResults \subseteq StoredDocument
    /\ searching \in BOOLEAN
    /\ currentPage \in Nat \ {0}
    /\ \A s \in searches :
         \/ s \in [query : Query, reply : {Waiting}]
         \/ s \in [query : Query, reply : SUBSET StoredDocument]
    /\ documentDeletes \subseteq StoredDocument
    /\ asked \in Query
    /\ seen \subseteq Docs
    /\ calm \in BOOLEAN
    /\ crossed \in BOOLEAN
    /\ uploadedFiles \subseteq Files
    /\ directText \in Texts \union {NoText}
    /\ uploading \in BOOLEAN
    /\ jobs \subseteq [no : Nat, files : SUBSET Files, category : Categories]
    /\ uploads \subseteq [docs : SUBSET Docs, category : Categories]
    /\ used \subseteq Docs
    /\ discarded \subseteq Files
    /\ late \subseteq Files
    /\ sent \in [Docs -> Nat]
    /\ events \in 0 .. MaxEvents

\* The spinner of the search panel turns, and its button is disabled, only
\* while a search is in flight: no order of answers, failures and further
\* searches leaves the panel waiting for an answer that has already come.
SpinnerMeansSearch == searching => searches # {}

\* Walking through the pages shows every document the search can reach, which are
\* those with an embedding under the centroid nearest to the query: when nothing
\* disturbed the walk, neither an upload, a delete or a failed search nor a refresh
\* that moves embeddings, and every search was answered, the hits of all the pages
\* up to the current one have been on the screen.  The pages asked for may be
\* answered in any order, and Next may be pressed before they are.
WalkIsComplete ==
    (calm /\ searches = {})
      => {x.doc : x \in FirstPages(asked, currentPage)} \subseteq seen

\* Unless a search was in flight when the category was last changed, the hits
\* on the screen and those still to come are of the category the panel names,
\* so that a delete, which is sent with that category, finds its document.
HitsBelong ==
    ~crossed =>
      /\ searchResults # Undefined
           => \A x \in searchResults : x.category = category
      /\ \A s \in searches : s.query.category = category

\* The category selected, which searches and uploads go to, is one the list
\* has, unless it is one the user has deleted: neither the answers to the mount
\* effect nor a delete beside it leave it anywhere else.
SelectedKnown == category \in Names(categories) \union removed

\* A file the user has added is on the list, or an upload has carried it, or
\* the user has taken it off, or it was added while others were decoded.
FilesKept ==
    \A f \in Files \intersect used :
      f \in uploadedFiles \union discarded \union late \/ sent[f] > 0

\* No document goes out in two uploads, although files stay on the list, and
\* others are added and removed, while they are decoded.
SentOnce == \A d \in Docs : sent[d] <= 1

\* The spinner of the search panel stops.
SpinnerStops == searching ~> ~searching

\* The button of the upload panel comes back, unless a file is broken.
UploadEnds ==
    (uploading /\ \A j \in jobs : Decoded(j.files)) ~> ~uploading
=============================================================================
