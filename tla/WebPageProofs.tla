----------------------------- MODULE WebPageProofs -----------------------------
(* Theorems about WebPage, for any documents, queries, categories and rankings,*)
(* pages of any size and users who never stop.                                 *)
EXTENDS WebPage, FiniteSetTheorems, WellFoundedInduction, TLAPS

-----------------------------------------------------------------------------
(* The search panel.                                                         *)

\* A search and its answer are about one category.
SearchShape ==
    \A s \in searches :
      /\ s = [query |-> s.query, reply |-> s.reply]
      /\ s.reply # Waiting => \A x \in s.reply : x.category = s.query.category

SInv == SpinnerMeansSearch /\ HitsBelong /\ SearchShape

\* The invariant holds at first.
LEMMA SInvInit == Init => SInv
  BY DEF Init, SearchPanelInit, SInv, SpinnerMeansSearch, HitsBelong, SearchShape

\* A step of another panel.
LEMMA CategoryEffectKeeps == ASSUME SInv, CategoryEffect PROVE SInv'
<1> USE DEF SInv, CategoryEffect
<1>1. SpinnerMeansSearch'
  BY DEF SpinnerMeansSearch
<1>2. HitsBelong'
  BY DEF HitsBelong, ResultsCleared
<1>3. SearchShape'
  BY DEF SearchShape
<1> QED BY <1>1, <1>2, <1>3

\* Enter, Next and Previous.
LEMMA SearchKeeps == ASSUME SInv, NEW page, handleSearch(page) PROVE SInv'
<1> DEFINE q == [no |-> asked.no + 1, category |-> category, text |-> searchQuery,
                 offset |-> Offset(page)]
           s == [query |-> q, reply |-> Waiting]
<1>1. /\ searches' = searches \union {s}
      /\ UNCHANGED <<category, searchResults, crossed>>
  BY DEF handleSearch, app
<1>2. s.query.category = category /\ s.reply = Waiting /\ s = [query |-> s.query, reply |-> s.reply]
  OBVIOUS
<1> HIDE DEF s
<1>3. SpinnerMeansSearch'
  BY <1>1 DEF SpinnerMeansSearch
<1>4. HitsBelong'
  BY <1>1, <1>2 DEF SInv, HitsBelong
<1>5. SearchShape'
  BY <1>1, <1>2 DEF SInv, SearchShape
<1> QED BY <1>3, <1>4, <1>5 DEF SInv

\* The server's answer is of the category it was asked for.
LEMMA ServeKeeps == ASSUME SInv, NEW s \in searches, Serve(s) PROVE SInv'
<1> DEFINE t == [query |-> s.query, reply |-> Page(s.query)]
<1>1. /\ searches' = (searches \ {s}) \union {t}
      /\ UNCHANGED <<category, searchResults, searching, crossed>>
  BY DEF Serve, app, SInv, SearchShape
<1>2. /\ t.query = s.query
      /\ t = [query |-> t.query, reply |-> t.reply]
      /\ \A x \in t.reply : x.category = t.query.category
  BY DEF Page, Hits
<1> HIDE DEF t
<1>3. SpinnerMeansSearch'
  BY <1>1 DEF SpinnerMeansSearch
<1>4. HitsBelong'
  BY <1>1, <1>2 DEF SInv, HitsBelong
<1>5. SearchShape'
  BY <1>1, <1>2 DEF SInv, SearchShape
<1> QED BY <1>3, <1>4, <1>5 DEF SInv

\* An answer, or an empty page in its place, is shown.
LEMMA ShowKeeps ==
  ASSUME SInv, NEW s \in searches, NEW hits, ShowResults(s, hits),
         hits = {} \/ (s.reply # Waiting /\ hits = s.reply)
  PROVE  SInv'
<1>1. /\ searches' = searches \ {s}
      /\ searchResults' = hits
      /\ searching' = FALSE
      /\ UNCHANGED <<category, crossed>>
  BY DEF ShowResults, SearchingAfter, app
<1>2. \A x \in hits : x.category = s.query.category
  BY DEF SInv, SearchShape
<1>3. SpinnerMeansSearch'
  BY <1>1 DEF SpinnerMeansSearch
<1>4. HitsBelong'
  BY <1>1, <1>2 DEF SInv, HitsBelong
<1>5. SearchShape'
  BY <1>1 DEF SInv, SearchShape
<1> QED BY <1>3, <1>4, <1>5 DEF SInv

\* Steps that leave the searches alone and may take a row off the page.
LEMMA RestKeeps ==
  ASSUME SInv, UNCHANGED <<category, searches, searching, crossed>>,
         \/ searchResults' = searchResults
         \/ searchResults # Undefined /\ searchResults' \subseteq searchResults
  PROVE  SInv'
<1>1. SpinnerMeansSearch' /\ SearchShape'
  BY DEF SInv, SpinnerMeansSearch, SearchShape
<1>2. HitsBelong'
  BY DEF SInv, HitsBelong
<1> QED BY <1>1, <1>2 DEF SInv

\* Every step keeps it.
LEMMA SInvStep == SInv /\ [Next]_vars => SInv'
<1> SUFFICES ASSUME SInv, [Next]_vars PROVE SInv'
  OBVIOUS
<1>1. ASSUME OnCategories \/ OnContent \/ OnServer PROVE SInv'
  BY <1>1, CategoryEffectKeeps DEF OnCategories, OnContent, OnServer
<1>2. ASSUME SearchUser PROVE SInv'
  <2>1. ASSUME handlePressSearch \/ handleNext \/ handlePrevious PROVE SInv'
    BY <2>1, SearchKeeps DEF handlePressSearch, handleNext, handlePrevious
  <2>2. ASSUME NEW q \in Queries, TypeQuery(q) PROVE SInv'
    BY <2>2, RestKeeps DEF TypeQuery, app
  <2>3. ASSUME NEW x \in StoredDocument, handleDeleteDocument(x) PROVE SInv'
    <3>1. /\ UNCHANGED <<category, searches, searching, crossed>>
          /\ searchResults # Undefined /\ searchResults' \subseteq searchResults
      BY <2>3 DEF handleDeleteDocument, app
    <3> QED BY <3>1, RestKeeps
  <2> QED BY <1>2, <2>1, <2>2, <2>3 DEF SearchUser
<1>3. ASSUME SearchNetwork PROVE SInv'
  <2>1. ASSUME NEW s \in searches, Call(s) PROVE SInv'
    BY <2>1, ServeKeeps, ShowKeeps DEF Call, Answer, AnswerFails
  <2>2. ASSUME NEW x \in documentDeletes, DeleteReaches(x) \/ DeleteFails(x) PROVE SInv'
    <3>1. UNCHANGED <<category, searches, searching, crossed, searchResults>>
      BY <2>2 DEF DeleteReaches, DeleteFails, app
    <3> QED BY <3>1, RestKeeps
  <2> QED BY <1>3, <2>1, <2>2 DEF SearchNetwork
<1>4. ASSUME UNCHANGED vars PROVE SInv'
  <2>1. UNCHANGED <<category, searches, searching, crossed, searchResults>>
    BY <1>4 DEF vars, app, searchPanel
  <2> QED BY <2>1, RestKeeps
<1> QED BY <1>1, <1>2, <1>3, <1>4 DEF Next, User, Network, IndexChanges

\* The spinner never turns for nothing, however many searches overlap, in
\* whatever order they are answered, and whichever of them fail.
THEOREM SpinnerMeansSearchHolds == Spec => []SpinnerMeansSearch
<1>1. SInv => SpinnerMeansSearch
  BY DEF SInv
<1> QED BY SInvInit, SInvStep, <1>1, PTL DEF Spec

\* What is on the screen, and what is still to come, is of the category a
\* delete would be sent with, unless the category was changed under a search.
THEOREM HitsBelongHolds == Spec => []HitsBelong
<1>1. SInv => HitsBelong
  BY DEF SInv
<1> QED BY SInvInit, SInvStep, <1>1, PTL DEF Spec

-----------------------------------------------------------------------------
(* The upload panel.                                                         *)

\* One call decodes at a time; what has been sent is nowhere on the page; and a
\* file on the list that is not being decoded was added late.
UInv ==
    /\ sent \in [Docs -> Nat]
    /\ used \subseteq Docs
    /\ uploadedFiles \subseteq Files \intersect used
    /\ directText \in used \union {NoText}
    /\ directText \notin uploadedFiles
    /\ jobs # {} => uploading
    /\ \A j, k \in jobs : j = k
    /\ \A j \in jobs : /\ j.files \subseteq Files \intersect used
                       /\ directText \notin j.files
                       /\ uploadedFiles \subseteq j.files \union late
                       /\ \A d \in j.files : sent[d] = 0
    /\ \A d \in Docs : sent[d] # 0 => /\ sent[d] = 1
                                      /\ d \in used \ uploadedFiles
                                      /\ d # directText
    /\ FilesKept

\* The invariant of the upload panel holds at first.
LEMMA UInvInit == Init => UInv
  BY ContentAssumption DEF Init, ContentPanelInit, UInv, FilesKept

\* A file comes on the list; while others are decoded it is noted as late.
LEMMA AddFileKeeps == ASSUME UInv, NEW f \in Files, AddFile(f) PROVE UInv'
<1>1. /\ f \notin used
      /\ uploadedFiles' = uploadedFiles \union {f}
      /\ used' = used \union {f}
      /\ late' = IF uploading THEN late \union {f} ELSE late
      /\ UNCHANGED <<directText, uploading, jobs, discarded, sent>>
  BY DEF AddFile, WithFile
<1>2. FilesKept'
  BY <1>1 DEF UInv, FilesKept
<1> QED BY <1>1, <1>2, ContentAssumption DEF UInv

\* A file goes off the list by the user's hand.
LEMMA RemoveFileKeeps == ASSUME UInv, NEW f \in Files, handleRemoveFile(f) PROVE UInv'
<1>1. /\ uploadedFiles' = uploadedFiles \ {f}
      /\ discarded' = discarded \union {f}
      /\ UNCHANGED <<directText, uploading, jobs, used, late, sent>>
  BY DEF handleRemoveFile
<1>2. FilesKept'
  BY <1>1 DEF UInv, FilesKept
<1> QED BY <1>1, <1>2 DEF UInv

\* The text box changes.
LEMMA TypeTextKeeps == ASSUME UInv, NEW t \in Texts \union {NoText}, TypeText(t) PROVE UInv'
<1>1. /\ t \notin used
      /\ directText' = t
      /\ used' = used \union ({t} \ {NoText})
      /\ UNCHANGED <<uploadedFiles, uploading, jobs, discarded, late, sent>>
  BY DEF TypeText
<1>2. FilesKept'
  BY <1>1, ContentAssumption DEF UInv, FilesKept
<1> QED BY <1>1, <1>2, ContentAssumption DEF UInv

\* What an upload counts.
LEMMA CarryFacts ==
  ASSUME sent \in [Docs -> Nat], NEW docs, sent' = Carry(docs)
  PROVE  /\ sent' \in [Docs -> Nat]
         /\ \A d \in Docs : sent'[d] = IF d \in docs THEN sent[d] + 1 ELSE sent[d]
  BY DEF Carry

\* A text goes out as a document of its own.
LEMMA ProcessTextKeeps == ASSUME UInv, ProcessText PROVE UInv'
<1>1. /\ ~uploading
      /\ directText # NoText
      /\ directText' = NoText
      /\ uploading' = FALSE
      /\ UNCHANGED <<uploadedFiles, jobs, used, discarded, late>>
  BY DEF ProcessText, UploadEnabled
<1>2. sent' = Carry({directText})
  BY DEF ProcessText
<1>3. /\ sent' \in [Docs -> Nat]
      /\ \A d \in Docs : sent'[d] = IF d \in {directText} THEN sent[d] + 1 ELSE sent[d]
  <2>1. sent \in [Docs -> Nat]
    BY DEF UInv
  <2> QED BY <1>2, <2>1, CarryFacts
<1>4. jobs = {} /\ jobs' = {}
  BY <1>1 DEF UInv
<1>5. FilesKept'
  BY <1>1, <1>3, ContentAssumption DEF UInv, FilesKept
<1> QED BY <1>1, <1>3, <1>4, <1>5, ContentAssumption DEF UInv

\* The files on the list go into a job.
LEMMA ProcessFilesKeeps == ASSUME UInv, ProcessFiles PROVE UInv'
<1> DEFINE j == [no |-> Cardinality(jobs) + 1, files |-> uploadedFiles, category |-> category]
<1>1. /\ uploading' = TRUE
      /\ jobs = {}
      /\ jobs' = {j}
      /\ UNCHANGED <<uploadedFiles, directText, used, discarded, late, sent>>
  BY DEF ProcessFiles, UploadEnabled, UInv
<1>2. j.files = uploadedFiles
  OBVIOUS
<1> HIDE DEF j
<1>3. \A d \in uploadedFiles : sent[d] = 0
  BY ContentAssumption DEF UInv
<1>4. FilesKept'
  BY <1>1 DEF UInv, FilesKept
<1> QED BY <1>1, <1>2, <1>3, <1>4 DEF UInv

\* A job sends what it could decode and clears the list.
LEMMA FinishJobKeeps == ASSUME UInv, NEW j \in jobs, FinishJob(j) PROVE UInv'
<1>1. /\ jobs' = {}
      /\ uploadedFiles' = {}
      /\ UNCHANGED <<directText, used, discarded, late>>
  BY DEF FinishJob, UInv
<1>2. sent' = Carry(j.files)
  BY DEF FinishJob
<1>3. /\ sent' \in [Docs -> Nat]
      /\ \A d \in Docs : sent'[d] = IF d \in j.files THEN sent[d] + 1 ELSE sent[d]
  BY <1>2, CarryFacts DEF UInv
<1>4. FilesKept'
  BY <1>1, <1>3, ContentAssumption DEF UInv, FilesKept
<1> QED BY <1>1, <1>3, <1>4, ContentAssumption DEF UInv

\* Nothing else touches the upload panel.
LEMMA OthersKeep == ASSUME UInv, UNCHANGED <<uploadedFiles, directText, uploading, jobs, used,
                                             discarded, late, sent>>
                    PROVE  UInv'
  BY DEF UInv, FilesKept

\* Every step keeps it.
LEMMA UInvStep == UInv /\ [Next]_vars => UInv'
<1> SUFFICES ASSUME UInv, [Next]_vars PROVE UInv'
  OBVIOUS
<1>1. ASSUME OnCategories \/ OnSearch \/ OnServer \/ UNCHANGED vars PROVE UInv'
  BY <1>1, OthersKeep DEF OnCategories, OnSearch, OnServer, vars, contentPanel
<1>2. ASSUME ContentUser PROVE UInv'
  BY <1>2, AddFileKeeps, RemoveFileKeeps, TypeTextKeeps, ProcessTextKeeps, ProcessFilesKeeps
     DEF ContentUser
<1>3. ASSUME ContentNetwork PROVE UInv'
  <2>1. ASSUME NEW u \in uploads, UploadReaches(u) \/ UploadFails(u) PROVE UInv'
    BY <2>1, OthersKeep DEF UploadReaches, UploadFails
  <2> QED BY <1>3, <2>1, FinishJobKeeps DEF ContentNetwork
<1> QED BY <1>1, <1>2, <1>3 DEF Next, User, Network, IndexChanges

\* No file the user has added is lost while others are decoded, except one that
\* is added in that time.
THEOREM FilesKeptHolds == Spec => []FilesKept
<1>1. UInv => FilesKept
  BY DEF UInv
<1> QED BY UInvInit, UInvStep, <1>1, PTL DEF Spec

\* No document goes out twice.
THEOREM SentOnceHolds == Spec => []SentOnce
<1>1. UInv => SentOnce
  BY DEF UInv, SentOnce
<1> QED BY UInvInit, UInvStep, <1>1, PTL DEF Spec

-----------------------------------------------------------------------------
(* Lists without an item.                                                    *)

\* A finite set of places has one for every rank.
LEMMA PlaceOfRank ==
  ASSUME NEW K \in SUBSET Nat, IsFiniteSet(K), NEW n \in 1 .. Cardinality(K)
  PROVE  \E i \in K : Cardinality({k \in K : k < i}) = n - 1
<1> DEFINE below(i) == {k \in K : k < i}
           N == 0 .. Cardinality(K) - 1
           rank == [i \in K |-> Cardinality(below(i))]
<1>1. \A S \in SUBSET K : /\ IsFiniteSet(S) /\ Cardinality(S) \in Nat
                          /\ Cardinality(S) <= Cardinality(K)
  BY FS_Subset, FS_CardinalityType
<1>2. Cardinality(K) \in Nat
  BY <1>1
<1>3. ASSUME NEW T \in SUBSET K, NEW S \in SUBSET T, S # T
      PROVE  Cardinality(S) < Cardinality(T)
  <2>1. Cardinality(S) <= Cardinality(T) /\ Cardinality(S) # Cardinality(T)
    BY <1>1, <1>3, FS_Subset
  <2>2. Cardinality(S) \in Nat /\ Cardinality(T) \in Nat
    BY <1>1
  <2> QED BY <2>1, <2>2
<1>4. rank \in [K -> N]
  <2> SUFFICES ASSUME NEW i \in K PROVE Cardinality(below(i)) \in N
    OBVIOUS
  <2>1. below(i) \in SUBSET K /\ below(i) # K
    OBVIOUS
  <2>2. Cardinality(below(i)) < Cardinality(K) /\ Cardinality(below(i)) \in Nat
    BY <1>1, <1>3, <2>1
  <2> HIDE DEF below
  <2> QED BY <1>2, <2>2
<1>5. ASSUME NEW i \in K, NEW j \in K, i < j PROVE Cardinality(below(i)) < Cardinality(below(j))
  <2>0. i \in Nat /\ j \in Nat /\ \A k \in K : k \in Nat
    OBVIOUS
  <2>1. below(j) \in SUBSET K /\ i \in below(j) \ below(i)
    BY <1>5, <2>0
  <2>2. \A k \in K : k < i => k < j
    BY <1>5, <2>0
  <2>3. below(i) \in SUBSET below(j)
    BY <2>2
  <2> HIDE DEF below
  <2> QED BY <1>3, <2>1, <2>3
<1>6. ASSUME NEW i \in K, NEW j \in K, Cardinality(below(i)) = Cardinality(below(j))
      PROVE  i = j
  <2>1. Cardinality(below(i)) \in Nat /\ Cardinality(below(j)) \in Nat
    BY <1>1
  <2>2. ~(i < j) /\ ~(j < i)
    <3> HIDE DEF below
    <3> QED BY <1>5, <1>6, <2>1
  <2> QED BY <2>2
<1>7. rank \in Injection(K, N)
  <2> HIDE DEF below, N
  <2> QED BY <1>4, <1>6 DEF Injection, IsInjective
<1>8. IsFiniteSet(N) /\ Cardinality(N) = Cardinality(K)
  <2>1. PICK m \in Nat : m = Cardinality(K)
    BY <1>2
  <2>2. /\ IsFiniteSet(0 .. m - 1)
        /\ Cardinality(0 .. m - 1) = IF 0 > m - 1 THEN 0 ELSE (m - 1) - 0 + 1
    BY FS_Interval
  <2>3. Cardinality(0 .. m - 1) = m
    BY <2>2
  <2> QED BY <2>1, <2>2, <2>3
<1>9. rank \in Surjection(K, N)
  <2> HIDE DEF rank, N
  <2> QED BY <1>7, <1>8, FS_Injection
<1>10. n - 1 \in N
  BY <1>2
<1>11. \E i \in K : rank[i] = n - 1
  <2> HIDE DEF rank, N
  <2> QED BY <1>9, <1>10 DEF Surjection
<1> QED BY <1>11

\* What is left of a list is one.
LEMMA WithoutType ==
  ASSUME NEW S, NEW list \in Seq(S), NEW c
  PROVE  Without(list, c) \in Seq(S)
<1> DEFINE kept == {i \in DOMAIN list : list[i] # c}
           Nth(n) == CHOOSE i \in kept : Cardinality({k \in kept : k < i}) = n - 1
           rest == [n \in 1 .. Cardinality(kept) |-> list[Nth(n)]]
<1>1. IsFiniteSet(DOMAIN list)
  BY FS_Interval
<1>2. kept \in SUBSET Nat /\ IsFiniteSet(kept) /\ Cardinality(kept) \in Nat
  <2>1. kept \in SUBSET DOMAIN list
    OBVIOUS
  <2> HIDE DEF kept
  <2> QED BY <1>1, <2>1, FS_Subset, FS_CardinalityType
<1>3. ASSUME NEW n \in 1 .. Cardinality(kept) PROVE Nth(n) \in kept
  <2> HIDE DEF kept
  <2> QED BY <1>2, <1>3, PlaceOfRank
<1>4. ASSUME NEW n \in 1 .. Cardinality(kept) PROVE list[Nth(n)] \in S
  <2>1. Nth(n) \in DOMAIN list
    BY <1>3
  <2> HIDE DEF Nth
  <2> QED BY <2>1
<1>5. rest \in [1 .. Cardinality(kept) -> S]
  <2> HIDE DEF kept, Nth
  <2> QED BY <1>4
<1>6. rest \in Seq(S)
  <2> HIDE DEF kept, rest
  <2> QED BY <1>2, <1>5
<1>7. Without(list, c) = rest
  BY DEF Without
<1> QED BY <1>6, <1>7

-----------------------------------------------------------------------------
(* Types.                                                                    *)

\* The types of each panel's state.
AppTypes ==
    /\ categories \in Seq(Categories)
    /\ category \in Categories
    /\ \A l \in listings : \/ l \in [no : Nat, reply : {Waiting}]
                           \/ l \in [no : Nat, reply : Seq(Categories)]
    /\ stored \subseteq StoredDocument
    /\ known \in Seq(Categories)
    /\ ranking \in Rankings
    /\ categoryDeletes \subseteq Categories
    /\ removed \subseteq Categories

SearchTypes ==
    /\ searchQuery \in Queries
    /\ \/ searchResults = Undefined
       \/ searchResults \subseteq StoredDocument
    /\ searching \in BOOLEAN
    /\ currentPage \in Nat \ {0}
    /\ \A s \in searches :
         \/ s \in [query : Query, reply : {Waiting}]
         \/ s \in [query : Query, reply : SUBSET StoredDocument]
    /\ documentDeletes \subseteq StoredDocument
    /\ asked \in Query
    /\ seen \subseteq Docs
    /\ calm \in BOOLEAN
    /\ crossed \in BOOLEAN

ContentTypes ==
    /\ uploadedFiles \subseteq Files
    /\ directText \in Texts \union {NoText}
    /\ uploading \in BOOLEAN
    /\ jobs \subseteq [no : Nat, files : SUBSET Files, category : Categories]
    /\ uploads \subseteq [docs : SUBSET Docs, category : Categories]
    /\ used \subseteq Docs
    /\ discarded \subseteq Files
    /\ late \subseteq Files
    /\ sent \in [Docs -> Nat]

Types == AppTypes /\ SearchTypes /\ ContentTypes /\ events \in 0 .. MaxEvents

\* The types of the panels together are TypeOK.
LEMMA TypesMean == Types <=> TypeOK
  BY DEF Types, AppTypes, SearchTypes, ContentTypes, TypeOK

\* The page begins with the types it has.
LEMMA TypesInit == Init => Types
<1> SUFFICES ASSUME Init PROVE Types
  OBVIOUS
<1>1. Blank \in Categories /\ NoQuery \in Queries /\ MaxEvents \in Nat
  BY AppAssumption, SearchAssumption, WebPageAssumption
<1>2. AppTypes
  BY <1>1, WebPageAssumption DEF Init, AppInit, CategoryPanelInit, AppTypes
<1>3. SearchTypes
  <2>1. category \in Categories /\ searchQuery \in Queries
    BY <1>1 DEF Init, AppInit, SearchPanelInit
  <2>2. asked \in Query
    BY <2>1 DEF Init, SearchPanelInit, Query
  <2>3. /\ searchResults = Undefined /\ searching = FALSE /\ currentPage = 1
        /\ searches = {} /\ documentDeletes = {} /\ seen = {}
        /\ calm = FALSE /\ crossed = FALSE
    BY DEF Init, SearchPanelInit
  <2>4. searching \in BOOLEAN /\ calm \in BOOLEAN /\ crossed \in BOOLEAN
    BY <2>3
  <2>5. currentPage \in Nat \ {0}
    BY <2>3
  <2> QED BY <2>1, <2>2, <2>3, <2>4, <2>5, Zenon DEF SearchTypes
<1>4. ContentTypes
  BY DEF Init, ContentPanelInit, ContentTypes
<1> QED BY <1>1, <1>2, <1>3, <1>4 DEF Init, Types

\* Nobody but the listing, the list of categories and the server's handlers touch
\* what the page shares.
LEMMA AppTypesListing ==
  ASSUME AppTypes, NEW l \in listings, Listing(l)
  PROVE  AppTypes'
<1> DEFINE L == [no : Nat, reply : {Waiting}] \union [no : Nat, reply : Seq(Categories)]
<1>0. listings \subseteq L /\ General \in Categories
  BY AppAssumption DEF AppTypes
<1>1. CASE ServeListing(l) /\ UNCHANGED categoryPanel
  <2>1. [l EXCEPT !.reply = known] \in L
    BY <1>0 DEF AppTypes
  <2>2. listings' \subseteq L
    BY <1>0, <1>1, <2>1 DEF ServeListing
  <2> QED BY <1>1, <2>2 DEF AppTypes, ServeListing, server, categoryPanel
<1>2. ASSUME NEW names \in Seq(Categories), ShowListing(l, names), TrackListing PROVE AppTypes'
  <2>1. Existing(names) \in Seq(Categories) /\ Existing(names) # <<>>
    BY <1>0 DEF Existing
  <2>2. SelectFirst(Existing(names)) \in Categories
    BY <2>1 DEF SelectFirst
  <2> QED BY <1>2, <2>1, <2>2 DEF AppTypes, ShowListing, TrackListing, server
<1>3. <<>> \in Seq(Categories) /\ (l.reply # Waiting => l.reply \in Seq(Categories))
  BY <1>0
<1> QED BY <1>1, <1>2, <1>3 DEF Listing, ListingAnswered, ListingFails

\* The list of categories is added to, selected from and deleted from.
LEMMA AppTypesCategories == ASSUME AppTypes, CategoryUser PROVE AppTypes'
<1>1. ASSUME NEW c \in Categories, handleAddCategory(c) PROVE AppTypes'
  BY <1>1 DEF handleAddCategory, AppTypes, server
<1>2. ASSUME NEW c \in Categories, setSelectedCategory(c) PROVE AppTypes'
  BY <1>2 DEF setSelectedCategory, AppTypes, server, categoryPanel
<1>3. ASSUME NEW c \in Categories, handleDeleteCategory(c) PROVE AppTypes'
  BY <1>3, WithoutType DEF handleDeleteCategory, AppTypes, server
<1> QED BY <1>1, <1>2, <1>3 DEF CategoryUser

\* The server deletes a category, or the call fails.
LEMMA AppTypesDelete ==
  ASSUME AppTypes, NEW c \in categoryDeletes, DeleteCategoryReaches(c) \/ DeleteCategoryFails(c)
  PROVE  AppTypes'
<1>1. CASE DeleteCategoryReaches(c)
  BY <1>1, WithoutType DEF DeleteCategoryReaches, ServeDeleteCategory, AppTypes, app
<1>2. CASE DeleteCategoryFails(c)
  BY <1>2 DEF DeleteCategoryFails, AppTypes, app, server
<1> QED BY <1>1, <1>2

\* The server stores the documents of an upload.
LEMMA AppTypesUpload ==
  ASSUME AppTypes, ContentTypes, NEW u \in uploads, UploadReaches(u), UNCHANGED categoryPanel
  PROVE  AppTypes'
<1>1. u.docs \subseteq Docs /\ u.category \in Categories
  BY DEF ContentTypes
<1>2. stored' \subseteq StoredDocument
  BY <1>1 DEF UploadReaches, ServeUpload, AppTypes, StoredDocument
<1>3. known' \in Seq(Categories) /\ ranking' \in Rankings
  BY <1>1 DEF UploadReaches, ServeUpload, AppTypes
<1> QED BY <1>2, <1>3 DEF UploadReaches, AppTypes, app, categoryPanel

\* Every step keeps the types of the shared state.
LEMMA AppTypesStep == ASSUME Types, [Next]_vars PROVE AppTypes'
<1>0. AppTypes /\ ContentTypes
  BY DEF Types
<1>1. ASSUME UNCHANGED <<app, categoryPanel>>, stored' \subseteq stored,
             UNCHANGED known, ranking' \in Rankings
      PROVE  AppTypes'
  BY <1>0, <1>1 DEF AppTypes, app, categoryPanel
<1>2. ASSUME UNCHANGED <<app, server, categoryPanel>> PROVE AppTypes'
  BY <1>0, <1>1, <1>2 DEF server, AppTypes
<1>3. ASSUME SearchUser, OnSearch PROVE AppTypes'
  BY <1>2, <1>3 DEF SearchUser, OnSearch, handlePressSearch, handleNext, handlePrevious,
     handleSearch, TypeQuery, handleDeleteDocument
<1>4. ASSUME SearchNetwork, OnSearch PROVE AppTypes'
  BY <1>0, <1>1, <1>2, <1>4 DEF SearchNetwork, OnSearch, Call, Serve, Answer, AnswerFails,
     ShowResults, DeleteReaches, ServeDeleteDocument, DeleteFails, AppTypes
<1>5. ASSUME ContentUser, OnContent PROVE AppTypes'
  BY <1>2, <1>5 DEF ContentUser, OnContent, AddFile, handleRemoveFile, TypeText,
     ProcessText, ProcessFiles
<1>6. ASSUME ContentNetwork, OnContent PROVE AppTypes'
  BY <1>0, <1>2, <1>6, AppTypesUpload DEF ContentNetwork, OnContent, FinishJob, UploadFails
<1>7. ASSUME CategoryNetwork PROVE AppTypes'
  BY <1>0, <1>7, AppTypesListing, AppTypesDelete DEF CategoryNetwork
<1>8. ASSUME UNCHANGED vars PROVE AppTypes'
  BY <1>2, <1>8 DEF vars
<1>9. ASSUME Refile, OnServer PROVE AppTypes'
  BY <1>1, <1>9 DEF Refile, OnServer
<1> QED BY <1>0, <1>3, <1>4, <1>5, <1>6, <1>7, <1>8, <1>9, AppTypesCategories
        DEF Next, User, Network, IndexChanges

\* A page of hits is of stored documents, and a query of what it may hold.
LEMMA PageTypes == ASSUME AppTypes, NEW q PROVE Page(q) \subseteq stored /\ Page(q) \subseteq StoredDocument
  BY DEF Page, Hits, AppTypes

\* The offset of a page is a number.
LEMMA OffsetType == ASSUME NEW page \in Nat \ {0} PROVE Offset(page) \in Nat
<1>1. page - 1 \in Nat /\ itemsPerPage \in Nat
  BY SearchAssumption
<1> QED BY <1>1 DEF Offset

\* Enter, Next and Previous.
LEMMA SearchTypesSearch ==
  ASSUME AppTypes, SearchTypes, NEW page \in Nat \ {0}, handleSearch(page)
  PROVE  /\ searchQuery' \in Queries /\ searchResults' = searchResults
         /\ searching' \in BOOLEAN /\ currentPage' \in Nat \ {0}
         /\ \A s \in searches' : \/ s \in [query : Query, reply : {Waiting}]
                                 \/ s \in [query : Query, reply : SUBSET StoredDocument]
         /\ documentDeletes' \subseteq StoredDocument
         /\ asked' \in Query /\ crossed' \in BOOLEAN
<1> DEFINE q == [no |-> asked.no + 1, category |-> category, text |-> searchQuery,
                 offset |-> Offset(page)]
<1>1. q \in Query
  BY OffsetType DEF AppTypes, SearchTypes, Query
<1>2. /\ searches' = searches \union {[query |-> q, reply |-> Waiting]}
      /\ asked' = q /\ searching' = TRUE /\ currentPage' = page
      /\ UNCHANGED <<searchQuery, searchResults, documentDeletes, crossed>>
  BY DEF handleSearch
<1> HIDE DEF q
<1> QED BY <1>1, <1>2 DEF SearchTypes

\* What the user does in the search panel.
LEMMA SearchTypesUser == ASSUME AppTypes, SearchTypes, SearchUser PROVE SearchTypes'
<1>1. CASE handlePressSearch
  BY <1>1, SearchTypesSearch DEF handlePressSearch, SearchTypes
<1>2. CASE handleNext
  <2>1. currentPage + 1 \in Nat \ {0}
    BY DEF SearchTypes
  <2> QED BY <1>2, <2>1, SearchTypesSearch DEF handleNext, SearchTypes
<1>3. CASE handlePrevious
  <2>1. currentPage - 1 \in Nat \ {0}
    BY <1>3 DEF SearchTypes, handlePrevious, HasPrevious
  <2> QED BY <1>3, <2>1, SearchTypesSearch DEF handlePrevious, SearchTypes
<1>4. ASSUME NEW q \in Queries, TypeQuery(q) PROVE SearchTypes'
  BY <1>4 DEF TypeQuery, SearchTypes
<1>5. ASSUME NEW x \in StoredDocument, handleDeleteDocument(x) PROVE SearchTypes'
  <2>1. [doc |-> x.doc, category |-> category] \in StoredDocument
    BY DEF StoredDocument, AppTypes
  <2> QED BY <1>5, <2>1 DEF handleDeleteDocument, SearchTypes
<1> QED BY <1>1, <1>2, <1>3, <1>4, <1>5 DEF SearchUser

\* What comes of its calls.
LEMMA SearchTypesNetwork == ASSUME AppTypes, SearchTypes, SearchNetwork PROVE SearchTypes'
<1>1. ASSUME NEW s \in searches, Serve(s) PROVE SearchTypes'
  <2>1. [s EXCEPT !.reply = Page(s.query)] \in [query : Query, reply : SUBSET StoredDocument]
    BY PageTypes DEF SearchTypes
  <2> QED BY <1>1, <2>1 DEF Serve, SearchTypes
<1>2. ASSUME NEW s \in searches, NEW hits \in SUBSET StoredDocument, ShowResults(s, hits),
             calm' \in BOOLEAN
      PROVE  SearchTypes'
  <2>1. seen' \subseteq Docs
    BY <1>2 DEF ShowResults, SearchTypes, StoredDocument
  <2> QED BY <1>2, <2>1 DEF ShowResults, SearchTypes, SearchingAfter
<1>3. ASSUME NEW s \in searches, Answer(s) PROVE SearchTypes'
  BY <1>2, <1>3 DEF Answer, SearchTypes
<1>4. ASSUME NEW s \in searches, AnswerFails(s) PROVE SearchTypes'
  BY <1>2, <1>4 DEF AnswerFails
<1>5. ASSUME NEW x \in documentDeletes, DeleteReaches(x) \/ DeleteFails(x) PROVE SearchTypes'
  BY <1>5 DEF DeleteReaches, DeleteFails, SearchTypes
<1> QED BY <1>1, <1>3, <1>4, <1>5 DEF SearchNetwork, Call

\* Every step keeps the types of the search panel.
LEMMA SearchTypesStep == ASSUME Types, [Next]_vars PROVE SearchTypes'
<1>0. AppTypes /\ SearchTypes
  BY DEF Types
<1>1. ASSUME CategoryEffect PROVE SearchTypes'
  BY <1>0, <1>1 DEF CategoryEffect, ResultsCleared, SearchTypes
<1>2. ASSUME UNCHANGED vars PROVE SearchTypes'
  BY <1>0, <1>2 DEF vars, searchPanel, SearchTypes
<1> QED BY <1>0, <1>1, <1>2, SearchTypesUser, SearchTypesNetwork
        DEF Next, User, Network, IndexChanges, OnCategories, OnContent, OnServer

\* Every step keeps the types of the upload panel.
LEMMA ContentTypesStep == ASSUME UInv, Types, [Next]_vars PROVE ContentTypes'
<1>0. ContentTypes /\ category \in Categories /\ Texts \subseteq Docs /\ Files \subseteq Docs
  BY ContentAssumption DEF Types, AppTypes
<1>1. ASSUME NEW f \in Files, AddFile(f) \/ handleRemoveFile(f) PROVE ContentTypes'
  BY <1>0, <1>1 DEF AddFile, WithFile, handleRemoveFile, ContentTypes
<1>2. ASSUME NEW x \in Texts \union {NoText}, TypeText(x) PROVE ContentTypes'
  BY <1>0, <1>2 DEF TypeText, ContentTypes
<1>3. ASSUME NEW docs, sent' = Carry(docs) PROVE sent' \in [Docs -> Nat]
  BY <1>0, <1>3, CarryFacts DEF ContentTypes
<1>4. ASSUME ProcessText PROVE ContentTypes'
  <2>1. [docs |-> {directText}, category |-> category]
          \in [docs : SUBSET Docs, category : Categories]
    BY <1>0, <1>4 DEF ProcessText, ContentTypes
  <2>2. sent' \in [Docs -> Nat]
    BY <1>3, <1>4 DEF ProcessText
  <2> QED BY <1>0, <1>4, <2>1, <2>2 DEF ProcessText, ContentTypes
<1>5. ASSUME ProcessFiles PROVE ContentTypes'
  <2>1. jobs = {}
    BY <1>5 DEF ProcessFiles, UploadEnabled, UInv
  <2>2. Cardinality(jobs) + 1 \in Nat
    BY <2>1, FS_EmptySet
  <2>3. [no |-> Cardinality(jobs) + 1, files |-> uploadedFiles, category |-> category]
          \in [no : Nat, files : SUBSET Files, category : Categories]
    BY <1>0, <2>2 DEF ContentTypes
  <2> QED BY <1>0, <1>5, <2>3 DEF ProcessFiles, ContentTypes
<1>6. ASSUME NEW j \in jobs, FinishJob(j) PROVE ContentTypes'
  <2>1. [docs |-> j.files, category |-> j.category]
          \in [docs : SUBSET Docs, category : Categories]
    BY <1>0 DEF ContentTypes
  <2>2. sent' \in [Docs -> Nat]
    BY <1>3, <1>6 DEF FinishJob
  <2> QED BY <1>0, <1>6, <2>1, <2>2 DEF FinishJob, UploadingAfter, ContentTypes
<1>7. ASSUME NEW u \in uploads, UploadReaches(u) \/ UploadFails(u) PROVE ContentTypes'
  BY <1>0, <1>7 DEF UploadReaches, UploadFails, ContentTypes
<1>8. ASSUME UNCHANGED contentPanel PROVE ContentTypes'
  BY <1>0, <1>8 DEF contentPanel, ContentTypes
<1>9. ASSUME ContentUser PROVE ContentTypes'
  BY <1>1, <1>2, <1>4, <1>5, <1>9 DEF ContentUser
<1>10. ASSUME ContentNetwork PROVE ContentTypes'
  BY <1>6, <1>7, <1>10 DEF ContentNetwork
<1> QED BY <1>8, <1>9, <1>10 DEF Next, User, Network, IndexChanges, OnCategories, OnSearch,
        OnServer, vars

\* The types are kept.
LEMMA TypesStep == UInv /\ Types /\ [Next]_vars => Types'
<1> SUFFICES ASSUME UInv, Types, [Next]_vars PROVE Types'
  OBVIOUS
<1>1. events' \in 0 .. MaxEvents
  <2>1. MaxEvents \in Nat /\ events \in 0 .. MaxEvents
    BY WebPageAssumption DEF Types
  <2>2. events' = events \/ (events < MaxEvents /\ events' = events + 1)
    BY DEF Next, User, Network, IndexChanges, vars
  <2> QED BY <2>1, <2>2
<1> QED BY <1>1, AppTypesStep, SearchTypesStep, ContentTypesStep DEF Types

\* The page, the calls under way and the server's answers hold what they should:
\* lists of categories, pages of documents, queries.
THEOREM TypeCorrect == Spec => []TypeOK
<1>1. Init => UInv /\ Types
  BY UInvInit, TypesInit
<1>2. UInv /\ Types /\ [Next]_vars => (UInv /\ Types)'
  BY UInvStep, TypesStep
<1>3. Types => TypeOK
  BY TypesMean
<1> QED BY <1>1, <1>2, <1>3, PTL DEF Spec

-----------------------------------------------------------------------------
(* The selected category.                                                    *)

\* An item that is added to a list is on it, beside the others.
LEMMA NamesOfAppend ==
  ASSUME NEW S, NEW list \in Seq(S), NEW c \in S
  PROVE  Names(Append(list, c)) = Names(list) \union {c}
<1> DEFINE longer == Append(list, c)
<1>1. /\ DOMAIN longer = 1 .. Len(list) + 1
      /\ \A i \in 1 .. Len(list) : longer[i] = list[i]
      /\ longer[Len(list) + 1] = c
      /\ DOMAIN list = 1 .. Len(list)
      /\ Len(list) \in Nat
  OBVIOUS
<1> HIDE DEF longer
<1>2. Names(longer) = Names(list) \union {c}
  BY <1>1 DEF Names
<1> QED BY <1>2 DEF longer

\* Whatever the mount effect, the list and its delete buttons do to it.
LEMMA SelectedKnownStep ==
  ASSUME Types, SelectedKnown, [Next]_vars
  PROVE  SelectedKnown'
<1>0. categories \in Seq(Categories)
  BY DEF Types, AppTypes
<1>1. ASSUME UNCHANGED <<app, removed>> PROVE SelectedKnown'
  BY <1>1 DEF SelectedKnown, app
<1>2. ASSUME NEW c \in Categories, handleAddCategory(c) PROVE SelectedKnown'
  BY <1>0, <1>2, NamesOfAppend DEF handleAddCategory, SelectedKnown
<1>3. ASSUME NEW c \in Categories, setSelectedCategory(c) PROVE SelectedKnown'
  BY <1>3 DEF setSelectedCategory, SelectedKnown
<1>4. ASSUME NEW c \in Categories, handleDeleteCategory(c) PROVE SelectedKnown'
  BY <1>4 DEF handleDeleteCategory, SelectedKnown
<1>5. ASSUME NEW l, NEW names \in Seq(Categories), ShowListing(l, names) PROVE SelectedKnown'
  <2>1. Existing(names) \in Seq(Categories) /\ Existing(names) # <<>>
    BY AppAssumption DEF Existing
  <2>2. 1 \in DOMAIN Existing(names)
    BY <2>1
  <2> QED BY <1>5, <2>2 DEF ShowListing, SelectFirst, SelectedKnown, Names
<1>6. ASSUME NEW l \in listings, Listing(l) PROVE SelectedKnown'
  <2>1. <<>> \in Seq(Categories) /\ (l.reply # Waiting => l.reply \in Seq(Categories))
    BY DEF Types, AppTypes
  <2>2. CASE ServeListing(l) /\ UNCHANGED categoryPanel
    BY <2>2 DEF ServeListing, categoryPanel, SelectedKnown
  <2> QED BY <1>5, <1>6, <2>1, <2>2 DEF Listing, ListingAnswered, ListingFails
<1>7. ASSUME NEW c \in categoryDeletes, DeleteCategoryReaches(c) \/ DeleteCategoryFails(c)
      PROVE  SelectedKnown'
  BY <1>1, <1>7 DEF DeleteCategoryReaches, DeleteCategoryFails
<1>8. ASSUME OnSearch, SearchUser \/ SearchNetwork PROVE SelectedKnown'
  <2>1. UNCHANGED app
    BY <1>8 DEF SearchUser, SearchNetwork, handlePressSearch, handleNext, handlePrevious,
       handleSearch, TypeQuery, handleDeleteDocument, Call, Serve, Answer, AnswerFails,
       ShowResults, DeleteReaches, DeleteFails
  <2> QED BY <1>1, <1>8, <2>1 DEF OnSearch, categoryPanel
<1>9. ASSUME OnContent, ContentUser \/ ContentNetwork PROVE SelectedKnown'
  <2>1. UNCHANGED app
    BY <1>9 DEF ContentUser, ContentNetwork, AddFile, handleRemoveFile, TypeText,
       ProcessText, ProcessFiles, FinishJob, UploadReaches, UploadFails
  <2> QED BY <1>1, <1>9, <2>1 DEF OnContent, categoryPanel
<1>10. ASSUME UNCHANGED vars PROVE SelectedKnown'
  BY <1>1, <1>10 DEF vars, categoryPanel
<1>11. ASSUME IndexChanges PROVE SelectedKnown'
  BY <1>1, <1>11 DEF IndexChanges, Refile, OnServer, categoryPanel
<1> QED BY <1>2, <1>3, <1>4, <1>6, <1>7, <1>8, <1>9, <1>10, <1>11
        DEF Next, User, Network, CategoryUser, CategoryNetwork

\* The selected category is on the list or one the user has deleted, however often
\* the mount effect is answered and whatever is added and deleted in between.
THEOREM SelectedKnownHolds == Spec => []SelectedKnown
<1>1. Init => UInv /\ Types /\ SelectedKnown
  <2>1. Init => SelectedKnown
    BY DEF Init, AppInit, SelectedKnown, Names
  <2> QED BY <2>1, UInvInit, TypesInit
<1>2. UInv /\ Types /\ SelectedKnown /\ [Next]_vars => (UInv /\ Types /\ SelectedKnown)'
  BY UInvStep, TypesStep, SelectedKnownStep
<1> QED BY <1>1, <1>2, PTL DEF Spec

-----------------------------------------------------------------------------
(* The walk through the pages.                                               *)

\* A page of the search that was sent last, by its number.
AskedPage(n) == Page([asked EXCEPT !.offset = Offset(n)])

\* A search for it is under way, and its answer, if it has one, is still right.
Coming(n) ==
    \E s \in searches :
      /\ s.query.category = asked.category /\ s.query.text = asked.text
      /\ s.query.offset = Offset(n)
      /\ s.reply = Waiting \/ s.reply = Page(s.query)

\* While nothing disturbs the walk, every page up to the current one has been shown
\* or is coming, whatever the order of the answers and of Next and Previous.
WalkInv ==
    calm => /\ asked.category = category /\ asked.text = searchQuery
            /\ \A n \in 1 .. currentPage :
                 {x.doc : x \in AskedPage(n)} \subseteq seen \/ Coming(n)

\* A page is what the query reaches of what is stored, cut out by the offset.
LEMMA SamePage ==
  ASSUME NEW p, NEW q, p.category = q.category, p.text = q.text, p.offset = q.offset
  PROVE  Page(p) = Page(q)
  BY DEF Page, Hits, Position

\* A page changes only with what is stored and with the index.
LEMMA PageStays == ASSUME UNCHANGED <<stored, ranking>>, NEW q PROVE Page(q)' = Page(q)
  BY DEF Page, Hits, Position

\* The pages asked for are those of the words last sent.
LEMMA AskedPageOf ==
  ASSUME asked \in Query, NEW n, NEW q,
         q.category = asked.category, q.text = asked.text, q.offset = Offset(n)
  PROVE  AskedPage(n) = Page(q)
<1> DEFINE p == [asked EXCEPT !.offset = Offset(n)]
<1>1. p.category = asked.category /\ p.text = asked.text /\ p.offset = Offset(n)
  BY DEF Query
<1> HIDE DEF p
<1>2. Page(p) = Page(q)
  BY <1>1, SamePage
<1> QED BY <1>2 DEF AskedPage, p

\* A page, cut out of any set of documents by any ranking of them.
PageIn(S, r, c, t, o) ==
    LET hits == {x \in S : x.category = c /\ x.doc \in DOMAIN r[t]}
    IN  {x \in hits : Cardinality({y \in hits : r[t][y.doc] < r[t][x.doc]})
                        \in o .. o + itemsPerPage - 1}

\* Another search with the same words leaves the pages what they are.
LEMMA AskedPageStays ==
  ASSUME asked \in Query, asked' \in Query, UNCHANGED <<stored, ranking>>, NEW n,
         asked'.category = asked.category, asked'.text = asked.text
  PROVE  AskedPage(n)' = AskedPage(n)
<1>1. LET q == [asked EXCEPT !.offset = Offset(n)]
      IN  /\ AskedPage(n) = PageIn(stored, ranking, q.category, q.text, q.offset)
          /\ q.category = asked.category /\ q.text = asked.text /\ q.offset = Offset(n)
  <2>1. LET q == [asked EXCEPT !.offset = Offset(n)]
        IN  AskedPage(n) = PageIn(stored, ranking, q.category, q.text, q.offset)
    BY DEF AskedPage, Page, Hits, Position, PageIn
  <2> QED BY <2>1 DEF Query
<1>2. LET q == [asked' EXCEPT !.offset = Offset(n)]
      IN  /\ AskedPage(n)' = PageIn(stored', ranking', q.category, q.text, q.offset)
          /\ q.category = asked'.category /\ q.text = asked'.text /\ q.offset = Offset(n)
  <2>1. LET q == [asked' EXCEPT !.offset = Offset(n)]
        IN  AskedPage(n)' = PageIn(stored', ranking', q.category, q.text, q.offset)
    BY DEF AskedPage, Page, Hits, Position, PageIn, Offset
  <2> QED BY <2>1 DEF Query
<1> QED BY <1>1, <1>2

\* Steps that leave alone what the walk is about.
LEMMA WalkRests ==
  ASSUME Types, Types', WalkInv, calm' => calm,
         calm' => UNCHANGED <<category, stored, ranking, searchQuery, currentPage,
                            searches, asked, seen>>
  PROVE  WalkInv'
<1> SUFFICES ASSUME calm' PROVE WalkInv'
  BY DEF WalkInv
<1>1. asked \in Query /\ asked' \in Query
  BY DEF Types, SearchTypes
<1>2. \A n : AskedPage(n)' = AskedPage(n)
  BY <1>1, AskedPageStays
<1>3. ASSUME NEW n, Coming(n) PROVE Coming(n)'
  <2>1. PICK s \in searches : /\ s.query.category = asked.category
                              /\ s.query.text = asked.text
                              /\ s.query.offset = Offset(n)
                              /\ s.reply = Waiting \/ s.reply = Page(s.query)
    BY <1>3 DEF Coming
  <2>2. Page(s.query)' = Page(s.query)
    BY PageStays
  <2> QED BY <2>1, <2>2 DEF Coming, Offset
<1> QED BY <1>2, <1>3 DEF WalkInv

\* A search for a page, when the pages before it have been shown or are coming.
LEMMA WalkSearches ==
  ASSUME Types, Types', NEW page \in Nat \ {0}, handleSearch(page),
         calm' => \A n \in 1 .. page : n = page \/
                    /\ asked.category = category /\ asked.text = searchQuery
                    /\ {x.doc : x \in AskedPage(n)} \subseteq seen' \/ Coming(n)
  PROVE  WalkInv'
<1> DEFINE q == [no |-> asked.no + 1, category |-> category, text |-> searchQuery,
                 offset |-> Offset(page)]
           s == [query |-> q, reply |-> Waiting]
<1>1. /\ searches' = searches \union {s}
      /\ asked' = q /\ currentPage' = page
      /\ UNCHANGED <<category, stored, ranking, searchQuery>>
  BY DEF handleSearch, app, server
<1>2. /\ s.query.category = category /\ s.query.text = searchQuery
      /\ s.query.offset = Offset(page) /\ s.reply = Waiting
      /\ asked'.category = category /\ asked'.text = searchQuery
  BY <1>1
<1> HIDE DEF q, s
<1>3. asked \in Query /\ asked' \in Query
  BY DEF Types, SearchTypes
<1>4. Coming(page)'
  BY <1>1, <1>2 DEF Coming, Offset
<1>5. ASSUME NEW n, asked.category = category, asked.text = searchQuery
      PROVE  /\ AskedPage(n)' = AskedPage(n)
             /\ Coming(n) => Coming(n)'
  <2>1. AskedPage(n)' = AskedPage(n)
    BY <1>1, <1>2, <1>3, <1>5, AskedPageStays
  <2>2. ASSUME Coming(n) PROVE Coming(n)'
    <3>1. PICK t \in searches : /\ t.query.category = asked.category
                                /\ t.query.text = asked.text
                                /\ t.query.offset = Offset(n)
                                /\ t.reply = Waiting \/ t.reply = Page(t.query)
      BY <2>2 DEF Coming
    <3>2. Page(t.query)' = Page(t.query)
      BY <1>1, PageStays
    <3>3. t \in searches'
      BY <1>1
    <3> QED BY <1>2, <1>5, <3>1, <3>2, <3>3 DEF Coming, Offset
  <2> QED BY <2>1, <2>2
<1>6. ASSUME calm', NEW n \in 1 .. page
      PROVE  {x.doc : x \in AskedPage(n)'} \subseteq seen' \/ Coming(n)'
  BY <1>4, <1>5, <1>6
<1> QED BY <1>1, <1>2, <1>6 DEF WalkInv

\* What the user does in the search panel.
LEMMA WalkUser == ASSUME Types, Types', WalkInv, SearchUser PROVE WalkInv'
<1>1. currentPage \in Nat \ {0}
  BY DEF Types, SearchTypes
<1>2. CASE handlePressSearch
  BY <1>2, WalkSearches DEF handlePressSearch
<1>3. ASSUME NEW page \in Nat \ {0}, handleSearch(page), page <= currentPage + 1,
             UNCHANGED <<seen, calm>>
      PROVE  WalkInv'
  <2>1. \A n \in 1 .. page : n = page \/ n \in 1 .. currentPage
    BY <1>1, <1>3
  <2> QED BY <1>3, <2>1, WalkSearches DEF WalkInv
<1>4. CASE handleNext
  BY <1>1, <1>3, <1>4 DEF handleNext
<1>5. CASE handlePrevious
  <2>1. currentPage - 1 \in Nat \ {0} /\ currentPage - 1 <= currentPage + 1
    BY <1>1, <1>5 DEF handlePrevious, HasPrevious
  <2> QED BY <1>3, <1>5, <2>1 DEF handlePrevious
<1>6. ASSUME NEW q \in Queries, TypeQuery(q) PROVE WalkInv'
  BY <1>6 DEF TypeQuery, WalkInv
<1>7. ASSUME NEW x \in StoredDocument, handleDeleteDocument(x) PROVE WalkInv'
  BY <1>7, WalkRests DEF handleDeleteDocument, app, server
<1> QED BY <1>2, <1>4, <1>5, <1>6, <1>7 DEF SearchUser

\* The server reads a page.
LEMMA WalkServed ==
  ASSUME Types, Types', SearchShape, WalkInv, NEW s \in searches, Serve(s)
  PROVE  WalkInv'
<1> DEFINE t == [query |-> s.query, reply |-> Page(s.query)]
<1>1. /\ searches' = (searches \ {s}) \union {t}
      /\ UNCHANGED <<category, stored, ranking, searchQuery, currentPage, asked, seen,
                  calm>>
  BY DEF Serve, app, server, SearchShape
<1>2. t.query = s.query /\ t.reply = Page(s.query)
  OBVIOUS
<1> HIDE DEF t
<1>3. asked \in Query /\ asked' \in Query
  BY DEF Types, SearchTypes
<1>4. \A n : AskedPage(n)' = AskedPage(n)
  BY <1>1, <1>3, AskedPageStays
<1>5. ASSUME NEW n, Coming(n) PROVE Coming(n)'
  <2>1. PICK w \in searches : /\ w.query.category = asked.category
                              /\ w.query.text = asked.text
                              /\ w.query.offset = Offset(n)
                              /\ w.reply = Waiting \/ w.reply = Page(w.query)
    BY <1>5 DEF Coming
  <2>2. Page(w.query)' = Page(w.query)
    BY <1>1, PageStays
  <2>3. CASE w = s
    BY <1>1, <1>2, <2>1, <2>2, <2>3 DEF Coming, Offset
  <2>4. CASE w # s
    BY <1>1, <2>1, <2>2, <2>4 DEF Coming, Offset
  <2> QED BY <2>3, <2>4
<1> QED BY <1>1, <1>4, <1>5 DEF WalkInv

\* A page is shown.
LEMMA WalkAnswered ==
  ASSUME Types, Types', WalkInv, NEW s \in searches, Answer(s)
  PROVE  WalkInv'
<1>1. /\ searches' = searches \ {s} /\ s.reply # Waiting
      /\ seen' = seen \union {x.doc : x \in s.reply}
      /\ UNCHANGED <<category, stored, ranking, searchQuery, currentPage, asked, calm>>
  BY DEF Answer, ShowResults, app, server
<1>2. asked \in Query /\ asked' \in Query
  BY DEF Types, SearchTypes
<1>3. \A n : AskedPage(n)' = AskedPage(n)
  BY <1>1, <1>2, AskedPageStays
<1>4. ASSUME NEW n, Coming(n) PROVE {x.doc : x \in AskedPage(n)} \subseteq seen' \/ Coming(n)'
  <2>1. PICK w \in searches : /\ w.query.category = asked.category
                              /\ w.query.text = asked.text
                              /\ w.query.offset = Offset(n)
                              /\ w.reply = Waiting \/ w.reply = Page(w.query)
    BY <1>4 DEF Coming
  <2>2. Page(w.query)' = Page(w.query)
    BY <1>1, PageStays
  <2>3. CASE w = s
    <3>1. AskedPage(n) = s.reply
      BY <1>1, <1>2, <2>1, <2>3, AskedPageOf
    <3> QED BY <1>1, <3>1
  <2>4. CASE w # s
    BY <1>1, <2>1, <2>2, <2>4 DEF Coming, Offset
  <2> QED BY <2>3, <2>4
<1> QED BY <1>1, <1>3, <1>4 DEF WalkInv

\* Every step keeps the account of the walk.
LEMMA WalkStep == ASSUME Types, Types', SearchShape, WalkInv, [Next]_vars PROVE WalkInv'
<1>1. ASSUME CategoryEffect PROVE WalkInv'
  BY <1>1, WalkRests DEF CategoryEffect
<1>2. ASSUME NEW s \in searches, AnswerFails(s) PROVE WalkInv'
  BY <1>2 DEF AnswerFails, WalkInv
<1>3. ASSUME NEW x \in documentDeletes, DeleteReaches(x) PROVE WalkInv'
  BY <1>3 DEF DeleteReaches, WalkInv
<1>4. ASSUME NEW x \in documentDeletes, DeleteFails(x) PROVE WalkInv'
  BY <1>4, WalkRests DEF DeleteFails, app, server
<1>5. ASSUME UNCHANGED vars PROVE WalkInv'
  BY <1>5, WalkRests DEF vars, searchPanel, app, server
<1>6. ASSUME SearchNetwork PROVE WalkInv'
  BY <1>2, <1>3, <1>4, <1>6, WalkServed, WalkAnswered DEF SearchNetwork, Call
<1> QED BY <1>1, <1>5, <1>6, WalkUser DEF Next, User, Network, IndexChanges, OnCategories,
        OnContent, OnServer

\* Pages of k documents cover every place before the end of the last one.
LEMMA PageNumber ==
  ASSUME NEW p \in Nat, NEW m \in Nat, NEW k \in Nat \ {0}, p < m * k
  PROVE  \E n \in 1 .. m : p \in (n - 1) * k .. (n - 1) * k + k - 1
<1> DEFINE S == {n \in Nat : p < n * k}
<1>1. PICK n \in S : \A i \in S : ~ (i < n)
  <2>1. IsWellFoundedOn(OpToRel(<, Nat), Nat)
    BY NatLessThanWellFounded
  <2>2. m \in S /\ S \subseteq Nat
    OBVIOUS
  <2>3. \E n \in S : \A i \in Nat : <<i, n>> \in OpToRel(<, Nat) => i \notin S
    BY <2>1, <2>2, WFMin
  <2> QED BY <2>2, <2>3 DEF OpToRel
<1>2. n \in Nat /\ p < n * k /\ m \in S
  BY <1>1
<1>3. n # 0
  BY <1>2
<1>4. n - 1 \in Nat /\ n - 1 < n
  BY <1>2, <1>3
<1>5. ~ (p < (n - 1) * k)
  BY <1>1, <1>4
<1>6. PICK h \in Nat : h = (n - 1) * k
  BY <1>4
<1>7. n * k = h + k
  BY <1>2, <1>4, <1>6
<1>8. p \in h .. h + k - 1
  BY <1>2, <1>5, <1>6, <1>7
<1>9. n <= m
  BY <1>1, <1>2
<1> QED BY <1>2, <1>3, <1>6, <1>8, <1>9

\* A place among the hits is a number.
LEMMA PositionType ==
  ASSUME AppTypes, NEW q, NEW x PROVE Position(x, q) \in Nat
<1> DEFINE H == Hits(q)
           B == {y \in H : ranking[q.text][y.doc] < ranking[q.text][x.doc]}
           f == [y \in H |-> y.doc]
<1>1. f \in Injection(H, Docs)
  BY DEF Hits, AppTypes, StoredDocument, Injection, IsInjective
<1> HIDE DEF f
<1>2. IsFiniteSet(H)
  <2> HIDE DEF H
  <2> QED BY <1>1, FS_Injection, AppAssumption
<1>3. IsFiniteSet(B) /\ Cardinality(B) \in Nat
  <2>1. B \subseteq H
    OBVIOUS
  <2> HIDE DEF B, H
  <2> QED BY <1>2, <2>1, FS_Subset, FS_CardinalityType
<1> QED BY <1>3 DEF Position

\* When no search is under way, a page that was shown or is coming was shown.
LEMMA WalkEnds == ASSUME Types, WalkInv PROVE WalkIsComplete
<1> SUFFICES ASSUME calm, searches = {}, NEW x \in FirstPages(asked, currentPage)
             PROVE  x.doc \in seen
  BY DEF WalkIsComplete
<1> DEFINE p == Position(x, asked)
<1>1. x \in Hits(asked) /\ p < currentPage * itemsPerPage
  BY DEF FirstPages
<1>2. p \in Nat /\ currentPage \in Nat /\ itemsPerPage \in Nat \ {0} /\ asked \in Query
  BY PositionType, SearchAssumption DEF Types, SearchTypes
<1>3. PICK n \in 1 .. currentPage :
        p \in (n - 1) * itemsPerPage .. (n - 1) * itemsPerPage + itemsPerPage - 1
  <2> HIDE DEF p
  <2> QED BY <1>1, <1>2, PageNumber
<1>4. x \in AskedPage(n)
  <2> DEFINE q == [asked EXCEPT !.offset = Offset(n)]
  <2>1. q.category = asked.category /\ q.text = asked.text /\ q.offset = Offset(n)
    BY <1>2 DEF Query
  <2> HIDE DEF q
  <2>2. Position(x, q) = p /\ x \in Hits(q)
    BY <1>1, <2>1 DEF Position, Hits
  <2>3. Position(x, q) \in q.offset .. q.offset + itemsPerPage - 1
    BY <1>3, <2>1, <2>2 DEF Offset
  <2>4. x \in Page(q)
    BY <2>2, <2>3 DEF Page
  <2> QED BY <2>4 DEF AskedPage, q
<1>5. ~ Coming(n)
  BY DEF Coming
<1> QED BY <1>3, <1>4, <1>5 DEF WalkInv

\* Walking through the pages shows every document there is under the centroid nearest
\* to the query, in whatever order the pages asked for are answered and however often
\* Next is pressed meanwhile, as long as neither the documents nor the index change.
THEOREM WalkIsCompleteHolds == Spec => []WalkIsComplete
<1> DEFINE All == UInv /\ Types /\ SInv /\ WalkInv
<1>1. Init => All
  <2>1. Init => WalkInv
    BY DEF Init, SearchPanelInit, WalkInv
  <2> QED BY <2>1, UInvInit, TypesInit, SInvInit
<1>2. All /\ [Next]_vars => All'
  <2>1. SInv => SearchShape
    BY DEF SInv
  <2> QED BY <2>1, UInvStep, TypesStep, SInvStep, WalkStep
<1>3. All => WalkIsComplete
  BY WalkEnds
<1> QED BY <1>1, <1>2, <1>3, PTL DEF Spec
===============================================================================
