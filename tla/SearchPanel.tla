----------------------------- MODULE SearchPanel -----------------------------
(***************************************************************************)
(* The search panel (ui/src/Search.tsx) with Search of ui/src/api/search.ts *)
(* and DeleteDocument of ui/src/api/delete.ts.  A page of results is the   *)
(* set of its hits: nothing below depends on the order inside it.  A hit   *)
(* keeps the category it was found in, which the page does not see.        *)
(***************************************************************************)
EXTENDS App

CONSTANTS
    NoQuery,        \* the empty box
    itemsPerPage,   \* Search.tsx: const itemsPerPage = 3
    Undefined       \* searchResults before the first answer

ASSUME SearchAssumption ==
    /\ NoQuery \in Queries
    /\ itemsPerPage \in Nat \ {0}

VARIABLES
    searchQuery, searchResults, searching, currentPage,
    searches,        \* searches sent and not answered
    documentDeletes, \* deletes of documents sent and not executed
    asked,           \* history: the last search sent
    seen,            \* history: documents shown since Search was pressed
    calm,            \* history: nothing disturbed the walk through the pages
    crossed          \* history: a search was in flight when the category changed

searchPanel == <<searchQuery, searchResults, searching, currentPage, searches,
                 documentDeletes, asked, seen, calm, crossed>>

Query == [no : Nat, category : Categories, text : Queries, offset : Nat]

(***************************************************************************)
(* What the server answers.  The page names no number of centroids, so the *)
(* embeddings under the nearest one are searched and no others; of their   *)
(* documents the offset best are skipped and the next count returned       *)
(* (server/search.go).                                                     *)
(***************************************************************************)
Hits(q) == {x \in stored : x.category = q.category /\ x.doc \in DOMAIN ranking[q.text]}

Position(x, q) ==
    Cardinality({y \in Hits(q) : ranking[q.text][y.doc] < ranking[q.text][x.doc]})

Page(q) == {x \in Hits(q) : Position(x, q) \in q.offset .. q.offset + itemsPerPage - 1}

FirstPages(q, n) == {x \in Hits(q) : Position(x, q) < n * itemsPerPage}

(***************************************************************************)
(* handleSearch sends the query as it stands in the box now.               *)
(***************************************************************************)
\* (mutant) the page number is multiplied as it is
OffsetPast(page) == page * itemsPerPage

Offset(page) == (page - 1) * itemsPerPage

handleSearch(page) ==
    LET q == [no       |-> asked.no + 1,
              category |-> category,
              text     |-> searchQuery,
              offset   |-> Offset(page)]
    IN  /\ searching' = TRUE
        /\ currentPage' = page
        /\ searches' = searches \union {[query |-> q, reply |-> Waiting]}
        /\ asked' = q
        /\ UNCHANGED <<app, server, searchQuery, searchResults, documentDeletes,
                       crossed>>

\* The Enter key calls it whether a search is running or not; the button,
\* which is disabled while searching, does nothing else.
handlePressSearch ==
    /\ handleSearch(1)
    /\ seen' = {}
    /\ calm' = TRUE

\* The button is disabled unless the page is full, but not while searching.
handleNext ==
    /\ searchResults # Undefined
    /\ Cardinality(searchResults) = itemsPerPage
    /\ handleSearch(currentPage + 1)
    /\ UNCHANGED <<seen, calm>>

\* (mutant) the first page has a previous one
HasPreviousOnFirst == currentPage >= 1

HasPrevious == currentPage > 1

handlePrevious ==
    /\ searchResults # Undefined
    /\ HasPrevious
    /\ handleSearch(currentPage - 1)
    /\ UNCHANGED <<seen, calm>>

TypeQuery(q) ==
    /\ q # searchQuery
    /\ searchQuery' = q
    /\ calm' = FALSE
    /\ UNCHANGED <<app, server, searchResults, searching, currentPage, searches,
                   documentDeletes, asked, seen, crossed>>

\* The row goes at once; the delete is sent with the category selected now.
handleDeleteDocument(x) ==
    /\ searchResults # Undefined
    /\ x \in searchResults
    /\ documentDeletes' = documentDeletes
                            \union {[doc |-> x.doc, category |-> category]}
    /\ searchResults' = searchResults \ {x}
    /\ UNCHANGED <<app, server, searchQuery, searching, currentPage, searches,
                   asked, seen, calm, crossed>>

Serve(s) ==
    /\ s.reply = Waiting
    /\ searches' = (searches \ {s}) \union {[s EXCEPT !.reply = Page(s.query)]}
    /\ UNCHANGED <<app, server, searchQuery, searchResults, searching,
                   currentPage, documentDeletes, asked, seen, calm, crossed>>

\* (mutant) only the answer of the last search stops the spinner
SearchingForLast(q) == q # asked

SearchingAfter(q) == FALSE

\* The then-branch of handleSearch.  Whichever search it belongs to, the
\* answer replaces what is shown.
ShowResults(s, hits) ==
    /\ searches' = searches \ {s}
    /\ searchResults' = hits
    /\ searching' = SearchingAfter(s.query)
    /\ seen' = seen \union {x.doc : x \in hits}
    /\ UNCHANGED <<app, server, searchQuery, currentPage, documentDeletes, asked,
                   crossed>>

Answer(s) ==
    /\ s.reply # Waiting
    /\ ShowResults(s, s.reply)
    /\ UNCHANGED calm

\* A status that is not ok, a broken connection or a body that is no JSON:
\* Search of api/search.ts returns undefined, which shows an empty page.
AnswerFails(s) ==
    /\ ShowResults(s, {})
    /\ calm' = FALSE

\* The server deletes the document only if the category named is its own.
DeleteReaches(x) ==
    /\ documentDeletes' = documentDeletes \ {x}
    /\ ServeDeleteDocument(x)
    /\ calm' = FALSE
    /\ UNCHANGED <<app, searchQuery, searchResults, searching, currentPage,
                   searches, asked, seen, crossed>>

\* DeleteDocument catches the failure, logs it and tells nobody.
DeleteFails(x) ==
    /\ documentDeletes' = documentDeletes \ {x}
    /\ UNCHANGED <<app, server, searchQuery, searchResults, searching,
                   currentPage, searches, asked, seen, calm, crossed>>

\* (mutant) the effect is left out
ResultsKept == searchResults

ResultsCleared == Undefined

\* What a step of another panel, or of the server, does here: the effect on
\* [category] clears the results and leaves the rest.
CategoryEffect ==
    /\ searchResults' = IF category' = category THEN searchResults
                                                ELSE ResultsCleared
    /\ crossed' = IF category' = category THEN crossed ELSE searches # {}
    /\ calm' = (calm /\ category' = category /\ stored' = stored /\ ranking' = ranking)
    /\ UNCHANGED <<searchQuery, searching, currentPage, searches,
                   documentDeletes, asked, seen>>

SearchPanelInit ==
    /\ searchQuery = NoQuery
    /\ searchResults = Undefined
    /\ searching = FALSE
    /\ currentPage = 1
    /\ searches = {}
    /\ documentDeletes = {}
    /\ asked = [no |-> 0, category |-> category, text |-> searchQuery, offset |-> 0]
    /\ seen = {}
    /\ calm = FALSE
    /\ crossed = FALSE

SearchUser ==
    \/ handlePressSearch
    \/ handleNext
    \/ handlePrevious
    \/ \E q \in Queries : TypeQuery(q)
    \/ \E x \in StoredDocument : handleDeleteDocument(x)

Call(s) == Serve(s) \/ Answer(s) \/ AnswerFails(s)

SearchNetwork ==
    \/ \E s \in searches : Call(s)
    \/ \E x \in documentDeletes : DeleteReaches(x) \/ DeleteFails(x)
=============================================================================
