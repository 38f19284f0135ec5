---------------------------- MODULE CategoryPanel ----------------------------
(***************************************************************************)
(* The list of categories (ui/src/Categories.tsx) and DeleteCategory of    *)
(* ui/src/api/delete.ts.                                                   *)
(***************************************************************************)
EXTENDS App

VARIABLES
    categoryDeletes,    \* deletes of categories sent and not executed
    removed             \* history: categories the user deleted

categoryPanel == <<categoryDeletes, removed>>

MayAdd(c) == c # Blank /\ c \notin Names(categories)

\* The name in the box, trimmed; nothing is sent to the server.
handleAddCategory(c) ==
    /\ MayAdd(c)
    /\ categories' = Append(categories, c)
    /\ removed' = removed \ {c}
    /\ UNCHANGED <<category, listings, server, categoryDeletes>>

setSelectedCategory(c) ==
    /\ c \in Names(categories)
    /\ category' = c
    /\ UNCHANGED <<categories, listings, server, categoryPanel>>

DeleteVisible == Len(categories) > 1

\* The click on the button inside the list item: handleDeleteCategory runs, and
\* then, the click not being stopped there, the item's own onClick, which selects
\* the category of the item.  React applies both together and the last one stays.
handleDeleteCategory(c) ==
    /\ DeleteVisible
    /\ c \in Names(categories)
    /\ categoryDeletes' = categoryDeletes \union {c}
    /\ categories' = Without(categories, c)
    /\ category' = c
    /\ removed' = removed \union {c}
    /\ UNCHANGED <<listings, server>>

DeleteCategoryReaches(c) ==
    /\ categoryDeletes' = categoryDeletes \ {c}
    /\ ServeDeleteCategory(c)
    /\ UNCHANGED <<app, removed>>

\* DeleteCategory logs the failure; the list is not corrected.
DeleteCategoryFails(c) ==
    /\ categoryDeletes' = categoryDeletes \ {c}
    /\ UNCHANGED <<app, server, removed>>

\* What a listing brings back is in the list again.
TrackListing ==
    /\ removed' = removed \ Names(categories')
    /\ UNCHANGED categoryDeletes

CategoryPanelInit ==
    /\ categoryDeletes = {}
    /\ removed = {}

CategoryUser ==
    \E c \in Categories : \/ handleAddCategory(c)
                          \/ setSelectedCategory(c)
                          \/ handleDeleteCategory(c)

Listing(l) ==
    \/ ServeListing(l) /\ UNCHANGED categoryPanel
    \/ ListingAnswered(l) /\ TrackListing
    \/ ListingFails(l) /\ TrackListing

CategoryNetwork ==
    \/ \E l \in listings : Listing(l)
    \/ \E c \in categoryDeletes :
         DeleteCategoryReaches(c) \/ DeleteCategoryFails(c)
=============================================================================
