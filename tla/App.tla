--------------------------------- MODULE App ---------------------------------
(***************************************************************************)
(* The page (ui/src/App.tsx, main.tsx): the state it shares with its three *)
(* panels, what it does when it is mounted, and the server it talks to.    *)
(* A handler of the page runs to its end before the next event, so it is   *)
(* one step; the calls it makes are answered in steps of their own, in any *)
(* order, and the page is used in between.                                 *)
(***************************************************************************)
EXTENDS Naturals, FiniteSets, Functions, Sequences

CONSTANTS
    Docs,           \* files and texts; one that is added again is another one
    Categories,     \* names of categories
    Blank,          \* '', the category selected until the listing is answered
    General,        \* 'General', the category of an owner who has none
    Queries,        \* what the query box can hold
    Rankings,       \* what the server's index may come to: see ranking
    Mounts,         \* how often the mount effect runs: twice under StrictMode
    Waiting         \* the reply of a call the server has not served yet

ASSUME AppAssumption ==
    /\ IsFiniteSet(Docs)
    /\ {Blank, General} \subseteq Categories
    /\ Mounts \in Nat \ {0}
    /\ \A r \in Rankings : \A q \in Queries :
         /\ \E D \in SUBSET Docs : r[q] \in [D -> Nat]
         /\ IsInjective(r[q])

VARIABLES
    categories, category,   \* App.tsx: the list and the selected one
    listings,               \* calls of GetCategories not answered
    stored,                 \* server: documents with their category
    known,                  \* server: the owner's categories, oldest first
    ranking                 \* server: for a query, the documents that have an embedding
                            \* under the centroid nearest to it, by how near they come

app == <<categories, category, listings>>
server == <<stored, known, ranking>>

Names(list) == {list[i] : i \in DOMAIN list}

\* The items of a list other than c, in their order.
Without(list, c) ==
    LET kept == {i \in DOMAIN list : list[i] # c}
        Nth(n) == CHOOSE i \in kept : Cardinality({k \in kept : k < i}) = n - 1
    IN  [n \in 1 .. Cardinality(kept) |-> list[Nth(n)]]

StoredDocument == [doc : Docs, category : Categories]

(***************************************************************************)
(* The server, as the handlers of server/ leave it (module Catalog has     *)
(* their steps): an upload creates the category it names, a delete of a    *)
(* category takes its documents along.                                     *)
(***************************************************************************)
ServeUpload(docs, c) ==
    /\ stored' = stored \union {[doc |-> d, category |-> c] : d \in docs}
    /\ known' = IF c \in Names(known) THEN known ELSE Append(known, c)
    /\ UNCHANGED ranking

ServeDeleteCategory(c) ==
    /\ stored' = {x \in stored : x.category # c}
    /\ known' = Without(known, c)
    /\ UNCHANGED ranking

\* The document goes only if the category named is the one it is in.
ServeDeleteDocument(x) ==
    /\ stored' = stored \ {x}
    /\ UNCHANGED <<known, ranking>>

\* A refresh moves embeddings and centroids, and a cached list of centroids
\* expires: the same query finds other documents, or has them in another order.
Refile ==
    /\ ranking' \in Rankings \ {ranking}
    /\ UNCHANGED <<app, stored, known>>

(***************************************************************************)
(* The mount effect: const existingCategories = res?.category_names ?? [], *)
(* and 'General' when there is none.                                       *)
(***************************************************************************)
ServeListing(l) ==
    /\ l.reply = Waiting
    /\ listings' = (listings \ {l}) \union {[l EXCEPT !.reply = known]}
    /\ UNCHANGED <<categories, category, server>>

Existing(names) == IF names = <<>> THEN <<General>> ELSE names

\* (mutant) the list is filled and nothing of it selected
SelectNothing(existing) == category

SelectFirst(existing) == existing[1]

\* The list is overwritten, whatever was added to it or deleted meanwhile.
ShowListing(l, names) ==
    /\ listings' = listings \ {l}
    /\ categories' = Existing(names)
    /\ category' = SelectFirst(Existing(names))
    /\ UNCHANGED server

ListingAnswered(l) == l.reply # Waiting /\ ShowListing(l, l.reply)

\* GetCategories catches the error and returns undefined.
ListingFails(l) == ShowListing(l, <<>>)

AppInit ==
    /\ categories = <<Blank>>
    /\ category = Blank
    /\ listings = [no : 1 .. Mounts, reply : {Waiting}]
=============================================================================
