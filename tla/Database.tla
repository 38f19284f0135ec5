------------------------------ MODULE Database ------------------------------
(***************************************************************************)
(* The five tables of database/model.go as one record of sets of rows, and *)
(* the statements the server issues against them.  A vector, a document's   *)
(* text and a time stamp are abstracted away; what is left of a row is its   *)
(* primary key, its parents and the name or the upload it stands for.       *)
(*                                                                         *)
(* Primary keys are autoincrement columns, never reused: next is the first  *)
(* key not handed out yet.  One counter serves the five tables, because the *)
(* code never compares keys of two tables.                                  *)
(***************************************************************************)
EXTENDS Naturals

CONSTANTS
  Owner,        \* owner names
  Category,     \* category names
  Request,      \* the client requests, each an upload's identity as well
  ForeignKeys   \* the engine enforces the declared constraints: PostgreSQL
                \* does, SQLite does not (no connection turns them on)

ASSUME ForeignKeysAssumption == ForeignKeys \in BOOLEAN

OwnerRow == [id : Nat, name : Owner]
CategoryRow == [id : Nat, name : Category, owner : Nat]
CentroidRow == [id : Nat, category : Nat]
DocumentRow == [id : Nat, category : Nat, by : Request]
EmbeddingRow == [id : Nat, document : Nat, centroid : Nat]

Tables == [owners : SUBSET OwnerRow,
           categories : SUBSET CategoryRow,
           centroids : SUBSET CentroidRow,
           documents : SUBSET DocumentRow,
           embeddings : SUBSET EmbeddingRow,
           next : Nat]

\* The tables AutoMigrate creates.
EmptyTables == [owners |-> {}, categories |-> {}, centroids |-> {},
                documents |-> {}, embeddings |-> {}, next |-> 1]

Ids(rows) == {row.id : row \in rows}

-----------------------------------------------------------------------------
(* Inserts.  Each statement is refused when it breaks a unique index or an  *)
(* enforced foreign key, and is atomic.                                     *)

OwnerFits(d, name) == \A o \in d.owners : o.name # name

CategoryFits(d, name, owner) ==
  /\ \A c \in d.categories : ~(c.name = name /\ c.owner = owner)
  /\ ForeignKeys => owner \in Ids(d.owners)

ChildFits(d, category) == ForeignKeys => category \in Ids(d.categories)

EmbeddingsFit(d, rows) ==
  ForeignKeys => \A e \in rows : /\ e.document \in Ids(d.documents)
                                 /\ e.centroid \in Ids(d.centroids)

-----------------------------------------------------------------------------
(* DELETE of owner rows os, category rows cs or document rows ds, with the   *)
(* children the CASCADE constraints take along where they are enforced.     *)

\* (mutant) the constraint of Document.Embeddings is missing
DropLeavesEmbeddings(d, os, cs, ds) ==
  LET under(parents, id) == ForeignKeys /\ id \in Ids(parents)
      categories == cs \cup {c \in d.categories : under(os, c.owner)}
  IN  [d EXCEPT !.owners = @ \ os,
                !.categories = @ \ categories,
                !.documents = {x \in @ \ ds : ~under(categories, x.category)}]

Drop(d, os, cs, ds) ==
  LET under(parents, id) == ForeignKeys /\ id \in Ids(parents)
      categories == cs \cup {c \in d.categories : under(os, c.owner)}
      centroids  == {c \in d.centroids : under(categories, c.category)}
      documents  == ds \cup {x \in d.documents : under(categories, x.category)}
      embeddings == {e \in d.embeddings : \/ under(documents, e.document)
                                          \/ under(centroids, e.centroid)}
  IN  [owners |-> d.owners \ os,
       categories |-> d.categories \ categories,
       centroids |-> d.centroids \ centroids,
       documents |-> d.documents \ documents,
       embeddings |-> d.embeddings \ embeddings,
       next |-> d.next]
=============================================================================
