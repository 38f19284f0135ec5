----------------------------- MODULE MCCatalog -----------------------------
(* Instances of Catalog for TLC.                                            *)
EXTENDS CatalogInvariant, TLC

CONSTANTS i1, u1, u2, s1, d1

OneProcess == [r \in Request |-> i1]

Deletes == {"deleteOwner", "deleteCategory", "deleteDocument"}

\* No client waits for another's answer.
Concurrent == [r \in Request |-> {}]

\* The second upload and the delete follow the first, the search follows both uploads.
SearchLast == [r \in Request |-> CASE r = u1 -> {} [] r = s1 -> {u1, u2} [] OTHER -> {u1}]

\* Uploads, a search and a delete.
Roles == [r \in Request |-> CASE r \in {u1, u2} -> {"upload"}
                              [] r = s1 -> {"search"}
                              [] OTHER -> Deletes]

\* An upload, a search, and another search or a delete.
SearchOrDelete == [r \in Request |-> CASE r = u1 -> {"upload"}
                                       [] r = s1 -> {"search"}
                                       [] OTHER -> Deletes \cup {"search"}]

\* An upload and one request of any operation.
UploadWithAny == [r \in Request |-> IF r = u1 THEN {"upload"} ELSE Kind]

\* The owner is deleted among two uploads and a search.
OwnerDeleted == [Roles EXCEPT ![d1] = {"deleteOwner"}]

\* Nothing tells one category name from another.
CategorySymmetry == Permutations(Category)
=============================================================================
