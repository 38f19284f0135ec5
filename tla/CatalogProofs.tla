--------------------------- MODULE CatalogProofs ---------------------------
(* Types of Catalog, for every value of the constants: TypeInv, the type       *)
(* invariant with what a handler holds at each place, is inductive.  Every     *)
(* action has a lemma; Refuse and Deliver, which several actions end in, have  *)
(* one of their own.                                                          *)
EXTENDS CatalogInvariant, TLAPS

USE DEF Stage, Ended, PC, Leader, Kind

-----------------------------------------------------------------------------
(* Where handlers go.                                                        *)

\* The first place of each kind of request.
LEMMA FirstStepValue ==
  ASSUME NEW kind \in Kind
  PROVE  /\ kind = "deleteOwner" => FirstStep(kind) = "delete"
         /\ kind = "names" => FirstStep(kind) = "lookup"
         /\ kind \notin {"deleteOwner", "names"} => FirstStep(kind) = "owner"
  BY DEF FirstStep

\* Where a handler goes with the rows of each stage.
LEMMA OnwardValue ==
  ASSUME NEW r \in Request, NEW rows, pc[r] \in Stage
  PROVE  /\ pc[r] = "owner" =>
              Onward(r, rows) = IF req[r].kind = "deleteCategory" THEN "delete"
                                                                  ELSE "category"
         /\ pc[r] = "category" =>
              Onward(r, rows) = IF req[r].kind = "deleteDocument" THEN "take"
                                                                  ELSE "centroids"
         /\ pc[r] = "centroids" =>
              Onward(r, rows) = IF req[r].kind = "upload" THEN "documents"
                                ELSE IF rows = {} THEN "ok" ELSE "probe"
  BY DEF Onward

\* An error ends a handler, except that a document delete looks its category up again.
LEMMA AfterErrorValue ==
  ASSUME NEW r \in Request, NEW error
  PROVE  /\ AfterError(r, error) \in {"take", "ok", "failed"}
         /\ AfterError(r, error) = "take" =>
              pc[r] = "category" /\ req[r].kind = "deleteDocument"
  BY DEF AfterError

\* The row type of each stage.
LEMMA RowsOfValue ==
  /\ RowsOf("owner") = OwnerRow
  /\ RowsOf("category") = CategoryRow
  /\ RowsOf("centroids") = CentroidRow
  BY DEF RowsOf

\* The rows of a stage are rows.
LEMMA RowsOfAny == \A s \in Stage : RowsOf(s) \subseteq AnyRow
  BY RowsOfValue DEF AnyRow

-----------------------------------------------------------------------------
(* Types and order.                                                          *)

\* An empty database and idle requests are typed and in order.
LEMMA InitTypes == Init => TypeInv
<1> SUFFICES ASSUME Init PROVE TypeInv
  OBVIOUS
<1>1. TypeOK
  BY DEF Init, TypeOK, EmptyTables, Tables, NotAsked, NothingHeld, NoScan
<1>2. InOrder
  BY DEF Init, InOrder, NothingHeld, NoScan
<1>3. NeverNothing
  BY DEF Init, NeverNothing, EmptyTables
<1> QED BY <1>1, <1>2, <1>3 DEF TypeInv

\* What an error does to the callers that get it.
LEMMA RefuseTypes ==
  ASSUME TypeInv, NEW callers \in SUBSET Request, NEW error,
         Refuse(callers, error), db' \in Tables, db'.next # 0,
         UNCHANGED <<replica, cache, req, got, docs, scan, shown, since>>,
         \A q \in callers : pc[q] \notin Ended \cup {"idle"}
  PROVE  TypeInv'
<1> USE DEF TypeInv
<1>1. TypeOK'
  BY AfterErrorValue DEF TypeOK, Refuse
<1>2. InOrder'
  <2> SUFFICES ASSUME NEW q \in Request PROVE InOrder!(q)'
    BY DEF InOrder
  <2>1. CASE q \notin callers
    BY <2>1 DEF TypeOK, Refuse, InOrder
  <2>2. CASE q \in callers
    <3>1. /\ pc'[q] \in {"take", "ok", "failed"}
          /\ flight'[q] = "none"
          /\ pc'[q] = "take" => pc[q] = "category" /\ req[q].kind = "deleteDocument"
      BY <2>2, AfterErrorValue DEF TypeOK, Refuse
    <3>2. UNCHANGED <<req, held, docs, scan, shown>>
      BY DEF Refuse
    <3> QED BY <2>2, <3>1, <3>2 DEF InOrder
  <2> QED BY <2>1, <2>2
<1>3. NeverNothing'
  BY AfterErrorValue DEF TypeOK, NeverNothing, Refuse
<1> QED BY <1>1, <1>2, <1>3

\* What the rows of a stage do to the callers that get them.
LEMMA DeliverTypes ==
  ASSUME TypeInv, NEW callers \in SUBSET Request, NEW stage \in Stage,
         NEW rows \in SUBSET RowsOf(stage), 
         stage # "centroids" => rows # {},
         \A q \in callers : pc[q] = stage,
         Deliver(callers, rows),
         UNCHANGED <<db, replica, req, got, docs, scan, shown, since>>,
         cache' \in [Instance -> SUBSET Entry],
         \A i \in Instance : \A e \in cache'[i] :
           e.rows \subseteq RowsOf(e.stage) /\ (e.stage # "centroids" => e.rows # {})
  PROVE  TypeInv'
<1> USE DEF TypeInv
<1>0. rows \in SUBSET AnyRow
  BY RowsOfAny
<1>a. \A q \in Request : pc'[q] = IF q \in callers THEN Onward(q, rows) ELSE pc[q]
  BY DEF Deliver
<1>b. \A q \in Request : flight'[q] = IF q \in callers THEN "none" ELSE flight[q]
  BY DEF Deliver
<1>c. /\ held' \in [Request -> [Stage -> SUBSET AnyRow]]
      /\ \A q \in Request \ callers : held'[q] = held[q]
      /\ \A q \in callers : /\ held'[q][stage] = rows
                            /\ \A s \in Stage \ {stage} : held'[q][s] = held[q][s]
  BY <1>0 DEF Deliver, TypeOK
<1>d. \A q \in callers : pc'[q] \in {"delete", "category", "take", "centroids", "documents", "ok", "probe"}
  BY <1>a, OnwardValue
<1>1. TypeOK'
  <2>1. pc' \in [Request -> PC] /\ flight' \in [Request -> Leader \cup {"none", "wait"}]
    BY <1>d, <1>a, <1>b DEF Deliver, TypeOK
  <2>2. \A r \in Request, s \in Stage : held'[r][s] \subseteq RowsOf(s)
    BY SMTT(30), <1>c DEF TypeOK
  <2>3. \A r \in Request : /\ flight'[r] # "none" => pc'[r] \in Stage
                           /\ flight'[r] = "save" => got'[r] \subseteq RowsOf(pc'[r])
                           /\ pc'[r] # "idle" => req'[r] \in Asked
    BY <1>a, <1>b DEF TypeOK
  <2> QED BY <1>c, <2>1, <2>2, <2>3 DEF TypeOK
<1>2. InOrder'
  <2> SUFFICES ASSUME NEW r \in Request PROVE InOrder!(r)'
    BY DEF InOrder
  <2>1. CASE r \notin callers
    BY <2>1, <1>a, <1>b, <1>c DEF InOrder
  <2>2. CASE r \in callers
    BY <2>2, <1>a, <1>b, <1>c, OnwardValue DEF InOrder
  <2> QED BY <2>1, <2>2
<1>3. NeverNothing'
  BY <1>a, <1>b DEF TypeOK, NeverNothing
<1> QED BY <1>1, <1>2, <1>3

\* A handler's id for a stage is the id of a row it holds.
LEMMA HeldRow ==
  ASSUME NEW r \in Request, NEW stage \in Stage, held[r][stage] # {}
  PROVE  \E row \in held[r][stage] : HeldId(r, stage) = row.id
  BY DEF HeldId

\* The id of a held row is a key.
LEMMA HeldIdNat ==
  ASSUME TypeOK, NEW r \in Request, NEW stage \in Stage, held[r][stage] # {}
  PROVE  HeldId(r, stage) \in Nat
<1>1. PICK row \in held[r][stage] : HeldId(r, stage) = row.id
  BY HeldRow
<1>2. row \in RowsOf(stage)
  BY DEF TypeOK
<1>3. row \in OwnerRow \/ row \in CategoryRow \/ row \in CentroidRow
  BY <1>2, RowsOfValue
<1>4. row.id \in Nat
  BY <1>3 DEF OwnerRow, CategoryRow, CentroidRow
<1> QED BY <1>1, <1>4

\* A key of one part is a sequence.
LEMMA OneInSeq == ASSUME NEW S, NEW x \in S PROVE <<x>> \in Seq(S)
  OBVIOUS

\* A key of two parts is a sequence.
LEMMA TwoInSeq == ASSUME NEW S, NEW x \in S, NEW y \in S PROVE <<x, y>> \in Seq(S)
  OBVIOUS

\* The cache key of each stage.
LEMMA KeyValue ==
  ASSUME NEW r \in Request
  PROVE  /\ pc[r] = "owner" => Key(r) = <<req[r].owner>>
         /\ pc[r] = "category" => Key(r) = <<HeldId(r, "owner"), req[r].category>>
         /\ pc[r] = "centroids" => Key(r) = <<HeldId(r, "category")>>
  BY DEF Key

\* A cache key is made of names and ids.
LEMMA KeyType ==
  ASSUME TypeInv, NEW r \in Request, pc[r] \in Stage
  PROVE  Key(r) \in Seq(Owner \cup Category \cup Nat)
<1>1. CASE pc[r] = "owner"
  <2> req[r].owner \in Owner
    BY <1>1 DEF TypeInv, TypeOK, Asked
  <2> QED BY <1>1, KeyValue, OneInSeq
<1>2. CASE pc[r] = "category"
  <2>1. req[r].category \in Category
    BY <1>2 DEF TypeInv, TypeOK, Asked
  <2>2. HeldId(r, "owner") \in Nat
    BY <1>2, HeldIdNat DEF TypeInv, InOrder
  <2> QED BY <1>2, <2>1, <2>2, KeyValue, TwoInSeq
<1>3. CASE pc[r] = "centroids"
  <2>1. HeldId(r, "category") \in Nat
    BY <1>3, HeldIdNat DEF TypeInv, InOrder
  <2> QED BY <1>3, <2>1, KeyValue, OneInSeq
<1> QED BY <1>1, <1>2, <1>3

\* A party is at one place and asks for one key.
LEMMA PartyFacts ==
  ASSUME NEW l \in Request
  PROVE  /\ Party(l) \in SUBSET Request
         /\ l \in Party(l)
         /\ \A q \in Party(l) : pc[q] = pc[l]
         /\ \A q \in Party(l) : Key(q) = Key(l)
  BY DEF Party, Sharing

\* What is read, the primary or the replica, is a set of tables.
LEMMA ViewType == ASSUME TypeOK PROVE View \in Tables
  BY DEF TypeOK, View

\* What the leader's query of each stage selects.
LEMMA FoundValue ==
  ASSUME NEW r \in Request
  PROVE  /\ pc[r] = "owner" => Found(r) = {o \in View.owners : o.name = req[r].owner}
         /\ pc[r] = "category" =>
              Found(r) = {c \in View.categories : /\ c.name = req[r].category
                                                 /\ c.owner = HeldId(r, "owner")}
         /\ pc[r] = "centroids" =>
              Found(r) = {c \in View.centroids : c.category = HeldId(r, "category")}
  BY DEF Found

\* A leader's query gives rows of its stage.
LEMMA FoundType ==
  ASSUME TypeOK, NEW r \in Request, pc[r] \in Stage
  PROVE  Found(r) \in SUBSET RowsOf(pc[r])
  BY FoundValue, RowsOfValue, ViewType DEF Tables

\* The row an upload creates at each stage.
LEMMA NewRowValue ==
  ASSUME NEW r \in Request
  PROVE  /\ pc[r] = "owner" => NewRow(r) = [id |-> db.next, name |-> req[r].owner]
         /\ pc[r] = "category" =>
              NewRow(r) = [id |-> db.next, name |-> req[r].category,
                           owner |-> HeldId(r, "owner")]
         /\ pc[r] = "centroids" =>
              NewRow(r) = [id |-> db.next, category |-> HeldId(r, "category")]
  BY DEF NewRow

\* A created row is one of its stage.
LEMMA NewRowType ==
  ASSUME TypeInv, NEW r \in Request, pc[r] \in Stage
  PROVE  NewRow(r) \in RowsOf(pc[r])
<1>0. db.next \in Nat /\ req[r] \in Asked
  BY DEF TypeInv, TypeOK, Tables
<1>1. CASE pc[r] = "owner"
  BY <1>0, <1>1, NewRowValue, RowsOfValue DEF OwnerRow, Asked
<1>2. CASE pc[r] = "category"
  <2> HeldId(r, "owner") \in Nat
    BY <1>2, HeldIdNat DEF TypeInv, InOrder
  <2> QED BY <1>0, <1>2, NewRowValue, RowsOfValue DEF CategoryRow, Asked
<1>3. CASE pc[r] = "centroids"
  <2> HeldId(r, "category") \in Nat
    BY <1>3, HeldIdNat DEF TypeInv, InOrder
  <2> QED BY <1>0, <1>3, NewRowValue, RowsOfValue DEF CentroidRow
<1> QED BY <1>1, <1>2, <1>3

\* An insert adds its row to the stage's table and moves next.
LEMMA InsertedFacts ==
  ASSUME TypeInv, NEW r \in Request, pc[r] \in Stage
  PROVE  /\ Inserted(r) \in Tables
         /\ Inserted(r).next = db.next + 1
         /\ Inserted(r).documents = db.documents
         /\ Inserted(r).embeddings = db.embeddings
         /\ Inserted(r).owners =
              IF pc[r] = "owner" THEN db.owners \cup {NewRow(r)} ELSE db.owners
         /\ Inserted(r).categories =
              IF pc[r] = "category" THEN db.categories \cup {NewRow(r)} ELSE db.categories
         /\ Inserted(r).centroids =
              IF pc[r] = "centroids" THEN db.centroids \cup {NewRow(r)} ELSE db.centroids
<1>0. db \in Tables /\ db.next + 1 \in Nat
  BY DEF TypeInv, TypeOK, Tables
<1>1. CASE pc[r] = "owner"
  <2>1. Inserted(r) = [db EXCEPT !.owners = @ \cup {NewRow(r)}, !.next = @ + 1]
    BY <1>1 DEF Inserted
  <2>2. db.owners \cup {NewRow(r)} \in SUBSET OwnerRow
    BY <1>0, <1>1, NewRowType, RowsOfValue DEF Tables
  <2>3. Inserted(r) \in Tables
    BY <1>0, <2>1, <2>2 DEF Tables
  <2> QED BY <1>0, <1>1, <2>1, <2>3 DEF Tables
<1>2. CASE pc[r] = "category"
  <2>1. Inserted(r) = [db EXCEPT !.categories = @ \cup {NewRow(r)}, !.next = @ + 1]
    BY <1>2 DEF Inserted
  <2>2. db.categories \cup {NewRow(r)} \in SUBSET CategoryRow
    BY <1>0, <1>2, NewRowType, RowsOfValue DEF Tables
  <2>3. Inserted(r) \in Tables
    BY <1>0, <2>1, <2>2 DEF Tables
  <2> QED BY <1>0, <1>2, <2>1, <2>3 DEF Tables
<1>3. CASE pc[r] = "centroids"
  <2>1. Inserted(r) = [db EXCEPT !.centroids = @ \cup {NewRow(r)}, !.next = @ + 1]
    BY <1>3 DEF Inserted
  <2>2. db.centroids \cup {NewRow(r)} \in SUBSET CentroidRow
    BY <1>0, <1>3, NewRowType, RowsOfValue DEF Tables
  <2>3. Inserted(r) \in Tables
    BY <1>0, <2>1, <2>2 DEF Tables
  <2> QED BY <1>0, <1>3, <2>1, <2>3 DEF Tables
<1> QED BY <1>1, <1>2, <1>3

\* A delete takes rows and adds none.
LEMMA DropFacts ==
  ASSUME NEW d \in Tables, NEW os, NEW cs, NEW ds
  PROVE  /\ Drop(d, os, cs, ds) \in Tables
         /\ Drop(d, os, cs, ds).next = d.next
         /\ Drop(d, os, cs, ds).owners \subseteq d.owners
         /\ Drop(d, os, cs, ds).categories \subseteq d.categories
         /\ Drop(d, os, cs, ds).centroids \subseteq d.centroids
         /\ Drop(d, os, cs, ds).documents \subseteq d.documents
         /\ Drop(d, os, cs, ds).embeddings \subseteq d.embeddings
  BY DEF Drop, Tables

\* So does the delete of each kind of request.
LEMMA DeletedFacts ==
  ASSUME TypeInv, NEW r \in Request, pc[r] = "delete"
  PROVE  /\ Deleted(r) \in Tables
         /\ Deleted(r).next = db.next
         /\ Deleted(r).owners \subseteq db.owners
         /\ Deleted(r).categories \subseteq db.categories
         /\ Deleted(r).centroids \subseteq db.centroids
         /\ Deleted(r).documents \subseteq db.documents
         /\ Deleted(r).embeddings \subseteq db.embeddings
<1>1. db \in Tables
  BY DEF TypeInv, TypeOK
<1>2. \E os, cs, ds : Deleted(r) = Drop(db, os, cs, ds)
  <2>1. req[r].kind \in {"deleteOwner", "deleteCategory", "deleteDocument"}
    BY DEF TypeInv, InOrder
  <2> QED BY <2>1 DEF Deleted
<1>3. PICK os, cs, ds : Deleted(r) = Drop(db, os, cs, ds)
  BY <1>2
<1> HIDE DEF Drop
<1> QED BY <1>1, <1>3, DropFacts

-----------------------------------------------------------------------------
(* Every step keeps the types and the order.                                 *)

\* Arrival keeps types and order.
LEMMA ArriveTypes == ASSUME TypeInv, NEW r \in Request, Arrive(r) PROVE TypeInv'
<1> USE DEF TypeInv
<1>1. PICK kind \in May[r], o \in Owner, c \in Category, wide \in BOOLEAN,
           target \in {0} \cup Ids(db.documents) :
        /\ kind # "search" => wide
        /\ kind # "deleteDocument" => target = 0
        /\ req' = [req EXCEPT ![r] = [kind |-> kind, owner |-> o, category |-> c,
                                      wide |-> wide, target |-> target]]
        /\ pc' = [pc EXCEPT ![r] = FirstStep(kind)]
        /\ since' = [since EXCEPT ![r] = [next |-> db.next,
                                          live |-> Ids(db.documents),
                                          acked |-> AckedFor(o, c)]]
  BY DEF Arrive
<1>2. db.next \in Nat /\ Ids(db.documents) \subseteq Nat /\ target \in Nat
  BY DEF TypeOK, Tables, Ids, DocumentRow
<1>3. AckedFor(o, c) \subseteq Nat
  BY CatalogAssumption DEF AckedFor, DocIds, TypeOK
<1>4. kind \in Kind
  BY CatalogAssumption
<1>5. FirstStep(kind) \in {"delete", "lookup", "owner"}
  BY <1>4, FirstStepValue
<1>6. TypeOK'
  <2>1. req' \in [Request -> Asked \cup {NotAsked}] /\ req'[r] \in Asked
    BY <1>1, <1>2, <1>4 DEF TypeOK, Asked
  <2>2. since' \in [Request -> [next : Nat, live : SUBSET Nat, acked : SUBSET Nat]]
    BY <1>1, <1>2, <1>3 DEF TypeOK
  <2>3. pc' \in [Request -> PC] /\ \A q \in Request \ {r} : pc'[q] = pc[q] /\ req'[q] = req[q]
    BY <1>1, <1>5 DEF TypeOK
  <2>4. flight[r] = "none"
    BY DEF Arrive, TypeOK
  <2>5. UNCHANGED <<db, replica, cache, flight, got, held, docs, scan, shown>>
    BY DEF Arrive
  <2> QED BY <2>1, <2>2, <2>3, <2>4, <2>5 DEF TypeOK
<1>7. InOrder'
  <2> SUFFICES ASSUME NEW q \in Request PROVE InOrder!(q)'
    BY DEF InOrder
  <2>1. CASE q = r
    BY <2>1, <1>1, <1>4, FirstStepValue DEF TypeOK, Arrive, InOrder
  <2>2. CASE q # r
    BY ZenonT(60), <2>2, <1>1, <1>4, FirstStepValue DEF TypeOK, Arrive, InOrder
  <2> QED BY <2>1, <2>2
<1>8. NeverNothing'
  BY <1>1 DEF TypeOK, Arrive, NeverNothing
<1> QED BY <1>6, <1>7, <1>8

\* Joining a flight keeps types and order.
LEMMA JoinTypes == ASSUME TypeInv, NEW r \in Request, Join(r) PROVE TypeInv'
<1> USE DEF TypeInv, Join, Calling
<1>1. TypeOK'
  BY DEF TypeOK
<1>2. InOrder'
  BY DEF TypeOK, InOrder
<1>3. NeverNothing'
  BY DEF TypeOK, NeverNothing
<1> QED BY <1>1, <1>2, <1>3

\* Leading one keeps types and order.
LEMMA LeadTypes == ASSUME TypeInv, NEW r \in Request, Lead(r) PROVE TypeInv'
<1> USE DEF TypeInv, Lead, Calling
<1>1. TypeOK'
  BY DEF TypeOK
<1>2. InOrder'
  BY DEF TypeOK, InOrder
<1>3. NeverNothing'
  BY DEF TypeOK, NeverNothing
<1> QED BY <1>1, <1>2, <1>3

\* A cache hit keeps types and order.
LEMMA HitTypes == ASSUME TypeInv, NEW r \in Request, Hit(r) PROVE TypeInv'
<1>1. PICK e \in Cached(r) : Deliver({r}, e.rows)
  BY DEF Hit
<1>2. /\ pc[r] \in Stage
      /\ e.rows \in SUBSET RowsOf(pc[r])
      /\ pc[r] # "centroids" => e.rows # {}
  BY CatalogAssumption DEF Hit, Calling, Cached, TypeInv, TypeOK, NeverNothing
<1>3. UNCHANGED <<db, replica, cache, req, got, docs, scan, shown, since>>
  BY DEF Hit
<1>4. /\ cache' \in [Instance -> SUBSET Entry]
      /\ \A i \in Instance : \A x \in cache'[i] :
           x.rows \subseteq RowsOf(x.stage) /\ (x.stage # "centroids" => x.rows # {})
  BY <1>3 DEF TypeInv, TypeOK, NeverNothing
<1>5. {r} \in SUBSET Request /\ \A q \in {r} : pc[q] = pc[r]
  OBVIOUS
<1> QED BY <1>1, <1>2, <1>3, <1>4, <1>5, DeliverTypes

\* A leader's query keeps types and order.
LEMMA ReadTypes == ASSUME TypeInv, NEW r \in Request, Read(r) PROVE TypeInv'
<1>0. pc[r] \in Stage /\ flight[r] = "read"
  BY DEF Read, TypeInv, TypeOK
<1>1. CASE UNCHANGED got /\ Refuse(Party(r), "notFound")
  <2>1. /\ db' \in Tables /\ db'.next # 0
        /\ UNCHANGED <<replica, cache, req, docs, scan, shown, since>>
    BY DEF Read, TypeInv, TypeOK, NeverNothing
  <2> QED BY <1>0, <1>1, <2>1, PartyFacts, RefuseTypes
<1>2. ASSUME NEW next \in {"create", "save"},
             next = "create" => req[r].kind = "upload",
             next = "save" /\ pc[r] # "centroids" => Found(r) # {},
             got' = [got EXCEPT ![r] = Found(r)],
             flight' = [flight EXCEPT ![r] = next],
             UNCHANGED <<pc, held>>
      PROVE  TypeInv'
  <2> USE DEF TypeInv
  <2>1. UNCHANGED <<db, replica, cache, req, docs, scan, shown, since>>
    BY DEF Read
  <2>2. Found(r) \in SUBSET RowsOf(pc[r]) /\ Found(r) \in SUBSET AnyRow
    BY <1>0, FoundType, RowsOfAny
  <2>3. TypeOK'
    BY <1>0, <1>2, <2>1, <2>2 DEF TypeOK
  <2>4. InOrder'
    <3> SUFFICES ASSUME NEW q \in Request PROVE InOrder!(q)'
      BY DEF InOrder
    <3>1. CASE q = r
      BY <3>1, <1>0, <1>2, <2>1 DEF TypeOK, InOrder
    <3>2. CASE q # r
      BY <3>2, <1>0, <1>2, <2>1 DEF TypeOK, InOrder
    <3> QED BY <3>1, <3>2
  <2>5. NeverNothing'
    BY <1>2, <2>1 DEF TypeOK, NeverNothing
  <2> QED BY <2>3, <2>4, <2>5
<1> QED BY <1>1, <1>2 DEF Read

\* A leader's insert keeps types and order, whether it is accepted or not.
LEMMA CreateTypes == ASSUME TypeInv, NEW r \in Request, Create(r) PROVE TypeInv'
<1>0. /\ pc[r] \in Stage /\ flight[r] = "create"
      /\ UNCHANGED <<replica, cache, req, docs, scan, shown, since>>
      /\ db \in Tables
  BY DEF Create, TypeInv, TypeOK
<1>a. db.next \in Nat
  BY <1>0 DEF Tables
<1>b. Inserted(r) \in Tables /\ Inserted(r).next = db.next + 1
  BY <1>0, InsertedFacts
<1>1. Inserted(r) \in Tables /\ Inserted(r).next # 0
  BY <1>a, <1>b
<1>2. CASE Refuse(Party(r), "failed") /\ UNCHANGED got
  <2>1. db' \in Tables /\ db'.next # 0
    BY <1>0, <1>1, <1>2 DEF Create, TypeInv, NeverNothing
  <2> QED BY <1>0, <1>2, <2>1, PartyFacts, RefuseTypes
<1>3. CASE /\ db' = Inserted(r)
           /\ got' = [got EXCEPT ![r] = {NewRow(r)}]
           /\ flight' = [flight EXCEPT ![r] = "save"]
           /\ UNCHANGED <<pc, held>>
  <2> USE DEF TypeInv
  <2>1. {NewRow(r)} \in SUBSET RowsOf(pc[r]) /\ {NewRow(r)} \in SUBSET AnyRow
    BY <1>0, NewRowType, RowsOfAny
  <2>2. TypeOK'
    BY <1>0, <1>1, <1>3, <2>1 DEF TypeOK
  <2>3. InOrder'
    BY SMTT(30), <1>0, <1>3 DEF TypeOK, InOrder
  <2>4. NeverNothing'
    BY <1>0, <1>1, <1>3 DEF TypeOK, NeverNothing
  <2> QED BY <2>2, <2>3, <2>4
<1> QED BY <1>2, <1>3 DEF Create

\* Caching a result and handing it out keeps types and order.
LEMMA SaveTypes == ASSUME TypeInv, NEW r \in Request, Save(r) PROVE TypeInv'
<1>0. pc[r] \in Stage /\ flight[r] = "save"
  BY DEF Save, TypeInv, TypeOK
<1>1. /\ got[r] \in SUBSET RowsOf(pc[r])
      /\ got[r] \in SUBSET AnyRow
      /\ pc[r] # "centroids" => got[r] # {}
  BY <1>0 DEF TypeInv, TypeOK, NeverNothing
<1> DEFINE entry == [stage |-> pc[r], key |-> Key(r), rows |-> got[r]]
<1>2. entry \in Entry
  BY <1>0, <1>1, KeyType DEF Entry
<1>3. cache' = [cache EXCEPT ![At[r]] = (@ \ Cached(r)) \cup {entry}]
  BY DEF Save
<1>4. /\ cache' \in [Instance -> SUBSET Entry]
      /\ \A i \in Instance : \A x \in cache'[i] :
           x.rows \subseteq RowsOf(x.stage) /\ (x.stage # "centroids" => x.rows # {})
  <2>1. \A i \in Instance : \A x \in cache'[i] : x \in cache[i] \/ x = entry
    BY <1>3 DEF TypeInv, TypeOK
  <2>2. /\ entry.rows \subseteq RowsOf(entry.stage)
        /\ entry.stage # "centroids" => entry.rows # {}
    BY <1>1
  <2>3. cache' \in [Instance -> SUBSET Entry]
    BY <1>2, <1>3 DEF TypeInv, TypeOK
  <2> HIDE DEF entry
  <2> QED BY <2>1, <2>2, <2>3 DEF TypeInv, TypeOK, NeverNothing
<1>5. /\ Deliver(Party(r), got[r])
      /\ UNCHANGED <<db, replica, req, got, docs, scan, shown, since>>
  BY DEF Save
<1> HIDE DEF entry
<1> QED BY <1>0, <1>1, <1>4, <1>5, PartyFacts, DeliverTypes

\* The order of steps does not depend on tables and caches.
LEMMA OrderKept ==
  ASSUME InOrder, UNCHANGED <<req, pc, flight, got, held, docs, scan, shown>>
  PROVE  InOrder'
  BY DEF InOrder

\* Expiry keeps types and order.
LEMMA ExpireTypes == ASSUME TypeInv, NEW i \in Instance, Expire(i) PROVE TypeInv'
<1> USE DEF TypeInv, Expire
<1>1. TypeOK'
  BY DEF TypeOK
<1>2. InOrder'
  BY OrderKept
<1>3. NeverNothing'
  BY DEF TypeOK, NeverNothing
<1> QED BY <1>1, <1>2, <1>3

\* The panic of NewMatrix keeps types and order.
LEMMA MatrixPanicTypes == ASSUME TypeInv, NEW r \in Request, MatrixPanic(r) PROVE TypeInv'
<1> USE DEF TypeInv, MatrixPanic
<1>1. TypeOK'
  BY DEF TypeOK
<1>2. InOrder'
  <2> SUFFICES ASSUME NEW q \in Request PROVE InOrder!(q)'
    BY DEF InOrder
  <2>1. CASE q = r
    BY <2>1 DEF TypeOK, InOrder
  <2>2. CASE q # r
    BY <2>2 DEF TypeOK, InOrder
  <2> QED BY <2>1, <2>2
<1>3. NeverNothing'
  BY DEF TypeOK, NeverNothing
<1> QED BY <1>1, <1>2, <1>3

\* The rows the two inserts of an upload add.
LEMMA NewDocumentsType ==
  ASSUME TypeInv, NEW r \in Request, pc[r] = "documents"
  PROVE  {[id |-> n, category |-> HeldId(r, "category"), by |-> r] :
             n \in db.next .. db.next + Docs - 1} \in SUBSET DocumentRow
<1>1. HeldId(r, "category") \in Nat
  BY HeldIdNat DEF TypeInv, InOrder
<1>2. db.next \in Nat /\ Docs \in Nat
  BY CatalogAssumption DEF TypeInv, TypeOK, Tables
<1> QED BY <1>1, <1>2 DEF DocumentRow

\* What saving an upload's documents changes.
LEMMA SaveDocumentsFacts ==
  ASSUME TypeInv, NEW r \in Request, SaveDocuments(r)
  PROVE  /\ pc[r] = "documents"
         /\ db' \in Tables
         /\ \/ /\ pc' = [pc EXCEPT ![r] = "failed"]
               /\ UNCHANGED <<db, docs>>
            \/ /\ pc' \in {[pc EXCEPT ![r] = "embeddings"], [pc EXCEPT ![r] = "failed"]}
               /\ docs' = [docs EXCEPT ![r] = db.next]
               /\ db'.documents = db.documents \cup
                    {[id |-> n, category |-> HeldId(r, "category"), by |-> r] :
                        n \in db.next .. db.next + Docs - 1}
               /\ db'.next = db.next + Docs
               /\ db'.owners = db.owners
               /\ db'.categories = db.categories
               /\ db'.centroids = db.centroids
               /\ db'.embeddings = db.embeddings
         /\ UNCHANGED <<replica, cache, req, flight, got, held, scan, shown, since>>
<1> DEFINE rows == {[id |-> n, category |-> HeldId(r, "category"), by |-> r] :
                        n \in db.next .. db.next + Docs - 1}
<1>1. rows \in SUBSET DocumentRow /\ pc[r] = "documents"
  BY NewDocumentsType DEF SaveDocuments
<1>2. /\ db \in Tables
      /\ db.next + Docs \in Nat
      /\ db.documents \cup rows \in SUBSET DocumentRow
  BY <1>1, CatalogAssumption DEF TypeInv, TypeOK, Tables
<1>3. CASE pc' = [pc EXCEPT ![r] = "failed"] /\ UNCHANGED <<db, docs>>
  BY <1>1, <1>2, <1>3 DEF SaveDocuments
<1>4. CASE /\ db' = [db EXCEPT !.documents = @ \cup rows, !.next = @ + Docs]
           /\ docs' = [docs EXCEPT ![r] = db.next]
           /\ pc' \in {[pc EXCEPT ![r] = "embeddings"], [pc EXCEPT ![r] = "failed"]}
  <2> HIDE DEF rows
  <2>1. db' \in Tables
    BY <1>2, <1>4 DEF Tables
  <2>2. /\ db'.documents = db.documents \cup rows
        /\ db'.next = db.next + Docs
        /\ db'.owners = db.owners
        /\ db'.categories = db.categories
        /\ db'.centroids = db.centroids
        /\ db'.embeddings = db.embeddings
    BY <1>2, <1>4 DEF Tables
  <2>3. UNCHANGED <<replica, cache, req, flight, got, held, scan, shown, since>>
    BY DEF SaveDocuments
  <2> USE DEF rows
  <2> QED BY <1>1, <1>4, <2>1, <2>2, <2>3
<1> QED BY <1>3, <1>4 DEF SaveDocuments

\* Saving documents keeps types and order.
LEMMA SaveDocumentsTypes ==
  ASSUME TypeInv, NEW r \in Request, SaveDocuments(r) PROVE TypeInv'
<1>1. /\ pc[r] = "documents"
      /\ db' \in Tables
      /\ db.next \in Nat \ {0} /\ Docs \in Nat
      /\ flight[r] = "none"
      /\ UNCHANGED <<replica, cache, req, flight, got, held, scan, shown, since>>
  BY SaveDocumentsFacts, CatalogAssumption DEF TypeInv, TypeOK, Tables, NeverNothing
<1>2. CASE pc' = [pc EXCEPT ![r] = "failed"] /\ UNCHANGED <<db, docs>>
  <2> USE DEF TypeInv
  <2>1. TypeOK'
    BY <1>1, <1>2 DEF TypeOK
  <2>2. InOrder'
    <3> SUFFICES ASSUME NEW q \in Request PROVE InOrder!(q)'
      BY DEF InOrder
    <3>1. CASE q = r
      BY <3>1, <1>1, <1>2 DEF TypeOK, InOrder
    <3>2. CASE q # r
      BY <3>2, <1>1, <1>2 DEF TypeOK, InOrder
    <3> QED BY <3>1, <3>2
  <2>3. NeverNothing'
    BY <1>1, <1>2 DEF TypeOK, NeverNothing
  <2> QED BY <1>2, <2>1, <2>2, <2>3
<1>3. ASSUME NEW next \in {"embeddings", "failed"}, pc' = [pc EXCEPT ![r] = next],
             docs' = [docs EXCEPT ![r] = db.next], db'.next = db.next + Docs
      PROVE  TypeInv'
  <2> USE DEF TypeInv
  <2>1. TypeOK'
    BY <1>1, <1>3 DEF TypeOK
  <2>2. InOrder'
    <3> SUFFICES ASSUME NEW q \in Request PROVE InOrder!(q)'
      BY DEF InOrder
    <3>1. CASE q = r
      BY SMTT(30), <3>1, <1>1, <1>3 DEF TypeOK, InOrder
    <3>2. CASE q # r
      BY SMTT(30), <3>2, <1>1, <1>3 DEF TypeOK, InOrder
    <3> QED BY <3>1, <3>2
  <2>3. db'.next # 0
    BY <1>1, <1>3
  <2>4. NeverNothing'
    BY <1>1, <1>3, <2>3 DEF TypeOK, NeverNothing
  <2> QED BY <2>1, <2>2, <2>4
<1> QED BY <1>2, <1>3, SaveDocumentsFacts

\* The embeddings of an upload are rows.
LEMMA EmbeddingRowsType ==
  ASSUME TypeInv, NEW r \in Request,
         NEW nearest \in [DocIds(r) \X (0 .. Sections - 1) -> Ids(held[r].centroids)]
  PROVE  EmbeddingRows(r, nearest) \in SUBSET EmbeddingRow
<1>0. /\ db.next \in Nat /\ Sections \in Nat /\ Docs \in Nat /\ docs[r] \in Nat
  BY CatalogAssumption DEF TypeInv, TypeOK, Tables
<1>a. held[r].centroids \subseteq CentroidRow
  <2>1. held[r]["centroids"] \subseteq RowsOf("centroids")
    BY DEF TypeInv, TypeOK
  <2> QED BY <2>1, RowsOfValue
<1>b. Ids(held[r].centroids) \subseteq Nat
  BY <1>a DEF Ids, CentroidRow
<1>1. /\ DocIds(r) \subseteq Nat
      /\ \A n \in DocIds(r) : n - docs[r] \in Nat
      /\ db.next \in Nat /\ Sections \in Nat /\ Docs \in Nat
      /\ Ids(held[r].centroids) \subseteq Nat
  BY <1>0, <1>b DEF DocIds
<1>2. SUFFICES ASSUME NEW p \in DocIds(r) \X (0 .. Sections - 1)
               PROVE  [id |-> db.next + (p[1] - docs[r]) * Sections + p[2],
                       document |-> p[1],
                       centroid |-> nearest[p]] \in EmbeddingRow
  BY DEF EmbeddingRows
<1>3. p[1] \in DocIds(r) /\ p[2] \in Nat
  BY <1>1
<1>4. (p[1] - docs[r]) * Sections \in Nat
  BY <1>1, <1>3
<1>5. db.next + (p[1] - docs[r]) * Sections + p[2] \in Nat
  BY <1>1, <1>3, <1>4
<1>6. nearest[p] \in Nat
  BY <1>1
<1> QED BY <1>1, <1>3, <1>5, <1>6 DEF EmbeddingRow

\* What saving an upload's embeddings changes.
LEMMA SaveEmbeddingsFacts ==
  ASSUME TypeInv, NEW r \in Request, SaveEmbeddings(r)
  PROVE  /\ pc[r] = "embeddings"
         /\ pc' \in {[pc EXCEPT ![r] = "ok"], [pc EXCEPT ![r] = "failed"]}
         /\ db' \in Tables
         /\ db'.next >= db.next
         /\ db'.owners = db.owners
         /\ db'.categories = db.categories
         /\ db'.centroids = db.centroids
         /\ db'.documents = db.documents
         /\ \A e \in db'.embeddings :
              \/ e \in db.embeddings
              \/ e.document \in DocIds(r) /\ e.centroid \in Ids(held[r].centroids)
         /\ UNCHANGED <<replica, cache, req, flight, got, held, docs, scan, shown, since>>
<1>1. PICK nearest \in [DocIds(r) \X (0 .. Sections - 1) -> Ids(held[r].centroids)] :
        \/ /\ EmbeddingsFit(db, EmbeddingRows(r, nearest))
           /\ db' = [db EXCEPT !.embeddings = @ \cup EmbeddingRows(r, nearest),
                               !.next = @ + Docs * Sections]
           /\ \/ pc' = [pc EXCEPT ![r] = "ok"]
              \/ r \in Fallible /\ pc' = [pc EXCEPT ![r] = "failed"]
        \/ /\ ~EmbeddingsFit(db, EmbeddingRows(r, nearest))
           /\ pc' = [pc EXCEPT ![r] = "failed"]
           /\ UNCHANGED db
  BY Zenon DEF SaveEmbeddings
<1>2. /\ db \in Tables /\ db.next \in Nat
      /\ Docs * Sections \in Nat /\ Docs * Sections >= 0
  BY CatalogAssumption DEF TypeInv, TypeOK, Tables
<1>3. /\ pc[r] = "embeddings"
      /\ UNCHANGED <<replica, cache, req, flight, got, held, docs, scan, shown, since>>
  BY DEF SaveEmbeddings
<1>4. CASE pc' = [pc EXCEPT ![r] = "failed"] /\ UNCHANGED db
  BY <1>2, <1>3, <1>4
<1>5. CASE /\ db' = [db EXCEPT !.embeddings = @ \cup EmbeddingRows(r, nearest),
                               !.next = @ + Docs * Sections]
           /\ pc' \in {[pc EXCEPT ![r] = "ok"], [pc EXCEPT ![r] = "failed"]}
  <2>1. db.embeddings \cup EmbeddingRows(r, nearest) \in SUBSET EmbeddingRow
    BY <1>2, EmbeddingRowsType DEF Tables
  <2>2. db.next + Docs * Sections \in Nat /\ db.next + Docs * Sections >= db.next
    BY <1>2
  <2>3. \A e \in EmbeddingRows(r, nearest) :
          e.document \in DocIds(r) /\ e.centroid \in Ids(held[r].centroids)
    BY DEF EmbeddingRows
  <2> HIDE DEF EmbeddingRows
  <2>4. /\ db'.embeddings = db.embeddings \cup EmbeddingRows(r, nearest)
        /\ db'.next = db.next + Docs * Sections
        /\ db'.owners = db.owners
        /\ db'.categories = db.categories
        /\ db'.centroids = db.centroids
        /\ db'.documents = db.documents
    BY <1>2, <1>5 DEF Tables
  <2>5. db' \in Tables
    BY <1>2, <1>5, <2>1, <2>2 DEF Tables
  <2> QED BY <1>3, <1>5, <2>2, <2>3, <2>4, <2>5
<1> QED BY <1>1, <1>4, <1>5

\* Saving embeddings keeps types and order.
LEMMA SaveEmbeddingsTypes ==
  ASSUME TypeInv, NEW r \in Request, SaveEmbeddings(r) PROVE TypeInv'
<1> USE DEF TypeInv
<1>1. /\ pc[r] = "embeddings"
      /\ db' \in Tables /\ db'.next # 0
      /\ UNCHANGED <<replica, cache, req, flight, got, held, docs, scan, shown, since>>
  BY SaveEmbeddingsFacts DEF TypeOK, Tables, NeverNothing
<1>2. PICK next \in {"ok", "failed"} : pc' = [pc EXCEPT ![r] = next]
  BY SaveEmbeddingsFacts
<1>3. TypeOK'
  BY <1>1, <1>2 DEF TypeOK
<1>4. InOrder'
  <2> SUFFICES ASSUME NEW q \in Request PROVE InOrder!(q)'
    BY DEF InOrder
  <2>1. CASE q = r
    BY <2>1, <1>1, <1>2 DEF TypeOK, InOrder
  <2>2. CASE q # r
    BY SMTT(30), <2>2, <1>1, <1>2 DEF TypeOK, InOrder
  <2> QED BY <2>1, <2>2
<1>5. NeverNothing'
  BY <1>1, <1>2 DEF TypeOK, NeverNothing
<1> QED BY <1>1, <1>3, <1>4, <1>5

\* Ranking the centroids keeps types and order.
LEMMA ProbeTypes == ASSUME TypeInv, NEW r \in Request, Probe(r) PROVE TypeInv'
<1> USE DEF TypeInv
<1>1. PICK probed \in SUBSET Ids(held[r].centroids) :
        scan' = [scan EXCEPT ![r] = [NoScan EXCEPT !.probe = probed]]
  BY DEF Probe
<1>2. held[r].centroids \subseteq CentroidRow
  <2>1. held[r]["centroids"] \subseteq RowsOf("centroids")
    BY DEF TypeOK
  <2> QED BY <2>1, RowsOfValue
<1>3. probed \in SUBSET Nat
  BY <1>1, <1>2 DEF Ids, CentroidRow
<1>4. scan' \in [Request -> [probe : SUBSET Nat, cursor : Nat, hits : SUBSET Nat]]
  BY <1>1, <1>3 DEF TypeOK, NoScan
<1>5. TypeOK'
  BY <1>4 DEF TypeOK, Probe
<1>6. InOrder'
  <2> SUFFICES ASSUME NEW q \in Request PROVE InOrder!(q)'
    BY DEF InOrder
  <2>1. CASE q = r
    BY <2>1, <1>1 DEF TypeOK, InOrder, Probe
  <2>2. CASE q # r
    BY <2>2, <1>1 DEF TypeOK, InOrder, Probe
  <2> QED BY <2>1, <2>2
<1>7. NeverNothing'
  BY DEF TypeOK, NeverNothing, Probe
<1> QED BY <1>5, <1>6, <1>7

\* A page of a scan holds embeddings.
LEMMA PageType ==
  ASSUME TypeInv, NEW r \in Request
  PROVE  Page(r) \in SUBSET View.embeddings /\ Page(r) \in SUBSET EmbeddingRow
  BY ViewType DEF TypeInv, Page, Tables

\* What a page does to a search.
LEMMA ScanPageFacts ==
  ASSUME TypeInv, NEW r \in Request, ScanPage(r)
  PROVE  \E nearest \in SUBSET (scan[r].hits \cup {e.document : e \in Page(r)}),
            last \in Ids(Page(r)) \cup {scan[r].cursor}, next \in {"fetch", "scan"} :
           /\ scan' = [scan EXCEPT ![r] = [@ EXCEPT !.hits = nearest, !.cursor = last]]
           /\ pc' = [pc EXCEPT ![r] = next]
  BY Zenon DEF ScanPage

\* A page keeps types and order.
LEMMA ScanPageTypes == ASSUME TypeInv, NEW r \in Request, ScanPage(r) PROVE TypeInv'
<1> USE DEF TypeInv
<1>1. PICK nearest \in SUBSET (scan[r].hits \cup {e.document : e \in Page(r)}),
           last \in Ids(Page(r)) \cup {scan[r].cursor}, next \in {"fetch", "scan"} :
        /\ scan' = [scan EXCEPT ![r] = [@ EXCEPT !.hits = nearest, !.cursor = last]]
        /\ pc' = [pc EXCEPT ![r] = next]
  BY ScanPageFacts
<1>2. /\ UNCHANGED <<db, replica, cache, req, flight, got, held, docs, shown, since>>
      /\ pc[r] = "scan"
  BY DEF ScanPage
<1>3. scan[r] \in [probe : SUBSET Nat, cursor : Nat, hits : SUBSET Nat]
  BY DEF TypeOK
<1>4. nearest \in SUBSET Nat /\ last \in Nat
  BY <1>1, <1>3, PageType DEF Ids, EmbeddingRow
<1>5. scan' \in [Request -> [probe : SUBSET Nat, cursor : Nat, hits : SUBSET Nat]]
  BY <1>1, <1>3, <1>4 DEF TypeOK
<1>6. TypeOK'
  BY <1>1, <1>2, <1>5 DEF TypeOK
<1>7. InOrder'
  <2> SUFFICES ASSUME NEW q \in Request PROVE InOrder!(q)'
    BY DEF InOrder
  <2>1. CASE q = r
    BY <2>1, <1>1, <1>2 DEF TypeOK, InOrder
  <2>2. CASE q # r
    BY <2>2, <1>1, <1>2 DEF TypeOK, InOrder
  <2> QED BY <2>1, <2>2
<1>8. NeverNothing'
  BY <1>1, <1>2 DEF TypeOK, NeverNothing
<1> QED BY <1>6, <1>7, <1>8

\* Loading the hits keeps types and order.
LEMMA FetchDocumentsTypes ==
  ASSUME TypeInv, NEW r \in Request, FetchDocuments(r) PROVE TypeInv'
<1> USE DEF TypeInv
<1>1. View.documents \in SUBSET DocumentRow
  BY ViewType DEF Tables
<1>2. PICK rows \in SUBSET DocumentRow : shown' = [shown EXCEPT ![r] = rows]
  BY <1>1 DEF FetchDocuments
<1>3. TypeOK'
  BY <1>2 DEF TypeOK, FetchDocuments
<1>4. InOrder'
  <2> SUFFICES ASSUME NEW q \in Request PROVE InOrder!(q)'
    BY DEF InOrder
  <2>1. CASE q = r
    BY <2>1, <1>2 DEF TypeOK, InOrder, FetchDocuments
  <2>2. CASE q # r
    BY <2>2, <1>2 DEF TypeOK, InOrder, FetchDocuments
  <2> QED BY <2>1, <2>2
<1>5. NeverNothing'
  BY DEF TypeOK, NeverNothing, FetchDocuments
<1> QED BY <1>3, <1>4, <1>5

\* Listing the categories keeps types and order.
LEMMA ListCategoriesTypes ==
  ASSUME TypeInv, NEW r \in Request, ListCategories(r) PROVE TypeInv'
<1> USE DEF TypeInv
<1>1. View.categories \in SUBSET CategoryRow
  BY ViewType DEF Tables
<1>2. PICK rows \in SUBSET CategoryRow : shown' = [shown EXCEPT ![r] = rows]
  BY <1>1 DEF ListCategories
<1>3. TypeOK'
  BY <1>2 DEF TypeOK, ListCategories
<1>4. InOrder'
  <2> SUFFICES ASSUME NEW q \in Request PROVE InOrder!(q)'
    BY DEF InOrder
  <2>1. CASE q = r
    BY <2>1, <1>2 DEF TypeOK, InOrder, ListCategories
  <2>2. CASE q # r
    BY <2>2, <1>2 DEF TypeOK, InOrder, ListCategories
  <2> QED BY <2>1, <2>2
<1>5. NeverNothing'
  BY DEF TypeOK, NeverNothing, ListCategories
<1> QED BY <1>3, <1>4, <1>5

\* A handler that looks a row up itself holds it from then on.
LEMMA HoldTypes ==
  ASSUME TypeOK, NEW r \in Request, NEW stage \in Stage,
         NEW rows \in SUBSET RowsOf(stage),
         held' = [held EXCEPT ![r] = [@ EXCEPT ![stage] = rows]]
  PROVE  /\ held' \in [Request -> [Stage -> SUBSET AnyRow]]
         /\ \A q \in Request, s \in Stage : held'[q][s] \subseteq RowsOf(s)
         /\ \A q \in Request, s \in Stage :
              held'[q][s] = IF q = r /\ s = stage THEN rows ELSE held[q][s]
<1>1. rows \in SUBSET AnyRow
  BY RowsOfAny
<1>2. held \in [Request -> [Stage -> SUBSET AnyRow]]
  BY DEF TypeOK
<1>3. \A q \in Request, s \in Stage :
        held'[q][s] = IF q = r /\ s = stage THEN rows ELSE held[q][s]
  BY <1>2
<1>4. held' \in [Request -> [Stage -> SUBSET AnyRow]]
  BY <1>1, <1>2
<1>5. \A q \in Request, s \in Stage : held'[q][s] \subseteq RowsOf(s)
  BY <1>3 DEF TypeOK
<1> QED BY <1>3, <1>4, <1>5

\* The listing's own owner query keeps types and order.
LEMMA LookupOwnerTypes ==
  ASSUME TypeInv, NEW r \in Request, LookupOwner(r) PROVE TypeInv'
<1> DEFINE rows == {o \in View.owners : o.name = req[r].owner}
<1>1. rows \in SUBSET RowsOf("owner")
  BY ViewType, RowsOfValue DEF Tables, TypeInv
<1>2. /\ pc[r] = "lookup"
      /\ held' = [held EXCEPT ![r] = [@ EXCEPT !["owner"] = rows]]
      /\ pc' = [pc EXCEPT ![r] = IF rows = {} THEN "ok" ELSE "list"]
      /\ UNCHANGED <<db, replica, cache, req, flight, got, docs, scan, shown, since>>
  BY DEF LookupOwner
<1> HIDE DEF rows
<1>3. /\ held' \in [Request -> [Stage -> SUBSET AnyRow]]
      /\ \A q \in Request, s \in Stage : held'[q][s] \subseteq RowsOf(s)
      /\ \A q \in Request, s \in Stage :
           held'[q][s] = IF q = r /\ s = "owner" THEN rows ELSE held[q][s]
  <2> HIDE DEF Stage
  <2>1. TypeOK /\ "owner" \in Stage
    BY DEF TypeInv, Stage
  <2> QED BY <1>1, <1>2, <2>1, HoldTypes
<1>4. TypeOK'
  BY <1>2, <1>3 DEF TypeInv, TypeOK
<1>5. InOrder'
  <2> SUFFICES ASSUME NEW q \in Request PROVE InOrder!(q)'
    BY DEF InOrder
  <2>a. /\ \A s \in Stage : held'[q][s] = IF q = r /\ s = "owner" THEN rows ELSE held[q][s]
        /\ UNCHANGED <<req[q], flight[q], got[q], docs[q], scan[q], shown[q]>>
    BY <1>2, <1>3
  <2>1. CASE q = r
    <3>1. /\ pc[q] = "lookup" /\ (pc'[q] = "ok" \/ (pc'[q] = "list" /\ rows # {}))
      BY <1>2, <2>1 DEF TypeInv, TypeOK
    <3> QED BY <2>a, <2>1, <3>1 DEF TypeInv, InOrder
  <2>2. CASE q # r
    <3>1. pc'[q] = pc[q]
      BY <1>2, <2>2 DEF TypeInv, TypeOK
    <3> QED BY <2>a, <2>2, <3>1 DEF TypeInv, InOrder
  <2> QED BY <2>1, <2>2
<1>6. NeverNothing'
  BY <1>2 DEF TypeInv, TypeOK, NeverNothing
<1> QED BY <1>4, <1>5, <1>6 DEF TypeInv

\* The document delete's own category query keeps types and order.
LEMMA TakeCategoryTypes ==
  ASSUME TypeInv, NEW r \in Request, TakeCategory(r) PROVE TypeInv'
<1>0. held[r]["category"] \in SUBSET RowsOf("category")
  BY DEF TypeInv, TypeOK
<1>1. PICK rows \in SUBSET CategoryRow :
        /\ held' = [held EXCEPT ![r].category = IF rows = {} THEN @ ELSE rows]
        /\ pc' = [pc EXCEPT ![r] = IF rows = {} THEN "ok" ELSE "delete"]
  BY ViewType DEF TakeCategory, TypeInv, Tables
<1>2. PICK kept \in SUBSET RowsOf("category"), next \in {"ok", "delete"} :
        /\ held' = [held EXCEPT ![r] = [@ EXCEPT !["category"] = kept]]
        /\ pc' = [pc EXCEPT ![r] = next]
        /\ next = "delete" => kept # {}
  <2>1. CASE rows = {}
    <3>1. held' = [held EXCEPT ![r] = [@ EXCEPT !["category"] = held[r]["category"]]]
      BY <1>1, <2>1 DEF TypeInv, TypeOK
    <3> QED BY <1>0, <1>1, <2>1, <3>1
  <2>2. CASE rows # {}
    BY <1>1, <2>2, RowsOfValue
  <2> QED BY <2>1, <2>2
<1>3. /\ held' \in [Request -> [Stage -> SUBSET AnyRow]]
      /\ \A q \in Request, s \in Stage : held'[q][s] \subseteq RowsOf(s)
      /\ \A q \in Request, s \in Stage :
           held'[q][s] = IF q = r /\ s = "category" THEN kept ELSE held[q][s]
  <2> HIDE DEF Stage
  <2>1. TypeOK /\ "category" \in Stage
    BY DEF TypeInv, Stage
  <2> QED BY ZenonT(60), <1>2, <2>1, HoldTypes
<1>4. /\ pc[r] = "take"
      /\ UNCHANGED <<db, replica, cache, req, flight, got, docs, scan, shown, since>>
  BY DEF TakeCategory
<1>5. TypeOK'
  <2>1. pc' \in [Request -> PC] /\ flight[r] = "none"
    BY <1>2, <1>4 DEF TypeInv, TypeOK
  <2>2. \A q \in Request : pc'[q] = IF q = r THEN next ELSE pc[q]
    BY <1>2 DEF TypeInv, TypeOK
  <2> QED BY <1>3, <1>4, <2>1, <2>2 DEF TypeInv, TypeOK
<1>6. InOrder'
  <2> SUFFICES ASSUME NEW q \in Request PROVE InOrder!(q)'
    BY DEF InOrder
  <2>a. /\ pc'[q] = IF q = r THEN next ELSE pc[q]
        /\ held'[q].owner = held[q].owner
        /\ held'[q].centroids = held[q].centroids
        /\ held'[q].category = IF q = r THEN kept ELSE held[q].category
    BY <1>2, <1>3 DEF TypeInv, TypeOK
  <2>1. CASE q = r
    BY <2>1, <2>a, <1>2, <1>4 DEF TypeInv, InOrder
  <2>2. CASE q # r
    BY <2>2, <2>a, <1>4 DEF TypeInv, InOrder
  <2> QED BY <2>1, <2>2
<1>7. NeverNothing'
  BY <1>2, <1>4 DEF TypeInv, TypeOK, NeverNothing
<1> QED BY <1>5, <1>6, <1>7 DEF TypeInv

\* A delete keeps types and order.
LEMMA DeleteTypes == ASSUME TypeInv, NEW r \in Request, Delete(r) PROVE TypeInv'
<1> USE DEF TypeInv
<1>1. /\ pc[r] = "delete" /\ db' = Deleted(r)
      /\ UNCHANGED <<replica, cache, req, flight, got, held, docs, scan, shown, since>>
  BY DEF Delete
<1>2. db' \in Tables /\ db'.next # 0
  BY <1>1, DeletedFacts DEF NeverNothing
<1>3. PICK next \in {"ok", "failed"} : pc' = [pc EXCEPT ![r] = next]
  BY DEF Delete
<1>4. TypeOK'
  BY <1>1, <1>2, <1>3 DEF TypeOK
<1>5. InOrder'
  <2> SUFFICES ASSUME NEW q \in Request PROVE InOrder!(q)'
    BY DEF InOrder
  <2>1. CASE q = r
    BY <2>1, <1>1, <1>3 DEF TypeOK, InOrder
  <2>2. CASE q # r
    BY <2>2, <1>1, <1>3 DEF TypeOK, InOrder
  <2> QED BY <2>1, <2>2
<1>6. NeverNothing'
  BY <1>1, <1>2, <1>3 DEF TypeOK, NeverNothing
<1> QED BY <1>4, <1>5, <1>6

\* A failing call keeps types and order.
LEMMA FailTypes == ASSUME TypeInv, NEW r \in Request, Fail(r) PROVE TypeInv'
<1>1. /\ db' \in Tables /\ db'.next # 0
      /\ UNCHANGED <<db, replica, cache, req, got, docs, scan, shown, since>>
  BY DEF Fail, TypeInv, TypeOK, NeverNothing
<1>2. CASE flight[r] \in {"read", "create"} /\ Refuse(Party(r), "failed")
  <2>1. pc[r] \in Stage
    BY <1>2 DEF TypeInv, TypeOK
  <2> QED BY <1>1, <1>2, <2>1, PartyFacts, RefuseTypes
<1>3. CASE /\ pc[r] \in Calls \/ pc[r] = "owner"
           /\ Refuse({r}, "failed")
  <2>1. {r} \in SUBSET Request /\ \A q \in {r} : pc[q] \notin Ended \cup {"idle"}
    BY <1>3 DEF Calls
  <2> QED BY <1>1, <1>3, <2>1, RefuseTypes
<1> QED BY <1>2, <1>3 DEF Fail

\* A crash keeps types and order.
LEMMA CrashTypes == ASSUME TypeInv, NEW i \in Instance, Crash(i) PROVE TypeInv'
<1> DEFINE running == {r \in Request : At[r] = i /\ pc[r] \notin Ended \cup {"idle"}}
<1>1. /\ pc' = [r \in Request |-> IF r \in running THEN "lost" ELSE pc[r]]
      /\ flight' = [r \in Request |-> IF r \in running THEN "none" ELSE flight[r]]
      /\ cache' = [cache EXCEPT ![i] = {}]
      /\ UNCHANGED <<db, replica, req, got, held, docs, scan, shown, since>>
  BY DEF Crash
<1>2. \A r \in running : pc[r] \notin Ended \cup {"idle"}
  OBVIOUS
<1> HIDE DEF running
<1>3. TypeOK'
  BY <1>1, <1>2 DEF TypeInv, TypeOK
<1>4. InOrder'
  <2> SUFFICES ASSUME NEW q \in Request PROVE InOrder!(q)'
    BY DEF InOrder
  <2>1. CASE q \in running
    BY <2>1, <1>1, <1>2 DEF TypeInv, TypeOK, InOrder
  <2>2. CASE q \notin running
    BY <2>2, <1>1, <1>2 DEF TypeInv, TypeOK, InOrder
  <2> QED BY <2>1, <2>2
<1>5. NeverNothing'
  BY <1>1 DEF TypeInv, TypeOK, NeverNothing
<1> QED BY <1>3, <1>4, <1>5 DEF TypeInv

\* Replication keeps types and order.
LEMMA ReplicateTypes == ASSUME TypeInv, Replicate PROVE TypeInv'
<1> USE DEF TypeInv, Replicate
<1>1. TypeOK'
  BY DEF TypeOK
<1>2. InOrder'
  BY OrderKept
<1>3. NeverNothing'
  BY DEF TypeOK, NeverNothing
<1> QED BY <1>1, <1>2, <1>3

\* So does a step that changes nothing.
LEMMA StutterTypes == ASSUME TypeInv, UNCHANGED vars PROVE TypeInv'
<1> USE DEF TypeInv, vars
<1>1. TypeOK'
  BY DEF TypeOK
<1>2. InOrder'
  BY OrderKept
<1>3. NeverNothing'
  BY DEF TypeOK, NeverNothing
<1> QED BY <1>1, <1>2, <1>3

\* TypeInv is inductive.
LEMMA NextTypes == TypeInv /\ [Next]_vars => TypeInv'
<1> SUFFICES ASSUME TypeInv, [Next]_vars PROVE TypeInv'
  OBVIOUS
<1>1. ASSUME NEW r \in Request, Step(r) PROVE TypeInv'
  BY <1>1, JoinTypes, HitTypes, LeadTypes, ReadTypes, CreateTypes, SaveTypes,
     MatrixPanicTypes, SaveDocumentsTypes, SaveEmbeddingsTypes, ProbeTypes,
     ScanPageTypes, FetchDocumentsTypes, LookupOwnerTypes, ListCategoriesTypes,
     TakeCategoryTypes, DeleteTypes DEF Step
<1> QED BY <1>1, ArriveTypes, FailTypes, ExpireTypes, CrashTypes, ReplicateTypes,
           StutterTypes DEF Next, Quiet

\* Every table, cache entry, fetch and handler holds rows of the type its place
\* says, for any number of requests, processes, names and pages.
THEOREM TypeCorrect == Spec => []TypeOK
<1>1. TypeInv => TypeOK
  BY DEF TypeInv
<1> QED BY <1>1, InitTypes, NextTypes, PTL DEF Spec
=============================================================================
