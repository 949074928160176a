--------------------------- MODULE DocumentStore ---------------------------
(***************************************************************************)
(* SAP HANA's JSON Document Store as the compatibility layer uses it: a    *)
(* catalogue of schemas (MongoDB databases) and collections, and the       *)
(* documents of each collection.  HANA is outside the repository: every    *)
(* statement below is modelled from the SQL text that internal/hana and    *)
(* internal/handlers send it, each executed on its own (database/sql with  *)
(* autocommit, no transaction is ever opened).                             *)
(*                                                                         *)
(* A document is its _id and one abstract value `val', a member of Vals    *)
(* that stands for all its other fields (one member may stand for "the     *)
(* field is not set").  HANA puts no uniqueness constraint on _id, so two  *)
(* documents may agree in everything but `row', the identity of the stored *)
(* row.  Names are upper-cased by both sides before they are compared, so  *)
(* the model's names are already canonical.                                *)
(***************************************************************************)
EXTENDS Integers, Sequences, FiniteSets

CONSTANTS Databases,    \* database names
          CollNames,    \* collection names
          Ids,          \* values of _id
          Vals,         \* values of the rest of a document
          Rows,         \* identities of stored rows; bounds the store's size
          Provisioned   \* collections HANA holds when the process starts

VARIABLES schemas,      \* the schemas that exist
          collections,  \* the collections that exist, as <<database, name>>
          docs          \* the stored documents

store == <<schemas, collections, docs>>

Namespaces == Databases \X CollNames

Document == [row : Rows, ns : Namespaces, id : Ids, val : Vals]

StoreTypeOK ==
  /\ schemas \subseteq Databases
  /\ collections \subseteq Namespaces
  /\ docs \subseteq Document
  /\ IsFiniteSet(docs)

ASSUME ProvisionedAssumption == Provisioned \subseteq Namespaces

StoreInit ==
  /\ schemas = {ns[1] : ns \in Provisioned}
  /\ collections = Provisioned
  /\ docs = {}

\* The documents of a collection whose <<_id, val>> a WHERE clause accepts.
Where(ns, match) == {d \in docs : d.ns = ns /\ <<d.id, d.val>> \in match}

\* No two documents of a collection have the same _id: what IsIdUnique is for
\* (unique.go:18).
UniqueIds ==
  \A d, e \in docs : d.ns = e.ns /\ d.id = e.id => d = e

WithId(ns, i) == {d \in docs : d.ns = ns /\ d.id = i}

-----------------------------------------------------------------------------
(* The statements that change the store, each under the condition in which *)
(* HANA executes it; in any other state it reports an error.               *)

\* CREATE SCHEMA db
CanCreateSchema(db) == db \notin schemas
CreateSchemaStmt(db) ==
  /\ schemas' = schemas \cup {db}
  /\ UNCHANGED <<collections, docs>>

\* CREATE COLLECTION db.coll
CanCreateCollection(ns) == ns[1] \in schemas /\ ns \notin collections
CreateCollectionStmt(ns) ==
  /\ collections' = collections \cup {ns}
  /\ UNCHANGED <<schemas, docs>>

\* DROP COLLECTION db.coll
DropCollectionStmt(ns) ==
  /\ collections' = collections \ {ns}
  /\ docs' = {d \in docs : d.ns # ns}
  /\ UNCHANGED schemas

\* DROP SCHEMA db CASCADE
DropSchemaStmt(db) ==
  /\ schemas' = schemas \ {db}
  /\ collections' = {ns \in collections : ns[1] # db}
  /\ docs' = {d \in docs : d.ns[1] # db}

\* INSERT INTO db.coll VALUES (...)
InsertStmt(ns, i, v) ==
  \E r \in Rows \ {d.row : d \in docs} :
    /\ docs' = docs \cup {[row |-> r, ns |-> ns, id |-> i, val |-> v]}
    /\ UNCHANGED <<schemas, collections>>

\* UPDATE db.coll SET ... for the documents of S
UpdateStmt(S, v) ==
  /\ docs' = (docs \ S) \cup {[d EXCEPT !.val = v] : d \in S}
  /\ UNCHANGED <<schemas, collections>>

\* DELETE FROM db.coll for the documents of S
DeleteStmt(S) ==
  /\ docs' = docs \ S
  /\ UNCHANGED <<schemas, collections>>
=============================================================================
