--------------------------- MODULE CommandProofs ---------------------------
(***************************************************************************)
(* Proofs about the statements of the store and the command handlers, for  *)
(* every number of connections, every set of requests and documents, and   *)
(* every combination of faults.                                            *)
(***************************************************************************)
EXTENDS CommandProperties, FiniteSetTheorems, FunctionTheorems, TLAPS

-----------------------------------------------------------------------------
(* What each statement of DocumentStore leaves true of the store. *)

\* The store HANA starts with has its type and no document.
LEMMA StoreInitType == StoreInit => StoreTypeOK /\ UniqueIds
<1> SUFFICES ASSUME StoreInit PROVE StoreTypeOK /\ UniqueIds
  OBVIOUS
<1>1. docs = {} /\ IsFiniteSet(docs)
  BY FS_EmptySet DEF StoreInit
<1>2. schemas \subseteq Databases /\ collections \subseteq Namespaces
  BY ProvisionedAssumption DEF StoreInit, Namespaces
<1> QED
  BY <1>1, <1>2 DEF StoreTypeOK, UniqueIds

\* Every set of stored documents is finite, so it can be counted.
LEMMA CountType ==
  ASSUME StoreTypeOK, NEW S \in SUBSET docs
  PROVE  IsFiniteSet(S) /\ Cardinality(S) \in Nat
<1>1. IsFiniteSet(S)
  BY FS_Subset DEF StoreTypeOK
<1> QED
  BY <1>1, FS_CardinalityType

\* CREATE SCHEMA keeps the store's type.
LEMMA CreateSchemaType ==
  ASSUME StoreTypeOK, NEW db \in Databases, CreateSchemaStmt(db)
  PROVE  StoreTypeOK'
BY DEF StoreTypeOK, CreateSchemaStmt

\* CREATE COLLECTION keeps the store's type.
LEMMA CreateCollectionType ==
  ASSUME StoreTypeOK, NEW ns \in Namespaces, CreateCollectionStmt(ns)
  PROVE  StoreTypeOK'
BY DEF StoreTypeOK, CreateCollectionStmt

\* DROP COLLECTION keeps the store's type and adds no document.
LEMMA DropCollectionType ==
  ASSUME StoreTypeOK, NEW ns, DropCollectionStmt(ns)
  PROVE  StoreTypeOK' /\ docs' \subseteq docs
<1>1. docs' \subseteq docs
  BY DEF DropCollectionStmt
<1>2. IsFiniteSet(docs')
  BY <1>1, FS_Subset DEF StoreTypeOK
<1> QED
  BY <1>1, <1>2 DEF StoreTypeOK, DropCollectionStmt

\* DROP SCHEMA keeps the store's type and adds no document.
LEMMA DropSchemaType ==
  ASSUME StoreTypeOK, NEW db, DropSchemaStmt(db)
  PROVE  StoreTypeOK' /\ docs' \subseteq docs
<1>1. docs' \subseteq docs
  BY DEF DropSchemaStmt
<1>2. IsFiniteSet(docs')
  BY <1>1, FS_Subset DEF StoreTypeOK
<1> QED
  BY <1>1, <1>2 DEF StoreTypeOK, DropSchemaStmt

\* DELETE keeps the store's type and adds no document.
LEMMA DeleteType ==
  ASSUME StoreTypeOK, NEW S, DeleteStmt(S)
  PROVE  StoreTypeOK' /\ docs' \subseteq docs
<1>1. docs' \subseteq docs
  BY DEF DeleteStmt
<1>2. IsFiniteSet(docs')
  BY <1>1, FS_Subset DEF StoreTypeOK
<1> QED
  BY <1>1, <1>2 DEF StoreTypeOK, DeleteStmt

\* INSERT keeps the store's type and stores one new document.
LEMMA InsertType ==
  ASSUME StoreTypeOK, NEW ns \in Namespaces, NEW i \in Ids, NEW v \in Vals,
         InsertStmt(ns, i, v)
  PROVE  /\ StoreTypeOK'
         /\ \E d \in Document : /\ d.ns = ns /\ d.id = i /\ d.val = v
                                /\ d \notin docs
                                /\ docs' = docs \cup {d}
<1>1. PICK r \in Rows \ {d.row : d \in docs} :
        docs' = docs \cup {[row |-> r, ns |-> ns, id |-> i, val |-> v]}
  BY DEF InsertStmt
<1> DEFINE new == [row |-> r, ns |-> ns, id |-> i, val |-> v]
<1>2. new \in Document /\ new \notin docs
  BY <1>1 DEF Document
<1>3. IsFiniteSet(docs')
  BY <1>1, FS_AddElement DEF StoreTypeOK
<1>4. UNCHANGED <<schemas, collections>>
  BY DEF InsertStmt
<1>5. StoreTypeOK'
  BY <1>1, <1>2, <1>3, <1>4 DEF StoreTypeOK
<1> QED
  BY <1>1, <1>2, <1>5

\* An inserted document whose _id was free keeps the _ids unique.
LEMMA InsertUnique ==
  ASSUME StoreTypeOK, UniqueIds,
         NEW ns \in Namespaces, NEW i \in Ids, NEW v \in Vals,
         WithId(ns, i) = {}, InsertStmt(ns, i, v)
  PROVE  UniqueIds'
<1>1. PICK d \in Document : /\ d.ns = ns /\ d.id = i
                            /\ docs' = docs \cup {d}
  BY InsertType
<1>2. \A e \in docs : ~(e.ns = ns /\ e.id = i)
  BY DEF WithId
<1> QED
  BY <1>1, <1>2 DEF UniqueIds

\* UPDATE keeps the store's type, and every document keeps its collection and
\* _id.
LEMMA UpdateType ==
  ASSUME StoreTypeOK, NEW S \in SUBSET docs, NEW v \in Vals, UpdateStmt(S, v)
  PROVE  /\ StoreTypeOK'
         /\ \A d \in docs' : \E e \in docs : d.ns = e.ns /\ d.id = e.id
<1> DEFINE f == [d \in S |-> [d EXCEPT !.val = v]]
           T == {[d EXCEPT !.val = v] : d \in S}
<1>1. docs' = (docs \ S) \cup T /\ UNCHANGED <<schemas, collections>>
  BY DEF UpdateStmt
<1>2. \A d \in docs : d \in Document
  BY DEF StoreTypeOK
<1>3. \A d \in S : /\ [d EXCEPT !.val = v] \in Document
                   /\ [d EXCEPT !.val = v].ns = d.ns
                   /\ [d EXCEPT !.val = v].id = d.id
  BY <1>2 DEF Document
<1>4. IsFiniteSet(S) /\ IsFiniteSet(docs \ S)
  BY CountType
<1>5. f \in Surjection(S, T)
  BY DEF Surjection
<1>6. IsFiniteSet(T)
  BY <1>4, <1>5, FS_Surjection
<1>7. IsFiniteSet(docs')
  BY <1>1, <1>4, <1>6, FS_Union
<1>8. docs' \subseteq Document
  BY <1>1, <1>2, <1>3
<1>9. StoreTypeOK'
  BY <1>1, <1>7, <1>8 DEF StoreTypeOK
<1>10. ASSUME NEW d \in docs'
       PROVE  \E e \in docs : d.ns = e.ns /\ d.id = e.id
  <2>1. CASE d \in docs
    BY <2>1
  <2>2. CASE d \in T
    <3>1. PICK p \in S : d = [p EXCEPT !.val = v]
      BY <2>2
    <3> QED
      BY <1>3, <3>1
  <2> QED
    BY <1>1, <2>1, <2>2
<1> QED
  BY <1>9, <1>10

\* UPDATE keeps the _ids unique.
LEMMA UpdateUnique ==
  ASSUME StoreTypeOK, UniqueIds, NEW S \in SUBSET docs, NEW v \in Vals,
         UpdateStmt(S, v)
  PROVE  UniqueIds'
<1>1. docs' = (docs \ S) \cup {[d EXCEPT !.val = v] : d \in S}
  BY DEF UpdateStmt
<1>2. \A d \in S : /\ [d EXCEPT !.val = v].ns = d.ns
                   /\ [d EXCEPT !.val = v].id = d.id
  BY DEF StoreTypeOK, Document
<1> SUFFICES ASSUME NEW d \in docs', NEW e \in docs', d.ns = e.ns, d.id = e.id
             PROVE  d = e
  BY DEF UniqueIds
<1>3. PICK p \in docs : /\ p.ns = d.ns /\ p.id = d.id
                        /\ d = IF p \in S THEN [p EXCEPT !.val = v] ELSE p
  BY <1>1, <1>2
<1>4. PICK q \in docs : /\ q.ns = e.ns /\ q.id = e.id
                        /\ e = IF q \in S THEN [q EXCEPT !.val = v] ELSE q
  BY <1>1, <1>2
<1>5. p = q
  BY <1>3, <1>4 DEF UniqueIds
<1> QED
  BY <1>3, <1>4, <1>5
-----------------------------------------------------------------------------
(* Counting the documents a statement changes. *)

\* Every stored row is one document.  Two documents may agree in everything
\* else, so it is by its row that an updated document is told from the others.
RowsUnique == \A d, e \in docs : d.row = e.row => d = e

\* INSERT stores one document, in a row of its own.
LEMMA InsertCount ==
  ASSUME StoreTypeOK, NEW ns, NEW i, NEW v, InsertStmt(ns, i, v)
  PROVE  /\ Cardinality(docs' \ docs) = 1
         /\ RowsUnique => RowsUnique'
<1>1. PICK r \in Rows \ {d.row : d \in docs} :
        docs' = docs \cup {[row |-> r, ns |-> ns, id |-> i, val |-> v]}
  BY DEF InsertStmt
<1> DEFINE new == [row |-> r, ns |-> ns, id |-> i, val |-> v]
<1>2. new.row = r /\ \A d \in docs : d.row # r
  BY <1>1
<1>3. docs' \ docs = {new}
  BY <1>1, <1>2
<1>4. Cardinality(docs' \ docs) = 1
  BY <1>3, FS_Singleton
<1>5. RowsUnique => RowsUnique'
  BY <1>1, <1>2 DEF RowsUnique
<1> QED
  BY <1>4, <1>5

\* UPDATE changes at most the documents it is told to; exactly these when each
\* of them differs from what it is set to.
LEMMA UpdateCount ==
  ASSUME StoreTypeOK, NEW S \in SUBSET docs, NEW v \in Vals, UpdateStmt(S, v)
  PROVE  /\ Cardinality(docs' \ docs) \in Nat
         /\ Cardinality(docs' \ docs) <= Cardinality(S)
         /\ RowsUnique => RowsUnique'
         /\ RowsUnique /\ (\A d \in S : d.val # v) =>
              Cardinality(docs' \ docs) = Cardinality(S)
<1> DEFINE new(d) == [d EXCEPT !.val = v]
           f == [d \in S |-> new(d)]
           T == {new(d) : d \in S}
<1>1. docs' = (docs \ S) \cup T
  BY DEF UpdateStmt
<1>2. IsFiniteSet(S) /\ Cardinality(S) \in Nat
  BY CountType
<1>3. f \in Surjection(S, T)
  BY DEF Surjection
<1>4. /\ IsFiniteSet(T) /\ Cardinality(T) <= Cardinality(S)
      /\ Cardinality(T) = Cardinality(S) <=> f \in Injection(S, T)
  BY <1>2, <1>3, FS_Surjection
<1>5. Cardinality(T) \in Nat
  BY <1>4, FS_CardinalityType
<1>6. docs' \ docs \in SUBSET T
  BY <1>1
<1>7. IsFiniteSet(docs' \ docs) /\ Cardinality(docs' \ docs) <= Cardinality(T)
  BY <1>4, <1>6, FS_Subset
<1>8. Cardinality(docs' \ docs) \in Nat
  BY <1>7, FS_CardinalityType
<1>9. \A d \in S : new(d).row = d.row /\ new(d).val = v
  BY DEF StoreTypeOK, Document
<1>10. ASSUME RowsUnique PROVE RowsUnique'
  <2> SUFFICES ASSUME NEW d \in docs', NEW e \in docs', d.row = e.row
               PROVE  d = e
    BY DEF RowsUnique
  <2>1. PICK p \in docs : p.row = d.row /\ d = IF p \in S THEN new(p) ELSE p
    BY <1>1, <1>9
  <2>2. PICK q \in docs : q.row = e.row /\ e = IF q \in S THEN new(q) ELSE q
    BY <1>1, <1>9
  <2>3. p = q
    BY <1>10, <2>1, <2>2 DEF RowsUnique
  <2> QED
    BY <2>1, <2>2, <2>3
<1>11. ASSUME RowsUnique, \A d \in S : d.val # v
       PROVE  Cardinality(docs' \ docs) = Cardinality(S)
  <2>1. \A d \in S : new(d) \notin docs
    BY <1>9, <1>11 DEF RowsUnique
  <2>2. docs' \ docs = T
    BY <1>1, <2>1
  <2>3. ASSUME NEW d \in S, NEW e \in S, f[d] = f[e] PROVE d = e
    <3>1. new(d) = new(e)
      BY <2>3
    <3>2. d.row = e.row /\ d \in docs /\ e \in docs
      BY <1>9, <3>1
    <3> QED
      BY <1>11, <3>2 DEF RowsUnique
  <2>4. f \in [S -> T]
    BY <1>3 DEF Surjection
  <2>5. f \in Injection(S, T)
    <3> HIDE DEF f, T
    <3> QED
      BY <2>3, <2>4, Fun_IsInj
  <2> QED
    BY <1>4, <2>2, <2>5
<1> QED
  BY <1>2, <1>4, <1>5, <1>7, <1>8, <1>10, <1>11

\* Removing documents keeps the rows apart.
LEMMA FewerRows ==
  ASSUME RowsUnique, docs' \subseteq docs
  PROVE  RowsUnique'
BY DEF RowsUnique

\* A set of documents of one collection that share their _id has one member at
\* most, while _ids are unique.
LEMMA OneDocument ==
  ASSUME StoreTypeOK, UniqueIds, NEW ns, NEW T, \A i, j \in T : i = j,
         NEW S \in SUBSET {d \in docs : d.ns = ns /\ d.id \in T}
  PROVE  Cardinality(S) \in Nat /\ Cardinality(S) <= 1
<1>1. \A d, e \in S : d = e
  BY DEF UniqueIds
<1>2. CASE S = {}
  BY <1>2, FS_EmptySet
<1>3. CASE \E d \in S : S = {d}
  BY <1>3, FS_Singleton
<1> QED
  BY <1>1, <1>2, <1>3

-----------------------------------------------------------------------------
(* Requests. *)

\* The fields a request has, by its command.
LEMMA RequestShape ==
  ASSUME NEW r \in Request
  PROVE  /\ r.op \in DataOps \cup {"create", "drop"} => r.ns \in Namespaces
         /\ r.op = "insert" => r.batch \in Seq(InsertEntry)
         /\ r.op = "update" => r.batch \in Seq(UpdateEntry)
         /\ r.op = "delete" => r.batch \in Seq(DeleteEntry)
         /\ r.op \in {"find", "count"} => r.q \in Filter
         /\ r.op \in {"dropDatabase", "listCollections"} => r.db \in Databases
         /\ r.op = "local" => r.code \in Codes
         /\ r.op \in DataOps \cup {"create", "drop", "dropDatabase", "local",
                                   "listCollections", "listDatabases"}
<1> USE DEF DataOps, BatchOps
<1>1. CASE r \in InsertRequest
  BY <1>1 DEF InsertRequest
<1>2. CASE r \in UpdateRequest
  BY <1>2 DEF UpdateRequest
<1>3. CASE r \in DeleteRequest
  BY <1>3 DEF DeleteRequest
<1>4. CASE r \in ReadRequest
  BY <1>4 DEF ReadRequest
<1>5. CASE r \in CollectionRequest
  BY <1>5 DEF CollectionRequest
<1>6. CASE r \in DatabaseRequest
  BY <1>6 DEF DatabaseRequest
<1>7. CASE r \in ListRequest
  BY <1>7 DEF ListRequest
<1>8. CASE r \in LocalRequest
  BY <1>8 DEF LocalRequest
<1> QED
  BY <1>1, <1>2, <1>3, <1>4, <1>5, <1>6, <1>7, <1>8 DEF Request

\* The entry of a batch at an index within it.
LEMMA EntryShape ==
  ASSUME NEW r \in Request, r.op \in BatchOps,
         NEW i \in Nat \ {0}, i <= Len(r.batch)
  PROVE  /\ r.op = "insert" => r.batch[i] \in InsertEntry
         /\ r.op = "update" => r.batch[i] \in UpdateEntry
         /\ r.op = "delete" => r.batch[i] \in DeleteEntry
<1>1. CASE r.op = "insert"
  BY <1>1, RequestShape
<1>2. CASE r.op = "update"
  BY <1>2, RequestShape
<1>3. CASE r.op = "delete"
  BY <1>3, RequestShape
<1> QED
  BY <1>1, <1>2, <1>3 DEF BatchOps

\* The statements a handler that is busy may be at.
BusyLabels == Labels \ {"idle", "closed"}

\* The loop over a batch goes to a statement of its command.
LEMMA EntryPcAt ==
  ASSUME NEW r \in Request, r.op \in BatchOps, NEW i \in Nat \ {0}
  PROVE  /\ EntryPc(r, i) \in BusyLabels
         /\ At(EntryPc(r, i), r, i)
         /\ EntryPc(r, i) \in {"unique", "count", "pick", "delete", "reply"}
<1>1. CASE i > Len(r.batch)
  BY <1>1 DEF EntryPc, At, BusyLabels, Labels, LoopLabels
<1>2. CASE ~(i > Len(r.batch))
  <2>1. i <= Len(r.batch)
    BY <1>2, RequestShape DEF BatchOps
  <2>2. CASE r.op = "insert"
    BY <1>2, <2>1, <2>2
       DEF EntryPc, At, BusyLabels, Labels, LoopLabels, OpsAt
  <2>3. CASE r.op = "update"
    BY <1>2, <2>1, <2>3
       DEF EntryPc, At, BusyLabels, Labels, LoopLabels, OpsAt
  <2>4. CASE r.op = "delete"
    BY <1>2, <2>1, <2>4
       DEF EntryPc, At, BusyLabels, Labels, LoopLabels, OpsAt
  <2> QED
    BY <2>2, <2>3, <2>4 DEF BatchOps
<1> QED
  BY <1>1, <1>2

\* Where the loop over a batch begins an entry.
LEMMA EntryPcCases ==
  ASSUME NEW r \in Request, r.op \in BatchOps, NEW i \in Nat \ {0}
  PROVE  /\ EntryPc(r, i) = "reply" <=> i > Len(r.batch)
         /\ EntryPc(r, i) = "unique" => r.op = "insert"
         /\ EntryPc(r, i) = "count" => r.op = "update"
         /\ EntryPc(r, i) = "pick" => r.op = "delete" /\ r.batch[i].one
         /\ EntryPc(r, i) = "delete" => r.op = "delete" /\ ~r.batch[i].one
         /\ EntryPc(r, i) \in {"unique", "count", "pick", "delete", "reply"}
<1>1. CASE i > Len(r.batch)
  BY <1>1 DEF EntryPc
<1>2. CASE ~(i > Len(r.batch))
  <2>1. CASE r.op = "insert"
    BY <1>2, <2>1 DEF EntryPc
  <2>2. CASE r.op = "update"
    BY <1>2, <2>2 DEF EntryPc
  <2>3. CASE r.op = "delete"
    BY <1>2, <2>3 DEF EntryPc
  <2> QED
    BY <2>1, <2>2, <2>3 DEF BatchOps
<1> QED
  BY <1>1, <1>2

\* A request is dispatched to the first statement of its handler.
LEMMA FirstPcAt ==
  ASSUME NEW r \in Request
  PROVE  FirstPc(r) \in BusyLabels \ {"insert"} /\ At(FirstPc(r), r, 1)
BY RequestShape
   DEF FirstPc, At, BusyLabels, Labels, LoopLabels, OpsAt, DataOps, BatchOps

\* msgStorage leads to a statement of the request's command.
LEMMA DataPcAt ==
  ASSUME NEW r \in Request, r.op \in DataOps
  PROVE  DataPc(r) \in BusyLabels \ {"insert"} /\ At(DataPc(r), r, 1)
<1>1. CASE r.op \in {"find", "count"}
  BY <1>1 DEF DataPc, At, BusyLabels, Labels, LoopLabels, OpsAt
<1>2. CASE r.op \in BatchOps
  BY <1>2, EntryPcAt DEF DataPc, BatchOps
<1> QED
  BY <1>1, <1>2 DEF DataOps

-----------------------------------------------------------------------------
(* Control: where a step leaves its handler. *)

\* A busy handler's request, its entry and its collection have their types.
LEMMA BusyShape ==
  ASSUME TypeOK, NEW c \in Conns, Busy(c)
  PROVE  /\ req[c] \in Request /\ req[c] \in Requests[c]
         /\ At(pc[c], req[c], idx[c])
         /\ idx[c] \in Nat \ {0}
BY RequestsAssumption DEF TypeOK, ControlOK, VariablesTyped

\* What a step of connection c leaves alone: the data of the others' handlers.
Others(c) ==
  \A d \in Conns \ {c} :
    /\ idx'[d] = idx[d] /\ matched'[d] = matched[d] /\ target'[d] = target[d]
    /\ n'[d] = n[d] /\ mod'[d] = mod[d] /\ done'[d] = done[d]
    /\ list'[d] = list[d]

\* A step of c to label l keeps every handler where its command can be.
LEMMA ControlStep ==
  ASSUME TypeOK, NEW c \in Conns, Busy(c), NEW l \in BusyLabels,
         pc' = [pc EXCEPT ![c] = l], req' = req, Others(c),
         \A d \in Conns \ {c} : code'[d] = code[d],
         At(l, req[c], idx'[c])
  PROVE  pc' \in [Conns -> Labels] /\ \A d \in Conns : ControlOK(d)'
<1>1. pc' \in [Conns -> Labels] /\ pc'[c] = l
      /\ \A d \in Conns \ {c} : pc'[d] = pc[d]
  BY DEF TypeOK, VariablesTyped, BusyLabels
<1>2. ControlOK(c)'
  BY <1>1, BusyShape DEF ControlOK, Busy, BusyLabels
<1>3. ASSUME NEW d \in Conns \ {c} PROVE ControlOK(d)'
  BY <1>1, <1>3 DEF TypeOK, ControlOK, Busy, Fresh, Others
<1> QED
  BY <1>1, <1>2, <1>3

\* Going on to a label, with the code of the reply when it is the reply.
LEMMA GotoType ==
  ASSUME TypeOK, NEW c \in Conns, NEW l, Goto(c, l)
  PROVE  /\ pc' = [pc EXCEPT ![c] = l] /\ code' \in [Conns -> Codes]
         /\ \A d \in Conns \ {c} : code'[d] = code[d]
BY DEF TypeOK, VariablesTyped, Goto, Codes

\* Returning with a code.
LEMMA AnswerType ==
  ASSUME TypeOK, NEW c \in Conns, NEW k \in Codes, Answer(c, k)
  PROVE  /\ pc' = [pc EXCEPT ![c] = "reply"] /\ code' \in [Conns -> Codes]
         /\ \A d \in Conns \ {c} : code'[d] = code[d]
         /\ "reply" \in BusyLabels /\ At("reply", req[c], idx'[c])
BY DEF TypeOK, VariablesTyped, Answer, At, LoopLabels, BusyLabels, Labels

\* The types of the variables a statement may change, but for pc and code.
DataTyped ==
  /\ idx \in [Conns -> Nat \ {0}]
  /\ matched \in [Conns -> Nat]
  /\ target \in [Conns -> SUBSET Ids]
  /\ n \in [Conns -> Nat]
  /\ mod \in [Conns -> Nat]
  /\ done \in [Conns -> Nat]
  /\ list \in [Conns -> [dbs : SUBSET Databases, db : SUBSET Databases,
                         tables : SUBSET CollNames]]

\* A step of a busy handler that goes on to a label of its command keeps
\* TypeOK, provided the variables it changes keep their types.
LEMMA GotoStep ==
  ASSUME TypeOK, NEW c \in Conns, Busy(c), NEW l \in BusyLabels, Goto(c, l),
         At(l, req[c], idx'[c]), Others(c),
         StoreTypeOK', req' = req, DataTyped'
  PROVE  TypeOK'
<1>1. /\ pc' = [pc EXCEPT ![c] = l] /\ code' \in [Conns -> Codes]
      /\ \A d \in Conns \ {c} : code'[d] = code[d]
  BY GotoType
<1>2. pc' \in [Conns -> Labels] /\ \A d \in Conns : ControlOK(d)'
  BY <1>1, ControlStep
<1> QED
  BY <1>1, <1>2 DEF TypeOK, VariablesTyped, DataTyped

\* The same for a step in which the handler returns with a code.
LEMMA AnswerStep ==
  ASSUME TypeOK, NEW c \in Conns, Busy(c), NEW k \in Codes, Answer(c, k),
         Others(c), StoreTypeOK', req' = req, DataTyped'
  PROVE  TypeOK'
<1>1. /\ pc' = [pc EXCEPT ![c] = "reply"] /\ code' \in [Conns -> Codes]
      /\ \A d \in Conns \ {c} : code'[d] = code[d]
      /\ "reply" \in BusyLabels /\ At("reply", req[c], idx'[c])
  BY AnswerType
<1>2. pc' \in [Conns -> Labels] /\ \A d \in Conns : ControlOK(d)'
  BY <1>1, ControlStep
<1> QED
  BY <1>1, <1>2 DEF TypeOK, VariablesTyped, DataTyped

\* The same for a step that ends the request normally.
LEMMA DoneStep ==
  ASSUME TypeOK, NEW c \in Conns, Busy(c), Goto(c, "reply"),
         Others(c), StoreTypeOK', req' = req, DataTyped'
  PROVE  TypeOK'
<1>1. "reply" \in BusyLabels /\ At("reply", req[c], idx'[c])
  BY DEF At, LoopLabels, BusyLabels, Labels
<1> QED
  BY <1>1, GotoStep

\* Going on to the next entry of the batch.
LEMMA NextEntryStep ==
  ASSUME TypeOK, NEW c \in Conns, Busy(c), req[c].op \in BatchOps,
         NextEntry(c), StoreTypeOK', req' = req, Others(c),
         idx' \in [Conns -> Nat \ {0}] => DataTyped'
  PROVE  TypeOK'
<1>1. req[c] \in Request /\ idx[c] \in Nat \ {0} /\ idx \in [Conns -> Nat \ {0}]
  BY BusyShape DEF TypeOK, VariablesTyped
<1>2. /\ idx' \in [Conns -> Nat \ {0}] /\ idx'[c] = idx[c] + 1
  BY <1>1 DEF NextEntry
<1> DEFINE l == EntryPc(req[c], idx[c] + 1)
<1>3. idx[c] + 1 \in Nat \ {0}
  BY <1>1
<1>4. l \in BusyLabels /\ At(l, req[c], idx'[c])
  BY <1>1, <1>2, <1>3, EntryPcAt
<1>5. Goto(c, l)
  BY DEF NextEntry
<1> QED
  BY <1>2, <1>4, <1>5, GotoStep

-----------------------------------------------------------------------------
(* TypeOK is inductive: one lemma for each action. *)

\* In the initial states everything is typed.
LEMMA InitType == Init => TypeOK
<1> SUFFICES ASSUME Init PROVE TypeOK
  OBVIOUS
<1>1. StoreTypeOK
  BY StoreInitType DEF Init
<1>2. VariablesTyped
  BY DEF Init, VariablesTyped, Labels, Codes, EmptyList
<1>3. \A c \in Conns : ControlOK(c)
  BY DEF Init, ControlOK, Busy, Fresh
<1> QED
  BY <1>1, <1>2, <1>3 DEF TypeOK

\* The counters, lists and targets of a typed state.
LEMMA TypedData == TypeOK => DataTyped
BY DEF TypeOK, VariablesTyped, DataTyped

\* A request arrives.
LEMMA ReceiveType ==
  ASSUME TypeOK, NEW c \in Conns, Receive(c)
  PROVE  TypeOK'
<1>1. PICK r \in Requests[c] :
        /\ req' = [req EXCEPT ![c] = r]
        /\ pc' = [pc EXCEPT ![c] = FirstPc(r)]
        /\ code' = [code EXCEPT ![c] = IF r.op = "local" THEN r.code ELSE @]
  BY DEF Receive
<1>2. r \in Request
  BY <1>1, RequestsAssumption
<1>3. FirstPc(r) \in BusyLabels /\ At(FirstPc(r), r, 1)
  BY <1>2, FirstPcAt
<1>4. UNCHANGED <<idx, matched, target, n, mod, done, list>> /\ UNCHANGED store
  BY DEF Receive, counters
<1>0. pc[c] = "idle" /\ idx[c] = 1
  BY DEF Receive, TypeOK, ControlOK, Busy, Fresh
<1>5. /\ pc' \in [Conns -> Labels] /\ pc'[c] = FirstPc(r)
      /\ \A d \in Conns \ {c} : pc'[d] = pc[d]
  BY <1>1, <1>3 DEF TypeOK, VariablesTyped, BusyLabels
<1>6. /\ req' \in [Conns -> Request \cup {NoRequest}] /\ req'[c] = r
      /\ \A d \in Conns \ {c} : req'[d] = req[d]
  BY <1>1, <1>2 DEF TypeOK, VariablesTyped
<1>7. code' \in [Conns -> Codes] /\ \A d \in Conns \ {c} : code'[d] = code[d]
  BY <1>1, <1>2, RequestShape DEF TypeOK, VariablesTyped
<1>8. VariablesTyped'
  BY <1>4, <1>5, <1>6, <1>7 DEF TypeOK, VariablesTyped
<1>9. ASSUME NEW d \in Conns PROVE ControlOK(d)'
  <2>1. CASE d = c
    BY <2>1, <1>0, <1>1, <1>3, <1>4, <1>5, <1>6 DEF ControlOK, Busy, BusyLabels
  <2>2. CASE d # c
    BY <2>2, <1>4, <1>5, <1>6, <1>7 DEF TypeOK, ControlOK, Busy, Fresh
  <2> QED
    BY <2>1, <2>2
<1>10. StoreTypeOK'
  BY <1>4 DEF TypeOK, StoreTypeOK, store
<1> QED
  BY <1>8, <1>9, <1>10 DEF TypeOK

\* A reply is written, or the connection ends.
LEMMA ReplyType ==
  ASSUME TypeOK, NEW c \in Conns, Reply(c)
  PROVE  TypeOK'
<1>1. PICK l \in {"idle", "closed"} : pc' = [pc EXCEPT ![c] = l]
  BY DEF Reply
<1>2. Forget(c) /\ UNCHANGED store
  BY DEF Reply
<1>3. VariablesTyped'
  BY <1>1, <1>2 DEF TypeOK, VariablesTyped, Forget, Labels, Codes, EmptyList
<1>4. ASSUME NEW d \in Conns PROVE ControlOK(d)'
  <2>1. CASE d = c
    BY <2>1, <1>1, <1>2 DEF TypeOK, VariablesTyped, ControlOK, Busy, Fresh, Forget
  <2>2. CASE d # c
    BY <2>2, <1>1, <1>2 DEF TypeOK, VariablesTyped, ControlOK, Busy, Fresh, Forget
  <2> QED
    BY <2>1, <2>2
<1>5. StoreTypeOK'
  BY <1>2 DEF TypeOK, StoreTypeOK, store
<1> QED
  BY <1>3, <1>4, <1>5 DEF TypeOK

\* The client connects again.
LEMMA ReconnectType ==
  ASSUME TypeOK, NEW c \in Conns, Reconnect(c)
  PROVE  TypeOK'
<1> USE DEF Reconnect, locals, counters, store
<1>1. VariablesTyped'
  BY DEF TypeOK, VariablesTyped, Labels
<1>2. ASSUME NEW d \in Conns PROVE ControlOK(d)'
  BY DEF TypeOK, VariablesTyped, ControlOK, Busy, Fresh
<1>3. StoreTypeOK'
  BY DEF TypeOK, StoreTypeOK
<1> QED
  BY <1>1, <1>2, <1>3 DEF TypeOK

\* The process ends.
LEMMA CrashType ==
  ASSUME TypeOK, Crash
  PROVE  TypeOK'
<1>1. VariablesTyped'
  BY DEF Crash, VariablesTyped, Labels, Codes, EmptyList
<1>2. ASSUME NEW d \in Conns PROVE ControlOK(d)'
  BY DEF Crash, ControlOK, Busy, Fresh
<1>3. StoreTypeOK'
  BY DEF Crash, TypeOK, StoreTypeOK, store
<1> QED
  BY <1>1, <1>2, <1>3 DEF TypeOK

\* What holds of a step of a busy handler at statement l, whatever it does.
LEMMA AtStatement ==
  ASSUME TypeOK, NEW c \in Conns, Busy(c), pc[c] # "reply"
  PROVE  /\ req[c] \in Request /\ idx[c] \in Nat \ {0}
         /\ req[c].op \in OpsAt(pc[c])
         /\ pc[c] \in LoopLabels => idx[c] <= Len(req[c].batch)
         /\ pc[c] \notin LoopLabels => idx[c] = 1
BY BusyShape DEF At

\* A statement that only reads leaves the store as it is.
LEMMA StoreUnchanged ==
  ASSUME StoreTypeOK, UNCHANGED store
  PROVE  StoreTypeOK'
BY DEF StoreTypeOK, store

\* The feature query and the query for the table.
LEMMA MsgStorageType ==
  ASSUME TypeOK, NEW c \in Conns, MsgStorage(c)
  PROVE  TypeOK'
<1>1. /\ pc[c] = "storage" /\ Busy(c) /\ UNCHANGED store
      /\ UNCHANGED <<req, idx, matched, target, n, mod, done, list>>
  BY DEF MsgStorage, Read, Busy, locals, counters
<1>2. req[c] \in Request /\ req[c].op \in DataOps /\ idx[c] = 1
  BY <1>1, AtStatement DEF OpsAt, LoopLabels
<1>3. Others(c) /\ DataTyped' /\ StoreTypeOK'
  BY <1>1, TypedData, StoreUnchanged DEF Others, DataTyped, TypeOK
<1>4. \/ Goto(c, "reply")
      \/ Goto(c, DataPc(req[c]))
      \/ req[c].op = "insert" /\ Goto(c, "schema")
      \/ Answer(c, "InternalError")
  BY DEF MsgStorage, Read
<1>5. CASE Goto(c, "reply")
  BY <1>1, <1>3, <1>5, DoneStep
<1>6. CASE Goto(c, DataPc(req[c]))
  <2>1. DataPc(req[c]) \in BusyLabels /\ At(DataPc(req[c]), req[c], idx'[c])
    BY <1>1, <1>2, DataPcAt
  <2> QED
    BY <2>1, <1>1, <1>3, <1>6, GotoStep
<1>7. CASE req[c].op = "insert" /\ Goto(c, "schema")
  <2>1. "schema" \in BusyLabels /\ At("schema", req[c], idx'[c])
    BY <1>1, <1>2, <1>7 DEF At, OpsAt, LoopLabels, BusyLabels, Labels
  <2> QED
    BY <2>1, <1>1, <1>3, <1>7, GotoStep
<1>8. CASE Answer(c, "InternalError")
  BY <1>1, <1>3, <1>8, AnswerStep DEF Codes
<1> QED
  BY <1>4, <1>5, <1>6, <1>7, <1>8

\* CREATE SCHEMA for any command that creates or lists collections.
LEMMA CreateSchemaActionType ==
  ASSUME TypeOK, NEW c \in Conns, CreateSchema(c)
  PROVE  TypeOK'
<1> DEFINE l == IF req[c].op \in {"insert", "create"} THEN "collection" ELSE "tables"
<1>1. /\ pc[c] = "schema" /\ Busy(c)
      /\ UNCHANGED <<req, idx, matched, target, n, mod, done, list>>
  BY DEF CreateSchema, Busy, locals, counters
<1>2. req[c] \in Request /\ idx[c] = 1
      /\ req[c].op \in {"insert", "create", "listCollections", "listDatabases"}
  BY <1>1, AtStatement DEF OpsAt, LoopLabels
<1>3. PICK db \in DbOf(c) : /\ CreateSchemaStmt(db) \/ UNCHANGED store
                            /\ Goto(c, l)
  BY DEF CreateSchema, Execute
<1>4. db \in Databases
  BY <1>2, <1>3, RequestShape
     DEF DbOf, TypeOK, VariablesTyped, Namespaces, DataOps, BatchOps
<1>5. Others(c) /\ DataTyped' /\ StoreTypeOK'
  BY <1>1, <1>3, <1>4, TypedData, StoreUnchanged, CreateSchemaType
     DEF Others, DataTyped, TypeOK
<1>6. l \in BusyLabels /\ At(l, req[c], idx'[c])
  BY <1>1, <1>2 DEF At, OpsAt, LoopLabels, BusyLabels, Labels
<1> QED
  BY <1>1, <1>3, <1>5, <1>6, GotoStep

\* CREATE COLLECTION for insert and create.
LEMMA CreateCollectionActionType ==
  ASSUME TypeOK, NEW c \in Conns, CreateCollection(c)
  PROVE  TypeOK'
<1>1. /\ pc[c] = "collection" /\ Busy(c)
      /\ UNCHANGED <<req, idx, matched, target, n, mod, done, list>>
  BY DEF CreateCollection, Busy, locals, counters
<1>2. /\ req[c] \in Request /\ idx[c] = 1 /\ req[c].op \in {"insert", "create"}
  BY <1>1, AtStatement DEF OpsAt, LoopLabels
<1>3. Ns(c) \in Namespaces
  BY <1>2, RequestShape DEF Ns, DataOps, BatchOps
<1>4. CreateCollectionStmt(Ns(c)) \/ UNCHANGED store
  BY DEF CreateCollection, Execute
<1>5. Others(c) /\ DataTyped' /\ StoreTypeOK'
  BY <1>1, <1>3, <1>4, TypedData, StoreUnchanged, CreateCollectionType
     DEF Others, DataTyped, TypeOK
<1>6. \/ req[c].op = "insert" /\ Goto(c, EntryPc(req[c], 1))
      \/ Goto(c, "reply")
      \/ \E k \in Codes : Answer(c, k)
  BY <1>2 DEF CreateCollection, Execute, Codes
<1>7. CASE req[c].op = "insert" /\ Goto(c, EntryPc(req[c], 1))
  BY <1>1, <1>2, <1>5, <1>7, EntryPcAt, GotoStep DEF BatchOps
<1>8. CASE Goto(c, "reply")
  BY <1>1, <1>5, <1>8, DoneStep
<1>9. CASE \E k \in Codes : Answer(c, k)
  BY <1>1, <1>5, <1>9, AnswerStep
<1> QED
  BY <1>6, <1>7, <1>8, <1>9

\* DROP COLLECTION.
LEMMA DropTableType ==
  ASSUME TypeOK, NEW c \in Conns, DropTable(c)
  PROVE  TypeOK'
<1>1. /\ Busy(c)
      /\ UNCHANGED <<req, idx, matched, target, n, mod, done, list>>
  BY DEF DropTable, Busy, locals, counters
<1>2. DropCollectionStmt(Ns(c)) \/ UNCHANGED store
  BY DEF DropTable, Execute
<1>3. Others(c) /\ DataTyped' /\ StoreTypeOK'
  BY <1>1, <1>2, TypedData, StoreUnchanged, DropCollectionType
     DEF Others, DataTyped, TypeOK
<1>4. Goto(c, "reply") \/ Answer(c, "NamespaceNotFound")
  BY DEF DropTable, Execute
<1> QED
  BY <1>1, <1>3, <1>4, DoneStep, AnswerStep DEF Codes

\* DROP SCHEMA.
LEMMA DropSchemaActionType ==
  ASSUME TypeOK, NEW c \in Conns, DropSchema(c)
  PROVE  TypeOK'
<1>1. /\ Busy(c)
      /\ UNCHANGED <<req, idx, matched, target, n, mod, done, list>>
  BY DEF DropSchema, Busy, locals, counters
<1>2. DropSchemaStmt(req[c].db) \/ UNCHANGED store
  BY DEF DropSchema, Execute
<1>3. Others(c) /\ DataTyped' /\ StoreTypeOK'
  BY <1>1, <1>2, TypedData, StoreUnchanged, DropSchemaType
     DEF Others, DataTyped, TypeOK
<1>4. Goto(c, "reply") \/ Answer(c, "InternalError")
  BY DEF DropSchema, Execute
<1> QED
  BY <1>1, <1>3, <1>4, DoneStep, AnswerStep DEF Codes

\* The SELECT for a free _id.
LEMMA IsIdUniqueType ==
  ASSUME TypeOK, NEW c \in Conns, IsIdUnique(c)
  PROVE  TypeOK'
<1>1. /\ pc[c] = "unique" /\ Busy(c) /\ UNCHANGED store
      /\ UNCHANGED <<req, idx, matched, target, n, mod, done, list>>
  BY DEF IsIdUnique, Read, Busy, locals, counters
<1>2. Others(c) /\ DataTyped' /\ StoreTypeOK'
  BY <1>1, TypedData, StoreUnchanged DEF Others, DataTyped, TypeOK
<1>3. "insert" \in BusyLabels /\ At("insert", req[c], idx'[c])
  BY <1>1, AtStatement DEF At, OpsAt, LoopLabels, BusyLabels, Labels
<1>4. Goto(c, "insert") \/ Answer(c, "InternalError")
  BY DEF IsIdUnique, Read
<1> QED
  BY <1>1, <1>2, <1>3, <1>4, GotoStep, AnswerStep DEF Codes

\* The number of documents a statement has changed.
LEMMA DoneType ==
  ASSUME TypeOK, StoreTypeOK', NEW c \in Conns, NEW S \in SUBSET docs,
         done' = [done EXCEPT ![c] = @ + Cardinality(S)]
  PROVE  done' \in [Conns -> Nat] /\ \A d \in Conns \ {c} : done'[d] = done[d]
<1>1. Cardinality(S) \in Nat
  BY CountType DEF TypeOK
<1> QED
  BY <1>1 DEF TypeOK, VariablesTyped

\* The number of documents a statement has stored.
LEMMA StoredType ==
  ASSUME TypeOK, StoreTypeOK', NEW c \in Conns,
         done' = [done EXCEPT ![c] = @ + Cardinality(docs' \ docs)]
  PROVE  done' \in [Conns -> Nat] /\ \A d \in Conns \ {c} : done'[d] = done[d]
<1>1. IsFiniteSet(docs' \ docs)
  BY FS_Subset DEF StoreTypeOK
<1>2. Cardinality(docs' \ docs) \in Nat
  BY <1>1, FS_CardinalityType
<1> QED
  BY <1>2 DEF TypeOK, VariablesTyped

\* INSERT of one document of the batch.
LEMMA InsertDocumentType ==
  ASSUME TypeOK, NEW c \in Conns, InsertDocument(c)
  PROVE  TypeOK'
<1>1. /\ pc[c] = "insert" /\ Busy(c)
      /\ UNCHANGED <<req, matched, target, mod, list>>
  BY DEF InsertDocument, Busy
<1>2. /\ req[c] \in Request /\ req[c].op = "insert"
      /\ idx[c] \in Nat \ {0} /\ idx[c] <= Len(req[c].batch)
  BY <1>1, AtStatement DEF OpsAt, LoopLabels
<1>3. Ns(c) \in Namespaces /\ Entry(c).id \in Ids /\ Entry(c).val \in Vals
  BY <1>2, RequestShape, EntryShape
     DEF Ns, Entry, InsertEntry, DataOps, BatchOps
<1>4. InsertStmt(Ns(c), Entry(c).id, Entry(c).val) \/ UNCHANGED store
  BY DEF InsertDocument, Execute
<1>5. StoreTypeOK'
  BY <1>3, <1>4, StoreUnchanged, InsertType DEF TypeOK
<1>6. done' \in [Conns -> Nat] /\ \A d \in Conns \ {c} : done'[d] = done[d]
  BY <1>5, StoredType DEF InsertDocument
<1>7. \/ NextEntry(c) /\ n' = [n EXCEPT ![c] = @ + 1]
      \/ Answer(c, "InternalError") /\ UNCHANGED <<idx, n>>
  BY DEF InsertDocument, Execute
<1>8. CASE NextEntry(c) /\ n' = [n EXCEPT ![c] = @ + 1]
  <2>1. Others(c) /\ (idx' \in [Conns -> Nat \ {0}] => DataTyped')
    BY <1>1, <1>6, <1>8, TypedData DEF Others, DataTyped, NextEntry
  <2> QED
    BY <1>1, <1>2, <1>5, <1>8, <2>1, NextEntryStep DEF BatchOps
<1>9. CASE Answer(c, "InternalError") /\ UNCHANGED <<idx, n>>
  <2>1. Others(c) /\ DataTyped'
    BY <1>1, <1>6, <1>9, TypedData DEF Others, DataTyped
  <2> QED
    BY <1>1, <1>5, <1>9, <2>1, AnswerStep DEF Codes
<1> QED
  BY <1>7, <1>8, <1>9

\* The documents a filter matches are stored documents.
LEMMA WhereType ==
  ASSUME NEW ns, NEW match
  PROVE  Where(ns, match) \subseteq docs
BY DEF Where

\* The SELECT COUNT of MsgUpdate.
LEMMA CountMatchedType ==
  ASSUME TypeOK, NEW c \in Conns, CountMatched(c)
  PROVE  TypeOK'
<1> DEFINE S == Where(Ns(c), Entry(c).q.match)
           l == IF Entry(c).multi THEN "update" ELSE "pick"
<1>1. /\ pc[c] = "count" /\ Busy(c) /\ UNCHANGED store
      /\ UNCHANGED <<req, idx, target, n, mod, done, list>>
  BY DEF CountMatched, Read, Busy, counters
<1>2. /\ req[c] \in Request /\ req[c].op = "update"
      /\ idx[c] \in Nat \ {0} /\ idx[c] <= Len(req[c].batch)
  BY <1>1, AtStatement DEF OpsAt, LoopLabels
<1>3. \/ matched' = [matched EXCEPT ![c] = Cardinality(S)] /\ Goto(c, l)
      \/ Answer(c, "InternalError") /\ UNCHANGED matched
  BY DEF CountMatched, Read
<1>4. Cardinality(S) \in Nat
  BY WhereType, CountType DEF TypeOK
<1>5. Others(c) /\ DataTyped'
  BY <1>1, <1>3, <1>4, TypedData DEF Others, DataTyped
<1>6. StoreTypeOK'
  BY <1>1, StoreUnchanged DEF TypeOK
<1>7. l \in BusyLabels /\ At(l, req[c], idx'[c])
  BY <1>1, <1>2 DEF At, OpsAt, LoopLabels, BusyLabels, Labels
<1> QED
  BY <1>1, <1>3, <1>5, <1>6, <1>7, GotoStep, AnswerStep DEF Codes

\* The SELECT of an updateOne.
LEMMA PickForUpdateType ==
  ASSUME TypeOK, NEW c \in Conns, PickForUpdate(c)
  PROVE  TypeOK'
<1> DEFINE S == NeedsUpdate(Entry(c), Where(Ns(c), Entry(c).q.match))
<1>1. /\ pc[c] = "pick" /\ req[c].op = "update" /\ Busy(c) /\ UNCHANGED store
      /\ UNCHANGED <<req, matched, mod, done, list>>
  BY DEF PickForUpdate, Read, Busy
<1>2. /\ req[c] \in Request
      /\ idx[c] \in Nat \ {0} /\ idx[c] <= Len(req[c].batch)
  BY <1>1, AtStatement DEF LoopLabels
<1>3. \/ /\ \E d \in S : target' = [target EXCEPT ![c] = {d.id}]
         /\ Goto(c, "update") /\ UNCHANGED <<idx, n>>
      \/ /\ NextEntry(c) /\ UNCHANGED target
         /\ n' = [n EXCEPT ![c] = @ + matched[c]]
  BY DEF PickForUpdate, Read
<1>4. StoreTypeOK'
  BY <1>1, StoreUnchanged DEF TypeOK
<1>5. \A d \in S : d.id \in Ids
  BY DEF NeedsUpdate, Where, TypeOK, StoreTypeOK, Document
<1>6. CASE /\ \E d \in S : target' = [target EXCEPT ![c] = {d.id}]
           /\ Goto(c, "update") /\ UNCHANGED <<idx, n>>
  <2>1. Others(c) /\ DataTyped'
    BY <1>1, <1>5, <1>6, TypedData DEF Others, DataTyped
  <2>2. "update" \in BusyLabels /\ At("update", req[c], idx'[c])
    BY <1>1, <1>2, <1>6 DEF At, OpsAt, LoopLabels, BusyLabels, Labels
  <2> QED
    BY <1>1, <1>4, <1>6, <2>1, <2>2, GotoStep
<1>7. CASE /\ NextEntry(c) /\ UNCHANGED target
           /\ n' = [n EXCEPT ![c] = @ + matched[c]]
  <2>1. Others(c) /\ (idx' \in [Conns -> Nat \ {0}] => DataTyped')
    BY <1>1, <1>7, TypedData DEF Others, DataTyped, NextEntry
  <2> QED
    BY <1>1, <1>4, <1>7, <2>1, NextEntryStep DEF BatchOps
<1> QED
  BY <1>3, <1>6, <1>7

\* An UPDATE changes stored documents.
LEMMA UpdatedType ==
  ASSUME NEW c \in Conns
  PROVE  Updated(c) \in SUBSET docs
BY DEF Updated, NeedsUpdate, Where

\* The UPDATE.
LEMMA UpdateDocumentsType ==
  ASSUME TypeOK, NEW c \in Conns, UpdateDocuments(c)
  PROVE  TypeOK'
<1>1. /\ pc[c] = "update" /\ Busy(c)
      /\ UNCHANGED <<req, matched, target, list>>
  BY DEF UpdateDocuments, Busy
<1>2. /\ req[c] \in Request /\ req[c].op = "update"
      /\ idx[c] \in Nat \ {0} /\ idx[c] <= Len(req[c].batch)
  BY <1>1, AtStatement DEF OpsAt, LoopLabels
<1>3. Entry(c).set \in Vals
  BY <1>2, EntryShape DEF Entry, UpdateEntry, BatchOps
<1>4. UpdateStmt(Updated(c), Entry(c).set) \/ UNCHANGED store
  BY DEF UpdateDocuments, Execute
<1>5. StoreTypeOK'
  BY <1>3, <1>4, UpdatedType, StoreUnchanged, UpdateType DEF TypeOK
<1>6. done' \in [Conns -> Nat] /\ \A d \in Conns \ {c} : done'[d] = done[d]
  BY <1>5, StoredType DEF UpdateDocuments
<1>7. \/ /\ NextEntry(c) /\ n' = [n EXCEPT ![c] = @ + matched[c]]
         /\ mod' = [mod EXCEPT ![c] = @ + ModifiedBy(c)]
      \/ Answer(c, "InternalError") /\ UNCHANGED <<idx, n, mod>>
  BY DEF UpdateDocuments, Execute
<1>8. CASE /\ NextEntry(c) /\ n' = [n EXCEPT ![c] = @ + matched[c]]
           /\ mod' = [mod EXCEPT ![c] = @ + ModifiedBy(c)]
  <2>1. ModifiedBy(c) \in Nat
    BY UpdatedType, CountType DEF TypeOK, ModifiedBy
  <2>2. Others(c) /\ (idx' \in [Conns -> Nat \ {0}] => DataTyped')
    BY <1>1, <1>6, <1>8, <2>1, TypedData DEF Others, DataTyped, NextEntry
  <2> QED
    BY <1>1, <1>2, <1>5, <1>8, <2>2, NextEntryStep DEF BatchOps
<1>9. CASE Answer(c, "InternalError") /\ UNCHANGED <<idx, n, mod>>
  <2>1. Others(c) /\ DataTyped'
    BY <1>1, <1>6, <1>9, TypedData DEF Others, DataTyped
  <2> QED
    BY <1>1, <1>5, <1>9, <2>1, AnswerStep DEF Codes
<1> QED
  BY <1>7, <1>8, <1>9

\* The SELECT of a deleteOne.
LEMMA PickForDeleteType ==
  ASSUME TypeOK, NEW c \in Conns, PickForDelete(c)
  PROVE  TypeOK'
<1> DEFINE S == Where(Ns(c), Entry(c).q.match)
<1>1. /\ pc[c] = "pick" /\ req[c].op = "delete" /\ Busy(c) /\ UNCHANGED store
      /\ UNCHANGED <<req, matched, n, mod, done, list>>
  BY DEF PickForDelete, Read, Busy, counters
<1>2. /\ req[c] \in Request
      /\ idx[c] \in Nat \ {0} /\ idx[c] <= Len(req[c].batch)
  BY <1>1, AtStatement DEF LoopLabels
<1>3. \/ /\ \E d \in S : target' = [target EXCEPT ![c] = {d.id}]
         /\ Goto(c, "delete") /\ UNCHANGED idx
      \/ NextEntry(c) /\ UNCHANGED target
  BY DEF PickForDelete, Read
<1>4. StoreTypeOK'
  BY <1>1, StoreUnchanged DEF TypeOK
<1>5. \A d \in S : d.id \in Ids
  BY DEF Where, TypeOK, StoreTypeOK, Document
<1>6. CASE /\ \E d \in S : target' = [target EXCEPT ![c] = {d.id}]
           /\ Goto(c, "delete") /\ UNCHANGED idx
  <2>1. Others(c) /\ DataTyped'
    BY <1>1, <1>5, <1>6, TypedData DEF Others, DataTyped
  <2>2. "delete" \in BusyLabels /\ At("delete", req[c], idx'[c])
    BY <1>1, <1>2, <1>6 DEF At, OpsAt, LoopLabels, BusyLabels, Labels
  <2> QED
    BY <1>1, <1>4, <1>6, <2>1, <2>2, GotoStep
<1>7. CASE NextEntry(c) /\ UNCHANGED target
  <2>1. Others(c) /\ (idx' \in [Conns -> Nat \ {0}] => DataTyped')
    BY <1>1, <1>7, TypedData DEF Others, DataTyped, NextEntry
  <2> QED
    BY <1>1, <1>4, <1>7, <2>1, NextEntryStep DEF BatchOps
<1> QED
  BY <1>3, <1>6, <1>7

\* A DELETE removes stored documents.
LEMMA DeletedType ==
  ASSUME NEW c \in Conns
  PROVE  Deleted(c) \in SUBSET docs
BY DEF Deleted, Where

\* The DELETE.
LEMMA DeleteDocumentsType ==
  ASSUME TypeOK, NEW c \in Conns, DeleteDocuments(c)
  PROVE  TypeOK'
<1>1. /\ pc[c] = "delete" /\ Busy(c)
      /\ UNCHANGED <<req, matched, target, mod, list>>
  BY DEF DeleteDocuments, Busy
<1>2. req[c].op = "delete"
  BY <1>1, AtStatement DEF OpsAt
<1>3. DeleteStmt(Deleted(c)) \/ UNCHANGED store
  BY DEF DeleteDocuments, Execute
<1>4. StoreTypeOK'
  BY <1>3, StoreUnchanged, DeleteType DEF TypeOK
<1>5. done' \in [Conns -> Nat] /\ \A d \in Conns \ {c} : done'[d] = done[d]
  BY <1>4, DoneType DEF DeleteDocuments
<1>6. \/ NextEntry(c) /\ n' = [n EXCEPT ![c] = @ + Cardinality(Deleted(c))]
      \/ Answer(c, "NamespaceNotFound") /\ UNCHANGED <<idx, n>>
  BY DEF DeleteDocuments, Execute
<1>7. CASE NextEntry(c) /\ n' = [n EXCEPT ![c] = @ + Cardinality(Deleted(c))]
  <2>1. Cardinality(Deleted(c)) \in Nat
    BY DeletedType, CountType DEF TypeOK
  <2>2. Others(c) /\ (idx' \in [Conns -> Nat \ {0}] => DataTyped')
    BY <1>1, <1>5, <1>7, <2>1, TypedData DEF Others, DataTyped, NextEntry
  <2> QED
    BY <1>1, <1>2, <1>4, <1>7, <2>2, NextEntryStep DEF BatchOps
<1>8. CASE Answer(c, "NamespaceNotFound") /\ UNCHANGED <<idx, n>>
  <2>1. Others(c) /\ DataTyped'
    BY <1>1, <1>5, <1>8, TypedData DEF Others, DataTyped
  <2> QED
    BY <1>1, <1>4, <1>8, <2>1, AnswerStep DEF Codes
<1> QED
  BY <1>6, <1>7, <1>8

\* A filter or an update that is rejected.
LEMMA RejectType ==
  ASSUME TypeOK, NEW c \in Conns, Reject(c)
  PROVE  TypeOK'
<1>1. /\ Busy(c) /\ UNCHANGED store
      /\ UNCHANGED <<req, idx, matched, target, n, mod, done, list>>
  BY DEF Reject, Busy, locals, counters
<1>2. Others(c) /\ DataTyped' /\ StoreTypeOK'
  BY <1>1, TypedData, StoreUnchanged DEF Others, DataTyped, TypeOK
<1>3. PICK k \in Codes : Answer(c, k)
  BY DEF Reject, Codes
<1> QED
  BY <1>1, <1>2, <1>3, AnswerStep

\* The SELECT of find and count.
LEMMA QueryType ==
  ASSUME TypeOK, NEW c \in Conns, Query(c)
  PROVE  TypeOK'
<1> DEFINE S == Where(Ns(c), req[c].q.match)
<1>1. /\ pc[c] = "query" /\ Busy(c) /\ UNCHANGED store
      /\ UNCHANGED <<req, idx, matched, target, mod, done, list>>
  BY DEF Query, Read, Busy
<1>2. \/ n' = [n EXCEPT ![c] = Cardinality(S)] /\ Goto(c, "reply")
      \/ Answer(c, "InternalError") /\ UNCHANGED n
  BY DEF Query, Read
<1>3. Cardinality(S) \in Nat
  BY WhereType, CountType DEF TypeOK
<1>4. Others(c) /\ DataTyped'
  BY <1>1, <1>2, <1>3, TypedData DEF Others, DataTyped
<1>5. StoreTypeOK'
  BY <1>1, StoreUnchanged DEF TypeOK
<1> QED
  BY <1>1, <1>2, <1>4, <1>5, DoneStep, AnswerStep DEF Codes

\* listDatabases goes on, or is done.
LEMMA NextDatabaseStep ==
  ASSUME TypeOK, NEW c \in Conns, Busy(c), req[c].op = "listDatabases",
         idx[c] = 1, NEW S \in SUBSET Databases, NextDatabase(c, S),
         UNCHANGED <<store, req, idx, matched, target, n, mod, done>>
  PROVE  TypeOK'
<1> USE DEF NextDatabase
<1>1. Others(c) /\ DataTyped'
  BY TypedData DEF Others, DataTyped, EmptyList
<1>2. StoreTypeOK'
  BY StoreUnchanged DEF TypeOK
<1>3. "schema" \in BusyLabels /\ At("schema", req[c], idx'[c])
  BY DEF At, OpsAt, LoopLabels, BusyLabels, Labels
<1>4. Goto(c, "reply") \/ Goto(c, "schema")
  OBVIOUS
<1> QED
  BY <1>1, <1>2, <1>3, <1>4, GotoStep, DoneStep

\* Schemas.
LEMMA ListSchemasType ==
  ASSUME TypeOK, NEW c \in Conns, ListSchemas(c)
  PROVE  TypeOK'
<1>1. /\ pc[c] = "schemas" /\ Busy(c) /\ UNCHANGED store
      /\ UNCHANGED <<req, idx, matched, target, n, mod, done>>
  BY DEF ListSchemas, Read, Busy, counters
<1>2. req[c].op = "listDatabases" /\ idx[c] = 1
  BY <1>1, AtStatement DEF OpsAt, LoopLabels
<1>3. \/ NextDatabase(c, schemas)
      \/ Answer(c, "InternalError") /\ UNCHANGED list
  BY DEF ListSchemas, Read
<1>4. CASE NextDatabase(c, schemas)
  <2>1. schemas \in SUBSET Databases
    BY DEF TypeOK, StoreTypeOK
  <2> QED
    BY <1>1, <1>2, <1>4, <2>1, NextDatabaseStep
<1>5. CASE Answer(c, "InternalError") /\ UNCHANGED list
  <2>1. Others(c) /\ DataTyped' /\ StoreTypeOK'
    BY <1>1, <1>5, TypedData, StoreUnchanged DEF Others, DataTyped, TypeOK
  <2> QED
    BY <1>1, <1>5, <2>1, AnswerStep DEF Codes
<1> QED
  BY <1>3, <1>4, <1>5

\* Tables, for listCollections and for listDatabases.
LEMMA ListTablesType ==
  ASSUME TypeOK, NEW c \in Conns, ListTables(c)
  PROVE  TypeOK'
<1> DEFINE found == {coll \in CollNames : \E db \in DbOf(c) : <<db, coll>> \in collections}
<1>1. /\ pc[c] = "tables" /\ Busy(c) /\ UNCHANGED store
      /\ UNCHANGED <<req, idx, matched, target, n, mod, done>>
  BY DEF ListTables, Read, Busy, counters
<1>2. req[c].op \in {"listCollections", "listDatabases"} /\ idx[c] = 1
  BY <1>1, AtStatement DEF OpsAt, LoopLabels
<1>3. list[c].dbs \in SUBSET Databases
  BY DEF TypeOK, VariablesTyped
<1>4. \/ Goto(c, "reply") /\ UNCHANGED list
      \/ req[c].op = "listDatabases" /\ NextDatabase(c, list[c].dbs)
      \/ /\ req[c].op = "listDatabases" /\ Goto(c, "size")
         /\ list' = [list EXCEPT ![c].tables = found]
      \/ Answer(c, "InternalError") /\ UNCHANGED list
  BY <1>2 DEF ListTables, Read
<1>5. StoreTypeOK'
  BY <1>1, StoreUnchanged DEF TypeOK
<1>6. CASE Goto(c, "reply") /\ UNCHANGED list
  <2>1. Others(c) /\ DataTyped'
    BY <1>1, <1>6, TypedData DEF Others, DataTyped
  <2> QED
    BY <1>1, <1>5, <1>6, <2>1, DoneStep
<1>7. CASE req[c].op = "listDatabases" /\ NextDatabase(c, list[c].dbs)
  BY <1>1, <1>2, <1>3, <1>7, NextDatabaseStep
<1>8. CASE /\ req[c].op = "listDatabases" /\ Goto(c, "size")
           /\ list' = [list EXCEPT ![c].tables = found]
  <2>1. found \in SUBSET CollNames
    OBVIOUS
  <2> HIDE DEF found
  <2>2. Others(c) /\ DataTyped'
    BY <1>1, <1>8, <2>1, TypedData DEF Others, DataTyped
  <2>3. "size" \in BusyLabels /\ At("size", req[c], idx'[c])
    BY <1>1, <1>2, <1>8 DEF At, OpsAt, LoopLabels, BusyLabels, Labels
  <2> QED
    BY <1>1, <1>5, <1>8, <2>2, <2>3, GotoStep
<1>9. CASE Answer(c, "InternalError") /\ UNCHANGED list
  <2>1. Others(c) /\ DataTyped'
    BY <1>1, <1>9, TypedData DEF Others, DataTyped
  <2> QED
    BY <1>1, <1>5, <1>9, <2>1, AnswerStep DEF Codes
<1> QED
  BY <1>4, <1>6, <1>7, <1>8, <1>9

\* The size of one table.
LEMMA TableSizeType ==
  ASSUME TypeOK, NEW c \in Conns, TableSize(c)
  PROVE  TypeOK'
<1>1. /\ pc[c] = "size" /\ Busy(c) /\ UNCHANGED store
      /\ UNCHANGED <<req, idx, matched, target, n, mod, done>>
  BY DEF TableSize, Read, Busy, counters
<1>2. req[c].op = "listDatabases" /\ idx[c] = 1
  BY <1>1, AtStatement DEF OpsAt, LoopLabels
<1>3. list[c].dbs \in SUBSET Databases
  BY DEF TypeOK, VariablesTyped
<1>4. \/ NextDatabase(c, list[c].dbs)
      \/ /\ \E coll \in list[c].tables :
              list' = [list EXCEPT ![c].tables = @ \ {coll}]
         /\ Goto(c, "size")
      \/ Answer(c, "InternalError") /\ UNCHANGED list
  BY DEF TableSize, Read
<1>5. StoreTypeOK'
  BY <1>1, StoreUnchanged DEF TypeOK
<1>6. CASE NextDatabase(c, list[c].dbs)
  BY <1>1, <1>2, <1>3, <1>6, NextDatabaseStep
<1>7. CASE /\ \E coll \in list[c].tables :
                list' = [list EXCEPT ![c].tables = @ \ {coll}]
           /\ Goto(c, "size")
  <2>1. Others(c) /\ DataTyped'
    BY <1>1, <1>7, TypedData DEF Others, DataTyped
  <2>2. "size" \in BusyLabels /\ At("size", req[c], idx'[c])
    BY <1>1, <1>2 DEF At, OpsAt, LoopLabels, BusyLabels, Labels
  <2> QED
    BY <1>1, <1>5, <1>7, <2>1, <2>2, GotoStep
<1>8. CASE Answer(c, "InternalError") /\ UNCHANGED list
  <2>1. Others(c) /\ DataTyped'
    BY <1>1, <1>8, TypedData DEF Others, DataTyped
  <2> QED
    BY <1>1, <1>5, <1>8, <2>1, AnswerStep DEF Codes
<1> QED
  BY <1>4, <1>6, <1>7, <1>8

\* A step that changes nothing.
LEMMA StutterType ==
  ASSUME TypeOK, UNCHANGED vars
  PROVE  TypeOK'
BY DEF TypeOK, StoreTypeOK, VariablesTyped, ControlOK, Busy, Fresh,
       vars, store, locals, counters

\* Every step keeps every variable's type and every handler where its command
\* can be.
LEMMA NextType ==
  ASSUME TypeOK, [Next]_vars
  PROVE  TypeOK'
<1>1. CASE Crash
  BY <1>1, CrashType
<1>2. ASSUME NEW c \in Conns, Receive(c) PROVE TypeOK'
  BY <1>2, ReceiveType
<1>3. ASSUME NEW c \in Conns, Reconnect(c) PROVE TypeOK'
  BY <1>3, ReconnectType
<1>4. ASSUME NEW c \in Conns, Handle(c) PROVE TypeOK'
  BY <1>4, MsgStorageType, CreateSchemaActionType, CreateCollectionActionType,
     DropTableType, DropSchemaActionType, IsIdUniqueType, InsertDocumentType,
     CountMatchedType, PickForUpdateType, UpdateDocumentsType,
     PickForDeleteType, DeleteDocumentsType, RejectType, QueryType, ListSchemasType,
     ListTablesType, TableSizeType, ReplyType
     DEF Handle
<1>5. CASE UNCHANGED vars
  BY <1>5, StutterType
<1> QED
  BY <1>1, <1>2, <1>3, <1>4, <1>5 DEF Next

\* In every reachable state the store and the handlers' variables have their
\* types, a busy handler is at a statement of the command it serves and within
\* its batch, and an idle one has forgotten its last request: whatever the
\* connections send, whatever fails, and however often the process restarts.
THEOREM TypeCorrect == Spec => []TypeOK
<1>1. Init => TypeOK
  BY InitType
<1>2. TypeOK /\ [Next]_vars => TypeOK'
  BY NextType
<1> QED
  BY <1>1, <1>2, PTL DEF Spec

-----------------------------------------------------------------------------
(* UniqueIds.  It is not inductive: an INSERT is harmless only because the   *)
(* _id was free when the handler looked, and still is.  InsertWindow says    *)
(* so; other connections keep it because, under PartitionedIds, they insert  *)
(* other _ids, and because no other statement makes an _id appear.           *)

\* No _id appears in a collection in this step.
NoNewIds == \A d \in docs' : \E e \in docs : d.ns = e.ns /\ d.id = e.id

\* This step is of connection c and does not take it to an INSERT.
NotToInsert(c) ==
  /\ pc'[c] # "insert"
  /\ \A d \in Conns \ {c} : pc'[d] = pc[d] /\ req'[d] = req[d] /\ idx'[d] = idx[d]

\* Removing documents, or leaving them alone, keeps the _ids unique.
LEMMA FewerDocs ==
  ASSUME UniqueIds, docs' \subseteq docs
  PROVE  NoNewIds /\ UniqueIds'
BY DEF UniqueIds, NoNewIds

\* A step that makes no _id appear and begins no INSERT keeps the windows.
LEMMA WindowStep ==
  ASSUME InsertWindow, NEW c \in Conns, NoNewIds, NotToInsert(c)
  PROVE  InsertWindow'
<1> SUFFICES ASSUME NEW d \in Conns, pc'[d] = "insert"
             PROVE  WithId(Ns(d), Entry(d).id)' = {}
  BY DEF InsertWindow
<1>1. d # c /\ pc[d] = "insert" /\ Ns(d)' = Ns(d) /\ Entry(d)' = Entry(d)
  BY DEF NotToInsert, Ns, Entry
<1>2. WithId(Ns(d), Entry(d).id) = {}
  BY <1>1 DEF InsertWindow
<1> QED
  BY <1>1, <1>2 DEF WithId, NoNewIds

\* Goto and Answer begin no INSERT, unless Goto is told to.
LEMMA GotoElsewhere ==
  ASSUME TypeOK, NEW c \in Conns, req' = req,
         \A d \in Conns \ {c} : idx'[d] = idx[d],
         \/ \E l : l # "insert" /\ Goto(c, l)
         \/ \E k : Answer(c, k)
  PROVE  NotToInsert(c)
BY DEF TypeOK, VariablesTyped, NotToInsert, Goto, Answer

\* Going on to the next entry begins no INSERT: IsIdUnique comes first.
LEMMA NextEntryElsewhere ==
  ASSUME TypeOK, NEW c \in Conns, Busy(c), req[c].op \in BatchOps, req' = req,
         NextEntry(c)
  PROVE  NotToInsert(c)
<1>1. req[c] \in Request /\ idx[c] + 1 \in Nat \ {0}
  BY BusyShape
<1>2. EntryPc(req[c], idx[c] + 1) # "insert"
  BY <1>1, EntryPcAt
<1>3. \A d \in Conns \ {c} : idx'[d] = idx[d]
  BY DEF NextEntry, TypeOK, VariablesTyped
<1> QED
  BY <1>2, <1>3, GotoElsewhere DEF NextEntry

\* No statement but the INSERT makes an _id appear, and none but the SELECT of
\* IsIdUnique leads to one.
LEMMA QuietStep ==
  ASSUME TypeOK, UniqueIds, NEW c \in Conns, Handle(c),
         ~IsIdUnique(c), ~InsertDocument(c)
  PROVE  NoNewIds /\ UniqueIds' /\ NotToInsert(c)
<1>1. CASE MsgStorage(c)
  <2>1. pc[c] = "storage" /\ Busy(c) /\ docs' = docs /\ UNCHANGED <<req, idx>>
    BY <1>1 DEF MsgStorage, Read, Busy, store, locals
  <2>2. req[c] \in Request /\ req[c].op \in DataOps
    BY <2>1, AtStatement DEF OpsAt
  <2>3. DataPc(req[c]) # "insert"
    BY <2>2, DataPcAt
  <2> QED
    BY <1>1, <2>1, <2>3, FewerDocs, GotoElsewhere DEF MsgStorage, Read
<1>2. CASE CreateSchema(c)
  <2>1. docs' = docs /\ UNCHANGED <<req, idx>>
    BY <1>2 DEF CreateSchema, Execute, CreateSchemaStmt, store, locals
  <2>2. Goto(c, "collection") \/ Goto(c, "tables")
    BY <1>2 DEF CreateSchema, Execute
  <2> QED
    BY <2>1, <2>2, FewerDocs, GotoElsewhere
<1>3. CASE CreateCollection(c)
  <2>1. pc[c] = "collection" /\ Busy(c) /\ docs' = docs /\ UNCHANGED <<req, idx>>
    BY <1>3 DEF CreateCollection, Execute, CreateCollectionStmt, Busy, store, locals
  <2>2. req[c] \in Request /\ req[c].op \in {"insert", "create"}
    BY <2>1, AtStatement DEF OpsAt
  <2>3. req[c].op = "insert" => EntryPc(req[c], 1) # "insert"
    BY <2>2, EntryPcAt DEF BatchOps
  <2> QED
    BY <1>3, <2>1, <2>3, FewerDocs, GotoElsewhere DEF CreateCollection, Execute
<1>4. CASE DropTable(c)
  <2>1. docs' \subseteq docs /\ UNCHANGED <<req, idx>>
    BY <1>4 DEF DropTable, Execute, DropCollectionStmt, store, locals
  <2> QED
    BY <1>4, <2>1, FewerDocs, GotoElsewhere DEF DropTable, Execute
<1>5. CASE DropSchema(c)
  <2>1. docs' \subseteq docs /\ UNCHANGED <<req, idx>>
    BY <1>5 DEF DropSchema, Execute, DropSchemaStmt, store, locals
  <2> QED
    BY <1>5, <2>1, FewerDocs, GotoElsewhere DEF DropSchema, Execute
<1>6. CASE CountMatched(c)
  <2>1. docs' = docs /\ UNCHANGED <<req, idx>>
    BY <1>6 DEF CountMatched, Read, store
  <2> QED
    BY <1>6, <2>1, FewerDocs, GotoElsewhere DEF CountMatched, Read
<1>7. CASE PickForUpdate(c)
  <2>1. /\ docs' = docs /\ req' = req /\ Busy(c) /\ req[c].op \in BatchOps
        /\ NextEntry(c) \/ (Goto(c, "update") /\ idx' = idx)
    BY <1>7 DEF PickForUpdate, Read, store, Busy, BatchOps
  <2> QED
    BY <2>1, FewerDocs, GotoElsewhere, NextEntryElsewhere
<1>8. CASE UpdateDocuments(c)
  <2>1. /\ pc[c] = "update" /\ req' = req /\ Busy(c)
        /\ NextEntry(c) \/ (Answer(c, "InternalError") /\ idx' = idx)
        /\ UpdateStmt(Updated(c), Entry(c).set) \/ docs' = docs
    BY <1>8 DEF UpdateDocuments, Execute, store, Busy
  <2>2. /\ req[c] \in Request /\ req[c].op = "update"
        /\ idx[c] \in Nat \ {0} /\ idx[c] <= Len(req[c].batch)
    BY <2>1, AtStatement DEF OpsAt, LoopLabels
  <2>3. Entry(c).set \in Vals
    BY <2>2, EntryShape DEF Entry, UpdateEntry, BatchOps
  <2>4. NoNewIds /\ UniqueIds'
    BY <2>1, <2>3, UpdatedType, UpdateType, UpdateUnique, FewerDocs
       DEF TypeOK, NoNewIds
  <2> QED
    BY <2>1, <2>2, <2>4, GotoElsewhere, NextEntryElsewhere DEF BatchOps
<1>9. CASE PickForDelete(c)
  <2>1. /\ docs' = docs /\ req' = req /\ Busy(c) /\ req[c].op \in BatchOps
        /\ NextEntry(c) \/ (Goto(c, "delete") /\ idx' = idx)
    BY <1>9 DEF PickForDelete, Read, store, Busy, BatchOps
  <2> QED
    BY <2>1, FewerDocs, GotoElsewhere, NextEntryElsewhere
<1>10. CASE DeleteDocuments(c)
  <2>1. /\ pc[c] = "delete" /\ req' = req /\ Busy(c) /\ docs' \subseteq docs
        /\ NextEntry(c) \/ (Answer(c, "NamespaceNotFound") /\ idx' = idx)
    BY <1>10 DEF DeleteDocuments, Execute, DeleteStmt, store, Busy
  <2>2. req[c].op = "delete"
    BY <2>1, AtStatement DEF OpsAt
  <2> QED
    BY <2>1, <2>2, FewerDocs, GotoElsewhere, NextEntryElsewhere DEF BatchOps
<1>11. CASE Query(c)
  <2>1. docs' = docs /\ UNCHANGED <<req, idx>>
    BY <1>11 DEF Query, Read, store
  <2> QED
    BY <1>11, <2>1, FewerDocs, GotoElsewhere DEF Query, Read
<1>12. CASE ListSchemas(c) \/ ListTables(c) \/ TableSize(c)
  <2>1. docs' = docs /\ UNCHANGED <<req, idx>>
    BY <1>12 DEF ListSchemas, ListTables, TableSize, Read, store
  <2>2. \/ Goto(c, "reply") \/ Goto(c, "schema") \/ Goto(c, "size")
        \/ Answer(c, "InternalError")
    BY <1>12 DEF ListSchemas, ListTables, TableSize, Read, NextDatabase
  <2> QED
    BY <2>1, <2>2, FewerDocs, GotoElsewhere
<1>13. CASE Reject(c)
  <2>1. docs' = docs /\ UNCHANGED <<req, idx>>
    BY <1>13 DEF Reject, store, locals
  <2> QED
    BY <1>13, <2>1, FewerDocs, GotoElsewhere DEF Reject
<1>14. CASE Reply(c)
  <2>1. docs' = docs /\ NotToInsert(c)
    BY <1>14 DEF Reply, Forget, store, NotToInsert, TypeOK, VariablesTyped
  <2> QED
    BY <2>1, FewerDocs
<1> QED
  BY <1>1, <1>2, <1>3, <1>4, <1>5, <1>6, <1>7, <1>8, <1>9, <1>10, <1>11, <1>12,
     <1>13, <1>14 DEF Handle

\* The SELECT of IsIdUnique opens a window: the _id is free now.
LEMMA IsIdUniqueWindow ==
  ASSUME IdsInv, NEW c \in Conns, IsIdUnique(c)
  PROVE  UniqueIds' /\ InsertWindow'
<1>1. docs' = docs /\ UNCHANGED <<req, idx>>
  BY DEF IsIdUnique, Read, store, locals
<1>2. \/ WithId(Ns(c), Entry(c).id) = {} /\ pc' = [pc EXCEPT ![c] = "insert"]
      \/ pc' = [pc EXCEPT ![c] = "reply"]
  BY DEF IsIdUnique, Read, Goto, Answer
<1>3. UniqueIds'
  BY <1>1, FewerDocs DEF IdsInv
<1>4. ASSUME NEW d \in Conns, pc'[d] = "insert"
      PROVE  WithId(Ns(d), Entry(d).id) = {}
  BY <1>2, <1>4 DEF IdsInv, InsertWindow, TypeOK, VariablesTyped
<1>5. InsertWindow'
  BY <1>1, <1>4 DEF InsertWindow, WithId, Ns, Entry
<1> QED
  BY <1>3, <1>5

\* The INSERT closes it: the _id was still free, and it is nobody else's.
LEMMA InsertDocumentWindow ==
  ASSUME PartitionedIds, IdsInv, NEW c \in Conns, InsertDocument(c)
  PROVE  UniqueIds' /\ InsertWindow'
<1>1. /\ pc[c] = "insert" /\ Busy(c) /\ req' = req
      /\ NextEntry(c) \/ (Answer(c, "InternalError") /\ idx' = idx)
      /\ InsertStmt(Ns(c), Entry(c).id, Entry(c).val) \/ docs' = docs
  BY DEF InsertDocument, Execute, Busy, store
<1>2. /\ TypeOK /\ UniqueIds /\ WithId(Ns(c), Entry(c).id) = {}
  BY <1>1 DEF IdsInv, InsertWindow
<1>3. /\ req[c] \in Request /\ req[c].op = "insert" /\ req[c] \in Requests[c]
      /\ idx[c] \in Nat \ {0} /\ idx[c] <= Len(req[c].batch)
  BY <1>1, <1>2, AtStatement, BusyShape DEF OpsAt, LoopLabels
<1>4. Ns(c) \in Namespaces /\ Entry(c).id \in Ids /\ Entry(c).val \in Vals
  BY <1>3, RequestShape, EntryShape
     DEF Ns, Entry, InsertEntry, DataOps, BatchOps
<1>5. NotToInsert(c)
  BY <1>1, <1>2, <1>3, GotoElsewhere, NextEntryElsewhere DEF BatchOps
<1>6. CASE docs' = docs
  BY <1>2, <1>5, <1>6, FewerDocs, WindowStep DEF IdsInv
<1>7. CASE InsertStmt(Ns(c), Entry(c).id, Entry(c).val)
  <2>1. UniqueIds'
    BY <1>2, <1>4, <1>7, InsertUnique DEF TypeOK
  <2>2. PICK new \in Document : /\ new.ns = Ns(c) /\ new.id = Entry(c).id
                                /\ docs' = docs \cup {new}
    BY <1>2, <1>4, <1>7, InsertType DEF TypeOK
  <2>3. ASSUME NEW d \in Conns, pc'[d] = "insert"
        PROVE  WithId(Ns(d), Entry(d).id)' = {}
    <3>1. d # c /\ pc[d] = "insert" /\ Ns(d)' = Ns(d) /\ Entry(d)' = Entry(d)
      BY <1>5, <2>3 DEF NotToInsert, Ns, Entry
    <3>2. WithId(Ns(d), Entry(d).id) = {}
      BY <3>1 DEF IdsInv, InsertWindow
    <3>3. /\ req[d] \in Request /\ req[d].op = "insert" /\ req[d] \in Requests[d]
          /\ idx[d] \in Nat \ {0} /\ idx[d] <= Len(req[d].batch)
      BY <1>2, <3>1, AtStatement, BusyShape DEF OpsAt, LoopLabels, Busy
    <3>4. idx[c] \in DOMAIN req[c].batch /\ idx[d] \in DOMAIN req[d].batch
      BY <1>3, <3>3, RequestShape
    <3>5. Entry(c).id \in InsertedIds(req[c]) /\ Entry(d).id \in InsertedIds(req[d])
      BY <3>4 DEF InsertedIds, Entry
    <3>6. ~(new.ns = Ns(d) /\ new.id = Entry(d).id)
      BY <1>3, <2>2, <3>1, <3>3, <3>5 DEF PartitionedIds, Ns
    <3> QED
      BY <2>2, <3>1, <3>2, <3>6 DEF WithId
  <2> QED
    BY <2>1, <2>3 DEF InsertWindow
<1> QED
  BY <1>1, <1>6, <1>7

\* The invariant is inductive when no two connections insert the same _id.
LEMMA NextIds ==
  ASSUME PartitionedIds, IdsInv, [Next]_vars
  PROVE  IdsInv'
<1>1. TypeOK /\ TypeOK'
  BY NextType DEF IdsInv
<1>2. ASSUME NEW c \in Conns, Handle(c) PROVE UniqueIds' /\ InsertWindow'
  BY <1>1, <1>2, IsIdUniqueWindow, InsertDocumentWindow, QuietStep, WindowStep
     DEF IdsInv
<1>3. ASSUME NEW c \in Conns, Receive(c) PROVE UniqueIds' /\ InsertWindow'
  <2>1. PICK r \in Requests[c] : /\ req' = [req EXCEPT ![c] = r]
                                 /\ pc' = [pc EXCEPT ![c] = FirstPc(r)]
    BY <1>3 DEF Receive
  <2>2. FirstPc(r) # "insert"
    BY <2>1, FirstPcAt, RequestsAssumption
  <2>3. docs' = docs /\ NotToInsert(c)
    BY <1>1, <1>3, <2>1, <2>2
       DEF Receive, store, NotToInsert, TypeOK, VariablesTyped
  <2> QED
    BY <2>3, FewerDocs, WindowStep DEF IdsInv
<1>4. ASSUME NEW c \in Conns, Reconnect(c) PROVE UniqueIds' /\ InsertWindow'
  <2>1. docs' = docs /\ NotToInsert(c)
    BY <1>1, <1>4
       DEF Reconnect, store, locals, NotToInsert, TypeOK, VariablesTyped
  <2> QED
    BY <2>1, FewerDocs, WindowStep DEF IdsInv
<1>5. CASE Crash
  <2>1. docs' = docs /\ \A c \in Conns : pc'[c] # "insert"
    BY <1>5 DEF Crash, store
  <2> QED
    BY <1>1, <2>1, FewerDocs DEF IdsInv, InsertWindow
<1>6. CASE UNCHANGED vars
  BY <1>1, <1>6 DEF IdsInv, UniqueIds, InsertWindow, WithId, Ns, Entry, vars,
     store, locals
<1> QED
  BY <1>1, <1>2, <1>3, <1>4, <1>5, <1>6 DEF Next, IdsInv

\* When no two connections insert the same _id into a collection, no two of its
\* documents ever have the same _id, although the check and the INSERT are two
\* statements and HANA enforces nothing.
THEOREM UniqueIdsHold == PartitionedIds /\ Spec => []UniqueIds
<1> SUFFICES ASSUME PartitionedIds PROVE Spec => []UniqueIds
  OBVIOUS
<1>1. Init => IdsInv
  BY InitType, StoreInitType DEF Init, IdsInv, InsertWindow
<1>2. IdsInv /\ [Next]_vars => IdsInv'
  BY NextIds
<1>3. IdsInv => UniqueIds
  BY DEF IdsInv
<1> QED
  BY <1>1, <1>2, <1>3, PTL DEF Spec

\* Under the same condition, an _id that a handler has found free is still free
\* when it executes the INSERT, whatever other connections have done meanwhile.
THEOREM InsertWindowHolds == PartitionedIds /\ Spec => []InsertWindow
<1> SUFFICES ASSUME PartitionedIds PROVE Spec => []InsertWindow
  OBVIOUS
<1>1. Init => IdsInv
  BY InitType, StoreInitType DEF Init, IdsInv, InsertWindow
<1>2. IdsInv /\ [Next]_vars => IdsInv'
  BY NextIds
<1>3. IdsInv => InsertWindow
  BY DEF IdsInv
<1> QED
  BY <1>1, <1>2, <1>3, PTL DEF Spec

-----------------------------------------------------------------------------
(* The catalogue and the documents. *)

\* Every collection is in a schema that exists, and every document in a
\* collection that exists.
StoreSound ==
  /\ \A ns \in collections : ns[1] \in schemas
  /\ \A d \in docs : d.ns \in collections

\* A statement that adds no document and no collection, and drops none.
LEMMA StillSound ==
  ASSUME StoreSound, docs' \subseteq docs, collections' = collections,
         schemas \subseteq schemas'
  PROVE  StoreSound'
BY DEF StoreSound

\* CREATE COLLECTION is refused when there is no schema, INSERT when there is no
\* collection, and DROP takes along what is in what it drops.
LEMMA HandleSound ==
  ASSUME TypeOK, StoreSound, NEW c \in Conns, Handle(c)
  PROVE  StoreSound'
<1> USE DEF Read, Execute, store
<1>1. CASE MsgStorage(c) \/ IsIdUnique(c) \/ CountMatched(c) \/ Reject(c)
  BY <1>1, StillSound DEF MsgStorage, IsIdUnique, CountMatched, Reject
<1>2. CASE Query(c) \/ Reply(c) \/ ListSchemas(c) \/ ListTables(c) \/ TableSize(c)
  BY <1>2, StillSound DEF Query, Reply, ListSchemas, ListTables, TableSize
<1>3. CASE PickForUpdate(c) \/ PickForDelete(c)
  BY <1>3, StillSound DEF PickForUpdate, PickForDelete
<1>4. CASE CreateSchema(c)
  BY <1>4, StillSound DEF CreateSchema, CreateSchemaStmt
<1>5. CASE CreateCollection(c)
  BY <1>5 DEF CreateCollection, CreateCollectionStmt, CanCreateCollection, StoreSound
<1>6. CASE DropTable(c) \/ DropSchema(c)
  BY <1>6 DEF DropTable, DropSchema, DropCollectionStmt, DropSchemaStmt, StoreSound
<1>7. CASE InsertDocument(c)
  BY <1>7 DEF InsertDocument, InsertStmt, Exists, StoreSound
<1>8. CASE UpdateDocuments(c)
  <2>1. pc[c] = "update" /\ Busy(c)
    BY <1>8 DEF UpdateDocuments, Busy
  <2>2. /\ req[c] \in Request /\ req[c].op = "update"
        /\ idx[c] \in Nat \ {0} /\ idx[c] <= Len(req[c].batch)
    BY <2>1, AtStatement DEF LoopLabels, OpsAt
  <2>3. Entry(c).set \in Vals
    <3>1. Entry(c) \in UpdateEntry
      BY <2>2, EntryShape DEF Entry, BatchOps
    <3> QED
      BY <3>1 DEF UpdateEntry
  <2>4. CASE UpdateStmt(Updated(c), Entry(c).set)
    <3>1. \A d \in docs' : \E e \in docs : d.ns = e.ns /\ d.id = e.id
      BY <2>3, <2>4, UpdatedType, UpdateType DEF TypeOK
    <3> QED
      BY <2>4, <3>1 DEF UpdateStmt, StoreSound
  <2> QED
    BY <1>8, <2>4, StillSound DEF UpdateDocuments
<1>9. CASE DeleteDocuments(c)
  BY <1>9, StillSound DEF DeleteDocuments, DeleteStmt
<1> QED
  BY <1>1, <1>2, <1>3, <1>4, <1>5, <1>6, <1>7, <1>8, <1>9 DEF Handle

\* So is the store after every step.
LEMMA NextSound ==
  ASSUME TypeOK, StoreSound, [Next]_vars
  PROVE  StoreSound'
<1>1. CASE Crash \/ (\E c \in Conns : Receive(c) \/ Reconnect(c)) \/ UNCHANGED vars
  BY <1>1, StillSound DEF Crash, Receive, Reconnect, store, vars
<1> QED
  BY <1>1, HandleSound DEF Next

\* A process begins with the collections that HANA holds, and their schemas.
LEMMA InitSound == StoreInit => StoreSound
BY DEF StoreInit, StoreSound
=============================================================================
