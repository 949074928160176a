----------------------------- MODULE CountProofs -----------------------------
(***************************************************************************)
(* Proofs about the counts of a reply: what a handler reports is what its  *)
(* statements have done, while statements of other connections come        *)
(* between them, for every set of requests and every combination of faults.*)
(***************************************************************************)
EXTENDS CommandProofs

-----------------------------------------------------------------------------
(* The inductive invariants. *)

AllMulti(r) == \A i \in DOMAIN r.batch : r.batch[i].multi
AllOne(r) == \A i \in DOMAIN r.batch : r.batch[i].one

\* By how much an insert may have done more than it has counted.
Slack(c) == IF "lost" \in Faults /\ code[c] = "InternalError" THEN 1 ELSE 0

\* The counters of connection c's handler against what it has done.  An insert
\* counts every entry it has passed, so `n' also says where it is.
InsertCounts(c) ==
  Busy(c) /\ req[c].op = "insert" =>
    /\ n[c] = idx[c] - 1
    /\ n[c] <= done[c] /\ done[c] <= n[c] + Slack(c)
    /\ NoErrorYet(c) => n[c] = done[c]

DeleteCounts(c) ==
  Busy(c) /\ req[c].op = "delete" /\ NoErrorYet(c) => n[c] = done[c]

UpdateCounts(c) ==
  Busy(c) /\ req[c].op = "update" /\ NoErrorYet(c) /\ AllMulti(req[c])
    => mod[c] = done[c]

CountsOK(c) == InsertCounts(c) /\ DeleteCounts(c) /\ UpdateCounts(c)

CountInv == TypeOK /\ RowsUnique /\ \A c \in Conns : CountsOK(c)

\* What deleteOne and updateOne have picked is one _id at most; so by UniqueIds
\* their statement touches one document at most.
OneTarget(c) == \A i, j \in target[c] : i = j

DeleteBound(c) ==
  Busy(c) /\ req[c].op = "delete" /\ AllOne(req[c])
    => done[c] <= idx[c] - (IF NoErrorYet(c) THEN 1 ELSE 0)

UpdateCovers(c) ==
  Busy(c) /\ req[c].op = "update" /\ NoErrorYet(c) => mod[c] >= done[c]

OnesOK(c) == OneTarget(c) /\ DeleteBound(c) /\ UpdateCovers(c)

OnesInv == IdsInv /\ \A c \in Conns : OnesOK(c)

-----------------------------------------------------------------------------
(* What a step leaves alone. *)

\* A step of connection c leaves the other handlers alone.
Alone(c) ==
  \A d \in Conns \ {c} :
    /\ pc'[d] = pc[d] /\ code'[d] = code[d] /\ req'[d] = req[d]
    /\ idx'[d] = idx[d] /\ matched'[d] = matched[d] /\ target'[d] = target[d]
    /\ n'[d] = n[d] /\ mod'[d] = mod[d] /\ done'[d] = done[d]
    /\ list'[d] = list[d]

\* Updating the entry of c in a function leaves the others.
LEMMA StepAlone ==
  ASSUME TypeOK, NEW c \in Conns, Receive(c) \/ Handle(c) \/ Reconnect(c)
  PROVE  Alone(c)
<1> USE DEF TypeOK, VariablesTyped, Alone, Read, Execute, Goto, Answer, NextEntry,
            locals, counters
<1>1. CASE Receive(c)
  BY <1>1 DEF Receive
<1>2. CASE Reconnect(c)
  BY <1>2 DEF Reconnect
<1>3. CASE Reply(c)
  BY <1>3 DEF Reply, Forget
<1>4. CASE MsgStorage(c)
  BY <1>4 DEF MsgStorage
<1>5. CASE CreateSchema(c)
  BY <1>5 DEF CreateSchema
<1>6. CASE CreateCollection(c)
  BY <1>6 DEF CreateCollection
<1>7. CASE DropTable(c)
  BY <1>7 DEF DropTable
<1>8. CASE DropSchema(c)
  BY <1>8 DEF DropSchema
<1>9. CASE IsIdUnique(c)
  BY <1>9 DEF IsIdUnique
<1>10. CASE InsertDocument(c)
  BY <1>10 DEF InsertDocument
<1>11. CASE CountMatched(c)
  BY <1>11 DEF CountMatched
<1>12. CASE PickForUpdate(c)
  BY <1>12 DEF PickForUpdate
<1>13. CASE UpdateDocuments(c)
  BY <1>13 DEF UpdateDocuments
<1>14. CASE PickForDelete(c)
  BY <1>14 DEF PickForDelete
<1>15. CASE DeleteDocuments(c)
  BY <1>15 DEF DeleteDocuments
<1>16. CASE Reject(c)
  BY <1>16 DEF Reject
<1>17. CASE Query(c)
  BY <1>17 DEF Query
<1>18. CASE ListSchemas(c)
  BY <1>18 DEF ListSchemas, NextDatabase
<1>19. CASE ListTables(c)
  BY <1>19 DEF ListTables, NextDatabase
<1>20. CASE TableSize(c)
  BY <1>20 DEF TableSize, NextDatabase
<1> QED
  BY <1>1, <1>2, <1>3, <1>4, <1>5, <1>6, <1>7, <1>8, <1>9, <1>10, <1>11, <1>12,
     <1>13, <1>14, <1>15, <1>16, <1>17, <1>18, <1>19, <1>20 DEF Handle

\* The steps that change a store's documents or a handler's counters.
Counting(c) ==
  \/ InsertDocument(c) \/ UpdateDocuments(c) \/ DeleteDocuments(c)
  \/ PickForUpdate(c) \/ PickForDelete(c) \/ Reply(c)

\* Every other step of a handler adds no document and leaves its counters, but
\* that a find or count notes its result.
LEMMA QuietHandle ==
  ASSUME TypeOK, NEW c \in Conns, Handle(c), ~Counting(c)
  PROVE  /\ docs' \subseteq docs /\ Busy(c) /\ pc[c] # "reply"
         /\ UNCHANGED <<req, idx, target, mod, done>>
         /\ n' = n \/ req[c].op \in {"find", "count"}
<1> USE DEF Busy, Read, Execute, store, locals, counters
<1>1. CASE MsgStorage(c)
  BY <1>1 DEF MsgStorage
<1>2. CASE CreateSchema(c)
  BY <1>2 DEF CreateSchema, CreateSchemaStmt
<1>3. CASE CreateCollection(c)
  BY <1>3 DEF CreateCollection, CreateCollectionStmt
<1>4. CASE DropTable(c)
  BY <1>4 DEF DropTable, DropCollectionStmt
<1>5. CASE DropSchema(c)
  BY <1>5 DEF DropSchema, DropSchemaStmt
<1>6. CASE IsIdUnique(c)
  BY <1>6 DEF IsIdUnique
<1>7. CASE CountMatched(c)
  BY <1>7 DEF CountMatched
<1>8. CASE Reject(c)
  BY <1>8 DEF Reject
<1>9. CASE Query(c)
  <2>1. /\ docs' \subseteq docs /\ pc[c] = "query"
        /\ UNCHANGED <<req, idx, target, mod, done>>
    BY <1>9 DEF Query
  <2>2. req[c].op \in {"find", "count"}
    BY <2>1, AtStatement DEF OpsAt
  <2> QED
    BY <2>1, <2>2
<1>10. CASE ListSchemas(c)
  BY <1>10 DEF ListSchemas
<1>11. CASE ListTables(c)
  BY <1>11 DEF ListTables
<1>12. CASE TableSize(c)
  BY <1>12 DEF TableSize
<1> QED
  BY <1>1, <1>2, <1>3, <1>4, <1>5, <1>6, <1>7, <1>8, <1>9, <1>10, <1>11, <1>12
     DEF Handle, Counting

-----------------------------------------------------------------------------
(* The counts are exact: one lemma for each step that counts. *)

\* A step that leaves the counters of a busy handler alone keeps them right:
\* it has met no error before, so they were exact.
LEMMA QuietCounts ==
  ASSUME TypeOK, NEW c \in Conns, CountsOK(c), Busy(c), pc[c] # "reply",
         UNCHANGED <<req, idx, mod, done>>,
         n' = n \/ req[c].op \in {"find", "count"}
  PROVE  CountsOK(c)'
<1>1. n[c] \in Nat /\ done[c] \in Nat /\ NoErrorYet(c)
  BY DEF TypeOK, VariablesTyped, NoErrorYet
<1> QED
  BY <1>1 DEF CountsOK, InsertCounts, DeleteCounts, UpdateCounts, Slack

\* The counters of the other handlers, too.
LEMMA AloneCounts ==
  ASSUME NEW c \in Conns, \A d \in Conns : CountsOK(d), Alone(c), CountsOK(c)'
  PROVE  \A d \in Conns : CountsOK(d)'
BY DEF Alone, CountsOK, InsertCounts, DeleteCounts, UpdateCounts, Slack, Busy,
   NoErrorYet

\* The statement and the counters of a handler that is in its loop.
LEMMA InLoop ==
  ASSUME TypeOK, NEW c \in Conns, pc[c] \in LoopLabels
  PROVE  /\ Busy(c) /\ NoErrorYet(c) /\ req[c] \in Request
         /\ req[c].op \in OpsAt(pc[c]) /\ OpsAt(pc[c]) \subseteq BatchOps
         /\ idx[c] \in DOMAIN req[c].batch
         /\ idx[c] \in Nat \ {0} /\ n[c] \in Nat /\ mod[c] \in Nat /\ done[c] \in Nat
         /\ matched[c] \in Nat
<1>1. Busy(c) /\ pc[c] # "reply"
  BY DEF Busy, LoopLabels
<1>2. /\ req[c] \in Request /\ idx[c] \in Nat \ {0} /\ req[c].op \in OpsAt(pc[c])
      /\ idx[c] <= Len(req[c].batch)
  BY <1>1, AtStatement
<1>3. OpsAt(pc[c]) \subseteq BatchOps
  BY DEF OpsAt, BatchOps, LoopLabels
<1>4. DOMAIN req[c].batch = 1..Len(req[c].batch) /\ Len(req[c].batch) \in Nat
  BY <1>2, <1>3, RequestShape DEF BatchOps
<1> QED
  BY <1>1, <1>2, <1>3, <1>4 DEF TypeOK, VariablesTyped, NoErrorYet

\* A document is inserted, or not, and counted, or not.
LEMMA InsertCounting ==
  ASSUME CountInv, NEW c \in Conns, InsertDocument(c)
  PROVE  RowsUnique' /\ CountsOK(c)'
<1>1. pc[c] = "insert" /\ req' = req
  BY DEF InsertDocument
<1>2. /\ TypeOK /\ RowsUnique /\ CountsOK(c) /\ Busy(c) /\ NoErrorYet(c)
      /\ req[c].op = "insert" /\ req'[c].op = "insert"
      /\ idx[c] \in Nat \ {0} /\ n[c] \in Nat /\ done[c] \in Nat
  BY <1>1, InLoop DEF CountInv, LoopLabels, OpsAt
<1>3. n[c] = idx[c] - 1 /\ done[c] = n[c]
  BY <1>2 DEF CountsOK, InsertCounts
<1>4. done'[c] = done[c] + Cardinality(docs' \ docs)
  BY <1>2 DEF InsertDocument, TypeOK, VariablesTyped
<1>5. \/ InsertStmt(Ns(c), Entry(c).id, Entry(c).val) /\ NextEntry(c)
           /\ n' = [n EXCEPT ![c] = @ + 1]
      \/ InsertStmt(Ns(c), Entry(c).id, Entry(c).val) /\ "lost" \in Faults
           /\ Answer(c, "InternalError") /\ UNCHANGED <<idx, n>>
      \/ UNCHANGED store /\ Answer(c, "InternalError") /\ UNCHANGED <<idx, n>>
  BY DEF InsertDocument, Execute
<1>6. CASE /\ InsertStmt(Ns(c), Entry(c).id, Entry(c).val) /\ NextEntry(c)
           /\ n' = [n EXCEPT ![c] = @ + 1]
  <2>1. Cardinality(docs' \ docs) = 1 /\ RowsUnique'
    BY <1>2, <1>6, InsertCount DEF TypeOK
  <2>2. n'[c] = n[c] + 1 /\ idx'[c] = idx[c] + 1
    BY <1>2, <1>6 DEF NextEntry, TypeOK, VariablesTyped
  <2>3. n'[c] = idx'[c] - 1 /\ done'[c] = n'[c] /\ n'[c] \in Nat
    BY <1>2, <1>3, <1>4, <2>1, <2>2
  <2> QED
    BY <1>2, <2>1, <2>3
       DEF CountsOK, InsertCounts, DeleteCounts, UpdateCounts, Slack
<1>7. CASE /\ InsertStmt(Ns(c), Entry(c).id, Entry(c).val) /\ "lost" \in Faults
           /\ Answer(c, "InternalError") /\ UNCHANGED <<idx, n>>
  <2>1. Cardinality(docs' \ docs) = 1 /\ RowsUnique'
    BY <1>2, <1>7, InsertCount DEF TypeOK
  <2>2. pc'[c] = "reply" /\ code'[c] = "InternalError"
    BY <1>2, <1>7 DEF Answer, TypeOK, VariablesTyped
  <2>3. done'[c] = n[c] + 1 /\ n'[c] = n[c] /\ idx'[c] = idx[c]
    BY <1>3, <1>4, <1>7, <2>1
  <2> QED
    BY <1>2, <1>3, <1>7, <2>1, <2>2, <2>3
       DEF CountsOK, InsertCounts, DeleteCounts, UpdateCounts, Slack, NoErrorYet
<1>8. CASE UNCHANGED store /\ Answer(c, "InternalError") /\ UNCHANGED <<idx, n>>
  <2>1. docs' = docs /\ docs' \ docs = {}
    BY <1>8 DEF store
  <2>2. Cardinality(docs' \ docs) = 0 /\ RowsUnique'
    BY <1>2, <2>1, FS_EmptySet, FewerRows
  <2>3. done'[c] = n[c] /\ n'[c] = n[c] /\ idx'[c] = idx[c]
    BY <1>2, <1>3, <1>4, <1>8, <2>2
  <2> QED
    BY <1>2, <1>3, <2>2, <2>3
       DEF CountsOK, InsertCounts, DeleteCounts, UpdateCounts, Slack
<1> QED
  BY <1>5, <1>6, <1>7, <1>8

\* The UPDATE of an updateMany adds to nModified the documents it changes.
LEMMA UpdateCounting ==
  ASSUME CountInv, NEW c \in Conns, UpdateDocuments(c)
  PROVE  RowsUnique' /\ CountsOK(c)'
<1>1. pc[c] = "update" /\ req' = req
  BY DEF UpdateDocuments
<1>2. /\ TypeOK /\ RowsUnique /\ CountsOK(c) /\ Busy(c) /\ NoErrorYet(c)
      /\ req[c] \in Request /\ req[c].op = "update" /\ req'[c].op = "update"
      /\ idx[c] \in DOMAIN req[c].batch
      /\ mod[c] \in Nat /\ done[c] \in Nat
  BY <1>1, InLoop DEF CountInv, LoopLabels, OpsAt
<1>3. Entry(c) \in UpdateEntry
  BY <1>2, RequestShape DEF Entry
<1>4. Updated(c) \in SUBSET docs /\ Entry(c).set \in Vals
  BY <1>2, <1>3, UpdatedType DEF UpdateEntry
<1>5. done'[c] = done[c] + Cardinality(docs' \ docs)
  BY <1>2 DEF UpdateDocuments, TypeOK, VariablesTyped
<1>6. \/ UpdateStmt(Updated(c), Entry(c).set) /\ NextEntry(c)
           /\ mod' = [mod EXCEPT ![c] = @ + ModifiedBy(c)]
      \/ UpdateStmt(Updated(c), Entry(c).set) /\ Answer(c, "InternalError")
      \/ UNCHANGED store /\ Answer(c, "InternalError")
  BY DEF UpdateDocuments, Execute
<1>7. RowsUnique'
  BY <1>2, <1>4, <1>6, UpdateCount, FewerRows DEF TypeOK, store
<1>8. CASE Answer(c, "InternalError")
  <2>1. pc'[c] = "reply" /\ code'[c] = "InternalError"
    BY <1>2, <1>8 DEF Answer, TypeOK, VariablesTyped
  <2> QED
    BY <1>2, <1>7, <2>1
       DEF CountsOK, InsertCounts, DeleteCounts, UpdateCounts, NoErrorYet
<1>9. CASE /\ UpdateStmt(Updated(c), Entry(c).set) /\ NextEntry(c)
           /\ mod' = [mod EXCEPT ![c] = @ + ModifiedBy(c)]
  <2> SUFFICES ASSUME AllMulti(req[c]) PROVE mod'[c] = done'[c]
    BY <1>1, <1>2, <1>7
       DEF CountsOK, InsertCounts, DeleteCounts, UpdateCounts
  <2>1. Entry(c).multi /\ mod[c] = done[c]
    BY <1>2 DEF AllMulti, Entry, CountsOK, UpdateCounts
  <2>2. \A d \in Updated(c) : d.val # Entry(c).set
    BY <2>1 DEF Updated, NeedsUpdate
  <2>3. Cardinality(docs' \ docs) = Cardinality(Updated(c))
    BY <1>2, <1>4, <1>9, <2>2, UpdateCount DEF TypeOK
  <2>4. mod'[c] = mod[c] + Cardinality(Updated(c))
    BY <1>2, <1>9, <2>1 DEF ModifiedBy, TypeOK, VariablesTyped
  <2> QED
    BY <1>5, <2>1, <2>3, <2>4
<1> QED
  BY <1>6, <1>8, <1>9

\* The DELETE adds to n the documents it removes.
LEMMA DeleteCounting ==
  ASSUME CountInv, NEW c \in Conns, DeleteDocuments(c)
  PROVE  RowsUnique' /\ CountsOK(c)'
<1>1. pc[c] = "delete" /\ req' = req
  BY DEF DeleteDocuments
<1>2. /\ TypeOK /\ RowsUnique /\ CountsOK(c) /\ Busy(c) /\ NoErrorYet(c)
      /\ req[c].op = "delete" /\ req'[c].op = "delete"
      /\ n[c] \in Nat /\ done[c] \in Nat
  BY <1>1, InLoop DEF CountInv, LoopLabels, OpsAt
<1>3. n[c] = done[c]
  BY <1>2 DEF CountsOK, DeleteCounts
<1>4. done'[c] = done[c] + Cardinality(docs \ docs')
  BY <1>2 DEF DeleteDocuments, TypeOK, VariablesTyped
<1>5. docs' \subseteq docs /\ RowsUnique'
  BY <1>2, FewerRows DEF DeleteDocuments, Execute, DeleteStmt, store
<1>6. \/ Answer(c, "NamespaceNotFound")
      \/ /\ DeleteStmt(Deleted(c))
         /\ n' = [n EXCEPT ![c] = @ + Cardinality(Deleted(c))]
  BY DEF DeleteDocuments, Execute
<1>7. CASE Answer(c, "NamespaceNotFound")
  <2>1. pc'[c] = "reply" /\ code'[c] = "NamespaceNotFound"
    BY <1>2, <1>7 DEF Answer, TypeOK, VariablesTyped
  <2> QED
    BY <1>2, <1>5, <2>1
       DEF CountsOK, InsertCounts, DeleteCounts, UpdateCounts, NoErrorYet
<1>8. CASE /\ DeleteStmt(Deleted(c))
           /\ n' = [n EXCEPT ![c] = @ + Cardinality(Deleted(c))]
  <2>1. docs \ docs' = Deleted(c)
    BY <1>8, DeletedType DEF DeleteStmt
  <2>2. n'[c] = n[c] + Cardinality(Deleted(c))
    BY <1>2, <1>8 DEF TypeOK, VariablesTyped
  <2>3. n'[c] = done'[c]
    BY <1>3, <1>4, <2>1, <2>2
  <2> QED
    BY <1>2, <1>5, <2>3 DEF CountsOK, InsertCounts, DeleteCounts, UpdateCounts
<1> QED
  BY <1>6, <1>7, <1>8

\* The SELECTs that pick an _id leave nModified and a delete's n.
LEMMA PickCounting ==
  ASSUME CountInv, NEW c \in Conns, PickForUpdate(c) \/ PickForDelete(c)
  PROVE  RowsUnique' /\ CountsOK(c)'
<1>1. /\ pc[c] = "pick" /\ req' = req /\ docs' = docs /\ UNCHANGED <<mod, done>>
      /\ req[c].op = "update" \/ (req[c].op = "delete" /\ n' = n)
  BY DEF PickForUpdate, PickForDelete, Read, store, counters
<1>2. TypeOK /\ CountsOK(c) /\ Busy(c) /\ NoErrorYet(c) /\ RowsUnique
  BY <1>1, InLoop DEF CountInv, LoopLabels
<1>3. RowsUnique'
  BY <1>1, <1>2, FewerRows
<1> QED
  BY <1>1, <1>2, <1>3 DEF CountsOK, InsertCounts, DeleteCounts, UpdateCounts

\* A handler that has no request has counted nothing.
LEMMA FreshCounts ==
  ASSUME NEW c \in Conns, TypeOK', ~Busy(c)'
  PROVE  CountsOK(c)'
BY DEF CountsOK, InsertCounts, DeleteCounts, UpdateCounts

\* When a request arrives the counters are at zero.
LEMMA ReceiveCounts ==
  ASSUME CountInv, NEW c \in Conns, Receive(c)
  PROVE  RowsUnique' /\ CountsOK(c)'
<1>1. Fresh(c) /\ UNCHANGED <<idx, n, mod, done>> /\ docs' = docs
  BY DEF CountInv, TypeOK, ControlOK, Busy, Receive, counters, store
<1>2. RowsUnique'
  BY <1>1, FewerRows DEF CountInv
<1> QED
  BY <1>1, <1>2 DEF CountsOK, InsertCounts, DeleteCounts, UpdateCounts, Slack, Fresh

\* The invariant is inductive.
LEMMA NextCounts ==
  ASSUME CountInv, [Next]_vars
  PROVE  CountInv'
<1>1. TypeOK /\ TypeOK' /\ RowsUnique /\ \A c \in Conns : CountsOK(c)
  BY NextType DEF CountInv
<1>2. ASSUME NEW c \in Conns, Handle(c) PROVE RowsUnique' /\ CountsOK(c)'
  <2>1. CASE Counting(c) /\ ~Reply(c)
    BY <2>1, InsertCounting, UpdateCounting, DeleteCounting, PickCounting DEF Counting
  <2>2. CASE Reply(c)
    <3>1. docs' = docs /\ ~Busy(c)'
      BY <1>1, <2>2 DEF Reply, store, Busy, TypeOK, VariablesTyped
    <3> QED
      BY <1>1, <3>1, FewerRows, FreshCounts
  <2>3. CASE ~Counting(c)
    BY <1>1, <1>2, <2>3, QuietHandle, QuietCounts, FewerRows
  <2> QED
    BY <2>1, <2>2, <2>3
<1>3. ASSUME NEW c \in Conns, Reconnect(c) PROVE RowsUnique' /\ CountsOK(c)'
  <2>1. docs' = docs /\ ~Busy(c)'
    BY <1>1, <1>3 DEF Reconnect, store, Busy, TypeOK, VariablesTyped
  <2> QED
    BY <1>1, <2>1, FewerRows, FreshCounts
<1>4. ASSUME NEW c \in Conns, Receive(c) \/ Handle(c) \/ Reconnect(c)
      PROVE  RowsUnique' /\ \A d \in Conns : CountsOK(d)'
  BY <1>1, <1>2, <1>3, <1>4, ReceiveCounts, StepAlone, AloneCounts
<1>5. CASE Crash
  <2>1. docs' = docs /\ \A c \in Conns : ~Busy(c)'
    BY <1>5 DEF Crash, store, Busy
  <2> QED
    BY <1>1, <2>1, FewerRows, FreshCounts DEF CountInv
<1>6. CASE UNCHANGED vars
  BY <1>1, <1>6 DEF CountInv, RowsUnique, CountsOK, InsertCounts, DeleteCounts,
     UpdateCounts, Slack, Busy, NoErrorYet, vars, store, locals, counters
<1> QED
  BY <1>1, <1>4, <1>5, <1>6 DEF Next, CountInv

\* It holds in every reachable state.
LEMMA AlwaysCounts == Spec => []CountInv
<1>1. Init => CountInv
  <2> SUFFICES ASSUME Init PROVE CountInv
    OBVIOUS
  <2>1. TypeOK /\ docs = {}
    BY InitType DEF Init, StoreInit
  <2>2. \A c \in Conns : ~Busy(c)
    BY DEF Init, Busy
  <2> QED
    BY <2>1, <2>2
       DEF CountInv, RowsUnique, CountsOK, InsertCounts, DeleteCounts, UpdateCounts
<1>2. CountInv /\ [Next]_vars => CountInv'
  BY NextCounts
<1> QED
  BY <1>1, <1>2, PTL DEF Spec

\* The n of an insert and of a delete, and the nModified of updateMany, are the
\* numbers of documents the request's own statements have changed, whatever the
\* statements of other connections do between them.
THEOREM CountsStayExact == Spec => []CountsExact
<1>1. CountInv => CountsExact
  BY DEF CountInv, CountsOK, InsertCounts, DeleteCounts, UpdateCounts, AllMulti,
     CountsExact
<1> QED
  BY <1>1, AlwaysCounts, PTL

\* An insert that ends in an error has stored exactly the documents before the
\* failing one, and that one only when its acknowledgement was lost.
THEOREM InsertsArePrefixes == Spec => []InsertPrefix
<1>1. CountInv => InsertPrefix
  BY DEF CountInv, CountsOK, InsertCounts, Slack, InsertPrefix
<1> QED
  BY <1>1, AlwaysCounts, PTL
-----------------------------------------------------------------------------
(* deleteOne and updateOne.  Their statement is by the _id they have picked, *)
(* so what it touches is one document only as long as _ids are unique.       *)

\* A step that leaves the counters and the target of a busy handler alone.
LEMMA QuietOnes ==
  ASSUME TypeOK, NEW c \in Conns, OnesOK(c), Busy(c), pc[c] # "reply",
         UNCHANGED <<req, idx, target, mod, done>>
  PROVE  OnesOK(c)'
<1>1. idx[c] \in Nat /\ done[c] \in Nat /\ NoErrorYet(c)
  BY DEF TypeOK, VariablesTyped, NoErrorYet
<1> QED
  BY <1>1 DEF OnesOK, OneTarget, DeleteBound, UpdateCovers

\* The other handlers keep their targets and their bounds.
LEMMA AloneOnes ==
  ASSUME NEW c \in Conns, \A d \in Conns : OnesOK(d), Alone(c), OnesOK(c)'
  PROVE  \A d \in Conns : OnesOK(d)'
BY DEF Alone, OnesOK, OneTarget, DeleteBound, UpdateCovers, Busy, NoErrorYet

\* A handler without a request has no target.
LEMMA FreshOnes ==
  ASSUME NEW c \in Conns, TypeOK', ~Busy(c)'
  PROVE  OnesOK(c)'
<1>1. target'[c] = {}
  BY DEF TypeOK, ControlOK, Fresh
<1> QED
  BY <1>1 DEF OnesOK, OneTarget, DeleteBound, UpdateCovers

\* When a request arrives nothing has been picked and nothing done.
LEMMA ReceiveOnes ==
  ASSUME TypeOK, NEW c \in Conns, Receive(c)
  PROVE  OnesOK(c)'
<1>1. Fresh(c) /\ UNCHANGED <<idx, target, mod, done>>
  BY DEF TypeOK, ControlOK, Busy, Receive, counters
<1> QED
  BY <1>1 DEF OnesOK, OneTarget, DeleteBound, UpdateCovers, Fresh

\* The SELECTs pick one _id, or pass on to the next entry.
LEMMA PickOnes ==
  ASSUME TypeOK, NEW c \in Conns, OnesOK(c), PickForUpdate(c) \/ PickForDelete(c)
  PROVE  OnesOK(c)'
<1>1. /\ pc[c] = "pick" /\ UNCHANGED <<req, mod, done>>
      /\ target' = target \/ \E i : target' = [target EXCEPT ![c] = {i}]
      /\ idx' = idx \/ idx' = [idx EXCEPT ![c] = @ + 1]
  BY DEF PickForUpdate, PickForDelete, Read, NextEntry, counters
<1>2. /\ Busy(c) /\ NoErrorYet(c) /\ idx[c] \in Nat /\ done[c] \in Nat
      /\ mod[c] \in Nat
  BY <1>1, InLoop DEF LoopLabels
<1>3. OneTarget(c)'
  BY <1>1 DEF OnesOK, OneTarget, TypeOK, VariablesTyped
<1>4. idx'[c] \in Nat /\ idx'[c] >= idx[c]
  BY <1>1, <1>2 DEF TypeOK, VariablesTyped
<1> QED
  BY <1>1, <1>2, <1>3, <1>4 DEF OnesOK, DeleteBound, UpdateCovers

\* The UPDATE of an updateOne changes one document at most and counts one; that
\* of an updateMany at most the documents it counts.
LEMMA UpdateOnes ==
  ASSUME IdsInv, NEW c \in Conns, OnesOK(c), UpdateDocuments(c)
  PROVE  OnesOK(c)'
<1>1. pc[c] = "update" /\ req' = req /\ target' = target
  BY DEF UpdateDocuments
<1>2. /\ TypeOK /\ UniqueIds /\ Busy(c) /\ NoErrorYet(c)
      /\ req[c] \in Request /\ req[c].op = "update" /\ req'[c].op = "update"
      /\ idx[c] \in DOMAIN req[c].batch
      /\ mod[c] \in Nat /\ done[c] \in Nat
  BY <1>1, InLoop DEF IdsInv, LoopLabels, OpsAt
<1>3. Entry(c) \in UpdateEntry
  BY <1>2, RequestShape DEF Entry
<1>4. Updated(c) \in SUBSET docs /\ Entry(c).set \in Vals
  BY <1>2, <1>3, UpdatedType DEF UpdateEntry
<1>5. done'[c] = done[c] + Cardinality(docs' \ docs)
  BY <1>2 DEF UpdateDocuments, TypeOK, VariablesTyped
<1>6. \/ Answer(c, "InternalError")
      \/ /\ UpdateStmt(Updated(c), Entry(c).set)
         /\ mod' = [mod EXCEPT ![c] = @ + ModifiedBy(c)]
  BY DEF UpdateDocuments, Execute
<1>7. CASE Answer(c, "InternalError")
  <2>1. pc'[c] = "reply" /\ code'[c] = "InternalError"
    BY <1>2, <1>7 DEF Answer, TypeOK, VariablesTyped
  <2> QED
    BY <1>1, <1>2, <2>1
       DEF OnesOK, OneTarget, DeleteBound, UpdateCovers, NoErrorYet
<1>8. CASE /\ UpdateStmt(Updated(c), Entry(c).set)
           /\ mod' = [mod EXCEPT ![c] = @ + ModifiedBy(c)]
  <2>1. /\ Cardinality(docs' \ docs) \in Nat
        /\ Cardinality(docs' \ docs) <= Cardinality(Updated(c))
    BY <1>2, <1>4, <1>8, UpdateCount DEF TypeOK
  <2>2. Cardinality(Updated(c)) \in Nat /\ Cardinality(Updated(c)) <= ModifiedBy(c)
    <3>1. CASE Entry(c).multi
      BY <1>2, <1>4, <3>1, CountType DEF ModifiedBy, TypeOK
    <3>2. CASE ~Entry(c).multi
      <4>1. Updated(c) \in SUBSET {d \in docs : d.ns = Ns(c) /\ d.id \in target[c]}
        BY <3>2 DEF Updated
      <4>2. \A i, j \in target[c] : i = j
        BY DEF OnesOK, OneTarget
      <4>3. Cardinality(Updated(c)) \in Nat /\ Cardinality(Updated(c)) <= 1
        BY <1>2, <4>1, <4>2, OneDocument DEF TypeOK
      <4> QED
        BY <3>2, <4>3 DEF ModifiedBy
    <3> QED
      BY <3>1, <3>2
  <2>3. ModifiedBy(c) \in Nat
    BY <1>2, <1>4, CountType DEF ModifiedBy, TypeOK
  <2>4. mod'[c] = mod[c] + ModifiedBy(c)
    BY <1>2, <1>8 DEF TypeOK, VariablesTyped
  <2>5. mod[c] >= done[c]
    BY <1>2 DEF OnesOK, UpdateCovers
  <2>6. mod'[c] >= done'[c]
    BY <1>2, <1>5, <2>1, <2>2, <2>3, <2>4, <2>5
  <2> QED
    BY <1>1, <1>2, <2>6 DEF OnesOK, OneTarget, DeleteBound, UpdateCovers
<1> QED
  BY <1>6, <1>7, <1>8

\* The DELETE of a deleteOne removes one document at most.
LEMMA DeleteOnes ==
  ASSUME IdsInv, NEW c \in Conns, OnesOK(c), DeleteDocuments(c)
  PROVE  OnesOK(c)'
<1>1. pc[c] = "delete" /\ req' = req /\ target' = target
  BY DEF DeleteDocuments
<1>2. /\ TypeOK /\ UniqueIds /\ Busy(c) /\ NoErrorYet(c)
      /\ req[c].op = "delete" /\ req'[c].op = "delete"
      /\ idx[c] \in DOMAIN req[c].batch /\ idx[c] \in Nat /\ done[c] \in Nat
  BY <1>1, InLoop DEF IdsInv, LoopLabels, OpsAt
<1> SUFFICES ASSUME AllOne(req[c])
             PROVE  done'[c] <= idx'[c] - (IF NoErrorYet(c)' THEN 1 ELSE 0)
  BY <1>1, <1>2 DEF OnesOK, OneTarget, DeleteBound, UpdateCovers
<1>3. done'[c] = done[c] + Cardinality(docs \ docs')
  BY <1>2 DEF DeleteDocuments, TypeOK, VariablesTyped
<1>4. done[c] <= idx[c] - 1
  BY <1>2 DEF OnesOK, DeleteBound
<1>5. docs \ docs' \in SUBSET {d \in docs : d.ns = Ns(c) /\ d.id \in target[c]}
  <2>1. docs \ docs' \subseteq Deleted(c)
    BY DEF DeleteDocuments, Execute, DeleteStmt, store
  <2>2. Entry(c).one
    BY <1>2 DEF AllOne, Entry
  <2> QED
    BY <2>1, <2>2 DEF Deleted
<1>6. \A i, j \in target[c] : i = j
  BY DEF OnesOK, OneTarget
<1>7. Cardinality(docs \ docs') \in Nat /\ Cardinality(docs \ docs') <= 1
  BY <1>2, <1>5, <1>6, OneDocument DEF TypeOK
<1>8. \/ NextEntry(c)
      \/ Answer(c, "NamespaceNotFound") /\ idx' = idx
  BY DEF DeleteDocuments, Execute
<1>9. CASE NextEntry(c)
  <2>1. idx'[c] = idx[c] + 1
    BY <1>2, <1>9 DEF NextEntry, TypeOK, VariablesTyped
  <2> QED
    BY <1>2, <1>3, <1>4, <1>7, <2>1
<1>10. CASE Answer(c, "NamespaceNotFound") /\ idx' = idx
  <2>1. ~NoErrorYet(c)' /\ idx'[c] = idx[c]
    BY <1>2, <1>10 DEF Answer, NoErrorYet, TypeOK, VariablesTyped
  <2> QED
    BY <1>2, <1>3, <1>4, <1>7, <2>1
<1> QED
  BY <1>8, <1>9, <1>10

\* The invariant is inductive while no two connections insert the same _id.
LEMMA NextOnes ==
  ASSUME PartitionedIds, OnesInv, [Next]_vars
  PROVE  OnesInv'
<1>1. IdsInv' /\ IdsInv /\ TypeOK /\ TypeOK' /\ \A c \in Conns : OnesOK(c)
  BY NextIds DEF OnesInv, IdsInv
<1>2. ASSUME NEW c \in Conns, Handle(c) PROVE OnesOK(c)'
  <2>1. CASE UpdateDocuments(c) \/ DeleteDocuments(c)
    BY <1>1, <2>1, UpdateOnes, DeleteOnes
  <2>2. CASE PickForUpdate(c) \/ PickForDelete(c)
    BY <1>1, <2>2, PickOnes
  <2>3. CASE Reply(c)
    <3>1. ~Busy(c)'
      BY <1>1, <2>3 DEF Reply, Busy, TypeOK, VariablesTyped
    <3> QED
      BY <1>1, <3>1, FreshOnes
  <2>4. CASE InsertDocument(c)
    <3>1. pc[c] = "insert" /\ req' = req /\ target' = target
      BY <2>4 DEF InsertDocument
    <3>2. req[c].op = "insert" /\ req'[c].op = "insert"
      BY <1>1, <3>1, InLoop DEF LoopLabels, OpsAt
    <3> QED
      BY <1>1, <3>1, <3>2 DEF OnesOK, OneTarget, DeleteBound, UpdateCovers
  <2>5. CASE ~Counting(c)
    BY <1>1, <1>2, <2>5, QuietHandle, QuietOnes
  <2> QED
    BY <2>1, <2>2, <2>3, <2>4, <2>5 DEF Counting
<1>3. ASSUME NEW c \in Conns, Reconnect(c) PROVE OnesOK(c)'
  <2>1. ~Busy(c)'
    BY <1>1, <1>3 DEF Reconnect, Busy, TypeOK, VariablesTyped
  <2> QED
    BY <1>1, <2>1, FreshOnes
<1>4. ASSUME NEW c \in Conns, Receive(c) \/ Handle(c) \/ Reconnect(c)
      PROVE  \A d \in Conns : OnesOK(d)'
  BY <1>1, <1>2, <1>3, <1>4, ReceiveOnes, StepAlone, AloneOnes
<1>5. CASE Crash
  <2>1. \A c \in Conns : ~Busy(c)'
    BY <1>5 DEF Crash, Busy
  <2> QED
    BY <1>1, <2>1, FreshOnes DEF OnesInv
<1>6. CASE UNCHANGED vars
  BY <1>1, <1>6 DEF OnesInv, OnesOK, OneTarget, DeleteBound, UpdateCovers, Busy,
     NoErrorYet, vars, locals, counters
<1> QED
  BY <1>1, <1>4, <1>5, <1>6 DEF Next, OnesInv

\* It holds in every state reachable under that condition.
LEMMA AlwaysOnes == PartitionedIds /\ Spec => []OnesInv
<1> SUFFICES ASSUME PartitionedIds PROVE Spec => []OnesInv
  OBVIOUS
<1>1. Init => OnesInv
  <2> SUFFICES ASSUME Init PROVE OnesInv
    OBVIOUS
  <2>1. IdsInv
    BY InitType, StoreInitType DEF Init, IdsInv, InsertWindow
  <2>2. \A c \in Conns : ~Busy(c) /\ target[c] = {}
    BY DEF Init, Busy
  <2> QED
    BY <2>1, <2>2 DEF OnesInv, OnesOK, OneTarget, DeleteBound, UpdateCovers
<1>2. OnesInv /\ [Next]_vars => OnesInv'
  BY NextOnes
<1> QED
  BY <1>1, <1>2, PTL DEF Spec

\* Outside a request there is no op to speak of.
LEMMA NotBusyOp ==
  ASSUME TypeOK, NEW c \in Conns, ~Busy(c)
  PROVE  req[c].op = "none"
BY DEF TypeOK, ControlOK, Fresh, NoRequest

\* As long as no two connections insert the same _id into a collection, a
\* request of deleteOnes removes at most one document for each entry it has
\* handled, also when what it had picked was deleted and inserted again.
THEOREM DeleteOneIsBounded == PartitionedIds /\ Spec => []DeleteOneBound
<1> SUFFICES ASSUME PartitionedIds PROVE Spec => []DeleteOneBound
  OBVIOUS
<1>1. OnesInv => DeleteOneBound
  BY NotBusyOp DEF OnesInv, IdsInv, OnesOK, DeleteBound, AllOne, DeleteOneBound
<1> QED
  BY <1>1, AlwaysOnes, PTL

\* Under the same condition nModified never falls short of the documents an
\* update has changed.
THEOREM ModifiedIsEnough == PartitionedIds /\ Spec => []ModifiedCovers
<1> SUFFICES ASSUME PartitionedIds PROVE Spec => []ModifiedCovers
  OBVIOUS
<1>1. OnesInv => ModifiedCovers
  BY NotBusyOp DEF OnesInv, IdsInv, OnesOK, UpdateCovers, ModifiedCovers
<1> QED
  BY <1>1, AlwaysOnes, PTL

-----------------------------------------------------------------------------
(* updateMany and deleteMany. *)

\* What an updateMany or a deleteMany touches matches its filter when it is
\* touched, if printing leaves the clause as it was: the statement carries the
\* clause, so no other connection can come between finding a document and
\* changing it.
THEOREM ManysTouchMatched == Spec => ManyTouchesOnlyMatched
<1>1. ASSUME NEW c \in Conns, UpdateDocuments(c), Entry(c).multi,
             Literal(Entry(c).q), NEW d \in docs \ docs'
      PROVE  <<d.id, d.val>> \in Entry(c).q.match
  <2>1. d \in Updated(c)
    BY <1>1 DEF UpdateDocuments, Execute, UpdateStmt, store
  <2> QED
    BY <1>1, <2>1 DEF Updated, NeedsUpdate, Where, ManyMatch, Literal
<1>2. ASSUME NEW c \in Conns, DeleteDocuments(c), ~Entry(c).one,
             Literal(Entry(c).q), NEW d \in docs \ docs'
      PROVE  <<d.id, d.val>> \in Entry(c).q.match
  <2>1. d \in Deleted(c)
    BY <1>2 DEF DeleteDocuments, Execute, DeleteStmt, store
  <2> QED
    BY <1>2, <2>1 DEF Deleted, Where, ManyMatch, Literal
<1>3. [Next]_vars =>
        [\A c \in Conns :
           /\ UpdateDocuments(c) /\ Entry(c).multi /\ Literal(Entry(c).q) =>
                \A d \in docs \ docs' : <<d.id, d.val>> \in Entry(c).q.match
           /\ DeleteDocuments(c) /\ ~Entry(c).one /\ Literal(Entry(c).q) =>
                \A d \in docs \ docs' : <<d.id, d.val>> \in Entry(c).q.match]_vars
  BY <1>1, <1>2
<1> QED
  BY <1>3, PTL DEF Spec, ManyTouchesOnlyMatched
=============================================================================
