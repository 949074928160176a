---------------------------- MODULE HistoryProofs ----------------------------
(***************************************************************************)
(* Proofs about requests that no other connection disturbs: what such a    *)
(* handler has learned from its last statement still holds when it acts on *)
(* it and when it answers, for every set of requests.                      *)
(***************************************************************************)
EXTENDS CommandHistory, CountProofs, SequenceTheorems

-----------------------------------------------------------------------------
(* The inductive invariants. *)

\* Connection c's request is being handled and has been left alone.
Left(c) == Busy(c) /\ ~disturbed[c]

\* Only updateOne and deleteOne pick an _id.
PicksOnes(c) ==
  /\ pc[c] = "pick" /\ req[c].op = "update" => ~Entry(c).multi
  /\ pc[c] = "pick" /\ req[c].op = "delete" => Entry(c).one

\* The statement to come writes by the _id picked.
ByTarget(c) ==
  \/ pc[c] = "update" /\ ~Entry(c).multi
  \/ pc[c] = "delete" /\ Entry(c).one

\* A document with the _id that was picked matches the filter.
Picked(c) ==
  ByTarget(c) => \E d \in Where(Ns(c), Entry(c).q.match) : target[c] = {d.id}

PickInv ==
  TypeOK /\ \A c \in Conns : PicksOnes(c) /\ (Left(c) => Picked(c))

\* listDatabases is at one database at a time.
OneDatabase(c) == \A d, e \in list[c].db : d = e

\* What a handler knows about the catalogue from the statements before, if none
\* of them has failed without a reason.
Aware(c) ==
 Faults = {} =>
  /\ pc[c] \in {"schema", "collection"} /\ req[c].op = "insert" => ~Exists(c)
  /\ pc[c] = "collection" => Ns(c)[1] \in schemas
  /\ pc[c] \in {"unique", "insert"} => Exists(c)
  /\ pc[c] = "size" =>
       \A db \in list[c].db, coll \in list[c].tables : <<db, coll>> \in collections

\* The documents an insert has passed are stored.
Stored(c) ==
  req[c].op = "insert" =>
    \A i \in DOMAIN req[c].batch : i < idx[c] =>
      \E d \in WithId(Ns(c), req[c].batch[i].id) : d.val = req[c].batch[i].val

\* The answer about to be sent is true, and an error has its reason in the store.
Settled(c) ==
  pc[c] = "reply" => /\ Faults = {} => Explained(c, code[c])
                     /\ code[c] = "ok" => Truthful(c)

Calm(c) == Aware(c) /\ Stored(c) /\ Settled(c)

CalmInv ==
  /\ PickInv /\ StoreSound
  /\ \A c \in Conns : OneDatabase(c) /\ (Left(c) => Calm(c))

-----------------------------------------------------------------------------
(* Whose step it is. *)

\* A request that is left alone after a step of another handler was left alone
\* before, and the store has not changed.
LEMMA StaysLeft ==
  ASSUME HNext, NEW c \in Conns, NEW d \in Conns \ {c}, Alone(c), Left(d)'
  PROVE  Left(d) /\ UNCHANGED store
BY DEF HNext, Left, Busy, Alone, NotBy

\* A handler's own step does not make its request one that is left alone.
LEMMA WasLeft ==
  ASSUME HNext, NEW c \in Conns, Busy(c), Left(c)'
  PROVE  Left(c)
BY DEF HNext, Left, Busy

-----------------------------------------------------------------------------
(* What deleteOne and updateOne pick. *)

\* A handler that has just begun an entry has picked nothing for it.
LEMMA EntryPicks ==
  ASSUME NEW c \in Conns, req'[c] \in Request, req'[c].op \in BatchOps,
         idx'[c] \in Nat \ {0}, pc'[c] = EntryPc(req'[c], idx'[c])
  PROVE  PicksOnes(c)' /\ Picked(c)'
BY EntryPcCases DEF PicksOnes, Picked, ByTarget, Entry

\* Nor has one that is at another statement.
LEMMA ElsewherePicks ==
  ASSUME NEW c \in Conns, pc'[c] \notin {"pick", "update", "delete"}
  PROVE  PicksOnes(c)' /\ Picked(c)'
BY DEF PicksOnes, Picked, ByTarget

\* Going on to the next entry.
LEMMA NextEntryPicks ==
  ASSUME TypeOK, NEW c \in Conns, Busy(c), req[c].op \in BatchOps, req' = req,
         NextEntry(c)
  PROVE  /\ idx'[c] = idx[c] + 1 /\ idx'[c] \in Nat \ {0}
         /\ pc'[c] = EntryPc(req[c], idx'[c])
         /\ PicksOnes(c)' /\ Picked(c)'
<1>1. req[c] \in Request /\ idx[c] \in Nat \ {0}
  BY BusyShape
<1>2. idx'[c] = idx[c] + 1 /\ pc'[c] = EntryPc(req[c], idx'[c])
  BY DEF NextEntry, Goto, TypeOK, VariablesTyped
<1> QED
  BY <1>1, <1>2, EntryPicks

\* What is picked matches the filter as the store is, and nothing else leads to
\* a statement that writes by _id.
LEMMA HandlePicks ==
  ASSUME TypeOK, NEW c \in Conns, PicksOnes(c), Handle(c)
  PROVE  PicksOnes(c)' /\ Picked(c)'
<1> USE DEF Read, Execute, Goto, Answer
<1>1. /\ pc \in [Conns -> Labels] /\ target \in [Conns -> SUBSET Ids]
      /\ code \in [Conns -> Codes]
  BY DEF TypeOK, VariablesTyped
<1>2. CASE MsgStorage(c)
  <2>1. pc[c] = "storage" /\ Busy(c) /\ req' = req /\ idx' = idx
    BY <1>2 DEF MsgStorage, Busy, locals
  <2>2. req[c] \in Request /\ idx[c] = 1 /\ req[c].op \in DataOps
    BY <2>1, AtStatement DEF OpsAt, LoopLabels
  <2>3. CASE pc'[c] = DataPc(req[c])
    <3>1. CASE req[c].op \in {"find", "count"}
      BY <2>3, <3>1, ElsewherePicks DEF DataPc
    <3>2. CASE req[c].op \in BatchOps
      BY <2>1, <2>2, <2>3, <3>2, EntryPicks DEF DataPc, BatchOps
    <3> QED
      BY <2>2, <3>1, <3>2 DEF DataOps
  <2>4. pc'[c] \in {"reply", "schema", DataPc(req[c])}
    BY <1>1, <1>2 DEF MsgStorage
  <2> QED
    BY <2>3, <2>4, ElsewherePicks
<1>3. CASE CreateSchema(c)
  BY <1>1, <1>3, ElsewherePicks DEF CreateSchema
<1>4. CASE CreateCollection(c)
  <2>1. pc[c] = "collection" /\ Busy(c) /\ req' = req /\ idx' = idx
    BY <1>4 DEF CreateCollection, Busy, locals
  <2>2. req[c] \in Request /\ idx[c] = 1
    BY <2>1, AtStatement DEF LoopLabels
  <2>3. \/ pc'[c] = "reply"
        \/ req[c].op = "insert" /\ pc'[c] = EntryPc(req[c], 1)
    BY <1>1, <1>4 DEF CreateCollection
  <2> QED
    BY <2>1, <2>2, <2>3, EntryPicks, ElsewherePicks DEF BatchOps
<1>5. CASE DropTable(c) \/ DropSchema(c) \/ IsIdUnique(c) \/ Reject(c)
  BY <1>1, <1>5, ElsewherePicks DEF DropTable, DropSchema, IsIdUnique, Reject
<1>6. CASE Query(c) \/ Reply(c)
  BY <1>1, <1>6, ElsewherePicks DEF Query, Reply
<1>7. CASE ListSchemas(c) \/ ListTables(c) \/ TableSize(c)
  BY <1>1, <1>7, ElsewherePicks DEF ListSchemas, ListTables, TableSize, NextDatabase
<1>8. CASE InsertDocument(c)
  <2>1. pc[c] = "insert" /\ req' = req
    BY <1>8 DEF InsertDocument
  <2>2. Busy(c) /\ req[c].op \in BatchOps
    BY <2>1, InLoop DEF LoopLabels, OpsAt, BatchOps
  <2>3. NextEntry(c) \/ pc'[c] = "reply"
    BY <1>1, <1>8 DEF InsertDocument
  <2> QED
    BY <2>1, <2>2, <2>3, NextEntryPicks, ElsewherePicks
<1>9. CASE CountMatched(c)
  <2>1. pc[c] = "count" /\ req' = req /\ idx' = idx
    BY <1>9 DEF CountMatched
  <2>2. req[c].op = "update"
    BY <2>1, InLoop DEF LoopLabels, OpsAt
  <2>3. pc'[c] \in {"reply", IF Entry(c).multi THEN "update" ELSE "pick"}
    BY <1>1, <1>9 DEF CountMatched
  <2> QED
    BY <2>1, <2>2, <2>3 DEF PicksOnes, Picked, ByTarget, Entry
<1>10. CASE PickForUpdate(c)
  <2> DEFINE S == NeedsUpdate(Entry(c), Where(Ns(c), Entry(c).q.match))
  <2>1. pc[c] = "pick" /\ req' = req /\ req[c].op = "update" /\ Busy(c) /\ store' = store
    BY <1>10 DEF PickForUpdate, Busy
  <2>2. CASE NextEntry(c)
    BY <2>1, <2>2, NextEntryPicks DEF BatchOps
  <2>3. CASE (\E d \in S : target' = [target EXCEPT ![c] = {d.id}])
             /\ Goto(c, "update") /\ idx' = idx
    <3>1. PICK d \in Where(Ns(c), Entry(c).q.match) : target'[c] = {d.id}
      BY <1>1, <2>3 DEF NeedsUpdate
    <3>2. d \in Where(Ns(c), Entry(c).q.match)'
      BY <2>1, <2>3, <3>1 DEF Where, Ns, Entry, store
    <3>3. pc'[c] = "update"
      BY <1>1, <2>3
    <3> QED
      BY <3>1, <3>2, <3>3 DEF PicksOnes, Picked
  <2> QED
    BY <1>10, <2>2, <2>3 DEF PickForUpdate
<1>11. CASE PickForDelete(c)
  <2> DEFINE S == Where(Ns(c), Entry(c).q.match)
  <2>1. pc[c] = "pick" /\ req' = req /\ req[c].op = "delete" /\ Busy(c) /\ store' = store
    BY <1>11 DEF PickForDelete, Busy
  <2>2. CASE NextEntry(c)
    BY <2>1, <2>2, NextEntryPicks DEF BatchOps
  <2>3. CASE (\E d \in S : target' = [target EXCEPT ![c] = {d.id}])
             /\ Goto(c, "delete") /\ idx' = idx
    <3>1. PICK d \in S : target'[c] = {d.id}
      BY <1>1, <2>3
    <3>2. d \in Where(Ns(c), Entry(c).q.match)'
      BY <2>1, <2>3, <3>1 DEF Where, Ns, Entry, store
    <3>3. pc'[c] = "delete"
      BY <1>1, <2>3
    <3> QED
      BY <3>1, <3>2, <3>3 DEF PicksOnes, Picked
  <2> QED
    BY <1>11, <2>2, <2>3 DEF PickForDelete
<1>12. CASE UpdateDocuments(c) \/ DeleteDocuments(c)
  <2>1. pc[c] \in {"update", "delete"} /\ req' = req
    BY <1>12 DEF UpdateDocuments, DeleteDocuments
  <2>2. Busy(c) /\ req[c].op \in BatchOps
    BY <2>1, InLoop DEF LoopLabels, OpsAt, BatchOps
  <2>3. NextEntry(c) \/ pc'[c] = "reply"
    BY <1>1, <1>12 DEF UpdateDocuments, DeleteDocuments
  <2> QED
    BY <2>1, <2>2, <2>3, NextEntryPicks, ElsewherePicks
<1> QED
  BY <1>2, <1>3, <1>4, <1>5, <1>6, <1>7, <1>8, <1>9, <1>10, <1>11, <1>12 DEF Handle

\* A step of another handler leaves what was picked.
LEMMA AlonePicks ==
  ASSUME PickInv, HNext, NEW c \in Conns, Alone(c), NEW d \in Conns \ {c}
  PROVE  PicksOnes(d)' /\ (Left(d)' => Picked(d)')
<1>1. PicksOnes(d)'
  BY DEF PickInv, PicksOnes, Alone, Entry
<1>2. ASSUME Left(d)' PROVE Picked(d)'
  <2>1. Left(d) /\ UNCHANGED store
    BY <1>2, StaysLeft
  <2>2. Picked(d)
    BY <2>1 DEF PickInv
  <2> QED
    BY <2>1, <2>2 DEF Picked, ByTarget, Alone, Entry, Ns, Where, store
<1> QED
  BY <1>1, <1>2

\* A step of its own leaves a handler with what it has just picked, or nothing.
LEMMA OwnPicks ==
  ASSUME TypeOK, NEW c \in Conns, PicksOnes(c), Receive(c) \/ Handle(c) \/ Reconnect(c)
  PROVE  PicksOnes(c)' /\ Picked(c)'
<1>1. CASE Handle(c)
  BY <1>1, HandlePicks
<1>2. CASE Receive(c)
  <2>1. PICK r \in Requests[c] : pc'[c] = FirstPc(r)
    BY <1>2 DEF Receive, TypeOK, VariablesTyped
  <2>2. r \in Request
    BY <2>1, RequestsAssumption
  <2>3. FirstPc(r) \notin {"pick", "update", "delete"}
    BY <2>2 DEF FirstPc, Request, InsertRequest, UpdateRequest, DeleteRequest,
       ReadRequest, CollectionRequest, DatabaseRequest, ListRequest, LocalRequest
  <2> QED
    BY <2>1, <2>3, ElsewherePicks
<1>3. CASE Reconnect(c)
  <2>1. pc'[c] = "idle"
    BY <1>3 DEF Reconnect, TypeOK, VariablesTyped
  <2> QED
    BY <2>1, ElsewherePicks
<1> QED
  BY <1>1, <1>2, <1>3

\* The invariant is inductive, with any fault.
LEMMA NextPicks ==
  ASSUME PickInv, [HNext]_hvars
  PROVE  PickInv'
<1>1. TypeOK /\ TypeOK' /\ \A c \in Conns : PicksOnes(c)
  BY NextType DEF PickInv, HNext, hvars
<1>2. CASE HNext /\ \E c \in Conns : Receive(c) \/ Handle(c) \/ Reconnect(c)
  <2>1. PICK c \in Conns : Receive(c) \/ Handle(c) \/ Reconnect(c)
    BY <1>2
  <2>2. PicksOnes(c)' /\ Picked(c)'
    BY <1>1, <2>1, OwnPicks
  <2>3. Alone(c)
    BY <1>1, <2>1, StepAlone
  <2> QED
    BY <1>1, <1>2, <2>2, <2>3, AlonePicks DEF PickInv
<1>3. CASE Crash
  <2>1. \A c \in Conns : pc'[c] = "closed"
    BY <1>3 DEF Crash
  <2> QED
    BY <1>1, <2>1, ElsewherePicks DEF PickInv
<1>4. CASE UNCHANGED hvars
  BY <1>1, <1>4 DEF PickInv, PicksOnes, Left, Busy, Picked, ByTarget, Entry, Ns,
     Where, hvars, vars, store, locals
<1> QED
  BY <1>2, <1>3, <1>4 DEF HNext, Next

\* It holds in every reachable state.
LEMMA AlwaysPicks == HSpec => []PickInv
<1>1. HInit => PickInv
  BY InitType DEF HInit, Init, PickInv, PicksOnes, Left, Busy
<1>2. PickInv /\ [HNext]_hvars => PickInv'
  BY NextPicks
<1> QED
  BY <1>1, <1>2, PTL DEF HSpec

\* Without interference deleteOne and updateOne touch what their filter
\* matches, and no more than one document, as long as _ids are unique; whatever
\* statements fail or are lost.
THEOREM OnesMatch == HSpec => OnesTouchMatchedAlone
<1>1. ASSUME PickInv, UniqueIds, NEW c \in Conns, ~disturbed[c],
             \/ UpdateDocuments(c) /\ ~Entry(c).multi
             \/ DeleteDocuments(c) /\ Entry(c).one
      PROVE  /\ \A d \in docs \ docs' : <<d.id, d.val>> \in Entry(c).q.match
             /\ Cardinality(docs \ docs') <= 1
  <2> DEFINE S == {d \in docs : d.ns = Ns(c) /\ d.id \in target[c]}
  <2>1. docs \ docs' \subseteq S
    BY <1>1 DEF UpdateDocuments, DeleteDocuments, Execute, UpdateStmt, DeleteStmt,
       Updated, Deleted, store
  <2>2. Left(c) /\ ByTarget(c)
    BY <1>1 DEF UpdateDocuments, DeleteDocuments, Left, Busy, ByTarget
  <2>3. PICK e \in Where(Ns(c), Entry(c).q.match) : target[c] = {e.id}
    BY <1>1, <2>2 DEF PickInv, Picked
  <2>4. \A d \in S : d = e
    BY <1>1, <2>3 DEF UniqueIds, Where
  <2>5. \A i, j \in target[c] : i = j
    BY <2>3
  <2>6. Cardinality(docs \ docs') <= 1
    BY <1>1, <2>1, <2>5, OneDocument DEF PickInv, TypeOK
  <2> QED
    BY <2>1, <2>3, <2>4, <2>6 DEF Where
<1>2. PickInv /\ [HNext]_hvars =>
        [\A c \in Conns :
           /\ UniqueIds /\ ~disturbed[c]
           /\ \/ UpdateDocuments(c) /\ ~Entry(c).multi
              \/ DeleteDocuments(c) /\ Entry(c).one
           => /\ \A d \in docs \ docs' : <<d.id, d.val>> \in Entry(c).q.match
              /\ Cardinality(docs \ docs') <= 1]_hvars
  BY <1>1
<1> QED
  BY <1>2, AlwaysPicks, PTL DEF HSpec, OnesTouchMatchedAlone

-----------------------------------------------------------------------------
(* What deleteOne and updateOne have seen, whoever disturbs them.            *)

\* The _id that the statement to come writes by has been seen.
TargetSeen(c) == ByTarget(c) => target[c] \subseteq seen[c]

SeenInv == PickInv /\ \A c \in Conns : TargetSeen(c)

\* The invariant is inductive: what is picked matches when it is picked, and
\* what has been seen stays seen until the next entry.
LEMMA NextSeen ==
  ASSUME SeenInv, [HNext]_hvars
  PROVE  SeenInv'
<1>1. PickInv' /\ TypeOK /\ \A c \in Conns : PicksOnes(c) /\ TargetSeen(c)
  BY NextPicks DEF SeenInv, PickInv
<1>2. ASSUME HNext, NEW c \in Conns, ByTarget(c)'
      PROVE  target'[c] \subseteq seen'[c]
  <2>1. seen'[c] = MatchingIds(c)' \cup (IF idx'[c] = idx[c] THEN seen[c] ELSE {})
    BY <1>2 DEF HNext, ByTarget, Searching
  <2>2. CASE Receive(c) \/ Handle(c) \/ Reconnect(c)
    <3>1. PICK d \in Where(Ns(c), Entry(c).q.match)' : target'[c] = {d.id}
      BY <1>1, <1>2, <2>2, OwnPicks DEF Picked
    <3> QED
      BY <2>1, <3>1 DEF MatchingIds
  <2>3. CASE \E d \in Conns \ {c} : Receive(d) \/ Handle(d) \/ Reconnect(d)
    <3>1. PICK d \in Conns \ {c} : Alone(d)
      BY <1>1, <2>3, StepAlone
    <3>2. /\ ByTarget(c) /\ target'[c] = target[c] /\ idx'[c] = idx[c]
      BY <1>2, <3>1 DEF Alone, ByTarget, Entry
    <3> QED
      BY <1>1, <2>1, <3>2 DEF TargetSeen
  <2>4. CASE Crash
    BY <1>2, <2>4 DEF Crash, ByTarget
  <2> QED
    BY <1>2, <2>2, <2>3, <2>4 DEF HNext, Next
<1>3. CASE HNext
  BY <1>1, <1>2, <1>3 DEF SeenInv, TargetSeen
<1>4. CASE UNCHANGED hvars
  BY <1>1, <1>4 DEF SeenInv, TargetSeen, ByTarget, Entry, hvars, vars, locals
<1> QED
  BY <1>3, <1>4

\* Whatever other connections do and whatever fails, is lost or crashes:
\* updateOne and deleteOne write only to an _id of which a document has matched
\* their filter since they came to this entry.
THEOREM OnesWriteWhatTheySaw == HSpec => OnesTouchSeen
<1>1. HInit => SeenInv
  BY InitType DEF HInit, Init, SeenInv, PickInv, PicksOnes, Left, Busy, TargetSeen, ByTarget
<1>2. SeenInv /\ [HNext]_hvars => SeenInv'
  BY NextSeen
<1>3. ASSUME SeenInv, NEW c \in Conns,
             \/ UpdateDocuments(c) /\ ~Entry(c).multi
             \/ DeleteDocuments(c) /\ Entry(c).one
      PROVE  {d.id : d \in docs \ docs'} \subseteq seen[c]
  <2>1. docs \ docs' \subseteq {d \in docs : d.ns = Ns(c) /\ d.id \in target[c]}
    BY <1>3 DEF UpdateDocuments, DeleteDocuments, Execute, UpdateStmt, DeleteStmt,
       Updated, Deleted, store
  <2>2. ByTarget(c)
    BY <1>3 DEF UpdateDocuments, DeleteDocuments, ByTarget
  <2> QED
    BY <1>3, <2>1, <2>2 DEF SeenInv, TargetSeen
<1>4. SeenInv /\ [HNext]_hvars =>
        [\A c \in Conns :
           \/ UpdateDocuments(c) /\ ~Entry(c).multi
           \/ DeleteDocuments(c) /\ Entry(c).one
           => {d.id : d \in docs \ docs'} \subseteq seen[c]]_hvars
  BY <1>3
<1> QED
  BY <1>1, <1>2, <1>4, PTL DEF HSpec, OnesTouchSeen

-----------------------------------------------------------------------------
(* One lemma for each statement: a handler that has been left alone so far   *)
(* knows, after its statement, what it needs to know for the next one.       *)

\* What a step of a handler that is left alone starts from.
Ready(c) ==
  /\ TypeOK /\ StoreSound /\ "failed" \notin Faults
  /\ PicksOnes(c) /\ Picked(c) /\ OneDatabase(c) /\ Calm(c)

\* An answer "ok" needs no reason but has to be true.
LEMMA SettledOk ==
  ASSUME NEW c \in Conns, code'[c] = "ok", Truthful(c)'
  PROVE  Settled(c)'
BY DEF Settled, Explained

\* Neither does an error where statements fail without a reason.
LEMMA FaultyCalm ==
  ASSUME NEW c \in Conns, Faults # {}, Stored(c)', pc'[c] = "reply",
         code'[c] # "ok"
  PROVE  Calm(c)'
BY DEF Calm, Aware, Settled

\* Before the answer there is nothing to settle.
LEMMA NotSettled ==
  ASSUME NEW c \in Conns, pc'[c] # "reply"
  PROVE  Settled(c)'
BY DEF Settled

\* An insert that is at its first document has stored none.
LEMMA FirstStored ==
  ASSUME NEW c \in Conns, req'[c] \in Request, idx'[c] = 1
  PROVE  Stored(c)'
BY RequestShape DEF Stored

\* A request that is no insert stores nothing.
LEMMA NoInsertStored ==
  ASSUME NEW c \in Conns, req' = req, req[c].op # "insert"
  PROVE  Stored(c)'
BY DEF Stored

\* Of a batch without entries there is nothing to be true.
LEMMA EmptyTruthful ==
  ASSUME NEW c \in Conns, req'[c] \in Request, req'[c].op \in DataOps,
         req'[c].op \in BatchOps => 1 > Len(req'[c].batch)
  PROVE  Truthful(c)'
<1>1. CASE req'[c].op \in {"find", "count"}
  BY <1>1 DEF Truthful
<1>2. CASE req'[c].op \in BatchOps
  <2>1. Len(req'[c].batch) = 0 /\ req'[c].batch = <<>>
    BY <1>2, RequestShape, EmptySeq DEF BatchOps
  <2>2. DOMAIN req'[c].batch = {}
    BY <2>1
  <2> QED
    BY <1>2, <2>1, <2>2 DEF Truthful, BatchOps
<1> QED
  BY <1>1, <1>2 DEF DataOps

\* The query for the collection's table.
LEMMA MsgStorageCalm ==
  ASSUME NEW c \in Conns, Ready(c), MsgStorage(c)
  PROVE  Calm(c)'
<1>1. /\ pc[c] = "storage" /\ Busy(c) /\ UNCHANGED store /\ UNCHANGED locals
      /\ req' = req /\ idx' = idx
  BY DEF MsgStorage, Read, Busy, locals
<1>2. /\ pc \in [Conns -> Labels] /\ code \in [Conns -> Codes]
      /\ req[c] \in Request /\ idx[c] = 1 /\ req[c].op \in DataOps
  BY <1>1, AtStatement DEF Ready, TypeOK, VariablesTyped, OpsAt, LoopLabels
<1>3. Stored(c)'
  BY <1>1, <1>2, FirstStored
<1>4. Exists(c)' = Exists(c)
  BY <1>1 DEF Exists, Ns, store
<1>5. CASE ~Exists(c) /\ req[c].op = "insert" /\ pc'[c] = "schema"
  BY <1>1, <1>3, <1>4, <1>5, NotSettled DEF Calm, Aware
<1>6. CASE /\ Exists(c) \/ req[c].op # "insert"
           /\ pc'[c] = "reply" => code'[c] = "ok"
           /\ \/ pc'[c] = DataPc(req[c])
              \/ pc'[c] = "reply" /\ req[c].op = "find"
  <2>1. CASE pc'[c] = "reply" /\ req[c].op = "find"
    BY <1>1, <1>2, <1>3, <1>6, <2>1, EmptyTruthful, SettledOk DEF Calm, Aware, BatchOps
  <2>2. CASE pc'[c] = DataPc(req[c]) /\ req[c].op \in {"find", "count"}
    BY <1>3, <2>2, NotSettled DEF DataPc, Calm, Aware
  <2>3. CASE pc'[c] = DataPc(req[c]) /\ req[c].op \in BatchOps
    <3>1. pc'[c] = EntryPc(req[c], 1)
      BY <2>3 DEF DataPc, BatchOps
    <3>2. /\ pc'[c] = "reply" <=> 1 > Len(req[c].batch)
          /\ pc'[c] \in {"unique", "count", "pick", "delete", "reply"}
          /\ pc'[c] = "unique" => req[c].op = "insert"
      BY <1>2, <2>3, <3>1, EntryPcCases
    <3>3. Aware(c)'
      BY <1>4, <1>6, <3>2 DEF Aware
    <3>4. Settled(c)'
      BY <1>1, <1>2, <1>6, <3>2, EmptyTruthful, SettledOk, NotSettled
    <3> QED
      BY <1>3, <3>3, <3>4 DEF Calm
  <2> QED
    BY <1>2, <1>6, <2>1, <2>2, <2>3 DEF DataOps
<1>7. CASE pc'[c] = "reply" /\ code'[c] = "InternalError" /\ ~Exists(c)
           /\ req[c].op # "insert"
  <2>1. Explained(c, code[c])'
    BY <1>1, <1>2, <1>4, <1>7 DEF Explained, DataOps, BatchOps
  <2> QED
    BY <1>3, <1>7, <2>1 DEF Calm, Aware, Settled
<1>8. \/ /\ Exists(c) \/ req[c].op # "insert"
         /\ (Goto(c, "reply") /\ req[c].op = "find") \/ Goto(c, DataPc(req[c]))
      \/ ~Exists(c) /\ req[c].op = "insert" /\ Goto(c, "schema")
      \/ ~Exists(c) /\ req[c].op # "insert" /\ Answer(c, "InternalError")
  BY DEF MsgStorage, Read, Ready
<1> QED
  BY <1>2, <1>5, <1>6, <1>7, <1>8 DEF Goto, Answer

\* CREATE SCHEMA: whatever it reports, the schema is there then.
LEMMA CreateSchemaCalm ==
  ASSUME NEW c \in Conns, Ready(c), CreateSchema(c)
  PROVE  Calm(c)'
<1>1. pc[c] = "schema" /\ Busy(c) /\ req' = req /\ idx' = idx
  BY DEF CreateSchema, Busy, locals
<1>2. /\ pc \in [Conns -> Labels] /\ req[c] \in Request /\ idx[c] = 1
      /\ Faults = {} /\ req[c].op = "insert" => ~Exists(c)
  BY <1>1, AtStatement DEF Ready, TypeOK, VariablesTyped, LoopLabels, Calm, Aware
<1>3. PICK db \in DbOf(c) : (CanCreateSchema(db) /\ CreateSchemaStmt(db))
                            \/ (~CanCreateSchema(db) /\ UNCHANGED store)
  BY DEF CreateSchema, Execute, Ready
<1>4. db \in schemas' /\ collections' = collections
  BY <1>3 DEF CanCreateSchema, CreateSchemaStmt, store
<1>5. pc'[c] = IF req[c].op \in {"insert", "create"} THEN "collection" ELSE "tables"
  BY <1>2 DEF CreateSchema, Execute, Goto
<1>6. req[c].op \in {"insert", "create"} => db = Ns(c)[1]
  BY DEF DbOf, Ns
<1>7. Aware(c)'
  BY <1>1, <1>2, <1>4, <1>5, <1>6 DEF Aware, Exists, Ns
<1> QED
  BY <1>1, <1>2, <1>5, <1>7, FirstStored, NotSettled DEF Calm

\* CREATE COLLECTION: an insert comes here only when there was none.
LEMMA CreateCollectionCalm ==
  ASSUME NEW c \in Conns, Ready(c), CreateCollection(c)
  PROVE  Calm(c)'
<1>1. pc[c] = "collection" /\ Busy(c) /\ req' = req /\ idx' = idx
  BY DEF CreateCollection, Busy, locals
<1>2. /\ pc \in [Conns -> Labels] /\ code \in [Conns -> Codes]
      /\ req[c] \in Request /\ idx[c] = 1
      /\ req[c].op \in {"insert", "create"}
      /\ Faults = {} => (req[c].op = "insert" => ~Exists(c)) /\ Ns(c)[1] \in schemas
  BY <1>1, AtStatement DEF Ready, TypeOK, VariablesTyped, LoopLabels, OpsAt, Calm, Aware
<1>3. Stored(c)'
  BY <1>1, <1>2, FirstStored
<1>4. CASE CreateCollectionStmt(Ns(c))
           /\ Goto(c, IF req[c].op = "insert" THEN EntryPc(req[c], 1) ELSE "reply")
  <2>1. Exists(c)'
    BY <1>1, <1>4 DEF CreateCollectionStmt, Exists, Ns
  <2>2. /\ pc'[c] = IF req[c].op = "insert" THEN EntryPc(req[c], 1) ELSE "reply"
        /\ pc'[c] = "reply" => code'[c] = "ok"
    BY <1>2, <1>4 DEF Goto
  <2>3. CASE req[c].op = "insert"
    <3>1. /\ pc'[c] = "reply" <=> 1 > Len(req[c].batch)
          /\ pc'[c] \in {"unique", "count", "pick", "delete", "reply"}
      BY <1>2, <2>2, <2>3, EntryPcCases DEF BatchOps
    <3>2. Settled(c)'
      BY <1>1, <1>2, <2>2, <2>3, <3>1, EmptyTruthful, SettledOk, NotSettled
         DEF DataOps, BatchOps
    <3> QED
      BY <1>3, <2>1, <3>1, <3>2 DEF Calm, Aware
  <2>4. CASE req[c].op = "create"
    <3>1. Truthful(c)'
      BY <1>1, <2>1, <2>4 DEF Truthful
    <3> QED
      BY <1>3, <2>2, <2>4, <3>1, SettledOk DEF Calm, Aware
  <2> QED
    BY <1>2, <2>3, <2>4
<1>5. CASE /\ Faults = {} /\ ~CanCreateCollection(Ns(c)) /\ UNCHANGED store
           /\ Answer(c, IF req[c].op = "insert" THEN "InternalError"
                                                ELSE "NamespaceExists")
  <2>1. Exists(c) /\ req[c].op = "create"
    BY <1>2, <1>5 DEF CanCreateCollection, Exists
  <2>2. Exists(c)'
    BY <1>1, <1>5, <2>1 DEF Exists, Ns, store
  <2>3. pc'[c] = "reply" /\ code'[c] = "NamespaceExists"
    BY <1>2, <1>5, <2>1 DEF Answer
  <2>4. Explained(c, code[c])'
    BY <1>1, <2>1, <2>2, <2>3 DEF Explained
  <2> QED
    BY <1>3, <2>3, <2>4 DEF Calm, Aware, Settled
<1>6. CASE Faults # {} /\ Answer(c, IF req[c].op = "insert" THEN "InternalError"
                                                            ELSE "NamespaceExists")
  <2>1. pc'[c] = "reply" /\ code'[c] # "ok"
    BY <1>2, <1>6 DEF Answer
  <2> QED
    BY <1>3, <1>6, <2>1, FaultyCalm
<1> QED
  BY <1>4, <1>5, <1>6 DEF CreateCollection, Execute, Ready

\* DROP COLLECTION.
LEMMA DropTableCalm ==
  ASSUME NEW c \in Conns, Ready(c), DropTable(c)
  PROVE  Calm(c)'
<1>1. pc[c] = "drop" /\ Busy(c) /\ req' = req
  BY DEF DropTable, Busy, locals
<1>2. /\ pc \in [Conns -> Labels] /\ code \in [Conns -> Codes] /\ req[c].op = "drop"
  BY <1>1, AtStatement DEF Ready, TypeOK, VariablesTyped, OpsAt
<1>3. ~Exists(c)' /\ pc'[c] = "reply" /\ code'[c] \in {"ok", "NamespaceNotFound"}
  BY <1>1, <1>2 DEF DropTable, Execute, Ready, DropCollectionStmt, Exists, Ns, store,
     Goto, Answer
<1>4. Settled(c)'
  BY <1>1, <1>2, <1>3 DEF Settled, Explained, Truthful
<1> QED
  BY <1>1, <1>2, <1>3, <1>4, NoInsertStored DEF Calm, Aware

\* DROP SCHEMA.
LEMMA DropSchemaCalm ==
  ASSUME NEW c \in Conns, Ready(c), DropSchema(c)
  PROVE  Calm(c)'
<1>1. pc[c] = "dropdb" /\ Busy(c) /\ req' = req
  BY DEF DropSchema, Busy, locals
<1>2. /\ pc \in [Conns -> Labels] /\ code \in [Conns -> Codes]
      /\ req[c].op = "dropDatabase"
  BY <1>1, AtStatement DEF Ready, TypeOK, VariablesTyped, OpsAt
<1>3. /\ req'[c].db \notin schemas' /\ pc'[c] = "reply"
      /\ code'[c] \in {"ok", "InternalError"}
  BY <1>1, <1>2 DEF DropSchema, Execute, Ready, DropSchemaStmt, store, Goto, Answer
<1>4. Settled(c)'
  BY <1>1, <1>2, <1>3 DEF Settled, Explained, Truthful
<1> QED
  BY <1>1, <1>2, <1>3, <1>4, NoInsertStored DEF Calm, Aware

\* A handler inside its loop, left alone: where it is and what it knows.
LEMMA InLoopReady ==
  ASSUME NEW c \in Conns, Ready(c), pc[c] \in LoopLabels
  PROVE  /\ pc \in [Conns -> Labels] /\ code \in [Conns -> Codes]
         /\ idx \in [Conns -> Nat \ {0}] /\ n \in [Conns -> Nat]
         /\ Busy(c) /\ req[c] \in Request /\ req[c].op \in OpsAt(pc[c])
         /\ req[c].op \in BatchOps
         /\ idx[c] \in DOMAIN req[c].batch /\ idx[c] \in Nat \ {0}
         /\ Len(req[c].batch) \in Nat
         /\ DOMAIN req[c].batch = 1..Len(req[c].batch)
<1>1. TypeOK
  BY DEF Ready
<1>2. /\ Busy(c) /\ req[c] \in Request /\ req[c].op \in OpsAt(pc[c])
      /\ OpsAt(pc[c]) \subseteq BatchOps
      /\ idx[c] \in DOMAIN req[c].batch /\ idx[c] \in Nat \ {0}
  BY <1>1, InLoop
<1>3. Len(req[c].batch) \in Nat /\ DOMAIN req[c].batch = 1..Len(req[c].batch)
  BY <1>2, RequestShape DEF BatchOps
<1> QED
  BY <1>1, <1>2, <1>3 DEF TypeOK, VariablesTyped

\* After the last entry of an update or a delete comes the answer "ok"; it is
\* true if it is true of this entry.
LEMMA LastEntryCalm ==
  ASSUME NEW c \in Conns, Ready(c), pc[c] \in LoopLabels, req' = req,
         req[c].op \in {"update", "delete"}, NextEntry(c),
         req[c].op = "delete" =>
           ((IF Entry(c).one THEN n'[c] = 0 ELSE Literal(Entry(c).q))
              => \A d \in docs' : ~(d.ns = Ns(c) /\ <<d.id, d.val>> \in Entry(c).q.match)),
         req[c].op = "update" =>
           (Entry(c).multi /\ Literal(Entry(c).q)
              => \A d \in docs' : d.ns = Ns(c) /\ <<d.id, d.val>> \in Entry(c).q.match
                                    => d.val = Entry(c).set)
  PROVE  Calm(c)'
<1>1. /\ pc \in [Conns -> Labels] /\ code \in [Conns -> Codes]
      /\ idx \in [Conns -> Nat \ {0}]
      /\ req[c] \in Request /\ req[c].op \in BatchOps /\ Busy(c)
      /\ idx[c] \in Nat \ {0} /\ idx[c] <= Len(req[c].batch)
      /\ Len(req[c].batch) \in Nat
  BY InLoopReady
<1>2. /\ pc'[c] = EntryPc(req[c], idx[c] + 1)
      /\ pc'[c] = "reply" => code'[c] = "ok"
  BY <1>1 DEF NextEntry, Goto
<1>3. /\ pc'[c] = "reply" <=> idx[c] + 1 > Len(req[c].batch)
      /\ pc'[c] \in {"count", "pick", "delete", "reply"}
  BY <1>1, <1>2, EntryPcCases
<1>4. Aware(c)' /\ Stored(c)'
  BY <1>3, NoInsertStored DEF Aware
<1>5. ASSUME pc'[c] = "reply" PROVE Truthful(c)'
  <2>1. idx[c] = Len(req[c].batch)
    BY <1>1, <1>3, <1>5
  <2>2. req'[c].batch[Len(req'[c].batch)] = Entry(c)
    BY <2>1 DEF Entry
  <2>3. CASE req[c].op = "delete"
    BY <2>2, <2>3 DEF Truthful, Where, Ns
  <2>4. CASE req[c].op = "update"
    BY <2>2, <2>4 DEF Truthful, NeedsUpdate, Where, Ns
  <2> QED
    BY <2>3, <2>4
<1>6. Settled(c)'
  BY <1>2, <1>5, SettledOk, NotSettled
<1> QED
  BY <1>4, <1>6 DEF Calm

\* The SELECT of an _id.
LEMMA IsIdUniqueCalm ==
  ASSUME NEW c \in Conns, Ready(c), IsIdUnique(c)
  PROVE  Calm(c)'
<1>1. /\ pc[c] = "unique" /\ UNCHANGED store /\ UNCHANGED locals
      /\ req' = req /\ idx' = idx
  BY DEF IsIdUnique, Read, locals
<1>2. /\ pc \in [Conns -> Labels] /\ code \in [Conns -> Codes] /\ req[c].op = "insert"
      /\ Stored(c) /\ (Faults = {} => Exists(c))
  BY <1>1, InLoopReady DEF LoopLabels, OpsAt, Ready, Calm, Aware
<1>3. Stored(c)' /\ (Faults = {} => Exists(c)')
  BY <1>1, <1>2 DEF Exists, Ns, Stored, WithId, store
<1>4. CASE Goto(c, "insert")
  <2>1. pc'[c] = "insert"
    BY <1>2, <1>4 DEF Goto
  <2> QED
    BY <1>3, <2>1, NotSettled DEF Calm, Aware
<1>5. CASE WithId(Ns(c), Entry(c).id) # {} /\ Answer(c, "InternalError")
  <2>1. pc'[c] = "reply" /\ code'[c] = "InternalError"
    BY <1>2, <1>5 DEF Answer
  <2>2. WithId(Ns(c), Entry(c).id)' # {}
    BY <1>1, <1>5 DEF WithId, Ns, Entry, store
  <2>3. Explained(c, code[c])'
    BY <1>1, <1>2, <2>1, <2>2 DEF Explained
  <2> QED
    BY <1>3, <2>1, <2>3 DEF Calm, Aware, Settled
<1>6. CASE Faults # {} /\ Answer(c, "InternalError")
  <2>1. pc'[c] = "reply" /\ code'[c] # "ok"
    BY <1>2, <1>6 DEF Answer
  <2> QED
    BY <1>3, <1>6, <2>1, FaultyCalm
<1> QED
  BY <1>2, <1>4, <1>5, <1>6 DEF IsIdUnique, Read, Ready

\* The INSERT of a document that is acknowledged: it is stored.
LEMMA InsertedCalm ==
  ASSUME NEW c \in Conns, Ready(c), InsertDocument(c),
         Exists(c), InsertStmt(Ns(c), Entry(c).id, Entry(c).val), NextEntry(c)
  PROVE  Calm(c)'
<1>1. pc[c] = "insert" /\ req' = req
  BY DEF InsertDocument
<1>2. /\ pc \in [Conns -> Labels] /\ code \in [Conns -> Codes]
      /\ idx \in [Conns -> Nat \ {0}]
      /\ req[c] \in Request /\ req[c].op = "insert" /\ req[c].op \in BatchOps
      /\ idx[c] \in Nat \ {0} /\ idx[c] <= Len(req[c].batch)
      /\ Len(req[c].batch) \in Nat
      /\ DOMAIN req[c].batch = 1..Len(req[c].batch)
      /\ Stored(c)
  BY <1>1, InLoopReady DEF LoopLabels, OpsAt, Ready, Calm, Aware
<1>3. PICK new \in docs' : /\ new.ns = Ns(c) /\ new.id = Entry(c).id
                           /\ new.val = Entry(c).val
  <2>1. PICK r \in Rows :
          docs' = docs \cup {[row |-> r, ns |-> Ns(c), id |-> Entry(c).id,
                              val |-> Entry(c).val]}
    BY DEF InsertStmt
  <2> DEFINE x == [row |-> r, ns |-> Ns(c), id |-> Entry(c).id, val |-> Entry(c).val]
  <2>2. x \in docs'
    BY <2>1
  <2>3. x.ns = Ns(c) /\ x.id = Entry(c).id /\ x.val = Entry(c).val
    OBVIOUS
  <2> QED
    BY <2>2, <2>3
<1>4. /\ idx'[c] = idx[c] + 1 /\ pc'[c] = EntryPc(req[c], idx[c] + 1)
      /\ pc'[c] = "reply" => code'[c] = "ok"
  BY <1>2 DEF NextEntry, Goto
<1>5. /\ pc'[c] = "reply" <=> idx[c] + 1 > Len(req[c].batch)
      /\ pc'[c] \in {"unique", "count", "pick", "delete", "reply"}
  BY <1>2, <1>4, EntryPcCases
<1>6. docs \subseteq docs' /\ collections' = collections
  BY DEF InsertStmt
<1>7. Stored(c)'
  <2> SUFFICES ASSUME NEW i \in DOMAIN req[c].batch, i < idx[c] + 1
               PROVE  \E d \in docs' : /\ d.ns = Ns(c) /\ d.id = req[c].batch[i].id
                                       /\ d.val = req[c].batch[i].val
    BY <1>1, <1>4 DEF Stored, WithId, Ns
  <2>1. CASE i = idx[c]
    BY <1>3, <2>1 DEF Entry
  <2>2. CASE i < idx[c]
    <3>1. PICK e \in WithId(Ns(c), req[c].batch[i].id) : e.val = req[c].batch[i].val
      BY <1>2, <2>2 DEF Stored
    <3> QED
      BY <1>6, <3>1 DEF WithId
  <2> QED
    BY <1>2, <2>1, <2>2
<1>8. Aware(c)'
  BY <1>1, <1>2, <1>5, <1>6 DEF Aware, Exists, Ns
<1>9. pc'[c] = "reply" => Truthful(c)'
  BY <1>1, <1>2, <1>4, <1>5, <1>7 DEF Stored, Truthful
<1> QED
  BY <1>4, <1>7, <1>8, <1>9, SettledOk, NotSettled DEF Calm

\* The INSERT of a document.  Without faults there is a collection, so that it is
\* stored; a document whose acknowledgement is lost is answered with an error.
LEMMA InsertDocumentCalm ==
  ASSUME NEW c \in Conns, Ready(c), InsertDocument(c)
  PROVE  Calm(c)'
<1>1. /\ pc \in [Conns -> Labels] /\ code \in [Conns -> Codes]
      /\ Stored(c) /\ (Faults = {} => Exists(c))
  BY InLoopReady DEF InsertDocument, LoopLabels, Ready, Calm, Aware
<1>2. CASE Exists(c) /\ InsertStmt(Ns(c), Entry(c).id, Entry(c).val) /\ NextEntry(c)
  BY <1>2, InsertedCalm
<1>3. CASE /\ Faults # {} /\ Answer(c, "InternalError") /\ UNCHANGED <<req, idx>>
           /\ InsertStmt(Ns(c), Entry(c).id, Entry(c).val) \/ UNCHANGED store
  <2>1. docs \subseteq docs'
    BY <1>3 DEF InsertStmt, store
  <2>2. Stored(c)'
    BY <1>1, <1>3, <2>1 DEF Stored, WithId, Ns
  <2>3. pc'[c] = "reply" /\ code'[c] # "ok"
    BY <1>1, <1>3 DEF Answer
  <2> QED
    BY <1>3, <2>2, <2>3, FaultyCalm
<1> QED
  BY <1>1, <1>2, <1>3 DEF InsertDocument, Execute, Ready

\* An error of an update or a delete, with its reason in the request or in the
\* store, which it leaves as it is.
LEMMA RefusedCalm ==
  ASSUME NEW c \in Conns, UNCHANGED <<store, req, idx>>,
         req[c].op \in {"update", "delete", "find", "count"},
         NEW k \in {"NotImplemented", "InternalError", "NamespaceNotFound"},
         pc'[c] = "reply", code'[c] = k,
         \/ k = "NotImplemented" \/ ~Exists(c) \/ ~Translated(c)
         \/ k = "NamespaceNotFound" /\ req[c].op = "delete" /\ ~Parses(c)
         \/ req[c].op = "update" /\ ~Parses(c)
  PROVE  Calm(c)'
<1>1. Exists(c)' = Exists(c) /\ req' = req
  BY DEF Exists, Ns, store
<1>2. Translated(c)' = Translated(c)
  BY <1>1 DEF Translated, Rejected, FilterOf, Entry
<1>3. Parses(c)' = Parses(c)
  BY <1>1, <1>2 DEF Parses
<1>4. ~Translated(c) => ~Parses(c)
  BY DEF Parses
<1>5. Explained(c, code[c])'
  BY <1>1, <1>2, <1>3, <1>4 DEF Explained
<1> QED
  BY <1>1, <1>5, NoInsertStored DEF Calm, Aware, Settled

\* Filters and updates that are not translated.
LEMMA RejectCalm ==
  ASSUME NEW c \in Conns, Ready(c), Reject(c)
  PROVE  Calm(c)'
<1>1. /\ pc[c] \in {"count", "pick", "delete", "query"} /\ Rejected(c)
      /\ UNCHANGED store /\ UNCHANGED locals /\ Busy(c)
      /\ UNCHANGED <<store, req, idx>>
  BY DEF Reject, Busy, locals
<1>2. /\ pc \in [Conns -> Labels] /\ code \in [Conns -> Codes]
      /\ req[c].op \in {"update", "delete", "find", "count"}
  BY <1>1, AtStatement DEF Ready, TypeOK, VariablesTyped, OpsAt
<1>3. PICK k \in {"NotImplemented", "InternalError"} :
        pc'[c] = "reply" /\ code'[c] = k
  BY <1>2 DEF Reject, Answer
<1>4. ~Translated(c)
  <2>1. CASE req[c].op \in {"find", "count"}
    BY <1>1, <2>1 DEF Translated
  <2>2. CASE req[c].op \in {"update", "delete"}
    <3>1. pc[c] \in LoopLabels
      BY <1>1, <2>2, AtStatement DEF Ready, LoopLabels, OpsAt
    <3>2. idx[c] \in DOMAIN req[c].batch
      BY <3>1, InLoopReady
    <3> QED
      BY <1>1, <2>2, <3>2 DEF Translated, Rejected, FilterOf, Entry
  <2> QED
    BY <1>2, <2>1, <2>2
<1> QED
  BY <1>1, <1>2, <1>3, <1>4, RefusedCalm

\* The SELECT COUNT of MsgUpdate.
LEMMA CountMatchedCalm ==
  ASSUME NEW c \in Conns, Ready(c), CountMatched(c)
  PROVE  Calm(c)'
<1>1. pc[c] = "count" /\ req' = req /\ UNCHANGED <<store, req, idx>>
  BY DEF CountMatched, Read
<1>2. /\ pc \in [Conns -> Labels] /\ code \in [Conns -> Codes] /\ req[c].op = "update"
  BY <1>1, InLoopReady DEF LoopLabels, OpsAt
<1>3. \/ pc'[c] \in {"update", "pick"}
      \/ pc'[c] = "reply" /\ code'[c] = "InternalError" /\ ~Exists(c)
  BY <1>2 DEF CountMatched, Read, Goto, Answer, Ready
<1>4. CASE pc'[c] \in {"update", "pick"}
  BY <1>1, <1>2, <1>4, NoInsertStored, NotSettled DEF Calm, Aware
<1> QED
  BY <1>1, <1>2, <1>3, <1>4, RefusedCalm

\* The SELECT of updateOne.
LEMMA PickForUpdateCalm ==
  ASSUME NEW c \in Conns, Ready(c), PickForUpdate(c)
  PROVE  Calm(c)'
<1>1. pc[c] = "pick" /\ req' = req /\ req[c].op = "update" /\ pc[c] \in LoopLabels
  BY DEF PickForUpdate, LoopLabels
<1>2. pc \in [Conns -> Labels]
  BY <1>1, InLoopReady
<1>3. CASE Goto(c, "update")
  BY <1>1, <1>2, <1>3, NoInsertStored, NotSettled DEF Goto, Calm, Aware
<1>4. CASE NextEntry(c)
  <2>1. ~Entry(c).multi
    BY <1>1 DEF Ready, PicksOnes
  <2> QED
    BY <1>1, <1>4, <2>1, LastEntryCalm
<1> QED
  BY <1>3, <1>4 DEF PickForUpdate, Read

\* The UPDATE.
LEMMA UpdateDocumentsCalm ==
  ASSUME NEW c \in Conns, Ready(c), UpdateDocuments(c)
  PROVE  Calm(c)'
<1> DEFINE e == Entry(c)
<1>1. pc[c] = "update" /\ req' = req /\ pc[c] \in LoopLabels
  BY DEF UpdateDocuments, LoopLabels
<1>2. /\ pc \in [Conns -> Labels] /\ code \in [Conns -> Codes] /\ req[c].op = "update"
      /\ idx[c] \in DOMAIN req[c].batch
  BY <1>1, InLoopReady DEF OpsAt
<1>3. CASE UpdateStmt(Updated(c), e.set) /\ NextEntry(c)
  <2>1. docs \subseteq Document
    BY DEF Ready, TypeOK, StoreTypeOK
  <2>2. ASSUME e.multi, Literal(e.q), NEW d \in docs', d.ns = Ns(c),
               <<d.id, d.val>> \in e.q.match
        PROVE  d.val = e.set
    <3>1. Updated(c) = {x \in docs : x.ns = Ns(c) /\ <<x.id, x.val>> \in e.q.match
                                       /\ x.val # e.set}
      BY <2>2 DEF Updated, NeedsUpdate, Where, ManyMatch, Literal
    <3>2. CASE d \in docs \ Updated(c)
      BY <2>2, <3>1, <3>2
    <3>3. CASE \E x \in Updated(c) : d = [x EXCEPT !.val = e.set]
      BY <2>1, <3>1, <3>3 DEF Document
    <3> QED
      BY <1>3, <2>2, <3>2, <3>3 DEF UpdateStmt
  <2> QED
    BY <1>1, <1>2, <1>3, <2>2, LastEntryCalm
<1>4. CASE /\ ~(Exists(c) /\ (e.multi => UpdateParses(e) /\ ManyParses(e)))
           /\ UNCHANGED store /\ Answer(c, "InternalError") /\ idx' = idx
  <2>1. ~Exists(c) \/ ~Parses(c)
    <3>1. ASSUME e.multi, ~(UpdateParses(e) /\ ManyParses(e)) PROVE ~Parses(c)
      BY <1>2, <3>1 DEF Parses, Entry
    <3> QED
      BY <1>4, <3>1
  <2>2. pc'[c] = "reply" /\ code'[c] = "InternalError"
    BY <1>2, <1>4 DEF Answer
  <2> QED
    BY <1>1, <1>2, <1>4, <2>1, <2>2, RefusedCalm
<1>5. CASE Faults # {} /\ Answer(c, "InternalError")
  <2>1. pc'[c] = "reply" /\ code'[c] # "ok"
    BY <1>2, <1>5 DEF Answer
  <2> QED
    BY <1>1, <1>2, <1>5, <2>1, NoInsertStored, FaultyCalm
<1> QED
  BY <1>3, <1>4, <1>5 DEF UpdateDocuments, Execute, Ready

\* The SELECT of deleteOne.
LEMMA PickForDeleteCalm ==
  ASSUME NEW c \in Conns, Ready(c), PickForDelete(c)
  PROVE  Calm(c)'
<1>1. /\ pc[c] = "pick" /\ req' = req /\ req[c].op = "delete" /\ pc[c] \in LoopLabels
      /\ UNCHANGED store
  BY DEF PickForDelete, Read, LoopLabels
<1>2. pc \in [Conns -> Labels]
  BY <1>1, InLoopReady
<1>3. CASE Goto(c, "delete")
  BY <1>1, <1>2, <1>3, NoInsertStored, NotSettled DEF Goto, Calm, Aware
<1>4. CASE NextEntry(c) /\ ~(Exists(c) /\ Where(Ns(c), Entry(c).q.match) # {})
  <2>1. Where(Ns(c), Entry(c).q.match) = {}
    BY <1>4 DEF Where, Exists, Ready, StoreSound
  <2>2. \A d \in docs' : ~(d.ns = Ns(c) /\ <<d.id, d.val>> \in Entry(c).q.match)
    BY <1>1, <2>1 DEF Where, store
  <2> QED
    BY <1>1, <1>4, <2>2, LastEntryCalm
<1> QED
  BY <1>3, <1>4 DEF PickForDelete, Read, Ready

\* The DELETE.
LEMMA DeleteDocumentsCalm ==
  ASSUME NEW c \in Conns, Ready(c), DeleteDocuments(c)
  PROVE  Calm(c)'
<1> DEFINE e == Entry(c)
<1>1. pc[c] = "delete" /\ req' = req /\ pc[c] \in LoopLabels
  BY DEF DeleteDocuments, LoopLabels
<1>2. /\ pc \in [Conns -> Labels] /\ code \in [Conns -> Codes] /\ req[c].op = "delete"
      /\ idx[c] \in DOMAIN req[c].batch /\ n \in [Conns -> Nat]
  BY <1>1, InLoopReady DEF OpsAt
<1>3. CASE /\ DeleteStmt(Deleted(c)) /\ NextEntry(c)
           /\ n' = [n EXCEPT ![c] = @ + Cardinality(Deleted(c))]
  <2>1. ASSUME e.one PROVE n'[c] # 0
    <3>1. PICK d \in Where(Ns(c), e.q.match) : target[c] = {d.id}
      BY <1>1, <2>1 DEF Ready, Picked, ByTarget
    <3>2. d \in Deleted(c)
      BY <2>1, <3>1 DEF Deleted, Where
    <3>3. IsFiniteSet(Deleted(c)) /\ Cardinality(Deleted(c)) \in Nat
      BY DeletedType, CountType DEF Ready, TypeOK
    <3>4. Cardinality(Deleted(c)) # 0
      BY <3>2, <3>3, FS_EmptySet
    <3> QED
      BY <1>2, <1>3, <3>3, <3>4
  <2>2. ASSUME ~e.one, Literal(e.q)
        PROVE  \A d \in docs' : ~(d.ns = Ns(c) /\ <<d.id, d.val>> \in e.q.match)
    BY <1>3, <2>2 DEF DeleteStmt, Deleted, Where, ManyMatch, Literal
  <2> QED
    BY <1>1, <1>2, <1>3, <2>1, <2>2, LastEntryCalm
<1>4. CASE /\ ~(Exists(c) /\ (e.one \/ ManyParses(e)))
           /\ UNCHANGED store /\ Answer(c, "NamespaceNotFound") /\ idx' = idx
  <2>1. ~Exists(c) \/ ~Parses(c)
    <3>1. ASSUME ~(e.one \/ ManyParses(e)) PROVE ~Parses(c)
      BY <1>2, <3>1 DEF Parses, Entry
    <3> QED
      BY <1>4, <3>1
  <2>2. pc'[c] = "reply" /\ code'[c] = "NamespaceNotFound"
    BY <1>2, <1>4 DEF Answer
  <2> QED
    BY <1>1, <1>2, <1>4, <2>1, <2>2, RefusedCalm
<1>5. CASE Faults # {} /\ Answer(c, "NamespaceNotFound")
  <2>1. pc'[c] = "reply" /\ code'[c] # "ok"
    BY <1>2, <1>5 DEF Answer
  <2> QED
    BY <1>1, <1>2, <1>5, <2>1, NoInsertStored, FaultyCalm
<1> QED
  BY <1>3, <1>4, <1>5 DEF DeleteDocuments, Execute, Ready

\* The SELECT of find and count.
LEMMA QueryCalm ==
  ASSUME NEW c \in Conns, Ready(c), Query(c)
  PROVE  Calm(c)'
<1>1. pc[c] = "query" /\ Busy(c) /\ req' = req /\ UNCHANGED <<store, req, idx>>
  BY DEF Query, Read, Busy
<1>2. /\ pc \in [Conns -> Labels] /\ code \in [Conns -> Codes]
      /\ req[c].op \in {"find", "count"}
  BY <1>1, AtStatement DEF Ready, TypeOK, VariablesTyped, OpsAt
<1>3. pc'[c] = "reply" /\ (code'[c] = "ok" \/ (code'[c] = "InternalError" /\ ~Exists(c)))
  BY <1>2 DEF Query, Read, Goto, Answer, Ready
<1>4. CASE code'[c] = "ok"
  <2>1. Truthful(c)'
    BY <1>1, <1>2 DEF Truthful
  <2> QED
    BY <1>1, <1>2, <1>3, <1>4, <2>1, SettledOk, NoInsertStored DEF Calm, Aware
<1> QED
  BY <1>1, <1>2, <1>3, <1>4, RefusedCalm

-----------------------------------------------------------------------------
(* The lists. *)

\* listDatabases stays at one database at a time.
LEMMA NextDatabaseOne ==
  ASSUME TypeOK, NEW c \in Conns, NEW S, NextDatabase(c, S)
  PROVE  OneDatabase(c)'
<1>1. CASE S = {}
  BY <1>1 DEF NextDatabase, EmptyList, OneDatabase, TypeOK, VariablesTyped
<1>2. CASE S # {}
  <2>1. PICK db \in S :
          list' = [list EXCEPT ![c] = [dbs |-> S \ {db}, db |-> {db}, tables |-> {}]]
    BY <1>2 DEF NextDatabase
  <2>2. list'[c].db = {db}
    BY <2>1 DEF TypeOK, VariablesTyped
  <2> QED
    BY <2>2 DEF OneDatabase
<1> QED
  BY <1>1, <1>2

\* And so does every other step of its handler.
LEMMA HandleLists ==
  ASSUME TypeOK, NEW c \in Conns, OneDatabase(c), Handle(c)
  PROVE  OneDatabase(c)'
<1> USE DEF Read, locals
<1>1. CASE ListSchemas(c) \/ ListTables(c) \/ TableSize(c)
  <2>1. \/ \E S : NextDatabase(c, S)
        \/ list' = list
        \/ \E T : list' = [list EXCEPT ![c].tables = T]
    BY <1>1 DEF ListSchemas, ListTables, TableSize
  <2>2. CASE \E T : list' = [list EXCEPT ![c].tables = T]
    BY <2>2 DEF OneDatabase, TypeOK, VariablesTyped
  <2> QED
    BY <2>1, <2>2, NextDatabaseOne DEF OneDatabase
<1>2. CASE Reply(c)
  BY <1>2 DEF Reply, Forget, EmptyList, OneDatabase, TypeOK, VariablesTyped
<1>3. CASE MsgStorage(c) \/ IsIdUnique(c) \/ CountMatched(c) \/ Reject(c) \/ Query(c)
  BY <1>3 DEF MsgStorage, IsIdUnique, CountMatched, Reject, Query, OneDatabase
<1>4. CASE CreateSchema(c) \/ CreateCollection(c) \/ DropTable(c) \/ DropSchema(c)
  BY <1>4 DEF CreateSchema, CreateCollection, DropTable, DropSchema, OneDatabase
<1>5. CASE PickForUpdate(c) \/ PickForDelete(c)
  BY <1>5 DEF PickForUpdate, PickForDelete, OneDatabase
<1>6. CASE InsertDocument(c) \/ UpdateDocuments(c) \/ DeleteDocuments(c)
  BY <1>6 DEF InsertDocument, UpdateDocuments, DeleteDocuments, OneDatabase
<1> QED
  BY <1>1, <1>2, <1>3, <1>4, <1>5, <1>6 DEF Handle

\* A handler of listDatabases or listCollections that has not failed.
LEMMA ListCalm ==
  ASSUME NEW c \in Conns, req' = req,
         req[c].op \in {"listCollections", "listDatabases"},
         \/ pc'[c] \in {"schema", "tables"}
         \/ pc'[c] = "reply" /\ code'[c] = "ok"
         \/ /\ pc'[c] = "size"
            /\ Faults = {} => \A db \in list'[c].db, coll \in list'[c].tables :
                                <<db, coll>> \in collections'
  PROVE  Calm(c)'
<1>1. Truthful(c)'
  BY DEF Truthful
<1>2. Settled(c)'
  BY <1>1, SettledOk, NotSettled
<1> QED
  BY <1>2, NoInsertStored DEF Calm, Aware

\* Going on to another database, or to the end.
LEMMA NextDatabaseCalm ==
  ASSUME TypeOK, NEW c \in Conns, req' = req, req[c].op = "listDatabases",
         NEW S, NextDatabase(c, S)
  PROVE  Calm(c)'
<1>1. /\ pc \in [Conns -> Labels] /\ code \in [Conns -> Codes]
  BY DEF TypeOK, VariablesTyped
<1>2. \/ pc'[c] = "schema"
      \/ pc'[c] = "reply" /\ code'[c] = "ok"
  <2>1. Goto(c, "schema") \/ Goto(c, "reply")
    BY DEF NextDatabase
  <2> QED
    BY <1>1, <2>1 DEF Goto
<1> QED
  BY <1>2, ListCalm

\* The list of schemas.
LEMMA ListSchemasCalm ==
  ASSUME NEW c \in Conns, Ready(c), ListSchemas(c)
  PROVE  Calm(c)'
<1>1. pc[c] = "schemas" /\ Busy(c) /\ req' = req
  BY DEF ListSchemas, Busy
<1>2. req[c].op = "listDatabases"
  BY <1>1, AtStatement DEF Ready, OpsAt
<1>3. NextDatabase(c, schemas)
  BY DEF ListSchemas, Read, Ready
<1> QED
  BY <1>1, <1>2, <1>3, NextDatabaseCalm DEF Ready

\* The list of tables: they are all of the one database asked for.
LEMMA ListTablesCalm ==
  ASSUME NEW c \in Conns, Ready(c), ListTables(c)
  PROVE  Calm(c)'
<1> DEFINE found == {coll \in CollNames : \E db \in DbOf(c) : <<db, coll>> \in collections}
<1>1. pc[c] = "tables" /\ Busy(c) /\ req' = req /\ UNCHANGED store /\ OneDatabase(c)
  BY DEF ListTables, Busy, Read, Ready
<1>2. /\ pc \in [Conns -> Labels] /\ code \in [Conns -> Codes]
      /\ list \in [Conns -> [dbs : SUBSET Databases, db : SUBSET Databases,
                             tables : SUBSET CollNames]]
      /\ req[c].op \in {"listCollections", "listDatabases"}
  BY <1>1, AtStatement DEF Ready, TypeOK, VariablesTyped, OpsAt
<1>3. CASE req[c].op = "listCollections" /\ Goto(c, "reply") /\ list' = list
  BY <1>1, <1>2, <1>3, ListCalm DEF Goto
<1>4. CASE req[c].op = "listDatabases" /\ NextDatabase(c, list[c].dbs)
  BY <1>1, <1>4, NextDatabaseCalm DEF Ready
<1>5. CASE /\ req[c].op = "listDatabases" /\ Goto(c, "size")
           /\ list' = [list EXCEPT ![c].tables = found]
  <2>1. DbOf(c) = list[c].db
    BY <1>5 DEF DbOf
  <2>2. pc'[c] = "size" /\ list'[c].db = list[c].db /\ list'[c].tables = found
    BY <1>2, <1>5 DEF Goto
  <2>3. \A db \in list'[c].db, coll \in list'[c].tables : <<db, coll>> \in collections'
    <3> SUFFICES ASSUME NEW db \in list[c].db, NEW coll \in found
                 PROVE  <<db, coll>> \in collections
      BY <1>1, <2>2 DEF store
    <3>1. PICK d \in list[c].db : <<d, coll>> \in collections
      BY <2>1
    <3> QED
      BY <1>1, <3>1 DEF OneDatabase
  <2> QED
    BY <1>1, <1>2, <2>2, <2>3, ListCalm
<1>6. \/ req[c].op = "listCollections" /\ Goto(c, "reply") /\ list' = list
      \/ req[c].op = "listDatabases" /\ NextDatabase(c, list[c].dbs)
      \/ /\ req[c].op = "listDatabases" /\ Goto(c, "size")
         /\ list' = [list EXCEPT ![c].tables = found]
  BY <1>2 DEF ListTables, Read, Ready
<1> QED
  BY <1>3, <1>4, <1>5, <1>6

\* The size of a table: it is still there.
LEMMA TableSizeCalm ==
  ASSUME NEW c \in Conns, Ready(c), TableSize(c)
  PROVE  Calm(c)'
<1>1. /\ pc[c] = "size" /\ Busy(c) /\ req' = req /\ UNCHANGED store
      /\ OneDatabase(c)
      /\ Faults = {} => \A db \in list[c].db, coll \in list[c].tables :
                          <<db, coll>> \in collections
  BY DEF TableSize, Busy, Read, Ready, Calm, Aware
<1>2. /\ pc \in [Conns -> Labels]
      /\ list \in [Conns -> [dbs : SUBSET Databases, db : SUBSET Databases,
                             tables : SUBSET CollNames]]
      /\ req[c].op = "listDatabases"
  BY <1>1, AtStatement DEF Ready, TypeOK, VariablesTyped, OpsAt
<1>3. CASE NextDatabase(c, list[c].dbs)
  BY <1>1, <1>2, <1>3, NextDatabaseCalm DEF Ready
<1>4. ASSUME NEW coll \in list[c].tables, Goto(c, "size"),
             list' = [list EXCEPT ![c].tables = @ \ {coll}]
      PROVE  Calm(c)'
  <2>1. /\ pc'[c] = "size" /\ list'[c].db = list[c].db
        /\ list'[c].tables = list[c].tables \ {coll}
    BY <1>2, <1>4 DEF Goto
  <2> QED
    BY <1>1, <1>2, <2>1, ListCalm DEF store
<1>5. CASE Faults # {} /\ Answer(c, "InternalError")
  <2>1. pc'[c] = "reply" /\ code'[c] # "ok"
    BY <1>2, <1>5 DEF TypeOK, VariablesTyped, Ready, Answer
  <2> QED
    BY <1>1, <1>2, <1>5, <2>1, NoInsertStored, FaultyCalm
<1>6. \/ NextDatabase(c, list[c].dbs)
      \/ Faults # {} /\ Answer(c, "InternalError")
      \/ \E coll \in list[c].tables :
           Goto(c, "size") /\ list' = [list EXCEPT ![c].tables = @ \ {coll}]
  BY <1>1 DEF TableSize, Read, Ready
<1> QED
  BY <1>3, <1>4, <1>5, <1>6

-----------------------------------------------------------------------------
(* The invariant. *)

\* Every step of a handler that has been left alone, but its reply.
LEMMA HandleCalm ==
  ASSUME NEW c \in Conns, Ready(c), Handle(c), ~Reply(c)
  PROVE  Calm(c)'
BY MsgStorageCalm, CreateSchemaCalm, CreateCollectionCalm, DropTableCalm,
   DropSchemaCalm, IsIdUniqueCalm, InsertDocumentCalm, CountMatchedCalm,
   PickForUpdateCalm, UpdateDocumentsCalm, PickForDeleteCalm, DeleteDocumentsCalm,
   RejectCalm, QueryCalm, ListSchemasCalm, ListTablesCalm, TableSizeCalm
   DEF Handle

\* When a request arrives, and when a connection is opened again, nothing has
\* been learned yet.
LEMMA ReceiveCalm ==
  ASSUME TypeOK, NEW c \in Conns, Receive(c)
  PROVE  Calm(c)' /\ OneDatabase(c)'
<1>1. PICK r \in Requests[c] :
        /\ req' = [req EXCEPT ![c] = r]
        /\ pc' = [pc EXCEPT ![c] = FirstPc(r)]
        /\ code' = [code EXCEPT ![c] = IF r.op = "local" THEN r.code ELSE @]
  BY DEF Receive
<1>2. r \in Request
  BY RequestsAssumption
<1>3. /\ pc'[c] = FirstPc(r) /\ req'[c] = r /\ idx'[c] = 1
      /\ list' = list /\ list[c] = EmptyList
  BY <1>1 DEF Receive, TypeOK, VariablesTyped, ControlOK, Busy, Fresh
<1>4. /\ FirstPc(r) = "schema" => r.op # "insert"
      /\ FirstPc(r) \notin {"collection", "unique", "insert", "size"}
      /\ FirstPc(r) = "reply" => r.op = "local"
  BY <1>2 DEF FirstPc, Request, InsertRequest, UpdateRequest, DeleteRequest,
     ReadRequest, CollectionRequest, DatabaseRequest, ListRequest, LocalRequest
<1>5. Settled(c)'
  BY <1>3, <1>4 DEF Settled, Explained, Truthful
<1>6. Aware(c)' /\ Stored(c)'
  BY <1>2, <1>3, <1>4, FirstStored DEF Aware
<1> QED
  BY <1>3, <1>5, <1>6 DEF Calm, OneDatabase, EmptyList

\* A step of another handler leaves a request alone, or disturbs it.
LEMMA AloneCalm ==
  ASSUME CalmInv, HNext, NEW c \in Conns, Alone(c), NEW d \in Conns \ {c}
  PROVE  OneDatabase(d)' /\ (Left(d)' => Calm(d)')
<1>1. OneDatabase(d)'
  BY DEF CalmInv, OneDatabase, Alone
<1>2. ASSUME Left(d)' PROVE Calm(d)'
  <2>1. Left(d) /\ UNCHANGED store
    BY <1>2, StaysLeft
  <2>2. Calm(d)
    BY <2>1 DEF CalmInv
  <2>3. /\ pc'[d] = pc[d] /\ code'[d] = code[d] /\ req'[d] = req[d]
        /\ idx'[d] = idx[d] /\ n'[d] = n[d] /\ list'[d] = list[d]
        /\ schemas' = schemas /\ collections' = collections /\ docs' = docs
    BY <2>1 DEF Alone, store
  <2>4. Aware(d)' /\ Stored(d)'
    BY <2>2, <2>3 DEF Calm, Aware, Stored, Exists, Ns, WithId
  <2>5. Truthful(d)' = Truthful(d)
    BY <2>3 DEF Truthful, Exists, Ns, Where, WithId, NeedsUpdate
  <2>6. Explained(d, code[d])' = Explained(d, code[d])
    BY <2>3 DEF Explained, Exists, Ns, Entry, WithId, Parses, Translated, Rejected,
       FilterOf
  <2>7. Settled(d)'
    BY <2>2, <2>3, <2>5, <2>6 DEF Calm, Settled
  <2> QED
    BY <2>4, <2>7 DEF Calm
<1> QED
  BY <1>1, <1>2

\* With no statement that fails without an effect the invariant is inductive.
LEMMA NextCalm ==
  ASSUME "failed" \notin Faults, CalmInv, [HNext]_hvars
  PROVE  CalmInv'
<1>1. /\ TypeOK /\ TypeOK' /\ PickInv /\ PickInv' /\ StoreSound
      /\ \A c \in Conns : OneDatabase(c)
  BY NextPicks DEF CalmInv, PickInv
<1>2. CASE HNext /\ \E c \in Conns : Receive(c) \/ Handle(c) \/ Reconnect(c)
  <2>1. PICK c \in Conns : Receive(c) \/ Handle(c) \/ Reconnect(c)
    BY <1>2
  <2>2. StoreSound'
    <3>1. CASE Handle(c)
      BY <1>1, <3>1, HandleSound
    <3>2. CASE Receive(c) \/ Reconnect(c)
      BY <1>1, <3>2, StillSound DEF Receive, Reconnect, store
    <3> QED
      BY <2>1, <3>1, <3>2
  <2>3. OneDatabase(c)' /\ (Left(c)' => Calm(c)')
    <3>1. CASE Handle(c) /\ ~Reply(c)
      <4>1. Busy(c)
        BY <3>1 DEF Handle, MsgStorage, CreateSchema, CreateCollection, DropTable,
           DropSchema, IsIdUnique, InsertDocument, CountMatched, PickForUpdate,
           UpdateDocuments, PickForDelete, DeleteDocuments, Reject, Query,
           ListSchemas, ListTables, TableSize, Busy
      <4>2. ASSUME Left(c)' PROVE Ready(c)
        BY <1>1, <1>2, <4>1, <4>2, WasLeft DEF CalmInv, PickInv, Ready
      <4> QED
        BY <1>1, <3>1, <4>2, HandleCalm, HandleLists
    <3>2. CASE Reply(c)
      <4>1. ~Left(c)'
        BY <1>1, <3>2 DEF Reply, Left, Busy, TypeOK, VariablesTyped
      <4> QED
        BY <1>1, <3>2, <4>1, HandleLists DEF Handle
    <3>3. CASE Receive(c)
      BY <1>1, <3>3, ReceiveCalm
    <3>4. CASE Reconnect(c)
      <4>1. ~Left(c)' /\ list' = list
        BY <1>1, <3>4 DEF Reconnect, Left, Busy, TypeOK, VariablesTyped, locals
      <4> QED
        BY <1>1, <4>1 DEF OneDatabase
    <3> QED
      BY <2>1, <3>1, <3>2, <3>3, <3>4
  <2>4. Alone(c)
    BY <1>1, <2>1, StepAlone
  <2> QED
    BY <1>1, <1>2, <2>2, <2>3, <2>4, AloneCalm DEF CalmInv
<1>3. CASE HNext /\ Crash
  <2>1. \A c \in Conns : ~Left(c)' /\ list'[c] = EmptyList
    BY <1>3 DEF Crash, Left, Busy
  <2>2. StoreSound'
    BY <1>1, <1>3, StillSound DEF Crash, store
  <2>3. \A c \in Conns : OneDatabase(c)'
    BY <2>1 DEF OneDatabase, EmptyList
  <2> QED
    BY <1>1, <2>1, <2>2, <2>3 DEF CalmInv
<1>4. CASE UNCHANGED hvars
  <2>1. UNCHANGED <<pc, code, req, idx, n, list, schemas, collections, docs, disturbed>>
    BY <1>4 DEF hvars, vars, store, locals, counters
  <2>2. ASSUME NEW c \in Conns PROVE OneDatabase(c)' /\ (Left(c)' => Calm(c)')
    <3>1. OneDatabase(c)' /\ Left(c)' = Left(c) /\ (Left(c) => Calm(c))
      BY <1>1, <2>1 DEF CalmInv, OneDatabase, Left, Busy
    <3>2. Aware(c)' = Aware(c) /\ Stored(c)' = Stored(c)
      BY <2>1 DEF Aware, Stored, Exists, Ns, WithId
    <3>3. Truthful(c)' = Truthful(c)
      BY <2>1 DEF Truthful, Exists, Ns, Where, WithId, NeedsUpdate
    <3>4. Explained(c, code[c])' = Explained(c, code[c])
      BY <2>1 DEF Explained, Exists, Ns, Entry, WithId, Parses, Translated, Rejected,
         FilterOf
    <3> QED
      BY <2>1, <3>1, <3>2, <3>3, <3>4 DEF Calm, Settled
  <2> QED
    BY <1>1, <2>1, <2>2 DEF CalmInv, StoreSound
<1> QED
  BY <1>2, <1>3, <1>4 DEF HNext, Next

\* It holds in every reachable state.
LEMMA AlwaysCalm == "failed" \notin Faults /\ HSpec => []CalmInv
<1> SUFFICES ASSUME "failed" \notin Faults PROVE HSpec => []CalmInv
  OBVIOUS
<1>1. HInit => CalmInv
  <2> SUFFICES ASSUME HInit PROVE CalmInv
    OBVIOUS
  <2>1. TypeOK /\ docs = {} /\ \A c \in Conns : ~Busy(c) /\ list[c] = EmptyList
    BY InitType DEF HInit, Init, StoreInit, Busy
  <2>2. \A c \in Conns : PicksOnes(c) /\ ~Left(c) /\ OneDatabase(c)
    BY <2>1 DEF PicksOnes, Left, Busy, OneDatabase, EmptyList
  <2>3. StoreSound
    BY InitSound DEF HInit, Init
  <2> QED
    BY <2>1, <2>2, <2>3 DEF CalmInv, PickInv
<1>2. CalmInv /\ [HNext]_hvars => CalmInv'
  BY NextCalm
<1> QED
  BY <1>1, <1>2, PTL DEF HSpec

\* When no statement fails and no other connection changes the store under a
\* request, an error in its answer has a reason that the store still shows.
THEOREM ErrorsHaveReasons == Faults = {} /\ HSpec => []ErrorsExplained
<1> SUFFICES ASSUME Faults = {} PROVE HSpec => []ErrorsExplained
  OBVIOUS
<1>0. HSpec => []CalmInv
  BY AlwaysCalm
<1>1. CalmInv => ErrorsExplained
  BY DEF CalmInv, Left, Busy, Calm, Settled, Undisturbed, ErrorsExplained
<1> QED
  BY <1>0, <1>1, PTL

\* Under a request that no other connection disturbs "ok" is true: what was
\* inserted is stored, what was to be deleted or updated is, what was created
\* exists and what was dropped is gone.  Acknowledgements may get lost and the
\* process may crash, but no statement may fail without an effect: deleteOne
\* takes a SELECT that fails for one that finds nothing.
THEOREM OkIsTrue == "failed" \notin Faults /\ HSpec => []SuccessIsReal
<1> SUFFICES ASSUME "failed" \notin Faults PROVE HSpec => []SuccessIsReal
  OBVIOUS
<1>1. CalmInv => SuccessIsReal
  BY DEF CalmInv, Left, Busy, Calm, Settled, Undisturbed, SuccessIsReal
<1> QED
  BY <1>1, AlwaysCalm, PTL
=============================================================================
