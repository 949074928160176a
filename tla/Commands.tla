------------------------------ MODULE Commands ------------------------------
(***************************************************************************)
(* The command handlers of the compatibility layer (internal/handlers and  *)
(* internal/handlers/crud) over the shared document store.                 *)
(*                                                                         *)
(* Every client connection runs its handler in a goroutine of its own and  *)
(* handles one request at a time; a handler is a sequence of SQL           *)
(* statements with no transaction around them.  One action below is one    *)
(* statement with the code up to the next one, so the statements of        *)
(* different connections interleave in every order.                        *)
(***************************************************************************)
EXTENDS DocumentStore

CONSTANTS Conns,      \* client connections
          Requests,   \* Requests[c]: what the client of connection c may send
          GuiColls,   \* collections answered without a table (system.js, ...)
          Faults      \* what may go wrong, a subset of FaultKinds

FaultKinds == {"failed",  \* a statement is refused and has no effect
               "lost",    \* a statement takes effect but an error comes back
               "crash"}   \* the process ends

\* A filter is the sets of <<_id, val>> pairs that its WHERE clause accepts, as
\* translated (match) and after fmt.Sprintf has taken it for a format (printed):
\* a % becomes %!x(MISSING), and %% one %.  A pattern of LIKE, which most of a
\* $regex have a % in, or a string is then another one, and behind a $not it is
\* more documents that it accepts.  What else matters of the text: "empty" is {}
\* (no WHERE clause at all); "percent" has its % right before a closing quote, so
\* that as printed there is text behind the literal, which HANA cannot parse;
\* "rejected" is a filter (or an update) that is not translated to SQL.
Texts == {"empty", "plain", "percent", "rejected"}
Filter == [text : Texts, match : SUBSET (Ids \X Vals), printed : SUBSET (Ids \X Vals)]

InsertEntry == [id : Ids, val : Vals]
UpdateEntry == [q : Filter, set : Vals, multi : BOOLEAN]
DeleteEntry == [q : Filter, one : BOOLEAN]

\* Reply codes: "ok", the codes of internal/handlers/common/error.go that the
\* handlers below produce (NotImplemented for every code with which a filter or
\* an update is rejected), and InternalError for every error without a code.
Codes == {"ok", "CommandNotFound", "NotImplemented", "NamespaceNotFound",
          "NamespaceExists", "InternalError"}

InsertRequest     == [op : {"insert"}, ns : Namespaces, batch : Seq(InsertEntry)]
UpdateRequest     == [op : {"update"}, ns : Namespaces, batch : Seq(UpdateEntry)]
DeleteRequest     == [op : {"delete"}, ns : Namespaces, batch : Seq(DeleteEntry)]
ReadRequest       == [op : {"find", "count"}, ns : Namespaces, q : Filter]
CollectionRequest == [op : {"create", "drop"}, ns : Namespaces]
DatabaseRequest   == [op : {"dropDatabase", "listCollections"}, db : Databases]
ListRequest       == [op : {"listDatabases"}]
LocalRequest      == [op : {"local"}, code : Codes]  \* no statement is sent

Request == InsertRequest \cup UpdateRequest \cup DeleteRequest
           \cup ReadRequest \cup CollectionRequest \cup DatabaseRequest
           \cup ListRequest \cup LocalRequest

NoRequest == [op |-> "none"]

ASSUME RequestsAssumption == Requests \in [Conns -> SUBSET Request]
ASSUME FaultsAssumption == Faults \subseteq FaultKinds

\* {} accepts every document, and there is nothing in it to print.
ASSUME EmptyFilterAssumption ==
  \A c \in Conns : \A r \in Requests[c] :
    r.op \in {"update", "delete"} =>
      \A i \in DOMAIN r.batch :
        LET q == r.batch[i].q
        IN q.text = "empty" => q.match = Ids \X Vals /\ q.printed = Ids \X Vals

VARIABLES pc,       \* pc[c]: the statement connection c executes next
          code,     \* code[c]: the code of the reply, once there is one
          req,      \* req[c]: the request being handled
          idx,      \* idx[c]: the entry of the batch being handled (i + 1)
          matched,  \* matched[c]: MsgUpdate's `matched'
          target,   \* target[c]: the _id picked by updateOne and deleteOne
          n,        \* n[c]: `inserted', `deleted', `selected' or the count
          mod,      \* mod[c]: MsgUpdate's `updated'
          done,     \* done[c]: documents this request has really changed
          list      \* list[c]: where listDatabases is

counters == <<n, mod, done>>
locals == <<req, idx, matched, target, counters, list>>
vars == <<store, pc, code, locals>>

-----------------------------------------------------------------------------
(* Control helpers. *)

Ns(c) == req[c].ns
Entry(c) == req[c].batch[idx[c]]

\* The database a handler creates a schema for or lists: the request's, or the
\* one listDatabases has reached.  A set, empty or with one member.
DbOf(c) == CASE req[c].op = "listDatabases"   -> list[c].db
             [] req[c].op = "listCollections" -> {req[c].db}
             [] OTHER                         -> {req[c].ns[1]}

EmptyList == [dbs |-> {}, db |-> {}, tables |-> {}]

\* Mistakes: one entry too many, one too few, an _id check for the first only.
EntryPcBeyondEnd(r, i) ==
  IF i > Len(r.batch) + 1 THEN "reply"
  ELSE CASE r.op = "insert" -> "unique"
         [] r.op = "update" -> "count"
         [] r.op = "delete" -> "pick"
EntryPcWithoutLast(r, i) ==
  IF i >= Len(r.batch) THEN "reply"
  ELSE CASE r.op = "insert" -> "unique"
         [] r.op = "update" -> "count"
         [] r.op = "delete" -> IF r.batch[i].one THEN "pick" ELSE "delete"
EntryPcChecksFirst(r, i) ==
  IF i > Len(r.batch) THEN "reply"
  ELSE CASE r.op = "insert" -> IF i = 1 THEN "unique" ELSE "insert"
         [] r.op = "update" -> "count"
         [] r.op = "delete" -> IF r.batch[i].one THEN "pick" ELSE "delete"

\* The first statement for entry i of a batch, or the reply after the last.
EntryPc(r, i) ==
  IF i > Len(r.batch) THEN "reply"
  ELSE CASE r.op = "insert" -> "unique"
         [] r.op = "update" -> "count"
         [] r.op = "delete" -> IF r.batch[i].one THEN "pick" ELSE "delete"

\* Where a data command goes once msgStorage has let it through.
DataPc(r) == IF r.op \in {"find", "count"} THEN "query" ELSE EntryPc(r, 1)

\* handleOpMsg's dispatch.
FirstPc(r) ==
  CASE r.op \in {"insert", "update", "delete", "find", "count"} -> "storage"
    [] r.op \in {"create", "listCollections"}                   -> "schema"
    [] r.op = "drop"                                            -> "drop"
    [] r.op = "dropDatabase"                                    -> "dropdb"
    [] r.op = "listDatabases"                                   -> "schemas"
    [] r.op = "local"                                           -> "reply"

\* The handler goes on to l; reaching "reply" this way is its normal end.
Goto(c, l) ==
  /\ pc' = [pc EXCEPT ![c] = l]
  /\ code' = [code EXCEPT ![c] = IF l = "reply" THEN "ok" ELSE @]

\* The handler returns with code k.
Answer(c, k) ==
  /\ pc' = [pc EXCEPT ![c] = "reply"]
  /\ code' = [code EXCEPT ![c] = k]

\* The loop over the batch goes on to its next entry.
NextEntry(c) ==
  /\ idx' = [idx EXCEPT ![c] = @ + 1]
  /\ Goto(c, EntryPc(req[c], idx[c] + 1))

\* One SQL statement that changes the store: executed and acknowledged,
\* executed but reported as an error, or refused.
Execute(possible, effect, acknowledged, reported) ==
  \/ possible /\ effect /\ acknowledged
  \/ possible /\ "lost" \in Faults /\ effect /\ reported
  \/ (~possible \/ "failed" \in Faults) /\ UNCHANGED store /\ reported

\* A statement that only reads: answered, or refused.
Read(possible, answered, refused) ==
  /\ UNCHANGED store
  /\ \/ possible /\ answered
     \/ (~possible \/ "failed" \in Faults) /\ refused

\* The collection a statement names has to exist.
Exists(c) == Ns(c) \in collections

\* The filter a handler translates to SQL before its next statement.
FilterOf(c) == IF req[c].op \in {"find", "count"} THEN req[c].q ELSE Entry(c).q
Rejected(c) == FilterOf(c).text = "rejected"

\* Mistake: no notWhereSQL.
NeedsNoUpdate(e, S) == S

\* Documents an updateOne or updateMany would change: notWhereSQL.
NeedsUpdate(e, S) == {d \in S : d.val # e.set}

\* notWhereSQL starts with AND, so it needs the WHERE of a filter.
UpdateParses(e) == e.q.text # "empty"

\* updateMany and deleteMany pass their WHERE clause to fmt.Sprintf as a format:
\* what HANA is sent is the clause as printed.
ManyParses(e) == e.q.text # "percent"
ManyMatch(e) == e.q.printed

-----------------------------------------------------------------------------
(* A request arrives, a reply leaves. *)

\* The client of an idle connection sends a request; Handle dispatches it.
Receive(c) ==
  /\ pc[c] = "idle"
  /\ \E r \in Requests[c] :
       /\ req' = [req EXCEPT ![c] = r]
       /\ pc' = [pc EXCEPT ![c] = FirstPc(r)]
       /\ code' = [code EXCEPT ![c] = IF r.op = "local" THEN r.code ELSE @]
  /\ UNCHANGED <<store, idx, matched, target, counters, list>>

Forget(c) ==
  /\ code' = [code EXCEPT ![c] = "ok"]
  /\ req' = [req EXCEPT ![c] = NoRequest]
  /\ idx' = [idx EXCEPT ![c] = 1]
  /\ matched' = [matched EXCEPT ![c] = 0]
  /\ target' = [target EXCEPT ![c] = {}]
  /\ n' = [n EXCEPT ![c] = 0]
  /\ mod' = [mod EXCEPT ![c] = 0]
  /\ done' = [done EXCEPT ![c] = 0]
  /\ list' = [list EXCEPT ![c] = EmptyList]

\* The reply is written; an InternalError also ends the connection.
Reply(c) ==
  /\ pc[c] = "reply"
  /\ pc' = [pc EXCEPT ![c] = IF code[c] = "InternalError" THEN "closed" ELSE "idle"]
  /\ Forget(c)
  /\ UNCHANGED store

\* The client connects again.
Reconnect(c) ==
  /\ pc[c] = "closed"
  /\ pc' = [pc EXCEPT ![c] = "idle"]
  /\ UNCHANGED <<store, code, locals>>

\* The process ends between two statements: every handler is gone, HANA stays.
Crash ==
  /\ "crash" \in Faults
  /\ pc' = [c \in Conns |-> "closed"]
  /\ code' = [c \in Conns |-> "ok"]
  /\ req' = [c \in Conns |-> NoRequest]
  /\ idx' = [c \in Conns |-> 1]
  /\ matched' = [c \in Conns |-> 0]
  /\ target' = [c \in Conns |-> {}]
  /\ n' = [c \in Conns |-> 0]
  /\ mod' = [c \in Conns |-> 0]
  /\ done' = [c \in Conns |-> 0]
  /\ list' = [c \in Conns |-> EmptyList]
  /\ UNCHANGED store

-----------------------------------------------------------------------------
(* msgStorage, and the statements that create and drop. *)

\* msgStorage: the feature query, then the query for the collection's table.
MsgStorage(c) ==
  /\ pc[c] = "storage"
  /\ Read(\/ Exists(c)
          \/ req[c].op \in {"find", "count", "delete"} /\ Ns(c)[2] \in GuiColls
          \/ req[c].op = "insert",
          IF Exists(c) \/ req[c].op # "insert"
            THEN IF req[c].op = "find" /\ Ns(c)[2] \in GuiColls /\ ~Rejected(c)
                   THEN Goto(c, "reply")       \* a canned answer, no query
                   ELSE Goto(c, DataPc(req[c]))
            ELSE Goto(c, "schema"),
          Answer(c, "InternalError"))
  /\ UNCHANGED locals

\* Mistake: the error of CREATE SCHEMA is answered.
CreateSchemaStrict(c) ==
  /\ pc[c] = "schema"
  /\ \E db \in DbOf(c) :
       Execute(CanCreateSchema(db), CreateSchemaStmt(db),
               Goto(c, IF req[c].op \in {"insert", "create"}
                         THEN "collection" ELSE "tables"),
               Answer(c, "InternalError"))
  /\ UNCHANGED locals

\* CreateSchema reports every error as ErrAlreadyExist, which no caller minds.
CreateSchema(c) ==
  /\ pc[c] = "schema"
  /\ LET next == Goto(c, IF req[c].op \in {"insert", "create"}
                           THEN "collection" ELSE "tables")
     IN \E db \in DbOf(c) :
          Execute(CanCreateSchema(db), CreateSchemaStmt(db), next, next)
  /\ UNCHANGED locals

\* CreateCollection reports every error as ErrAlreadyExist: MsgCreate answers
\* NamespaceExists, msgStorage an error without a code.
CreateCollection(c) ==
  /\ pc[c] = "collection"
  /\ Execute(CanCreateCollection(Ns(c)), CreateCollectionStmt(Ns(c)),
             Goto(c, IF req[c].op = "insert" THEN EntryPc(req[c], 1) ELSE "reply"),
             Answer(c, IF req[c].op = "insert" THEN "InternalError"
                                               ELSE "NamespaceExists"))
  /\ UNCHANGED locals

\* MsgDrop: DropTable reports every error as ErrNotExist.
DropTable(c) ==
  /\ pc[c] = "drop"
  /\ Execute(Exists(c), DropCollectionStmt(Ns(c)),
             Goto(c, "reply"), Answer(c, "NamespaceNotFound"))
  /\ UNCHANGED locals

\* MsgDropDatabase: DropSchema hands HANA's error on.
DropSchema(c) ==
  /\ pc[c] = "dropdb"
  /\ Execute(req[c].db \in schemas, DropSchemaStmt(req[c].db),
             Goto(c, "reply"), Answer(c, "InternalError"))
  /\ UNCHANGED locals

-----------------------------------------------------------------------------
(* MsgInsert: for each document, SELECT its _id, then INSERT it. *)

\* Mistakes: the _id is not looked for; the SELECT is repeated until it is free.
IsIdUniqueUnchecked(c) ==
  /\ pc[c] = "unique"
  /\ Read(Exists(c), Goto(c, "insert"), Answer(c, "InternalError"))
  /\ UNCHANGED locals
IsIdUniqueRetried(c) ==
  /\ pc[c] = "unique"
  /\ Read(Exists(c) /\ WithId(Ns(c), Entry(c).id) = {},
          Goto(c, "insert"), Goto(c, "unique"))
  /\ UNCHANGED locals

IsIdUnique(c) ==
  /\ pc[c] = "unique"
  /\ Read(Exists(c) /\ WithId(Ns(c), Entry(c).id) = {},
          Goto(c, "insert"), Answer(c, "InternalError"))
  /\ UNCHANGED locals

\* Mistake: a document that could not be stored is skipped.
InsertDocumentSkipping(c) ==
  /\ pc[c] = "insert"
  /\ Execute(Exists(c), InsertStmt(Ns(c), Entry(c).id, Entry(c).val),
             /\ NextEntry(c)
             /\ n' = [n EXCEPT ![c] = @ + 1],
             NextEntry(c) /\ UNCHANGED n)
  /\ done' = [done EXCEPT ![c] = @ + Cardinality(docs' \ docs)]
  /\ UNCHANGED <<req, matched, target, mod, list>>

InsertDocument(c) ==
  /\ pc[c] = "insert"
  /\ Execute(Exists(c), InsertStmt(Ns(c), Entry(c).id, Entry(c).val),
             /\ NextEntry(c)
             /\ n' = [n EXCEPT ![c] = @ + 1],
             /\ Answer(c, "InternalError")
             /\ UNCHANGED <<idx, n>>)
  /\ done' = [done EXCEPT ![c] = @ + Cardinality(docs' \ docs)]
  /\ UNCHANGED <<req, matched, target, mod, list>>

-----------------------------------------------------------------------------
(* MsgUpdate: for each entry, count the matches, for updateOne pick the _id *)
(* of one of them that needs the update, then UPDATE.                       *)

CountMatched(c) ==
  /\ pc[c] = "count" /\ ~Rejected(c)
  /\ Read(Exists(c),
          /\ matched' = [matched EXCEPT
               ![c] = Cardinality(Where(Ns(c), Entry(c).q.match))]
          /\ Goto(c, IF Entry(c).multi THEN "update" ELSE "pick"),
          Answer(c, "InternalError") /\ UNCHANGED matched)
  /\ UNCHANGED <<req, idx, target, counters, list>>

\* Mistake: updateOne goes on without a row, with the _id it picked before.
PickForUpdateStale(c) ==
  /\ pc[c] = "pick" /\ req[c].op = "update"
  /\ LET S == NeedsUpdate(Entry(c), Where(Ns(c), Entry(c).q.match))
     IN Read(Exists(c) /\ UpdateParses(Entry(c)) /\ S # {},
             (\E d \in S : target' = [target EXCEPT ![c] = {d.id}]) /\ Goto(c, "update"),
             UNCHANGED target /\ Goto(c, "update"))
  /\ UNCHANGED <<req, idx, matched, counters, list>>

\* No row, and every error of the SELECT too: the entry counts as matched.
PickForUpdate(c) ==
  /\ pc[c] = "pick" /\ req[c].op = "update"
  /\ LET S == NeedsUpdate(Entry(c), Where(Ns(c), Entry(c).q.match))
     IN Read(Exists(c) /\ UpdateParses(Entry(c)) /\ S # {},
             /\ \E d \in S : target' = [target EXCEPT ![c] = {d.id}]
             /\ Goto(c, "update")
             /\ UNCHANGED <<idx, n>>,
             /\ NextEntry(c)
             /\ n' = [n EXCEPT ![c] = @ + matched[c]]
             /\ UNCHANGED target)
  /\ UNCHANGED <<req, matched, mod, done, list>>

\* Mistake: updateMany without its WHERE clause.
UpdatedWithoutWhere(c) ==
  IF Entry(c).multi
    THEN NeedsUpdate(Entry(c), {d \in docs : d.ns = Ns(c)})
    ELSE {d \in docs : d.ns = Ns(c) /\ d.id \in target[c]}

\* The documents the UPDATE statement changes.
Updated(c) ==
  IF Entry(c).multi
    THEN NeedsUpdate(Entry(c), Where(Ns(c), ManyMatch(Entry(c))))
    ELSE {d \in docs : d.ns = Ns(c) /\ d.id \in target[c]}

\* Mistakes: updateMany reports what it matched; updateOne reports nothing.
ModifiedAsMatched(c) == IF Entry(c).multi THEN matched[c] ELSE 1
ModifiedByManyOnly(c) == IF Entry(c).multi THEN Cardinality(Updated(c)) ELSE 0

\* What an entry adds to "nModified": the rows the UPDATE affected, or one.
ModifiedBy(c) == IF Entry(c).multi THEN Cardinality(Updated(c)) ELSE 1

UpdateDocuments(c) ==
  /\ pc[c] = "update"
  /\ LET e == Entry(c)
     IN Execute(Exists(c) /\ (e.multi => UpdateParses(e) /\ ManyParses(e)),
                UpdateStmt(Updated(c), e.set),
                /\ NextEntry(c)
                /\ n' = [n EXCEPT ![c] = @ + matched[c]]
                /\ mod' = [mod EXCEPT ![c] = @ + ModifiedBy(c)],
                /\ Answer(c, "InternalError")
                /\ UNCHANGED <<idx, n, mod>>)
  /\ done' = [done EXCEPT ![c] = @ + Cardinality(docs' \ docs)]
  /\ UNCHANGED <<req, matched, target, list>>

-----------------------------------------------------------------------------
(* MsgDelete: for each entry, for deleteOne pick the _id of one match, then *)
(* DELETE.                                                                  *)

\* Mistake: deleteOne picks without its filter.
PickForDeleteAnywhere(c) ==
  /\ pc[c] = "pick" /\ req[c].op = "delete" /\ ~Rejected(c)
  /\ LET S == Where(Ns(c), Ids \X Vals)
     IN Read(Exists(c) /\ S # {},
             /\ \E d \in S : target' = [target EXCEPT ![c] = {d.id}]
             /\ Goto(c, "delete")
             /\ UNCHANGED idx,
             NextEntry(c) /\ UNCHANGED target)
  /\ UNCHANGED <<req, matched, counters, list>>

\* No row, and every error of the SELECT too: the entry is skipped.
PickForDelete(c) ==
  /\ pc[c] = "pick" /\ req[c].op = "delete" /\ ~Rejected(c)
  /\ LET S == Where(Ns(c), Entry(c).q.match)
     IN Read(Exists(c) /\ S # {},
             /\ \E d \in S : target' = [target EXCEPT ![c] = {d.id}]
             /\ Goto(c, "delete")
             /\ UNCHANGED idx,
             NextEntry(c) /\ UNCHANGED target)
  /\ UNCHANGED <<req, matched, counters, list>>

\* Mistake: deleteOne deletes by its filter, not by the _id it picked.
DeletedByFilter(c) == Where(Ns(c), Entry(c).q.match)

\* The documents the DELETE statement removes.
Deleted(c) ==
  IF Entry(c).one
    THEN {d \in docs : d.ns = Ns(c) /\ d.id \in target[c]}
    ELSE Where(Ns(c), ManyMatch(Entry(c)))

\* Every error of the DELETE is answered with NamespaceNotFound.
DeleteDocuments(c) ==
  /\ pc[c] = "delete" /\ (~Entry(c).one => ~Rejected(c))
  /\ Execute(Exists(c) /\ (Entry(c).one \/ ManyParses(Entry(c))),
             DeleteStmt(Deleted(c)),
             /\ NextEntry(c)
             /\ n' = [n EXCEPT ![c] = @ + Cardinality(Deleted(c))],
             /\ Answer(c, "NamespaceNotFound")
             /\ UNCHANGED <<idx, n>>)
  /\ done' = [done EXCEPT ![c] = @ + Cardinality(docs \ docs')]
  /\ UNCHANGED <<req, matched, target, mod, list>>

-----------------------------------------------------------------------------
(* Filters and updates that are not translated. *)

\* CreateWhereClause, update or createSqlStmt returns an error, most with a
\* code.  The entries before this one stay done, and the reply does not say so.
Reject(c) ==
  /\ pc[c] \in {"count", "pick", "delete", "query"} /\ Rejected(c)
  /\ \E k \in {"NotImplemented", "InternalError"} : Answer(c, k)
  /\ UNCHANGED <<store, locals>>

-----------------------------------------------------------------------------
(* MsgFindOrCount, listCollections and listDatabases. *)

\* One SELECT; n is the count, or the number of documents found.
Query(c) ==
  /\ pc[c] = "query" /\ ~Rejected(c)
  /\ Read(Exists(c),
          /\ n' = [n EXCEPT ![c] = Cardinality(Where(Ns(c), req[c].q.match))]
          /\ Goto(c, "reply"),
          Answer(c, "InternalError") /\ UNCHANGED n)
  /\ UNCHANGED <<req, idx, matched, target, mod, done, list>>

\* listDatabases goes on with one of the databases of S, in HANA's order.
NextDatabase(c, S) ==
  IF S = {}
    THEN /\ list' = [list EXCEPT ![c] = EmptyList]
         /\ Goto(c, "reply")
    ELSE /\ \E db \in S :
              list' = [list EXCEPT ![c] =
                        [dbs |-> S \ {db}, db |-> {db}, tables |-> {}]]
         /\ Goto(c, "schema")

\* Schemas
ListSchemas(c) ==
  /\ pc[c] = "schemas"
  /\ Read(TRUE, NextDatabase(c, schemas),
          Answer(c, "InternalError") /\ UNCHANGED list)
  /\ UNCHANGED <<req, idx, matched, target, counters>>

\* The second half of Tables.  listCollections answers with the names found;
\* listDatabases asks for the size of each.
ListTables(c) ==
  /\ pc[c] = "tables"
  /\ LET found == {coll \in CollNames : \E db \in DbOf(c) : <<db, coll>> \in collections}
     IN Read(TRUE,
             IF req[c].op = "listCollections"
               THEN Goto(c, "reply") /\ UNCHANGED list
               ELSE IF found = {}
                 THEN NextDatabase(c, list[c].dbs)
                 ELSE /\ list' = [list EXCEPT ![c].tables = found]
                      /\ Goto(c, "size"),
             Answer(c, "InternalError") /\ UNCHANGED list)
  /\ UNCHANGED <<req, idx, matched, target, counters>>

\* MsgListDatabases' query for the size of one table; no row is an error.
TableSize(c) ==
  /\ pc[c] = "size"
  /\ \E db \in list[c].db, coll \in list[c].tables :
       Read(<<db, coll>> \in collections,
            IF list[c].tables = {coll}
              THEN NextDatabase(c, list[c].dbs)
              ELSE /\ list' = [list EXCEPT ![c].tables = @ \ {coll}]
                   /\ Goto(c, "size"),
            Answer(c, "InternalError") /\ UNCHANGED list)
  /\ UNCHANGED <<req, idx, matched, target, counters>>

-----------------------------------------------------------------------------
(* The specification. *)

Init ==
  /\ StoreInit
  /\ pc = [c \in Conns |-> "idle"]
  /\ code = [c \in Conns |-> "ok"]
  /\ req = [c \in Conns |-> NoRequest]
  /\ idx = [c \in Conns |-> 1]
  /\ matched = [c \in Conns |-> 0]
  /\ target = [c \in Conns |-> {}]
  /\ n = [c \in Conns |-> 0]
  /\ mod = [c \in Conns |-> 0]
  /\ done = [c \in Conns |-> 0]
  /\ list = [c \in Conns |-> EmptyList]

\* What the handler of connection c does by itself once it has a request.
Handle(c) ==
  \/ MsgStorage(c)
  \/ CreateSchema(c)
  \/ CreateCollection(c)
  \/ DropTable(c)
  \/ DropSchema(c)
  \/ IsIdUnique(c)
  \/ InsertDocument(c)
  \/ CountMatched(c)
  \/ PickForUpdate(c)
  \/ UpdateDocuments(c)
  \/ PickForDelete(c)
  \/ DeleteDocuments(c)
  \/ Reject(c)
  \/ Query(c)
  \/ ListSchemas(c)
  \/ ListTables(c)
  \/ TableSize(c)
  \/ Reply(c)

Next == Crash \/ \E c \in Conns : Receive(c) \/ Handle(c) \/ Reconnect(c)

Spec == Init /\ [][Next]_vars

\* A handler is a goroutine: the Go scheduler lets it go on, and HANA answers
\* every statement.  Nothing makes a client send a request or connect again.
FairSpec == Spec /\ \A c \in Conns : WF_vars(Handle(c))
=============================================================================
