# TLA+ models of the SAP HANA compatibility layer for the MongoDB wire protocol

The program is a proxy: it accepts MongoDB clients on a TCP port, translates
their commands to SQL and sends the SQL to SAP HANA's JSON Document Store.  It
keeps no data of its own; what can go wrong is in the *sequences* of SQL
statements that a command becomes, in the way the statements of different
clients interleave (no transaction is ever opened), in the life of connections
and of the process, and in the translations themselves.

## 1. The system

| Component | Code | State | Operations | Depends on |
|---|---|---|---|---|
| Process | `cmd/SAPHANACompatibilityLayer/main.go` | the signal context, the HANA pool, the logger | start, signal, stop | Listener, Handler |
| Listener | `internal/clientconn/listener.go` | the socket, a WaitGroup, the metric of connected clients | accept, close on signal, wait for all | Client connection |
| Client connection | `internal/clientconn/conn.go`, `ctxutil`, `handlers/proxy` | buffered reader and writer, the connection's context and deadline, a second connection to a proxied MongoDB | read a request, handle it and/or proxy it, reply, close | Wire protocol, Handler |
| Handler | `internal/handlers/handler.go`, `command.go` | `lastRequestID` | dispatch, turn errors into replies, `msgStorage` | commands |
| Data commands | `internal/handlers/crud` | none besides local variables | insert, update, delete, find, count | Filter translation, pool |
| Catalogue commands | `internal/handlers/msg_*.go` | none | create, drop, dropDatabase, listCollections, listDatabases | pool |
| HANA pool | `internal/hana/hanapool.go` | `sql.DB` (unlimited, one statement per connection at a time) | Tables, Schemas, CreateSchema, CreateCollection, DropTable, DropSchema | SAP HANA |
| Filter translation | `handlers/common/where.go` | `isNor`, `norCounter`: **package variables** | MongoDB filter to WHERE clause | - |
| Update translation | `update` and `createSetandUnsetSqlStmnt` in `handlers/crud/msg_update.go` | none | update document to SET and UNSET clauses | Filter translation |
| JSON conversion | `fjson`, the JSON part of `bson` | none | a document to the text that HANA stores, and back | - |
| Projection | `handlers/common/projection.go` | none | which fields a find returns: as SQL, or by removing fields from found documents | - |
| Wire protocol | `wire` | none | bytes to messages and back; the one document of several sections | BSON |
| BSON | `bson` | none | bytes to documents and back | Types |
| Types | `types` | the keys of a document in order, and its map | validate, Get, Set, Remove, Command | - |
| Statistics, status and stub commands | `msg_getlog.go`, `msg_serverstatus.go`, ... | none | a canned answer, or one query | - |

How they interact: the listener starts one goroutine per connection; the
connection calls `Handler.Handle` for one request at a time; `Handle` calls one
command handler; that calls the pool, statement by statement, and returns a
document or an error; `Handle` makes a reply of it and says whether the
connection must be closed.  Connections share the HANA store, the pool, the
metrics, and - by accident - the two package variables of the filter
translation.

What is hard, and where the properties aim (every item is a hazard of
`PROJECT.json`, at its line):

* *Atomicity of commands.*  `insert` asks for the _id with one statement and
  inserts with the next; `deleteOne` and `updateOne` pick a document's _id with
  one and write by that _id with the next; `update` counts what matches before
  it updates; `insert` creates database and collection when it does not find
  the collection.  Any other connection may come between any two statements.
* *Partial failure.*  A batch that fails in the middle leaves the entries
  before it done; several handlers take every error for one particular cause.
* *Lost acknowledgements and restarts.*  A statement may take effect and still
  be reported as failed; the process may end between two statements.
* *Connections and shutdown.*  Pipelined requests, two answers per request in
  the diff modes, hung-up clients, panics, the three seconds' grace after a
  signal, a proxied service that does not answer.
* *Shared variables.*  Whether a filter is being translated inside a `$nor` is
  kept in package variables that all connections use, and that a failed
  translation leaves behind.
* *Three-valued logic.*  A comparison with a field that is not set is neither
  true nor false in SQL; the translation adds IS SET and IS UNSET to make up
  for it.
* *Text used as a program.*  WHERE clauses are passed to `fmt.Sprintf` as
  formats; a condition starting with AND is appended to a clause that may be
  empty.
* *Lengths that a peer sends.*  Messages, sections, documents, arrays and strings
  carry their lengths; one that is off by a byte makes the rest of the stream
  another message.  A checksum has no length at all.
* *Documents changed in place.*  An exclusion removes fields one after the
  other, in the order of a Go map, from documents that share their maps.
* *The order of fields.*  A decoded JSON object has lost it; the code reads
  the text again and tells keys from values by counting tokens.

What makes each component right:

| Component | Properties |
|---|---|
| Data commands | _ids stay unique; the counts of a reply are what was done; a write touches only what its filter matches or, if it is by an _id picked before, has matched; deleteMany removes exactly what matches; a client alone sees atomic commands; every request ends |
| Catalogue commands | an error has a cause that shows; "ok" tells the truth |
| Client connection | replies in order, at most one request unanswered, nothing after an InternalError |
| Listener, process | no connection outlives Run; the process stops after the signal; a connection whose client has gone is released |
| Filter translation | a clause is that of its own filter, whatever other connections translate; it selects exactly the documents that the filter matches |
| Update translation | an UPDATE touches exactly the documents it changes; the value is stored where the field is, as an insert would have stored it |
| JSON conversion | what was stored is read as the same document, with its fields in order |
| Projection | the client gets the fields it asked for and no others, in whatever order exclusions are carried out |
| BSON, wire | what is read is what was sent, message by message, or an error; a message that is passed on has the bytes it came with; the command has all parts of the request; replies can be read and told apart |

## 2. The modules

| Module | Models | Extends |
|---|---|---|
| `DocumentStore` | HANA as the SQL texts use it: catalogue and documents, one operator per statement, what makes a statement fail (external) | - |
| `Commands` | `handler.go`, `msg_*.go`, `crud/msg_*.go`, `hanapool.go`, `unique.go`: one action per SQL statement with the code up to the next | `DocumentStore` |
| `CommandProperties` | types, invariants, action properties, progress | `Commands` |
| `CommandHistory` | history variables: has another connection changed the store under this request, and what has matched its entry? and the properties that need them | `CommandProperties` |
| `AtomicCommands` | abstract: a request is carried out in one step and answered | - |
| `SequentialCommands` | the refinement mapping from `Commands` with one client to `AtomicCommands` | `CommandProperties` |
| `ClientConn` | `conn.go`, `proxy.go`, `ctxutil.go` and the end of `Handle` | - |
| `Listener` | `listener.go` and the part of `main.go` around it, over all connections | `ClientConn` |
| `ListenerProperties` | what connections and the process promise | `Listener` |
| `NorFlag` | how `where.go` walks through a filter, with `isNor` and `norCounter`, for several connections | - |
| `WhereClause` | what the clause of a filter selects, and what the filter matches; pure | - |
| `UpdateClause` | which documents an UPDATE touches; pure | `WhereClause` |
| `WhereTranslation` | what holds of a clause when it has been translated | `NorFlag`, `UpdateClause` |
| `WhereVisits` | what the translation of a filter meets, for `NorFlag`; pure | - |
| `JsonConversion` | `fjson`: values as JSON, the order of keys, JSON as values; pure | - |
| `Projection` | `projection.go`: the kind of a projection, inclusion as SQL, exclusion; pure | `JsonConversion` |
| `UpdateValues` | values and dotted fields of an update as SQL; pure | `Projection` |
| `JsonStorage` | a document that is inserted, updated, found, projected, and inserted again | `UpdateValues` |
| `BsonValues` | the values of a document, and which keys are valid; pure | - |
| `BsonFormat` | BSON documents as bytes, written and read; pure | `BsonValues` |
| `OpMsgDocument` | the command that the sections of an `OP_MSG` make; pure | `BsonValues` |
| `WireFormat` | `OP_MSG`, `OP_QUERY` and `OP_REPLY` as bytes, written and read; pure | `BsonFormat`, `OpMsgDocument` |
| `WireLink` | a client, a stream that may break or garble a byte, the layer's reader, its replies, and the service it may pass messages on to | `WireFormat` |
| `MCCommands`, `MCHistory`, `MCSequential`, `MCWhere`, `MCJson`, `MCWire` | requests, filters, documents and messages for TLC | the above |
| `RecursionProofs` | lemmas: induction over sets, and that recursive functions exist | - |
| `CommandProofs` | what every SQL statement does to the store; types, `UniqueIds`, `InsertWindow` | `CommandProperties` |
| `CountProofs` | counts of replies, and which documents are touched | `CommandProofs` |
| `HistoryProofs` | errors and successes of requests that nobody interferes with | `CommandHistory`, `CountProofs` |
| `SequentialProofs` | the refinement | `SequentialCommands`, `CountProofs`, `RecursionProofs` |
| `ListenerProofs` | connections and the process | `ListenerProperties` |
| `WhereProofs` | `isNor` and `norCounter`; the meaning of clauses, for filters nested to any depth | `WhereTranslation`, `RecursionProofs` |
| `OpMsgDocumentProofs` | the command has all parts of its message | `OpMsgDocument`, `RecursionProofs` |

### The command handlers (`Commands`)

`pc[c]` names the SQL statement that connection c's handler executes next;
the other variables are the handler's Go variables: `idx` the loop's position
in the batch, `matched`, `n` (`inserted`, `deleted` or the count), `mod`
(`updated`), `target` (the _id that updateOne and deleteOne SELECTed), `list`
(where listDatabases is), `code` the error it is going to answer.  `done` is
history: how many documents the request has really changed.  An action is one
statement, its error paths, and the Go code up to the next statement:

| Action | Code |
|---|---|
| `Receive`, `Reply` | `Handle`, `handleOpMsg`, `handleOpQuery`, `ProtocolError` |
| `MsgStorage`, `CreateSchema`, `CreateCollection` | `msgStorage` and the pool, also for create and the listings |
| `IsIdUnique`, `InsertDocument` | one round of `MsgInsert`'s loop |
| `CountMatched`, `PickForUpdate`, `UpdateDocuments` | one round of `MsgUpdate`'s loop |
| `PickForDelete`, `DeleteDocuments` | one round of `MsgDelete`'s loop |
| `Query` | find and count; a find's cursor is read to its end by one statement |
| `DropTable`, `DropSchema`, `ListSchemas`, `ListTables`, `TableSize` | the catalogue commands |
| `Crash`, `Reconnect` | the process ends between two statements; a client connects again |

A statement is executed, or refused by HANA for a reason that the store shows,
or - if `Faults` has it - fails, or is executed and its acknowledgement lost.
A crash while a statement runs is a lost or a failed statement followed by a
crash.  A client that sends a request again after an error is two requests, or
two connections with the same _ids (`duplicate_ids`).  A request that is refused
before any statement is a `local` request; a `rejected` filter stands for all
options refused while the statement is built.

A filter is what its clause selects: `match` as it was translated, and `printed`
as it is after `fmt.Sprintf` has taken it for a format, which updateMany and
deleteMany send (`ManyMatch`).  A % in a LIKE pattern or in a string makes the
two differ, in either direction: `'%foo'` becomes `'%!f(MISSING)oo'`, which
selects nothing, and behind a `$not` everything.  `text` says what else
matters: no clause at all (`empty`), one that as printed does not parse, as a
% right before the closing quote does (`percent`), or none because the filter
is `rejected`.  `Literal` is a filter of which printing changes nothing.

`CommandHistory` adds `disturbed[c]`, whether another connection has changed the
store under c's request, and `seen[c]`, the _ids of documents that have matched
c's entry at some moment since c came to it.

Inserted documents whose JSON conversion fails behave as a refused statement.

`SequentialCommands` keeps the store as it was when the request arrived
(`before`), and shows it to `AtomicCommands` until the reply is ready
(`Visible`).  A request arrives in both at once; the statements of its loop
change nothing that `AtomicCommands` sees; the step that makes the reply is the
one in which the abstract request is carried out.  `AtomicCommands` knows no
statements and no texts: its filters select what they match, as the
documentation says.  The handlers implement it for requests of which that is
true (`AsTranslated`): no update has the filter `{}`, and the clauses of
updateMany and deleteMany are `Literal`; what happens to the others is shown by
`percent_filter` and told in section 7.  For a batch it composes entries, `After(s, r)[i]` being every store
and every counts that the first i entries may lead to.

### Connections and the process (`ClientConn`, `Listener`)

`phase[c]` is the place in `run` where the goroutine is; reading, handling,
proxying, writing and every failure of them are actions, and so are the second
goroutine that sets the deadline after a cancellation (`CancelRun`,
`Interrupt`), the client (send, hang up) and the proxied service.  `wg` and
`gauge` are the WaitGroup and the metric.  Time is abstract: the three seconds
between signal and cancellation, and the deadline of a connection, are steps
that may come at any moment.  A transient error of Accept only makes the loop
sleep and try again; a second signal kills the process; neither is an action.

### Filters (`NorFlag`, `WhereClause`, `UpdateClause`, `WhereTranslation`)

`NorFlag` sees a filter as the sequence of `Visits` of its depth-first
translation: enter and leave the array of a logical expression, translate a
condition, meet something that is rejected.  `frames[c]` are the open calls of
`logicExpression`, `isNor` and `norCounter` the package variables; `++` and
`--` are a load and a store each, and the test of the counter and the reset of
the flag are two steps.  `clean` is history: translations have not
overlapped, and none was rejected inside a `$nor`, since the process started.
`WhereVisits` gives the `Visits` of a filter.

`WhereClause` gives the truth value of a filter's clause for a document in SQL's
three-valued logic, with NOT binding tighter than AND and with the parentheses
where the code puts them (`Extend`, `LoopText`, `SomeElement`, `EntryTruth`), and
independently what the filter means (`Holds`, `Matches`).  `FieldText` and
`ClauseTruth`, `Satisfies` and `Matches` are recursive functions: of the
expressions (`Expression`, sequences of operators) and of the filters (`Filter`),
which come with the number of their operators (`Size`) and their depth
(`Depth`).  Of the comparisons only `$eq` and `$ne` are fixed; what `$gt`, `$size`
and the others say of two values is the constant `Related`, so that SQL and the
filter are taken to agree about a value that is there, and the model is about
the rest: fields that are not set, negation, arrays, and what joins conditions.

`Sound` says which filters the clause is right for; what it excludes is listed in
section 7.

`UpdateClause` adds the condition of an update: the documents that the
filter's clause selects and that are not yet as the update wants them.
`Replaces`, an update with neither field to set nor to unset, is refused.

### JSON, projections and values of updates (`JsonConversion`, `Projection`, `UpdateValues`, `JsonStorage`)

BSON values and JSON values are trees with the same kind of nodes.  `Encode` is
`Marshal` and `MarshalHANA`, which refuses dates and regular expressions in
documents, but hands the elements of arrays to `Marshal`, which does not.
`Tokens` is what the decoder of encoding/json delivers, with every token as the
text that `getJSONKeys` compares; `ScanToken` is one round of its loop with its
counters `i`, `isArray` and `isDocument`.  `Decode` is `Unmarshal` with the
UnmarshalJSON of every type.  Of a number the model keeps which types can hold
it.  HANA is taken to return the text that was stored (external).

`ProjectionKind` goes through a projection as `isProjectionInclusion` does.
`InclusionText` is the list of names and commas that the SQL gets, `SelectFields`
what HANA makes of it.  `Exclude` is one round of `projectDocument`'s loop, with
the field chosen freely, since Go chooses the order of a map; `RemovePath` is
what its variables `previousDoc`, `ppDoc`, `previousArray` and `arrayCount` come
to.  `SqlValue` and `UpdateKey` are the value and the field in an UPDATE; a field
is a sequence of names and of indexes, which count from 1 in HANA and from 0 in
MongoDB.  `Replaced`, `Stripped` and `Included` say independently what the
client means; HANA's UPDATE is taken to set a field whose parents exist
(`Reaches`).

### Messages (`BsonFormat`, `OpMsgDocument`, `WireFormat`, `WireLink`)

Bytes are numbers, with integers little-endian in two's complement; names of
fields and strings are short sequences of bytes, and doubles, dates and
ObjectIDs are bytes that are kept.  `ReadMessage` is `wire.ReadMessage` down to
`bson`'s ReadFrom methods: every operator that reads returns a value and the
bytes that are left, or fails; `WriteMessage` is the way back, and
`CommandDocument` the merging of sections by `OpMsg.Document`.  `WireLink` has
one stream from a client, which may send messages that no correct client sends
(`Garble`) and may be cut anywhere (`Cut`); the layer reads, and passes on or
answers (`Read`, `Forward`, `Answer`).  `lastRequestID` starts near the end of
int32, so that it wraps.  Panics, as of `Handle` for an OP_QUERY that is not
`isMaster`, end the link (`HandlePanics`).

## 3. The runs

Passing runs:

| Run | Instance | Checks |
|---|---|---|
| `data` | 2 connections, 1 collection, 2 _ids, 2 values, 2 rows, batches of two, failed and lost statements, crashes | `TypeOK`, `UniqueIds`, `InsertWindow`, `CountsExact`, `InsertPrefix`, `DeleteOneBound`, `ModifiedCovers`, `ManyTouchesOnlyMatched`, `EveryRequestEnds` |
| `catalog` | 2 connections, 1 database, 2 collections (one that GUIs read and has no table), 2 _ids, no faults, so that every error needs another cause | `ErrorsExplained`, `SuccessIsReal`, `OnesTouchMatchedAlone`, `OnesTouchSeen` |
| `sequential` | 1 connection, 2 databases, 2 collections, every kind of request that `AsTranslated` admits, batches of two | `ImplementsAtomic` |
| `shutdown` | 2 clients, mode normal, no deadline, panics | `TypeOK`, `NothingOutlivesRun`, `ShutdownCompletes`, `GoneIsReleased` |
| `modes` | 1 client, 3 pipelined requests, 4 modes, a deadline, a service that may stay silent | `RepliesInOrder`, `OneUnanswered`, `InternalErrorIsLast`, `ShutdownCompletes` |
| `json` | documents of up to three fields, with every type of value, and arrays and documents in each other to depth three; 22 projections and 162 updates of 165 of them | `ReadBack`, `SetReadsBack`, `InclusionIsExact`, `ExclusionIsExact` |
| `where` | 715 filters (569 of them `Sound`), with arrays of arrays, next to a second connection's `$nor`, 24 documents; 9 updates that set or unset up to four fields | `FlagIsOwnIfClean`, `ClauseMeansFilter`, `UpdateTouchesChanged` |
| `wire` | up to two of thirteen messages of all three kinds, cut after any byte or with one wrong byte anywhere, and ids that wrap | `InSync`, `ForwardedUnchanged`, `CommandIsWhole`, `RepliesReadable` |

Violations, each a divergence of section 7: `duplicate_ids`,
`percent_filter`, `nor_shared`, `json_keys`.

Why the bounds are enough for what the runs ask.  Handlers of the same
connection never run at the same time, and every race of the handlers is
between two: one that looks and then writes, and one that writes in between;
two connections have them all, in every order.  Two entries per batch have a
first, a last, an entry after a failed one and an entry after a skipped one.
Two values tell matching from not matching and updated from not updated.  One
connection of `data` deletes with a clause that printing changes into one that
selects everything, so that the counts, the bounds and the end of requests are
checked with it as well.  `OnesTouchSeen` needs a batch of two updateOnes, a
document of each _id, and another connection that takes the second away.  The
two rows of `data` are never exhausted, because _ids stay unique; `catalog`
has a row for every insert that can find its _id free.  Three
pipelined requests have one that is answered, one that is handled and one that
waits in the buffer.  Filters nest two logical operators, because `norCounter`
distinguishes none, one and more open `$nor`s; the theorem of section 5 covers
every depth.  `MaxCounter` bounds only how often a leaked counter may grow.
The scan for keys has two counters of depth and a parity: a value with a value
in it, before and after another field, moves each of them.  Projections and
updates have paths of up to three parts, which lead through an array into a
document, through a document into an array, from one array into another, and
nowhere; exclusions have two paths that share nothing, a field, or an array.
The thirteen messages have sections of both kinds, several of them, empty ones,
checksums, and values of every type that is read; a second message is what the
reader meets when it is a byte off.  `WrongBytes` has the numbers at the
limits of a byte and the tags and kinds that mean something elsewhere.

## 4. Fairness

`Commands` assumes weak fairness of every connection's handler, that is, that a
goroutine that can go on does, and that HANA answers every statement in the
end, be it with an error; no request timeout exists in the code.  Clients and
crashes are not fair.  `Listener` assumes weak fairness of the accept loop, of
the steps of every connection's two goroutines (the Go scheduler) and of the
cancellation after the grace period (a timer).  Clients and the proxied service
are not fair: they may stay silent for ever, which is why `GoneIsReleased`
starts with a client that has hung up.
Two more exceptions to what one would like to assume: nothing makes a client
send, and nothing makes a signal come.

## 5. What is proved

All theorems hold for all values of the constants: any sets of connections,
databases, _ids, values, rows and requests, batches of any length; any faults,
unless a theorem says otherwise; any filters; any number of clients.  `PROJECT.json`
lists them.

Assumptions.  The constants' own (`RequestsAssumption`, `FaultsAssumption`,
`EmptyFilterAssumption`, `ProvisionedAssumption`, and those of `ClientConn`,
`WhereClause` and `UpdateClause`) only say which requests, documents, filters and
updates there are.  `PartitionedIds` says that no
two connections insert the same _id into a collection, as with _ids that drivers
generate; every theorem that needs it names it, because without it the run
`duplicate_ids` shows the violation.  `ClientAssumption` is what makes a client
alone.

### Types and unique _ids (`CommandProofs`)

* `TypeCorrect`: `Spec => []TypeOK`.  Besides types, `TypeOK` says that a busy
  handler is at a statement that its command has, within its batch, and that
  nothing is left between requests; the first makes every access to
  `req[c].batch[idx[c]]` defined.  The proof has a lemma for each action, which
  goes back to what `Goto`, `Answer` and `NextEntry` do, and a lemma for each
  SQL statement.
* `UniqueIdsHold`: `PartitionedIds /\ Spec => []UniqueIds`.  `UniqueIds` alone
  is not inductive: an INSERT adds a second document if the _id has been taken
  after the SELECT.  `InsertWindow` says that it has not: while a handler is
  about to insert, its _id is free.  `IdsInv == TypeOK /\ UniqueIds /\
  InsertWindow` is inductive under `PartitionedIds`; updates keep _ids, deletes
  and drops only remove documents, and a restart empties no window that is not
  closed.  `TypeOK` is needed to know that the statement is about this entry of
  this request.
* `InsertWindowHolds`: `PartitionedIds /\ Spec => []InsertWindow`, from the same
  invariant.

### Counts (`CountProofs`)

* `CountsStayExact` and `InsertsArePrefixes`, under any faults and any
  interference.  `CountsExact` speaks of the moment of the reply; `CountInv` says
  the same of every statement before it, with an INSERT that was carried out but
  reported as failed as the one case in which more was done than counted.  It
  needs `RowsUnique`: no two documents have one row, without which an UPDATE of
  two documents could leave one, and the number of documents would not be what
  HANA reports.  `TypeOK` makes the store finite, so that there is a number.
* `DeleteOneIsBounded` and `ModifiedIsEnough`, under `PartitionedIds`.
  `OnesInv` adds to `IdsInv` that deleteOne and updateOne have picked one _id at
  most (`OneTarget`); with `UniqueIds` the statement by that _id touches one
  document at most, and then `done` is at most the number of entries passed.
* `ManysTouchMatched`: an action property of the two statements that updateMany
  and deleteMany execute, whatever other connections do, for filters that are
  `Literal`: the clause as printed is the clause as translated.  Of the others it
  is not true, as `percent_filter` shows.

### Requests that are left alone (`HistoryProofs`)

`Left(c)` says that since connection c's request arrived no other handler has
changed the store.  A step of another handler keeps c's request left alone only
if it does not change the store (`StaysLeft`), so all that has to be shown is
what c's own steps do.

* `OnesMatch`: while _ids are unique, an updateOne or deleteOne that is left
  alone touches one document at most, and one that matches, whatever faults
  there are.  `PickInv` says that a document with the _id that was picked still
  matches: between the two statements only another handler could change it.
* `OnesWriteWhatTheySaw`: `HSpec => OnesTouchSeen`, for requests that are not left
  alone, and with all faults.  `SeenInv` says that the _id a handler is about to
  write by is one of `seen` (`TargetSeen`): it is set by the SELECT of the same
  entry, from a document that matched, and a handler that has found none goes on
  to the next entry.
* `ErrorsHaveReasons`, with `Faults = {}` (otherwise an error needs no reason),
  and `OkIsTrue`, with `"failed" \notin Faults`: acknowledgements may get lost and
  the process may crash.  When a SELECT fails, "ok" need not be true: deleteOne
  takes every error for "nothing found" (`msg_delete.go:87`) and goes on.
  `CalmInv` says that the documents an insert has passed are stored (`Stored`),
  that the code of a reply is true and, without faults, explained (`Settled`),
  and what a handler then knows from the statements before (`Aware`: an insert
  that creates the collection did not find it; one that asks for an _id has it;
  listDatabases asks for tables that exist).  It needs `StoreSound`, that every
  collection has its schema and every document its collection: a deleteOne that
  finds no collection has left nothing that matches.

### One client sees atomic commands (`SequentialProofs`)

* `HandlersAreAtomic`: `AsTranslated /\ SSpec => ImplementsAtomic`.  The invariant `SInv` relates
  what the handler has done so far to `before`: before its loop nothing but
  schemas and collections of its own (`Preparing`); in the loop of an insert,
  the first `idx - 1` documents, each in a row that was free, and none with an
  _id that was taken (`InsertedUpTo`); in the loops of update and delete, one of
  the results `After(before, R)[idx - 1]` (`Passed`); between the statements of
  one entry, that what was counted and picked is still so (`Found`); and at the
  reply, one of the results of the request (`Done`).  It contains `IdsInv`: one
  client's requests are partitioned.  Initial states map to initial states; `Receive` is `Accept`, every statement but the last a stutter,
  the last one `Perform`, `Reply` is `Deliver` and `Reconnect` is `Return`; there
  is no crash without faults.
* `After` is a recursive function over the batch, and that it satisfies its own
  equation must be shown: a function for the first m entries exists for every m
  (`AfterDef`).  The library's induction theorems cannot be used for it, but an
  induction over a *set* of numbers can, from the well-foundedness of < on Nat
  (`SetInduction` of `RecursionProofs`).

### Connections (`ListenerProofs`)

One inductive invariant, `IInv`, for all modes and any number of clients:

* `Typed`: the types; that `wg` and `gauge` are natural numbers follows from
  `Accounted`, as does that `WaitGroup.Done` never panics;
* `ConnOK(c)`: how far each party of a connection is.  It ties the numbers of
  requests read, passed on, answered and written to the phase that the goroutine
  is in, which none of the checked properties does alone (`Answered`, `InStep`),
  and says that a connection that waits for a request has met no InternalError
  (`Judged`).
* `Accounted`: `wg` is the number of connections alive, `gauge` that of the
  connections counted, and `Run` has returned only when there is none.

`TypeCorrect`, `RepliesStayInOrder`, `OneStaysUnanswered`, `NothingIsLeft` and the
action property `NothingAfterInternalError` follow from it.  The modes differ
only in which of the handler and the service are asked, which is why one
invariant is enough for them.

### The flag of `$nor` (`WhereProofs`)

* `FlagHolds`: `Spec => []FlagIsOwnIfClean`, for filters nested to any depth.
  The inductive invariant `FlagInv` says that as long as things are clean at
  most one translation runs, that `norCounter` is the number of its open `$nor`s
  (one less before the `++` is stored, one more before the `--`), that `isNor`
  is set exactly when there is one or when the code is about to count or to
  reset, that a value loaded for `++` or `--` is still the counter's, that
  no `$nor` is open when the flag is about to be reset, and that both are reset when nothing runs.  Its lemmas are about the number of `$nor`s
  in a sequence when one is pushed or popped.

### The clause of a filter (`WhereProofs`)

* `ClauseMeansFilterHolds`: `Spec => []ClauseMeansFilter`.
* `UpdateTouchesChangedHolds`: `Spec => []UpdateTouchesChanged`.

Both hold for any values, comparisons, documents, filters and updates.
`ExpressionAssumption` and `FilterAssumption` say that what is nested in an
expression or a filter is one too, and a smaller one; every finite filter that
a client can send is covered by some `Filter` and `Depth`.  The hypothesis of both
properties (`HasClause`) is that the filter is `Sound`, and that the package
variables have not been disturbed, which `nor_shared` shows to be needed.

What runs is simple here: `FlagInv` says that a filter that has been translated
is one of `Filter`.  What is hard is what the recursive functions are.

* That they satisfy their own equations must be shown (`RecursiveFunctionExists`):
  a step that computes a function's value at x from its values at what has a lower
  rank has a fixed point.  The functions for rank n exist for every n by an
  induction over a set of numbers (`SetInduction`), and the one function takes from
  each its values of rank n.  `SatisfiesDef`, `SoundInArrayDef`, `FieldTextDef`,
  `MatchesDef`, `SoundDef` and `ClauseTruthDef` are its uses.
* Induction over filters and expressions is an induction over the *set* of those
  of which the statement holds (`RankInduction`), which needs no operator as a
  parameter.
* `InArrayMeans`: inside an array, for a value that is there, the clause is true or
  false, and true if and only if the operators hold (`ElementTruth`, `SomeElement`).
* `FieldMeans`: of a field that may be missing the clause is true if and only if
  the operators hold; inside a `$nor` it is never unknown, also when the field is
  not set.  This is the strengthening that the induction needs: true alone would
  not survive NOT.  `ExtendMeans` adds one operator to a text, `NotMeans` is `$not`
  with its "OR field IS UNSET".
* `FilterMeans`: the same of a filter, from `EntryMeans`, in which an `$and` or `$or`
  passes "inside a `$nor`" on to its documents and a `$nor` sets it.
* `NeedsUpdateMeans`: the condition that is appended to an UPDATE is true if and
  only if the update changes the document.  `UpToDateMeans` says of the `$set`
  document's clause only when it is false, since it may be unknown when a field is
  missing; then the field's "IS UNSET" is what makes the condition true.

### The command of a message (`OpMsgDocumentProofs`)

`CommandHasAllParts`: if `OpMsg.Document` accepts the sections of an `OP_MSG`,
`HasAllParts` is true of them, for any number of sections in any order with any
documents and identifiers.  The command is then the one body that has fields,
followed by every sequence of documents with a valid identifier; no sequence
comes before that body; and no key is there twice, if none is in a document
(bson's ReadFrom refuses those that repeat a key).

`WholeSoFar(sections, n)` is what the loop keeps: the parts of the first n sections,
one after the other, are the fields so far, with different keys; a body with fields is among
them if and only if there are fields, and before every sequence.  `AllMerged` says that no section before an accepted end was
refused, since `Bad` stays `Bad`; `OneMoreSection` is the step, and `SetInduction`
does the rest.  `MergedAfterDef` and `JoinedDef` say what the recursive functions of
`CommandDocument` and of the library's `FlattenSeq` are, from `RecursiveFunctionExists`.

## 6. What is only model-checked

* Liveness: `EveryRequestEnds`, `ShutdownCompletes` and `GoneIsReleased` are beyond
  the prover, as everything about fairness and ENABLED is.
* What recursive definitions over documents and bytes compute: the properties of
  `JsonStorage` (`ReadBack`, `SetReadsBack`, `InclusionIsExact`,
  `ExclusionIsExact`) and of `WireLink` (`InSync`, `ForwardedUnchanged`,
  `CommandIsWhole`, `RepliesReadable`).  `JsonConversion`, `Projection`,
  `UpdateValues`, `BsonFormat` and `WireFormat` have RECURSIVE operators, for which
  the prover has no backend, so that neither they nor the modules that use them
  have theorems.  Of `CommandIsWhole` only that what is read are sections is left to
  the run: `CommandHasAllParts` proves what it says of them.

Every other property of a passing run is a theorem as well.  The runs remain
what shows that the theorems are not empty: they reach the states that their
hypotheses speak of, and every property has a change of the code that breaks it.

## 7. Where the code and its documentation differ

Shown by a run:

* `duplicate_ids`: two connections that insert the same _id both succeed.
* `percent_filter`: deleteMany of `{a: {$not: {$regex: "foo$"}}}` deletes documents
  that do not match, since its clause is printed as `NOT "a" LIKE
  '%!f(MISSING)oo'`.  Without the `$not` the documents that match are left; a
  pattern that ends in %, as of `"^foo"`, is refused with "ns not found".
  updateMany does the same (`msg_update.go:130`).
* `nor_shared`: one connection's `$nor` changes another connection's clause.
  The same definition is violated by one connection alone after a filter that
  is rejected inside a `$nor`: `isNor` then stays set until the process ends.
* `json_keys`: an empty array or document inside of a value, as in
  `{x: [[]], y: 1}`, makes `getJSONKeys` take the next key for a value.  The
  document is stored, and every find that reaches it fails, or leaves out a
  field.

Seen while modelling, in the models but without a run of their own:

* A panic while a request is handled ends the process (`HandlePanics`), not only
  its connection, as `handler.go:74` says: `run` recovers and logs with DPanicf,
  which panics again under the logger's development configuration.
* With a proxied service that does not answer, a connection does not end when
  its context is cancelled, as `conn.go:110` says: `proxy.Handle` waits without
  regard to it (`ProxyReceive`).  Without a deadline on connections, which is
  the default, the process then never ends either.  `modes` has a deadline,
  and no run has a service and none.
* deleteOne and updateOne write by the _id they picked, whatever the document has
  become; `OnesTouchMatchedAlone` says that this takes another connection, and
  `OnesTouchSeen` what is left when there is one.
* `moreToCome` is read and not looked at (`op_msg.go:113`), and checksums are not
  validated.  A sequence of documents whose identifier is not a valid key is left
  out of the command without a word, since `OpMsg.Document` ignores Set's error
  (`op_msg.go:89-105`); `CommandIsWhole` says so.
* A message with an empty document as its command, an OP_QUERY other than
  `isMaster`, and an OP_REPLY each end in a panic (`HandlePanics` in `WireLink`;
  `document.go:173`, `handler.go:88-113`).
* An exclusion of a field of an inner document leaves it there if it is null
  (`projection.go:248`); excluding two elements of one array depends on the
  order of a Go map.  `Independent` excludes both from `ExclusionIsExact`, and
  either is a counterexample when its conjunct is dropped.
* Updates write doubles with six decimals (`msg_update.go:343`), and a string
  with a percent sign in an array becomes another string, because the array's
  text is a format (`where.go:319`); `SqlExact` excludes both from
  `SetReadsBack`.  `$set` of an empty document is a panic (`where.go:72`).
* A limit that is not an int32 is ignored (`msg_find_or_count.go:232`).
* Strings and keys that are a bracket, and fields `oid` and `$da` of documents in
  a document, are not read back; `Regular` in `JsonStorage` excludes them.

* deleteOne takes every error of its SELECT for no row (`msg_delete.go:87`), and
  may answer ok without having looked.
* updateOne's nModified is 1 whenever a document was picked
  (`msg_update.go:139`); `ModifiedCovers` says what is left of the promise.
* An update with the filter `{}` gets the condition " AND ..." without a WHERE
  before it (`msg_update.go:226-239`): updateMany fails with an InternalError,
  and updateOne silently does nothing, although
  `SUPPORTED_MONGODB_COMMANDS.md:60` says that its filter is that of find.
  `Commands` does so (`UpdateParses`), `AtomicCommands` does not, and
  `AsTranslated` excludes it.
* `CreateCollection` reports every error as "already exists"
  (`hanapool.go:116`); `DropSchema`'s comment promises ErrNotExist, but the
  error reaches the client as an InternalError, which ends its connection.
* listCollections and listDatabases create the schemas they list
  (`hanapool.go:72`).
* Operators of one field that are not joined as a filter means them, which
  `Sound` in `WhereClause` excludes (each but the last is a counterexample of
  `ClauseMeansFilter` when its conjunct is dropped): `$not` drops the operators
  before and after it; `$not` of several operators, and of an `$all` of several
  elements, negates only the first; `$ne` after another operator makes a
  document without the field match; `$not` of `$ne` or of `$exists: false`;
  `$ne` and `$exists: false` inside a `$nor`; `$size`, `$all` and `$elemMatch`
  after another operator become SQL that is not well-formed.
* Operators inside an `$elemMatch`, also excluded by `Sound`.  `filterArray` cuts the
  text of a `$not` at its first "OR", which may be the one of "FOR ANY" or of a
  nested `$ne`, and a text with " IS SET" at its first " AND " (`where.go:573-580`):
  there `$not` is right for one plain comparison only, and `$exists: true` is cut
  away or makes the rest disappear.  An `$elemMatch` or `$all` of nothing becomes
  SQL that is not well-formed.
* An empty document as a value (`{a: {}}`) is indexed at its first key
  (`where.go:87`), a panic.

## 8. What is not modelled, and why

* The text of SQL beyond what `InclusionText`, `SqlValue`, `UpdateKey` and the
  clauses say of it: quoting, regular expressions, sorts and limits.  Strings
  with quotes in them are not modelled.
* `null` in filters (HANA's treatment of JSON null cannot be read from the
  code), nested fields and documents as values of filters; what HANA does with
  an update of a field whose parents are missing, and when it takes two JSON
  objects for equal.
* The JSON dumps of messages for logs.  `Compare` is used only to tell 0 from
  other numbers in a projection, and `Path` not at all.
* TLS, the debug server, logging, version, build and test tools: configuration
  and I/O.  Statistics, `getLog`, `hello` and similar commands: a canned
  document or one query; as requests they are `local`.
* Generated code and the SQL driver.

## 9. Plan

Written in this order, the most important behaviour first; 1 to 9 are done.

1. `DocumentStore`, `Commands`, `CommandProperties`: the commands' statements
   and their interleavings; then `CommandHistory` and the refinement of
   `AtomicCommands`; proofs of `TypeOK` and `UniqueIds`.
2. `ClientConn`, `Listener`: connections, modes, shutdown.
3. `NorFlag`, proved, and
4. `WhereClause`, `WhereTranslation`: filters.
5. `JsonConversion`, `JsonStorage`: documents as stored, and the order of keys.
6. `BsonFormat`, `OpMsgDocument`, `WireFormat`, `WireLink`: messages as bytes.
7. `Projection` and `UpdateValues`, composed with the store in `JsonStorage`.
8. `UpdateClause`: which documents an UPDATE touches (`NeedsUpdate` in
   `Commands` is its abstraction).
9. Proofs: types, unique _ids, counts, requests left alone, the refinement,
   connections, the clauses of filters and updates, and the command of a
   message (section 5).
10. Left: `Regex`, the pattern as a LIKE pattern; sorts and limits.  Of proofs,
   the part of `WireLink` that does not depend on the bytes (`InSync` from one
   message being read as it was written), which needs `WireLink` to take reading
   and writing as constants.
