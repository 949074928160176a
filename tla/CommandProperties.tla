------------------------- MODULE CommandProperties -------------------------
(***************************************************************************)
(* What the command handlers promise.                                      *)
(***************************************************************************)
EXTENDS Commands

Busy(c) == pc[c] \notin {"idle", "closed"}

Labels == {"idle", "storage", "schema", "collection", "unique", "insert",
           "count", "pick", "update", "delete", "query", "drop", "dropdb",
           "schemas", "tables", "size", "reply", "closed"}

\* The labels inside the loop over a batch.
LoopLabels == {"unique", "insert", "count", "pick", "update", "delete"}

BatchOps == {"insert", "update", "delete"}

DataOps == BatchOps \cup {"find", "count"}

\* The commands whose handlers contain statement l.
OpsAt(l) ==
  CASE l \in {"unique", "insert"}  -> {"insert"}
    [] l \in {"count", "update"}   -> {"update"}
    [] l = "pick"                  -> {"update", "delete"}
    [] l = "delete"                -> {"delete"}
    [] l = "storage"               -> DataOps
    [] l = "query"                 -> {"find", "count"}
    [] l = "schema"                -> {"insert", "create", "listCollections", "listDatabases"}
    [] l = "collection"            -> {"insert", "create"}
    [] l = "tables"                -> {"listCollections", "listDatabases"}
    [] l \in {"schemas", "size"}   -> {"listDatabases"}
    [] l = "drop"                  -> {"drop"}
    [] l = "dropdb"                -> {"dropDatabase"}
    [] OTHER                       -> {}

VariablesTyped ==
  /\ pc \in [Conns -> Labels]
  /\ code \in [Conns -> Codes]
  /\ req \in [Conns -> Request \cup {NoRequest}]
  /\ idx \in [Conns -> Nat \ {0}]
  /\ matched \in [Conns -> Nat]
  /\ target \in [Conns -> SUBSET Ids]
  /\ n \in [Conns -> Nat]
  /\ mod \in [Conns -> Nat]
  /\ done \in [Conns -> Nat]
  /\ list \in [Conns -> [dbs : SUBSET Databases, db : SUBSET Databases,
                         tables : SUBSET CollNames]]

\* A handler at l serves a request r that has that statement, and is within
\* its batch.
At(l, r, i) ==
  /\ l # "reply" => r.op \in OpsAt(l)
  /\ l \in LoopLabels => i <= Len(r.batch)
  /\ l \notin LoopLabels \cup {"reply"} => i = 1

\* Between two requests nothing is left of the last one.
Fresh(c) ==
  /\ code[c] = "ok" /\ req[c] = NoRequest /\ list[c] = EmptyList
  /\ idx[c] = 1 /\ matched[c] = 0 /\ target[c] = {}
  /\ n[c] = 0 /\ mod[c] = 0 /\ done[c] = 0

\* A handler that is busy serves a request its client may send.
ControlOK(c) ==
  IF Busy(c) THEN req[c] \in Requests[c] /\ At(pc[c], req[c], idx[c])
             ELSE Fresh(c)

\* Every variable has its type, and every handler is where its command can be.
TypeOK ==
  /\ StoreTypeOK
  /\ VariablesTyped
  /\ \A c \in Conns : ControlOK(c)

-----------------------------------------------------------------------------
(* UniqueIds (DocumentStore).  HANA does not enforce it: MsgInsert asks for *)
(* the _id and inserts in two statements.  It holds under PartitionedIds,   *)
(* whatever statements fail or are lost and however often the process       *)
(* restarts.                                                                *)

InsertedIds(r) == {r.batch[i].id : i \in DOMAIN r.batch}

\* No two connections ever insert the same _id into the same collection, as
\* when every client lets its driver generate ObjectIDs.
PartitionedIds ==
  \A c, d \in Conns : c # d =>
    \A r \in Requests[c], s \in Requests[d] :
      r.op = "insert" /\ s.op = "insert" /\ r.ns = s.ns
        => InsertedIds(r) \cap InsertedIds(s) = {}

\* What makes UniqueIds inductive: between the SELECT that found an _id free
\* and the INSERT of it, nobody stores that _id.
InsertWindow ==
  \A c \in Conns : pc[c] = "insert" => WithId(Ns(c), Entry(c).id) = {}

IdsInv == TypeOK /\ UniqueIds /\ InsertWindow

-----------------------------------------------------------------------------
(* The counts of a reply. *)

\* The handler has not been told of an error.
NoErrorYet(c) == pc[c] # "reply" \/ code[c] = "ok"

\* The counters of a handler that has met no error are what it has done to
\* the store: insert's and delete's "n", and "nModified" of an update whose
\* entries are all updateMany.  Other connections' statements come between.
CountsExact ==
  \A c \in Conns : Busy(c) /\ NoErrorYet(c) =>
    /\ req[c].op \in {"insert", "delete"} => n[c] = done[c]
    /\ req[c].op = "update" /\ (\A i \in DOMAIN req[c].batch : req[c].batch[i].multi)
         => mod[c] = done[c]

\* A request changes at most one document beyond those it has counted, and
\* that one only when the statement's acknowledgement was lost: an insert that
\* ends in an error has stored exactly the documents before the failing one.
InsertPrefix ==
  \A c \in Conns : Busy(c) /\ req[c].op = "insert" =>
    /\ n[c] <= done[c]
    /\ done[c] <= n[c] + (IF "lost" \in Faults /\ code[c] = "InternalError" THEN 1 ELSE 0)
    /\ pc[c] \in LoopLabels \cup {"reply"} => n[c] = idx[c] - 1

\* deleteOne removes at most one document for each entry it has handled, also
\* when the picked document was deleted and inserted again meanwhile.
\* Needs UniqueIds: the DELETE is by _id alone.
DeleteOneBound ==
  \A c \in Conns :
    req[c].op = "delete" /\ (\A i \in DOMAIN req[c].batch : req[c].batch[i].one)
      => done[c] <= idx[c] - (IF NoErrorYet(c) THEN 1 ELSE 0)

\* An updateOne never reports fewer documents than it modified.
ModifiedCovers ==
  \A c \in Conns :
    req[c].op = "update" /\ NoErrorYet(c) => mod[c] >= done[c]

-----------------------------------------------------------------------------
(* What a write may touch. *)

\* Printing the clause of q, as updateMany and deleteMany do, leaves it as it was.
Literal(q) == q.text # "percent" /\ q.printed = q.match

\* deleteMany and updateMany are one statement: what they touch matches when
\* it is touched, also while deleteOne and updateOne of others are half done.
\* Only if the clause has no % in it: DeleteManyIsExact is about the others.
ManyTouchesOnlyMatched ==
  [][\A c \in Conns :
       /\ UpdateDocuments(c) /\ Entry(c).multi /\ Literal(Entry(c).q) =>
            \A d \in docs \ docs' : <<d.id, d.val>> \in Entry(c).q.match
       /\ DeleteDocuments(c) /\ ~Entry(c).one /\ Literal(Entry(c).q) =>
            \A d \in docs \ docs' : <<d.id, d.val>> \in Entry(c).q.match]_vars

-----------------------------------------------------------------------------
(* deleteMany. *)

\* deleteMany takes the filters find takes (SUPPORTED_MONGODB_COMMANDS.md:65): it
\* removes the documents that match, all of them and no others.  Fails for a
\* clause with a % in it, which fmt.Sprintf takes for a verb: the DELETE is
\* refused, or leaves what matches, or removes what does not.
DeleteManyIsExact ==
  [][\A c \in Conns :
       DeleteDocuments(c) /\ ~Entry(c).one /\ Exists(c) =>
         docs \ docs' = Where(Ns(c), Entry(c).q.match)]_vars

-----------------------------------------------------------------------------
(* Progress. *)

\* Every request is answered or its connection ends, whatever the other
\* connections do to the catalogue meanwhile.
EveryRequestEnds == \A c \in Conns : Busy(c) ~> ~Busy(c)
=============================================================================
