--------------------------- MODULE AtomicCommands ---------------------------
(***************************************************************************)
(* What the data and catalogue commands promise a client that is alone:    *)
(* each request is carried out at once, on the whole store, and answered.  *)
(* The statements, loops and intermediate errors of the handlers do not    *)
(* appear here; Result says what a request does by comparing the store     *)
(* before and after.                                                       *)
(***************************************************************************)
EXTENDS Integers, Sequences, FiniteSets

CONSTANTS CollNames, Ids, Vals, Rows, GuiColls, Offered

VARIABLES schemas, collections, docs,   \* the store
          phase,                        \* "idle", "working", "answered", "closed"
          request,                      \* the request being served
          reply                         \* [code, n, mod] once it is answered

avars == <<schemas, collections, docs, phase, request, reply>>

NoReply == [code |-> "ok", n |-> 0, mod |-> 0]

Store == [schemas |-> schemas, collections |-> collections, docs |-> docs]

Outcome(s, code, n, mod) ==
  [store |-> s, reply |-> [code |-> code, n |-> n, mod |-> mod]]

Matching(s, ns, q) == {d \in s.docs : d.ns = ns /\ <<d.id, d.val>> \in q.match}

-----------------------------------------------------------------------------
(* insert: the collection is created if need be; the documents up to the   *)
(* first whose _id is taken are stored.                                    *)

Taken(s, r, i) ==
  \/ \E d \in s.docs : d.ns = r.ns /\ d.id = r.batch[i].id
  \/ \E j \in 1..(i - 1) : r.batch[j].id = r.batch[i].id

\* The number of documents stored.
Stored(s, r) ==
  CHOOSE k \in 0..Len(r.batch) :
    /\ \A i \in 1..k : ~Taken(s, r, i)
    /\ k < Len(r.batch) => Taken(s, r, k + 1)

InsertResult(s, r) ==
  LET k == Stored(s, r)
      free == Rows \ {d.row : d \in s.docs}
      placements == {f \in [1..k -> free] : \A i, j \in 1..k : f[i] = f[j] => i = j}
  IN {Outcome([schemas |-> s.schemas \cup {r.ns[1]},
               collections |-> s.collections \cup {r.ns},
               docs |-> s.docs \cup
                 {[row |-> f[i], ns |-> r.ns,
                   id |-> r.batch[i].id, val |-> r.batch[i].val] : i \in 1..k}],
              IF k = Len(r.batch) THEN "ok" ELSE "InternalError",
              k, 0) : f \in placements}

-----------------------------------------------------------------------------
(* update and delete: entry after entry, each on the store the one before  *)
(* has left; an entry that cannot be carried out ends the request.         *)

WithVal(s, S, v) ==
  [s EXCEPT !.docs = (@ \ S) \cup {[d EXCEPT !.val = v] : d \in S}]

Failing(o, code) == Outcome(o.store, code, o.reply.n, o.reply.mod)

\* A batch stops at an entry that is not supported.
Unsupported(o) == {Failing(o, k) : k \in {"NotImplemented", "InternalError"}}

\* The documents an update's entry has to change.
Differing(ns, e, o) == {d \in Matching(o.store, ns, e.q) : d.val # e.set}

\* The entry changes the documents of S, and counts all that match.
Updating(ns, e, o, S) ==
  Outcome(WithVal(o.store, S, e.set), "ok",
          o.reply.n + Cardinality(Matching(o.store, ns, e.q)),
          o.reply.mod + Cardinality(S))

\* updateMany changes all that match and differ, updateOne any one of them.
UpdateEntryResult(ns, e, o) ==
  LET differ == Differing(ns, e, o)
  IN IF e.q.text = "rejected" THEN Unsupported(o)
     ELSE IF e.multi \/ differ = {} THEN {Updating(ns, e, o, differ)}
     ELSE {Updating(ns, e, o, {d}) : d \in differ}

\* The entry removes the documents of S.
Removing(o, S) ==
  Outcome([o.store EXCEPT !.docs = @ \ S], "ok",
          o.reply.n + Cardinality(S), o.reply.mod)

\* deleteMany removes all that match, deleteOne any one of them.
DeleteEntryResult(ns, e, o) ==
  LET m == Matching(o.store, ns, e.q)
  IN IF e.q.text = "rejected" THEN Unsupported(o)
     ELSE IF e.one
       THEN IF m = {} THEN {Removing(o, {})} ELSE {Removing(o, {d}) : d \in m}
       ELSE IF ns \in o.store.collections THEN {Removing(o, m)}
       ELSE {Failing(o, "NamespaceNotFound")}

EntryResult(r, e, o) ==
  IF r.op = "update" THEN UpdateEntryResult(r.ns, e, o)
                     ELSE DeleteEntryResult(r.ns, e, o)

\* After(s, r)[i]: the possible outcomes of the first i entries.
After(s, r) ==
  LET after[i \in 0..Len(r.batch)] ==
        IF i = 0 THEN {Outcome(s, "ok", 0, 0)}
        ELSE UNION {IF o.reply.code = "ok" THEN EntryResult(r, r.batch[i], o) ELSE {o} :
                      o \in after[i - 1]}
  IN after

BatchResult(s, r) == After(s, r)[Len(r.batch)]

-----------------------------------------------------------------------------
(* All requests. *)

Has(s, r) == r.ns \in s.collections

Fail(s) == {Outcome(s, "InternalError", 0, 0)}

\* A find in a collection that GUIs read has a canned answer.
ReadResult(s, r) ==
  IF ~Has(s, r) /\ r.ns[2] \notin GuiColls THEN Fail(s)
  ELSE IF r.q.text = "rejected" THEN Unsupported(Outcome(s, "ok", 0, 0))
  ELSE IF r.op = "find" /\ r.ns[2] \in GuiColls THEN {Outcome(s, "ok", 0, 0)}
  ELSE IF Has(s, r) THEN {Outcome(s, "ok", Cardinality(Matching(s, r.ns, r.q)), 0)}
  ELSE Fail(s)

Result(s, r) ==
  CASE r.op = "insert" -> InsertResult(s, r)
    [] r.op = "update" ->
         IF Has(s, r) THEN BatchResult(s, r) ELSE Fail(s)
    [] r.op = "delete" ->
         IF Has(s, r) \/ r.ns[2] \in GuiColls
           THEN BatchResult(s, r) ELSE Fail(s)
    [] r.op \in {"find", "count"} -> ReadResult(s, r)
    [] r.op = "create" ->
         {Outcome([schemas |-> s.schemas \cup {r.ns[1]},
                   collections |-> s.collections \cup {r.ns},
                   docs |-> s.docs],
                  IF Has(s, r) THEN "NamespaceExists" ELSE "ok", 0, 0)}
    [] r.op = "drop" ->
         {Outcome([schemas |-> s.schemas,
                   collections |-> s.collections \ {r.ns},
                   docs |-> {d \in s.docs : d.ns # r.ns}],
                  IF Has(s, r) THEN "ok" ELSE "NamespaceNotFound", 0, 0)}
    [] r.op = "dropDatabase" ->
         IF r.db \notin s.schemas THEN Fail(s)
         ELSE {Outcome([schemas |-> s.schemas \ {r.db},
                        collections |-> {ns \in s.collections : ns[1] # r.db},
                        docs |-> {d \in s.docs : d.ns[1] # r.db}], "ok", 0, 0)}
    [] r.op = "listCollections" ->
         {Outcome([s EXCEPT !.schemas = @ \cup {r.db}], "ok", 0, 0)}
    [] r.op = "listDatabases" -> {Outcome(s, "ok", 0, 0)}

-----------------------------------------------------------------------------

Accept ==
  /\ phase = "idle"
  /\ \E r \in Offered : request' = r
  /\ phase' = "working"
  /\ UNCHANGED <<schemas, collections, docs, reply>>

Perform ==
  /\ phase = "working"
  /\ \E o \in Result(Store, request) :
       /\ schemas' = o.store.schemas
       /\ collections' = o.store.collections
       /\ docs' = o.store.docs
       /\ reply' = o.reply
  /\ phase' = "answered"
  /\ UNCHANGED request

\* An InternalError ends the connection.
Deliver(none) ==
  /\ phase = "answered"
  /\ phase' = IF reply.code = "InternalError" THEN "closed" ELSE "idle"
  /\ request' = none
  /\ reply' = NoReply
  /\ UNCHANGED <<schemas, collections, docs>>

Return ==
  /\ phase = "closed"
  /\ phase' = "idle"
  /\ UNCHANGED <<schemas, collections, docs, request, reply>>

ANext == Accept \/ Perform \/ Deliver([op |-> "none"]) \/ Return

AInit ==
  /\ phase = "idle"
  /\ request = [op |-> "none"]
  /\ reply = NoReply

ASpec == AInit /\ [][ANext]_avars
=============================================================================
