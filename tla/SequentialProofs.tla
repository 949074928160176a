-------------------------- MODULE SequentialProofs --------------------------
(***************************************************************************)
(* A proof that the handlers of Commands, for one client alone, implement  *)
(* AtomicCommands: for every set of requests and batches of every length,  *)
(* the statements of a request add up to one of its results.               *)
(***************************************************************************)
EXTENDS SequentialCommands, CountProofs, RecursionProofs

-----------------------------------------------------------------------------
(* The inductive invariant. *)

R == req[Client]
At1 == pc[Client]

\* The rows a store does not use, and the first k documents of r in rows f.
Free(s) == Rows \ {d.row : d \in s.docs}

InRows(f, r, k) ==
  {[row |-> f[i], ns |-> r.ns, id |-> r.batch[i].id, val |-> r.batch[i].val] : i \in 1..k}

\* The first k documents of an insert are stored, and nothing else is new.
InsertedUpTo(k) ==
  \E f \in [1..k -> Free(before)] :
    /\ \A i, j \in 1..k : f[i] = f[j] => i = j
    /\ docs = before.docs \cup InRows(f, R, k)
    /\ \A i \in 1..k : ~Atomic!Taken(before, R, i)

\* What the statements so far have created.
Created(S, C) ==
  schemas = before.schemas \cup S /\ collections = before.collections \cup C

\* Outside of its loop a handler has counted nothing.  It may have created a
\* schema or a collection.
Preparing ==
  At1 \notin LoopLabels \cup {"reply"} =>
    /\ n[Client] = 0 /\ mod[Client] = 0
    /\ docs = before.docs
    /\ CASE At1 = "collection" -> Created({R.ns[1]}, {})
         [] At1 = "tables" /\ R.op = "listCollections" -> Created({R.db}, {})
         [] OTHER -> Created({}, {})
    /\ At1 \in {"schema", "collection"} /\ R.op = "insert" => R.ns \notin collections

\* find and count do not come to their query if they are refused or canned.
Querying ==
  At1 = "query" =>
    /\ R.ns \in collections \/ R.ns[2] \in GuiColls
    /\ R.op = "find" /\ R.ns[2] \in GuiColls => Rejected(Client)

\* listDatabases asks for what there is.
Listing ==
  R.op = "listDatabases" /\ At1 # "reply" =>
    /\ list[Client].dbs \subseteq schemas /\ list[Client].db \subseteq schemas
    /\ \A d, e \in list[Client].db : d = e
    /\ At1 = "size" => \A db \in list[Client].db, coll \in list[Client].tables :
                         <<db, coll>> \in collections

\* What has been counted and changed is a result of the entries so far.
SoFar == Atomic!Outcome(Now, "ok", n[Client], mod[Client])

\* The loop has passed the entries before this one.
Passed ==
  CASE R.op = "insert" -> /\ Created({R.ns[1]}, {R.ns})
                          /\ n[Client] = idx[Client] - 1 /\ mod[Client] = 0
                          /\ InsertedUpTo(idx[Client] - 1)
    [] R.op = "update" -> /\ Created({}, {}) /\ R.ns \in collections
                          /\ SoFar \in Atomic!After(before, R)[idx[Client] - 1]
    [] R.op = "delete" -> /\ Created({}, {}) /\ mod[Client] = 0
                          /\ R.ns \in collections \/ R.ns[2] \in GuiColls
                          /\ SoFar \in Atomic!After(before, R)[idx[Client] - 1]

Looping == At1 \in LoopLabels => Passed

\* What the statements of this entry have found.
Found ==
  LET e == Entry(Client)
      m == Where(R.ns, e.q.match)
  IN /\ At1 \in {"pick", "update"} /\ R.op = "update" =>
          matched[Client] = Cardinality(m) /\ e.q.text # "rejected"
     /\ At1 = "pick" => IF R.op = "update" THEN ~e.multi ELSE e.one
     /\ At1 = "update" /\ ~e.multi =>
          /\ e.q.text # "empty"
          /\ \E d \in NeedsUpdate(e, m) : target[Client] = {d.id}
     /\ At1 = "delete" /\ e.one =>
          /\ R.ns \in collections /\ e.q.text # "rejected"
          /\ \E d \in m : target[Client] = {d.id}

\* The answer and the store are a result of the request.
Done ==
  At1 = "reply" =>
    Atomic!Outcome(Now, code[Client], n[Client], mod[Client]) \in Atomic!Result(before, R)

Progress ==
  Preparing /\ Querying /\ Listing /\ Looping /\ Found /\ Done

IsStore(s) ==
  s = [schemas |-> s.schemas, collections |-> s.collections, docs |-> s.docs]

SInv ==
  /\ IdsInv /\ StoreSound /\ IsStore(before)
  /\ IF Busy(Client) THEN Progress ELSE before = Now

-----------------------------------------------------------------------------
(* The recursive function of AtomicCommands. *)

\* After is the function its definition asks for: such functions exist for the
\* first m entries, for every m.
LEMMA AfterDef ==
  ASSUME NEW s, NEW r, Len(r.batch) \in Nat
  PROVE  LET after == Atomic!After(s, r) IN
         /\ after[0] = {Atomic!Outcome(s, "ok", 0, 0)}
         /\ \A i \in 1..Len(r.batch) :
              after[i] = UNION {IF o.reply.code = "ok"
                                  THEN Atomic!EntryResult(r, r.batch[i], o)
                                  ELSE {o} : o \in after[i - 1]}
<1> DEFINE N == Len(r.batch)
           start == {Atomic!Outcome(s, "ok", 0, 0)}
           Step(i, S) == UNION {IF o.reply.code = "ok"
                                  THEN Atomic!EntryResult(r, r.batch[i], o)
                                  ELSE {o} : o \in S}
           Good(g, m) == g = [i \in 0..m |-> IF i = 0 THEN start ELSE Step(i, g[i - 1])]
           All == {m \in Nat : \E g : Good(g, m)}
<1>1. Atomic!After(s, r) = CHOOSE g : Good(g, N)
  BY DEF Atomic!After
<1> HIDE DEF start, Step
<1>2. 0 \in All
  <2>1. Good([i \in 0..0 |-> start], 0)
    OBVIOUS
  <2> QED
    BY <2>1
<1>3. ASSUME NEW m \in Nat, m \in All PROVE m + 1 \in All
  <2>1. PICK g : Good(g, m)
    BY <1>3
  <2> DEFINE h == [i \in 0..(m + 1) |-> IF i <= m THEN g[i] ELSE Step(i, g[m])]
  <2>2. Good(h, m + 1)
    BY <2>1
  <2> HIDE DEF h
  <2> QED
    BY <2>2
<1>4. \E g : Good(g, N)
  <2>1. All \in SUBSET Nat
    OBVIOUS
  <2>2. All = Nat
    <3> HIDE DEF All
    <3> QED
      BY <1>2, <1>3, <2>1, SetInduction
  <2> QED
    BY <2>2
<1>5. PICK g : g = Atomic!After(s, r)
  OBVIOUS
<1>6. Good(g, N)
  <2> HIDE DEF Good
  <2> QED
    BY <1>1, <1>4, <1>5
<1>7. g[0] = start /\ \A i \in 1..N : g[i] = Step(i, g[i - 1])
  <2>1. 0 \in 0..N /\ \A i \in 1..N : i \in 0..N /\ i # 0
    OBVIOUS
  <2> QED
    BY ONLY <1>6, <2>1
<1> QED
  BY <1>5, <1>7 DEF start, Step

\* No entry: nothing has happened.
LEMMA NoEntry ==
  ASSUME NEW s, NEW r, Len(r.batch) \in Nat
  PROVE  Atomic!Outcome(s, "ok", 0, 0) \in Atomic!After(s, r)[0]
BY AfterDef

\* One more entry.
LEMMA OneEntry ==
  ASSUME NEW s, NEW r, Len(r.batch) \in Nat, NEW i \in 1..Len(r.batch),
         NEW o \in Atomic!After(s, r)[i - 1], o.reply.code = "ok",
         NEW p \in Atomic!EntryResult(r, r.batch[i], o)
  PROVE  p \in Atomic!After(s, r)[i]
<1>1. Atomic!After(s, r)[i] =
        UNION {IF q.reply.code = "ok" THEN Atomic!EntryResult(r, r.batch[i], q)
                                      ELSE {q} : q \in Atomic!After(s, r)[i - 1]}
  BY AfterDef
<1> QED
  BY <1>1

\* An error ends the request: no later entry changes anything.
LEMMA ErrorsPersist ==
  ASSUME NEW s, NEW r, Len(r.batch) \in Nat, NEW i \in 0..Len(r.batch),
         NEW o \in Atomic!After(s, r)[i], o.reply.code # "ok"
  PROVE  o \in Atomic!BatchResult(s, r)
<1> DEFINE N == Len(r.batch)
           after == Atomic!After(s, r)
           S == {m \in Nat : i + m <= N => o \in after[i + m]}
<1>1. S \in SUBSET Nat /\ 0 \in S
  OBVIOUS
<1>2. ASSUME NEW m \in Nat, m \in S PROVE m + 1 \in S
  <2> SUFFICES ASSUME i + (m + 1) <= N PROVE o \in after[i + (m + 1)]
    OBVIOUS
  <2> DEFINE j == i + (m + 1)
  <2>1. j \in 1..N /\ j - 1 = i + m /\ i + m <= N
    OBVIOUS
  <2>2. o \in after[j - 1]
    BY <1>2, <2>1
  <2>3. after[j] = UNION {IF q.reply.code = "ok" THEN Atomic!EntryResult(r, r.batch[j], q)
                                                 ELSE {q} : q \in after[j - 1]}
    BY <2>1, AfterDef
  <2> HIDE DEF j, after
  <2>4. o \in after[j]
    BY <2>2, <2>3
  <2> QED
    BY <2>4 DEF j
<1>3. S = Nat
  <2> HIDE DEF S
  <2> QED
    BY <1>1, <1>2, SetInduction
<1>4. N - i \in S /\ i + (N - i) = N
  <2>1. N - i \in Nat /\ i + (N - i) = N
    OBVIOUS
  <2> HIDE DEF S
  <2> QED
    BY <1>3, <2>1
<1> QED
  BY <1>4 DEF Atomic!BatchResult

-----------------------------------------------------------------------------
(* The results of AtomicCommands. *)

\* What an insert has done that has stored k documents.
LEMMA InsertResultIs ==
  ASSUME NEW s, NEW r, Len(r.batch) \in Nat, NEW k \in 0..Len(r.batch),
         \A i \in 1..k : ~Atomic!Taken(s, r, i),
         k < Len(r.batch) => Atomic!Taken(s, r, k + 1),
         NEW f \in [1..k -> Free(s)], \A i, j \in 1..k : f[i] = f[j] => i = j
  PROVE  Atomic!Outcome(
           [schemas     |-> s.schemas \cup {r.ns[1]},
            collections |-> s.collections \cup {r.ns},
            docs        |-> s.docs \cup InRows(f, r, k)],
           IF k = Len(r.batch) THEN "ok" ELSE "InternalError", k, 0)
         \in Atomic!InsertResult(s, r)
<1> DEFINE Ends(m) == /\ \A i \in 1..m : ~Atomic!Taken(s, r, i)
                      /\ m < Len(r.batch) => Atomic!Taken(s, r, m + 1)
<1>1. Ends(k)
  OBVIOUS
<1>2. ASSUME NEW m \in 0..Len(r.batch), Ends(m) PROVE m = k
  <2>1. CASE m < k
    BY <1>2, <2>1, m + 1 \in 1..k
  <2>2. CASE k < m
    BY <1>2, <2>2, k + 1 \in 1..m
  <2> QED
    BY <2>1, <2>2
<1>3. Atomic!Stored(s, r) = k
  <2>1. Atomic!Stored(s, r) = CHOOSE m \in 0..Len(r.batch) : Ends(m)
    BY DEF Atomic!Stored
  <2> HIDE DEF Ends
  <2> QED
    BY <1>1, <1>2, <2>1
<1> DEFINE free == Rows \ {d.row : d \in s.docs}
           placements == {g \in [1..k -> free] : \A i, j \in 1..k : g[i] = g[j] => i = j}
           Out(g) == Atomic!Outcome(
             [schemas     |-> s.schemas \cup {r.ns[1]},
              collections |-> s.collections \cup {r.ns},
              docs        |-> s.docs \cup InRows(g, r, k)],
             IF k = Len(r.batch) THEN "ok" ELSE "InternalError", k, 0)
<1>4. Atomic!InsertResult(s, r) = {Out(g) : g \in placements}
  BY <1>3 DEF Atomic!InsertResult, InRows
<1>5. f \in placements
  BY DEF Free
<1>6. Out(f) \in Atomic!InsertResult(s, r)
  <2> HIDE DEF placements, Out
  <2> QED
    BY <1>4, <1>5
<1> QED
  BY <1>6

\* What a request may do, by its command.
LEMMA ResultIs ==
  ASSUME NEW s, NEW r
  PROVE  LET result == Atomic!Result(s, r) IN
         /\ r.op = "insert" => result = Atomic!InsertResult(s, r)
         /\ r.op \in {"update", "delete"} =>
              result = IF \/ r.ns \in s.collections
                          \/ r.op = "delete" /\ r.ns[2] \in GuiColls
                         THEN Atomic!BatchResult(s, r) ELSE Atomic!Fail(s)
         /\ r.op \in {"find", "count"} => result = Atomic!ReadResult(s, r)
BY DEF Atomic!Result, Atomic!Has
-----------------------------------------------------------------------------
(* Steps of the handler. *)

\* What a statement of the handler starts from.
Ready == SInv /\ AsTranslated /\ Busy(Client) /\ At1 # "reply"

LEMMA ReadyFacts ==
  ASSUME Ready
  PROVE  /\ Client \in Conns /\ Faults = {} /\ TypeOK /\ Progress /\ IsStore(before)
         /\ UniqueIds /\ InsertWindow /\ StoreSound
         /\ pc \in [Conns -> Labels] /\ code \in [Conns -> Codes]
         /\ idx \in [Conns -> Nat \ {0}] /\ matched \in [Conns -> Nat]
         /\ target \in [Conns -> SUBSET Ids]
         /\ n \in [Conns -> Nat] /\ mod \in [Conns -> Nat]
         /\ list \in [Conns -> [dbs : SUBSET Databases, db : SUBSET Databases,
                                tables : SUBSET CollNames]]
         /\ R \in Request /\ R.op \in OpsAt(At1)
         /\ At1 \in LoopLabels => idx[Client] <= Len(R.batch)
         /\ At1 \notin LoopLabels => idx[Client] = 1
BY AtStatement, ClientAssumption
   DEF Ready, SInv, IdsInv, TypeOK, VariablesTyped, R, At1

\* The handler has its answer.
LEMMA Answers ==
  ASSUME pc'[Client] = "reply", req' = req, before' = before,
         Atomic!Outcome(Now', code'[Client], n'[Client], mod'[Client])
           \in Atomic!Result(before, R)
  PROVE  Progress'
BY DEF Progress, Preparing, Querying, Listing, Looping, Found, Done, At1, R, LoopLabels

\* The loop goes on to its next entry, or ends after the last.
LEMMA Loops ==
  ASSUME R \in Request, R.op \in BatchOps, req' = req, before' = before,
         IsStore(before), idx'[Client] \in Nat \ {0}, idx'[Client] <= Len(R.batch) + 1,
         pc'[Client] = EntryPc(R, idx'[Client]),
         pc'[Client] = "reply" => code'[Client] = "ok",
         Passed'
  PROVE  Progress'
<1>1. Len(R.batch) \in Nat /\ R.op \in {"insert", "update", "delete"}
  BY RequestShape DEF BatchOps
<1>2. CASE idx'[Client] <= Len(R.batch)
  <2>1. /\ pc'[Client] \in {"unique", "count", "pick", "delete"}
        /\ pc'[Client] = "pick" => R.op = "delete" /\ R.batch[idx'[Client]].one
        /\ pc'[Client] = "delete" => R.op = "delete" /\ ~R.batch[idx'[Client]].one
    BY <1>2, EntryPcCases
  <2>2. Found'
    BY <2>1 DEF Found, At1, R, Entry
  <2> QED
    BY <1>1, <2>1, <2>2
       DEF Progress, Preparing, Querying, Listing, Looping, Done, At1, R, LoopLabels
<1>3. CASE idx'[Client] = Len(R.batch) + 1
  <2>1. pc'[Client] = "reply" /\ code'[Client] = "ok" /\ idx'[Client] - 1 = Len(R.batch)
    BY <1>1, <1>3, EntryPcCases
  <2>2. CASE R.op = "insert"
    <3>1. Created({R.ns[1]}, {R.ns})' /\ n'[Client] = Len(R.batch) /\ mod'[Client] = 0
      BY <2>1, <2>2 DEF Passed, R
    <3>2. PICK f \in [1..Len(R.batch) -> Free(before)] :
            /\ \A i, j \in 1..Len(R.batch) : f[i] = f[j] => i = j
            /\ docs' = before.docs \cup InRows(f, R, Len(R.batch))
            /\ \A i \in 1..Len(R.batch) : ~Atomic!Taken(before, R, i)
      BY <2>1, <2>2 DEF Passed, InsertedUpTo, R
    <3>3. Now' = [schemas     |-> before.schemas \cup {R.ns[1]},
                  collections |-> before.collections \cup {R.ns},
                  docs        |-> before.docs \cup InRows(f, R, Len(R.batch))]
      BY <3>1, <3>2 DEF Now, Created, R
    <3>4. Atomic!Outcome(Now', "ok", Len(R.batch), 0) \in Atomic!InsertResult(before, R)
      <4>1. Len(R.batch) \in 0..Len(R.batch) /\ ~(Len(R.batch) < Len(R.batch))
        BY <1>1
      <4> QED
        BY <1>1, <3>2, <3>3, <4>1, InsertResultIs
    <3> QED
      BY <2>1, <2>2, <3>1, <3>4, Answers, ResultIs
  <2>3. CASE R.op \in {"update", "delete"}
    <3>1. /\ Atomic!Outcome(Now', "ok", n'[Client], mod'[Client])
               \in Atomic!After(before, R)[Len(R.batch)]
          /\ collections' = before.collections
          /\ \/ R.ns \in collections'
             \/ R.op = "delete" /\ R.ns[2] \in GuiColls
      BY <2>1, <2>3 DEF Passed, Created, SoFar, R
    <3>2. Atomic!Result(before, R) = Atomic!BatchResult(before, R)
      BY <2>3, <3>1, ResultIs
    <3> QED
      BY <2>1, <3>1, <3>2, Answers DEF Atomic!BatchResult
  <2> QED
    BY <1>1, <2>2, <2>3
<1> QED
  BY <1>1, <1>2, <1>3

\* Before the loop an insert has stored no document.
LEMMA NothingInserted ==
  ASSUME req' = req, before' = before, docs' = before.docs
  PROVE  InsertedUpTo(0)'
<1> DEFINE f == [i \in 1..0 |-> 0]
<1>1. /\ f \in [1..0 -> Free(before)]
      /\ \A i, j \in 1..0 : f[i] = f[j] => i = j
      /\ docs' = before.docs \cup InRows(f, R, 0)
      /\ \A i \in 1..0 : ~Atomic!Taken(before, R, i)
  BY DEF InRows
<1>2. InsertedUpTo(0)' <=>
        \E g \in [1..0 -> Free(before)] :
          /\ \A i, j \in 1..0 : g[i] = g[j] => i = j
          /\ docs' = before.docs \cup InRows(g, R, 0)
          /\ \A i \in 1..0 : ~Atomic!Taken(before, R, i)
  BY DEF InsertedUpTo, R
<1> HIDE DEF f
<1> QED
  BY <1>1, <1>2

\* A handler that has created nothing sees the store as it was.
LEMMA NothingYet ==
  ASSUME Ready, At1 \notin LoopLabels, At1 # "collection",
         At1 = "tables" => R.op # "listCollections"
  PROVE  Now = before /\ n[Client] = 0 /\ mod[Client] = 0
BY ReadyFacts DEF Progress, Preparing, Created, Ready, IsStore, Now

\* The query for the collection's table.
LEMMA MsgStorageStep ==
  ASSUME Ready, before' = before, MsgStorage(Client)
  PROVE  Progress'
<1>1. /\ At1 = "storage" /\ UNCHANGED store /\ UNCHANGED <<req, idx, n, mod, list>>
      /\ req' = req
  BY DEF MsgStorage, Read, locals, counters, At1
<1>2. /\ R \in Request /\ R.op \in DataOps /\ idx[Client] = 1 /\ IsStore(before)
      /\ pc \in [Conns -> Labels] /\ code \in [Conns -> Codes] /\ Client \in Conns
      /\ Faults = {}
  BY <1>1, ReadyFacts DEF OpsAt, LoopLabels
<1>3. Now = before /\ n[Client] = 0 /\ mod[Client] = 0
  BY <1>1, NothingYet DEF LoopLabels
<1>4. /\ schemas' = before.schemas /\ collections' = before.collections
      /\ docs' = before.docs /\ Now' = before
      /\ n'[Client] = 0 /\ mod'[Client] = 0 /\ idx'[Client] = 1
  BY <1>1, <1>2, <1>3 DEF Now, store
<1>5. CASE /\ pc'[Client] = "reply" /\ code'[Client] = "InternalError"
           /\ R.op # "insert" /\ R.ns \notin collections
           /\ ~(R.op \in {"find", "count", "delete"} /\ R.ns[2] \in GuiColls)
  <2>1. Atomic!Outcome(before, "InternalError", 0, 0) \in Atomic!Result(before, R)
    <3>1. CASE R.op \in {"find", "count"}
      BY <1>3, <1>5, <3>1, ResultIs DEF Atomic!ReadResult, Atomic!Has, Atomic!Fail, Now
    <3>2. CASE R.op \in {"update", "delete"}
      BY <1>3, <1>5, <3>2, ResultIs DEF Atomic!Fail, Now
    <3> QED
      BY <1>2, <1>5, <3>1, <3>2 DEF DataOps, BatchOps
  <2> QED
    BY <1>1, <1>4, <1>5, <2>1, Answers
<1>6. CASE pc'[Client] = "schema" /\ R.op = "insert" /\ R.ns \notin collections
  BY <1>1, <1>2, <1>3, <1>4, <1>6
     DEF Progress, Preparing, Querying, Listing, Looping, Found, Done, At1, R, LoopLabels,
         Created, Now
<1>7. CASE /\ pc'[Client] = "reply" /\ code'[Client] = "ok" /\ R.op = "find"
           /\ R.ns[2] \in GuiColls /\ R.q.text # "rejected"
  <2>1. Atomic!Outcome(before, "ok", 0, 0) \in Atomic!Result(before, R)
    BY <1>7, ResultIs DEF Atomic!ReadResult
  <2> QED
    BY <1>1, <1>4, <1>7, <2>1, Answers
<1>8. CASE /\ pc'[Client] = DataPc(R)
           /\ pc'[Client] = "reply" => code'[Client] = "ok"
           /\ \/ R.ns \in collections
              \/ R.op \in {"find", "count", "delete"} /\ R.ns[2] \in GuiColls
           /\ R.op = "find" /\ R.ns[2] \in GuiColls => R.q.text = "rejected"
  <2>1. CASE R.op \in {"find", "count"}
    <3>1. pc'[Client] = "query"
      BY <1>8, <2>1 DEF DataPc
    <3>2. Rejected(Client)' <=> R.q.text = "rejected"
      BY <1>1, <2>1 DEF Rejected, FilterOf, R
    <3> QED
      BY <1>1, <1>2, <1>3, <1>4, <1>8, <2>1, <3>1, <3>2
         DEF Progress, Preparing, Querying, Listing, Looping, Found, Done, At1, R,
             LoopLabels, Created, Now
  <2>2. CASE R.op \in BatchOps
    <3>1. pc'[Client] = EntryPc(R, idx'[Client]) /\ Len(R.batch) \in Nat
      BY <1>4, <1>8, <2>2, RequestShape DEF DataPc, BatchOps
    <3>2. Atomic!Outcome(Now', "ok", n'[Client], mod'[Client])
            \in Atomic!After(before, R)[idx'[Client] - 1]
      BY <1>4, <3>1, NoEntry
    <3>3. CASE R.op = "insert"
      <4>1. R.ns \in collections' /\ R.ns[1] \in schemas'
        BY <1>1, <1>8, <3>3, ReadyFacts DEF StoreSound, store
      <4>2. Passed'
        BY <1>1, <1>4, <3>3, <4>1, NothingInserted DEF Passed, Created, R
      <4> QED
        BY <1>1, <1>2, <1>4, <1>8, <2>2, <3>1, <4>2, Loops
    <3>4. CASE R.op \in {"update", "delete"}
      <4>1. Passed'
        BY <1>1, <1>4, <1>8, <3>2, <3>4 DEF Passed, Created, SoFar, R, store
      <4> QED
        BY <1>1, <1>2, <1>4, <1>8, <2>2, <3>1, <4>1, Loops
    <3> QED
      BY <2>2, <3>3, <3>4 DEF BatchOps
  <2> QED
    BY <1>2, <2>1, <2>2 DEF DataOps
<1>9. /\ Exists(Client) <=> R.ns \in collections
      /\ Ns(Client) = R.ns /\ req[Client] = R
      /\ R.op = "find" => (Rejected(Client) <=> R.q.text = "rejected")
  BY DEF Exists, Ns, Rejected, FilterOf, R
<1>10. ASSUME NEW l, Goto(Client, l)
       PROVE  pc'[Client] = l /\ (l = "reply" => code'[Client] = "ok")
  BY <1>2, <1>10 DEF Goto
<1>11. ASSUME NEW k, Answer(Client, k)
       PROVE  pc'[Client] = "reply" /\ code'[Client] = k
  BY <1>2, <1>11 DEF Answer
<1>12. \/ /\ Answer(Client, "InternalError") /\ R.op # "insert" /\ ~Exists(Client)
          /\ ~(R.op \in {"find", "count", "delete"} /\ R.ns[2] \in GuiColls)
       \/ Goto(Client, "schema") /\ R.op = "insert" /\ ~Exists(Client)
       \/ /\ Goto(Client, "reply") /\ R.op = "find"
          /\ R.ns[2] \in GuiColls /\ ~Rejected(Client)
       \/ /\ Goto(Client, DataPc(R))
          /\ \/ Exists(Client)
             \/ R.op \in {"find", "count", "delete"} /\ R.ns[2] \in GuiColls
          /\ R.op = "find" /\ R.ns[2] \in GuiColls => Rejected(Client)
  BY <1>2 DEF MsgStorage, Read, Ns, R
<1> QED
  BY <1>5, <1>6, <1>7, <1>8, <1>9, <1>10, <1>11, <1>12

\* What Goto and Answer do, for the one connection there is.
LEMMA Control ==
  ASSUME Ready
  PROVE  /\ \A l : Goto(Client, l) =>
              pc'[Client] = l /\ (l = "reply" => code'[Client] = "ok")
         /\ \A k : Answer(Client, k) => pc'[Client] = "reply" /\ code'[Client] = k
BY ReadyFacts DEF Goto, Answer

\* CREATE SCHEMA: the schema is there afterwards, and was if the statement was
\* refused.
LEMMA CreateSchemaStep ==
  ASSUME Ready, before' = before, CreateSchema(Client)
  PROVE  Progress'
<1> DEFINE l == IF R.op \in {"insert", "create"} THEN "collection" ELSE "tables"
<1>1. At1 = "schema" /\ UNCHANGED <<req, idx, n, mod, list>> /\ req' = req
  BY DEF CreateSchema, locals, counters, At1
<1>2. /\ R \in Request /\ idx[Client] = 1 /\ IsStore(before) /\ Faults = {}
      /\ R.op \in {"insert", "create", "listCollections", "listDatabases"}
  BY <1>1, ReadyFacts DEF OpsAt, LoopLabels
<1>3. Now = before /\ n[Client] = 0 /\ mod[Client] = 0
  BY <1>1, NothingYet DEF LoopLabels
<1>4. PICK db \in DbOf(Client) :
        /\ schemas' = schemas \cup {db}
        /\ collections' = collections /\ docs' = docs
        /\ Goto(Client, l)
  <2>1. PICK db \in DbOf(Client) :
          Execute(CanCreateSchema(db), CreateSchemaStmt(db), Goto(Client, l), Goto(Client, l))
    BY DEF CreateSchema, R
  <2>2. /\ Goto(Client, l)
        /\ \/ CreateSchemaStmt(db)
           \/ db \in schemas /\ UNCHANGED store
    BY <1>2, <2>1 DEF Execute, CanCreateSchema
  <2> HIDE DEF l
  <2> QED
    BY <2>2 DEF CreateSchemaStmt, store
<1>5. pc'[Client] = l
  BY <1>4, Control
<1>6. CASE R.op \in {"insert", "create"}
  <2>1. db = R.ns[1] /\ pc'[Client] = "collection"
    BY <1>4, <1>5, <1>6 DEF DbOf, R
  <2>2. R.op = "insert" => R.ns \notin collections
    BY <1>1, ReadyFacts DEF Progress, Preparing, LoopLabels
  <2> QED
    BY <1>1, <1>3, <1>4, <1>6, <2>1, <2>2
       DEF Progress, Preparing, Querying, Listing, Looping, Found, Done, At1, R,
           LoopLabels, Created, Now
<1>7. CASE R.op = "listCollections"
  <2>1. db = R.db /\ pc'[Client] = "tables"
    BY <1>4, <1>5, <1>7 DEF DbOf, R
  <2> QED
    BY <1>1, <1>3, <1>4, <1>7, <2>1
       DEF Progress, Preparing, Querying, Listing, Looping, Found, Done, At1, R,
           LoopLabels, Created, Now
<1>8. CASE R.op = "listDatabases"
  <2>1. pc'[Client] = "tables"
    BY <1>5, <1>8
  <2>2. Listing
    BY ReadyFacts DEF Progress
  <2>3. schemas' = schemas
    BY <1>1, <1>4, <1>8, <2>2 DEF DbOf, R, Listing
  <2>4. Listing'
    BY <1>1, <1>8, <2>1, <2>2, <2>3 DEF Listing, At1, R
  <2> QED
    BY <1>1, <1>3, <1>4, <1>8, <2>1, <2>3, <2>4
       DEF Progress, Preparing, Querying, Looping, Found, Done, At1, R,
           LoopLabels, Created, Now
<1> QED
  BY <1>2, <1>6, <1>7, <1>8

\* Records of a store with one field replaced.
LEMMA StoreExcept ==
  ASSUME NEW s, IsStore(s), NEW S, NEW D
  PROVE  /\ [s EXCEPT !.schemas = S] =
              [schemas |-> S, collections |-> s.collections, docs |-> s.docs]
         /\ [s EXCEPT !.docs = D] =
              [schemas |-> s.schemas, collections |-> s.collections, docs |-> D]
<1>1. DOMAIN s = {"schemas", "collections", "docs"}
  BY DEF IsStore
<1>2. [s EXCEPT !.schemas = S] =
              [schemas |-> S, collections |-> s.collections, docs |-> s.docs]
  BY <1>1
<1>3. [s EXCEPT !.docs = D] =
              [schemas |-> s.schemas, collections |-> s.collections, docs |-> D]
  BY <1>1
<1> QED
  BY <1>2, <1>3

\* What create may do.
LEMMA CreateResultIs ==
  ASSUME NEW s, NEW r, r.op = "create"
  PROVE  Atomic!Result(s, r) =
           {Atomic!Outcome([schemas     |-> s.schemas \cup {r.ns[1]},
                            collections |-> s.collections \cup {r.ns},
                            docs        |-> s.docs],
              IF r.ns \in s.collections THEN "NamespaceExists" ELSE "ok", 0, 0)}
BY DEF Atomic!Result, Atomic!Has

\* What drop may do.
LEMMA DropResultIs ==
  ASSUME NEW s, NEW r, r.op = "drop"
  PROVE  Atomic!Result(s, r) =
           {Atomic!Outcome([schemas     |-> s.schemas,
                            collections |-> s.collections \ {r.ns},
                            docs        |-> {d \in s.docs : d.ns # r.ns}],
              IF r.ns \in s.collections THEN "ok" ELSE "NamespaceNotFound", 0, 0)}
BY DEF Atomic!Result, Atomic!Has

\* What dropDatabase may do.
LEMMA DropDatabaseResultIs ==
  ASSUME NEW s, NEW r, r.op = "dropDatabase"
  PROVE  Atomic!Result(s, r) =
           IF r.db \notin s.schemas THEN Atomic!Fail(s)
           ELSE {Atomic!Outcome([schemas     |-> s.schemas \ {r.db},
                                 collections |-> {ns \in s.collections : ns[1] # r.db},
                                 docs        |-> {d \in s.docs : d.ns[1] # r.db}],
                   "ok", 0, 0)}
BY DEF Atomic!Result

\* What the lists may do.
LEMMA ListResultIs ==
  ASSUME NEW s, NEW r, IsStore(s)
  PROVE  /\ r.op = "listCollections" =>
              Atomic!Result(s, r) =
                {Atomic!Outcome([schemas     |-> s.schemas \cup {r.db},
                                 collections |-> s.collections,
                                 docs        |-> s.docs], "ok", 0, 0)}
         /\ r.op = "listDatabases" =>
              Atomic!Result(s, r) = {Atomic!Outcome(s, "ok", 0, 0)}
<1>1. CASE r.op = "listCollections"
  <2>1. Atomic!Result(s, r) =
          {Atomic!Outcome([s EXCEPT !.schemas = @ \cup {r.db}], "ok", 0, 0)}
    BY <1>1 DEF Atomic!Result
  <2>2. [s EXCEPT !.schemas = @ \cup {r.db}] =
          [schemas     |-> s.schemas \cup {r.db},
           collections |-> s.collections,
           docs        |-> s.docs]
    BY StoreExcept, Zenon
  <2> QED
    BY ONLY <1>1, <2>1, <2>2
<1>2. CASE r.op = "listDatabases"
  BY <1>2 DEF Atomic!Result
<1> QED
  BY <1>1, <1>2

\* CREATE COLLECTION, refused only if there is one.
LEMMA CreateCollectionStep ==
  ASSUME Ready, before' = before, CreateCollection(Client)
  PROVE  Progress'
<1>1. At1 = "collection" /\ UNCHANGED <<req, idx, n, mod, list>> /\ req' = req
  BY DEF CreateCollection, locals, counters, At1
<1>2. /\ R \in Request /\ idx[Client] = 1 /\ IsStore(before) /\ Faults = {}
      /\ R.op \in {"insert", "create"}
  BY <1>1, ReadyFacts DEF OpsAt, LoopLabels
<1>3. /\ Created({R.ns[1]}, {}) /\ docs = before.docs
      /\ n[Client] = 0 /\ mod[Client] = 0
      /\ R.op = "insert" => R.ns \notin collections
  BY <1>1, ReadyFacts DEF Progress, Preparing, LoopLabels
<1>4. /\ schemas' = schemas /\ docs' = docs /\ collections' = collections \cup {R.ns}
      /\ IF R.ns \notin collections
           THEN Goto(Client, IF R.op = "insert" THEN EntryPc(R, 1) ELSE "reply")
           ELSE R.op = "create" /\ Answer(Client, "NamespaceExists")
  <2>1. CanCreateCollection(R.ns) <=> R.ns \notin collections
    BY <1>3 DEF CanCreateCollection, Created
  <2>2. IF R.ns \notin collections
          THEN /\ CreateCollectionStmt(R.ns)
               /\ Goto(Client, IF R.op = "insert" THEN EntryPc(R, 1) ELSE "reply")
          ELSE /\ UNCHANGED store
               /\ Answer(Client, IF R.op = "insert" THEN "InternalError"
                                                    ELSE "NamespaceExists")
    BY <1>2, <2>1 DEF CreateCollection, Execute, Ns, R
  <2>3. CASE R.ns \notin collections
    BY <2>2, <2>3 DEF CreateCollectionStmt
  <2>4. CASE R.ns \in collections
    BY <1>2, <1>3, <2>2, <2>4 DEF store
  <2> QED
    BY <2>3, <2>4
<1>5. CASE R.op = "insert"
  <2>1. pc'[Client] = EntryPc(R, 1) /\ (pc'[Client] = "reply" => code'[Client] = "ok")
    BY <1>3, <1>4, <1>5, Control
  <2>2. InsertedUpTo(0)'
    BY <1>1, <1>3, <1>4, NothingInserted
  <2>3. Passed'
    BY <1>1, <1>2, <1>3, <1>4, <1>5, <2>2 DEF Passed, Created, R
  <2> QED
    BY <1>1, <1>2, <1>5, <2>1, <2>3, Loops, RequestShape DEF BatchOps
<1>6. CASE R.op = "create"
  <2>1. /\ pc'[Client] = "reply"
        /\ code'[Client] = IF R.ns \in collections THEN "NamespaceExists" ELSE "ok"
    BY <1>4, <1>6, Control
  <2>2. Now' = [schemas     |-> before.schemas \cup {R.ns[1]},
                collections |-> before.collections \cup {R.ns},
                docs        |-> before.docs]
    BY <1>3, <1>4 DEF Now, Created
  <2>3. R.ns \in collections <=> R.ns \in before.collections
    BY <1>3 DEF Created
  <2>4. Atomic!Outcome(Now', code'[Client], n'[Client], mod'[Client])
          \in Atomic!Result(before, R)
    <3>1. Atomic!Result(before, R) =
            {Atomic!Outcome(Now', IF R.ns \in before.collections
                                    THEN "NamespaceExists" ELSE "ok", 0, 0)}
      BY <1>2, <1>6, <2>2, CreateResultIs, Zenon
    <3> QED
      BY <1>1, <1>3, <2>1, <2>3, <3>1
  <2> QED
    BY <1>1, <2>1, <2>4, Answers
<1> QED
  BY <1>2, <1>5, <1>6

\* DROP COLLECTION.
LEMMA DropTableStep ==
  ASSUME Ready, before' = before, DropTable(Client)
  PROVE  Progress'
<1>1. At1 = "drop" /\ UNCHANGED <<req, idx, n, mod, list>> /\ req' = req
  BY DEF DropTable, locals, counters, At1
<1>2. IsStore(before) /\ Faults = {} /\ R.op = "drop" /\ StoreSound
  BY <1>1, ReadyFacts DEF OpsAt
<1>3. Now = before /\ n[Client] = 0 /\ mod[Client] = 0
  BY <1>1, NothingYet DEF LoopLabels
<1>4. IF R.ns \in collections
        THEN DropCollectionStmt(R.ns) /\ Goto(Client, "reply")
        ELSE UNCHANGED store /\ Answer(Client, "NamespaceNotFound")
  BY <1>2 DEF DropTable, Execute, Exists, Ns, R
<1>5. /\ Now' = [schemas     |-> before.schemas,
                 collections |-> before.collections \ {R.ns},
                 docs        |-> {d \in before.docs : d.ns # R.ns}]
      /\ pc'[Client] = "reply"
      /\ code'[Client] = IF R.ns \in before.collections THEN "ok" ELSE "NamespaceNotFound"
  <2>1. CASE R.ns \in collections
    BY <1>3, <1>4, <2>1, Control DEF Now, DropCollectionStmt
  <2>2. CASE R.ns \notin collections
    BY <1>2, <1>3, <1>4, <2>2, Control DEF Now, store, StoreSound
  <2> QED
    BY <2>1, <2>2
<1>6. Atomic!Outcome(Now', code'[Client], n'[Client], mod'[Client])
        \in Atomic!Result(before, R)
  <2>1. Atomic!Result(before, R) =
          {Atomic!Outcome(Now', IF R.ns \in before.collections
                                  THEN "ok" ELSE "NamespaceNotFound", 0, 0)}
    <3>1. R.op = "drop"
      BY <1>2
    <3>2. Now' = [schemas     |-> before.schemas,
                  collections |-> before.collections \ {R.ns},
                  docs        |-> {d \in before.docs : d.ns # R.ns}]
      BY <1>5
    <3> QED
      BY ONLY <3>1, <3>2, DropResultIs, Zenon
  <2> QED
    BY <1>1, <1>3, <1>5, <2>1
<1> QED
  BY <1>1, <1>5, <1>6, Answers

\* DROP SCHEMA.
LEMMA DropSchemaStep ==
  ASSUME Ready, before' = before, DropSchema(Client)
  PROVE  Progress'
<1>1. At1 = "dropdb" /\ UNCHANGED <<req, idx, n, mod, list>> /\ req' = req
  BY DEF DropSchema, locals, counters, At1
<1>2. IsStore(before) /\ Faults = {} /\ R.op = "dropDatabase"
  BY <1>1, ReadyFacts DEF OpsAt
<1>3. Now = before /\ n[Client] = 0 /\ mod[Client] = 0
  BY <1>1, NothingYet DEF LoopLabels
<1>4. IF R.db \in schemas
        THEN DropSchemaStmt(R.db) /\ Goto(Client, "reply")
        ELSE UNCHANGED store /\ Answer(Client, "InternalError")
  BY <1>2 DEF DropSchema, Execute, R
<1>5. CASE R.db \in schemas
  <2>1. /\ Now' = [schemas     |-> before.schemas \ {R.db},
                   collections |-> {ns \in before.collections : ns[1] # R.db},
                   docs        |-> {d \in before.docs : d.ns[1] # R.db}]
        /\ pc'[Client] = "reply" /\ code'[Client] = "ok" /\ R.db \in before.schemas
    BY <1>3, <1>4, <1>5, Control DEF Now, DropSchemaStmt
  <2>2. Atomic!Outcome(Now', code'[Client], n'[Client], mod'[Client])
          \in Atomic!Result(before, R)
    <3>1. Atomic!Result(before, R) = {Atomic!Outcome(Now', "ok", 0, 0)}
      BY <1>2, <2>1, DropDatabaseResultIs, Zenon
    <3> QED
      BY <1>1, <1>3, <2>1, <3>1
  <2> QED
    BY <1>1, <2>1, <2>2, Answers
<1>6. CASE R.db \notin schemas
  <2>1. /\ Now' = before /\ R.db \notin before.schemas
        /\ pc'[Client] = "reply" /\ code'[Client] = "InternalError"
    BY <1>3, <1>4, <1>6, Control DEF Now, store
  <2>2. Atomic!Outcome(Now', code'[Client], n'[Client], mod'[Client])
          \in Atomic!Result(before, R)
    BY <1>1, <1>2, <1>3, <2>1, DropDatabaseResultIs DEF Atomic!Fail
  <2> QED
    BY <1>1, <2>1, <2>2, Answers
<1> QED
  BY <1>5, <1>6

-----------------------------------------------------------------------------
(* Steps of the loop: insert. *)

LEMMA InLoopFacts ==
  ASSUME Ready, At1 \in LoopLabels
  PROVE  /\ R \in Request /\ R.op \in BatchOps /\ R.op \in OpsAt(At1)
         /\ Len(R.batch) \in Nat /\ idx[Client] \in 1..Len(R.batch)
         /\ Entry(Client) = R.batch[idx[Client]] /\ Ns(Client) = R.ns
         /\ IsStore(before) /\ Faults = {} /\ Passed /\ Found
         /\ n[Client] \in Nat /\ mod[Client] \in Nat
<1>1. R \in Request /\ R.op \in OpsAt(At1) /\ idx[Client] \in Nat \ {0}
      /\ idx[Client] <= Len(R.batch) /\ n[Client] \in Nat /\ mod[Client] \in Nat
      /\ IsStore(before) /\ Faults = {} /\ Progress
  BY ReadyFacts
<1>2. R.op \in BatchOps
  BY <1>1 DEF OpsAt, LoopLabels, BatchOps
<1>3. Len(R.batch) \in Nat
  BY <1>1, <1>2, RequestShape DEF BatchOps
<1> QED
  BY <1>1, <1>2, <1>3 DEF Progress, Looping, Entry, Ns, R

\* A step to the next statement of the same entry.
LEMMA StaysAtEntry ==
  ASSUME Ready, At1 \in LoopLabels, UNCHANGED store, UNCHANGED <<req, idx, n, mod>>,
         before' = before, pc'[Client] \in LoopLabels, Found'
  PROVE  Progress'
<1>1. Passed /\ R.op \in BatchOps
  BY InLoopFacts
<1>2. Passed'
  <2>1. /\ schemas' = schemas /\ collections' = collections /\ docs' = docs
        /\ R' = R /\ idx' = idx /\ n' = n /\ mod' = mod
    BY DEF store, R
  <2>2. Created({R.ns[1]}, {R.ns})' = Created({R.ns[1]}, {R.ns})
    BY <2>1 DEF Created
  <2>3. InsertedUpTo(idx[Client] - 1)' <=> InsertedUpTo(idx[Client] - 1)
    <3> DEFINE k == idx[Client] - 1
    <3>1. InsertedUpTo(idx[Client] - 1)' <=>
            \E f \in [1..k -> Free(before)] :
              /\ \A i, j \in 1..k : f[i] = f[j] => i = j
              /\ docs = before.docs \cup InRows(f, R, k)
              /\ \A i \in 1..k : ~Atomic!Taken(before, R, i)
      BY <2>1 DEF InsertedUpTo
    <3> QED
      BY <3>1 DEF InsertedUpTo
  <2>4. Created({}, {})' = Created({}, {}) /\ SoFar' = SoFar
    BY <2>1 DEF Created, SoFar, Now
  <2> QED
    BY <1>1, <2>1, <2>2, <2>3, <2>4 DEF Passed
<1> QED
  BY <1>1, <1>2
     DEF Progress, Preparing, Querying, Listing, Looping, Done, At1, R, LoopLabels, BatchOps

\* A step that ends an entry.
LEMMA EndsEntry ==
  ASSUME Ready, At1 \in LoopLabels, NextEntry(Client), req' = req, before' = before,
         Passed'
  PROVE  Progress' /\ idx'[Client] = idx[Client] + 1
<1>1. /\ idx'[Client] = idx[Client] + 1
      /\ Goto(Client, EntryPc(R, idx[Client] + 1))
  BY ReadyFacts DEF NextEntry, R
<1>2. /\ pc'[Client] = EntryPc(R, idx'[Client])
      /\ pc'[Client] = "reply" => code'[Client] = "ok"
  BY <1>1, Control
<1> QED
  BY <1>1, <1>2, InLoopFacts, Loops

\* An insert stops at the first document whose _id is taken.
LEMMA InsertFails ==
  ASSUME Ready, At1 = "unique", UNCHANGED store, UNCHANGED <<req, n, mod>>,
         before' = before, Answer(Client, "InternalError"),
         WithId(Ns(Client), Entry(Client).id) # {}
  PROVE  Progress'
<1> DEFINE i == idx[Client]
<1>1. /\ Len(R.batch) \in Nat /\ i \in 1..Len(R.batch) /\ Passed /\ R.op = "insert"
      /\ Entry(Client) = R.batch[i] /\ Ns(Client) = R.ns
  BY InLoopFacts DEF OpsAt, LoopLabels
<1>2. /\ schemas = before.schemas \cup {R.ns[1]}
      /\ collections = before.collections \cup {R.ns}
      /\ n[Client] = i - 1 /\ mod[Client] = 0
      /\ InsertedUpTo(i - 1)
  BY <1>1 DEF Passed, Created
<1>3. PICK f \in [1..(i - 1) -> Free(before)] :
        /\ \A j, k \in 1..(i - 1) : f[j] = f[k] => j = k
        /\ docs = before.docs \cup InRows(f, R, i - 1)
        /\ \A j \in 1..(i - 1) : ~Atomic!Taken(before, R, j)
  BY <1>2 DEF InsertedUpTo
<1>4. Atomic!Taken(before, R, i)
  <2>1. PICK d \in docs : d.ns = R.ns /\ d.id = R.batch[i].id
    BY <1>1 DEF WithId
  <2>2. CASE d \in before.docs
    BY <2>1, <2>2 DEF Atomic!Taken
  <2>3. CASE \E j \in 1..(i - 1) : R.batch[j].id = d.id
    BY <2>1, <2>3 DEF Atomic!Taken
  <2> QED
    BY <1>3, <2>1, <2>2, <2>3 DEF InRows
<1> HIDE DEF i
<1>5. /\ i - 1 \in 0..Len(R.batch) /\ i - 1 # Len(R.batch) /\ (i - 1) + 1 = i
  BY <1>1
<1>6. Atomic!Outcome(
        [schemas     |-> before.schemas \cup {R.ns[1]},
         collections |-> before.collections \cup {R.ns},
         docs        |-> before.docs \cup InRows(f, R, i - 1)],
        IF i - 1 = Len(R.batch) THEN "ok" ELSE "InternalError", i - 1, 0)
      \in Atomic!InsertResult(before, R)
  <2>1. i - 1 < Len(R.batch) => Atomic!Taken(before, R, (i - 1) + 1)
    BY <1>4, <1>5
  <2> DEFINE k == i - 1
  <2>2. k \in 0..Len(R.batch) /\ (k < Len(R.batch) => Atomic!Taken(before, R, k + 1))
    BY <1>5, <2>1
  <2>3. /\ f \in [1..k -> Free(before)]
        /\ \A j, m \in 1..k : f[j] = f[m] => j = m
        /\ \A j \in 1..k : ~Atomic!Taken(before, R, j)
    BY <1>3
  <2> HIDE DEF k
  <2>4. Atomic!Outcome(
          [schemas     |-> before.schemas \cup {R.ns[1]},
           collections |-> before.collections \cup {R.ns},
           docs        |-> before.docs \cup InRows(f, R, k)],
          IF k = Len(R.batch) THEN "ok" ELSE "InternalError", k, 0)
        \in Atomic!InsertResult(before, R)
    BY <1>1, <2>2, <2>3, InsertResultIs
  <2> QED
    BY <2>4 DEF k
<1>7. Atomic!Outcome(Now, "InternalError", n[Client], mod[Client])
      \in Atomic!InsertResult(before, R)
  BY <1>2, <1>3, <1>5, <1>6 DEF Now
<1>8. Now' = Now /\ n'[Client] = n[Client] /\ mod'[Client] = mod[Client]
      /\ pc'[Client] = "reply" /\ code'[Client] = "InternalError"
  BY Control DEF Now, store
<1> QED
  BY <1>1, <1>7, <1>8, Answers, ResultIs

\* The SELECT of an _id.
LEMMA IsIdUniqueStep ==
  ASSUME Ready, before' = before, IsIdUnique(Client)
  PROVE  Progress'
<1>1. At1 = "unique" /\ UNCHANGED store /\ UNCHANGED <<req, idx, n, mod>>
  BY DEF IsIdUnique, Read, locals, counters, At1
<1>2. Faults = {} /\ Exists(Client)
  BY <1>1, InLoopFacts DEF LoopLabels, OpsAt, Passed, Created, Exists
<1>3. \/ Goto(Client, "insert")
      \/ WithId(Ns(Client), Entry(Client).id) # {} /\ Answer(Client, "InternalError")
  BY <1>2 DEF IsIdUnique, Read
<1>4. CASE Goto(Client, "insert")
  <2>1. pc'[Client] = "insert"
    BY <1>4, Control
  <2>2. Found'
    BY <2>1 DEF Found, At1
  <2> QED
    BY <1>1, <2>1, <2>2, StaysAtEntry DEF LoopLabels
<1> QED
  BY <1>1, <1>3, <1>4, InsertFails

\* The INSERT of a document: its _id is not taken.
LEMMA InsertDocumentStep ==
  ASSUME Ready, before' = before, InsertDocument(Client)
  PROVE  Progress'
<1> DEFINE i == idx[Client]
<1>1. At1 = "insert" /\ req' = req /\ mod' = mod
  BY DEF InsertDocument, At1
<1>2. /\ Len(R.batch) \in Nat /\ i \in 1..Len(R.batch) /\ Passed /\ R.op = "insert"
      /\ Entry(Client) = R.batch[i] /\ Ns(Client) = R.ns /\ Faults = {}
      /\ n[Client] \in Nat
  BY <1>1, InLoopFacts DEF OpsAt, LoopLabels
<1>3. /\ schemas = before.schemas \cup {R.ns[1]}
      /\ collections = before.collections \cup {R.ns}
      /\ n[Client] = i - 1 /\ mod[Client] = 0
      /\ InsertedUpTo(i - 1)
  BY <1>2 DEF Passed, Created
<1>4. /\ InsertStmt(R.ns, R.batch[i].id, R.batch[i].val)
      /\ NextEntry(Client) /\ n' = [n EXCEPT ![Client] = @ + 1]
  BY <1>2, <1>3 DEF InsertDocument, Execute, Exists
<1>5. PICK x \in Rows \ {d.row : d \in docs} :
        /\ docs' = docs \cup {[row |-> x, ns |-> R.ns, id |-> R.batch[i].id,
                               val |-> R.batch[i].val]}
        /\ schemas' = schemas /\ collections' = collections
  BY <1>4 DEF InsertStmt
<1>6. PICK f \in [1..(i - 1) -> Free(before)] :
        /\ \A j, k \in 1..(i - 1) : f[j] = f[k] => j = k
        /\ docs = before.docs \cup InRows(f, R, i - 1)
        /\ \A j \in 1..(i - 1) : ~Atomic!Taken(before, R, j)
  BY <1>3 DEF InsertedUpTo
<1>7. WithId(R.ns, R.batch[i].id) = {}
  BY <1>1, <1>2, ReadyFacts DEF InsertWindow, At1
<1>8. ~Atomic!Taken(before, R, i)
  <2>1. ASSUME NEW d \in before.docs, d.ns = R.ns, d.id = R.batch[i].id PROVE FALSE
    BY <1>6, <1>7, <2>1 DEF WithId
  <2>2. ASSUME NEW j \in 1..(i - 1), R.batch[j].id = R.batch[i].id PROVE FALSE
    <3> DEFINE d == [row |-> f[j], ns |-> R.ns, id |-> R.batch[j].id,
                     val |-> R.batch[j].val]
    <3>1. d \in docs
      BY <1>6 DEF InRows
    <3>2. d.ns = R.ns /\ d.id = R.batch[i].id
      BY <2>2
    <3> HIDE DEF d
    <3> QED
      BY <1>7, <3>1, <3>2 DEF WithId
  <2> QED
    BY <2>1, <2>2 DEF Atomic!Taken
<1> DEFINE g == [j \in 1..i |-> IF j = i THEN x ELSE f[j]]
<1>9. x \in Free(before) /\ \A j \in 1..(i - 1) : f[j] # x
  <2>1. before.docs \subseteq docs
    BY <1>6
  <2>2. ASSUME NEW j \in 1..(i - 1) PROVE f[j] \in {d.row : d \in docs}
    <3> DEFINE d == [row |-> f[j], ns |-> R.ns, id |-> R.batch[j].id,
                     val |-> R.batch[j].val]
    <3>1. d \in docs
      BY <1>6 DEF InRows
    <3>2. d.row = f[j]
      OBVIOUS
    <3> HIDE DEF d
    <3> QED
      BY <3>1, <3>2
  <2> QED
    BY <1>5, <2>1, <2>2 DEF Free
<1>10. 1..i = 1..(i - 1) \cup {i} /\ i \notin 1..(i - 1) /\ i \in Nat
  BY <1>2
<1> HIDE DEF i
<1>11. g \in [1..i -> Free(before)]
       /\ (\A j \in 1..(i - 1) : g[j] = f[j]) /\ g[i] = x
  BY <1>6, <1>9, <1>10
<1> HIDE DEF g
<1>12. \A j, k \in 1..i : g[j] = g[k] => j = k
  BY <1>6, <1>9, <1>10, <1>11
<1>13. docs' = before.docs \cup InRows(g, R, i)
  BY <1>5, <1>6, <1>10, <1>11 DEF InRows
<1>14. \A j \in 1..i : ~Atomic!Taken(before, R, j)
  BY <1>6, <1>8, <1>10
<1>15. idx'[Client] - 1 = i /\ n'[Client] = i
  BY <1>3, <1>4, <1>10, ReadyFacts DEF NextEntry, i
<1>16. Passed'
  <2>1. InsertedUpTo(idx[Client] - 1)' <=>
          \E h \in [1..i -> Free(before)] :
            /\ \A j, k \in 1..i : h[j] = h[k] => j = k
            /\ docs' = before.docs \cup InRows(h, R, i)
            /\ \A j \in 1..i : ~Atomic!Taken(before, R, j)
    BY <1>1, <1>15 DEF InsertedUpTo, R
  <2>2. InsertedUpTo(idx[Client] - 1)'
    BY <1>11, <1>12, <1>13, <1>14, <2>1
  <2> QED
    BY <1>1, <1>2, <1>3, <1>5, <1>15, <2>2 DEF Passed, Created, R
<1> QED
  BY <1>1, <1>4, <1>16, EndsEntry DEF LoopLabels

-----------------------------------------------------------------------------
(* Steps of the loop: update and delete. *)

\* What SoFar says of the store and the counters.
LEMMA SoFarIs ==
  /\ SoFar.store = Now /\ SoFar.reply.code = "ok"
  /\ SoFar.reply.n = n[Client] /\ SoFar.reply.mod = mod[Client]
  /\ IsStore(Now) /\ Now.docs = docs /\ Now.collections = collections
  /\ \A ns, q : Atomic!Matching(SoFar.store, ns, q) = Where(ns, q.match)
BY DEF SoFar, Atomic!Outcome, Now, IsStore, Atomic!Matching, Where

\* An entry has been carried out.
LEMMA EntrySucceeds ==
  ASSUME Ready, At1 \in LoopLabels, R.op \in {"update", "delete"}, NextEntry(Client),
         req' = req, before' = before, schemas' = schemas, collections' = collections,
         R.op = "delete" => mod' = mod,
         Atomic!Outcome(Now', "ok", n'[Client], mod'[Client])
           \in Atomic!EntryResult(R, Entry(Client), SoFar)
  PROVE  Progress'
<1> DEFINE i == idx[Client]
<1>1. /\ Len(R.batch) \in Nat /\ i \in 1..Len(R.batch) /\ Passed
      /\ Entry(Client) = R.batch[i] /\ R.op # "insert"
  BY InLoopFacts
<1>2. SoFar \in Atomic!After(before, R)[i - 1] /\ Created({}, {})
  BY <1>1 DEF Passed
<1>3. Atomic!Outcome(Now', "ok", n'[Client], mod'[Client]) \in Atomic!After(before, R)[i]
  BY <1>1, <1>2, SoFarIs, OneEntry
<1>4. idx'[Client] - 1 = i
  BY <1>1, ReadyFacts DEF NextEntry
<1>5. Passed'
  BY <1>1, <1>2, <1>3, <1>4 DEF Passed, Created, SoFar, R
<1> QED
  BY <1>5, EndsEntry

\* An entry has ended the request.
LEMMA EntryFails ==
  ASSUME Ready, At1 \in LoopLabels, R.op \in {"update", "delete"},
         NEW k, k # "ok", Answer(Client, k),
         UNCHANGED store, UNCHANGED <<req, n, mod>>, before' = before,
         Atomic!Outcome(Now, k, n[Client], mod[Client])
           \in Atomic!EntryResult(R, Entry(Client), SoFar)
  PROVE  Progress'
<1> DEFINE i == idx[Client]
           o == Atomic!Outcome(Now, k, n[Client], mod[Client])
<1>1. /\ Len(R.batch) \in Nat /\ i \in 1..Len(R.batch) /\ Passed
      /\ Entry(Client) = R.batch[i] /\ R.op # "insert"
  BY InLoopFacts
<1>2. /\ SoFar \in Atomic!After(before, R)[i - 1] /\ Created({}, {})
      /\ R.ns \in collections \/ (R.op = "delete" /\ R.ns[2] \in GuiColls)
  BY <1>1 DEF Passed
<1>3. o \in Atomic!After(before, R)[i]
  BY <1>1, <1>2, SoFarIs, OneEntry
<1>4. o.reply.code = k
  BY DEF Atomic!Outcome
<1>5. i \in 0..Len(R.batch)
  BY <1>1
<1>6. o \in Atomic!BatchResult(before, R)
  <2> HIDE DEF o, i
  <2> QED
    BY <1>1, <1>3, <1>4, <1>5, ErrorsPersist
<1>7. Atomic!Result(before, R) = Atomic!BatchResult(before, R)
  BY <1>2, ResultIs DEF Created
<1>8. Now' = Now /\ n'[Client] = n[Client] /\ mod'[Client] = mod[Client]
      /\ pc'[Client] = "reply" /\ code'[Client] = k
  BY Control DEF Now, store
<1> QED
  BY <1>6, <1>7, <1>8, Answers

\* What an entry of an update may do.
LEMMA UpdateEntryIs ==
  ASSUME NEW r, r.op = "update", NEW e, NEW o
  PROVE  LET differ == Atomic!Differing(r.ns, e, o)
             result == Atomic!EntryResult(r, e, o)
             Then(S) == Atomic!Updating(r.ns, e, o, S)
         IN /\ e.q.text = "rejected" =>
                 \A k \in {"NotImplemented", "InternalError"} :
                   Atomic!Failing(o, k) \in result
            /\ e.q.text # "rejected" /\ (e.multi \/ differ = {}) =>
                 Then(differ) \in result
            /\ e.q.text # "rejected" /\ ~e.multi =>
                 \A d \in differ : Then({d}) \in result
<1>1. Atomic!EntryResult(r, e, o) = Atomic!UpdateEntryResult(r.ns, e, o)
  BY DEF Atomic!EntryResult
<1>2. CASE e.q.text = "rejected"
  BY <1>1, <1>2 DEF Atomic!UpdateEntryResult, Atomic!Unsupported
<1>3. CASE e.q.text # "rejected"
  BY <1>1, <1>3 DEF Atomic!UpdateEntryResult
<1> QED
  BY <1>2, <1>3

\* AtomicCommands counts with the Cardinality it extends.
LEMMA SameCardinality == \A S : Atomic!Cardinality(S) = Cardinality(S)
BY DEF Atomic!Cardinality, Cardinality

\* The same, in the handler's terms.
LEMMA UpdatingIs ==
  LET e == Entry(Client)
      m == Where(R.ns, e.q.match)
  IN /\ Atomic!Differing(R.ns, e, SoFar) = NeedsUpdate(e, m)
     /\ \A S : Atomic!Updating(R.ns, e, SoFar, S) =
                Atomic!Outcome(Atomic!WithVal(Now, S, e.set), "ok",
                  n[Client] + Cardinality(m), mod[Client] + Cardinality(S))
     /\ \A k : Atomic!Failing(SoFar, k) = Atomic!Outcome(Now, k, n[Client], mod[Client])
<1> DEFINE e == Entry(Client)
           m == Where(R.ns, e.q.match)
<1>1. Atomic!Matching(SoFar.store, R.ns, e.q) = m
  BY SoFarIs
<1> HIDE DEF m
<1>2. Atomic!Differing(R.ns, e, SoFar) = NeedsUpdate(e, m)
  BY <1>1 DEF Atomic!Differing, NeedsUpdate
<1>3. ASSUME NEW S
      PROVE  Atomic!Updating(R.ns, e, SoFar, S) =
               Atomic!Outcome(Atomic!WithVal(Now, S, e.set), "ok",
                 n[Client] + Cardinality(m), mod[Client] + Cardinality(S))
  BY <1>1, SoFarIs, SameCardinality DEF Atomic!Updating
<1>4. \A k : Atomic!Failing(SoFar, k) = Atomic!Outcome(Now, k, n[Client], mod[Client])
  BY SoFarIs DEF Atomic!Failing
<1> QED
  BY <1>2, <1>3, <1>4 DEF m

\* The store after an UPDATE.
LEMMA StoreUpdated ==
  ASSUME NEW v
  PROVE  /\ \A S : UpdateStmt(S, v) => Now' = Atomic!WithVal(Now, S, v)
         /\ Atomic!WithVal(Now, {}, v) = Now
<1>1. ASSUME NEW S, UpdateStmt(S, v) PROVE Now' = Atomic!WithVal(Now, S, v)
  <2> DEFINE D == (docs \ S) \cup {[d EXCEPT !.val = v] : d \in S}
  <2>1. docs' = D /\ schemas' = schemas /\ collections' = collections
    BY <1>1 DEF UpdateStmt
  <2>2. Atomic!WithVal(Now, S, v) = [Now EXCEPT !.docs = D]
    BY SoFarIs DEF Atomic!WithVal
  <2> HIDE DEF D
  <2> QED
    BY <2>1, <2>2, SoFarIs, StoreExcept DEF Now
<1>2. Atomic!WithVal(Now, {}, v) = Now
  <2> DEFINE D == (docs \ {}) \cup {[d EXCEPT !.val = v] : d \in {}}
  <2>1. D = docs
    OBVIOUS
  <2>2. Atomic!WithVal(Now, {}, v) = [Now EXCEPT !.docs = D]
    BY SoFarIs DEF Atomic!WithVal
  <2> HIDE DEF D
  <2> QED
    BY <2>1, <2>2, SoFarIs, StoreExcept DEF Now
<1> QED
  BY <1>1, <1>2

\* The shape of the entry that an update or a delete is at.
LEMMA EntryFacts ==
  ASSUME Ready, At1 \in LoopLabels
  PROVE  /\ R.op = "update" => /\ Entry(Client) \in UpdateEntry
                               /\ Entry(Client).q.text \in Texts
                               /\ Entry(Client).multi \in BOOLEAN
                               /\ Entry(Client).q.text # "empty"
                               /\ R.ns \in collections
         /\ R.op = "delete" => /\ Entry(Client) \in DeleteEntry
                               /\ Entry(Client).q.text \in Texts
                               /\ Entry(Client).one \in BOOLEAN
                               /\ mod[Client] = 0
         /\ R.op \in {"update", "delete"} =>
              (Rejected(Client) <=> Entry(Client).q.text = "rejected")
         /\ (IF R.op = "update" THEN Entry(Client).multi
                                ELSE R.op = "delete" /\ ~Entry(Client).one) =>
              Entry(Client).q.text = "rejected" \/ Literal(Entry(Client).q)
<1>1. /\ R \in Request /\ R.op \in BatchOps /\ Passed
      /\ idx[Client] \in Nat \ {0} /\ idx[Client] <= Len(R.batch)
      /\ Entry(Client) = R.batch[idx[Client]]
  BY InLoopFacts
<1>2. /\ R.op = "update" => Entry(Client) \in UpdateEntry /\ R.ns \in collections
      /\ R.op = "delete" => Entry(Client) \in DeleteEntry /\ mod[Client] = 0
  BY <1>1, EntryShape DEF Passed
<1>3. R \in Requests[Client] /\ AsTranslated
  BY ReadyFacts DEF Ready, TypeOK, ControlOK, R
<1>4. R.op \in {"update", "delete"} => idx[Client] \in DOMAIN R.batch
  BY <1>1, RequestShape
<1> DEFINE e == Entry(Client)
<1>5. /\ R.op = "update" => e.q.text # "empty"
      /\ R.op = "update" /\ e.multi => e.q.text = "rejected" \/ Literal(e.q)
      /\ R.op = "delete" /\ ~e.one => e.q.text = "rejected" \/ Literal(e.q)
  BY <1>1, <1>3, <1>4 DEF AsTranslated
<1> QED
  BY <1>2, <1>5 DEF UpdateEntry, DeleteEntry, Filter, Rejected, FilterOf, R

\* The SELECT COUNT of an update's entry.
LEMMA CountMatchedStep ==
  ASSUME Ready, before' = before, CountMatched(Client)
  PROVE  Progress'
<1> DEFINE e == Entry(Client)
           m == Where(R.ns, e.q.match)
<1>1. /\ At1 = "count" /\ ~Rejected(Client) /\ UNCHANGED store
      /\ UNCHANGED <<req, idx, n, mod>> /\ docs' = docs
  BY DEF CountMatched, Read, counters, At1, store
<1>2. Faults = {} /\ R.op = "update" /\ Exists(Client) /\ Ns(Client) = R.ns
  BY <1>1, InLoopFacts, EntryFacts DEF LoopLabels, OpsAt, Exists
<1>3. /\ matched' = [matched EXCEPT ![Client] = Cardinality(m)]
      /\ Goto(Client, IF e.multi THEN "update" ELSE "pick")
  BY <1>2 DEF CountMatched, Read
<1>4. /\ matched'[Client] = Cardinality(m)
      /\ pc'[Client] = IF e.multi THEN "update" ELSE "pick"
  BY <1>3, Control, ReadyFacts
<1>5. e.q.text # "rejected"
  BY <1>1, <1>2, EntryFacts DEF LoopLabels
<1>6. R' = R /\ Entry(Client)' = e /\ Where(R.ns, e.q.match)' = m
  BY <1>1 DEF R, Entry, Where
<1>7. Found'
  BY <1>2, <1>4, <1>5, <1>6 DEF Found, At1
<1> QED
  BY <1>1, <1>4, <1>7, StaysAtEntry DEF LoopLabels

\* updateOne's SELECT.
LEMMA PickForUpdateStep ==
  ASSUME Ready, before' = before, PickForUpdate(Client)
  PROVE  Progress'
<1> DEFINE e == Entry(Client)
           m == Where(R.ns, e.q.match)
<1>1. /\ At1 = "pick" /\ R.op = "update" /\ UNCHANGED store
      /\ UNCHANGED <<req, matched, mod>> /\ docs' = docs
  BY DEF PickForUpdate, Read, At1, R, store
<1>2. /\ Faults = {} /\ Exists(Client) /\ Ns(Client) = R.ns /\ Found
      /\ e.q.text \notin {"rejected", "empty"} /\ ~e.multi
      /\ matched[Client] = Cardinality(m)
  BY <1>1, InLoopFacts, EntryFacts DEF LoopLabels, Exists, Found
<1>3. CASE /\ \E d \in NeedsUpdate(e, m) : target' = [target EXCEPT ![Client] = {d.id}]
           /\ Goto(Client, "update") /\ UNCHANGED <<idx, n>>
  <2>1. /\ pc'[Client] = "update"
        /\ \E d \in NeedsUpdate(e, m) : target'[Client] = {d.id}
    BY <1>3, Control, ReadyFacts
  <2>2. /\ R' = R /\ Entry(Client)' = e /\ Where(R.ns, e.q.match)' = m
        /\ NeedsUpdate(e, m)' = NeedsUpdate(e, m)
    BY <1>1, <1>3 DEF R, Entry, Where, NeedsUpdate
  <2>3. Found'
    BY <1>1, <1>2, <1>3, <2>1, <2>2 DEF Found, At1
  <2> QED
    BY <1>1, <1>3, <2>1, <2>3, StaysAtEntry DEF LoopLabels
<1>4. CASE /\ NeedsUpdate(e, m) = {}
           /\ NextEntry(Client) /\ n' = [n EXCEPT ![Client] = @ + matched[Client]]
  <2>1. /\ Now' = Now /\ mod'[Client] = mod[Client] + 0
        /\ n'[Client] = n[Client] + Cardinality(m) /\ Cardinality({}) = 0
    BY <1>1, <1>2, <1>4, ReadyFacts, FS_EmptySet DEF Now, store
  <2>2. Atomic!Outcome(Atomic!WithVal(Now, {}, e.set), "ok",
                       n[Client] + Cardinality(m), mod[Client] + Cardinality({}))
          \in Atomic!EntryResult(R, e, SoFar)
    BY <1>1, <1>2, <1>4, UpdatingIs, UpdateEntryIs
  <2>3. Atomic!Outcome(Now', "ok", n'[Client], mod'[Client])
          \in Atomic!EntryResult(R, e, SoFar)
    BY <2>1, <2>2, StoreUpdated
  <2> QED
    BY <1>1, <1>4, <2>3, EntrySucceeds DEF LoopLabels, store
<1> QED
  BY <1>2, <1>3, <1>4 DEF PickForUpdate, Read, UpdateParses

\* The UPDATE.
LEMMA UpdateDocumentsStep ==
  ASSUME Ready, before' = before, UpdateDocuments(Client)
  PROVE  Progress'
<1> DEFINE e == Entry(Client)
           m == Where(R.ns, e.q.match)
           Then(S) == Atomic!Outcome(Atomic!WithVal(Now, S, e.set), "ok",
                        n[Client] + Cardinality(m), mod[Client] + Cardinality(S))
<1>1. At1 = "update" /\ req' = req
  BY DEF UpdateDocuments, At1
<1>2. /\ Faults = {} /\ Exists(Client) /\ Ns(Client) = R.ns /\ Found /\ R.op = "update"
      /\ e.q.text # "rejected" /\ matched[Client] = Cardinality(m)
      /\ e.q.text # "empty" /\ (e.multi => Literal(e.q))
  <2>1. Found /\ R.op = "update" /\ Faults = {} /\ Ns(Client) = R.ns
    BY <1>1, InLoopFacts DEF LoopLabels, OpsAt
  <2>2. e.q.text # "rejected" /\ matched[Client] = Cardinality(m)
    BY <1>1, <2>1 DEF Found
  <2> QED
    BY <1>1, <2>1, <2>2, EntryFacts DEF LoopLabels, Exists
<1>3. CASE /\ UpdateStmt(Updated(Client), e.set) /\ NextEntry(Client)
           /\ n' = [n EXCEPT ![Client] = @ + matched[Client]]
           /\ mod' = [mod EXCEPT ![Client] = @ + ModifiedBy(Client)]
  <2>1. /\ n'[Client] = n[Client] + Cardinality(m)
        /\ mod'[Client] = mod[Client] + ModifiedBy(Client)
        /\ schemas' = schemas /\ collections' = collections
    BY <1>2, <1>3, ReadyFacts DEF UpdateStmt
  <2>2. Now' = Atomic!WithVal(Now, Updated(Client), e.set)
    BY <1>3, StoreUpdated
  <2>3. ModifiedBy(Client) = Cardinality(Updated(Client))
        /\ Then(Updated(Client)) \in Atomic!EntryResult(R, e, SoFar)
    <3>1. CASE e.multi
      <4>1. Updated(Client) = NeedsUpdate(e, m)
        BY <1>2, <3>1 DEF Updated, ManyMatch, Literal
      <4>2. Atomic!Updating(R.ns, e, SoFar, Atomic!Differing(R.ns, e, SoFar))
              \in Atomic!EntryResult(R, e, SoFar)
        BY <1>2, <3>1, UpdateEntryIs
      <4> QED
        BY <3>1, <4>1, <4>2, UpdatingIs DEF ModifiedBy
    <3>2. CASE ~e.multi
      <4>1. PICK d \in NeedsUpdate(e, m) : target[Client] = {d.id}
        BY <1>1, <1>2, <3>2 DEF Found
      <4>2. d \in docs /\ d.ns = R.ns
        BY <4>1 DEF NeedsUpdate, Where
      <4>3. Updated(Client) = {d}
        BY <1>2, <3>2, <4>1, <4>2, ReadyFacts DEF Updated, UniqueIds
      <4>4. Cardinality({d}) = 1
        BY FS_Singleton
      <4>5. Atomic!Updating(R.ns, e, SoFar, {d}) \in Atomic!EntryResult(R, e, SoFar)
        <5>1. d \in Atomic!Differing(R.ns, e, SoFar)
          BY <4>1, UpdatingIs
        <5> HIDE DEF e
        <5> QED
          BY <1>2, <3>2, <4>1, <5>1, UpdateEntryIs
      <4> QED
        BY <3>2, <4>3, <4>4, <4>5, UpdatingIs DEF ModifiedBy
    <3> QED
      BY <3>1, <3>2
  <2>4. Atomic!Outcome(Now', "ok", n'[Client], mod'[Client])
          \in Atomic!EntryResult(R, e, SoFar)
    BY <2>1, <2>2, <2>3
  <2> QED
    BY <1>1, <1>2, <1>3, <2>1, <2>4, EntrySucceeds DEF LoopLabels
<1>4. e.multi => UpdateParses(e) /\ ManyParses(e)
  BY <1>2 DEF UpdateParses, ManyParses, Literal
<1>5. /\ UpdateStmt(Updated(Client), e.set) /\ NextEntry(Client)
      /\ n' = [n EXCEPT ![Client] = @ + matched[Client]]
      /\ mod' = [mod EXCEPT ![Client] = @ + ModifiedBy(Client)]
  BY <1>2, <1>4 DEF UpdateDocuments, Execute
<1> QED
  BY <1>3, <1>5

\* What an entry of a delete may do.
LEMMA DeleteEntryIs ==
  ASSUME NEW r, r.op = "delete", NEW e, NEW o
  PROVE  LET m == Atomic!Matching(o.store, r.ns, e.q)
             result == Atomic!EntryResult(r, e, o)
         IN /\ e.q.text = "rejected" =>
                 \A k \in {"NotImplemented", "InternalError"} :
                   Atomic!Failing(o, k) \in result
            /\ e.one /\ e.q.text # "rejected" =>
                 /\ m = {} => Atomic!Removing(o, {}) \in result
                 /\ \A d \in m : Atomic!Removing(o, {d}) \in result
            /\ ~e.one /\ e.q.text # "rejected" =>
                 IF r.ns \in o.store.collections
                   THEN Atomic!Removing(o, m) \in result
                   ELSE Atomic!Failing(o, "NamespaceNotFound") \in result
<1>1. Atomic!EntryResult(r, e, o) = Atomic!DeleteEntryResult(r.ns, e, o)
  BY DEF Atomic!EntryResult
<1>2. CASE e.q.text = "rejected"
  BY <1>1, <1>2 DEF Atomic!DeleteEntryResult, Atomic!Unsupported
<1>3. CASE e.q.text # "rejected" /\ ~e.one
  BY <1>1, <1>3 DEF Atomic!DeleteEntryResult
<1>4. CASE e.q.text # "rejected" /\ e.one
  BY <1>1, <1>4 DEF Atomic!DeleteEntryResult
<1> QED
  BY <1>2, <1>3, <1>4

\* The same, in the handler's terms.
LEMMA RemovingIs ==
  ASSUME NEW S
  PROVE  /\ DeleteStmt(S) =>
              Atomic!Removing(SoFar, S) =
                Atomic!Outcome(Now', "ok", n[Client] + Cardinality(S), mod[Client])
         /\ Atomic!Removing(SoFar, {}) =
              Atomic!Outcome(Now, "ok", n[Client] + Cardinality({}), mod[Client])
<1>1. Atomic!Removing(SoFar, S) =
        Atomic!Outcome([Now EXCEPT !.docs = docs \ S], "ok",
                       n[Client] + Cardinality(S), mod[Client])
  BY SoFarIs, SameCardinality DEF Atomic!Removing
<1>2. Atomic!Removing(SoFar, {}) =
        Atomic!Outcome([Now EXCEPT !.docs = docs \ {}], "ok",
                       n[Client] + Cardinality({}), mod[Client])
  BY SoFarIs, SameCardinality DEF Atomic!Removing
<1>3. ASSUME DeleteStmt(S) PROVE [Now EXCEPT !.docs = docs \ S] = Now'
  BY <1>3, SoFarIs, StoreExcept DEF DeleteStmt, Now
<1>4. [Now EXCEPT !.docs = docs \ {}] = Now
  BY SoFarIs, StoreExcept, docs \ {} = docs DEF Now
<1> QED
  BY <1>1, <1>2, <1>3, <1>4

\* deleteOne's SELECT.
LEMMA PickForDeleteStep ==
  ASSUME Ready, before' = before, PickForDelete(Client)
  PROVE  Progress'
<1> DEFINE e == Entry(Client)
           m == Where(R.ns, e.q.match)
<1>1. /\ At1 = "pick" /\ R.op = "delete" /\ UNCHANGED store /\ ~Rejected(Client)
      /\ UNCHANGED <<req, n, mod>> /\ docs' = docs /\ collections' = collections
  BY DEF PickForDelete, Read, At1, R, store, counters
<1>2. /\ Faults = {} /\ Ns(Client) = R.ns /\ Found /\ e.one /\ e.q.text # "rejected"
      /\ StoreSound
  BY <1>1, InLoopFacts, EntryFacts, ReadyFacts DEF LoopLabels, Found
<1>3. CASE /\ R.ns \in collections
           /\ \E d \in m : target' = [target EXCEPT ![Client] = {d.id}]
           /\ Goto(Client, "delete") /\ UNCHANGED idx
  <2>1. pc'[Client] = "delete" /\ \E d \in m : target'[Client] = {d.id}
    BY <1>3, Control, ReadyFacts
  <2>2. R' = R /\ Entry(Client)' = e /\ Where(R.ns, e.q.match)' = m
    BY <1>1, <1>3 DEF R, Entry, Where
  <2>3. Found'
    BY <1>1, <1>2, <1>3, <2>1, <2>2 DEF Found, At1
  <2> QED
    BY <1>1, <1>3, <2>1, <2>3, StaysAtEntry DEF LoopLabels
<1>4. CASE NextEntry(Client) /\ (R.ns \notin collections \/ m = {})
  <2>1. m = {}
    BY <1>2, <1>4 DEF StoreSound, Where
  <2>2. Now' = Now /\ n[Client] + Cardinality({}) = n[Client]
        /\ n' = n /\ mod' = mod
    BY <1>1, ReadyFacts, FS_EmptySet DEF Now, store
  <2>3. Atomic!Removing(SoFar, {}) \in Atomic!EntryResult(R, e, SoFar)
    BY <1>1, <1>2, <2>1, SoFarIs, DeleteEntryIs
  <2>4. Atomic!Outcome(Now', "ok", n'[Client], mod'[Client])
          \in Atomic!EntryResult(R, e, SoFar)
    BY <2>2, <2>3, RemovingIs
  <2> QED
    BY <1>1, <1>4, <2>4, EntrySucceeds DEF LoopLabels, store
<1> QED
  BY <1>2, <1>3, <1>4 DEF PickForDelete, Read, Exists

\* The DELETE.
LEMMA DeleteDocumentsStep ==
  ASSUME Ready, before' = before, DeleteDocuments(Client)
  PROVE  Progress'
<1> DEFINE e == Entry(Client)
           m == Where(R.ns, e.q.match)
<1>1. /\ At1 = "delete" /\ req' = req /\ mod' = mod /\ (~e.one => ~Rejected(Client))
  BY DEF DeleteDocuments, At1
<1>2. /\ Faults = {} /\ Ns(Client) = R.ns /\ Found /\ R.op = "delete"
      /\ e.one \in BOOLEAN /\ e.q.text \in Texts
      /\ Rejected(Client) <=> e.q.text = "rejected"
      /\ ~e.one => e.q.text = "rejected" \/ Literal(e.q)
  BY <1>1, InLoopFacts, EntryFacts DEF LoopLabels, OpsAt
<1>3. /\ e.q.text # "rejected" /\ (~e.one => Literal(e.q))
      /\ e.one => /\ R.ns \in collections
                  /\ \E d \in m : target[Client] = {d.id}
  BY <1>1, <1>2 DEF Found
<1>4. CASE /\ R.ns \in collections
           /\ DeleteStmt(Deleted(Client)) /\ NextEntry(Client)
           /\ n' = [n EXCEPT ![Client] = @ + Cardinality(Deleted(Client))]
  <2>1. /\ n'[Client] = n[Client] + Cardinality(Deleted(Client))
        /\ schemas' = schemas /\ collections' = collections
        /\ mod'[Client] = mod[Client]
    BY <1>1, <1>4, ReadyFacts DEF DeleteStmt
  <2>2. Atomic!Removing(SoFar, Deleted(Client)) \in Atomic!EntryResult(R, e, SoFar)
    <3>1. CASE e.one
      <4>1. PICK d \in m : target[Client] = {d.id}
        BY <1>3, <3>1
      <4>2. d \in docs /\ d.ns = R.ns
        BY <4>1 DEF Where
      <4>3. Deleted(Client) = {d}
        BY <1>2, <3>1, <4>1, <4>2, ReadyFacts DEF Deleted, UniqueIds
      <4>4. d \in Atomic!Matching(SoFar.store, R.ns, e.q)
        BY <4>1, SoFarIs
      <4> HIDE DEF e, m
      <4>5. Atomic!Removing(SoFar, {d}) \in Atomic!EntryResult(R, e, SoFar)
        BY <1>2, <1>3, <3>1, <4>4, DeleteEntryIs
      <4> QED
        BY <4>3, <4>5
    <3>2. CASE ~e.one
      <4>1. Deleted(Client) = Atomic!Matching(SoFar.store, R.ns, e.q)
        BY <1>2, <1>3, <3>2, SoFarIs DEF Deleted, ManyMatch, Literal
      <4> QED
        BY <1>2, <1>3, <1>4, <3>2, <4>1, SoFarIs, DeleteEntryIs
    <3> QED
      BY <1>2, <3>1, <3>2
  <2>3. Atomic!Outcome(Now', "ok", n'[Client], mod'[Client])
          \in Atomic!EntryResult(R, e, SoFar)
    BY <1>4, <2>1, <2>2, RemovingIs
  <2> QED
    BY <1>1, <1>2, <1>4, <2>1, <2>3, EntrySucceeds DEF LoopLabels
<1>5. CASE /\ ~e.one /\ R.ns \notin collections
           /\ UNCHANGED store /\ Answer(Client, "NamespaceNotFound") /\ UNCHANGED n
  <2>1. Atomic!Outcome(Now, "NamespaceNotFound", n[Client], mod[Client])
          \in Atomic!EntryResult(R, e, SoFar)
    BY <1>2, <1>3, <1>5, SoFarIs, UpdatingIs, DeleteEntryIs
  <2> QED
    BY <1>1, <1>2, <1>5, <2>1, EntryFails DEF LoopLabels
<1>6. \/ /\ R.ns \in collections
         /\ DeleteStmt(Deleted(Client)) /\ NextEntry(Client)
         /\ n' = [n EXCEPT ![Client] = @ + Cardinality(Deleted(Client))]
      \/ /\ R.ns \notin collections
         /\ UNCHANGED store /\ Answer(Client, "NamespaceNotFound") /\ UNCHANGED n
  BY <1>2, <1>3 DEF DeleteDocuments, Execute, Exists, ManyParses, Literal
<1> QED
  BY <1>2, <1>3, <1>4, <1>5, <1>6

-----------------------------------------------------------------------------
(* Filters that are not translated, and the reads. *)

\* What find and count may do.
LEMMA ReadResultIs ==
  ASSUME NEW s, NEW r, r.op \in {"find", "count"}
  PROVE  LET result == Atomic!Result(s, r)
             known == r.ns \in s.collections
             gui == r.ns[2] \in GuiColls
             canned == r.op = "find" /\ gui
         IN /\ r.q.text = "rejected" /\ (known \/ gui) =>
                 \A k \in {"NotImplemented", "InternalError"} :
                   Atomic!Outcome(s, k, 0, 0) \in result
            /\ r.q.text # "rejected" /\ known /\ ~canned =>
                 Atomic!Outcome(s, "ok",
                   Cardinality(Atomic!Matching(s, r.ns, r.q)), 0) \in result
            /\ r.q.text # "rejected" /\ ~known /\ ~canned =>
                 Atomic!Outcome(s, "InternalError", 0, 0) \in result
<1>1. Atomic!Result(s, r) = Atomic!ReadResult(s, r)
  BY ResultIs
<1>2. \A k : Atomic!Failing(Atomic!Outcome(s, "ok", 0, 0), k) = Atomic!Outcome(s, k, 0, 0)
  BY DEF Atomic!Failing, Atomic!Outcome
<1>3. CASE r.q.text = "rejected"
  BY <1>1, <1>2, <1>3 DEF Atomic!ReadResult, Atomic!Has, Atomic!Unsupported
<1>4. CASE r.q.text # "rejected" /\ ~(r.op = "find" /\ r.ns[2] \in GuiColls)
  BY <1>1, <1>4, SameCardinality DEF Atomic!ReadResult, Atomic!Has, Atomic!Fail
<1> QED
  BY <1>3, <1>4

\* A filter or an update is refused.
LEMMA RejectStep ==
  ASSUME Ready, before' = before, Reject(Client)
  PROVE  Progress'
<1>1. /\ At1 \in {"count", "pick", "delete", "query"} /\ Rejected(Client)
      /\ UNCHANGED store /\ UNCHANGED <<req, n, mod>>
  BY DEF Reject, At1, locals, counters
<1>2. PICK k \in {"NotImplemented", "InternalError"} : Answer(Client, k)
  BY DEF Reject
<1>3. CASE At1 = "query"
  <2>1. R.op \in {"find", "count"} /\ Querying
    BY <1>3, ReadyFacts DEF OpsAt, Progress
  <2>2. R.q.text = "rejected"
    BY <1>1, <2>1 DEF Rejected, FilterOf, R
  <2>3. Now = before /\ n[Client] = 0 /\ mod[Client] = 0
    BY <1>3, NothingYet DEF LoopLabels
  <2>4. Atomic!Outcome(before, k, 0, 0) \in Atomic!Result(before, R)
    BY <1>3, <2>1, <2>2, <2>3, ReadResultIs DEF Querying, Now
  <2>5. Now' = before /\ n'[Client] = 0 /\ mod'[Client] = 0
        /\ pc'[Client] = "reply" /\ code'[Client] = k
    BY <1>1, <1>2, <2>3, Control DEF Now, store
  <2> QED
    BY <1>1, <2>4, <2>5, Answers
<1>4. CASE At1 # "query"
  <2>1. At1 \in LoopLabels /\ R.op \in {"update", "delete"}
    BY <1>1, <1>4, ReadyFacts DEF LoopLabels, OpsAt
  <2>2. Entry(Client).q.text = "rejected"
    BY <1>1, <2>1, EntryFacts
  <2>3. Atomic!Failing(SoFar, k) \in Atomic!EntryResult(R, Entry(Client), SoFar)
    BY <2>1, <2>2, UpdateEntryIs, DeleteEntryIs
  <2>4. Atomic!Outcome(Now, k, n[Client], mod[Client])
          \in Atomic!EntryResult(R, Entry(Client), SoFar)
    BY <2>3, UpdatingIs
  <2> QED
    BY <1>1, <1>2, <2>1, <2>4, EntryFails
<1> QED
  BY <1>3, <1>4

\* The SELECT of find and count.
LEMMA QueryStep ==
  ASSUME Ready, before' = before, Query(Client)
  PROVE  Progress'
<1>1. /\ At1 = "query" /\ ~Rejected(Client) /\ UNCHANGED store
      /\ UNCHANGED <<req, mod>>
  BY DEF Query, Read, At1
<1>2. R.op \in {"find", "count"} /\ Querying /\ Faults = {} /\ Client \in Conns
      /\ n \in [Conns -> Nat]
  BY <1>1, ReadyFacts DEF OpsAt, Progress
<1>3. /\ R.q.text # "rejected" /\ req[Client].q = R.q /\ Ns(Client) = R.ns
      /\ ~(R.op = "find" /\ R.ns[2] \in GuiColls)
  BY <1>1, <1>2 DEF Rejected, FilterOf, R, Querying, Ns
<1>4. Now = before /\ n[Client] = 0 /\ mod[Client] = 0
  BY <1>1, NothingYet DEF LoopLabels
<1>5. Now' = before /\ mod'[Client] = 0 /\ before.collections = collections
  BY <1>1, <1>4 DEF Now, store
<1>6. CASE /\ R.ns \in collections /\ Goto(Client, "reply")
           /\ n' = [n EXCEPT ![Client] = Cardinality(Where(R.ns, R.q.match))]
  <2>1. Where(R.ns, R.q.match) = Atomic!Matching(before, R.ns, R.q)
    BY <1>4 DEF Where, Atomic!Matching, Now
  <2>2. Atomic!Outcome(before, "ok", Cardinality(Atomic!Matching(before, R.ns, R.q)), 0)
          \in Atomic!Result(before, R)
    BY <1>2, <1>3, <1>5, <1>6, ReadResultIs
  <2>3. n'[Client] = Cardinality(Where(R.ns, R.q.match))
        /\ pc'[Client] = "reply" /\ code'[Client] = "ok"
    BY <1>2, <1>6, Control
  <2> QED
    BY <1>1, <1>5, <2>1, <2>2, <2>3, Answers
<1>7. CASE R.ns \notin collections /\ Answer(Client, "InternalError") /\ n' = n
  <2>1. Atomic!Outcome(before, "InternalError", 0, 0) \in Atomic!Result(before, R)
    BY <1>2, <1>3, <1>5, <1>7, ReadResultIs
  <2>2. pc'[Client] = "reply" /\ code'[Client] = "InternalError"
    BY <1>7, Control
  <2> QED
    BY <1>1, <1>4, <1>5, <1>7, <2>1, <2>2, Answers
<1> QED
  BY <1>2, <1>3, <1>6, <1>7 DEF Query, Read, Exists

-----------------------------------------------------------------------------
(* The lists. *)

\* listDatabases goes on with a database that there is, or is done.
LEMMA NextDatabaseProgress ==
  ASSUME Ready, R.op = "listDatabases", Now = before, n[Client] = 0, mod[Client] = 0,
         UNCHANGED store, UNCHANGED <<req, n, mod>>, before' = before,
         NEW S \in SUBSET schemas, NextDatabase(Client, S)
  PROVE  Progress'
<1>1. Now' = before /\ n'[Client] = 0 /\ mod'[Client] = 0 /\ IsStore(before)
      /\ schemas' = schemas /\ collections' = collections /\ docs' = docs
  BY ReadyFacts DEF Now, store
<1>2. CASE Goto(Client, "reply")
  <2>1. pc'[Client] = "reply" /\ code'[Client] = "ok"
    BY <1>2, Control
  <2>2. Atomic!Outcome(before, "ok", 0, 0) \in Atomic!Result(before, R)
    <3>1. Atomic!Result(before, R) = {Atomic!Outcome(before, "ok", 0, 0)}
      BY <1>1, ListResultIs, Zenon
    <3> QED
      BY <3>1
  <2> QED
    BY <1>1, <2>1, <2>2, Answers
<1>3. CASE /\ Goto(Client, "schema")
           /\ \E db \in S : list' = [list EXCEPT ![Client] =
                              [dbs |-> S \ {db}, db |-> {db}, tables |-> {}]]
  <2>1. PICK db \in S : list'[Client] = [dbs |-> S \ {db}, db |-> {db}, tables |-> {}]
    BY <1>3, ReadyFacts
  <2>2. pc'[Client] = "schema"
    BY <1>3, Control
  <2>3. Listing'
    BY <1>1, <2>1, <2>2 DEF Listing, At1, R
  <2> QED
    BY <1>1, <2>2, <2>3
       DEF Progress, Preparing, Querying, Looping, Found, Done, At1, R,
           LoopLabels, Created, Now
<1> QED
  BY <1>2, <1>3 DEF NextDatabase

\* Schemas.
LEMMA ListSchemasStep ==
  ASSUME Ready, before' = before, ListSchemas(Client)
  PROVE  Progress'
<1>1. At1 = "schemas" /\ UNCHANGED store /\ UNCHANGED <<req, n, mod>>
  BY DEF ListSchemas, Read, At1, counters
<1>2. R.op = "listDatabases" /\ Faults = {}
  BY <1>1, ReadyFacts DEF OpsAt
<1>3. Now = before /\ n[Client] = 0 /\ mod[Client] = 0
  BY <1>1, NothingYet DEF LoopLabels
<1>4. NextDatabase(Client, schemas)
  BY <1>2 DEF ListSchemas, Read
<1> QED
  BY <1>1, <1>2, <1>3, <1>4, NextDatabaseProgress

\* Tables.
LEMMA ListTablesStep ==
  ASSUME Ready, before' = before, ListTables(Client)
  PROVE  Progress'
<1> DEFINE found == {coll \in CollNames : \E db \in DbOf(Client) : <<db, coll>> \in collections}
<1>1. /\ At1 = "tables" /\ UNCHANGED store /\ UNCHANGED <<req, n, mod>>
      /\ schemas' = schemas /\ collections' = collections /\ docs' = docs
  BY DEF ListTables, Read, At1, counters, store
<1>2. /\ R.op \in {"listCollections", "listDatabases"} /\ Faults = {} /\ Progress
      /\ IsStore(before)
  BY <1>1, ReadyFacts DEF OpsAt
<1>3. CASE R.op = "listCollections"
  <2>1. Goto(Client, "reply")
    BY <1>2, <1>3 DEF ListTables, Read, R
  <2>2. pc'[Client] = "reply" /\ code'[Client] = "ok"
    BY <2>1, Control
  <2>3. Created({R.db}, {}) /\ docs = before.docs /\ n[Client] = 0 /\ mod[Client] = 0
    BY <1>1, <1>2, <1>3 DEF Progress, Preparing, LoopLabels
  <2>4. Now' = [schemas     |-> before.schemas \cup {R.db},
                collections |-> before.collections,
                docs        |-> before.docs]
    BY <1>1, <2>3 DEF Created, Now
  <2>5. Atomic!Result(before, R) = {Atomic!Outcome(Now', "ok", 0, 0)}
    BY <1>2, <1>3, <2>4, ListResultIs, Zenon
  <2> QED
    BY <1>1, <2>2, <2>3, <2>5, Answers
<1>4. CASE R.op = "listDatabases"
  <2>1. Now = before /\ n[Client] = 0 /\ mod[Client] = 0
    BY <1>1, <1>4, NothingYet DEF LoopLabels
  <2>2. Listing
    BY <1>2 DEF Progress
  <2>3. CASE NextDatabase(Client, list[Client].dbs)
    <3>1. list[Client].dbs \in SUBSET schemas
      BY <1>1, <1>4, <2>2 DEF Listing
    <3> QED
      BY <1>1, <1>4, <2>1, <2>3, <3>1, NextDatabaseProgress
  <2>4. CASE /\ list' = [list EXCEPT ![Client].tables = found]
             /\ Goto(Client, "size")
    <3>1. pc'[Client] = "size"
      BY <2>4, Control
    <3>2. /\ list'[Client].tables = found
          /\ list'[Client].dbs = list[Client].dbs /\ list'[Client].db = list[Client].db
      BY <2>4, ReadyFacts
    <3>3. DbOf(Client) = list[Client].db
      BY <1>4 DEF DbOf, R
    <3>4. Listing'
      <4>1. \A db \in list[Client].db, coll \in found : <<db, coll>> \in collections
        BY <1>1, <1>4, <2>2, <3>3 DEF Listing
      <4> HIDE DEF found
      <4> QED
        BY <1>1, <1>4, <2>2, <3>1, <3>2, <4>1 DEF Listing, At1, R
    <3> QED
      BY <1>1, <1>2, <1>4, <2>1, <3>1, <3>4
         DEF Progress, Preparing, Querying, Looping, Found, Done, At1, R,
             LoopLabels, Created, Now
  <2> QED
    BY <1>2, <1>4, <2>3, <2>4 DEF ListTables, Read, R
<1> QED
  BY <1>2, <1>3, <1>4

\* The size of a table.
LEMMA TableSizeStep ==
  ASSUME Ready, before' = before, TableSize(Client)
  PROVE  Progress'
<1>1. /\ At1 = "size" /\ UNCHANGED store /\ UNCHANGED <<req, n, mod>>
      /\ schemas' = schemas /\ collections' = collections /\ docs' = docs
  BY DEF TableSize, Read, At1, counters, store
<1>2. R.op = "listDatabases" /\ Faults = {} /\ Listing /\ IsStore(before)
  BY <1>1, ReadyFacts DEF OpsAt, Progress
<1>3. Now = before /\ n[Client] = 0 /\ mod[Client] = 0
  BY <1>1, NothingYet DEF LoopLabels
<1>4. PICK db \in list[Client].db, coll \in list[Client].tables :
        IF list[Client].tables = {coll}
          THEN NextDatabase(Client, list[Client].dbs)
          ELSE /\ list' = [list EXCEPT ![Client].tables = @ \ {coll}]
               /\ Goto(Client, "size")
  BY <1>1, <1>2 DEF TableSize, Read, Listing
<1>5. CASE NextDatabase(Client, list[Client].dbs)
  <2>1. list[Client].dbs \in SUBSET schemas
    BY <1>1, <1>2 DEF Listing
  <2> QED
    BY <1>1, <1>2, <1>3, <1>5, <2>1, NextDatabaseProgress
<1>6. CASE /\ list' = [list EXCEPT ![Client].tables = @ \ {coll}]
           /\ Goto(Client, "size")
  <2>1. pc'[Client] = "size"
    BY <1>6, Control
  <2>2. /\ list'[Client].tables \subseteq list[Client].tables
        /\ list'[Client].dbs = list[Client].dbs /\ list'[Client].db = list[Client].db
    BY <1>6, ReadyFacts
  <2>3. Listing'
    BY <1>1, <1>2, <2>1, <2>2 DEF Listing, At1, R
  <2> QED
    BY <1>1, <1>2, <1>3, <2>1, <2>3
       DEF Progress, Preparing, Querying, Looping, Found, Done, At1, R,
           LoopLabels, Created, Now
<1> QED
  BY <1>4, <1>5, <1>6

-----------------------------------------------------------------------------
(* The invariant is inductive. *)

\* Every statement but the last makes progress.
LEMMA HandleProgress ==
  ASSUME Ready, before' = before, Handle(Client)
  PROVE  Progress'
<1>1. ~Reply(Client)
  BY DEF Reply, Ready, At1
<1> QED
  BY <1>1, MsgStorageStep, CreateSchemaStep, CreateCollectionStep, DropTableStep,
     DropSchemaStep, IsIdUniqueStep, InsertDocumentStep, CountMatchedStep,
     PickForUpdateStep, UpdateDocumentsStep, PickForDeleteStep, DeleteDocumentsStep,
     RejectStep, QueryStep, ListSchemasStep, ListTablesStep, TableSizeStep
     DEF Handle

\* Only the reply ends a request.
LEMMA StaysBusy ==
  ASSUME Ready, Handle(Client), TypeOK'
  PROVE  Busy(Client)' /\ req' = req
<1>1. ~Reply(Client)
  BY DEF Reply, Ready, At1
<1>2. req' = req
  BY <1>1
     DEF Handle, MsgStorage, CreateSchema, CreateCollection, DropTable, DropSchema,
         IsIdUnique, InsertDocument, CountMatched, PickForUpdate, UpdateDocuments,
         PickForDelete, DeleteDocuments, Reject, Query, ListSchemas, ListTables,
         TableSize, locals
<1>3. Client \in Conns /\ req[Client] \in Request
  BY ReadyFacts DEF R
<1>4. req[Client] # NoRequest
  BY <1>3, RequestShape DEF NoRequest, DataOps, BatchOps
<1> QED
  BY <1>2, <1>3, <1>4 DEF TypeOK, ControlOK, Fresh

\* A request arrives: nothing is done yet.
LEMMA ReceiveProgress ==
  ASSUME SInv, Receive(Client), before' = before
  PROVE  Progress'
<1>1. /\ Client \in Conns /\ TypeOK /\ ~Busy(Client)
      /\ \A r \in Requests[Client] : r.op # "local"
  BY ClientAssumption DEF SInv, IdsInv, Receive, Busy
<1>2. PICK r \in Requests[Client] : /\ req' = [req EXCEPT ![Client] = r]
                                    /\ pc' = [pc EXCEPT ![Client] = FirstPc(r)]
  BY DEF Receive
<1>3. r \in Request /\ r.op # "local"
  BY <1>1, <1>2, RequestsAssumption
<1>4. /\ req'[Client] = r /\ pc'[Client] = FirstPc(r)
      /\ schemas' = schemas /\ collections' = collections /\ docs' = docs
      /\ n' = n /\ mod' = mod /\ list' = list
  BY <1>1, <1>2 DEF Receive, TypeOK, VariablesTyped, store, counters
<1>5. n[Client] = 0 /\ mod[Client] = 0 /\ list[Client] = EmptyList /\ before = Now
  BY <1>1 DEF SInv, TypeOK, ControlOK, Fresh
<1>6. /\ FirstPc(r) \in {"storage", "schema", "drop", "dropdb", "schemas"}
      /\ FirstPc(r) = "schema" => r.op # "insert"
  BY <1>3, RequestShape DEF FirstPc, DataOps, BatchOps
<1>7. Listing'
  BY <1>4, <1>5, <1>6 DEF Listing, At1, R, EmptyList
<1> QED
  BY <1>4, <1>5, <1>6, <1>7
     DEF Progress, Preparing, Querying, Looping, Found, Done, At1, R,
         LoopLabels, Created, Now

\* What one step of the only client is.
LEMMA Steps ==
  ASSUME SInv, AsTranslated, SNext
  PROVE  /\ TypeOK' /\ before' = IF Busy(Client)' THEN before ELSE Now'
         /\ \/ Receive(Client)
            \/ Handle(Client) /\ Ready
            \/ Reply(Client)
            \/ Reconnect(Client)
<1>1. Next /\ TypeOK /\ before' = IF Busy(Client)' THEN before ELSE Now'
  BY DEF SNext, SInv, IdsInv, Busy
<1>2. TypeOK'
  BY <1>1, NextType
<1>3. ~Crash
  BY ClientAssumption DEF Crash
<1>4. Receive(Client) \/ Handle(Client) \/ Reconnect(Client)
  BY <1>1, <1>3, ClientAssumption DEF Next
<1>5. Handle(Client) => Reply(Client) \/ Ready
  <2> SUFFICES ASSUME Handle(Client), ~Reply(Client) PROVE Ready
    OBVIOUS
  <2>1. pc[Client] \notin {"idle", "closed", "reply"}
    BY DEF Handle, MsgStorage, CreateSchema, CreateCollection, DropTable, DropSchema,
         IsIdUnique, InsertDocument, CountMatched, PickForUpdate, UpdateDocuments,
         PickForDelete, DeleteDocuments, Reject, Query, ListSchemas, ListTables,
         TableSize
  <2> QED
    BY <2>1 DEF Ready, Busy, At1
<1> QED
  BY <1>1, <1>2, <1>4, <1>5

\* The reply leaves, or the client is back: the store is what it was.
LEMMA Settles ==
  ASSUME SInv, Reply(Client) \/ Reconnect(Client)
  PROVE  /\ ~Busy(Client)' /\ Now' = Now
         /\ Reply(Client) => /\ pc[Client] = "reply"
                             /\ pc'[Client] = IF code[Client] = "InternalError"
                                                THEN "closed" ELSE "idle"
                             /\ req'[Client] = NoRequest
         /\ Reconnect(Client) => /\ pc[Client] = "closed" /\ pc'[Client] = "idle"
                                 /\ req' = req
<1>1. Client \in Conns /\ TypeOK
  BY ClientAssumption DEF SInv, IdsInv
<1>2. pc \in [Conns -> Labels] /\ req \in [Conns -> Request \cup {NoRequest}]
  BY <1>1 DEF TypeOK, VariablesTyped
<1>3. Now' = Now
  BY DEF Reply, Reconnect, store, Now
<1> QED
  BY <1>1, <1>2, <1>3 DEF Reply, Reconnect, Forget, Busy, locals

LEMMA InitSInv == SInit => SInv
<1> SUFFICES ASSUME SInit PROVE SInv
  OBVIOUS
<1>1. Init /\ before = Now /\ Client \in Conns
  BY ClientAssumption DEF SInit
<1>2. IdsInv
  BY <1>1, InitType, StoreInitType DEF Init, IdsInv, InsertWindow
<1>3. StoreSound /\ IsStore(before) /\ ~Busy(Client)
  BY <1>1, InitSound, SoFarIs DEF Init, Busy
<1> QED
  BY <1>1, <1>2, <1>3 DEF SInv

LEMMA NextSInv ==
  ASSUME SInv, AsTranslated, [SNext]_svars
  PROVE  SInv'
<1>1. [Next]_vars
  BY DEF SNext, svars
<1>2. IdsInv' /\ StoreSound'
  <2>1. PartitionedIds
    BY ClientAssumption DEF PartitionedIds
  <2> QED
    BY <1>1, <2>1, NextIds, NextSound DEF SInv, IdsInv
<1>3. CASE UNCHANGED svars
  <2>1. /\ before' = before /\ schemas' = schemas /\ collections' = collections
        /\ docs' = docs /\ pc' = pc /\ code' = code /\ req' = req /\ idx' = idx
        /\ matched' = matched /\ target' = target /\ n' = n /\ mod' = mod /\ list' = list
    BY <1>3 DEF svars, vars, store, locals, counters
  <2>2. Now' = Now /\ Busy(Client)' = Busy(Client) /\ IsStore(before)' = IsStore(before)
    BY <2>1 DEF Now, Busy, IsStore
  <2>3. Progress' <=> Progress
    <3>1. /\ At1' = At1 /\ R' = R /\ SoFar' = SoFar /\ Entry(Client)' = Entry(Client)
          /\ \A S, C : Created(S, C)' <=> Created(S, C)
          /\ Rejected(Client)' <=> Rejected(Client)
          /\ \A ns, match : Where(ns, match)' = Where(ns, match)
      BY <2>1, <2>2 DEF At1, R, SoFar, Entry, Created, Rejected, FilterOf, Where
    <3>2. InsertedUpTo(idx[Client] - 1)' <=> InsertedUpTo(idx[Client] - 1)
      <4> DEFINE k == idx[Client] - 1
      <4>1. InsertedUpTo(idx[Client] - 1)' <=>
              \E f \in [1..k -> Free(before)] :
                /\ \A i, j \in 1..k : f[i] = f[j] => i = j
                /\ docs = before.docs \cup InRows(f, R, k)
                /\ \A i \in 1..k : ~Atomic!Taken(before, R, i)
        BY <2>1, <3>1 DEF InsertedUpTo
      <4> QED
        BY <4>1 DEF InsertedUpTo
    <3>3. Preparing' <=> Preparing
      BY <2>1, <3>1 DEF Preparing
    <3>4. (Querying' <=> Querying) /\ (Listing' <=> Listing)
      BY <2>1, <3>1 DEF Querying, Listing
    <3>5. Looping' <=> Looping
      BY <2>1, <3>1, <3>2 DEF Looping, Passed
    <3>6. Found' <=> Found
      BY <2>1, <3>1 DEF Found, NeedsUpdate
    <3>7. Done' <=> Done
      BY <2>1, <2>2, <3>1 DEF Done
    <3> QED
      BY <3>3, <3>4, <3>5, <3>6, <3>7 DEF Progress
  <2> QED
    BY <1>2, <2>1, <2>2, <2>3 DEF SInv
<1>4. CASE SNext
  <2>1. /\ TypeOK' /\ before' = IF Busy(Client)' THEN before ELSE Now'
        /\ IsStore(before)'
    BY <1>4, Steps, SoFarIs DEF SInv, IsStore, Now
  <2>2. CASE Receive(Client)
    <3>1. Busy(Client)'
      <4>1. PICK r \in Requests[Client] : pc' = [pc EXCEPT ![Client] = FirstPc(r)]
        BY <2>2 DEF Receive
      <4>2. /\ r \in Request /\ pc \in [Conns -> Labels] /\ Client \in Conns
        BY RequestsAssumption, ClientAssumption
           DEF SInv, IdsInv, TypeOK, VariablesTyped
      <4> QED
        BY <4>1, <4>2, FirstPcAt DEF BusyLabels, Busy
    <3> QED
      BY <1>2, <2>1, <2>2, <3>1, ReceiveProgress DEF SInv
  <2>3. CASE Handle(Client) /\ Ready
    BY <1>2, <2>1, <2>3, StaysBusy, HandleProgress DEF SInv
  <2>4. CASE Reply(Client) \/ Reconnect(Client)
    BY <1>2, <2>1, <2>4, Settles DEF SInv
  <2> QED
    BY <1>4, <2>2, <2>3, <2>4, Steps
<1> QED
  BY <1>3, <1>4

-----------------------------------------------------------------------------
(* The refinement. *)

\* What AtomicCommands sees of a state.
Phase ==
  CASE At1 = "idle"   -> "idle"
    [] At1 = "closed" -> "closed"
    [] At1 = "reply"  -> "answered"
    [] OTHER          -> "working"

Answered ==
  IF At1 = "reply" THEN [code |-> code[Client], n |-> n[Client], mod |-> mod[Client]]
                   ELSE [code |-> "ok", n |-> 0, mod |-> 0]

Seen == <<Visible.schemas, Visible.collections, Visible.docs, Phase, R, Answered>>

LEMMA SeenIs ==
  /\ Atomic!avars = Seen /\ Atomic!avars' = Seen'
  /\ Visible = IF At1 = "reply" THEN Now ELSE before
BY DEF Atomic!avars, Seen, Phase, Answered, R, At1, Visible

\* A request arrives.
LEMMA ReceiveRefines ==
  ASSUME SInv, Receive(Client), before' = before, pc'[Client] \notin {"idle", "closed", "reply"}
  PROVE  Atomic!Accept
<1>1. /\ At1 = "idle" /\ At1' \notin {"idle", "closed", "reply"}
      /\ Visible = before /\ Visible' = before
      /\ Client \in Conns /\ TypeOK
  BY ClientAssumption DEF Receive, At1, Visible, SInv, IdsInv
<1>2. \E r \in Requests[Client] : req'[Client] = r
  BY <1>1 DEF Receive, TypeOK, VariablesTyped
<1> QED
  BY <1>1, <1>2 DEF Atomic!Accept, At1

\* The last statement of a request.
LEMMA AnswerRefines ==
  ASSUME Ready, req' = req, before' = before, pc'[Client] = "reply", Done'
  PROVE  Atomic!Perform
<1>1. /\ At1 \notin {"idle", "closed", "reply"} /\ Visible = before /\ Visible' = Now'
      /\ IsStore(before)
  BY ReadyFacts DEF Ready, Busy, At1, Visible
<1>2. Atomic!Store = before
  BY <1>1 DEF Atomic!Store, IsStore
<1> DEFINE o == Atomic!Outcome(Now', code'[Client], n'[Client], mod'[Client])
<1>3. o \in Atomic!Result(before, R)
  BY DEF Done, At1, R
<1>4. /\ o.store = Now'
      /\ o.reply = [code |-> code'[Client], n |-> n'[Client], mod |-> mod'[Client]]
  BY DEF Atomic!Outcome
<1> HIDE DEF o
<1> QED
  BY <1>1, <1>2, <1>3, <1>4 DEF Atomic!Perform, At1, R

\* The reply leaves, and the client comes back.
LEMMA SettlesRefines ==
  ASSUME SInv, before' = Now', Reply(Client) \/ Reconnect(Client)
  PROVE  Atomic!Deliver([op |-> "none"]) \/ Atomic!Return
<1>1. CASE Reply(Client)
  <2>1. /\ pc[Client] = "reply" /\ pc'[Client] # "reply" /\ req'[Client] = NoRequest
        /\ pc'[Client] = IF code[Client] = "InternalError" THEN "closed" ELSE "idle"
        /\ Visible = Now /\ Visible' = Now
    BY <1>1, Settles DEF Visible
  <2> QED
    BY <2>1 DEF Atomic!Deliver, Atomic!NoReply, NoRequest
<1>2. CASE Reconnect(Client)
  <2>1. /\ pc[Client] = "closed" /\ pc'[Client] = "idle" /\ req' = req
        /\ Visible = Now /\ Visible' = Now
    BY <1>2, Settles DEF Visible, SInv, Busy
  <2> QED
    BY <2>1 DEF Atomic!Return
<1> QED
  BY <1>1, <1>2

\* Every step of the handlers is one of AtomicCommands, or none.
LEMMA StepRefines ==
  ASSUME SInv, SInv', AsTranslated, [SNext]_svars
  PROVE  [Atomic!ANext]_(Atomic!avars)
<1>1. CASE UNCHANGED svars
  <2>1. /\ before' = before /\ schemas' = schemas /\ collections' = collections
        /\ docs' = docs /\ pc' = pc /\ code' = code /\ req' = req /\ n' = n /\ mod' = mod
    BY <1>1 DEF svars, vars, store, locals, counters
  <2>2. Seen' = Seen
    BY <2>1 DEF Seen, Visible, Phase, R, Answered, At1, Now
  <2> QED
    BY <2>2, SeenIs
<1>2. CASE SNext
  <2>1. TypeOK' /\ before' = IF Busy(Client)' THEN before ELSE Now'
    BY <1>2, Steps
  <2>2. CASE Receive(Client)
    <3>1. PICK r \in Requests[Client] : pc' = [pc EXCEPT ![Client] = FirstPc(r)]
      BY <2>2 DEF Receive
    <3>2. /\ r \in Request /\ r.op # "local" /\ Client \in Conns
          /\ pc \in [Conns -> Labels]
      BY RequestsAssumption, ClientAssumption DEF SInv, IdsInv, TypeOK, VariablesTyped
    <3>3. FirstPc(r) \notin {"idle", "closed", "reply"}
      BY <3>2, RequestShape DEF FirstPc, DataOps, BatchOps
    <3>4. pc'[Client] \notin {"idle", "closed", "reply"} /\ before' = before
      BY <2>1, <3>1, <3>2, <3>3 DEF Busy
    <3> QED
      BY <2>2, <3>4, ReceiveRefines DEF Atomic!ANext
  <2>3. CASE Handle(Client) /\ Ready
    <3>1. Busy(Client)' /\ req' = req /\ before' = before
      BY <2>1, <2>3, StaysBusy
    <3>2. CASE pc'[Client] = "reply"
      <4>1. Done'
        BY <3>1 DEF SInv, Progress
      <4> QED
        BY <2>3, <3>1, <3>2, <4>1, AnswerRefines DEF Atomic!ANext
    <3>3. CASE pc'[Client] # "reply"
      <4>1. /\ At1 \notin {"idle", "closed", "reply"}
            /\ At1' \notin {"idle", "closed", "reply"}
        BY <2>3, <3>1, <3>3 DEF Ready, Busy, At1
      <4>2. Seen' = Seen
        BY <3>1, <4>1 DEF Seen, Visible, Phase, R, Answered, At1
      <4> QED
        BY <4>2, SeenIs
    <3> QED
      BY <3>2, <3>3
  <2>4. CASE Reply(Client) \/ Reconnect(Client)
    BY <2>1, <2>4, Settles, SettlesRefines DEF Atomic!ANext
  <2> QED
    BY <1>2, <2>2, <2>3, <2>4, Steps
<1> QED
  BY <1>1, <1>2

\* A client that is alone, on a store in which no statement fails, sees each of
\* its commands carried out at once and answered as AtomicCommands says, for
\* batches of every length, whatever it asks for, if its clauses reach HANA as
\* its filters were translated.
THEOREM HandlersAreAtomic == AsTranslated /\ SSpec => ImplementsAtomic
<1> SUFFICES ASSUME AsTranslated PROVE SSpec => ImplementsAtomic
  OBVIOUS
<1>1. SInit => SInv
  BY InitSInv
<1>2. SInv /\ [SNext]_svars => SInv'
  BY NextSInv
<1>3. SInit => Atomic!AInit
  <2> SUFFICES ASSUME SInit PROVE Atomic!AInit
    OBVIOUS
  <2>1. pc[Client] = "idle" /\ req[Client] = NoRequest
    BY ClientAssumption DEF SInit, Init
  <2> QED
    BY <2>1 DEF Atomic!AInit, Atomic!NoReply, NoRequest
<1>4. SInv /\ SInv' /\ [SNext]_svars => [Atomic!ANext]_(Atomic!avars)
  BY StepRefines
<1> QED
  BY <1>1, <1>2, <1>3, <1>4, PTL DEF SSpec, ImplementsAtomic, Atomic!ASpec
=============================================================================
