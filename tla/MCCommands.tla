----------------------------- MODULE MCCommands -----------------------------
(* Instances of Commands for TLC. *)
EXTENDS CommandProperties, TLC

CONSTANTS c1, c2, i1, i2, a, b, db1, db2, x, y, z, r1, r2, r3, r4

All == Ids \X Vals
Plain(S) == [text |-> "plain", match |-> S, printed |-> S]
ById(i)  == Plain({i} \X Vals)
ByVal(v) == Plain(Ids \X {v})
Empty    == [text |-> "empty", match |-> All, printed |-> All]
Bad      == [text |-> "rejected", match |-> {}, printed |-> {}]

\* Values of which v alone is like 'foo%', or like '%foo'; and the negation of
\* the latter, whose pattern as printed, '%!f(MISSING)oo', no value is like.
Like(v)    == [text |-> "percent", match |-> Ids \X {v}, printed |-> {}]
NotEnds(v) == [text |-> "plain", match |-> Ids \X (Vals \ {v}), printed |-> All]

ns1 == <<db1, x>>
ns2 == <<db1, y>>

Insert(ns, ds)  == [op |-> "insert", ns |-> ns, batch |-> ds]
Update(ns, es)  == [op |-> "update", ns |-> ns, batch |-> es]
Delete(ns, es)  == [op |-> "delete", ns |-> ns, batch |-> es]
Count(ns, q)    == [op |-> "count", ns |-> ns, q |-> q]
Find(ns, q)     == [op |-> "find", ns |-> ns, q |-> q]
Create(ns)      == [op |-> "create", ns |-> ns]
Drop(ns)        == [op |-> "drop", ns |-> ns]

DropDb(db)      == [op |-> "dropDatabase", db |-> db]
ListColls(db)   == [op |-> "listCollections", db |-> db]
ListDbs         == [op |-> "listDatabases"]
Local(k)        == [op |-> "local", code |-> k]

Doc(i, v)       == [id |-> i, val |-> v]
One(q, v)       == [q |-> q, set |-> v, multi |-> FALSE]
Many(q, v)      == [q |-> q, set |-> v, multi |-> TRUE]
DelOne(q)       == [q |-> q, one |-> TRUE]
DelMany(q)      == [q |-> q, one |-> FALSE]

OneNamespace == {ns1}

\* Each connection inserts its own _id, alone and twice in one batch, and
\* both update and delete whatever is there; c1 also lists the databases, and
\* c2 counts, and drops the collection and the database.
DataRequests ==
  (c1 :> {Insert(ns1, <<Doc(i1, a)>>), Insert(ns1, <<Doc(i1, a), Doc(i1, b)>>),
          Delete(ns1, <<DelMany(ByVal(a)), DelOne(Bad)>>),
          Update(ns1, <<One(NotEnds(b), b), Many(ById(i2), a)>>), ListDbs})
  @@
  (c2 :> {Insert(ns1, <<Doc(i2, a)>>),
          Delete(ns1, <<DelOne(ById(i1)), DelOne(ByVal(a))>>),
          Update(ns1, <<Many(ByVal(a), b)>>), Delete(ns1, <<DelMany(NotEnds(a))>>),
          Count(ns1, ByVal(a)), Drop(ns1), DropDb(db1)})

\* Databases and collections come and go under both connections' requests;
\* y is a collection that GUIs read and that has no table.
CatalogRequests ==
  (c1 :> {Create(ns1), Insert(ns1, <<Doc(i1, a)>>), ListColls(db1), ListDbs,
          Update(ns1, <<One(Empty, b), Many(ByVal(a), b)>>),
          Delete(ns1, <<DelOne(ByVal(b)), DelMany(ByVal(a))>>),
          Update(ns1, <<One(ByVal(a), b), One(ById(i2), a)>>),
          Count(ns1, Empty), Find(ns2, Empty), Local("CommandNotFound")})
  @@
  (c2 :> {Create(ns1), Drop(ns1), DropDb(db1), Insert(ns2, <<Doc(i1, b)>>),
          ListDbs, Delete(ns2, <<DelMany(Empty)>>), Delete(ns1, <<DelMany(Like(a))>>),
          Delete(ns1, <<DelOne(ById(i1)), DelMany(Bad)>>), Find(ns2, Bad),
          Insert(ns1, <<Doc(i2, a)>>), Update(ns1, <<Many(Like(a), b), One(Bad, b)>>),
          Count(ns2, Empty), Local("InternalError")})

\* Both connections insert, update and delete the same document.
RaceRequests ==
  (c1 :> {Insert(ns1, <<Doc(i1, a)>>), Delete(ns1, <<DelOne(ByVal(a))>>),
          Update(ns1, <<One(ByVal(a), b)>>)})
  @@
  (c2 :> {Insert(ns1, <<Doc(i1, a)>>), Delete(ns1, <<DelMany(Empty)>>),
          Update(ns1, <<One(ById(i1), z)>>)})

\* One connection and a filter whose LIKE pattern has a % in it.
LoneRequests ==
  (c1 :> {Insert(ns1, <<Doc(i1, a)>>), Delete(ns1, <<DelMany(NotEnds(a))>>)})
=============================================================================
