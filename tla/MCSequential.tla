---------------------------- MODULE MCSequential ----------------------------
(* One connection and every kind of request, for SequentialCommands. *)
EXTENDS MCCommands, SequentialCommands

Queries == {Plain({<<i1, a>>}), ByVal(b), Empty, Like(a), NotEnds(a), Bad}

\* Those that updateMany and deleteMany send to HANA as they are.
Literals == {q \in Queries : Literal(q)}

AllRequests ==
  {Insert(ns1, <<Doc(i, a), Doc(j, b)>>) : i, j \in Ids}
  \cup {Insert(ns2, <<Doc(i, a)>>) : i \in Ids}
  \cup {Update(ns1, <<One(q, v), Many(p, w)>>) :
          q \in Queries \ {Empty}, p \in Literals \ {Empty}, v, w \in Vals}
  \cup {Update(ns1, <<Many(q, v)>>) : q \in Literals \ {Empty}, v \in Vals}
  \cup {Delete(ns, <<DelOne(q), DelMany(p)>>) :
          q \in Queries, p \in Literals, ns \in {ns1, ns2}}
  \cup {Delete(ns, <<DelOne(q), DelOne(p)>>) : p, q \in Queries, ns \in {ns1, ns2}}
  \cup {Count(ns, q) : ns \in {ns1, ns2}, q \in Queries}
  \cup {Find(ns, Empty) : ns \in {ns1, ns2}}
  \cup {Create(ns1), Create(ns2), Drop(ns1), Drop(ns2), DropDb(db1), ListColls(db1),
        ListColls(db2), ListDbs}

SequentialRequests == (c1 :> AllRequests)

ASSUME RequestsAreTranslated == AsTranslated
=============================================================================
