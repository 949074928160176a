------------------------------ MODULE MCWhere ------------------------------
(* Filters, documents and updates for TLC. *)
EXTENDS WhereTranslation, WhereVisits, FiniteSets, TLC

CONSTANTS c1, c2

\* Numbers and arrays.
Num(n)   == [array |-> FALSE, n |-> n, elements |-> {}]
Array(E) == [array |-> TRUE, n |-> 0, elements |-> E]
Empty    == Array({})
Ones     == Array({Num(1)})
Both     == Array({Num(1), Num(2)})
Arrays   == Array({Empty, Ones})

Values0 == {Num(0), Num(1), Num(2), Empty, Ones, Both, Arrays}
ElementsOf == [v \in Values0 |-> v.elements]

NumberPairs(P(_, _)) == {p \in Values0 \X Values0 : ~p[1].array /\ ~p[2].array /\ P(p[1].n, p[2].n)}
Comparisons ==
  [gt   |-> NumberPairs(LAMBDA v, n : v > n),
   lt   |-> NumberPairs(LAMBDA v, n : v < n),
   size |-> {p \in Values0 \X Values0 : p[1].array /\ Cardinality(p[1].elements) = p[2].n}]

SomeDocuments ==
  [a : {{}, {Num(1)}, {Num(2)}}, b : {{}, {Num(1)}},
   r : {{}, {Empty}, {Ones}, {Both}, {Arrays}}]

-----------------------------------------------------------------------------

MCEntry(t, k, ops, docs) == [t |-> t, k |-> k, ops |-> ops, docs |-> docs]
Op(op, n)       == [op |-> op, n |-> Num(n), ops |-> <<>>]
OpOn(op, ops)   == [op |-> op, n |-> Num(0), ops |-> ops]
Is1(k, n)       == MCEntry("value", k, <<Op("eq", n)>>, <<>>)
On(k, ops)      == MCEntry("field", k, ops, <<>>)
Logic(op, docs) == MCEntry(op, "a", <<>>, docs)
Unsupported     == MCEntry("unsupported", "a", <<>>, <<>>)

Singles == {Op(op, n) : op \in {"eq", "gt", "lt", "ne"}, n \in {1, 2}}
           \cup {Op("set", 0), Op("unset", 0)}
Paired == {Op("gt", 1), Op("lt", 2), Op("ne", 2), Op("unset", 0), OpOn("not", <<Op("gt", 1)>>)}
Nots == {OpOn("not", <<o>>) : o \in Singles}
ArrayOps ==
  {Op("size", 1), Op("set", 0), OpOn("all", <<Op("eq", 1)>>),
   OpOn("all", <<Op("eq", 1), Op("eq", 2)>>), OpOn("elemMatch", <<Op("gt", 1)>>),
   OpOn("elemMatch", <<Op("gt", 0), Op("ne", 1)>>),
   OpOn("elemMatch", <<OpOn("not", <<Op("gt", 1)>>), Op("lt", 2)>>),
   OpOn("elemMatch", <<OpOn("all", <<Op("eq", 1)>>)>>),
   OpOn("elemMatch", <<OpOn("elemMatch", <<Op("lt", 2), Op("ne", 2)>>), Op("size", 1)>>)}

\* One entry of a filter.
Leaves ==
  {Is1("a", 1), Is1("b", 1)}
  \cup {On("a", <<o>>) : o \in Singles \cup Nots}
  \cup {On("a", <<o, p>>) : o, p \in Paired}
  \cup {On("a", <<OpOn("not", <<Op("gt", 1), Op("lt", 2)>>)>>)}
  \cup {On("r", <<o>>) : o \in ArrayOps}
  \cup {On("r", <<OpOn("not", <<o>>)>>) : o \in ArrayOps}

\* The entries that are put inside logical expressions.
Inner ==
  {Is1("b", 1), On("a", <<Op("ne", 1)>>), On("a", <<Op("gt", 1), Op("lt", 2)>>),
   On("a", <<OpOn("not", <<Op("eq", 2)>>)>>), On("r", <<Op("size", 1)>>)}

Deep == {On("a", <<Op("gt", 1)>>), On("a", <<OpOn("not", <<Op("eq", 2)>>)>>)}

Flat == {<<x>> : x \in Leaves}
        \cup {<<Logic(op, <<<<x>>>>)>> : op \in Logics, x \in Leaves}
        \cup {<<Logic(op, <<<<x, y>>, <<z>>>>)>> : op \in Logics, x, y, z \in Inner}

\* Two levels, with a condition after the inner one and after the outer one.
Nested ==
  {<<Logic(op, <<<<Logic(in, <<<<x>>, <<y>>>>), z>>, <<x>>>>), y>> :
     op, in \in Logics, x, y \in Deep, z \in {Is1("b", 1), On("a", <<Op("lt", 2)>>)}}

\* What is rejected: outside of a $nor, after one, and inside of one; an $or
\* with one element, which is accepted inside a $nor.
Rejects ==
  {<<Unsupported>>, <<Logic("nor", <<<<Is1("a", 1)>>>>), Unsupported>>,
   <<Logic("nor", <<<<Is1("a", 1)>>, <<On("a", <<Op("unsupported", 0)>>)>>>>)>>,
   <<Logic("or", <<<<Is1("a", 1)>>>>)>>,
   <<Logic("nor", <<<<Logic("or", <<<<Is1("a", 1)>>>>)>>>>)>>}

OneNor == {<<Logic("nor", <<<<Is1("b", 1)>>>>)>>}

\* A condition that "IS SET" makes false.
OneUnset == {<<On("a", <<Op("unset", 0)>>)>>}

WhereFilters == (c1 :> Flat \cup Nested \cup Rejects) @@ (c2 :> OneNor)
SharedFilters == (c1 :> OneNor) @@ (c2 :> OneUnset)

-----------------------------------------------------------------------------
(* Filters with everything that is nested in them. *)

RECURSIVE WithDocs(_)
WithDocs(F) ==
  LET more == UNION {UNION {{f[i].docs[j] : j \in DOMAIN f[i].docs} : i \in DOMAIN f} : f \in F}
  IN IF more = {} THEN F ELSE F \cup WithDocs(more)

RECURSIVE DepthOf(_)
DepthOf(f) ==
  LET docs == UNION {{f[i].docs[j] : j \in DOMAIN f[i].docs} : i \in DOMAIN f}
  IN IF docs = {} THEN 0 ELSE 1 + Max({DepthOf(g) : g \in docs})

RECURSIVE WithOps(_)
WithOps(E) ==
  LET more == UNION {{SubSeq(ops, 1, i) : i \in 0..Len(ops) - 1}
                     \cup {<<ops[i]>> : i \in DOMAIN ops}
                     \cup {ops[i].ops : i \in DOMAIN ops} : ops \in E}
  IN IF more \subseteq E THEN E ELSE WithOps(E \cup more)

RECURSIVE SizeOf(_)
SizeOf(ops) ==
  FoldLeft(LAMBDA n, o : n + 1 + SizeOf(o.ops), 0, ops)

AllFilters == WithDocs({<<>>} \cup Flat \cup Nested \cup Rejects \cup OneNor \cup OneUnset)
AllExpressions == WithOps({<<>>} \cup UNION {{f[i].ops : i \in DOMAIN f} : f \in AllFilters})
DepthOfFilter == [f \in AllFilters |-> DepthOf(f)]
SizeOfOps == [ops \in AllExpressions |-> SizeOf(ops)]

-----------------------------------------------------------------------------

\* One or two fields are set, unset, or one is set and the other unset.
To(k, n) == [k |-> k, n |-> Num(n)]
Consistent(u) == \A i \in DOMAIN u.set, j \in DOMAIN u.unset : u.set[i].k # u.unset[j].k
SomeUpdates ==
  {u \in [set : {<<>>, <<To("a", 1)>>, <<To("b", 2)>>, <<To("a", 2), To("b", 1)>>},
          unset : {<<>>, <<To("r", 0)>>, <<To("a", 0), To("r", 0)>>}] : Consistent(u)}
=============================================================================
