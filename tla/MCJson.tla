------------------------------- MODULE MCJson -------------------------------
(* Documents for TLC. *)
EXTENDS JsonStorage, FiniteSets, TLC

Str(s) == Scalar("string", s)
Pair(k, v) == [k |-> k, v |-> v]
Doc(fs) == Node("document", "", fs)
Arr(vs) == Node("array", "", [i \in DOMAIN vs |-> Pair("", vs[i])])

Oid  == Scalar("ObjectID", "hex")
Date == Scalar("DateTime", "small")
Nums == {Scalar("int32", "small"), Scalar("int64", "small"), Scalar("int64", "big"),
         Scalar("double", "small"), Scalar("double", "fraction"), Scalar("double", "NaN")}
Tiny == Scalar("double", "tiny")

\* The strings "a" and "b" are keys too, and "hex" is one an ObjectID may have.
Scalars == Nums \cup {Str(s) : s \in {"a", "b", "hex"} \cup Delimiters}
           \cup {Oid, Date, Scalar("Regex", "re"), Scalar("bool", "true"), Scalar("null", "<nil>")}

Few == {Scalar("int64", "small"), Str("a"), Oid, Date, Str("]"), Scalar("null", "<nil>")}

\* Arrays and documents of scalars, and of each other.
Flat == {Arr(<<>>), Doc(<<>>)}
        \cup {Arr(<<x>>) : x \in Scalars} \cup {Arr(<<x, y>>) : x, y \in Few}
        \cup {Doc(<<Pair(k, x)>>) : k \in {"b", "oid", "$da", "}"}, x \in Scalars}
        \cup {Doc(<<Pair("b", x), Pair("_id", y)>>) : x, y \in Few}
Deep == {Arr(<<x, y>>) : x \in {Doc(<<Pair("a", Oid)>>), Arr(<<Str("b")>>)}, y \in Flat}
        \cup {Doc(<<Pair("a", x), Pair("b", y)>>) : x \in {Arr(<<>>), Doc(<<Pair("a", Date)>>)}, y \in Flat}
Values == Scalars \cup Flat \cup Deep

\* With another field before and after the value.
AllDocuments ==
  {Doc(<<Pair("a", v)>>) : v \in Values}
  \cup {Doc(<<Pair("b", Str("a")), Pair("a", v), Pair("_id", id)>>) :
          v \in Values, id \in {Oid, Scalar("int32", "small")}}
  \cup {Doc(<<Pair("oid", v), Pair("b", w)>>) : v, w \in Flat}

\* Documents in which nothing looks like a delimiter.
NestedDocuments == {d \in AllDocuments : Plain(d, FALSE)}

\* The documents that are updated and projected.
Three == {Str("a"), Scalar("int32", "small"), Scalar("null", "<nil>")}
Two(x, y) == Doc(<<Pair("a", x), Pair("b", y)>>)
Samples ==
  LET values == Three \cup {Arr(<<>>), Doc(<<>>), Arr(<<Str("a")>>), Arr(<<Arr(<<Str("b"), Oid>>), Str("a")>>)}
        \cup {Arr(<<x, y>>) : x, y \in Three} \cup {Two(x, y) : x, y \in Three}
        \cup {Arr(<<Two(x, Str("b")), y>>) : x \in Three, y \in Three \cup {Doc(<<Pair("b", Date)>>)}}
        \cup {Arr(<<Two(Str("a"), x), Arr(<<y, x>>)>>) : x, y \in Three}
        \cup {Two(x, Doc(<<Pair("b", y), Pair("_id", x)>>)) : x, y \in Three}
  IN {Doc(<<Pair("b", Str("a")), Pair("a", v), Pair("_id", id)>>) : v \in values, id \in {Oid, Str("a")}}
     \cup {Doc(<<Pair("oid", Str("b")), Pair("a", v)>>) : v \in values}

Asked(path, to) == [path |-> path, to |-> to]
In(ks)  == [i \in DOMAIN ks |-> Asked(<<ks[i]>>, "include")]
Out(ps) == [i \in DOMAIN ps |-> Asked(ps[i], "exclude")]

SomeProjections ==
  {<<>>, In(<<"_id">>), In(<<"a">>), In(<<"a", "_id">>), In(<<"_id", "b", "a">>), In(<<"oid", "z">>),
   Out(<<<<"_id">>>>) \o In(<<"a", "b">>), In(<<"b">>) \o Out(<<<<"_id">>>>) \o In(<<"a">>),
   Out(<<<<"_id">>, <<"a">>>>), In(<<"_id">>) \o Out(<<<<"a", "b">>>>), Out(<<<<"a", "a">>, <<"a", "b">>>>),
   Out(<<<<"a", "0">>, <<"b">>>>), Out(<<<<"a", "0">>, <<"a", "1">>>>), Out(<<<<"a", "0", "a">>>>),
   Out(<<<<"a", "1", "0">>, <<"a", "0", "a">>>>), Out(<<<<"a", "1", "b">>, <<"a", "1", "_id">>>>),
   Out(<<<<"a", "b", "b">>, <<"a", "b", "_id">>, <<"a", "-1">>>>), Out(<<<<"a">>, <<"a", "b">>>>),
   Out(<<<<"a">>>>) \o In(<<"b">>), In(<<"b">>) \o Out(<<<<"a">>>>),
   <<Asked(<<"a", "b">>, "include")>>, <<Asked(<<"a">>, "other")>>}

SomeUpdates ==
  [path : {<<"a">>, <<"c">>, <<"_id">>, <<"a", "a">>, <<"a", "c">>, <<"a", "0">>, <<"a", "1">>,
           <<"a", "0", "a">>, <<"a", "1", "b">>, <<"a", "0", "0">>, <<"a", "b", "_id">>, <<"a", "-1">>},
   value : {Str("a"), Str("%"), Scalar("int64", "big"), Tiny, Scalar("null", "<nil>"), Oid, Date,
            Arr(<<>>), Doc(<<>>), Doc(<<Pair("b", Oid), Pair("a", Arr(<<Str("b"), Scalar("null", "<nil>")>>))>>),
            Doc(<<Pair("a", Doc(<<Pair("b", Str("%"))>>)), Pair("c", Scalar("double", "fraction"))>>),
            Doc(<<Pair("a", Arr(<<Doc(<<Pair("b", Str("%"))>>)>>))>>),
            Doc(<<Pair("a", Arr(<<Date>>))>>)}]
  \cup [path : {<<"a">>, <<"c">>, <<"a", "a">>, <<"a", "b">>, <<"a", "0", "a">>, <<"a", "1", "b">>},
         value : {Nothing}]

StoredDocuments == AllDocuments \cup Samples
ProjectionsOf(d) == IF d \in Samples THEN SomeProjections ELSE {<<>>}
UpdatesOf(d)     == IF d \in Samples THEN SomeUpdates ELSE {}
WholeOnly(d)     == {<<>>}
Never(d)         == {}
=============================================================================
