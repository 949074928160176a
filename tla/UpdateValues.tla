----------------------------- MODULE UpdateValues -----------------------------
(***************************************************************************)
(* Values and fields of an update as SQL (msg_update.go, and where.go for  *)
(* the values inside of arrays).                                           *)
(*                                                                         *)
(* SQL for a value is taken for the JSON value that it denotes, and a      *)
(* field in SQL is a sequence of names and of indexes, which count from 1  *)
(* in HANA.                                                                *)
(***************************************************************************)
EXTENDS Projection

\* The string whose last character is a percent sign.
PercentString == "%"

RECURSIVE SqlValue(_, _), SqlArray(_)

\* PrepareArrayForSQL, whose text is a format for the document around the array.
SqlArray(v) == WithParts("array", [i \in DOMAIN v.sub |-> [k |-> "", v |-> SqlValue(v.sub[i].v, TRUE)]])

\* getUpdateValue, updateDocument, and whereDocument for a document in an array.
\* Doubles get six decimals.  An array cannot be the value itself, since it cannot
\* be compared.
SqlValue(v, inArray) ==
  CASE v.t = "document" ->
         WithParts("object", [i \in DOMAIN v.sub |->
           [k |-> v.sub[i].k, v |-> SqlValue(v.sub[i].v, inArray)]])
    [] v.t = "array" -> SqlArray(v)
    [] v.t = "string" /\ v.s = PercentString /\ inArray -> Scalar("string", "%!(NOVERB)")
    [] v.t = "double" /\ v.s = "tiny" -> Scalar("number", "small")
    [] v.t \in {"DateTime", "Regex"} -> Failed
    [] OTHER -> Encode(v, TRUE)

\* A name has index 0.
Name(s)  == [name |-> s, index |-> 0]
Index(n) == [name |-> "", index |-> n]

\* Mistake: indexes count from 0.
UpdateKeyFromZero(path) ==
  IF Len(path) = 1 THEN <<Name(path[1])>>
  ELSE [i \in DOMAIN path |-> IF path[i] \in DOMAIN Atoi THEN Index(Atoi[path[i]]) ELSE Name(path[i])]

\* getUpdateKey, and whereKey for the condition of the same statement.
UpdateKey(path) ==
  IF Len(path) = 1 THEN <<Name(path[1])>>
  ELSE [i \in DOMAIN path |-> IF path[i] \in DOMAIN Atoi THEN Index(Atoi[path[i]] + 1) ELSE Name(path[i])]

\* _id and an index after an index are refused; an index that comes first is not SQL.
\* (An index below 0 is nowhere that an update reaches; whereKey refuses it in $set,
\* but nothing does in $unset.)
KeyRefused(path) ==
  \/ path = <<"_id">>
  \/ /\ Len(path) > 1
     /\ \E i \in DOMAIN path : /\ path[i] \in DOMAIN Atoi
                               /\ i = 1 \/ path[i - 1] \in DOMAIN Atoi

-----------------------------------------------------------------------------
(* HANA, for a field whose parents exist. *)

PlaceOf(j, s) == IF s.index # 0 THEN s.index ELSE SelectInSeq(j.sub, LAMBDA f : f.k = s.name)

RECURSIVE SetField(_, _, _)
SetField(j, key, w) ==
  LET i == PlaceOf(j, key[1])
  IN IF i \notin DOMAIN j.sub THEN [j EXCEPT !.sub = Append(@, [k |-> key[1].name, v |-> w])]
     ELSE [j EXCEPT !.sub[i].v = IF Len(key) = 1 THEN w ELSE SetField(@, Tail(key), w)]

RECURSIVE UnsetField(_, _)
UnsetField(j, key) ==
  LET i == PlaceOf(j, key[1])
  IN IF i \notin DOMAIN j.sub THEN j
     ELSE IF Len(key) = 1 THEN [j EXCEPT !.sub = RemoveAt(@, i)]
     ELSE [j EXCEPT !.sub[i].v = UnsetField(@, Tail(key))]
=============================================================================
