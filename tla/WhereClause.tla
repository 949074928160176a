---------------------------- MODULE WhereClause ----------------------------
(***************************************************************************)
(* What the WHERE clause of a filter means (internal/handlers/common/      *)
(* where.go), next to what the filter means.                               *)
(*                                                                         *)
(* A document maps fields to sets with at most one value: {} is a field    *)
(* that is not set.  Null values, strings and nested fields are left out.  *)
(*                                                                         *)
(* A filter is a sequence of entries, as in a document, of four kinds:     *)
(*   "value"           field: value, given as an $eq in ops                *)
(*   "field"           field: {operators}                                  *)
(*   "and" "or" "nor"  with an array of documents                          *)
(*   "unsupported"     rejected: its clause is never used                  *)
(* An operator has a value n or operators ops: those of a $not or an       *)
(* $elemMatch, and one $eq for each element of an $all.  $exists is "set"  *)
(* or "unset".  The comparisons other than $eq and $ne, $regex and $size   *)
(* among them, are given by Related: SQL and the filter are taken to agree *)
(* on what they say of a value that is there.                              *)
(***************************************************************************)
EXTENDS Integers, Sequences

CONSTANTS FieldValue,   \* what a field can have, or an array contain
          Elements,     \* Elements[v]: the elements of v, if it is an array
          Related,      \* Related[op]: the <<v, n>> with "v op n"
          Field, Document,
          Expression,   \* the sequences of operators that occur in filters, and
          Size,         \*   Size[ops]: how many operators those are, nested ones too
          Filter,       \* the filters and what is nested in them, and
          Depth         \*   Depth[f]: how deeply f is nested

Logics == {"and", "or", "nor"}

FieldOperator == [op : STRING, n : FieldValue, ops : Expression]
Entry == [t : Logics \cup {"value", "field", "unsupported"},
          k : Field, ops : Expression, docs : Seq(Filter)]

AllButLast(ops) == SubSeq(ops, 1, Len(ops) - 1)

ASSUME DocumentAssumption ==
  /\ Elements \in [FieldValue -> SUBSET FieldValue]
  /\ Document \subseteq [Field -> {{}} \cup {{v} : v \in FieldValue}]

ASSUME ExpressionAssumption ==
  /\ Size \in [Expression -> Nat]
  /\ Expression \subseteq Seq(FieldOperator)
  /\ \A ops \in Expression :
       /\ ops # <<>> => AllButLast(ops) \in Expression /\ Size[AllButLast(ops)] < Size[ops]
       /\ \A i \in DOMAIN ops : /\ <<ops[i]>> \in Expression /\ Size[<<ops[i]>>] <= Size[ops]
                                /\ Size[ops[i].ops] < Size[ops]

ASSUME FilterAssumption ==
  /\ Depth \in [Filter -> Nat]
  /\ <<>> \in Filter
  /\ Filter \subseteq Seq(Entry)
  /\ \A f \in Filter : \A i \in DOMAIN f : \A j \in DOMAIN f[i].docs :
       Depth[f[i].docs[j]] < Depth[f]

-----------------------------------------------------------------------------
(* SQL's three-valued logic, and what HANA makes of an unset field. *)

Truths == {"true", "false", "unknown"}

Truth(b) == IF b THEN "true" ELSE "false"
Not(t) == CASE t = "true" -> "false" [] t = "false" -> "true" [] OTHER -> t
Conj(T) == IF "false" \in T THEN "false" ELSE IF "unknown" \in T THEN "unknown" ELSE "true"
Disj(T) == Not(Conj({Not(t) : t \in T}))

IsSet(S) == Truth(S # {})
IsUnset(S) == Truth(S = {})

\* v op n, of a value that is there.
Is(v, o) ==
  CASE o.op = "eq" -> v = o.n
    [] o.op = "ne" -> v # o.n
    [] OTHER       -> <<v, o.n>> \in Related[o.op]

\* A comparison with an unset field is neither true nor false.
Compare(S, o) == IF S = {} THEN "unknown" ELSE Truth(\E v \in S : Is(v, o))

\* A text is the sequence of the truth values of what it joins with AND.
Value(text) == Conj({text[i] : i \in DOMAIN text})

\* NOT binds to the first of them only.
NotText(text) == [i \in DOMAIN text |-> IF i = 1 THEN Not(text[i]) ELSE text[i]]

-----------------------------------------------------------------------------
(* The clause. *)

\* Mistake: no "IS SET".
Unguarded(text, S, nor) == text

\* "( ... AND field IS SET)", inside a $nor.
Guarded(text, S, nor) == IF nor THEN <<Value(Append(text, IsSet(S)))>> ELSE text

\* FOR ANY "element" IN array SATISFIES ... END.  filterArray takes the parts
\* that $not and a $nor add out of the text again.  fieldText is FieldText.
ElementTruth(fieldText, o, x) ==
  IF o.op = "not" THEN Value(NotText(fieldText[o.ops][{x}][FALSE]))
                  ELSE Value(fieldText[<<o>>][{x}][FALSE])

SomeElement(fieldText, ops, S) ==
  Truth(\E a \in S : \E x \in Elements[a] :
          \A i \in DOMAIN ops : ElementTruth(fieldText, ops[i], x) = "true")

\* The text so far, extended by one operator; S is the field's value.
Extend(fieldText, text, o, S, nor) ==
  CASE o.op = "set"   -> Guarded(Append(text, IsSet(S)), S, nor)
    [] o.op = "unset" -> Guarded(Append(text, IsUnset(S)), S, nor)
    [] o.op = "ne"    ->   \* the parenthesis is opened before the text so far
         Guarded(<<Disj({Value(Append(text, Compare(S, o))), IsUnset(S)})>>, S, nor)
    [] o.op = "all"   ->
         text \o [i \in DOMAIN o.ops |-> SomeElement(fieldText, <<o.ops[i]>>, S)]
    [] o.op = "elemMatch" -> Append(text, SomeElement(fieldText, o.ops, S))
    [] OTHER -> Guarded(Append(text, Compare(S, o)), S, nor)

\* The loop of fieldExpression, up to and including the last operator.  $not
\* replaces the text so far, and returns: what follows is not looked at.
LoopText(fieldText, ops, S, nor) ==
  LET before == AllButLast(ops)
      last   == ops[Len(ops)]
  IN IF ops = <<>> THEN <<>>
     ELSE IF \E i \in DOMAIN before : before[i].op = "not" THEN fieldText[before][S][nor]
     ELSE IF last.op = "not"
       THEN <<Disj({Value(NotText(fieldText[last.ops][S][nor])), IsUnset(S)})>>
     ELSE Extend(fieldText, fieldText[before][S][nor], last, S, nor)

\* fieldExpression.
FieldText[ops \in Expression] ==
  [S \in SUBSET FieldValue |-> [nor \in BOOLEAN |-> LoopText(FieldText, ops, S, nor)]]

\* CreateWhereClause and logicExpression; nor is isNor, and clauseTruth is
\* ClauseTruth.
EntryTruth(clauseTruth, e, d, nor) ==
  LET ts == {clauseTruth[e.docs[i]][d][nor \/ e.t = "nor"] : i \in DOMAIN e.docs}
  IN CASE e.t = "and" -> Conj(ts)
       [] e.t = "or"  -> Disj(ts)
       [] e.t = "nor" -> Conj({Not(t) : t \in ts})
       [] OTHER       -> Value(FieldText[e.ops][d[e.k]][nor])

FilterTruth(clauseTruth, f, d, nor) ==
  Conj({EntryTruth(clauseTruth, f[i], d, nor) : i \in DOMAIN f})

ClauseTruth[f \in Filter] ==
  [d \in Document |-> [nor \in BOOLEAN |-> FilterTruth(ClauseTruth, f, d, nor)]]

-----------------------------------------------------------------------------
(* What a filter means. *)

\* Operator o holds of a field with value S.
Holds(satisfies, o, S) ==
  CASE o.op = "eq"        -> S = {o.n}
    [] o.op = "ne"        -> S # {o.n}
    [] o.op = "set"       -> S # {}
    [] o.op = "unset"     -> S = {}
    [] o.op = "all"       -> \E a \in S : \A i \in DOMAIN o.ops : o.ops[i].n \in Elements[a]
    [] o.op = "elemMatch" -> \E a \in S : \E x \in Elements[a] : satisfies[o.ops][{x}]
    [] o.op = "not"       -> ~satisfies[o.ops][S]
    [] OTHER              -> \E v \in S : <<v, o.n>> \in Related[o.op]

Satisfies[ops \in Expression] ==
  [S \in SUBSET FieldValue |-> \A i \in DOMAIN ops : Holds(Satisfies, ops[i], S)]

EntryMatches(matches, e, d) ==
  CASE e.t = "and" -> \A i \in DOMAIN e.docs : matches[e.docs[i]][d]
    [] e.t = "or"  -> \E i \in DOMAIN e.docs : matches[e.docs[i]][d]
    [] e.t = "nor" -> \A i \in DOMAIN e.docs : ~matches[e.docs[i]][d]
    [] OTHER       -> Satisfies[e.ops][d[e.k]]

Matches[f \in Filter] ==
  [d \in Document |-> \A i \in DOMAIN f : EntryMatches(Matches, f[i], d)]

-----------------------------------------------------------------------------
(* The filters that are translated to what they mean. *)

\* A value, a comparison, or $exists: true; one element or one property of an
\* array.
Plain(o) == o.op \notin {"ne", "unset", "not", "all", "elemMatch"}

\* $all has elements, which are values.
Values(o) == o.ops # <<>> /\ \A i \in DOMAIN o.ops : o.ops[i].op = "eq"

\* What is inside an $elemMatch: filterArray cuts the text of an operator at
\* its first OR (that of FOR too) for $not, and at its first AND when it
\* contains IS SET.
SoundInside(soundInArray, o) ==
  /\ o.op # "set"
  /\ o.op = "not" => Len(o.ops) = 1 /\ Plain(o.ops[1]) /\ o.ops[1].op # "set"
  /\ o.op = "all" => Values(o)
  /\ o.op = "elemMatch" => soundInArray[o.ops]

SoundInArray[ops \in Expression] ==
  ops # <<>> /\ \A i \in DOMAIN ops : SoundInside(SoundInArray, ops[i])

SoundArray(o) ==
  /\ o.op = "all" => Values(o)
  /\ o.op = "elemMatch" => SoundInArray[o.ops]

\* What a $not negates becomes one condition.
Negatable(o) ==
  \/ Plain(o)
  \/ o.op = "elemMatch" /\ SoundArray(o)
  \/ o.op = "all" /\ SoundArray(o) /\ Len(o.ops) = 1

\* $not stands alone, $ne comes first, what is about an array too; inside a
\* $nor there is neither $ne nor $exists: false.
SoundOperators(ops, nor) ==
  \A i \in DOMAIN ops :
    LET o == ops[i]
    IN /\ o.op = "not" => Len(ops) = 1 /\ Len(o.ops) = 1 /\ Negatable(o.ops[1])
       /\ o.op = "ne" => i = 1 /\ ~nor
       /\ o.op = "unset" => ~nor
       /\ o.op \in {"size", "all", "elemMatch"} => i = 1 /\ SoundArray(o)

\* Nothing is empty but the filter itself.
NotEmpty(e) ==
  IF e.t \in Logics THEN e.docs # <<>> /\ <<>> \notin {e.docs[i] : i \in DOMAIN e.docs}
                    ELSE e.ops # <<>>

SoundEntry(sound, e, nor) ==
  /\ NotEmpty(e)
  /\ SoundOperators(e.ops, nor)
  /\ \A i \in DOMAIN e.docs : sound[e.docs[i]][nor \/ e.t = "nor"]

Sound[f \in Filter] ==
  [nor \in BOOLEAN |-> \A i \in DOMAIN f : SoundEntry(Sound, f[i], nor)]
=============================================================================
