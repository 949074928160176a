------------------------------ MODULE Projection ------------------------------
(***************************************************************************)
(* Which fields of a found document the client gets                        *)
(* (handlers/common/projection.go).                                        *)
(*                                                                         *)
(* A projection is a sequence of [path, to]: path is a field's name split  *)
(* at its dots, and to is "include" for true and for a number that is not  *)
(* 0, "exclude" for false and 0, and "other" for any other value and for   *)
(* the operators, none of which is supported.                              *)
(* Inclusion is done by HANA, with an object of the fields in place of the *)
(* document; exclusion is done on the documents that HANA returns, field   *)
(* by field, in the order of a Go map, which is any order.                 *)
(***************************************************************************)
EXTENDS JsonConversion

\* strconv.Atoi; every other name is no number.
Atoi == [s \in {"-1", "0", "1", "2"} |->
           CASE s = "-1" -> -1 [] s = "0" -> 0 [] s = "1" -> 1 [] s = "2" -> 2]

IsId(f) == f.path = <<"_id">>

\* One round of isProjectionInclusion, after which the projection is of a kind.
Classify(kind, f, alone) ==
  CASE kind = "refused" \/ f.to = "other" -> "refused"
    [] IsId(f) /\ ~alone -> kind
    [] f.to = "include" -> IF kind = "exclusion" \/ Len(f.path) > 1 THEN "refused" ELSE "inclusion"
    [] f.to = "exclude" -> IF kind = "inclusion" THEN "refused" ELSE "exclusion"

ProjectionKind(p) ==
  IF p = <<>> THEN "all" ELSE FoldLeft(LAMBDA k, f : Classify(k, f, Len(p) = 1), "undecided", p)

-----------------------------------------------------------------------------
(* Inclusion. *)

\* Mistake: a comma before every key but the first, even after an _id.
InclusionTextCommas(p) ==
  LET shown == \A i \in DOMAIN p : IsId(p[i]) => p[i].to = "include"
      alone == Len(p) = 1 /\ IsId(p[1])
      id    == IF ~shown THEN <<>> ELSE IF alone THEN <<"_id">> ELSE <<"_id", ",">>
      key(i) == IF IsId(p[i]) THEN <<>> ELSE (IF i = 1 THEN <<>> ELSE <<",">>) \o p[i].path
  IN id \o FlattenSeq([i \in DOMAIN p |-> key(i)])

\* The SQL's tokens between its braces, with the name of a field for its pair:
\* _id comes first, and no comma before the key after it.
InclusionText(p) ==
  LET shown == \A i \in DOMAIN p : IsId(p[i]) => p[i].to = "include"
      alone == Len(p) = 1 /\ IsId(p[1])
      id    == IF ~shown THEN <<>> ELSE IF alone THEN <<"_id">> ELSE <<"_id", ",">>
      comma(i) == IF i = 1 \/ (i = 2 /\ IsId(p[1])) THEN <<>> ELSE <<",">>
      key(i) == IF IsId(p[i]) THEN <<>> ELSE comma(i) \o p[i].path
  IN id \o FlattenSeq([i \in DOMAIN p |-> key(i)])

\* What HANA makes of it: the fields that the document has, or an error if names
\* and commas do not alternate.
SelectFields(j, text) ==
  LET names == SelectSeq(text, LAMBDA s : s # ",")
      there == SelectSeq(names, LAMBDA s : HasField(j, s))
  IN IF Len(text) # 2 * Len(names) - 1 \/ \E i \in DOMAIN text : text[i] = "," <=> i % 2 = 1
     THEN Failed
     ELSE Node("object", "", [i \in DOMAIN there |-> [k |-> there[i], v |-> Field(j, there[i])]])

-----------------------------------------------------------------------------
(* Exclusion. *)

\* Where the component s of a path is in v: a field that is not null, or an
\* element, which may be null; 0 if nowhere.
Place(v, s) ==
  CASE v.t = "document" /\ NonNull(v, s) -> SelectInSeq(v.sub, LAMBDA f : f.k = s)
    [] v.t = "array" /\ s \in DOMAIN Atoi /\ Atoi[s] + 1 \in DOMAIN v.sub -> Atoi[s] + 1
    [] OTHER -> 0

Without(v, k) == [v EXCEPT !.sub = SelectSeq(@, LAMBDA f : f.k # k)]

\* Mistake: the element is deleted when a field of it is to be removed.
RECURSIVE RemovePathWithElement(_, _)
RemovePathWithElement(v, path) ==
  LET i == Place(v, path[1])
  IN IF i = 0 THEN v
     ELSE IF Len(path) = 1 \/ (Len(path) = 2 /\ v.t = "array") THEN [v EXCEPT !.sub = RemoveAt(@, i)]
     ELSE [v EXCEPT !.sub[i].v = RemovePathWithElement(@, Tail(path))]

\* A dotted path: the value it leads to is removed, from an array too.
RECURSIVE RemovePath(_, _)
RemovePath(v, path) ==
  LET i == Place(v, path[1])
  IN IF i = 0 THEN v
     ELSE IF Len(path) = 1 THEN [v EXCEPT !.sub = RemoveAt(@, i)]
     ELSE [v EXCEPT !.sub[i].v = RemovePath(@, Tail(path))]

\* One round of projectDocument.
ExcludeField(v, f) ==
  CASE Len(f.path) > 1 -> RemovePath(v, f.path)
    [] IsId(f) /\ f.to = "include" -> v
    [] OTHER -> Without(v, f.path[1])
=============================================================================
