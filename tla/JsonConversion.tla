---------------------------- MODULE JsonConversion ----------------------------
(***************************************************************************)
(* Documents as JSON and back (internal/fjson): a document is stored in    *)
(* HANA as JSON text, and every document that is found is made from such   *)
(* text again.                                                             *)
(*                                                                         *)
(* BSON and JSON values are trees with the same kind of nodes: a type t, a *)
(* text s for a scalar, and a sequence sub of [k, v] for the fields of a   *)
(* document or object and, with k = "", the elements of an array.  Of a    *)
(* number only its size is kept: "small" fits an int32, "big" an int64,    *)
(* "fraction" neither (it also stands for what is too large), and "NaN" is *)
(* not a number.                                                           *)
(***************************************************************************)
EXTENDS Integers, Sequences, SequencesExt

Node(t, s, sub) == [t |-> t, s |-> s, sub |-> sub]
Scalar(t, s)    == Node(t, s, <<>>)
Failed          == Scalar("error", "")

HasField(v, k) == \E i \in DOMAIN v.sub : v.sub[i].k = k
Field(v, k)    == v.sub[CHOOSE i \in DOMAIN v.sub : v.sub[i].k = k].v

\* The node with its parts replaced; an error in a part is an error of the whole.
WithParts(t, parts) ==
  IF \E i \in DOMAIN parts : parts[i].v = Failed THEN Failed ELSE Node(t, "", parts)

-----------------------------------------------------------------------------
(* To JSON. *)

\* The field _id is put in front, if it is an ObjectID.
IdFirst(fields) ==
  LET isId(f) == f.k = "_id" /\ f.v.t = "ObjectID"
  IN SelectSeq(fields, isId) \o SelectSeq(fields, LAMBDA f : ~isId(f))

\* Marshal and, for what is stored, MarshalHANA, which refuses some types.
\* The elements of an array are marshalled by Marshal in any case.
RECURSIVE Encode(_, _)
Encode(v, hana) ==
  CASE v.t = "document" ->
         WithParts("object", [i \in DOMAIN v.sub |->
           LET f == IdFirst(v.sub)[i] IN [k |-> f.k, v |-> Encode(f.v, hana)]])
    [] v.t = "array" ->
         WithParts("array", [i \in DOMAIN v.sub |-> [k |-> "", v |-> Encode(v.sub[i].v, FALSE)]])
    [] v.t \in {"int32", "int64", "double"} ->
         IF v.s = "NaN" THEN Failed ELSE Scalar("number", v.s)
    [] v.t = "ObjectID" -> Node("object", "", <<[k |-> "oid", v |-> Scalar("string", v.s)]>>)
    [] v.t \in {"DateTime", "Regex"} /\ hana -> Failed
    [] v.t = "DateTime" /\ ~hana ->
         Node("object", "", <<[k |-> "$da", v |-> Scalar("number", v.s)]>>)
    [] v.t = "Regex" /\ ~hana ->
         Node("object", "", <<[k |-> "$r", v |-> Scalar("string", v.s)],
                              [k |-> "o", v |-> Scalar("string", "")]>>)
    [] OTHER -> v       \* strings, booleans and null

-----------------------------------------------------------------------------
(* The order of the keys.  A JSON object is decoded to a map, which has no  *)
(* order; getJSONKeys reads the text once more, token by token.             *)

RECURSIVE Tokens(_)
Tokens(j) ==
  LET part(i) == (IF j.t = "object" THEN <<j.sub[i].k>> ELSE <<>>) \o Tokens(j.sub[i].v)
      parts   == FlattenSeq([i \in DOMAIN j.sub |-> part(i)])
  IN CASE j.t = "object" -> <<"{">> \o parts \o <<"}">>
       [] j.t = "array"  -> <<"[">> \o parts \o <<"]">>
       [] OTHER          -> <<j.s>>

ScanInit == [i |-> 0, isArray |-> 0, isDocument |-> 0, keys |-> <<>>]

\* Mistake: a value that is a document is not counted as a value.
ScanTokenUncounted(st, s) ==
  LET value == st.i % 2 = 0
      inside == st.isArray > 0 \/ st.isDocument > 0
  IN IF st.i = 0 THEN [st EXCEPT !.i = 1]
     ELSE CASE s = "]" -> [st EXCEPT !.isArray = @ - 1]
            [] s = "}" -> [st EXCEPT !.isDocument = @ - 1]
            [] s = "[" -> [st EXCEPT !.i = @ + 1, !.isArray = @ + 1]
            [] s = "{" -> [st EXCEPT !.isDocument = @ + 1]
            [] OTHER -> IF value THEN [st EXCEPT !.i = @ + 1]
                        ELSE IF inside THEN st
                        ELSE [st EXCEPT !.i = @ + 1, !.keys = Append(@, s)]

\* One round of getJSONKeys: s is the token as text, so a string cannot be told
\* from a delimiter.  i is odd where a key is expected, and inside of a value
\* that is an array or a document.
ScanToken(st, s) ==
  LET value == st.i % 2 = 0
      inside == st.isArray > 0 \/ st.isDocument > 0
  IN IF st.i = 0 THEN [st EXCEPT !.i = 1]
     ELSE CASE s = "]" -> [st EXCEPT !.isArray = @ - 1]
            [] s = "}" -> [st EXCEPT !.isDocument = @ - 1]
            [] s = "[" -> [st EXCEPT !.i = @ + 1, !.isArray = @ + 1]
            [] s = "{" -> [st EXCEPT !.i = @ + 1, !.isDocument = @ + 1]
            [] OTHER -> IF value THEN [st EXCEPT !.i = @ + 1]
                        ELSE IF inside THEN st
                        ELSE [st EXCEPT !.i = @ + 1, !.keys = Append(@, s)]

JsonKeys(j) == FoldLeft(ScanToken, ScanInit, Tokens(j)).keys

-----------------------------------------------------------------------------
(* From JSON. *)

\* decoderNumber: a number gets the smallest type that holds it.
DecodeNumber(s) ==
  Scalar(CASE s = "small" -> "int32" [] s = "big" -> "int64" [] s = "fraction" -> "double", s)

\* A field that is there and not null.
NonNull(j, k) == HasField(j, k) /\ Field(j, k).t # "null"

RECURSIVE Decode(_)

\* Document.UnmarshalJSON: the keys in their order, each with what the map has.
\* A key that appears twice keeps its first place.
DecodeDocument(j) ==
  LET keys == JsonKeys(j)
      once == FoldLeft(LAMBDA ks, k : IF Contains(ks, k) THEN ks ELSE Append(ks, k), <<>>, keys)
  IN IF \E i \in DOMAIN keys : ~HasField(j, keys[i]) THEN Failed
     ELSE WithParts("document", [i \in DOMAIN once |->
            [k |-> once[i], v |-> Decode(Field(j, once[i]))]])

\* Unmarshal.
Decode(j) ==
  CASE j.t = "object" ->
         IF NonNull(j, "oid") THEN
           IF j.sub = <<[k |-> "oid", v |-> Scalar("string", "hex")]>>
             THEN Scalar("ObjectID", "hex") ELSE Failed
         ELSE IF NonNull(j, "$da") THEN
           IF Len(j.sub) = 1 /\ Field(j, "$da").t = "number" /\ Field(j, "$da").s # "fraction"
             THEN Scalar("DateTime", Field(j, "$da").s) ELSE Failed
         ELSE IF NonNull(j, "$r") THEN Scalar("Regex", Field(j, "$r").s)
         ELSE DecodeDocument(j)
    [] j.t = "array" ->
         WithParts("array", [i \in DOMAIN j.sub |-> [k |-> "", v |-> Decode(j.sub[i].v)]])
    [] j.t = "number" -> DecodeNumber(j.s)
    [] OTHER -> j
=============================================================================
