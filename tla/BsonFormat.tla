----------------------------- MODULE BsonFormat -----------------------------
(***************************************************************************)
(* Documents as bytes and back (internal/bson), with the check of keys     *)
(* that internal/types makes of every document.                            *)
(*                                                                         *)
(* The values are those of BsonValues.                                     *)
(***************************************************************************)
EXTENDS BsonValues, FiniteSets

MinDocumentLen == 5
MaxDocumentLen == 16777216

\* An int32, little endian.
Int32(n)   == [i \in 1..4 |-> (n \div 256^(i - 1)) % 256]
Int32Of(b) == b[1] + 256 * b[2] + 65536 * b[3]
              + 16777216 * (IF b[4] < 128 THEN b[4] ELSE b[4] - 256)

Tags == [double |-> 1, string |-> 2, document |-> 3, array |-> 4, ObjectID |-> 7,
         bool |-> 8, DateTime |-> 9, null |-> 10, Regex |-> 11, int32 |-> 16, int64 |-> 18]

\* The types whose values have always the same number of bytes.
Sizes == [double |-> 8, ObjectID |-> 12, DateTime |-> 8, null |-> 0, int32 |-> 4, int64 |-> 8]

\* The key of an array's element (strconv.Itoa), for less than 100 elements.
Itoa(n) == IF n < 10 THEN <<48 + n>> ELSE <<48 + (n \div 10), 48 + (n % 10)>>

-----------------------------------------------------------------------------
(* Writing. *)

CString(s) == s \o <<0>>

StringBytes(s) == Int32(Len(s) + 1) \o CString(s)

\* MarshalBinary of every type, with the tag and the name of a field before it.
RECURSIVE MarshalBinary(_)
MarshalBinary(v) ==
  LET name(i) == CASE v.t = "document" -> v.sub[i].k [] v.t = "array" -> Itoa(i - 1)
      element(i) == <<Tags[v.sub[i].v.t]>> \o CString(name(i)) \o MarshalBinary(v.sub[i].v)
      elist == FlattenSeq([i \in DOMAIN v.sub |-> element(i)])
  IN CASE v.t = "string" -> StringBytes(v.b)
       [] v.t = "Regex"  -> CString(v.sub[1].k) \o CString(v.sub[2].k)
       [] v.t \in {"document", "array"} -> Int32(Len(elist) + 5) \o elist \o <<0>>
       [] OTHER -> v.b

-----------------------------------------------------------------------------
(* Reading: what was read, and the bytes that are left. *)

\* What is read after r, if r could be.
Then(r, Read(_)) == IF r.ok THEN Read(r) ELSE Bad

From(b, n) == SubSeq(b, n, Len(b))

ReadFull(b, n) == IF Len(b) < n THEN Bad ELSE Got(SubSeq(b, 1, n), From(b, n + 1))

ReadInt32(b) == IF Len(b) < 4 THEN Bad ELSE Got(Int32Of(b), From(b, 5))

ReadCString(b) ==
  LET zero == SelectInSeq(b, LAMBDA x : x = 0)
  IN IF zero = 0 THEN Bad ELSE Got(SubSeq(b, 1, zero - 1), From(b, zero + 1))

ReadString(b) ==
  Then(ReadInt32(b), LAMBDA l :
    IF l.v <= 0 THEN Bad
    ELSE Then(ReadFull(l.rest, l.v), LAMBDA s :
      IF Last(s.v) # 0 THEN Bad ELSE Got(Val("string", Front(s.v), <<>>), s.rest)))

ReadRegex(b) ==
  LET part(name) == [k |-> name.v, v |-> Val("null", <<>>, <<>>)]
  IN Then(ReadCString(b), LAMBDA pattern :
       Then(ReadCString(pattern.rest), LAMBDA options :
         Got(Val("Regex", <<>>, <<part(pattern), part(options)>>), options.rest)))

\* Mistake: every byte but 0 is true.
ReadBoolLeniently(b) ==
  IF b = <<>> THEN Bad ELSE Got(Val("bool", IF b[1] = 0 THEN <<0>> ELSE <<1>>, <<>>), Tail(b))

ReadBool(b) ==
  IF b = <<>> \/ b[1] \notin {0, 1} THEN Bad ELSE Got(Val("bool", <<b[1]>>, <<>>), Tail(b))

\* Document.validate: no key twice, since the map would be shorter.
Valid(fields) ==
  /\ \A i \in DOMAIN fields : IsValidKey(fields[i].k)
  /\ Cardinality({fields[i].k : i \in DOMAIN fields}) = Len(fields)

\* Document.ReadFrom; of the elements, up to the end of the document.
RECURSIVE ReadDocument(_), ReadElements(_)

\* Array.ReadFrom.
ReadArray(b) ==
  Then(ReadDocument(b), LAMBDA d :
    IF \E i \in DOMAIN d.v.sub : d.v.sub[i].k # Itoa(i - 1) THEN Bad
    ELSE Got(Val("array", <<>>, [i \in DOMAIN d.v.sub |-> [k |-> <<>>, v |-> d.v.sub[i].v]]),
             d.rest))

ReadValue(tag, b) ==
  IF ~\E t \in DOMAIN Tags : Tags[t] = tag THEN Bad
  ELSE LET t == CHOOSE t \in DOMAIN Tags : Tags[t] = tag
       IN CASE t = "document" -> ReadDocument(b)
            [] t = "array"    -> ReadArray(b)
            [] t = "string"   -> ReadString(b)
            [] t = "Regex"    -> ReadRegex(b)
            [] t = "bool"     -> ReadBool(b)
            [] OTHER -> Then(ReadFull(b, Sizes[t]), LAMBDA v : Got(Val(t, v.v, <<>>), v.rest))

ReadElements(b) ==
  IF b = <<>> THEN Bad
  ELSE IF b[1] = 0 THEN IF Len(b) = 1 THEN Got(<<>>, <<>>) ELSE Bad
  ELSE Then(ReadCString(Tail(b)), LAMBDA name :
         Then(ReadValue(b[1], name.rest), LAMBDA value :
           Then(ReadElements(value.rest), LAMBDA more :
             Got(<<[k |-> name.v, v |-> value.v]>> \o more.v, <<>>))))

ReadDocument(b) ==
  Then(ReadInt32(b), LAMBDA l :
    IF l.v < MinDocumentLen \/ l.v > MaxDocumentLen THEN Bad
    ELSE Then(ReadFull(l.rest, l.v - 4), LAMBDA elist :
      Then(ReadElements(elist.v), LAMBDA fields :
        IF Valid(fields.v) THEN Got(Val("document", <<>>, fields.v), elist.rest) ELSE Bad)))
=============================================================================
