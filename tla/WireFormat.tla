----------------------------- MODULE WireFormat -----------------------------
(***************************************************************************)
(* Messages as bytes and back (internal/wire).                             *)
(*                                                                         *)
(* A message has a header [length, id, to, op] and a body, whose fields    *)
(* are those of OpMsg, OpQuery or OpReply; flags, checksum, skip, limit    *)
(* cursor and from are bytes that the code only copies.  A section is      *)
(* [kind, id, docs].                                                       *)
(***************************************************************************)
EXTENDS BsonFormat, OpMsgDocument

MsgHeaderLen      == 16
MaxMsgLen         == 48000000
MaxNumberReturned == 1000

OP_REPLY == 1
OP_QUERY == 2004
OP_MSG   == 2013

\* The flag checksumPresent, in the first of the four bytes.
ChecksumPresent(flags) == flags[1] % 2 = 1

DocumentsBytes(docs) == FlattenSeq([i \in DOMAIN docs |-> MarshalBinary(docs[i])])

-----------------------------------------------------------------------------
(* Writing. *)

SectionBytes(s) ==
  LET sec == CString(s.id) \o DocumentsBytes(s.docs)
  IN IF s.kind = 0 THEN <<0>> \o MarshalBinary(s.docs[1])
     ELSE <<1>> \o Int32(Len(sec) + 4) \o sec

OpMsgBytes(m) ==
  m.flags \o FlattenSeq([i \in DOMAIN m.sections |-> SectionBytes(m.sections[i])])
  \o (IF ChecksumPresent(m.flags) THEN m.checksum ELSE <<>>)

OpQueryBytes(q) ==
  q.flags \o CString(q.col) \o q.skip \o q.limit \o MarshalBinary(q.query)
  \o DocumentsBytes(q.selector)

OpReplyBytes(r) ==
  r.flags \o r.cursor \o r.from \o Int32(Len(r.docs)) \o DocumentsBytes(r.docs)

BodyBytes(op, body) ==
  CASE op = OP_MSG -> OpMsgBytes(body)
    [] op = OP_QUERY -> OpQueryBytes(body)
    [] op = OP_REPLY -> OpReplyBytes(body)

HeaderBytes(h) == Int32(h.length) \o Int32(h.id) \o Int32(h.to) \o Int32(h.op)

\* WriteMessage panics unless the header has the length of the body.
CanWrite(h, body) == h.length = MsgHeaderLen + Len(BodyBytes(h.op, body))
WriteMessage(h, body) == HeaderBytes(h) \o BodyBytes(h.op, body)

-----------------------------------------------------------------------------
(* Reading. *)

\* Documents up to the end of the section.
RECURSIVE ReadDocuments(_)
ReadDocuments(b) ==
  IF b = <<>> THEN Got(<<>>, <<>>)
  ELSE Then(ReadDocument(b), LAMBDA d :
         Then(ReadDocuments(d.rest), LAMBDA more : Got(<<d.v>> \o more.v, <<>>)))

ReadSection(b) ==
  CASE b # <<>> /\ b[1] = 0 ->
         Then(ReadDocument(Tail(b)), LAMBDA d :
           Got([kind |-> 0, id |-> <<>>, docs |-> <<d.v>>], d.rest))
    [] b # <<>> /\ b[1] = 1 ->
         Then(ReadInt32(Tail(b)), LAMBDA size :
           IF size.v < 5 THEN Bad
           ELSE Then(ReadFull(size.rest, size.v - 4), LAMBDA sec :
             Then(ReadCString(sec.v), LAMBDA id :
               Then(ReadDocuments(id.rest), LAMBDA docs :
                 Got([kind |-> 1, id |-> id.v, docs |-> docs.v], sec.rest)))))
    [] OTHER -> Bad

\* Mistake: sections are read until nothing is left, even if a checksum is.
AnotherSectionToTheEnd(b, checksum) == Len(b) >= 1

\* The Peek after a section.
AnotherSection(b, checksum) == Len(b) >= IF checksum THEN 5 ELSE 1

RECURSIVE ReadSections(_, _)
ReadSections(b, checksum) ==
  Then(ReadSection(b), LAMBDA s :
    IF ~AnotherSection(s.rest, checksum) THEN Got(<<s.v>>, s.rest)
    ELSE Then(ReadSections(s.rest, checksum), LAMBDA more : Got(<<s.v>> \o more.v, more.rest)))

\* UnmarshalBinary of the three bodies: v, and nothing may be left.
ReadOpMsg(b) ==
  Then(ReadFull(b, 4), LAMBDA flags :
    Then(ReadSections(flags.rest, ChecksumPresent(flags.v)), LAMBDA sections :
      Then(ReadFull(sections.rest, IF ChecksumPresent(flags.v) THEN 4 ELSE 0), LAMBDA checksum :
        IF checksum.rest # <<>> \/ ~CommandDocument(sections.v).ok THEN Bad
        ELSE Got([flags |-> flags.v, sections |-> sections.v, checksum |-> checksum.v], <<>>))))

ReadOpQuery(b) ==
  Then(ReadFull(b, 4), LAMBDA flags :
    Then(ReadCString(flags.rest), LAMBDA col :
      Then(ReadFull(col.rest, 8), LAMBDA numbers :
        Then(ReadDocument(numbers.rest), LAMBDA query :
          Then(ReadDocuments(query.rest), LAMBDA selector :
            IF Len(selector.v) > 1 THEN Bad
            ELSE Got([flags |-> flags.v, col |-> col.v, skip |-> SubSeq(numbers.v, 1, 4),
                      limit |-> From(numbers.v, 5), query |-> query.v,
                      selector |-> selector.v], <<>>))))))

\* n documents, and nothing after them.
ReadOpReply(b) ==
  Then(ReadFull(b, 16), LAMBDA head :
    Then(ReadInt32(head.rest), LAMBDA n :
      IF n.v < 0 \/ n.v > MaxNumberReturned THEN Bad
      ELSE Then(ReadDocuments(n.rest), LAMBDA docs :
        IF Len(docs.v) # n.v THEN Bad
        ELSE Got([flags |-> SubSeq(head.v, 1, 4), cursor |-> SubSeq(head.v, 5, 12),
                  from |-> From(head.v, 13), docs |-> docs.v], <<>>))))

ReadBody(op, b) ==
  CASE op = OP_MSG -> ReadOpMsg(b)
    [] op = OP_QUERY -> ReadOpQuery(b)
    [] op = OP_REPLY -> ReadOpReply(b)
    [] OTHER -> Bad

ReadHeader(b) ==
  [length |-> Int32Of(b), id |-> Int32Of(From(b, 5)),
   to |-> Int32Of(From(b, 9)), op |-> Int32Of(From(b, 13))]

GoodLength(h) == h.length >= MsgHeaderLen /\ h.length <= MaxMsgLen

\* Has ReadMessage all it waits for?
Complete(b) ==
  /\ Len(b) >= MsgHeaderLen
  /\ GoodLength(ReadHeader(b)) => Len(b) >= ReadHeader(b).length

\* ReadMessage, when it has.
ReadMessage(b) ==
  LET h == ReadHeader(b)
  IN IF ~GoodLength(h) THEN Bad
     ELSE Then(ReadBody(h.op, SubSeq(b, MsgHeaderLen + 1, h.length)), LAMBDA body :
            Got([h |-> h, body |-> body.v], From(b, h.length + 1)))
=============================================================================
