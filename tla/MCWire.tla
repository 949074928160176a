------------------------------- MODULE MCWire -------------------------------
(* Messages for TLC.  A text is its bytes: 97 is "a", 36 "$". *)
EXTENDS WireLink, TLC

Null      == Val("null", <<>>, <<>>)
Str(b)    == Val("string", b, <<>>)
Bool(b)   == Val("bool", <<b>>, <<>>)
Int32Val(n)    == Val("int32", Int32(n), <<>>)
Doc(fs)   == Val("document", <<>>, fs)
Arr(vs)   == Val("array", <<>>, [i \in DOMAIN vs |-> [k |-> <<>>, v |-> vs[i]]])
Fld(k, v) == [k |-> k, v |-> v]

Oid   == Val("ObjectID", <<1, 0, 3, 4, 5, 6, 7, 8, 9, 10, 11, 12>>, <<>>)
Half  == Val("double", <<0, 0, 0, 0, 0, 0, 224, 63>>, <<>>)
Date  == Val("DateTime", <<1, 0, 0, 0, 0, 0, 0, 0>>, <<>>)
Long  == Val("int64", <<0, 0, 0, 0, 1, 0, 0, 0>>, <<>>)
Regex == Val("Regex", <<>>, <<Fld(<<94>>, Null), Fld(<<>>, Null)>>)

Ping    == Doc(<<Fld(<<112>>, Int32Val(1)), Fld(<<36, 100, 98>>, Str(<<97>>))>>)
Scalars == Doc(<<Fld(<<97>>, Half), Fld(<<98>>, Oid), Fld(<<99>>, Bool(1)), Fld(<<100>>, Date),
                 Fld(<<101>>, Null), Fld(<<102>>, Regex), Fld(<<103>>, Long)>>)
Nested  == Doc(<<Fld(<<97>>, Arr(<<Str(<<>>), Doc(<<>>), Arr(<<Bool(0)>>)>>)),
                 Fld(<<98>>, Doc(<<Fld(<<97>>, Int32Val(-2))>>))>>)
Small   == Doc(<<Fld(<<120>>, Bool(0))>>)

Hello   == Doc(<<Fld(<<105, 115, 77, 97, 115, 116, 101, 114>>, Int32Val(1))>>)

Body(d)    == [kind |-> 0, id |-> <<>>, docs |-> <<d>>]
Sq(id, ds) == [kind |-> 1, id |-> id, docs |-> ds]
Flags(n)   == <<n, 0, 0, 0>>

Msg(id, flags, sections) ==
  [id |-> id, to |-> 0, op |-> OP_MSG,
   body |-> [flags |-> Flags(flags), sections |-> sections,
             checksum |-> IF flags % 2 = 1 THEN <<1, 0, 2, 3>> ELSE <<>>]]
Query(id, col, d, selector) ==
  [id |-> id, to |-> 0, op |-> OP_QUERY,
   body |-> [flags |-> Flags(4), col |-> col, skip |-> Flags(0), limit |-> <<255, 255, 255, 255>>,
             query |-> d, selector |-> selector]]
Reply(id, ds) ==
  [id |-> id, to |-> 7, op |-> OP_REPLY,
   body |-> [flags |-> Flags(8), cursor |-> <<0, 0, 0, 0, 0, 0, 0, 0>>, from |-> Flags(0), docs |-> ds]]

ClientMessages ==
  {Msg(5, 0, <<Body(Ping)>>), Msg(-1, 1, <<Body(Scalars)>>), Msg(6, 2, <<Body(Nested)>>),
   Msg(7, 1, <<Body(Small), Sq(<<97, 98>>, <<Small, Small>>)>>),
   Msg(8, 0, <<Body(Small), Sq(<<97>>, <<>>), Sq(<<98>>, <<Small>>)>>),
   Msg(9, 0, <<Body(Small), Sq(<<36>>, <<Small>>)>>),
   Msg(10, 0, <<Body(Doc(<<>>))>>), Msg(11, 0, <<Body(Doc(<<>>)), Body(Small)>>),
   Query(12, AdminCmd, Hello, <<>>), Query(13, AdminCmd, Small, <<Ping>>),
   Query(14, <<97, 46, 98>>, Hello, <<>>),
   Reply(15, <<Small, Ping>>), Reply(16, <<>>)}

HandlerAnswers == {Small, Nested}
BeforeWrap == 2147483646
=============================================================================
