------------------------------ MODULE WireLink ------------------------------
(***************************************************************************)
(* A connection as bytes: a client writes messages, the layer reads them   *)
(* one by one and either answers them (mode normal) or passes them on to   *)
(* another service (mode proxy).  The stream may end in the middle of a    *)
(* message, and one byte of it may be other than a correct client would    *)
(* write.  Messages that the layer reads from the service and passes on    *)
(* to the client go through the same code.                                 *)
(***************************************************************************)
EXTENDS WireFormat

CONSTANTS
  Messages,       \* [id, to, op, body] that a client may write
  MaxMessages,    \* how many it writes
  WrongBytes,     \* what a wrong byte may be
  Answers,        \* documents that handlers return
  FirstRequestID  \* the id of the layer's last reply, some time after its start

VARIABLES
  mode,           \* "normal" or "proxy"
  link,           \* "open", "cut", or "garbled": a byte is wrong
  stream,         \* what has been written and not been read
  pc,             \* "reading", "handling", or how the connection has ended
  lastRequestID,
  forwarded,      \* the bytes written to the service
  replies,        \* the bytes written to the client
  sent, got,      \* history: the messages written, and read
  consumed,       \* history: the bytes of the messages read
  answers         \* history: the documents of the replies

vars == <<mode, link, stream, pc, lastRequestID, forwarded, replies, sent, got, consumed, answers>>
history == <<sent, got, consumed, answers>>

Init ==
  /\ mode \in {"normal", "proxy"}
  /\ link = "open" /\ pc = "reading" /\ lastRequestID = FirstRequestID
  /\ stream = <<>> /\ forwarded = <<>> /\ replies = <<>>
  /\ sent = <<>> /\ got = <<>> /\ consumed = <<>> /\ answers = <<>>

HeaderFor(m) == [length |-> MsgHeaderLen + Len(BodyBytes(m.op, m.body)),
                 id |-> m.id, to |-> m.to, op |-> m.op]

\* The client.
Send ==
  /\ link = "open" /\ pc = "reading" /\ Len(sent) < MaxMessages
  /\ \E m \in Messages :
       LET h == HeaderFor(m)
       IN /\ sent' = Append(sent, [h |-> h, body |-> m.body])
          /\ stream' = stream \o WriteMessage(h, m.body)
  /\ UNCHANGED <<mode, link, pc, lastRequestID, forwarded, replies, got, consumed, answers>>

\* The stream ends, after any byte.
Cut ==
  /\ link = "open" /\ link' = "cut"
  /\ \E n \in 0..Len(stream) : stream' = SubSeq(stream, 1, n)
  /\ UNCHANGED <<mode, pc, lastRequestID, forwarded, replies, history>>

\* A byte of the first message is wrong.
Garble ==
  /\ link = "open" /\ Len(sent) = 1 /\ got = <<>> /\ link' = "garbled"
  /\ \E i \in DOMAIN stream, x \in WrongBytes : stream' = [stream EXCEPT ![i] = x]
  /\ UNCHANGED <<mode, pc, lastRequestID, forwarded, replies, history>>

\* wire.ReadMessage, when the message is there.
Read ==
  /\ pc = "reading" /\ Complete(stream)
  /\ LET m == ReadMessage(stream)
     IN IF m.ok
        THEN /\ pc' = "handling" /\ stream' = m.rest
             /\ got' = Append(got, m.v)
             /\ consumed' = consumed \o SubSeq(stream, 1, m.v.h.length)
        ELSE pc' = "failed" /\ UNCHANGED <<stream, got, consumed>>
  /\ UNCHANGED <<mode, link, lastRequestID, forwarded, replies, sent, answers>>

\* wire.ReadMessage, when nothing more will come.
ReadEnds ==
  /\ pc = "reading" /\ link = "cut" /\ ~Complete(stream)
  /\ pc' = IF stream = <<>> THEN "closed" ELSE "failed"
  /\ UNCHANGED <<mode, link, stream, lastRequestID, forwarded, replies, history>>

Request == Last(got)

\* proxy.Handle, up to the service's answer.
Forward ==
  /\ pc = "handling" /\ mode = "proxy"
  /\ IF CanWrite(Request.h, Request.body)
     THEN /\ forwarded' = forwarded \o WriteMessage(Request.h, Request.body)
          /\ pc' = "reading"
     ELSE pc' = "panicked" /\ UNCHANGED forwarded
  /\ UNCHANGED <<mode, link, stream, lastRequestID, replies, history>>

-----------------------------------------------------------------------------
(* Handler.Handle. *)

\* Mistake: the id stays at the largest int32.
NextIDSaturating(id) == IF id = 2147483647 THEN id ELSE id + 1

\* lastRequestID + 1, as an int32.
NextID(id) == IF id = 2147483647 THEN -2147483647 - 1 ELSE id + 1

\* "admin.$cmd" and "ismaster"
AdminCmd == <<97, 100, 109, 105, 110, 46, 36, 99, 109, 100>>
IsMaster == <<105, 115, 109, 97, 115, 116, 101, 114>>

\* The name of the command is the first key, in lower case.
Command(fields) == LET k == fields[1].k
                   IN [i \in DOMAIN k |-> IF k[i] \in 65..90 THEN k[i] + 32 ELSE k[i]]

\* There is no first key in an empty document, and an error of the only command
\* that is a query cannot be answered.
Answerable(req) ==
  \/ req.h.op = OP_MSG /\ CommandDocument(req.body.sections).v # <<>>
  \/ /\ req.h.op = OP_QUERY /\ req.body.col = AdminCmd
     /\ req.body.query.sub # <<>> /\ Command(req.body.query.sub) = IsMaster

ReplyBody(op, d) ==
  IF op = OP_MSG
  THEN [flags |-> <<0, 0, 0, 0>>, sections |-> <<[kind |-> 0, id |-> <<>>, docs |-> <<d>>]>>,
        checksum |-> <<>>]
  ELSE [flags |-> <<0, 0, 0, 0>>, cursor |-> <<0, 0, 0, 0, 0, 0, 0, 0>>,
        from |-> <<0, 0, 0, 0>>, docs |-> <<d>>]

\* The request is answered, and the reply written.
Answer ==
  /\ pc = "handling" /\ mode = "normal" /\ Answerable(Request)
  /\ \E d \in Answers :
       LET op == IF Request.h.op = OP_MSG THEN OP_MSG ELSE OP_REPLY
           body == ReplyBody(op, d)
           id == NextID(lastRequestID)
           h == [length |-> MsgHeaderLen + Len(BodyBytes(op, body)),
                 id |-> id, to |-> Request.h.id, op |-> op]
       IN /\ replies' = replies \o WriteMessage(h, body)
          /\ answers' = Append(answers, d)
          /\ lastRequestID' = id
  /\ pc' = "reading"
  /\ UNCHANGED <<mode, link, stream, forwarded, sent, got, consumed>>

\* A query that is not isMaster, an OP_REPLY, or an empty document.
HandlePanics ==
  /\ pc = "handling" /\ mode = "normal" /\ ~Answerable(Request)
  /\ pc' = "panicked"
  /\ UNCHANGED <<mode, link, stream, lastRequestID, forwarded, replies, history>>

Next == Send \/ Cut \/ Garble \/ Read \/ ReadEnds \/ Forward \/ Answer \/ HandlePanics

Spec == Init /\ [][Next]_vars

-----------------------------------------------------------------------------
(* Properties. *)

\* Without a wrong byte, the layer reads what the client has written, message
\* by message: the lengths, flags and sections of a message bring it to the
\* first byte of the next one.  Reading fails only where the stream was cut.
InSync ==
  link # "garbled" =>
    /\ got = SubSeq(sent, 1, Len(got))
    /\ pc = "closed" => \E n \in 0..Len(sent) : got = SubSeq(sent, 1, n) /\ stream = <<>>
    /\ pc = "failed" => link = "cut" /\ ~Complete(stream)

\* Every message that is read, also one with a wrong byte in it, is passed on
\* byte for byte as it came: nothing that ReadMessage accepts is changed, or
\* has another length, when it is written again, which would be a panic.
ForwardedUnchanged ==
  mode = "proxy" =>
    /\ pc # "panicked"
    /\ IsPrefix(forwarded, consumed)
    /\ pc = "reading" => forwarded = consumed

\* The command of an accepted request has all parts of the request: its name and
\* its fields come from one body, and every sequence of documents is there.
CommandIsWhole ==
  pc = "handling" /\ Request.h.op = OP_MSG => HasAllParts(Request.body.sections)

\* What a client reads of a stream of replies.
RECURSIVE ReadAll(_)
ReadAll(b) ==
  LET from(m) == IF m.ok THEN <<m.v>> \o ReadAll(m.rest) ELSE <<>>
  IN IF Complete(b) THEN from(ReadMessage(b)) ELSE <<>>

\* A client can read the replies, also when the ids of replies have passed the
\* largest int32: each answers the request that was read in its turn, in the
\* kind of message that the request asks for, and with an id of its own.
RepliesReadable ==
  LET rs == ReadAll(replies)
      docs(r) == IF r.h.op = OP_MSG THEN r.body.sections[1].docs ELSE r.body.docs
  IN /\ Len(rs) = Len(answers)
     /\ \A i \in DOMAIN rs : /\ rs[i].h.to = got[i].h.id
                             /\ rs[i].h.op = IF got[i].h.op = OP_MSG THEN OP_MSG ELSE OP_REPLY
                             /\ docs(rs[i]) = <<answers[i]>>
                             /\ \A j \in DOMAIN rs : j # i => rs[j].h.id # rs[i].h.id
=============================================================================
