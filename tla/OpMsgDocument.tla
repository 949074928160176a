---------------------------- MODULE OpMsgDocument ----------------------------
(***************************************************************************)
(* The command that the sections of an OP_MSG make (OpMsg.Document in      *)
(* internal/wire/op_msg.go).  A section is [kind, id, docs]: kind 0 is a   *)
(* body, one document, and kind 1 a sequence of documents for the key id.  *)
(***************************************************************************)
EXTENDS BsonValues

HasKey(fields, k) == \E i \in DOMAIN fields : fields[i].k = k

ArrayOf(docs) ==
  Val("array", <<>>, [i \in DOMAIN docs |-> [k |-> <<>>, v |-> docs[i]]])

\* Mistake: a sequence that repeats a key is taken, and Set replaces the value.
MergeReplacing(doc, s) ==
  IF ~doc.ok THEN Bad
  ELSE IF s.kind = 0 THEN
    IF Len(s.docs) # 1 \/ doc.v # <<>> THEN Bad ELSE Got(s.docs[1].sub, <<>>)
  ELSE IF s.id = <<>> \/ doc.v = <<>> THEN Bad
  ELSE IF ~IsValidKey(s.id) THEN doc
  ELSE LET others == SelectSeq(doc.v, LAMBDA f : f.k # s.id)
       IN Got(Append(others, [k |-> s.id, v |-> ArrayOf(s.docs)]), <<>>)

\* One round of OpMsg.Document: doc.v is the fields so far.  Set refuses a key
\* that is not valid, and its error is not looked at.
Merge(doc, s) ==
  IF ~doc.ok THEN Bad
  ELSE IF s.kind = 0 THEN
    IF Len(s.docs) # 1 \/ doc.v # <<>> THEN Bad ELSE Got(s.docs[1].sub, <<>>)
  ELSE IF s.id = <<>> \/ doc.v = <<>> \/ HasKey(doc.v, s.id) THEN Bad
  ELSE IF ~IsValidKey(s.id) THEN doc
  ELSE Got(Append(doc.v, [k |-> s.id, v |-> ArrayOf(s.docs)]), <<>>)

CommandDocument(sections) ==
  LET merged[n \in 0..Len(sections)] ==
        IF n = 0 THEN Got(<<>>, <<>>) ELSE Merge(merged[n - 1], sections[n])
  IN merged[Len(sections)]

-----------------------------------------------------------------------------

\* A body that has any fields.
IsCommand(s) == s.kind = 0 /\ s.docs[1].sub # <<>>

\* What a section adds to the command.
Part(s) ==
  CASE IsCommand(s) -> s.docs[1].sub
    [] s.kind = 1 /\ IsValidKey(s.id) -> <<[k |-> s.id, v |-> ArrayOf(s.docs)]>>
    [] OTHER -> <<>>

DistinctKeys(fields) == \A i, j \in DOMAIN fields : fields[i].k = fields[j].k => i = j

\* The command has the fields of the one body that has any, which is not
\* preceded by a sequence, followed by every sequence of documents whose
\* identifier is a valid key, whole and in order; no part replaces another.
HasAllParts(sections) ==
  LET fields == CommandDocument(sections).v
  IN /\ \A i, j \in DOMAIN sections : IsCommand(sections[i]) /\ IsCommand(sections[j]) => i = j
     /\ \A j \in DOMAIN sections :
          sections[j].kind = 1 => \E i \in 1..j - 1 : IsCommand(sections[i])
     /\ fields = FlattenSeq([i \in DOMAIN sections |-> Part(sections[i])])
     /\ DistinctKeys(fields)
=============================================================================
