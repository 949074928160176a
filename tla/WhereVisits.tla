---------------------------- MODULE WhereVisits ----------------------------
(***************************************************************************)
(* What the translation of a filter of WhereClause visits, for NorFlag.    *)
(***************************************************************************)
EXTENDS Integers, Sequences, SequencesExt

ACondition == [at |-> "condition"]

\* fieldExpression returns from the middle of its loop when it meets $not.
Translatable(ops) ==
  LET nots == {i \in DOMAIN ops : ops[i].op = "not"}
  IN IF nots = {} THEN ops ELSE SubSeq(ops, 1, Min(nots))

RECURSIVE OperatorVisits(_)
OperatorVisits(o) ==
  CASE o.op = "all" -> <<>>
    [] o.op = "not" -> LET ops == Translatable(o.ops)
                       IN FlattenSeq([i \in DOMAIN ops |-> OperatorVisits(ops[i])])
    [] o.op = "elemMatch" -> FlattenSeq([i \in DOMAIN o.ops |-> OperatorVisits(o.ops[i])])
    [] o.op = "unsupported" -> <<[at |-> "reject"]>>
    [] OTHER -> <<ACondition>>

RECURSIVE FilterVisits(_)
FilterVisits(f) ==
  LET visits(e) ==
        CASE e.t = "value" -> <<ACondition>>
          [] e.t = "field" -> LET ops == Translatable(e.ops)
                              IN FlattenSeq([i \in DOMAIN ops |-> OperatorVisits(ops[i])])
          [] e.t \in {"and", "or", "nor"} ->
               <<[at |-> "enter", op |-> e.t, len |-> Len(e.docs)]>>
               \o FlattenSeq([i \in DOMAIN e.docs |-> FilterVisits(e.docs[i])])
               \o <<[at |-> "leave"]>>
          [] OTHER -> <<[at |-> "reject"]>>
  IN FlattenSeq([i \in DOMAIN f |-> visits(f[i])])
=============================================================================
