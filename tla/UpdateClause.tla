----------------------------- MODULE UpdateClause -----------------------------
(***************************************************************************)
(* Which documents an UPDATE statement touches (update and                 *)
(* createSetandUnsetSqlStmnt in handlers/crud/msg_update.go): those that   *)
(* the filter's clause selects and that the update would change, so that   *)
(* the number of rows is the number of documents modified.                 *)
(*                                                                         *)
(* An update is [set, unset], two sequences of [k, n]: the fields and, for *)
(* $set, the values they get.  The documents are those of WhereClause.     *)
(***************************************************************************)
EXTENDS WhereClause

CONSTANT Updates

\* No document has a field twice, and no field is both set and unset.
ASSUME UpdatesAssumption ==
  \A u \in Updates :
    /\ u.set \in Seq([k : Field, n : FieldValue]) /\ u.unset \in Seq([k : Field, n : FieldValue])
    /\ \A i, j \in DOMAIN u.set : u.set[i].k = u.set[j].k => i = j
    /\ \A i \in DOMAIN u.set, j \in DOMAIN u.unset : u.set[i].k # u.unset[j].k

\* The clause of the document given to $set.
UpToDate(u, d) ==
  LET o(i) == [op |-> "eq", n |-> u.set[i].n, ops |-> <<>>]
  IN Conj({Value(Extend(FieldText, <<>>, o(i), d[u.set[i].k], FALSE)) : i \in DOMAIN u.set})

SomeUnset(u, d) == Disj({IsUnset(d[u.set[i].k]) : i \in DOMAIN u.set})
SomeSet(u, d)   == Disj({IsSet(d[u.unset[i].k]) : i \in DOMAIN u.unset})

\* Neither a field to set nor one to unset: "no such command: replaceOne".
Replaces(u) == u.set = <<>> /\ u.unset = <<>>

\* Mistake: a field that is to be set and is not there is forgotten.
NeedsUpdateWithoutUnset(u, d) ==
  IF u.set = <<>> THEN SomeSet(u, d)
  ELSE IF u.unset = <<>> THEN Not(UpToDate(u, d))
  ELSE Disj({Not(UpToDate(u, d)), SomeSet(u, d)})

\* The condition that is appended to the filter's clause.
NeedsUpdate(u, d) ==
  IF u.set = <<>> THEN SomeSet(u, d)
  ELSE IF u.unset = <<>> THEN Disj({Not(UpToDate(u, d)), SomeUnset(u, d)})
  ELSE Disj({Not(UpToDate(u, d)), SomeUnset(u, d), SomeSet(u, d)})

UpdateTruth(f, u, d) == Conj({ClauseTruth[f][d][FALSE], NeedsUpdate(u, d)})

\* What the statement makes of a document.
Apply(u, d) ==
  [k \in DOMAIN d |->
     IF \E i \in DOMAIN u.set : u.set[i].k = k
       THEN {u.set[CHOOSE i \in DOMAIN u.set : u.set[i].k = k].n}
     ELSE IF \E i \in DOMAIN u.unset : u.unset[i].k = k THEN {} ELSE d[k]]
=============================================================================
