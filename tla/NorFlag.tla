------------------------------ MODULE NorFlag ------------------------------
(***************************************************************************)
(* The translation of filters to WHERE clauses as it runs                  *)
(* (internal/handlers/common/where.go): inside a $nor every condition gets *)
(* an additional "IS SET", because NOT of a comparison with an unset field *)
(* would not be true.  Whether the translation is inside a $nor is not a   *)
(* parameter: it is the package variable isNor, with a counter of the      *)
(* $nor's that are open, and every connection's goroutine reads and writes *)
(* both without a lock.                                                    *)
(*                                                                         *)
(* A filter is seen as the sequence of things that its depth-first         *)
(* translation meets.  What a condition becomes with and without "IS SET"  *)
(* is in WhereClause.                                                      *)
(***************************************************************************)
EXTENDS Integers, Sequences, FiniteSets

CONSTANTS Conns,        \* connections that translate filters
          Filters,      \* Filters[c]: what connection c may be asked to translate
          Visits(_),    \* Visits(f): what the translation of f meets
          MaxCounter    \* bounds norCounter when it is not restored

\* What the translation does: it enters the array of an $and, $or or $nor with so many
\* elements, leaves it, translates a condition, or meets something that it
\* rejects.
Operators == {"and", "or", "nor"}

Visit == [at : {"enter"}, op : Operators, len : Nat]
         \cup [at : {"leave", "condition", "reject"}]

AnyFilter == {<<>>} \cup UNION {Filters[c] : c \in Conns}

ASSUME VisitsAssumption ==
  \A c \in Conns : \A f \in Filters[c] : Visits(f) \in Seq(Visit)
ASSUME MaxCounterAssumption == MaxCounter \in Nat

VARIABLES isNor, norCounter,  \* the package variables
          filter,   \* filter[c]: the filter being translated
          todo,     \* todo[c]: what is still to be visited
          frames,   \* frames[c]: the open calls of logicExpression
          pc,       \* pc[c]: where the translation is
          loaded,   \* loaded[c]: norCounter as read by a ++ or --
          clean     \* history: nothing has disturbed the package variables

locals == <<filter, todo, frames, pc, loaded>>
vars == <<isNor, norCounter, locals, clean>>

Labels == {"idle", "visit", "inc", "incremented", "length", "dec", "decremented",
           "last", "reset", "translated", "rejected"}

Init ==
  /\ isNor = FALSE
  /\ norCounter = 0
  /\ filter = [c \in Conns |-> <<>>]
  /\ todo = [c \in Conns |-> <<>>]
  /\ frames = [c \in Conns |-> <<>>]
  /\ pc = [c \in Conns |-> "idle"]
  /\ loaded = [c \in Conns |-> 0]
  /\ clean = TRUE

\* The translation runs.
Active(c) == pc[c] \notin {"idle", "translated", "rejected"}

\* A call of logicExpression for a $nor is open.
InNor(c) == \E i \in DOMAIN frames[c] : frames[c][i] = "nor"

Goto(c, l) == pc' = [pc EXCEPT ![c] = l]

\* The connection's translation is about to visit something of kind k.
Visiting(c, k) == pc[c] = "visit" /\ todo[c] # <<>> /\ Head(todo[c]).at = k

Advance(c) == todo' = [todo EXCEPT ![c] = Tail(@)]

-----------------------------------------------------------------------------
\* CreateWhereClause is called.
Begin(c) ==
  /\ pc[c] = "idle" /\ norCounter \in -MaxCounter..MaxCounter
  /\ \E f \in Filters[c] :
       /\ filter' = [filter EXCEPT ![c] = f]
       /\ todo' = [todo EXCEPT ![c] = Visits(f)]
  /\ Goto(c, "visit")
  /\ clean' = (clean /\ \A d \in Conns : ~Active(d))
  /\ UNCHANGED <<isNor, norCounter, frames, loaded>>

\* logicExpression is called; for $nor it sets isNor and ...
Enter(c) ==
  /\ Visiting(c, "enter")
  /\ LET op == Head(todo[c]).op
     IN /\ frames' = [frames EXCEPT ![c] = Append(@, op)]
        /\ isNor' = (isNor \/ op = "nor")
        /\ Goto(c, IF op = "nor" THEN "inc" ELSE "length")
  /\ UNCHANGED <<norCounter, filter, todo, loaded, clean>>

\* ... increments norCounter: a load and a store.
LoadToIncrement(c) ==
  /\ pc[c] = "inc"
  /\ loaded' = [loaded EXCEPT ![c] = norCounter]
  /\ Goto(c, "incremented")
  /\ UNCHANGED <<isNor, norCounter, filter, todo, frames, clean>>

StoreIncremented(c) ==
  /\ pc[c] = "incremented"
  /\ norCounter' = loaded[c] + 1
  /\ Goto(c, "length")
  /\ UNCHANGED <<isNor, filter, todo, frames, loaded, clean>>

\* An array of fewer than two elements is rejected, unless isNor.
CheckLength(c) ==
  /\ pc[c] = "length" /\ todo[c] # <<>>
  /\ Goto(c, IF Head(todo[c]).len < 2 /\ ~isNor THEN "rejected" ELSE "visit")
  /\ Advance(c)
  /\ clean' = (clean /\ (pc'[c] = "rejected" => ~InNor(c)))
  /\ UNCHANGED <<isNor, norCounter, filter, frames, loaded>>

\* wherePair or fieldExpression translates a condition, with "IS SET" if isNor.
Condition(c) ==
  /\ Visiting(c, "condition")
  /\ Advance(c)
  /\ UNCHANGED <<isNor, norCounter, filter, frames, pc, loaded, clean>>

\* Something is not supported: an error is returned through all open calls.
Reject(c) ==
  /\ Visiting(c, "reject")
  /\ Goto(c, "rejected")
  /\ clean' = (clean /\ ~InNor(c))
  /\ UNCHANGED <<isNor, norCounter, filter, todo, frames, loaded>>

\* logicExpression returns; for $nor it decrements norCounter, again a load ...
Leave(c) ==
  /\ Visiting(c, "leave") /\ frames[c] # <<>>
  /\ Goto(c, IF frames[c][Len(frames[c])] = "nor" THEN "dec" ELSE "visit")
  /\ frames' = [frames EXCEPT ![c] = SubSeq(@, 1, Len(@) - 1)]
  /\ Advance(c)
  /\ UNCHANGED <<isNor, norCounter, filter, loaded, clean>>

LoadToDecrement(c) ==
  /\ pc[c] = "dec"
  /\ loaded' = [loaded EXCEPT ![c] = norCounter]
  /\ Goto(c, "decremented")
  /\ UNCHANGED <<isNor, norCounter, filter, todo, frames, clean>>

\* ... and a store, ...
StoreDecremented(c) ==
  /\ pc[c] = "decremented"
  /\ norCounter' = loaded[c] - 1
  /\ Goto(c, "last")
  /\ UNCHANGED <<isNor, filter, todo, frames, loaded, clean>>

\* Mistake: the inner $nor of two resets isNor.
TestAlways(c) ==
  /\ pc[c] = "last"
  /\ Goto(c, "reset")
  /\ UNCHANGED <<isNor, norCounter, filter, todo, frames, loaded, clean>>

\* ... and, if norCounter is then found to be zero, ...
TestCounter(c) ==
  /\ pc[c] = "last"
  /\ Goto(c, IF norCounter = 0 THEN "reset" ELSE "visit")
  /\ UNCHANGED <<isNor, norCounter, filter, todo, frames, loaded, clean>>

\* ... resets isNor.
ResetFlag(c) ==
  /\ pc[c] = "reset"
  /\ isNor' = FALSE
  /\ Goto(c, "visit")
  /\ UNCHANGED <<norCounter, filter, todo, frames, loaded, clean>>

\* CreateWhereClause has the whole clause; all calls have returned.
Translated(c) ==
  /\ pc[c] = "visit" /\ todo[c] = <<>> /\ frames[c] = <<>>
  /\ Goto(c, "translated")
  /\ UNCHANGED <<isNor, norCounter, filter, todo, frames, loaded, clean>>

\* The handler has used the clause, or answered the error.
Forget(c) ==
  /\ pc[c] \in {"translated", "rejected"}
  /\ Goto(c, "idle")
  /\ filter' = [filter EXCEPT ![c] = <<>>]
  /\ todo' = [todo EXCEPT ![c] = <<>>]
  /\ frames' = [frames EXCEPT ![c] = <<>>]
  /\ loaded' = [loaded EXCEPT ![c] = 0]
  /\ UNCHANGED <<isNor, norCounter, clean>>

\* The process ends and is started again.
Restart ==
  /\ isNor' = FALSE
  /\ norCounter' = 0
  /\ filter' = [c \in Conns |-> <<>>]
  /\ todo' = [c \in Conns |-> <<>>]
  /\ frames' = [c \in Conns |-> <<>>]
  /\ pc' = [c \in Conns |-> "idle"]
  /\ loaded' = [c \in Conns |-> 0]
  /\ clean' = TRUE

Next ==
  \/ Restart
  \/ \E c \in Conns :
       \/ Begin(c) \/ Enter(c) \/ LoadToIncrement(c) \/ StoreIncremented(c)
       \/ CheckLength(c) \/ Condition(c) \/ Reject(c) \/ Leave(c)
       \/ LoadToDecrement(c) \/ StoreDecremented(c) \/ TestCounter(c)
       \/ ResetFlag(c) \/ Translated(c) \/ Forget(c)

Spec == Init /\ [][Next]_vars

-----------------------------------------------------------------------------
(* Properties. *)

TypeOK ==
  /\ isNor \in BOOLEAN
  /\ norCounter \in Int
  /\ filter \in [Conns -> AnyFilter]
  /\ todo \in [Conns -> Seq(Visit)]
  /\ frames \in [Conns -> Seq(Operators)]
  /\ pc \in [Conns -> Labels]
  /\ loaded \in [Conns -> Int]
  /\ clean \in BOOLEAN

\* The translation of connection c is about to read isNor.
ReadsFlag(c) == Visiting(c, "condition") \/ pc[c] = "length"

\* Every condition is translated as its own filter demands: with "IS SET" if
\* and only if it is inside a $nor of that filter; and an array is allowed to
\* be short in the same case only.  As long as translations do not overlap and
\* none has been rejected inside a $nor since the process started.
FlagIsOwnIfClean ==
  clean => \A c \in Conns : ReadsFlag(c) => (isNor <=> InNor(c))

\* The same, whatever other translations do.  Fails.
FlagIsOwn ==
  \A c \in Conns : ReadsFlag(c) => (isNor <=> InNor(c))
=============================================================================
