---------------------------- MODULE WhereProofs ----------------------------
(***************************************************************************)
(* Proofs of WhereTranslation: the flag of $nor is the translation's own   *)
(* as long as translations do not overlap and none is rejected inside a    *)
(* $nor; the clause of every filter that is Sound selects the documents    *)
(* that the filter matches; and an UPDATE touches those that it changes.   *)
(*                                                                         *)
(* The meanings are recursive functions of filters and of expressions.     *)
(* That such a function is what its definition says follows from the rank  *)
(* (Depth, Size) of what is nested (RecursiveFunctionExists); that filter  *)
(* and clause agree follows by induction over the same rank, which is done *)
(* with the set of those for which they agree (RankInduction).             *)
(***************************************************************************)
EXTENDS WhereTranslation, RecursionProofs, FiniteSetTheorems, SequenceTheorems

-----------------------------------------------------------------------------
(* The flag of $nor: FlagIsOwnIfClean, for any connections and filters. *)

\* The open calls of logicExpression for a $nor, and how many of them
\* norCounter counts.
Nors(fr) == {i \in DOMAIN fr : fr[i] = "nor"}
Count(c) == Cardinality(Nors(frames[c]))
Counted(c) ==
  CASE pc[c] \in {"inc", "incremented"} -> Count(c) - 1
    [] pc[c] \in {"dec", "decremented"} -> Count(c) + 1
    [] OTHER                            -> Count(c)

\* isNor while the translation of c runs.
FlagOf(c) ==
  pc[c] \in {"inc", "incremented", "dec", "decremented", "last", "reset"} \/ InNor(c)

\* The package variables belong to the one translation that runs.
Own ==
  /\ \A c, d \in Conns : Active(c) /\ Active(d) => c = d
  /\ \A c \in Conns : Active(c) =>
       /\ norCounter = Counted(c)
       /\ isNor <=> FlagOf(c)
       /\ pc[c] \in {"incremented", "decremented"} => loaded[c] = norCounter
       /\ pc[c] = "reset" => ~InNor(c)
  /\ (\A c \in Conns : ~Active(c)) => ~isNor /\ norCounter = 0

\* A connection at rest has no open calls; one that is about to count a $nor
\* has opened it.
FramesOK ==
  \A c \in Conns :
    /\ pc[c] = "idle" => frames[c] = <<>>
    /\ pc[c] \in {"inc", "incremented"} => InNor(c)

FlagInv == TypeOK /\ FramesOK /\ (clean => Own)

-----------------------------------------------------------------------------
(* Counting. *)

LEMMA NorsFinite ==
  ASSUME NEW fr \in Seq(Operators)
  PROVE  /\ IsFiniteSet(Nors(fr))
         /\ Cardinality(Nors(fr)) \in Nat
         /\ Cardinality(Nors(fr)) = 0 <=> \A i \in DOMAIN fr : fr[i] # "nor"
<1>1. IsFiniteSet(1..Len(fr))
  BY FS_Interval
<1>2. Nors(fr) \subseteq 1..Len(fr)
  BY DEF Nors
<1>3. IsFiniteSet(Nors(fr))
  BY <1>1, <1>2, FS_Subset
<1>4. Cardinality(Nors(fr)) \in Nat
  BY <1>3, FS_CardinalityType
<1>5. Cardinality(Nors(fr)) = 0 <=> Nors(fr) = {}
  BY <1>3, FS_EmptySet
<1> QED
  BY <1>3, <1>4, <1>5 DEF Nors

LEMMA NorsAppend ==
  ASSUME NEW fr \in Seq(Operators), NEW op \in Operators
  PROVE  Cardinality(Nors(Append(fr, op))) = Cardinality(Nors(fr)) + (IF op = "nor" THEN 1 ELSE 0)
<1>1. CASE op = "nor"
  <2>1. Nors(Append(fr, op)) = Nors(fr) \cup {Len(fr) + 1}
    BY <1>1 DEF Nors
  <2>2. Len(fr) + 1 \notin Nors(fr)
    BY DEF Nors
  <2> QED
    BY <1>1, <2>1, <2>2, NorsFinite, FS_AddElement
<1>2. CASE op # "nor"
  <2>1. Nors(Append(fr, op)) = Nors(fr)
    BY <1>2 DEF Nors
  <2> QED
    BY <1>2, <2>1, NorsFinite
<1> QED
  BY <1>1, <1>2

LEMMA PopShape ==
  ASSUME NEW S, NEW fr \in Seq(S), fr # <<>>,
         NEW k, k = Len(fr) - 1
  PROVE  /\ k \in Nat /\ Len(fr) = k + 1
         /\ SubSeq(fr, 1, k) \in Seq(S)
         /\ Len(SubSeq(fr, 1, k)) = k
         /\ \A i \in 1..k : SubSeq(fr, 1, k)[i] = fr[i]
<1>1. k \in Nat /\ Len(fr) = k + 1
  OBVIOUS
<1>2. SubSeq(fr, 1, k) \in Seq(S)
  BY <1>1
<1>3. Len(SubSeq(fr, 1, k)) = k
  BY <1>1
<1>4. \A i \in 1..k : SubSeq(fr, 1, k)[i] = fr[i]
  BY <1>1
<1> QED
  BY <1>1, <1>2, <1>3, <1>4

LEMMA NorsPop ==
  ASSUME NEW fr \in Seq(Operators), fr # <<>>,
         NEW k, k = Len(fr) - 1, NEW short, short = SubSeq(fr, 1, k)
  PROVE  Cardinality(Nors(fr)) =
           Cardinality(Nors(short)) + (IF fr[Len(fr)] = "nor" THEN 1 ELSE 0)
<1>1. /\ k \in Nat /\ Len(fr) = k + 1
      /\ short \in Seq(Operators)
      /\ Len(short) = k
      /\ \A i \in 1..k : short[i] = fr[i]
  BY PopShape
<1>2. CASE fr[Len(fr)] = "nor"
  <2>1. Nors(fr) = Nors(short) \cup {k + 1}
    BY <1>1, <1>2 DEF Nors
  <2>2. k + 1 \notin Nors(short)
    BY <1>1 DEF Nors
  <2> QED
    BY <1>1, <1>2, <2>1, <2>2, NorsFinite, FS_AddElement
<1>3. CASE fr[Len(fr)] # "nor"
  <2>1. Nors(fr) = Nors(short)
    BY <1>1, <1>3 DEF Nors
  <2> QED
    BY <1>1, <1>3, <2>1, NorsFinite
<1> QED
  BY <1>2, <1>3

\* In the words of the model.
LEMMA CountType ==
  ASSUME TypeOK, NEW c \in Conns
  PROVE  Count(c) \in Nat /\ (Count(c) = 0 <=> ~InNor(c))
BY NorsFinite DEF TypeOK, Count, InNor

-----------------------------------------------------------------------------
(* The type invariant. *)

\* What one translation does, and the handler that called it.
Step(c) ==
  \/ Begin(c) \/ Enter(c) \/ LoadToIncrement(c) \/ StoreIncremented(c)
  \/ CheckLength(c) \/ Condition(c) \/ Reject(c) \/ Leave(c)
  \/ LoadToDecrement(c) \/ StoreDecremented(c) \/ TestCounter(c)
  \/ ResetFlag(c) \/ Translated(c) \/ Forget(c)

LEMMA HeadShape ==
  ASSUME TypeOK, NEW c \in Conns, todo[c] # <<>>
  PROVE  /\ Head(todo[c]) \in Visit
         /\ Tail(todo[c]) \in Seq(Visit)
BY DEF TypeOK

LEMMA EnteredOperator ==
  ASSUME TypeOK, NEW c \in Conns, Enter(c)
  PROVE  Head(todo[c]).op \in Operators
<1>1. Head(todo[c]) \in Visit /\ Head(todo[c]).at = "enter"
  BY HeadShape DEF Enter, Visiting
<1> QED
  BY <1>1 DEF Visit

LEMMA FilterKinds ==
  <<>> \in AnyFilter /\ \A c \in Conns : \A f \in Filters[c] : f \in AnyFilter
BY DEF AnyFilter

LEMMA InitTyped == Init => TypeOK
<1> SUFFICES ASSUME Init PROVE TypeOK
  OBVIOUS
<1>1. filter \in [Conns -> AnyFilter]
  BY FilterKinds DEF Init
<1>2. todo \in [Conns -> Seq(Visit)]
  BY DEF Init
<1>3. frames \in [Conns -> Seq(Operators)]
  BY DEF Init
<1>4. pc \in [Conns -> Labels]
  BY DEF Init, Labels
<1>5. loaded \in [Conns -> Int] /\ norCounter \in Int
  BY DEF Init
<1>6. isNor \in BOOLEAN /\ clean \in BOOLEAN
  BY DEF Init
<1> QED
  BY <1>1, <1>2, <1>3, <1>4, <1>5, <1>6 DEF TypeOK

LEMMA NextTyped ==
  ASSUME TypeOK, Next
  PROVE  TypeOK'
<1> USE DEF Next, Restart, Begin, Enter, LoadToIncrement, StoreIncremented, CheckLength, Condition,
            Reject, Leave, LoadToDecrement, StoreDecremented, TestCounter,
            ResetFlag, Translated, Forget
<1>1. isNor' \in BOOLEAN /\ clean' \in BOOLEAN
  BY DEF TypeOK
<1>2. filter' \in [Conns -> AnyFilter]
  BY FilterKinds DEF TypeOK
<1>3. pc' \in [Conns -> Labels]
  BY DEF TypeOK, Goto, Labels
<1>4. loaded' \in [Conns -> Int] /\ norCounter' \in Int
  BY DEF TypeOK
<1>5. todo' \in [Conns -> Seq(Visit)]
  <2>1. CASE Restart
    BY <2>1
  <2>2. ASSUME NEW c \in Conns, Begin(c)
        PROVE  todo' \in [Conns -> Seq(Visit)]
    BY <2>2, VisitsAssumption DEF TypeOK
  <2>3. ASSUME NEW c \in Conns, CheckLength(c) \/ Condition(c) \/ Leave(c), todo[c] # <<>>
        PROVE  todo' \in [Conns -> Seq(Visit)]
    <3>1. Tail(todo[c]) \in Seq(Visit)
      BY <2>3, HeadShape
    <3> QED
      BY <2>3, <3>1 DEF TypeOK, Advance
  <2>4. ASSUME NEW c \in Conns, Forget(c)
        PROVE  todo' \in [Conns -> Seq(Visit)]
    BY <2>4 DEF TypeOK
  <2> QED
    BY <2>1, <2>2, <2>3, <2>4 DEF TypeOK, Visiting
<1>6. frames' \in [Conns -> Seq(Operators)]
  <2>1. CASE Restart
    BY <2>1
  <2>2. ASSUME NEW c \in Conns, Enter(c)
        PROVE  frames' \in [Conns -> Seq(Operators)]
    <3>1. Head(todo[c]).op \in Operators
      BY <2>2, EnteredOperator
    <3>2. frames[c] \in Seq(Operators)
      BY DEF TypeOK
    <3> QED
      BY <2>2, <3>1, <3>2 DEF TypeOK
  <2>3. ASSUME NEW c \in Conns, Leave(c)
        PROVE  frames' \in [Conns -> Seq(Operators)]
    <3>1. frames[c] # <<>> /\ frames[c] \in Seq(Operators)
      BY <2>3 DEF TypeOK
    <3>2. SubSeq(frames[c], 1, Len(frames[c]) - 1) \in Seq(Operators)
      BY <3>1, PopShape
    <3> QED
      BY <2>3, <3>2 DEF TypeOK
  <2>4. ASSUME NEW c \in Conns, Forget(c)
        PROVE  frames' \in [Conns -> Seq(Operators)]
    BY <2>4 DEF TypeOK
  <2> QED
    BY <2>1, <2>2, <2>3, <2>4 DEF TypeOK
<1> QED
  BY <1>1, <1>2, <1>3, <1>4, <1>5, <1>6 DEF TypeOK

-----------------------------------------------------------------------------
(* The calls. *)

\* A step of one connection leaves the others alone.
LEMMA OthersUnchanged ==
  ASSUME TypeOK, NEW c \in Conns, Step(c), NEW d \in Conns, d # c
  PROVE  pc'[d] = pc[d] /\ frames'[d] = frames[d] /\ loaded'[d] = loaded[d]
BY DEF TypeOK, Step, Begin, Enter, LoadToIncrement, StoreIncremented, CheckLength, Condition,
       Reject, Leave, LoadToDecrement, StoreDecremented, TestCounter,
       ResetFlag, Translated, Forget, Goto

\* Enter opens a call.
LEMMA EnterFrames ==
  ASSUME TypeOK, NEW c \in Conns, Enter(c), NEW op, op = Head(todo[c]).op
  PROVE  /\ op \in Operators
         /\ Count(c)' = Count(c) + (IF op = "nor" THEN 1 ELSE 0)
         /\ op = "nor" => InNor(c)'
<1>1. op \in Operators
  BY EnteredOperator
<1>2. frames[c] \in Seq(Operators) /\ frames'[c] = Append(frames[c], op)
  BY DEF TypeOK, Enter
<1>3. Count(c)' = Count(c) + (IF op = "nor" THEN 1 ELSE 0)
  BY <1>1, <1>2, NorsAppend DEF Count
<1>4. op = "nor" => InNor(c)'
  BY <1>1, <1>2 DEF InNor
<1> QED
  BY <1>1, <1>3, <1>4

\* Leave closes the last one.
LEMMA LeaveFrames ==
  ASSUME TypeOK, NEW c \in Conns, Leave(c), NEW op, op = frames[c][Len(frames[c])]
  PROVE  /\ Count(c) = Count(c)' + (IF op = "nor" THEN 1 ELSE 0)
         /\ op = "nor" => InNor(c)
<1>1. frames[c] \in Seq(Operators) /\ frames[c] # <<>>
  BY DEF TypeOK, Leave
<1>2. frames'[c] = SubSeq(frames[c], 1, Len(frames[c]) - 1)
  BY DEF TypeOK, Leave
<1>3. Count(c) = Count(c)' + (IF op = "nor" THEN 1 ELSE 0)
  BY <1>1, <1>2, NorsPop DEF Count
<1>4. Len(frames[c]) \in DOMAIN frames[c]
  BY <1>1
<1>5. op = "nor" => InNor(c)
  BY <1>4 DEF InNor
<1> QED
  BY <1>3, <1>5

LEMMA NextFrames ==
  ASSUME TypeOK, FramesOK, Next
  PROVE  FramesOK'
<1>1. CASE Restart
  BY <1>1 DEF Restart, FramesOK
<1>2. ASSUME NEW c \in Conns, Step(c)
      PROVE  FramesOK'
  <2>1. SUFFICES /\ pc'[c] = "idle" => frames'[c] = <<>>
                 /\ pc'[c] \in {"inc", "incremented"} => InNor(c)'
    BY <1>2, OthersUnchanged DEF FramesOK, InNor
  <2>2. CASE Enter(c)
    BY <2>2, EnterFrames DEF Enter, Goto, TypeOK
  <2>3. CASE Forget(c)
    BY <2>3 DEF Forget, Goto, TypeOK
  <2>4. CASE LoadToIncrement(c)
    BY <2>4 DEF LoadToIncrement, Goto, TypeOK, FramesOK, InNor
  <2>5. CASE Begin(c) \/ Leave(c) \/ CheckLength(c)
    BY <2>5 DEF Begin, Leave, CheckLength, Goto, TypeOK
  <2>6. CASE \/ Reject(c) \/ StoreIncremented(c) \/ LoadToDecrement(c)
             \/ StoreDecremented(c) \/ TestCounter(c) \/ ResetFlag(c)
             \/ Translated(c)
    BY <2>6 DEF Reject, StoreIncremented, LoadToDecrement, StoreDecremented, TestCounter,
                ResetFlag, Translated, Goto, TypeOK
  <2>7. CASE Condition(c)
    BY <2>7 DEF Condition, Visiting, TypeOK
  <2> QED
    BY <1>2, <2>2, <2>3, <2>4, <2>5, <2>6, <2>7 DEF Step
<1> QED
  BY <1>1, <1>2 DEF Next, Step

-----------------------------------------------------------------------------
(* The package variables belong to the one translation that runs. *)

\* What Own says of the translation that runs.
OwnedBy(c) ==
  /\ norCounter = Counted(c)
  /\ isNor <=> FlagOf(c)
  /\ pc[c] \in {"incremented", "decremented"} => loaded[c] = norCounter
  /\ pc[c] = "reset" => ~InNor(c)

LEMMA OwnedUse ==
  ASSUME Own, NEW c \in Conns, Active(c)
  PROVE  OwnedBy(c) /\ \A d \in Conns \ {c} : ~Active(d)
BY DEF Own, OwnedBy

\* It is enough to look at the connection that takes the step.
LEMMA OwnAfter ==
  ASSUME TypeOK, NEW c \in Conns, Step(c),
         \A d \in Conns \ {c} : ~Active(d),
         Active(c)' => OwnedBy(c)',
         ~Active(c)' => ~isNor' /\ norCounter' = 0
  PROVE  Own'
<1>1. \A d \in Conns \ {c} : ~Active(d)'
  BY OthersUnchanged DEF Active
<1> QED
  BY <1>1 DEF Own, OwnedBy

LEMMA CountAfter ==
  ASSUME TypeOK', NEW c \in Conns
  PROVE  Count(c)' \in Nat /\ (Count(c)' = 0 <=> ~InNor(c)')
BY NorsFinite DEF TypeOK, Count, InNor

\* Calls are opened and closed by Enter, Leave and Forget only.
LEMMA SameCalls ==
  ASSUME NEW c \in Conns, UNCHANGED frames
  PROVE  Count(c)' = Count(c) /\ (InNor(c)' <=> InNor(c))
BY DEF Count, InNor

LEMMA StepOwn ==
  ASSUME TypeOK, TypeOK', FramesOK, NEW c \in Conns, Step(c), clean', clean => Own
  PROVE  Own'
<1>1. Own
  BY DEF Step, Begin, Enter, LoadToIncrement, StoreIncremented, CheckLength, Condition,
         Reject, Leave, LoadToDecrement, StoreDecremented, TestCounter,
         ResetFlag, Translated, Forget
<1>2. Count(c) \in Nat /\ (Count(c) = 0 <=> ~InNor(c))
  BY CountType
<1>3. Count(c)' \in Nat /\ (Count(c)' = 0 <=> ~InNor(c)')
  BY CountAfter
<1>4. CASE Begin(c)
  <2>1. pc[c] = "idle" /\ pc'[c] = "visit" /\ UNCHANGED <<isNor, norCounter, frames>>
        /\ \A d \in Conns : ~Active(d)
    BY <1>4 DEF Begin, Goto, TypeOK
  <2>2. ~isNor /\ norCounter = 0
    BY <1>1, <2>1 DEF Own
  <2>3. frames[c] = <<>>
    BY <2>1 DEF FramesOK
  <2>4. ~InNor(c)' /\ Count(c)' = 0
    BY <1>3, <2>1, <2>3 DEF InNor
  <2>5. OwnedBy(c)'
    BY <2>1, <2>2, <2>4 DEF OwnedBy, Counted, FlagOf
  <2> QED
    BY <2>1, <2>5, OwnAfter DEF Active
<1>5. CASE Forget(c)
  <2>1. ~Active(c) /\ ~Active(c)' /\ UNCHANGED <<isNor, norCounter>>
    BY <1>5 DEF Forget, Goto, Active, TypeOK
  <2>2. \A d \in Conns \ {c} : /\ Active(d)' <=> Active(d)
                               /\ OwnedBy(d)' <=> OwnedBy(d)
    BY <2>1, OthersUnchanged DEF Active, OwnedBy, Counted, FlagOf, Count, InNor
  <2> QED
    BY <1>1, <2>1, <2>2 DEF Own, OwnedBy
<1>6. ASSUME ~Begin(c), ~Forget(c)
      PROVE  Own'
  <2>1. Active(c)
    BY <1>6 DEF Step, Enter, LoadToIncrement, StoreIncremented, CheckLength, Condition,
         Reject, Leave, LoadToDecrement, StoreDecremented, TestCounter,
         ResetFlag, Translated, Visiting, Active
  <2>2. OwnedBy(c) /\ \A d \in Conns \ {c} : ~Active(d)
    BY <1>1, <2>1, OwnedUse
  <2>3. SUFFICES /\ Active(c)' => OwnedBy(c)'
                 /\ ~Active(c)' => ~isNor' /\ norCounter' = 0
    BY <2>2, OwnAfter
  <2>4. CASE Enter(c)
    <3> DEFINE op == Head(todo[c]).op
    <3>1. /\ pc[c] = "visit" /\ pc'[c] = (IF op = "nor" THEN "inc" ELSE "length")
          /\ norCounter' = norCounter
      BY <2>4 DEF Enter, Visiting, Goto, TypeOK
    <3>2. Count(c)' = Count(c) + (IF op = "nor" THEN 1 ELSE 0)
      BY <2>4, EnterFrames
    <3>3. isNor' <=> (isNor \/ op = "nor")
      BY <2>4, Zenon DEF Enter
    <3>4. CASE op = "nor"
      BY <1>2, <1>3, <2>2, <3>1, <3>2, <3>3, <3>4 DEF OwnedBy, Counted, FlagOf, Active
    <3>5. CASE op # "nor"
      BY <1>2, <1>3, <2>2, <3>1, <3>2, <3>3, <3>5 DEF OwnedBy, Counted, FlagOf, Active
    <3> QED
      BY <3>4, <3>5
  <2>5. CASE Leave(c)
    <3> DEFINE op == frames[c][Len(frames[c])]
    <3>1. /\ pc[c] = "visit" /\ pc'[c] = (IF op = "nor" THEN "dec" ELSE "visit")
          /\ isNor' = isNor /\ norCounter' = norCounter
      BY <2>5 DEF Leave, Visiting, Goto, TypeOK
    <3>2. Count(c) = Count(c)' + (IF op = "nor" THEN 1 ELSE 0) /\ (op = "nor" => InNor(c))
      BY <2>5, LeaveFrames
    <3>3. CASE op = "nor"
      BY <1>2, <1>3, <2>2, <3>1, <3>2, <3>3 DEF OwnedBy, Counted, FlagOf, Active
    <3>4. CASE op # "nor"
      BY <1>2, <1>3, <2>2, <3>1, <3>2, <3>4 DEF OwnedBy, Counted, FlagOf, Active
    <3> QED
      BY <3>3, <3>4
  <2>6. ASSUME UNCHANGED frames
        PROVE  /\ Active(c)' => OwnedBy(c)'
               /\ ~Active(c)' => ~isNor' /\ norCounter' = 0
    <3>1. Count(c)' = Count(c) /\ (InNor(c)' <=> InNor(c))
      BY <2>6, SameCalls
    <3>2. CASE LoadToIncrement(c) \/ LoadToDecrement(c)
      <4>1. /\ \/ pc[c] = "inc" /\ pc'[c] = "incremented"
               \/ pc[c] = "dec" /\ pc'[c] = "decremented"
            /\ isNor' = isNor /\ norCounter' = norCounter /\ loaded'[c] = norCounter
        BY <3>2 DEF LoadToIncrement, LoadToDecrement, Goto, TypeOK
      <4> QED
        BY <2>2, <3>1, <4>1 DEF OwnedBy, Counted, FlagOf, Active
    <3>3. CASE StoreIncremented(c)
      <4>1. /\ pc[c] = "incremented" /\ pc'[c] = "length"
            /\ isNor' = isNor /\ norCounter' = loaded[c] + 1
        BY <3>3 DEF StoreIncremented, Goto, TypeOK
      <4>2. InNor(c)
        BY <4>1 DEF FramesOK
      <4> QED
        BY <1>2, <2>2, <3>1, <4>1, <4>2 DEF OwnedBy, Counted, FlagOf, Active
    <3>4. CASE StoreDecremented(c)
      <4>1. /\ pc[c] = "decremented" /\ pc'[c] = "last"
            /\ isNor' = isNor /\ norCounter' = loaded[c] - 1
        BY <3>4 DEF StoreDecremented, Goto, TypeOK
      <4> QED
        BY <1>2, <2>2, <3>1, <4>1 DEF OwnedBy, Counted, FlagOf, Active
    <3>5. CASE TestCounter(c)
      <4>1. /\ pc[c] = "last" /\ pc'[c] = (IF norCounter = 0 THEN "reset" ELSE "visit")
            /\ isNor' = isNor /\ norCounter' = norCounter
        BY <3>5 DEF TestCounter, Goto, TypeOK
      <4> QED
        BY <1>2, <2>2, <3>1, <4>1 DEF OwnedBy, Counted, FlagOf, Active
    <3>7. CASE ResetFlag(c)
      <4>1. /\ pc[c] = "reset" /\ pc'[c] = "visit"
            /\ isNor' = FALSE /\ norCounter' = norCounter
        BY <3>7 DEF ResetFlag, Goto, TypeOK
      <4> QED
        BY <1>2, <2>2, <3>1, <4>1 DEF OwnedBy, Counted, FlagOf, Active
    <3>6. CASE CheckLength(c) \/ Condition(c) \/ Reject(c) \/ Translated(c)
      <4>1. /\ pc[c] \in {"visit", "length"} /\ pc'[c] \in {"visit", "translated", "rejected"}
            /\ isNor' = isNor /\ norCounter' = norCounter
        BY <3>6 DEF CheckLength, Condition, Reject, Translated, Visiting, Goto, TypeOK
      <4>2. pc'[c] \in {"translated", "rejected"} => ~InNor(c)
        <5>1. CASE CheckLength(c)
          <6>1. pc'[c] # "translated"
            BY <5>1 DEF CheckLength, Goto, TypeOK
          <6>2. pc'[c] = "rejected" => ~InNor(c)
            BY <5>1, Zenon DEF CheckLength
          <6> QED
            BY <6>1, <6>2
        <5>2. CASE Condition(c)
          BY <4>1, <5>2 DEF Condition, Visiting
        <5>3. CASE Reject(c)
          BY <5>3, Zenon DEF Reject
        <5>4. CASE Translated(c)
          BY <5>4 DEF Translated, InNor
        <5> QED
          BY <3>6, <5>1, <5>2, <5>3, <5>4
      <4> QED
        BY <1>2, <2>2, <3>1, <4>1, <4>2 DEF OwnedBy, Counted, FlagOf, Active
    <3> QED
      BY <1>6, <2>4, <2>5, <3>2, <3>3, <3>4, <3>5, <3>6, <3>7, <2>6
      DEF Step, Enter, Leave
  <2>7. Enter(c) \/ Leave(c) \/ UNCHANGED frames
    BY <1>6 DEF Step, LoadToIncrement, StoreIncremented, CheckLength, Condition,
         Reject, LoadToDecrement, StoreDecremented, TestCounter, ResetFlag, Translated
  <2> QED
    BY <2>4, <2>5, <2>6, <2>7
<1> QED
  BY <1>4, <1>5, <1>6

-----------------------------------------------------------------------------

LEMMA InitInv == Init => FlagInv
<1> SUFFICES ASSUME Init PROVE FlagInv
  OBVIOUS
<1>1. FramesOK /\ Own
  BY DEF Init, FramesOK, Own, Active
<1> QED
  BY <1>1, InitTyped DEF FlagInv

LEMMA NextInv ==
  ASSUME FlagInv, Next
  PROVE  FlagInv'
<1>1. TypeOK' /\ FramesOK'
  BY NextTyped, NextFrames DEF FlagInv
<1>2. CASE Restart
  <2>1. Own'
    BY <1>2 DEF Restart, Own, Active
  <2> QED
    BY <1>1, <2>1 DEF FlagInv
<1>3. ASSUME NEW c \in Conns, Step(c)
      PROVE  clean' => Own'
  BY <1>1, <1>3, StepOwn DEF FlagInv
<1> QED
  BY <1>1, <1>2, <1>3 DEF FlagInv, Next, Step

LEMMA StutterInv ==
  ASSUME FlagInv, UNCHANGED vars
  PROVE  FlagInv'
BY DEF FlagInv, TypeOK, FramesOK, InNor, Own, Active, Counted, Count, FlagOf, vars, locals

\* The package variables are right in every condition that is translated, for
\* any number of connections and any filters, as long as translations do not
\* overlap and none is rejected inside a $nor (logicExpression).
THEOREM FlagHolds == Spec => []FlagIsOwnIfClean
<1>1. FlagInv => FlagIsOwnIfClean
  BY DEF FlagInv, Own, FlagIsOwnIfClean, ReadsFlag, Visiting, Active, FlagOf
<1> QED
  BY <1>1, InitInv, NextInv, StutterInv, PTL DEF Spec

-----------------------------------------------------------------------------
(* The recursive definitions are what they say. *)

LEMMA ExpressionParts ==
  ASSUME NEW ops \in Expression
  PROVE  /\ ops \in Seq(FieldOperator)
         /\ Size[ops] \in Nat
         /\ \A i \in DOMAIN ops :
              /\ ops[i].n \in FieldValue
              /\ ops[i].ops \in Expression /\ Size[ops[i].ops] < Size[ops]
              /\ <<ops[i]>> \in Expression /\ Size[<<ops[i]>>] <= Size[ops]
<1>1. ops \in Seq(FieldOperator) /\ Size[ops] \in Nat
  BY ExpressionAssumption
<1>2. ASSUME NEW i \in DOMAIN ops
      PROVE  ops[i].n \in FieldValue /\ ops[i].ops \in Expression
  <2>1. ops[i] \in FieldOperator
    BY <1>1
  <2> QED
    BY <2>1 DEF FieldOperator
<1> QED
  BY <1>1, <1>2, ExpressionAssumption

LEMMA SatisfiesDef ==
  ASSUME NEW ops \in Expression, NEW S \in SUBSET FieldValue
  PROVE  Satisfies[ops][S] <=> \A i \in DOMAIN ops : Holds(Satisfies, ops[i], S)
<1> DEFINE R == [SUBSET FieldValue -> BOOLEAN]
           Body(g) == [x \in Expression |-> [T \in SUBSET FieldValue |->
                                 \A i \in DOMAIN x : Holds(g, x[i], T)]]
           step == [g \in [Expression -> R] |-> Body(g)]
<1>1. \A g : Body(g) \in [Expression -> R]
  OBVIOUS
<1>2. ASSUME NEW g, NEW h, NEW x \in Expression,
             \A y \in Expression : Size[y] < Size[x] => g[y] = h[y]
      PROVE  Body(g)[x] = Body(h)[x]
  <2>1. ASSUME NEW i \in DOMAIN x, NEW T \in SUBSET FieldValue
        PROVE  Holds(g, x[i], T) <=> Holds(h, x[i], T)
    <3>1. g[x[i].ops] = h[x[i].ops]
      BY <1>2, ExpressionParts
    <3> QED
      BY <3>1 DEF Holds
  <2> QED
    BY <2>1
<1>3. Satisfies = CHOOSE g : g = Body(g)
  BY DEF Satisfies
<1> HIDE DEF Body
<1>4. step \in [[Expression -> R] -> [Expression -> R]] /\ [Expression -> R] # {}
  BY <1>1
<1>5. ASSUME NEW g \in [Expression -> R], NEW h \in [Expression -> R], NEW x \in Expression,
             \A y \in Expression : Size[y] < Size[x] => g[y] = h[y]
      PROVE  step[g][x] = step[h][x]
  <2>1. Body(g)[x] = Body(h)[x]
    BY <1>2, <1>5
  <2> QED
    BY <2>1
<1> HIDE DEF R
<1>6. \E g \in [Expression -> R] : step[g] = g
  <2> HIDE DEF step
  <2>1. Recursion(Expression, R, Size, step)
    BY <1>4, <1>5, ExpressionAssumption DEF Recursion
  <2> QED
    BY <2>1, RecursiveFunctionExists
<1>7. \E g : g = Body(g)
  BY <1>6
<1>8. Satisfies = Body(Satisfies)
  BY <1>3, <1>7
<1> QED
  BY <1>8 DEF Body

LEMMA SoundInArrayDef ==
  ASSUME NEW ops \in Expression
  PROVE  SoundInArray[ops] <=>
           ops # <<>> /\ \A i \in DOMAIN ops : SoundInside(SoundInArray, ops[i])
<1> DEFINE R == BOOLEAN
           Body(g) == [x \in Expression |-> x # <<>> /\ \A i \in DOMAIN x : SoundInside(g, x[i])]
           step == [g \in [Expression -> R] |-> Body(g)]
<1>1. \A g : Body(g) \in [Expression -> R]
  OBVIOUS
<1>2. ASSUME NEW g, NEW h, NEW x \in Expression,
             \A y \in Expression : Size[y] < Size[x] => g[y] = h[y]
      PROVE  Body(g)[x] = Body(h)[x]
  <2>1. ASSUME NEW i \in DOMAIN x
        PROVE  SoundInside(g, x[i]) <=> SoundInside(h, x[i])
    <3>1. g[x[i].ops] = h[x[i].ops]
      BY <1>2, ExpressionParts
    <3> QED
      BY <3>1 DEF SoundInside
  <2> QED
    BY <2>1
<1>3. SoundInArray = CHOOSE g : g = Body(g)
  BY DEF SoundInArray
<1> HIDE DEF Body
<1>4. step \in [[Expression -> R] -> [Expression -> R]] /\ [Expression -> R] # {}
  BY <1>1
<1>5. ASSUME NEW g \in [Expression -> R], NEW h \in [Expression -> R], NEW x \in Expression,
             \A y \in Expression : Size[y] < Size[x] => g[y] = h[y]
      PROVE  step[g][x] = step[h][x]
  <2>1. Body(g)[x] = Body(h)[x]
    BY <1>2, <1>5
  <2> QED
    BY <2>1
<1> HIDE DEF R
<1>6. \E g \in [Expression -> R] : step[g] = g
  <2> HIDE DEF step
  <2>1. Recursion(Expression, R, Size, step)
    BY <1>4, <1>5, ExpressionAssumption DEF Recursion
  <2> QED
    BY <2>1, RecursiveFunctionExists
<1>7. \E g : g = Body(g)
  BY <1>6
<1>8. SoundInArray = Body(SoundInArray)
  BY <1>3, <1>7
<1> QED
  BY <1>8 DEF Body

-----------------------------------------------------------------------------
(* Three-valued logic. *)

LEMMA LogicTypes ==
  /\ \A b : Truth(b) \in {"true", "false"}
  /\ \A t \in Truths : Not(t) \in Truths
  /\ \A T : Conj(T) \in Truths /\ Disj(T) \in Truths
  /\ \A S, o : Compare(S, o) \in Truths
BY DEF Truth, Not, Conj, Disj, Compare, Truths

LEMMA TextTypes ==
  ASSUME NEW text \in Seq(Truths)
  PROVE  /\ NotText(text) \in Seq(Truths)
         /\ \A t \in Truths : <<t>> \in Seq(Truths) /\ Append(text, t) \in Seq(Truths)
         /\ \A S, nor : Guarded(text, S, nor) \in Seq(Truths)
<1>1. NotText(text) \in Seq(Truths)
  <2>1. \A i \in DOMAIN text : text[i] \in Truths /\ Not(text[i]) \in Truths
    BY LogicTypes
  <2> QED
    BY <2>1 DEF NotText
<1>2. ASSUME NEW S, NEW nor PROVE Guarded(text, S, nor) \in Seq(Truths)
  <2>1. Value(Append(text, IsSet(S))) \in Truths
    BY LogicTypes DEF Value
  <2> QED
    BY <2>1 DEF Guarded
<1> QED
  BY <1>1, <1>2

-----------------------------------------------------------------------------
(* FieldText. *)

LEMMA ButLast ==
  ASSUME NEW ops \in Expression, ops # <<>>
  PROVE  /\ AllButLast(ops) \in Expression /\ Size[AllButLast(ops)] < Size[ops]
         /\ Len(ops) \in DOMAIN ops
         /\ DOMAIN ops = DOMAIN AllButLast(ops) \cup {Len(ops)}
         /\ \A i \in DOMAIN AllButLast(ops) : AllButLast(ops)[i] = ops[i] /\ i # Len(ops)
<1>1. ops \in Seq(FieldOperator)
  BY ExpressionParts
<1>2. AllButLast(ops) \in Expression /\ Size[AllButLast(ops)] < Size[ops]
  BY ExpressionAssumption
<1>3. Len(ops) \in Nat /\ Len(ops) >= 1 /\ DOMAIN ops = 1..Len(ops)
  BY <1>1
<1>4. /\ DOMAIN AllButLast(ops) = 1..(Len(ops) - 1)
      /\ \A i \in 1..(Len(ops) - 1) : AllButLast(ops)[i] = ops[i]
  BY <1>1, <1>3 DEF AllButLast
<1>5. 1..Len(ops) = 1..(Len(ops) - 1) \cup {Len(ops)} /\ Len(ops) \notin 1..(Len(ops) - 1)
  BY <1>3
<1> QED
  BY <1>2, <1>3, <1>4, <1>5

LEMMA SomeElementLocal ==
  ASSUME NEW g, NEW h, NEW ops \in Expression, NEW S,
         \A y \in Expression : Size[y] <= Size[ops] => g[y] = h[y]
  PROVE  SomeElement(g, ops, S) = SomeElement(h, ops, S)
<1>1. ASSUME NEW i \in DOMAIN ops
      PROVE  g[ops[i].ops] = h[ops[i].ops] /\ g[<<ops[i]>>] = h[<<ops[i]>>]
  <2>1. /\ ops[i].ops \in Expression /\ Size[ops[i].ops] < Size[ops]
        /\ <<ops[i]>> \in Expression /\ Size[<<ops[i]>>] <= Size[ops]
    BY ExpressionParts
  <2>2. Size[ops[i].ops] \in Nat /\ Size[ops] \in Nat
    BY <2>1, ExpressionParts
  <2> QED
    BY <2>1, <2>2
<1>2. \A i \in DOMAIN ops : \A x : ElementTruth(g, ops[i], x) = ElementTruth(h, ops[i], x)
  BY <1>1 DEF ElementTruth
<1> QED
  BY <1>2 DEF SomeElement

LEMMA LoopTextLocal ==
  ASSUME NEW g, NEW h, NEW ops \in Expression, NEW S, NEW nor,
         \A y \in Expression : Size[y] < Size[ops] => g[y] = h[y]
  PROVE  LoopText(g, ops, S, nor) = LoopText(h, ops, S, nor)
<1> SUFFICES ASSUME ops # <<>> PROVE LoopText(g, ops, S, nor) = LoopText(h, ops, S, nor)
  BY DEF LoopText
<1> DEFINE before == AllButLast(ops)
           last == ops[Len(ops)]
<1>1. g[before] = h[before]
  BY ButLast
<1>2. last.ops \in Expression /\ Size[last.ops] < Size[ops]
  BY ButLast, ExpressionParts
<1>3. g[last.ops] = h[last.ops]
  BY <1>2
<1>4. SomeElement(g, last.ops, S) = SomeElement(h, last.ops, S)
  <2>1. \A y \in Expression : Size[y] <= Size[last.ops] => g[y] = h[y]
    BY <1>2, ExpressionParts
  <2> HIDE DEF last
  <2> QED
    BY <1>2, <2>1, SomeElementLocal
<1>5. ASSUME NEW i \in DOMAIN last.ops
      PROVE  SomeElement(g, <<last.ops[i]>>, S) = SomeElement(h, <<last.ops[i]>>, S)
  <2> DEFINE one == <<last.ops[i]>>
  <2>1. one \in Expression /\ Size[one] <= Size[last.ops]
    BY <1>2, ExpressionParts
  <2>2. \A y \in Expression : Size[y] <= Size[one] => g[y] = h[y]
    BY <1>2, <2>1, ExpressionParts
  <2> HIDE DEF one, last
  <2>3. SomeElement(g, one, S) = SomeElement(h, one, S)
    BY <2>1, <2>2, SomeElementLocal
  <2> QED
    BY <2>3 DEF one
<1>6. [i \in DOMAIN last.ops |-> SomeElement(g, <<last.ops[i]>>, S)] =
      [i \in DOMAIN last.ops |-> SomeElement(h, <<last.ops[i]>>, S)]
  BY <1>5
<1>7. \A text : Extend(g, text, last, S, nor) = Extend(h, text, last, S, nor)
  BY <1>4, <1>6 DEF Extend
<1> QED
  BY <1>1, <1>3, <1>7 DEF LoopText

LEMMA LoopTextType ==
  ASSUME NEW g, NEW ops \in Expression, NEW S, NEW nor,
         \A y \in Expression : Size[y] < Size[ops] => g[y][S][nor] \in Seq(Truths)
  PROVE  LoopText(g, ops, S, nor) \in Seq(Truths)
<1> SUFFICES ASSUME ops # <<>> PROVE LoopText(g, ops, S, nor) \in Seq(Truths)
  BY DEF LoopText
<1> DEFINE before == AllButLast(ops)
           last == ops[Len(ops)]
           text == g[before][S][nor]
<1>1. text \in Seq(Truths)
  BY ButLast
<1>2. last.ops \in Expression
  BY ButLast, ExpressionParts
<1>3. Extend(g, text, last, S, nor) \in Seq(Truths)
  <2>1. CASE last.op \notin {"all", "elemMatch", "ne"}
    BY <1>1, <2>1, TextTypes, LogicTypes DEF Extend, IsSet, IsUnset, Truths
  <2>2. CASE last.op = "ne"
    <3> DEFINE t == Disj({Value(Append(text, Compare(S, last))), IsUnset(S)})
    <3>1. <<t>> \in Seq(Truths)
      BY LogicTypes
    <3>2. Guarded(<<t>>, S, nor) \in Seq(Truths)
      BY <3>1, TextTypes
    <3> QED
      BY <2>2, <3>2 DEF Extend
  <2>3. CASE last.op = "elemMatch"
    <3>1. SomeElement(g, last.ops, S) \in Truths
      BY LogicTypes DEF SomeElement, Truths
    <3> QED
      BY <1>1, <2>3, <3>1, TextTypes DEF Extend
  <2>4. CASE last.op = "all"
    <3> DEFINE parts == [i \in DOMAIN last.ops |-> SomeElement(g, <<last.ops[i]>>, S)]
    <3>1. \A i \in DOMAIN last.ops : SomeElement(g, <<last.ops[i]>>, S) \in Truths
      BY LogicTypes DEF SomeElement, Truths
    <3>2. last.ops \in Seq(FieldOperator)
      BY <1>2, ExpressionParts
    <3>3. parts \in Seq(Truths)
      <4>1. Len(last.ops) \in Nat /\ DOMAIN last.ops = 1..Len(last.ops)
        BY <3>2
      <4> HIDE DEF last
      <4> QED
        BY <3>1, <4>1
    <3>4. text \o parts \in Seq(Truths)
      BY <1>1, <3>3
    <3> QED
      BY <2>4, <3>4 DEF Extend
  <2> QED
    BY <2>1, <2>2, <2>3, <2>4
<1>4. <<Disj({Value(NotText(g[last.ops][S][nor])), IsUnset(S)})>> \in Seq(Truths)
  BY LogicTypes
<1> QED
  BY <1>1, <1>3, <1>4 DEF LoopText

LEMMA FieldTextDef ==
  ASSUME NEW ops \in Expression, NEW S \in SUBSET FieldValue, NEW nor \in BOOLEAN
  PROVE  FieldText[ops][S][nor] = LoopText(FieldText, ops, S, nor)
<1> DEFINE R == [SUBSET FieldValue -> [BOOLEAN -> Seq(Truths)]]
           Body(g) == [x \in Expression |->
                         [T \in SUBSET FieldValue |-> [b \in BOOLEAN |-> LoopText(g, x, T, b)]]]
           step == [g \in [Expression -> R] |-> Body(g)]
<1>1. ASSUME NEW g \in [Expression -> R] PROVE Body(g) \in [Expression -> R]
  BY LoopTextType
<1>2. ASSUME NEW g, NEW h, NEW x \in Expression,
             \A y \in Expression : Size[y] < Size[x] => g[y] = h[y]
      PROVE  Body(g)[x] = Body(h)[x]
  <2>1. \A T, b : LoopText(g, x, T, b) = LoopText(h, x, T, b)
    BY <1>2, LoopTextLocal
  <2> QED
    BY <2>1
<1>3. FieldText = CHOOSE g : g = Body(g)
  BY DEF FieldText
<1>4. [Expression -> R] # {}
  <2>1. [x \in Expression |-> [T \in SUBSET FieldValue |-> [b \in BOOLEAN |-> <<>>]]]
        \in [Expression -> R]
    OBVIOUS
  <2> QED
    BY <2>1
<1> HIDE DEF Body, R
<1>5. step \in [[Expression -> R] -> [Expression -> R]]
  BY <1>1
<1>6. ASSUME NEW g \in [Expression -> R], NEW h \in [Expression -> R], NEW x \in Expression,
             \A y \in Expression : Size[y] < Size[x] => g[y] = h[y]
      PROVE  step[g][x] = step[h][x]
  <2>1. Body(g)[x] = Body(h)[x]
    BY <1>2, <1>6
  <2> QED
    BY <2>1
<1>7. \E g \in [Expression -> R] : step[g] = g
  <2> HIDE DEF step
  <2>1. Recursion(Expression, R, Size, step)
    BY <1>4, <1>5, <1>6, ExpressionAssumption DEF Recursion
  <2> QED
    BY <2>1, RecursiveFunctionExists
<1>8. \E g : g = Body(g)
  BY <1>7
<1>9. FieldText = Body(FieldText)
  BY <1>3, <1>8
<1> QED
  BY <1>9 DEF Body

LEMMA FieldTextType ==
  ASSUME NEW S \in SUBSET FieldValue, NEW nor \in BOOLEAN
  PROVE  \A ops \in Expression : FieldText[ops][S][nor] \in Seq(Truths)
<1> DEFINE Good == {ops \in Expression : FieldText[ops][S][nor] \in Seq(Truths)}
<1>1. Size \in [Expression -> Nat] /\ Good \in SUBSET Expression
  BY ExpressionAssumption
<1>2. ASSUME NEW x \in Expression, \A y \in Expression : Size[y] < Size[x] => y \in Good
      PROVE  x \in Good
  BY <1>2, FieldTextDef, LoopTextType
<1>3. \A x \in Expression : x \in Good
  <2> HIDE DEF Good
  <2> QED
    BY <1>1, <1>2, RankInduction
<1> QED
  BY <1>3

-----------------------------------------------------------------------------
(* Filters. *)

LEMMA FilterParts ==
  ASSUME NEW f \in Filter
  PROVE  /\ f \in Seq(Entry)
         /\ \A i \in DOMAIN f :
              /\ f[i] \in Entry /\ f[i].k \in Field /\ f[i].ops \in Expression
              /\ \A j \in DOMAIN f[i].docs :
                   f[i].docs[j] \in Filter /\ Depth[f[i].docs[j]] < Depth[f]
<1>1. f \in Seq(Entry)
  BY FilterAssumption
<1>2. ASSUME NEW i \in DOMAIN f
      PROVE  /\ f[i] \in Entry /\ f[i].k \in Field /\ f[i].ops \in Expression
             /\ f[i].docs \in Seq(Filter)
  <2>1. f[i] \in Entry
    BY <1>1
  <2> QED
    BY <2>1 DEF Entry
<1>3. \A i \in DOMAIN f : \A j \in DOMAIN f[i].docs : f[i].docs[j] \in Filter
  BY <1>2
<1> QED
  BY <1>1, <1>2, <1>3, FilterAssumption

LEMMA MatchesDef ==
  ASSUME NEW f \in Filter, NEW d \in Document
  PROVE  Matches[f][d] <=> \A i \in DOMAIN f : EntryMatches(Matches, f[i], d)
<1> DEFINE R == [Document -> BOOLEAN]
           Body(g) == [x \in Filter |-> [c \in Document |->
                             \A i \in DOMAIN x : EntryMatches(g, x[i], c)]]
           step == [g \in [Filter -> R] |-> Body(g)]
<1>1. \A g : Body(g) \in [Filter -> R]
  OBVIOUS
<1>2. ASSUME NEW g, NEW h, NEW x \in Filter,
             \A y \in Filter : Depth[y] < Depth[x] => g[y] = h[y]
      PROVE  Body(g)[x] = Body(h)[x]
  <2>1. ASSUME NEW i \in DOMAIN x, NEW c \in Document
        PROVE  EntryMatches(g, x[i], c) <=> EntryMatches(h, x[i], c)
    <3>1. \A j \in DOMAIN x[i].docs : g[x[i].docs[j]] = h[x[i].docs[j]]
      BY <1>2, FilterParts
    <3> QED
      BY <3>1 DEF EntryMatches
  <2> QED
    BY <2>1
<1>3. Matches = CHOOSE g : g = Body(g)
  BY DEF Matches
<1> HIDE DEF Body
<1>4. step \in [[Filter -> R] -> [Filter -> R]] /\ [Filter -> R] # {}
  BY <1>1
<1>5. ASSUME NEW g \in [Filter -> R], NEW h \in [Filter -> R], NEW x \in Filter,
             \A y \in Filter : Depth[y] < Depth[x] => g[y] = h[y]
      PROVE  step[g][x] = step[h][x]
  <2>1. Body(g)[x] = Body(h)[x]
    BY <1>2, <1>5
  <2> QED
    BY <2>1
<1> HIDE DEF R
<1>6. \E g \in [Filter -> R] : step[g] = g
  <2> HIDE DEF step
  <2>1. Recursion(Filter, R, Depth, step)
    BY <1>4, <1>5, FilterAssumption DEF Recursion
  <2> QED
    BY <2>1, RecursiveFunctionExists
<1>7. \E g : g = Body(g)
  BY <1>6
<1>8. Matches = Body(Matches)
  BY <1>3, <1>7
<1> QED
  BY <1>8 DEF Body

LEMMA SoundDef ==
  ASSUME NEW f \in Filter, NEW nor \in BOOLEAN
  PROVE  Sound[f][nor] <=> \A i \in DOMAIN f : SoundEntry(Sound, f[i], nor)
<1> DEFINE R == [BOOLEAN -> BOOLEAN]
           Body(g) == [x \in Filter |-> [b \in BOOLEAN |->
                             \A i \in DOMAIN x : SoundEntry(g, x[i], b)]]
           step == [g \in [Filter -> R] |-> Body(g)]
<1>1. \A g : Body(g) \in [Filter -> R]
  OBVIOUS
<1>2. ASSUME NEW g, NEW h, NEW x \in Filter,
             \A y \in Filter : Depth[y] < Depth[x] => g[y] = h[y]
      PROVE  Body(g)[x] = Body(h)[x]
  <2>1. ASSUME NEW i \in DOMAIN x, NEW b \in BOOLEAN
        PROVE  SoundEntry(g, x[i], b) <=> SoundEntry(h, x[i], b)
    <3>1. \A j \in DOMAIN x[i].docs : g[x[i].docs[j]] = h[x[i].docs[j]]
      BY <1>2, FilterParts
    <3> QED
      BY <3>1 DEF SoundEntry
  <2> QED
    BY <2>1
<1>3. Sound = CHOOSE g : g = Body(g)
  BY DEF Sound
<1> HIDE DEF Body
<1>4. step \in [[Filter -> R] -> [Filter -> R]] /\ [Filter -> R] # {}
  BY <1>1
<1>5. ASSUME NEW g \in [Filter -> R], NEW h \in [Filter -> R], NEW x \in Filter,
             \A y \in Filter : Depth[y] < Depth[x] => g[y] = h[y]
      PROVE  step[g][x] = step[h][x]
  <2>1. Body(g)[x] = Body(h)[x]
    BY <1>2, <1>5
  <2> QED
    BY <2>1
<1> HIDE DEF R
<1>6. \E g \in [Filter -> R] : step[g] = g
  <2> HIDE DEF step
  <2>1. Recursion(Filter, R, Depth, step)
    BY <1>4, <1>5, FilterAssumption DEF Recursion
  <2> QED
    BY <2>1, RecursiveFunctionExists
<1>7. \E g : g = Body(g)
  BY <1>6
<1>8. Sound = Body(Sound)
  BY <1>3, <1>7
<1> QED
  BY <1>8 DEF Body

LEMMA ClauseTruthDef ==
  ASSUME NEW f \in Filter, NEW d \in Document, NEW nor \in BOOLEAN
  PROVE  ClauseTruth[f][d][nor] = FilterTruth(ClauseTruth, f, d, nor)
<1> DEFINE R == [Document -> [BOOLEAN -> Truths]]
           Body(g) == [x \in Filter |->
                         [c \in Document |-> [b \in BOOLEAN |-> FilterTruth(g, x, c, b)]]]
           step == [g \in [Filter -> R] |-> Body(g)]
<1>1. \A g : Body(g) \in [Filter -> R]
  <2>1. \A g, x, c, b : FilterTruth(g, x, c, b) \in Truths
    BY LogicTypes DEF FilterTruth
  <2> QED
    BY <2>1
<1>2. ASSUME NEW g, NEW h, NEW x \in Filter,
             \A y \in Filter : Depth[y] < Depth[x] => g[y] = h[y]
      PROVE  Body(g)[x] = Body(h)[x]
  <2>1. ASSUME NEW i \in DOMAIN x, NEW c \in Document, NEW b \in BOOLEAN
        PROVE  EntryTruth(g, x[i], c, b) = EntryTruth(h, x[i], c, b)
    <3>1. \A j \in DOMAIN x[i].docs : g[x[i].docs[j]] = h[x[i].docs[j]]
      BY <1>2, FilterParts
    <3> QED
      BY <3>1 DEF EntryTruth
  <2>2. ASSUME NEW c \in Document, NEW b \in BOOLEAN
        PROVE  FilterTruth(g, x, c, b) = FilterTruth(h, x, c, b)
    BY <2>1 DEF FilterTruth
  <2> QED
    BY <2>2
<1>3. ClauseTruth = CHOOSE g : g = Body(g)
  BY DEF ClauseTruth
<1> HIDE DEF Body
<1>4. step \in [[Filter -> R] -> [Filter -> R]] /\ [Filter -> R] # {}
  BY <1>1
<1>5. ASSUME NEW g \in [Filter -> R], NEW h \in [Filter -> R], NEW x \in Filter,
             \A y \in Filter : Depth[y] < Depth[x] => g[y] = h[y]
      PROVE  step[g][x] = step[h][x]
  <2>1. Body(g)[x] = Body(h)[x]
    BY <1>2, <1>5
  <2> QED
    BY <2>1
<1> HIDE DEF R
<1>6. \E g \in [Filter -> R] : step[g] = g
  <2> HIDE DEF step
  <2>1. Recursion(Filter, R, Depth, step)
    BY <1>4, <1>5, FilterAssumption DEF Recursion
  <2> QED
    BY <2>1, RecursiveFunctionExists
<1>7. \E g : g = Body(g)
  BY <1>6
<1>8. ClauseTruth = Body(ClauseTruth)
  BY <1>3, <1>7
<1>9. ClauseTruth[f] = [c \in Document |-> [b \in BOOLEAN |-> FilterTruth(ClauseTruth, f, c, b)]]
  BY <1>8 DEF Body
<1>10. ClauseTruth[f][d] = [b \in BOOLEAN |-> FilterTruth(ClauseTruth, f, d, b)]
  BY <1>9
<1> QED
  BY <1>10

-----------------------------------------------------------------------------
(* What truth values and texts say. *)

\* t says that b: it is true if and only if b, and not unknown.
Says(t, b) == t \in {"true", "false"} /\ (t = "true" <=> b)

LEMMA ConjTrue ==
  ASSUME NEW T \in SUBSET Truths
  PROVE  /\ Conj(T) = "true" <=> T \subseteq {"true"}
         /\ T \subseteq {"true", "false"} => Conj(T) \in {"true", "false"}
BY DEF Conj, Truths

LEMMA DisjTrue ==
  ASSUME NEW T \in SUBSET Truths
  PROVE  /\ Disj(T) = "true" <=> "true" \in T
         /\ T \subseteq {"true", "false"} => Disj(T) \in {"true", "false"}
<1> DEFINE N == {Not(t) : t \in T}
<1>1. "false" \in N <=> "true" \in T
  BY DEF Not, Truths
<1>2. T \subseteq {"true", "false"} => "unknown" \notin N
  BY DEF Not
<1>3. Disj(T) = Not(Conj(N))
  BY DEF Disj
<1> HIDE DEF N
<1> QED
  BY <1>1, <1>2, <1>3 DEF Not, Conj

LEMMA NotTrue ==
  ASSUME NEW t \in Truths
  PROVE  /\ Not(t) \in Truths
         /\ Not(t) = "true" <=> t = "false"
         /\ \A b \in BOOLEAN : Says(t, b) => Says(Not(t), ~b)
BY DEF Not, Truths, Says

LEMMA TextValue ==
  ASSUME NEW text \in Seq(Truths)
  PROVE  /\ Value(text) \in Truths
         /\ Value(text) = "true" <=> \A i \in DOMAIN text : text[i] = "true"
         /\ Value(text) = "false" <=> \E i \in DOMAIN text : text[i] = "false"
<1>1. {text[i] : i \in DOMAIN text} \in SUBSET Truths
  OBVIOUS
<1>2. Value(text) = "true" <=> {text[i] : i \in DOMAIN text} \subseteq {"true"}
  BY <1>1, ConjTrue DEF Value
<1>3. Value(text) = "false" <=> "false" \in {text[i] : i \in DOMAIN text}
  BY DEF Value, Conj
<1> QED
  BY <1>2, <1>3, LogicTypes DEF Value

LEMMA AppendValue ==
  ASSUME NEW text \in Seq(Truths), NEW t \in Truths
  PROVE  /\ Value(Append(text, t)) \in Truths
         /\ Value(Append(text, t)) = "true" <=> Value(text) = "true" /\ t = "true"
         /\ Value(Append(text, t)) = "false" <=> Value(text) = "false" \/ t = "false"
<1> DEFINE more == Append(text, t)
<1>1. more \in Seq(Truths) /\ Len(text) \in Nat /\ DOMAIN text = 1..Len(text)
  OBVIOUS
<1>2. /\ DOMAIN more = DOMAIN text \cup {Len(text) + 1}
      /\ \A i \in DOMAIN text : more[i] = text[i]
      /\ more[Len(text) + 1] = t
  BY <1>1
<1> HIDE DEF more
<1>3. Value(more) = "true" <=> Value(text) = "true" /\ t = "true"
  BY <1>1, <1>2, TextValue
<1>4. Value(more) = "false" <=> Value(text) = "false" \/ t = "false"
  BY <1>1, <1>2, TextValue
<1> QED
  BY <1>1, <1>3, <1>4, TextValue DEF more

LEMMA OneValue ==
  ASSUME NEW t \in Truths
  PROVE  Value(<<t>>) = t /\ Value(NotText(<<t>>)) = Not(t)
<1>1. \A u \in Truths : Value(<<u>>) = u
  <2> SUFFICES ASSUME NEW u \in Truths PROVE Value(<<u>>) = u
    OBVIOUS
  <2>1. <<u>> \in Seq(Truths) /\ DOMAIN <<u>> = {1} /\ <<u>>[1] = u
    OBVIOUS
  <2> QED
    BY <2>1, TextValue DEF Truths
<1>2. NotText(<<t>>) = <<Not(t)>>
  BY DEF NotText
<1> QED
  BY <1>1, <1>2, NotTrue

LEMMA NoText == <<>> \in Seq(Truths) /\ Value(<<>>) = "true"
<1>1. <<>> \in Seq(Truths) /\ DOMAIN <<>> = {}
  OBVIOUS
<1> QED
  BY <1>1, TextValue

-----------------------------------------------------------------------------
(* One operator. *)

\* What documents have in a field.
Fields == {{}} \cup {{v} : v \in FieldValue}

\* The text of value t says that b of a field with value S: in a $nor, and if
\* the field is set, it is not unknown.
SaysOf(t, b, S, nor) ==
  /\ t \in Truths
  /\ t = "true" <=> b
  /\ nor \/ S # {} => t # "unknown"

LEMMA CompareMeans ==
  ASSUME NEW S \in Fields, NEW o, o.op \notin {"set", "unset", "not", "all", "elemMatch"}
  PROVE  /\ Compare(S, o) \in Truths
         /\ S # {} => Says(Compare(S, o), Holds(Satisfies, o, S))
         /\ S = {} => Compare(S, o) = "unknown" /\ (Holds(Satisfies, o, S) <=> o.op = "ne")
<1>1. S = {} => Compare(S, o) = "unknown" /\ (Holds(Satisfies, o, S) <=> o.op = "ne")
  BY DEF Compare, Holds
<1>2. ASSUME NEW v \in FieldValue, S = {v}
      PROVE  Says(Compare(S, o), Holds(Satisfies, o, S))
  <2>1. Compare(S, o) = Truth(Is(v, o))
    <3>1. S # {} /\ ((\E w \in S : Is(w, o)) <=> Is(v, o))
      BY <1>2
    <3> QED
      BY <3>1 DEF Compare, Truth
  <2>2. Is(v, o) <=> Holds(Satisfies, o, S)
    BY <1>2 DEF Is, Holds
  <2> QED
    BY <2>1, <2>2 DEF Truth, Says
<1> QED
  BY <1>1, <1>2, LogicTypes DEF Fields

\* In a $nor, what is said of a field that is not set is false.
LEMMA GuardedMeans ==
  ASSUME NEW text \in Seq(Truths), NEW S \in Fields, NEW nor \in BOOLEAN, NEW b \in BOOLEAN,
         Value(text) = "true" <=> b,
         S # {} => Value(text) # "unknown",
         nor /\ S = {} => ~b
  PROVE  SaysOf(Value(Guarded(text, S, nor)), b, S, nor)
<1>1. CASE ~nor
  BY <1>1, TextValue DEF Guarded, SaysOf
<1>2. CASE nor
  <2> DEFINE t == Value(Append(text, IsSet(S)))
  <2>1. IsSet(S) \in Truths /\ (IsSet(S) = "true" <=> S # {}) /\ (IsSet(S) = "false" <=> S = {})
    BY DEF IsSet, Truth, Truths
  <2>2. /\ t \in Truths
        /\ t = "true" <=> b /\ S # {}
        /\ t = "false" <=> Value(text) = "false" \/ S = {}
    BY <2>1, AppendValue
  <2> HIDE DEF t
  <2>3. Value(Guarded(text, S, nor)) = t
    BY <1>2, <2>2, OneValue DEF Guarded, t
  <2> QED
    BY <1>2, <2>2, <2>3, TextValue DEF SaysOf, Truths
<1> QED
  BY <1>1, <1>2

\* One more condition, of which t says h.
LEMMA AppendMeans ==
  ASSUME NEW text \in Seq(Truths), NEW S \in Fields, NEW nor \in BOOLEAN, NEW b \in BOOLEAN,
         NEW t \in Truths, NEW h \in BOOLEAN,
         SaysOf(Value(text), b, S, nor),
         t = "true" <=> h,
         S # {} => t # "unknown",
         nor /\ S = {} => ~h
  PROVE  SaysOf(Value(Guarded(Append(text, t), S, nor)), b /\ h, S, nor)
<1> DEFINE more == Append(text, t)
<1>1. more \in Seq(Truths)
  BY TextTypes
<1>2. Value(more) = "true" <=> b /\ h
  BY AppendValue DEF SaysOf
<1>3. S # {} => Value(more) # "unknown"
  BY AppendValue, TextValue DEF SaysOf, Truths
<1> HIDE DEF more
<1>4. SaysOf(Value(Guarded(more, S, nor)), b /\ h, S, nor)
  BY <1>1, <1>2, <1>3, GuardedMeans
<1> QED
  BY <1>4 DEF more

\* An operator that is not about an array, after a text that says b.
LEMMA ExtendMeans ==
  ASSUME NEW text \in Seq(Truths), NEW S \in Fields, NEW nor \in BOOLEAN, NEW b \in BOOLEAN, NEW o,
         SaysOf(Value(text), b, S, nor),
         o.op \notin {"not", "all", "elemMatch"},
         o.op = "ne" => text = <<>> /\ ~nor,
         o.op = "unset" => ~nor
  PROVE  SaysOf(Value(Extend(FieldText, text, o, S, nor)), b /\ Holds(Satisfies, o, S), S, nor)
<1> DEFINE both == b /\ Holds(Satisfies, o, S)
<1>0. Holds(Satisfies, o, S) \in BOOLEAN
  BY DEF Holds
<1>1. CASE o.op = "set"
  <2>1. /\ IsSet(S) \in Truths /\ Says(IsSet(S), Holds(Satisfies, o, S))
        /\ Holds(Satisfies, o, S) <=> S # {}
    BY <1>1 DEF IsSet, Truth, Truths, Holds, Says
  <2>2. SaysOf(Value(Guarded(Append(text, IsSet(S)), S, nor)), both, S, nor)
    BY <1>0, <2>1, AppendMeans DEF Says
  <2> QED
    BY <1>1, <2>2 DEF Extend
<1>2. CASE o.op = "unset"
  <2>1. IsUnset(S) \in Truths /\ Says(IsUnset(S), Holds(Satisfies, o, S))
    BY <1>2 DEF IsUnset, Truth, Truths, Holds, Says
  <2>2. SaysOf(Value(Guarded(Append(text, IsUnset(S)), S, nor)), both, S, nor)
    BY <1>0, <1>2, <2>1, AppendMeans DEF Says
  <2> QED
    BY <1>2, <2>2 DEF Extend
<1>3. CASE o.op = "ne"
  <2> DEFINE c == Compare(S, o)
             t == Disj({Value(Append(text, c)), IsUnset(S)})
  <2>1. /\ c \in Truths
        /\ S # {} => Says(c, Holds(Satisfies, o, S))
        /\ S = {} => Holds(Satisfies, o, S)
    BY <1>3, CompareMeans
  <2>2. text = <<>> /\ ~nor /\ b
    BY <1>3, NoText DEF SaysOf
  <2>3. Value(Append(text, c)) = c
    BY <2>1, <2>2, OneValue
  <2>4. IsUnset(S) \in {"true", "false"} /\ (IsUnset(S) = "true" <=> S = {})
    BY DEF IsUnset, Truth
  <2> HIDE DEF c
  <2>5. t \in Truths /\ (t = "true" <=> Holds(Satisfies, o, S)) /\ (S # {} => t # "unknown")
    BY <2>1, <2>3, <2>4, DisjTrue, LogicTypes DEF Says, Truths
  <2> HIDE DEF t
  <2>6. Value(Guarded(<<t>>, S, nor)) = t
    BY <2>2, <2>5, OneValue DEF Guarded
  <2>7. SaysOf(Value(Guarded(<<t>>, S, nor)), both, S, nor)
    BY <2>2, <2>5, <2>6 DEF SaysOf
  <2> QED
    BY <1>3, <2>7 DEF Extend, t, c
<1>4. CASE o.op \notin {"set", "unset", "ne"}
  <2> DEFINE c == Compare(S, o)
  <2>1. /\ c \in Truths
        /\ S # {} => Says(c, Holds(Satisfies, o, S))
        /\ S = {} => c = "unknown" /\ ~Holds(Satisfies, o, S)
    BY <1>4, CompareMeans
  <2> HIDE DEF c
  <2>2. SaysOf(Value(Guarded(Append(text, c), S, nor)), both, S, nor)
    BY <1>0, <2>1, AppendMeans DEF Says
  <2> QED
    BY <1>4, <2>2 DEF Extend, c
<1> QED
  BY <1>1, <1>2, <1>3, <1>4

-----------------------------------------------------------------------------
(* Arrays. *)

LEMMA NoOperator ==
  <<>> \in Expression =>
    \A S \in SUBSET FieldValue, nor \in BOOLEAN :
      FieldText[<<>>][S][nor] = <<>> /\ Satisfies[<<>>][S]
<1> SUFFICES ASSUME <<>> \in Expression, NEW S \in SUBSET FieldValue, NEW nor \in BOOLEAN
             PROVE  FieldText[<<>>][S][nor] = <<>> /\ Satisfies[<<>>][S]
  OBVIOUS
<1>1. FieldText[<<>>][S][nor] = <<>>
  BY FieldTextDef DEF LoopText
<1>2. DOMAIN <<>> = {}
  OBVIOUS
<1>3. Satisfies[<<>>][S]
  BY <1>2, SatisfiesDef
<1> QED
  BY <1>1, <1>3

LEMMA FieldsShape == Fields \subseteq SUBSET FieldValue /\ \A v \in FieldValue : {v} \in Fields
BY DEF Fields

LEMMA OneOperator ==
  ASSUME NEW o, <<o>> \in Expression, NEW S \in Fields, NEW nor \in BOOLEAN
  PROVE  /\ o.op # "not" => FieldText[<<o>>][S][nor] = Extend(FieldText, <<>>, o, S, nor)
         /\ Satisfies[<<o>>][S] <=> Holds(Satisfies, o, S)
<1> DEFINE ops == <<o>>
<1>1. ops # <<>> /\ Len(ops) = 1 /\ ops[Len(ops)] = o /\ DOMAIN ops = {1}
  OBVIOUS
<1>2. AllButLast(ops) = <<>>
  <2>1. Len(AllButLast(ops)) = 0 /\ AllButLast(ops) \in Seq({o})
    BY <1>1 DEF AllButLast
  <2> QED
    BY <2>1
<1>3. <<>> \in Expression /\ S \in SUBSET FieldValue
  BY <1>1, <1>2, ButLast, FieldsShape
<1>4. FieldText[<<>>][S][nor] = <<>> /\ DOMAIN <<>> = {}
  BY <1>3, NoOperator
<1> HIDE DEF ops
<1>5. ops \in Expression
  BY DEF ops
<1>6. FieldText[ops][S][nor] = LoopText(FieldText, ops, S, nor)
  BY <1>3, <1>5, FieldTextDef
<1>7. o.op # "not" => FieldText[ops][S][nor] = Extend(FieldText, <<>>, o, S, nor)
  BY <1>1, <1>2, <1>4, <1>6 DEF LoopText
<1>8. Satisfies[ops][S] <=> Holds(Satisfies, o, S)
  BY <1>1, <1>3, <1>5, SatisfiesDef
<1> QED
  BY <1>7, <1>8 DEF ops

\* An operator that is not about an array, alone and in a text of its own.
LEMMA ScalarMeans ==
  ASSUME NEW o, <<o>> \in Expression, NEW S \in Fields, NEW nor \in BOOLEAN,
         o.op \notin {"not", "all", "elemMatch"},
         o.op \in {"ne", "unset"} => ~nor
  PROVE  SaysOf(Value(FieldText[<<o>>][S][nor]), Holds(Satisfies, o, S), S, nor)
<1>1. FieldText[<<o>>][S][nor] = Extend(FieldText, <<>>, o, S, nor)
  BY OneOperator
<1>2. <<>> \in Seq(Truths) /\ SaysOf(Value(<<>>), TRUE, S, nor)
  BY NoText DEF SaysOf, Truths
<1>3. SaysOf(Value(Extend(FieldText, <<>>, o, S, nor)), TRUE /\ Holds(Satisfies, o, S), S, nor)
  BY <1>2, ExtendMeans
<1> QED
  BY <1>1, <1>3 DEF SaysOf

\* In an array, x is an element that satisfies what the text says.
ElementSays(o, x) == Says(ElementTruth(FieldText, o, x), Holds(Satisfies, o, {x}))

LEMMA SomeElementMeans ==
  ASSUME NEW ops \in Expression, NEW S \in Fields,
         \A i \in DOMAIN ops, x \in FieldValue : ElementSays(ops[i], x)
  PROVE  Says(SomeElement(FieldText, ops, S),
              \E a \in S : \E x \in Elements[a] : Satisfies[ops][{x}])
<1>1. ASSUME NEW a \in S, NEW x \in Elements[a]
      PROVE  (\A i \in DOMAIN ops : ElementTruth(FieldText, ops[i], x) = "true")
             <=> Satisfies[ops][{x}]
  <2>1. x \in FieldValue
    BY DocumentAssumption, FieldsShape
  <2>2. Satisfies[ops][{x}] <=> \A i \in DOMAIN ops : Holds(Satisfies, ops[i], {x})
    BY <2>1, SatisfiesDef
  <2> QED
    BY <2>1, <2>2 DEF ElementSays, Says
<1> DEFINE some == \E a \in S : \E x \in Elements[a] :
                     \A i \in DOMAIN ops : ElementTruth(FieldText, ops[i], x) = "true"
<1>2. some <=> \E a \in S : \E x \in Elements[a] : Satisfies[ops][{x}]
  BY <1>1
<1>3. SomeElement(FieldText, ops, S) = Truth(some)
  BY DEF SomeElement
<1> HIDE DEF some
<1> QED
  BY <1>2, <1>3 DEF Says, Truth

LEMMA ScalarElement ==
  ASSUME NEW o, <<o>> \in Expression, NEW x \in FieldValue,
         o.op \notin {"not", "all", "elemMatch"}
  PROVE  ElementSays(o, x)
<1>1. {x} \in Fields /\ {x} # {}
  BY FieldsShape
<1>2. SaysOf(Value(FieldText[<<o>>][{x}][FALSE]), Holds(Satisfies, o, {x}), {x}, FALSE)
  BY <1>1, ScalarMeans
<1> QED
  BY <1>1, <1>2 DEF ElementSays, ElementTruth, Says, SaysOf, Truths

\* One value of an $all.
LEMMA ContainsMeans ==
  ASSUME NEW o, <<o>> \in Expression, o.op = "eq", NEW S \in Fields
  PROVE  Says(SomeElement(FieldText, <<o>>, S), \E a \in S : o.n \in Elements[a])
<1> DEFINE ops == <<o>>
<1>1. \A i \in DOMAIN ops, x \in FieldValue : ElementSays(ops[i], x)
  BY ScalarElement
<1>2. Says(SomeElement(FieldText, ops, S),
           \E a \in S : \E x \in Elements[a] : Satisfies[ops][{x}])
  <2> HIDE DEF ops
  <2>1. ops \in Expression
    BY DEF ops
  <2> QED
    BY <1>1, <2>1, SomeElementMeans
<1>3. ASSUME NEW a \in S, NEW x \in Elements[a]
      PROVE  Satisfies[ops][{x}] <=> x = o.n
  <2>1. {x} \in Fields
    BY DocumentAssumption, FieldsShape
  <2>2. Holds(Satisfies, o, {x}) <=> x = o.n
    BY DEF Holds
  <2> QED
    BY <2>1, <2>2, OneOperator
<1> HIDE DEF ops
<1>4. (\E a \in S : \E x \in Elements[a] : Satisfies[ops][{x}])
      <=> \E a \in S : o.n \in Elements[a]
  BY <1>3
<1> QED
  BY <1>2, <1>4 DEF ops, Says

\* $all and $elemMatch, in a text of their own.
LEMMA ArrayMeans ==
  ASSUME NEW o, <<o>> \in Expression, NEW S \in Fields, NEW nor \in BOOLEAN,
         \/ o.op = "all" /\ Values(o)
         \/ /\ o.op = "elemMatch"
            /\ \A i \in DOMAIN o.ops, x \in FieldValue : ElementSays(o.ops[i], x)
  PROVE  Says(Value(FieldText[<<o>>][S][nor]), Holds(Satisfies, o, S))
<1>1. FieldText[<<o>>][S][nor] = Extend(FieldText, <<>>, o, S, nor)
  BY OneOperator
<1>2. o.ops \in Expression
  <2>1. 1 \in DOMAIN <<o>> /\ <<o>>[1] = o
    OBVIOUS
  <2> QED
    BY <2>1, ExpressionParts
<1>3. CASE o.op = "elemMatch"
  <2> DEFINE t == SomeElement(FieldText, o.ops, S)
  <2>1. Says(t, \E a \in S : \E x \in Elements[a] : Satisfies[o.ops][{x}])
    BY <1>2, <1>3, SomeElementMeans
  <2>2. Says(t, Holds(Satisfies, o, S))
    BY <1>3, <2>1 DEF Holds
  <2>3. Extend(FieldText, <<>>, o, S, nor) = <<t>>
    BY <1>3 DEF Extend
  <2> HIDE DEF t
  <2>4. Value(<<t>>) = t
    BY <2>2, OneValue DEF Says, Truths
  <2> QED
    BY <1>1, <2>2, <2>3, <2>4
<1>4. CASE o.op = "all"
  <2> DEFINE t(i) == SomeElement(FieldText, <<o.ops[i]>>, S)
             text == [i \in DOMAIN o.ops |-> t(i)]
  <2>1. o.ops # <<>> /\ o.ops \in Seq(FieldOperator) /\ 1 \in DOMAIN o.ops
    BY <1>2, <1>4, ExpressionParts DEF Values
  <2>2. \A i \in DOMAIN o.ops : Says(t(i), \E a \in S : o.ops[i].n \in Elements[a])
    BY <1>2, <1>4, ContainsMeans, ExpressionParts DEF Values
  <2> HIDE DEF t
  <2>3. text \in Seq(Truths)
    <3>1. Len(o.ops) \in Nat /\ DOMAIN o.ops = 1..Len(o.ops)
      BY <2>1
    <3> QED
      BY <2>2, <3>1 DEF Says, Truths
  <2>4. Extend(FieldText, <<>>, o, S, nor) = text
    <3>1. Extend(FieldText, <<>>, o, S, nor) = <<>> \o text
      BY <1>4 DEF Extend, t
    <3> HIDE DEF text
    <3> QED
      BY <2>3, <3>1
  <2>5. /\ Value(text) \in Truths
        /\ Value(text) = "true" <=> \A i \in DOMAIN o.ops : t(i) = "true"
        /\ Value(text) # "unknown"
    <3>1. DOMAIN text = DOMAIN o.ops /\ \A i \in DOMAIN o.ops : text[i] = t(i)
      OBVIOUS
    <3> HIDE DEF text
    <3> QED
      BY <2>2, <2>3, <3>1, TextValue DEF Says
  <2>6. Holds(Satisfies, o, S) <=> \A i \in DOMAIN o.ops : \E a \in S : o.ops[i].n \in Elements[a]
    <3>1. Holds(Satisfies, o, S) <=> \E a \in S : \A i \in DOMAIN o.ops : o.ops[i].n \in Elements[a]
      BY <1>4 DEF Holds
    <3> QED
      BY <2>1, <3>1 DEF Fields
  <2> HIDE DEF text
  <2> QED
    BY <1>1, <2>2, <2>4, <2>5, <2>6 DEF Says, Truths
<1> QED
  BY <1>3, <1>4

\* What $not negates is a text of one condition.
LEMMA OneCondition ==
  ASSUME NEW o, <<o>> \in Expression, NEW S \in Fields, NEW nor \in BOOLEAN, Negatable(o)
  PROVE  Value(NotText(FieldText[<<o>>][S][nor])) = Not(Value(FieldText[<<o>>][S][nor]))
<1>1. FieldText[<<o>>][S][nor] = Extend(FieldText, <<>>, o, S, nor)
  BY OneOperator DEF Negatable, Plain
<1>2. \E t \in Truths : Extend(FieldText, <<>>, o, S, nor) = <<t>>
  <2>1. CASE o.op = "all"
    <3>1. Len(o.ops) = 1
      BY <2>1 DEF Negatable, Plain
    <3>2. o.ops \in Expression
      <4>1. 1 \in DOMAIN <<o>> /\ <<o>>[1] = o
        OBVIOUS
      <4> QED
        BY <4>1, ExpressionParts
    <3>3. DOMAIN o.ops = {1}
      BY <3>1, <3>2, ExpressionParts
    <3> DEFINE t == SomeElement(FieldText, <<o.ops[1]>>, S)
    <3>4. Extend(FieldText, <<>>, o, S, nor)
          = <<>> \o [i \in DOMAIN o.ops |-> SomeElement(FieldText, <<o.ops[i]>>, S)]
      BY <2>1 DEF Extend
    <3>5. [i \in DOMAIN o.ops |-> SomeElement(FieldText, <<o.ops[i]>>, S)] = <<t>>
      BY <3>3
    <3>6. t \in Truths
      BY LogicTypes DEF SomeElement, Truths
    <3> HIDE DEF t
    <3>7. <<>> \o <<t>> = <<t>>
      OBVIOUS
    <3> QED
      BY <3>4, <3>5, <3>6, <3>7
  <2>2. CASE o.op = "elemMatch"
    <3>1. SomeElement(FieldText, o.ops, S) \in Truths
      BY LogicTypes DEF SomeElement, Truths
    <3> QED
      BY <2>2, <3>1 DEF Extend
  <2>3. CASE o.op = "set"
    <3>1. IsSet(S) \in Truths /\ Value(Append(<<>>, IsSet(S))) \in Truths
      BY LogicTypes DEF IsSet, Truths, Value
    <3>2. Value(Append(Append(<<>>, IsSet(S)), IsSet(S))) \in Truths
      BY LogicTypes DEF Value
    <3> QED
      BY <2>3, <3>1, <3>2 DEF Extend, Guarded
  <2>4. CASE Plain(o) /\ o.op # "set"
    <3>1. /\ Compare(S, o) \in Truths
          /\ Value(Append(Append(<<>>, Compare(S, o)), IsSet(S))) \in Truths
      BY LogicTypes DEF Value
    <3> QED
      BY <2>4, <3>1 DEF Extend, Guarded, Plain
  <2> QED
    BY <2>1, <2>2, <2>3, <2>4 DEF Negatable
<1> QED
  BY <1>1, <1>2, OneValue

LEMMA SingleOperator ==
  ASSUME NEW ops \in Expression, Len(ops) = 1
  PROVE  ops # <<>> /\ ops = <<ops[1]>> /\ DOMAIN ops = {1} /\ AllButLast(ops) = <<>>
<1>1. ops \in Seq(FieldOperator)
  BY ExpressionParts
<1>2. ops # <<>> /\ ops = <<ops[1]>> /\ DOMAIN ops = {1}
  BY <1>1
<1>3. AllButLast(ops) \in Seq(FieldOperator) /\ Len(AllButLast(ops)) = 0
  BY <1>1 DEF AllButLast
<1> QED
  BY <1>2, <1>3

\* In an $elemMatch, however deep, filterArray leaves of an operator what it
\* means, if the operator is used as SoundInArray says.
LEMMA InArrayMeans ==
  \A ops \in Expression : SoundInArray[ops] =>
    \A i \in DOMAIN ops, x \in FieldValue : ElementSays(ops[i], x)
<1> DEFINE Good == {ops \in Expression : SoundInArray[ops] =>
                      \A i \in DOMAIN ops, x \in FieldValue : ElementSays(ops[i], x)}
<1>1. Size \in [Expression -> Nat] /\ Good \in SUBSET Expression
  BY ExpressionAssumption
<1>2. ASSUME NEW ops \in Expression, \A y \in Expression : Size[y] < Size[ops] => y \in Good
      PROVE  ops \in Good
  <2> SUFFICES ASSUME SoundInArray[ops], NEW i \in DOMAIN ops, NEW x \in FieldValue
               PROVE  ElementSays(ops[i], x)
    OBVIOUS
  <2> DEFINE o == ops[i]
  <2>1. SoundInside(SoundInArray, o)
    BY SoundInArrayDef
  <2>2. o.ops \in Expression /\ Size[o.ops] < Size[ops] /\ <<o>> \in Expression
    BY ExpressionParts
  <2>3. {x} \in Fields
    BY FieldsShape
  <2> SUFFICES ElementSays(o, x)
    OBVIOUS
  <2> HIDE DEF o
  <2>4. CASE o.op = "not"
    <3> DEFINE p == o.ops[1]
               t == Value(FieldText[<<p>>][{x}][FALSE])
    <3>1. Len(o.ops) = 1 /\ Plain(p)
      BY <2>1, <2>4 DEF SoundInside
    <3>2. o.ops = <<p>> /\ <<p>> \in Expression
      BY <2>2, <3>1, SingleOperator
    <3>3. ElementSays(p, x)
      BY <3>1, <3>2, ScalarElement DEF Plain
    <3>4. Says(t, Holds(Satisfies, p, {x}))
      BY <3>1, <3>3 DEF ElementSays, ElementTruth, Plain
    <3>5. ElementTruth(FieldText, o, x) = Not(t)
      BY <2>3, <2>4, <3>1, <3>2, OneCondition DEF ElementTruth, Negatable
    <3>6. Holds(Satisfies, o, {x}) <=> ~Holds(Satisfies, p, {x})
      <4>1. Satisfies[<<p>>][{x}] <=> Holds(Satisfies, p, {x})
        BY <2>3, <3>2, OneOperator
      <4> HIDE DEF p
      <4> QED
        BY <2>4, <3>2, <4>1 DEF Holds
    <3> HIDE DEF t, p
    <3> QED
      BY <3>4, <3>5, <3>6 DEF ElementSays, Says, Not
  <2>5. CASE o.op \in {"all", "elemMatch"}
    <3>1. \/ o.op = "all" /\ Values(o)
          \/ /\ o.op = "elemMatch"
             /\ \A j \in DOMAIN o.ops, y \in FieldValue : ElementSays(o.ops[j], y)
      BY <1>2, <2>1, <2>2, <2>5 DEF SoundInside
    <3>2. Says(Value(FieldText[<<o>>][{x}][FALSE]), Holds(Satisfies, o, {x}))
      BY <2>2, <2>3, <3>1, ArrayMeans
    <3> QED
      BY <2>5, <3>2 DEF ElementSays, ElementTruth
  <2>6. CASE o.op \notin {"not", "all", "elemMatch"}
    BY <2>2, <2>6, ScalarElement
  <2> QED
    BY <2>4, <2>5, <2>6
<1>3. \A ops \in Expression : ops \in Good
  <2> HIDE DEF Good
  <2> QED
    BY <1>1, <1>2, RankInduction
<1> QED
  BY <1>3

LEMMA SoundArrayMeans ==
  ASSUME NEW o, <<o>> \in Expression, NEW S \in Fields, NEW nor \in BOOLEAN,
         o.op \in {"all", "elemMatch"}, SoundArray(o)
  PROVE  Says(Value(FieldText[<<o>>][S][nor]), Holds(Satisfies, o, S))
<1>1. o.ops \in Expression
  <2>1. 1 \in DOMAIN <<o>> /\ <<o>>[1] = o
    OBVIOUS
  <2> QED
    BY <2>1, ExpressionParts
<1>2. \/ o.op = "all" /\ Values(o)
      \/ /\ o.op = "elemMatch"
         /\ \A j \in DOMAIN o.ops, y \in FieldValue : ElementSays(o.ops[j], y)
  BY <1>1, InArrayMeans DEF SoundArray
<1> QED
  BY <1>2, ArrayMeans

-----------------------------------------------------------------------------
(* The operators of a field. *)

\* What $not negates, alone.
LEMMA NegatableMeans ==
  ASSUME NEW o, <<o>> \in Expression, NEW S \in Fields, NEW nor \in BOOLEAN, Negatable(o)
  PROVE  /\ SaysOf(Value(FieldText[<<o>>][S][nor]), Holds(Satisfies, o, S), S, nor)
         /\ S = {} => ~Holds(Satisfies, o, S)
<1>1. CASE o.op \in {"all", "elemMatch"}
  <2>1. Says(Value(FieldText[<<o>>][S][nor]), Holds(Satisfies, o, S))
    BY <1>1, SoundArrayMeans DEF Negatable, Plain
  <2>2. S = {} => ~Holds(Satisfies, o, S)
    BY <1>1 DEF Holds
  <2> QED
    BY <2>1, <2>2 DEF Says, SaysOf, Truths
<1>2. CASE o.op \notin {"all", "elemMatch"}
  <2>1. Plain(o)
    BY <1>2 DEF Negatable
  <2>2. S = {} => ~Holds(Satisfies, o, S)
    BY <2>1 DEF Holds, Plain
  <2> QED
    BY <2>1, <2>2, ScalarMeans DEF Plain
<1> QED
  BY <1>1, <1>2

\* $not selects what is not set, too.
LEMMA NotMeans ==
  ASSUME NEW ops \in Expression, NEW S \in Fields, NEW nor \in BOOLEAN,
         Len(ops) = 1, ops[1].op = "not", Len(ops[1].ops) = 1, Negatable(ops[1].ops[1])
  PROVE  SaysOf(Value(FieldText[ops][S][nor]), Satisfies[ops][S], S, nor)
<1> DEFINE o == ops[1]
           p == o.ops[1]
           t == Value(FieldText[<<p>>][S][nor])
<1>1. /\ ops # <<>> /\ ops = <<o>> /\ DOMAIN ops = {1} /\ AllButLast(ops) = <<>>
      /\ DOMAIN AllButLast(ops) = {} /\ S \in SUBSET FieldValue
  BY SingleOperator, FieldsShape
<1>2. o.ops = <<p>> /\ <<p>> \in Expression
  BY <1>1, SingleOperator, ExpressionParts
<1>3. SaysOf(t, Holds(Satisfies, p, S), S, nor) /\ (S = {} => ~Holds(Satisfies, p, S))
  BY <1>2, NegatableMeans
<1>4. Value(NotText(FieldText[<<p>>][S][nor])) = Not(t)
  BY <1>2, OneCondition
<1>5. FieldText[ops][S][nor] = <<Disj({Not(t), IsUnset(S)})>>
  <2>1. FieldText[ops][S][nor] = LoopText(FieldText, ops, S, nor)
    BY <1>1, FieldTextDef
  <2>2. LoopText(FieldText, ops, S, nor)
        = <<Disj({Value(NotText(FieldText[o.ops][S][nor])), IsUnset(S)})>>
    BY <1>1 DEF LoopText
  <2> HIDE DEF t, p
  <2> QED
    BY <1>2, <1>4, <2>1, <2>2
<1>6. Satisfies[ops][S] <=> ~Holds(Satisfies, p, S)
  <2>1. Satisfies[<<p>>][S] <=> Holds(Satisfies, p, S)
    BY <1>2, OneOperator
  <2>2. Satisfies[ops][S] <=> Holds(Satisfies, o, S)
    BY <1>1, OneOperator
  <2> HIDE DEF p
  <2> QED
    BY <1>2, <2>1, <2>2 DEF Holds
<1> HIDE DEF t, p, o
<1>7. IsUnset(S) \in {"true", "false"} /\ (IsUnset(S) = "true" <=> S = {})
  BY DEF IsUnset, Truth
<1>8. Not(t) \in Truths /\ (Not(t) = "true" <=> t = "false")
  BY <1>3, NotTrue DEF SaysOf
<1>9. LET u == Disj({Not(t), IsUnset(S)})
      IN /\ u \in Truths
         /\ u = "true" <=> Not(t) = "true" \/ S = {}
         /\ S # {} \/ nor => u # "unknown"
  <2>1. {Not(t), IsUnset(S)} \in SUBSET Truths
    BY <1>7, <1>8 DEF Truths
  <2>2. S # {} \/ nor => Not(t) # "unknown"
    BY <1>3 DEF SaysOf, Not, Truths
  <2> QED
    BY <1>7, <1>8, <2>1, <2>2, DisjTrue, LogicTypes DEF Truths
<1>10. S # {} => (t = "false" <=> ~Holds(Satisfies, p, S))
  BY <1>3 DEF SaysOf, Truths
<1> QED
  BY <1>3, <1>5, <1>6, <1>8, <1>9, <1>10, OneValue DEF SaysOf

\* In a sound expression $not stands alone.
LEMMA SoundBefore ==
  ASSUME NEW ops \in Expression, NEW nor \in BOOLEAN, ops # <<>>, SoundOperators(ops, nor)
  PROVE  /\ SoundOperators(AllButLast(ops), nor)
         /\ \A i \in DOMAIN AllButLast(ops) : AllButLast(ops)[i].op # "not"
<1>1. ops \in Seq(FieldOperator) /\ Len(ops) \in Nat /\ DOMAIN ops = 1..Len(ops)
  BY ExpressionParts
<1>2. ASSUME NEW i \in DOMAIN AllButLast(ops) PROVE AllButLast(ops)[i].op # "not"
  <2>1. i \in DOMAIN ops /\ AllButLast(ops)[i] = ops[i] /\ i # Len(ops)
    BY ButLast
  <2>2. ops[i].op = "not" => Len(ops) = 1
    BY <2>1 DEF SoundOperators
  <2> QED
    BY <1>1, <2>1, <2>2
<1>3. \A i \in DOMAIN AllButLast(ops) : i \in DOMAIN ops /\ AllButLast(ops)[i] = ops[i]
  BY ButLast
<1> QED
  BY <1>2, <1>3 DEF SoundOperators

\* The text of a field says what its operators say.
LEMMA FieldMeans ==
  ASSUME NEW S \in Fields, NEW nor \in BOOLEAN
  PROVE  \A ops \in Expression : SoundOperators(ops, nor) =>
           SaysOf(Value(FieldText[ops][S][nor]), Satisfies[ops][S], S, nor)
<1> DEFINE Good == {ops \in Expression : SoundOperators(ops, nor) =>
                      SaysOf(Value(FieldText[ops][S][nor]), Satisfies[ops][S], S, nor)}
<1>1. Size \in [Expression -> Nat] /\ Good \in SUBSET Expression
  BY ExpressionAssumption
<1>2. S \in SUBSET FieldValue
  BY FieldsShape
<1>3. ASSUME NEW ops \in Expression, \A y \in Expression : Size[y] < Size[ops] => y \in Good,
             SoundOperators(ops, nor)
      PROVE  SaysOf(Value(FieldText[ops][S][nor]), Satisfies[ops][S], S, nor)
  <2> DEFINE before == AllButLast(ops)
             last == ops[Len(ops)]
             text == FieldText[before][S][nor]
  <2>1. CASE ops = <<>>
    <3>1. FieldText[ops][S][nor] = <<>> /\ Satisfies[ops][S]
      BY <1>2, <2>1, NoOperator
    <3> QED
      BY <3>1, NoText DEF SaysOf, Truths
  <2>2. CASE ops # <<>> /\ last.op \in {"not", "all", "elemMatch"}
    <3>1. Len(ops) = 1
      <4>1. Len(ops) \in DOMAIN ops
        BY <2>2, ButLast
      <4> QED
        BY <1>3, <2>2, <4>1 DEF SoundOperators
    <3>2. ops = <<last>> /\ last = ops[1] /\ 1 \in DOMAIN ops
      BY <3>1, SingleOperator
    <3>3. CASE last.op = "not"
      BY <1>3, <3>1, <3>2, <3>3, NotMeans DEF SoundOperators
    <3>4. CASE last.op \in {"all", "elemMatch"}
      <4>1. SoundArray(last)
        BY <1>3, <3>2, <3>4 DEF SoundOperators
      <4>2. Says(Value(FieldText[<<last>>][S][nor]), Holds(Satisfies, last, S))
        BY <3>2, <3>4, <4>1, SoundArrayMeans
      <4>3. Satisfies[<<last>>][S] <=> Holds(Satisfies, last, S)
        BY <3>2, OneOperator
      <4> QED
        BY <3>2, <4>2, <4>3 DEF Says, SaysOf, Truths
    <3> QED
      BY <2>2, <3>3, <3>4
  <2>3. CASE ops # <<>> /\ last.op \notin {"not", "all", "elemMatch"}
    <3>1. /\ before \in Expression /\ Size[before] < Size[ops]
          /\ Len(ops) \in DOMAIN ops /\ DOMAIN ops = DOMAIN before \cup {Len(ops)}
          /\ \A i \in DOMAIN before : before[i] = ops[i]
      BY <2>3, ButLast
    <3>2. SoundOperators(before, nor) /\ \A i \in DOMAIN before : before[i].op # "not"
      BY <1>3, <2>3, SoundBefore
    <3>3. SaysOf(Value(text), Satisfies[before][S], S, nor) /\ text \in Seq(Truths)
      BY <1>2, <1>3, <3>1, <3>2, FieldTextType
    <3>4. last.op = "ne" => text = <<>> /\ ~nor
      <4> SUFFICES ASSUME last.op = "ne" PROVE text = <<>> /\ ~nor
        OBVIOUS
      <4>1. Len(ops) = 1 /\ ~nor
        BY <1>3, <3>1 DEF SoundOperators
      <4>2. before = <<>>
        BY <4>1, SingleOperator
      <4> QED
        BY <1>2, <3>1, <4>1, <4>2, NoOperator
    <3>5. last.op = "unset" => ~nor
      BY <1>3, <3>1 DEF SoundOperators
    <3> DEFINE all == \A i \in DOMAIN before : Holds(Satisfies, before[i], S)
    <3>6. Satisfies[before][S] <=> all
      BY <1>2, <3>1, SatisfiesDef
    <3>7. SaysOf(Value(Extend(FieldText, text, last, S, nor)),
                 all /\ Holds(Satisfies, last, S), S, nor)
      <4>1. SaysOf(Value(text), all, S, nor) /\ all \in BOOLEAN
        BY <3>3, <3>6 DEF SaysOf
      <4> HIDE DEF text, last, before, all
      <4> QED
        BY <2>3, <3>3, <3>4, <3>5, <4>1, ExtendMeans
    <3>8. FieldText[ops][S][nor] = Extend(FieldText, text, last, S, nor)
      <4>1. FieldText[ops][S][nor] = LoopText(FieldText, ops, S, nor)
        BY <1>2, FieldTextDef
      <4> QED
        BY <2>3, <3>2, <4>1 DEF LoopText
    <3>9. Satisfies[ops][S] <=> all /\ Holds(Satisfies, last, S)
      <4>1. Satisfies[ops][S] <=> \A i \in DOMAIN ops : Holds(Satisfies, ops[i], S)
        BY <1>2, SatisfiesDef
      <4> QED
        BY <3>1, <4>1
    <3> QED
      BY <3>7, <3>8, <3>9 DEF SaysOf
  <2> QED
    BY <2>1, <2>2, <2>3
<1>4. \A ops \in Expression : ops \in Good
  <2>1. ASSUME NEW ops \in Expression, \A y \in Expression : Size[y] < Size[ops] => y \in Good
        PROVE  ops \in Good
    BY <1>3, <2>1
  <2> HIDE DEF Good
  <2> QED
    BY <1>1, <2>1, RankInduction
<1> QED
  BY <1>4

-----------------------------------------------------------------------------
(* Filters. *)

\* The same of a filter: in a $nor its clause is not unknown.
SaysIn(t, b, nor) ==
  /\ t \in Truths
  /\ t = "true" <=> b
  /\ nor => t # "unknown"

LEMMA DocumentFields ==
  ASSUME NEW d \in Document, NEW k \in Field
  PROVE  d[k] \in Fields
BY DocumentAssumption DEF Fields

\* One entry, if what is nested in it says what it should.
LEMMA EntryMeans ==
  ASSUME NEW f \in Filter, NEW i \in DOMAIN f, NEW d \in Document, NEW nor \in BOOLEAN,
         SoundEntry(Sound, f[i], nor),
         \A j \in DOMAIN f[i].docs, b \in BOOLEAN : Sound[f[i].docs[j]][b] =>
           SaysIn(ClauseTruth[f[i].docs[j]][d][b], Matches[f[i].docs[j]][d], b)
  PROVE  SaysIn(EntryTruth(ClauseTruth, f[i], d, nor), EntryMatches(Matches, f[i], d), nor)
<1> DEFINE e == f[i]
           inner == nor \/ e.t = "nor"
           ts == {ClauseTruth[e.docs[j]][d][inner] : j \in DOMAIN e.docs}
<1>1. \A j \in DOMAIN e.docs :
        SaysIn(ClauseTruth[e.docs[j]][d][inner], Matches[e.docs[j]][d], inner)
  BY DEF SoundEntry
<1>2. e.k \in Field /\ e.ops \in Expression
  BY FilterParts
<1> SUFFICES SaysIn(EntryTruth(ClauseTruth, e, d, nor), EntryMatches(Matches, e, d), nor)
  OBVIOUS
<1>3. SoundOperators(e.ops, nor)
  BY DEF SoundEntry
<1> HIDE DEF e
<1>4. ts \in SUBSET Truths /\ (inner => ts \subseteq {"true", "false"})
  BY <1>1 DEF SaysIn, Truths
<1>5. CASE e.t = "and"
  <2>1. EntryTruth(ClauseTruth, e, d, nor) = Conj(ts)
    BY <1>5 DEF EntryTruth
  <2>2. EntryMatches(Matches, e, d) <=> \A j \in DOMAIN e.docs : Matches[e.docs[j]][d]
    BY <1>5 DEF EntryMatches
  <2>3. ts \subseteq {"true"} <=> \A j \in DOMAIN e.docs : Matches[e.docs[j]][d]
    BY <1>1 DEF SaysIn
  <2> HIDE DEF ts
  <2> QED
    BY <1>4, <2>1, <2>2, <2>3, ConjTrue, LogicTypes DEF SaysIn
<1>6. CASE e.t = "or"
  <2>1. EntryTruth(ClauseTruth, e, d, nor) = Disj(ts)
    BY <1>6 DEF EntryTruth
  <2>2. EntryMatches(Matches, e, d) <=> \E j \in DOMAIN e.docs : Matches[e.docs[j]][d]
    BY <1>6 DEF EntryMatches
  <2>3. "true" \in ts <=> \E j \in DOMAIN e.docs : Matches[e.docs[j]][d]
    BY <1>1 DEF SaysIn
  <2> HIDE DEF ts
  <2> QED
    BY <1>4, <2>1, <2>2, <2>3, DisjTrue, LogicTypes DEF SaysIn
<1>7. CASE e.t = "nor"
  <2> DEFINE nots == {Not(t) : t \in ts}
  <2>1. EntryTruth(ClauseTruth, e, d, nor) = Conj(nots)
    BY <1>7 DEF EntryTruth
  <2>2. EntryMatches(Matches, e, d) <=> \A j \in DOMAIN e.docs : ~Matches[e.docs[j]][d]
    BY <1>7 DEF EntryMatches
  <2>3. "true" \notin ts <=> \A j \in DOMAIN e.docs : ~Matches[e.docs[j]][d]
    BY <1>1 DEF SaysIn
  <2>4. ts \subseteq {"true", "false"}
    BY <1>4, <1>7
  <2> HIDE DEF ts
  <2>5. nots \subseteq {"true", "false"} /\ (nots \subseteq {"true"} <=> "true" \notin ts)
    BY <2>4 DEF Not
  <2> HIDE DEF nots
  <2> QED
    BY <2>1, <2>2, <2>3, <2>5, ConjTrue, LogicTypes DEF SaysIn, Truths
<1>8. CASE e.t \notin Logics
  <2>1. SaysOf(Value(FieldText[e.ops][d[e.k]][nor]), Satisfies[e.ops][d[e.k]], d[e.k], nor)
    BY <1>2, <1>3, DocumentFields, FieldMeans
  <2>2. EntryTruth(ClauseTruth, e, d, nor) = Value(FieldText[e.ops][d[e.k]][nor])
    BY <1>8 DEF EntryTruth, Logics
  <2>3. EntryMatches(Matches, e, d) <=> Satisfies[e.ops][d[e.k]]
    BY <1>8 DEF EntryMatches, Logics
  <2> QED
    BY <2>1, <2>2, <2>3 DEF SaysIn, SaysOf
<1> QED
  BY <1>5, <1>6, <1>7, <1>8 DEF Logics

\* The clause of a filter says that the filter matches.
LEMMA FilterMeans ==
  ASSUME NEW d \in Document
  PROVE  \A f \in Filter, nor \in BOOLEAN : Sound[f][nor] =>
           SaysIn(ClauseTruth[f][d][nor], Matches[f][d], nor)
<1> DEFINE Good == {f \in Filter : \A nor \in BOOLEAN : Sound[f][nor] =>
                      SaysIn(ClauseTruth[f][d][nor], Matches[f][d], nor)}
<1>1. Depth \in [Filter -> Nat] /\ Good \in SUBSET Filter
  BY FilterAssumption
<1>2. ASSUME NEW f \in Filter, \A y \in Filter : Depth[y] < Depth[f] => y \in Good,
             NEW nor \in BOOLEAN, Sound[f][nor]
      PROVE  SaysIn(ClauseTruth[f][d][nor], Matches[f][d], nor)
  <2> DEFINE ts == {EntryTruth(ClauseTruth, f[i], d, nor) : i \in DOMAIN f}
  <2>1. ASSUME NEW i \in DOMAIN f
        PROVE  SaysIn(EntryTruth(ClauseTruth, f[i], d, nor), EntryMatches(Matches, f[i], d), nor)
    <3>1. SoundEntry(Sound, f[i], nor)
      BY <1>2, SoundDef
    <3>2. \A j \in DOMAIN f[i].docs : f[i].docs[j] \in Good
      BY <1>2, FilterParts
    <3>3. \A j \in DOMAIN f[i].docs, b \in BOOLEAN : Sound[f[i].docs[j]][b] =>
            SaysIn(ClauseTruth[f[i].docs[j]][d][b], Matches[f[i].docs[j]][d], b)
      BY <3>2
    <3> QED
      BY <3>1, <3>3, EntryMeans
  <2>2. ts \in SUBSET Truths /\ (nor => ts \subseteq {"true", "false"})
    BY <2>1 DEF SaysIn, Truths
  <2>3. ts \subseteq {"true"} <=> Matches[f][d]
    BY <2>1, MatchesDef DEF SaysIn
  <2>4. ClauseTruth[f][d][nor] = Conj(ts)
    BY ClauseTruthDef DEF FilterTruth
  <2> HIDE DEF ts
  <2> QED
    BY <2>2, <2>3, <2>4, ConjTrue, LogicTypes DEF SaysIn
<1>3. \A f \in Filter : f \in Good
  <2>1. ASSUME NEW f \in Filter, \A y \in Filter : Depth[y] < Depth[f] => y \in Good
        PROVE  f \in Good
    BY <1>2, <2>1
  <2> HIDE DEF Good
  <2> QED
    BY <1>1, <2>1, RankInduction
<1> QED
  BY <1>3

-----------------------------------------------------------------------------
(* Updates. *)

LEMMA UpdateParts ==
  ASSUME NEW u \in Updates
  PROVE  /\ \A i \in DOMAIN u.set : u.set[i].k \in Field /\ u.set[i].n \in FieldValue
         /\ \A i \in DOMAIN u.unset : u.unset[i].k \in Field
<1>1. /\ u.set \in Seq([k : Field, n : FieldValue])
      /\ u.unset \in Seq([k : Field, n : FieldValue])
  BY UpdatesAssumption
<1>2. \A x \in [k : Field, n : FieldValue] : x.k \in Field /\ x.n \in FieldValue
  OBVIOUS
<1> DEFINE Pair == [k : Field, n : FieldValue]
<1>3. /\ u.set \in Seq(Pair) /\ u.unset \in Seq(Pair)
      /\ \A x \in Pair : x.k \in Field /\ x.n \in FieldValue
  BY <1>1, <1>2
<1> HIDE DEF Pair
<1>4. \A i \in DOMAIN u.set : u.set[i] \in Pair
  <2>1. ASSUME NEW s \in Seq(Pair) PROVE \A i \in DOMAIN s : s[i] \in Pair
    OBVIOUS
  <2> QED
    BY <1>3, <2>1
<1>5. \A i \in DOMAIN u.unset : u.unset[i] \in Pair
  <2>1. ASSUME NEW s \in Seq(Pair) PROVE \A i \in DOMAIN s : s[i] \in Pair
    OBVIOUS
  <2> QED
    BY <1>3, <2>1
<1> QED
  BY <1>3, <1>4, <1>5

\* What $set and $unset make of the fields.
LEMMA ApplyFields ==
  ASSUME NEW u \in Updates, NEW d \in Document
  PROVE  /\ \A i \in DOMAIN u.set : Apply(u, d)[u.set[i].k] = {u.set[i].n}
         /\ \A i \in DOMAIN u.unset : Apply(u, d)[u.unset[i].k] = {}
         /\ \A k \in Field : (\A i \in DOMAIN u.set : u.set[i].k # k)
              => ((\A i \in DOMAIN u.unset : u.unset[i].k # k) => Apply(u, d)[k] = d[k])
         /\ DOMAIN Apply(u, d) = Field /\ DOMAIN d = Field /\ d = [k \in Field |-> d[k]]
         /\ Apply(u, d) = [k \in Field |-> Apply(u, d)[k]]
<1>1. DOMAIN d = Field /\ d = [k \in Field |-> d[k]]
  BY DocumentAssumption
<1>2. ASSUME NEW i \in DOMAIN u.set PROVE Apply(u, d)[u.set[i].k] = {u.set[i].n}
  <2> DEFINE k == u.set[i].k
             c == CHOOSE j \in DOMAIN u.set : u.set[j].k = k
  <2>1. k \in DOMAIN d
    BY <1>1, UpdateParts
  <2>2. c \in DOMAIN u.set /\ u.set[c].k = k
    OBVIOUS
  <2>3. c = i
    BY <2>2, UpdatesAssumption
  <2>4. Apply(u, d)[k] = {u.set[c].n}
    BY <2>1 DEF Apply
  <2> QED
    BY <2>3, <2>4
<1>3. ASSUME NEW i \in DOMAIN u.unset PROVE Apply(u, d)[u.unset[i].k] = {}
  <2>1. u.unset[i].k \in DOMAIN d
    BY <1>1, UpdateParts
  <2>2. \A j \in DOMAIN u.set : u.set[j].k # u.unset[i].k
    BY UpdatesAssumption
  <2> QED
    BY <2>1, <2>2 DEF Apply
<1>4. ASSUME NEW k \in Field, \A i \in DOMAIN u.set : u.set[i].k # k,
             \A i \in DOMAIN u.unset : u.unset[i].k # k
      PROVE  Apply(u, d)[k] = d[k]
  BY <1>1, <1>4 DEF Apply
<1>5. DOMAIN Apply(u, d) = Field /\ Apply(u, d) = [k \in Field |-> Apply(u, d)[k]]
  BY <1>1 DEF Apply
<1> QED
  BY <1>1, <1>2, <1>3, <1>4, <1>5

\* An update changes a document if it changes a field.
LEMMA ApplyChanges ==
  ASSUME NEW u \in Updates, NEW d \in Document
  PROVE  Apply(u, d) # d <=> \/ \E i \in DOMAIN u.set : d[u.set[i].k] # {u.set[i].n}
                             \/ \E i \in DOMAIN u.unset : d[u.unset[i].k] # {}
<1>1. ASSUME \/ \E i \in DOMAIN u.set : d[u.set[i].k] # {u.set[i].n}
             \/ \E i \in DOMAIN u.unset : d[u.unset[i].k] # {}
      PROVE  Apply(u, d) # d
  <2> DEFINE a == Apply(u, d)
  <2>1. /\ \A i \in DOMAIN u.set : a[u.set[i].k] = {u.set[i].n}
        /\ \A i \in DOMAIN u.unset : a[u.unset[i].k] = {}
    BY ApplyFields
  <2> HIDE DEF a
  <2>2. a # d
    BY <1>1, <2>1
  <2> QED
    BY <2>2 DEF a
<1>2. ASSUME \A i \in DOMAIN u.set : d[u.set[i].k] = {u.set[i].n},
             \A i \in DOMAIN u.unset : d[u.unset[i].k] = {}
      PROVE  Apply(u, d) = d
  <2>1. ASSUME NEW k \in Field PROVE Apply(u, d)[k] = d[k]
    <3>1. ASSUME NEW i \in DOMAIN u.set, u.set[i].k = k
          PROVE  Apply(u, d)[k] = d[k]
      <4> DEFINE a == Apply(u, d)
                 l == u.set[i].k
      <4>1. a[l] = {u.set[i].n}
        BY ApplyFields
      <4>2. d[l] = {u.set[i].n}
        BY <1>2
      <4>3. l = k
        BY <3>1
      <4> HIDE DEF a, l
      <4>4. a[k] = d[k]
        BY <4>1, <4>2, <4>3
      <4> QED
        BY <4>4 DEF a
    <3>2. ASSUME NEW i \in DOMAIN u.unset, u.unset[i].k = k
          PROVE  Apply(u, d)[k] = d[k]
      <4> DEFINE a == Apply(u, d)
                 l == u.unset[i].k
      <4>1. a[l] = {} /\ d[l] = {}
        BY <1>2, ApplyFields
      <4>2. l = k
        BY <3>2
      <4> HIDE DEF a, l
      <4>3. a[k] = d[k]
        BY <4>1, <4>2
      <4> QED
        BY <4>3 DEF a
    <3> QED
      BY <3>1, <3>2, ApplyFields
  <2> DEFINE a == Apply(u, d)
  <2>2. a = [k \in Field |-> a[k]] /\ d = [k \in Field |-> d[k]]
    BY ApplyFields
  <2>3. \A k \in Field : a[k] = d[k]
    BY <2>1
  <2> HIDE DEF a
  <2>4. a = d
    BY <2>2, <2>3
  <2> QED
    BY <2>4 DEF a
<1> QED
  BY <1>1, <1>2

\* The condition on one field to set: unknown if the field is not set.
LEMMA UpToDateMeans ==
  ASSUME NEW u \in Updates, NEW d \in Document
  PROVE  /\ UpToDate(u, d) \in Truths
         /\ (\A i \in DOMAIN u.set : d[u.set[i].k] # {}) =>
              (UpToDate(u, d) = "false" <=> \E i \in DOMAIN u.set : d[u.set[i].k] # {u.set[i].n})
         /\ UpToDate(u, d) = "false" => \E i \in DOMAIN u.set : d[u.set[i].k] # {u.set[i].n}
<1> DEFINE o(i) == [op |-> "eq", n |-> u.set[i].n, ops |-> <<>>]
           t(i) == Value(Extend(FieldText, <<>>, o(i), d[u.set[i].k], FALSE))
           ts == {t(i) : i \in DOMAIN u.set}
<1>1. UpToDate(u, d) = Conj(ts)
  BY DEF UpToDate
<1>2. ASSUME NEW i \in DOMAIN u.set
      PROVE  SaysOf(t(i), d[u.set[i].k] = {u.set[i].n}, d[u.set[i].k], FALSE)
  <2> DEFINE S == d[u.set[i].k]
             op == o(i)
  <2>1. S \in Fields
    BY DocumentFields, UpdateParts
  <2>2. op.op = "eq" /\ op.n = u.set[i].n
    OBVIOUS
  <2>3. <<>> \in Seq(Truths) /\ SaysOf(Value(<<>>), TRUE, S, FALSE)
    BY NoText DEF SaysOf, Truths
  <2> HIDE DEF op, S
  <2>4. SaysOf(Value(Extend(FieldText, <<>>, op, S, FALSE)),
               TRUE /\ Holds(Satisfies, op, S), S, FALSE)
    BY <2>1, <2>2, <2>3, ExtendMeans
  <2>5. Holds(Satisfies, op, S) <=> S = {u.set[i].n}
    BY <2>2 DEF Holds
  <2>6. SaysOf(Value(Extend(FieldText, <<>>, op, S, FALSE)), S = {u.set[i].n}, S, FALSE)
    BY <2>4, <2>5 DEF SaysOf
  <2> QED
    BY <2>6 DEF op, S
<1> HIDE DEF t
<1>3. Conj(ts) = "false" <=> \E i \in DOMAIN u.set : t(i) = "false"
  BY DEF Conj
<1>4. \A i \in DOMAIN u.set :
        /\ d[u.set[i].k] # {} => (t(i) = "false" <=> d[u.set[i].k] # {u.set[i].n})
        /\ t(i) = "false" => d[u.set[i].k] # {u.set[i].n}
  BY <1>2 DEF SaysOf, Truths
<1> QED
  BY <1>1, <1>3, <1>4, LogicTypes

\* The condition that is appended selects what the update changes.
LEMMA NeedsUpdateMeans ==
  ASSUME NEW u \in Updates, NEW d \in Document, ~Replaces(u)
  PROVE  NeedsUpdate(u, d) \in Truths /\ (NeedsUpdate(u, d) = "true" <=> Apply(u, d) # d)
<1> DEFINE stale == Not(UpToDate(u, d))
           sets == \E i \in DOMAIN u.set : d[u.set[i].k] # {u.set[i].n}
           unsets == \E i \in DOMAIN u.unset : d[u.unset[i].k] # {}
<1>1. /\ SomeUnset(u, d) \in Truths
      /\ SomeUnset(u, d) = "true" <=> \E i \in DOMAIN u.set : d[u.set[i].k] = {}
  <2> DEFINE T == {IsUnset(d[u.set[i].k]) : i \in DOMAIN u.set}
  <2>1. T \in SUBSET Truths /\ ("true" \in T <=> \E i \in DOMAIN u.set : d[u.set[i].k] = {})
    BY DEF IsUnset, Truth, Truths
  <2>2. SomeUnset(u, d) = Disj(T)
    BY DEF SomeUnset
  <2> HIDE DEF T
  <2> QED
    BY <2>1, <2>2, DisjTrue, LogicTypes
<1>2. SomeSet(u, d) \in Truths /\ (SomeSet(u, d) = "true" <=> unsets)
  <2> DEFINE T == {IsSet(d[u.unset[i].k]) : i \in DOMAIN u.unset}
  <2>1. T \in SUBSET Truths /\ ("true" \in T <=> \E i \in DOMAIN u.unset : d[u.unset[i].k] # {})
    BY DEF IsSet, Truth, Truths
  <2>2. SomeSet(u, d) = Disj(T)
    BY DEF SomeSet
  <2> HIDE DEF T
  <2> QED
    BY <2>1, <2>2, DisjTrue, LogicTypes
<1>3. stale \in Truths /\ (stale = "true" \/ SomeUnset(u, d) = "true" <=> sets)
  <2>1. stale \in Truths /\ (stale = "true" <=> UpToDate(u, d) = "false")
    BY UpToDateMeans, NotTrue
  <2>2. (\E i \in DOMAIN u.set : d[u.set[i].k] = {}) => sets
    OBVIOUS
  <2> QED
    BY <1>1, <2>1, <2>2, UpToDateMeans
<1>4. Apply(u, d) # d <=> sets \/ unsets
  BY ApplyChanges
<1>5. u.set = <<>> => ~sets
  OBVIOUS
<1>6. u.unset = <<>> => ~unsets
  OBVIOUS
<1> HIDE DEF sets, unsets, stale
<1>7. CASE u.set = <<>>
  BY <1>2, <1>4, <1>5, <1>7 DEF NeedsUpdate
<1>8. CASE u.set # <<>> /\ u.unset = <<>>
  <2>1. NeedsUpdate(u, d) = Disj({stale, SomeUnset(u, d)})
    BY <1>8 DEF NeedsUpdate, stale
  <2>2. {stale, SomeUnset(u, d)} \in SUBSET Truths
    BY <1>1, <1>3
  <2> QED
    BY <1>3, <1>4, <1>6, <1>8, <2>1, <2>2, DisjTrue, LogicTypes
<1>9. CASE u.set # <<>> /\ u.unset # <<>>
  <2>1. NeedsUpdate(u, d) = Disj({stale, SomeUnset(u, d), SomeSet(u, d)})
    BY <1>9 DEF NeedsUpdate, stale
  <2>2. {stale, SomeUnset(u, d), SomeSet(u, d)} \in SUBSET Truths
    BY <1>1, <1>2, <1>3
  <2> QED
    BY <1>2, <1>3, <1>4, <2>1, <2>2, DisjTrue, LogicTypes
<1> QED
  BY <1>7, <1>8, <1>9

-----------------------------------------------------------------------------

\* What a connection translates is a filter.
LEMMA TranslatedFilter ==
  ASSUME FlagInv, NEW c \in Conns
  PROVE  filter[c] \in Filter
<1>1. AnyFilter \subseteq Filter
  BY FiltersAssumption, FilterAssumption DEF AnyFilter
<1> QED
  BY <1>1 DEF FlagInv, TypeOK

\* Both conditions of an UPDATE are true if and only if the update touches the document.
LEMMA UpdateTruthMeans ==
  ASSUME NEW f \in Filter, Sound[f][FALSE], NEW u \in Updates, ~Replaces(u), NEW d \in Document
  PROVE  UpdateTruth(f, u, d) = "true" <=> Matches[f][d] /\ Apply(u, d) # d
<1>1. SaysIn(ClauseTruth[f][d][FALSE], Matches[f][d], FALSE)
  BY FilterMeans
<1>2. NeedsUpdate(u, d) \in Truths /\ (NeedsUpdate(u, d) = "true" <=> Apply(u, d) # d)
  BY NeedsUpdateMeans
<1>3. UpdateTruth(f, u, d) = "true" <=>
        ClauseTruth[f][d][FALSE] = "true" /\ NeedsUpdate(u, d) = "true"
  <2> DEFINE T == {ClauseTruth[f][d][FALSE], NeedsUpdate(u, d)}
  <2>1. UpdateTruth(f, u, d) = Conj(T)
    BY DEF UpdateTruth
  <2>2. T \in SUBSET Truths
    BY <1>1, <1>2 DEF SaysIn
  <2>3. T \subseteq {"true"} <=>
          ClauseTruth[f][d][FALSE] = "true" /\ NeedsUpdate(u, d) = "true"
    OBVIOUS
  <2> HIDE DEF T
  <2> QED
    BY <2>1, <2>2, <2>3, ConjTrue
<1> QED
  BY <1>1, <1>2, <1>3 DEF SaysIn

\* A statement selects exactly the documents that its filter matches, for any filter,
\* however nested, that uses the operators as Sound says, and any document
\* (CreateWhereClause, logicExpression, fieldExpression, filterArray), as long as the
\* package variables isNor and norCounter have not been disturbed.
THEOREM ClauseMeansFilterHolds == Spec => []ClauseMeansFilter
<1>1. FlagInv => ClauseMeansFilter
  BY TranslatedFilter, FilterMeans DEF ClauseMeansFilter, HasClause, SaysIn
<1> QED
  BY <1>1, InitInv, NextInv, StutterInv, PTL DEF Spec

\* An UPDATE statement touches exactly the documents that its filter matches and that it
\* changes, so that the number of rows is nModified: for any such filter, any document,
\* and any $set and $unset of different fields (update and createSetandUnsetSqlStmnt).
THEOREM UpdateTouchesChangedHolds == Spec => []UpdateTouchesChanged
<1>1. FlagInv => UpdateTouchesChanged
  BY TranslatedFilter, UpdateTruthMeans DEF UpdateTouchesChanged, HasClause
<1> QED
  BY <1>1, InitInv, NextInv, StutterInv, PTL DEF Spec

=============================================================================
