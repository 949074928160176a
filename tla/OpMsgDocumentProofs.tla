------------------------ MODULE OpMsgDocumentProofs ------------------------
(***************************************************************************)
(* The command of an OP_MSG has all parts of the message, for any sections *)
(* that OpMsg.Document accepts.                                            *)
(***************************************************************************)
EXTENDS OpMsgDocument, RecursionProofs, SequenceTheorems

\* Sections whose documents have fields in F.
Section(F) ==
  [kind : {0, 1}, id : Seq(Nat), docs : Seq([t : {"document"}, b : {<<>>}, sub : Seq(F)])]

\* F with the fields that sequences of documents become.
WithSequences(F, sections) ==
  F \cup {[k |-> sections[i].id, v |-> ArrayOf(sections[i].docs)] : i \in DOMAIN sections}

LEMMA SectionParts ==
  ASSUME NEW F, NEW sections \in Seq(Section(F)), NEW n \in 1..Len(sections)
  PROVE  /\ sections[n].kind \in {0, 1}
         /\ \A i \in DOMAIN sections[n].docs : sections[n].docs[i].sub \in Seq(F)
         /\ sections[n].docs[1].sub \in Seq(F) \/ Len(sections[n].docs) # 1
         /\ n \in DOMAIN sections
<1> DEFINE D == [t : {"document"}, b : {<<>>}, sub : Seq(F)]
           s == sections[n]
<1>1. s \in Section(F) /\ n \in DOMAIN sections
  <2> HIDE DEF D
  <2> QED
    BY ElementOfSeq
<1>2. s.kind \in {0, 1} /\ s.docs \in Seq(D)
  BY <1>1 DEF Section
<1>3. \A d \in D : d.sub \in Seq(F)
  OBVIOUS
<1> HIDE DEF D, s
<1>4. \A i \in DOMAIN s.docs : s.docs[i] \in D
  BY <1>2
<1>5. Len(s.docs) = 1 => 1 \in DOMAIN s.docs
  BY <1>2
<1> QED
  BY <1>1, <1>2, <1>3, <1>4, <1>5 DEF s

-----------------------------------------------------------------------------
(* The two recursive functions. *)

\* What a round of OpMsg.Document can leave.
Merged(S) == {Bad} \cup {Got(v, <<>>) : v \in Seq(S)}

LEMMA MergeType ==
  ASSUME NEW F, NEW sections \in Seq(Section(F)), NEW n \in 1..Len(sections),
         NEW r \in Merged(WithSequences(F, sections))
  PROVE  Merge(r, sections[n]) \in Merged(WithSequences(F, sections))
<1> DEFINE S == WithSequences(F, sections)
           s == sections[n]
           f == [k |-> s.id, v |-> ArrayOf(s.docs)]
<1>1. F \subseteq S /\ f \in S
  BY SectionParts DEF WithSequences
<1>2. Len(s.docs) = 1 => s.docs[1].sub \in Seq(S)
  BY <1>1, SectionParts, SeqMonotonic
<1>3. r = Bad \/ \E v \in Seq(S) : r = Got(v, <<>>)
  BY DEF Merged
<1> SUFFICES Merge(r, s) \in Merged(S)
  OBVIOUS
<1> HIDE DEF S, s
<1>4. CASE r = Bad
  BY <1>4 DEF Merge, Merged, Bad
<1>5. ASSUME NEW v \in Seq(S), r = Got(v, <<>>)
      PROVE  Merge(r, s) \in Merged(S)
  <2>1. r.ok /\ r.v = v
    BY <1>5 DEF Got
  <2>2. Append(v, f) \in Seq(S)
    <3> HIDE DEF f
    <3> QED
      BY <1>1
  <2>3. Merge(r, s) \in {Bad, r, Got(s.docs[1].sub, <<>>), Got(Append(v, f), <<>>)}
    BY <2>1 DEF Merge
  <2>4. Merge(r, s) = Got(s.docs[1].sub, <<>>) => Merge(r, s) \in Merged(S)
    <3>1. CASE s.kind = 0 /\ Len(s.docs) = 1 /\ v = <<>>
      BY <1>2, <2>1, <3>1 DEF Merge, Merged
    <3>2. CASE ~(s.kind = 0 /\ Len(s.docs) = 1 /\ v = <<>>)
      BY <2>1, <2>2, <3>2, <1>5 DEF Merge, Merged
    <3> QED
      BY <3>1, <3>2
  <2> QED
    BY <1>5, <2>2, <2>3, <2>4 DEF Merged
<1> QED
  BY <1>3, <1>4, <1>5

\* The document after n sections.
MergedAfter(sections) ==
  CHOOSE g : g = [n \in 0..Len(sections) |->
                    IF n = 0 THEN Got(<<>>, <<>>) ELSE Merge(g[n - 1], sections[n])]

LEMMA MergedAfterDef ==
  ASSUME NEW F, NEW sections \in Seq(Section(F))
  PROVE  /\ CommandDocument(sections) = MergedAfter(sections)[Len(sections)]
         /\ MergedAfter(sections)[0] = Got(<<>>, <<>>)
         /\ \A n \in 1..Len(sections) :
              MergedAfter(sections)[n] = Merge(MergedAfter(sections)[n - 1], sections[n])
         /\ \A n \in 0..Len(sections) :
              MergedAfter(sections)[n] \in Merged(WithSequences(F, sections))
<1> DEFINE D == 0..Len(sections)
           R == Merged(WithSequences(F, sections))
           Body(g) == [n \in D |->
                         IF n = 0 THEN Got(<<>>, <<>>) ELSE Merge(g[n - 1], sections[n])]
           step == [g \in [D -> R] |-> Body(g)]
           rank == [n \in D |-> n]
<1>0. Len(sections) \in Nat
  OBVIOUS
<1>1. Got(<<>>, <<>>) \in R
  <2>1. <<>> \in Seq(WithSequences(F, sections))
    OBVIOUS
  <2> QED
    BY <2>1, Zenon DEF Merged
<1>2. \A g \in [D -> R] : Body(g) \in [D -> R]
  <2> SUFFICES ASSUME NEW g \in [D -> R], NEW n \in D, n # 0
               PROVE  Merge(g[n - 1], sections[n]) \in R
    BY <1>1
  <2>1. n \in 1..Len(sections) /\ n - 1 \in D
    BY <1>0
  <2>2. g[n - 1] \in R
    BY <2>1
  <2> QED
    BY <2>1, <2>2, MergeType
<1>3. ASSUME NEW g \in [D -> R], NEW h \in [D -> R], NEW x \in D,
             \A y \in D : rank[y] < rank[x] => g[y] = h[y]
      PROVE  step[g][x] = step[h][x]
  <2>1. x # 0 => g[x - 1] = h[x - 1]
    BY <1>0, <1>3
  <2> QED
    BY <2>1
<1>4. [D -> R] # {}
  <2>1. [n \in D |-> Got(<<>>, <<>>)] \in [D -> R]
    BY <1>1
  <2> QED
    BY <2>1
<1>5. step \in [[D -> R] -> [D -> R]] /\ rank \in [D -> Nat]
  BY <1>0, <1>2
<1> HIDE DEF R
<1>6. PICK w \in [D -> R] : step[w] = w
  <2> HIDE DEF step, rank, D
  <2>1. Recursion(D, R, rank, step)
    BY <1>3, <1>4, <1>5 DEF Recursion
  <2> QED
    BY <2>1, RecursiveFunctionExists
<1>7. w = Body(w)
  BY <1>6
<1> DEFINE m == MergedAfter(sections)
<1>8. m = CHOOSE g : g = Body(g)
  BY DEF MergedAfter
<1> HIDE DEF Body, m
<1>9. m = Body(m)
  BY <1>7, <1>8
<1>10. \A n \in D : m[n] \in R
  <2>1. \A n \in Nat : n \in D => m[n] \in R
    <3> DEFINE Good == {n \in Nat : n \in D => m[n] \in R}
    <3>1. 0 \in Good
      BY <1>0, <1>1, <1>9 DEF Body
    <3>2. ASSUME NEW n \in Nat, n \in Good PROVE n + 1 \in Good
      <4> SUFFICES ASSUME n + 1 \in D PROVE m[n + 1] \in R
        OBVIOUS
      <4>1. n \in D /\ n + 1 \in 1..Len(sections) /\ (n + 1) - 1 = n /\ n + 1 # 0
        BY <1>0
      <4>2. m[n + 1] = Merge(m[n], sections[n + 1])
        BY <1>9, <4>1 DEF Body
      <4>3. m[n] \in R
        BY <3>2, <4>1
      <4> QED
        BY <4>1, <4>2, <4>3, MergeType DEF R
    <3>3. Good \in SUBSET Nat
      OBVIOUS
    <3> HIDE DEF Good
    <3>4. Good = Nat
      BY <3>1, <3>2, <3>3, SetInduction
    <3> QED
      BY <3>4 DEF Good
  <2> QED
    BY <2>1, <1>0
<1>11. CommandDocument(sections) = m[Len(sections)]
  BY DEF CommandDocument, m, MergedAfter
<1>12. m[0] = Got(<<>>, <<>>)
  BY <1>0, <1>9 DEF Body
<1>13. \A n \in 1..Len(sections) : m[n] = Merge(m[n - 1], sections[n])
  BY <1>0, <1>9 DEF Body
<1> QED
  BY <1>10, <1>11, <1>12, <1>13 DEF m, R

\* What the first n sections add.
Joined(parts) ==
  CHOOSE g : g = [i \in 1..Len(parts) |-> IF i = 1 THEN parts[i] ELSE g[i - 1] \o parts[i]]

LEMMA JoinedDef ==
  ASSUME NEW S, NEW parts \in Seq(Seq(S)), parts # <<>>
  PROVE  /\ FlattenSeq(parts) = Joined(parts)[Len(parts)]
         /\ Joined(parts)[1] = parts[1]
         /\ \A n \in 2..Len(parts) : Joined(parts)[n] = Joined(parts)[n - 1] \o parts[n]
<1> DEFINE D == 1..Len(parts)
           R == Seq(S)
           Body(g) == [i \in D |-> IF i = 1 THEN parts[i] ELSE g[i - 1] \o parts[i]]
           step == [g \in [D -> R] |-> Body(g)]
           rank == [n \in D |-> n]
<1>0. Len(parts) \in Nat /\ Len(parts) >= 1 /\ \A i \in D : parts[i] \in R
  <2>1. Len(parts) \in Nat \ {0}
    BY EmptySeq
  <2>2. \A i \in 1..Len(parts) : parts[i] \in Seq(S)
    BY ElementOfSeq
  <2> QED
    BY <2>1, <2>2
<1>1. \A g \in [D -> R] : Body(g) \in [D -> R]
  <2> SUFFICES ASSUME NEW g \in [D -> R], NEW n \in D, n # 1
               PROVE  g[n - 1] \o parts[n] \in R
    BY <1>0
  <2>1. n - 1 \in D
    BY <1>0
  <2>2. g[n - 1] \in R /\ parts[n] \in R
    BY <1>0, <2>1
  <2> QED
    BY <2>2, ConcatProperties
<1>2. ASSUME NEW g \in [D -> R], NEW h \in [D -> R], NEW x \in D,
             \A y \in D : rank[y] < rank[x] => g[y] = h[y]
      PROVE  step[g][x] = step[h][x]
  <2>1. x # 1 => g[x - 1] = h[x - 1]
    BY <1>0, <1>2
  <2> QED
    BY <2>1
<1>3. parts \in [D -> R]
  BY <1>0
<1>4. step \in [[D -> R] -> [D -> R]] /\ rank \in [D -> Nat]
  BY <1>0, <1>1
<1> HIDE DEF R
<1>5. PICK w \in [D -> R] : step[w] = w
  <2> HIDE DEF step, rank, D
  <2>1. Recursion(D, R, rank, step)
    BY <1>2, <1>3, <1>4 DEF Recursion
  <2> QED
    BY <2>1, RecursiveFunctionExists
<1>6. w = Body(w)
  BY <1>5
<1> DEFINE f == Joined(parts)
<1>7. f = CHOOSE g : g = Body(g)
  BY DEF Joined
<1> HIDE DEF Body, f
<1>8. f = Body(f)
  BY <1>6, <1>7
<1>9. FlattenSeq(parts) = f[Len(parts)]
  BY <1>0 DEF FlattenSeq, f, Joined
<1>10. f[1] = parts[1]
  BY <1>0, <1>8 DEF Body
<1>11. ASSUME NEW n \in 2..Len(parts) PROVE f[n] = f[n - 1] \o parts[n]
  <2>1. n \in D /\ n # 1
    BY <1>0
  <2>2. f[n] = IF n = 1 THEN parts[n] ELSE f[n - 1] \o parts[n]
    BY <1>8, <2>1 DEF Body
  <2> QED
    BY <2>1, <2>2
<1> QED
  BY <1>9, <1>10, <1>11 DEF f

-----------------------------------------------------------------------------
(* The command. *)

LEMMA AppendDistinct ==
  ASSUME NEW S, NEW fields \in Seq(S), NEW f \in S, DistinctKeys(fields), ~HasKey(fields, f.k)
  PROVE  DistinctKeys(Append(fields, f))
<1> DEFINE more == Append(fields, f)
           n == Len(fields)
<1>1. /\ n \in Nat /\ DOMAIN more = 1..n + 1 /\ DOMAIN fields = 1..n
      /\ \A i \in 1..n : more[i] = fields[i]
      /\ more[n + 1] = f
  OBVIOUS
<1> SUFFICES ASSUME NEW i \in DOMAIN more, NEW j \in DOMAIN more, more[i].k = more[j].k
             PROVE  i = j
  BY DEF DistinctKeys
<1> HIDE DEF more
<1>2. CASE i = n + 1 /\ j # n + 1
  BY <1>1, <1>2 DEF HasKey
<1>3. CASE i # n + 1 /\ j = n + 1
  BY <1>1, <1>3 DEF HasKey
<1>4. CASE i # n + 1 /\ j # n + 1
  BY <1>1, <1>4 DEF DistinctKeys
<1> QED
  BY <1>2, <1>3, <1>4

\* What is true of the document after n sections.
WholeSoFar(sections, n) ==
  LET fields == MergedAfter(sections)[n].v
  IN /\ fields # <<>> <=> \E i \in 1..n : IsCommand(sections[i])
     /\ \A i, j \in 1..n : IsCommand(sections[i]) /\ IsCommand(sections[j]) => i = j
     /\ \A j \in 1..n : sections[j].kind = 1 => \E i \in 1..j - 1 : IsCommand(sections[i])
     /\ fields = IF n = 0 THEN <<>>
                 ELSE Joined([i \in DOMAIN sections |-> Part(sections[i])])[n]
     /\ DistinctKeys(fields)

\* The parts are sequences.
LEMMA PartType ==
  ASSUME NEW F, NEW sections \in Seq(Section(F)), NEW i \in 1..Len(sections),
         sections[i].kind = 0 => Len(sections[i].docs) = 1
  PROVE  Part(sections[i]) \in Seq(WithSequences(F, sections))
<1> DEFINE S == WithSequences(F, sections)
           s == sections[i]
           f == [k |-> s.id, v |-> ArrayOf(s.docs)]
<1>1. F \subseteq S /\ f \in S
  BY SectionParts DEF WithSequences
<1>2. s.kind = 0 => s.docs[1].sub \in Seq(S)
  BY <1>1, SectionParts, SeqMonotonic
<1> SUFFICES Part(s) \in Seq(S)
  OBVIOUS
<1> HIDE DEF S, s
<1>3. <<f>> \in Seq(S) /\ <<>> \in Seq(S)
  <2> HIDE DEF f
  <2> QED
    BY <1>1
<1>4. CASE IsCommand(s)
  BY <1>2, <1>4 DEF Part, IsCommand
<1>5. CASE ~IsCommand(s)
  BY <1>3, <1>5 DEF Part
<1> QED
  BY <1>4, <1>5 DEF S, s

LEMMA OneMoreSection ==
  ASSUME NEW F, NEW sections \in Seq(Section(F)), NEW n \in Nat, n + 1 <= Len(sections),
         \A i \in 1..Len(sections) : sections[i].kind = 0 => Len(sections[i].docs) = 1,
         \A i \in 1..Len(sections) : \A d \in DOMAIN sections[i].docs :
           DistinctKeys(sections[i].docs[d].sub),
         WholeSoFar(sections, n), MergedAfter(sections)[n + 1].ok
  PROVE  WholeSoFar(sections, n + 1) /\ MergedAfter(sections)[n].ok
<1> DEFINE S == WithSequences(F, sections)
           m == MergedAfter(sections)
           s == sections[n + 1]
           f == [k |-> s.id, v |-> ArrayOf(s.docs)]
           parts == [i \in DOMAIN sections |-> Part(sections[i])]
           J == Joined(parts)
<1>1. n \in 0..Len(sections) /\ n + 1 \in 1..Len(sections) /\ (n + 1) - 1 = n
  OBVIOUS
<1>2. m[n + 1] = Merge(m[n], s) /\ m[n] \in Merged(S)
  BY <1>1, MergedAfterDef
<1>0. m[n + 1].ok
  OBVIOUS
<1>3. m[n].ok
  BY <1>2 DEF Merge, Bad
<1>4. PICK v \in Seq(S) : m[n] = Got(v, <<>>)
  BY <1>2, <1>3 DEF Merged, Bad
<1>5. m[n].v = v
  BY <1>4 DEF Got
<1>6. f \in S /\ s.kind \in {0, 1}
  BY <1>1, SectionParts DEF WithSequences
<1>7. s.kind = 0 => Len(s.docs) = 1 /\ s.docs[1].sub \in Seq(S) /\ DistinctKeys(s.docs[1].sub)
  <2> SUFFICES ASSUME s.kind = 0 PROVE s.docs[1].sub \in Seq(S) /\ DistinctKeys(s.docs[1].sub)
    BY <1>1
  <2>1. Len(s.docs) = 1 /\ s.docs[1].sub \in Seq(F)
    BY <1>1, SectionParts
  <2>2. 1 \in DOMAIN s.docs
    BY <1>1, <2>1, SectionParts DEF Section
  <2> QED
    BY <1>1, <2>1, <2>2, SeqMonotonic DEF WithSequences
<1>8. /\ Part(s) \in Seq(S)
      /\ J[1] = parts[1]
      /\ n + 1 \in 2..Len(sections) => J[n + 1] = J[n] \o Part(s)
      /\ parts[n + 1] = Part(s)
  <2>1. \A i \in 1..Len(sections) : Part(sections[i]) \in Seq(S)
    BY PartType
  <2>2. DOMAIN sections = 1..Len(sections) /\ Len(sections) \in Nat
    OBVIOUS
  <2>3. parts \in Seq(Seq(S)) /\ Len(parts) = Len(sections) /\ parts[n + 1] = Part(s)
    <3> HIDE DEF S
    <3> QED
      BY <1>1, <2>1, <2>2
  <2>4. parts # <<>>
    BY <1>1, <2>3
  <2>5. Part(s) \in Seq(S)
    BY <1>1, <2>1
  <2> HIDE DEF parts, S
  <2>6. J[1] = parts[1] /\ \A i \in 2..Len(parts) : J[i] = J[i - 1] \o parts[i]
    BY <2>3, <2>4, JoinedDef
  <2>7. n + 1 \in 2..Len(parts) => J[n + 1] = J[n] \o parts[n + 1]
    BY <1>1, <2>6
  <2> HIDE DEF J
  <2> QED
    BY <2>3, <2>5, <2>6, <2>7
<1> DEFINE v2 == m[n + 1].v
<1>9. /\ v # <<>> <=> \E i \in 1..n : IsCommand(sections[i])
      /\ \A i, j \in 1..n : IsCommand(sections[i]) /\ IsCommand(sections[j]) => i = j
      /\ \A j \in 1..n : sections[j].kind = 1 => \E i \in 1..j - 1 : IsCommand(sections[i])
      /\ v = IF n = 0 THEN <<>> ELSE J[n]
      /\ DistinctKeys(v)
  BY <1>5 DEF WholeSoFar
<1>10. v \o Part(s) = J[n + 1]
  <2>1. CASE n = 0
    <3>1. v = <<>> /\ J[n + 1] = Part(s)
      BY <1>8, <1>9, <2>1
    <3> QED
      BY <1>8, <3>1, ConcatEmptySeq
  <2>2. CASE n # 0
    <3>1. n + 1 \in 2..Len(sections)
      BY <1>1, <2>2
    <3>2. v = J[n]
      BY <1>9, <2>2
    <3> HIDE DEF J, s
    <3> QED
      BY <1>8, <3>1, <3>2
  <2> QED
    BY <2>1, <2>2
<1> SUFFICES
      /\ v2 # <<>> <=> \E i \in 1..n + 1 : IsCommand(sections[i])
      /\ \A i, j \in 1..n + 1 : IsCommand(sections[i]) /\ IsCommand(sections[j]) => i = j
      /\ \A j \in 1..n + 1 : sections[j].kind = 1 => \E i \in 1..j - 1 : IsCommand(sections[i])
      /\ v2 = v \o Part(s)
      /\ DistinctKeys(v2)
  BY <1>3, <1>10 DEF WholeSoFar
<1> HIDE DEF m, J, parts, S, s
<1>11. CASE s.kind = 0
  <2>1. v = <<>> /\ v2 = s.docs[1].sub
    BY <1>0, <1>2, <1>3, <1>5, <1>11 DEF Merge, Got, Bad
  <2>2. Part(s) = s.docs[1].sub /\ (IsCommand(s) <=> v2 # <<>>)
    BY <1>11, <2>1 DEF Part, IsCommand
  <2>3. v2 = v \o Part(s)
    BY <1>7, <1>11, <2>1, <2>2, ConcatEmptySeq
  <2>4. \A i \in 1..n : ~IsCommand(sections[i])
    BY <1>9, <2>1
  <2>5. v2 # <<>> <=> \E i \in 1..n + 1 : IsCommand(sections[i])
    BY <2>2, <2>4 DEF s
  <2>6. \A i, j \in 1..n + 1 : IsCommand(sections[i]) /\ IsCommand(sections[j]) => i = j
    BY <2>4
  <2>7. \A j \in 1..n + 1 : sections[j].kind = 1 => j \in 1..n
    BY <1>11 DEF s
  <2> QED
    BY <1>7, <1>9, <1>11, <2>1, <2>3, <2>5, <2>6, <2>7
<1>12. CASE s.kind = 1
  <2>1. v # <<>> /\ ~HasKey(v, s.id)
    BY <1>0, <1>2, <1>3, <1>5, <1>6, <1>12 DEF Merge, Got, Bad
  <2>2. v2 = IF IsValidKey(s.id) THEN Append(v, f) ELSE v
    BY <1>0, <1>2, <1>3, <1>4, <1>5, <1>12, <2>1 DEF Merge, Got, Bad
  <2>3. ~IsCommand(s) /\ Part(s) = IF IsValidKey(s.id) THEN <<f>> ELSE <<>>
    BY <1>12 DEF Part, IsCommand
  <2>4. v2 = v \o Part(s) /\ v2 # <<>> /\ DistinctKeys(v2)
    <3> HIDE DEF v2
    <3>1. f.k = s.id
      OBVIOUS
    <3> HIDE DEF f
    <3>2. CASE IsValidKey(s.id)
      <4>1. v2 = Append(v, f) /\ Part(s) = <<f>>
        BY <2>2, <2>3, <3>2
      <4>2. Append(v, f) = v \o <<f>> /\ Append(v, f) # <<>>
        BY <1>6, AppendIsConcat, AppendProperties
      <4>3. DistinctKeys(Append(v, f))
        BY <1>6, <1>9, <2>1, <3>1, AppendDistinct
      <4> QED
        BY <4>1, <4>2, <4>3
    <3>3. CASE ~IsValidKey(s.id)
      BY <1>9, <2>1, <2>2, <2>3, <3>3, ConcatEmptySeq
    <3> QED
      BY <3>2, <3>3
  <2>5. PICK c \in 1..n : IsCommand(sections[c])
    BY <1>9, <2>1
  <2>6. \A i \in 1..n + 1 : IsCommand(sections[i]) => i \in 1..n
    BY <2>3 DEF s
  <2>7. \A j \in 1..n + 1 : sections[j].kind = 1 => \E i \in 1..j - 1 : IsCommand(sections[i])
    <3> SUFFICES ASSUME NEW j \in 1..n + 1, sections[j].kind = 1
                 PROVE  \E i \in 1..j - 1 : IsCommand(sections[i])
      OBVIOUS
    <3>1. CASE j \in 1..n
      BY <1>9, <3>1
    <3>2. CASE j = n + 1
      BY <2>5, <3>2
    <3> QED
      BY <3>1, <3>2
  <2>8. c \in 1..n + 1
    OBVIOUS
  <2> HIDE DEF v2
  <2> QED
    BY <1>9, <2>4, <2>5, <2>6, <2>7, <2>8
<1> QED
  BY <1>6, <1>11, <1>12

\* An error of one section is an error of the whole.
LEMMA AllMerged ==
  ASSUME NEW F, NEW sections \in Seq(Section(F)), CommandDocument(sections).ok
  PROVE  \A n \in 0..Len(sections) : MergedAfter(sections)[n].ok
<1> DEFINE m == MergedAfter(sections)
           N == Len(sections)
           Good == {k \in Nat : k <= N => m[N - k].ok}
<1>1. N \in Nat
  OBVIOUS
<1>2. 0 \in Good
  BY <1>1, MergedAfterDef
<1>3. ASSUME NEW k \in Nat, k \in Good PROVE k + 1 \in Good
  <2> SUFFICES ASSUME k + 1 <= N PROVE m[N - (k + 1)].ok
    OBVIOUS
  <2>1. N - k \in 1..N /\ (N - k) - 1 = N - (k + 1)
    BY <1>1
  <2>2. m[N - k] = Merge(m[N - (k + 1)], sections[N - k])
    BY <2>1, MergedAfterDef
  <2>3. m[N - k].ok
    BY <1>1, <1>3
  <2> HIDE DEF m
  <2> QED
    BY <2>2, <2>3 DEF Merge, Bad
<1>4. Good \in SUBSET Nat
  OBVIOUS
<1> HIDE DEF Good
<1>5. Good = Nat
  BY <1>2, <1>3, <1>4, SetInduction
<1> SUFFICES ASSUME NEW n \in 0..N PROVE m[n].ok
  OBVIOUS
<1>6. N - n \in Nat /\ N - n <= N /\ N - (N - n) = n
  BY <1>1
<1> HIDE DEF m
<1> QED
  BY <1>5, <1>6 DEF Good

\* Whatever the sections of an OP_MSG that OpMsg.Document accepts, however many there are
\* and in whichever order, the command has the fields of the one body that has any,
\* followed by one field for every sequence of documents with a valid identifier, whole
\* and in order.  No sequence comes before that body, so that the command's name is the
\* body's first key, and no field is there twice if none is in a body.
THEOREM CommandHasAllParts ==
  ASSUME NEW F, NEW sections \in Seq(Section(F)), CommandDocument(sections).ok,
         \A i \in 1..Len(sections) : \A d \in DOMAIN sections[i].docs :
           DistinctKeys(sections[i].docs[d].sub)
  PROVE  HasAllParts(sections)
<1> DEFINE m == MergedAfter(sections)
           N == Len(sections)
           parts == [i \in DOMAIN sections |-> Part(sections[i])]
<1>1. N \in Nat /\ DOMAIN sections = 1..N
  OBVIOUS
<1>2. \A n \in 0..N : m[n].ok
  BY AllMerged
<1>3. ASSUME NEW i \in 1..N, sections[i].kind = 0 PROVE Len(sections[i].docs) = 1
  <2>1. i \in 0..N /\ i - 1 \in 0..N
    BY <1>1
  <2>2. m[i] = Merge(m[i - 1], sections[i]) /\ m[i].ok /\ m[i - 1].ok
    BY <1>2, <2>1, MergedAfterDef
  <2> HIDE DEF m
  <2> QED
    BY <1>3, <2>2 DEF Merge, Bad
<1>4. WholeSoFar(sections, 0)
  <2>1. m[0].v = <<>>
    BY MergedAfterDef DEF Got
  <2> HIDE DEF m
  <2> QED
    BY <2>1 DEF WholeSoFar, DistinctKeys, m
<1> DEFINE Good == {n \in Nat : n <= N => WholeSoFar(sections, n)}
<1>5. ASSUME NEW n \in Nat, n \in Good PROVE n + 1 \in Good
  <2> SUFFICES ASSUME n + 1 <= N PROVE WholeSoFar(sections, n + 1)
    OBVIOUS
  <2>1. WholeSoFar(sections, n) /\ m[n + 1].ok
    BY <1>1, <1>2, <1>5
  <2> QED
    BY <1>3, <2>1, OneMoreSection
<1>6. Good \in SUBSET Nat /\ 0 \in Good
  BY <1>4
<1> HIDE DEF Good
<1>7. Good = Nat
  BY <1>5, <1>6, SetInduction
<1>8. WholeSoFar(sections, N)
  BY <1>1, <1>7 DEF Good
<1>9. CommandDocument(sections) = m[N]
  BY MergedAfterDef
<1>10. FlattenSeq(parts) = IF N = 0 THEN <<>> ELSE Joined(parts)[N]
  <2>1. CASE N = 0
    <3>1. parts = <<>>
      BY <1>1, <2>1
    <3> QED
      BY <2>1, <3>1 DEF FlattenSeq
  <2>2. CASE N # 0
    <3> DEFINE S == WithSequences(F, sections)
    <3>1. \A i \in 1..N : Part(sections[i]) \in Seq(S)
      BY <1>3, PartType
    <3> HIDE DEF S
    <3>2. parts \in Seq(Seq(S)) /\ Len(parts) = N
      BY <1>1, <3>1
    <3>3. parts # <<>>
      BY <2>2, <3>2
    <3> HIDE DEF parts
    <3> QED
      BY <2>2, <3>2, <3>3, JoinedDef
  <2> QED
    BY <2>1, <2>2
<1> HIDE DEF m
<1> QED
  BY <1>1, <1>8, <1>9, <1>10 DEF WholeSoFar, HasAllParts, m

=============================================================================
