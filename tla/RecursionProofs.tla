-------------------------- MODULE RecursionProofs --------------------------
(***************************************************************************)
(* Induction over sets, and recursive functions.  The library's theorems   *)
(* about both take an operator as a parameter; these take a set and a      *)
(* function.                                                               *)
(***************************************************************************)
EXTENDS Integers, WellFoundedInduction, TLAPS

\* What holds of 0 and with every i of i + 1 holds of all numbers; S is the set
\* of those of which it holds.
LEMMA SetInduction ==
  ASSUME NEW S \in SUBSET Nat, 0 \in S, \A i \in Nat : i \in S => i + 1 \in S
  PROVE  S = Nat
<1> DEFINE Less == {p \in Nat \X Nat : p[1] < p[2]}
<1>1. IsWellFoundedOn(Less, Nat)
  BY NatLessThanWellFounded DEF OpToRel
<1> SUFFICES ASSUME S # Nat PROVE FALSE
  OBVIOUS
<1> DEFINE T == Nat \ S
<1>2. T # {} /\ T \subseteq Nat
  OBVIOUS
<1>3. PICK x \in T : \A y \in T : <<y, x>> \notin Less
  <2> HIDE DEF T, Less
  <2> QED
    BY <1>1, <1>2, WFMin
<1>4. x - 1 \in Nat /\ <<x - 1, x>> \in Less
  OBVIOUS
<1> QED
  BY <1>3, <1>4

\* What holds of x if it holds of everything of lower rank holds of everything.
LEMMA RankInduction ==
  ASSUME NEW D, NEW rank \in [D -> Nat], NEW Good \in SUBSET D,
         \A x \in D : (\A y \in D : rank[y] < rank[x] => y \in Good) => x \in Good
  PROVE  \A x \in D : x \in Good
<1> DEFINE Below == {n \in Nat : \A x \in D : rank[x] < n => x \in Good}
<1>1. 0 \in Below
  OBVIOUS
<1>2. ASSUME NEW n \in Nat, n \in Below PROVE n + 1 \in Below
  <2>1. ASSUME NEW x \in D, rank[x] < n + 1 PROVE x \in Good
    <3>1. \A y \in D : rank[y] < rank[x] => y \in Good
      BY <1>2, <2>1
    <3> QED
      BY <3>1
  <2> QED
    BY <2>1
<1>3. Below = Nat
  <2>1. Below \in SUBSET Nat
    OBVIOUS
  <2> HIDE DEF Below
  <2> QED
    BY <1>1, <1>2, <2>1, SetInduction
<1>4. ASSUME NEW x \in D PROVE x \in Good
  <2>1. rank[x] + 1 \in Below /\ rank[x] < rank[x] + 1
    BY <1>3
  <2> QED
    BY <2>1
<1> QED
  BY <1>4

\* A definition of a function by what it is for lower ranks: step[g] is its
\* body, with g for the function.
Recursion(D, R, rank, step) ==
  /\ rank \in [D -> Nat]
  /\ step \in [[D -> R] -> [D -> R]]
  /\ [D -> R] # {}
  /\ \A g, h \in [D -> R] : \A x \in D :
       (\A y \in D : rank[y] < rank[x] => g[y] = h[y]) => step[g][x] = step[h][x]

\* There is such a function.
LEMMA RecursiveFunctionExists ==
  ASSUME NEW D, NEW R, NEW rank, NEW step, Recursion(D, R, rank, step)
  PROVE  \E g \in [D -> R] : step[g] = g
<1> USE DEF Recursion
<1> DEFINE Good(g, m) == \A x \in D : rank[x] < m => step[g][x] = g[x]
           All == {m \in Nat : \E g \in [D -> R] : Good(g, m)}
<1>1. ASSUME NEW g \in [D -> R], NEW h \in [D -> R], NEW m \in Nat, NEW n \in Nat,
             Good(g, m), Good(h, n)
      PROVE  \A x \in D : rank[x] < m /\ rank[x] < n => g[x] = h[x]
  <2> DEFINE Same == {x \in D : rank[x] < m /\ rank[x] < n => g[x] = h[x]}
  <2>1. Same \in SUBSET D
    OBVIOUS
  <2>2. ASSUME NEW x \in D, \A y \in D : rank[y] < rank[x] => y \in Same
        PROVE  x \in Same
    <3> SUFFICES ASSUME rank[x] < m, rank[x] < n PROVE g[x] = h[x]
      OBVIOUS
    <3>1. \A y \in D : rank[y] < rank[x] => g[y] = h[y]
      BY <2>2
    <3>2. step[g][x] = step[h][x]
      BY <3>1
    <3> QED
      BY <1>1, <3>2
  <2>3. \A x \in D : x \in Same
    <3> HIDE DEF Same
    <3> QED
      BY <2>1, <2>2, RankInduction
  <2> QED
    BY <2>3
<1>2. 0 \in All
  BY DEF Good
<1>3. ASSUME NEW m \in Nat, m \in All PROVE m + 1 \in All
  <2>1. PICK g \in [D -> R] : Good(g, m)
    BY <1>3
  <2> DEFINE h == step[g]
  <2>2. h \in [D -> R]
    OBVIOUS
  <2>3. ASSUME NEW x \in D, rank[x] < m + 1 PROVE step[h][x] = h[x]
    <3>1. \A y \in D : rank[y] < rank[x] => h[y] = g[y]
      BY <2>1, <2>3
    <3> QED
      BY <2>2, <3>1
  <2> QED
    BY <2>2, <2>3
<1>4. All = Nat
  <2>1. All \in SUBSET Nat
    OBVIOUS
  <2> HIDE DEF All
  <2> QED
    BY <1>2, <1>3, <2>1, SetInduction
<1> DEFINE G == [m \in Nat |-> CHOOSE g \in [D -> R] : Good(g, m)]
           w == [x \in D |-> G[rank[x] + 1][x]]
<1>5. \A m \in Nat : G[m] \in [D -> R] /\ Good(G[m], m)
  <2>1. \A m \in Nat : \E g \in [D -> R] : Good(g, m)
    BY <1>4
  <2> HIDE DEF Good
  <2> QED
    BY <2>1
<1> HIDE DEF G, Good
<1>6. w \in [D -> R]
  BY <1>5
<1>7. ASSUME NEW x \in D PROVE step[w][x] = w[x]
  <2> DEFINE g == G[rank[x] + 1]
  <2>1. rank[x] + 1 \in Nat /\ g \in [D -> R] /\ Good(g, rank[x] + 1)
    BY <1>5
  <2>2. ASSUME NEW y \in D, rank[y] < rank[x] PROVE w[y] = g[y]
    <3>1. /\ rank[y] + 1 \in Nat /\ G[rank[y] + 1] \in [D -> R]
          /\ Good(G[rank[y] + 1], rank[y] + 1)
          /\ rank[y] < rank[y] + 1 /\ rank[y] < rank[x] + 1
      BY <1>5, <2>2
    <3> HIDE DEF g
    <3> QED
      BY <1>1, <2>1, <3>1
  <2>3. step[w][x] = step[g][x]
    <3> HIDE DEF w, g
    <3> QED
      BY <1>6, <2>1, <2>2
  <2>4. step[g][x] = g[x]
    BY <2>1 DEF Good
  <2> QED
    BY <2>3, <2>4
<1>8. step[w] = w
  <2> HIDE DEF w
  <2>1. step[w] \in [D -> R]
    BY <1>6
  <2> QED
    BY <1>6, <1>7, <2>1
<1> QED
  BY <1>6, <1>8

=============================================================================
