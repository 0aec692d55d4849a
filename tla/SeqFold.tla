------------------------------- MODULE SeqFold -------------------------------
(***************************************************************************)
(* A loop over a sequence: Op is applied to what there is so far and the   *)
(* next element, both evaluated once.  Modules instantiate it with the     *)
(* body of the loop for Op, and get with it the facts proved below; the    *)
(* library's folds and induction theorems take an operator as a parameter  *)
(* and cannot be cited by proofs that only use first-order provers.        *)
(***************************************************************************)
EXTENDS Integers, Sequences, WellFoundedInduction, TLAPS

CONSTANT Op(_, _)

After(acc, elem) == CHOOSE r \in {Op(a, e) : a \in {acc}, e \in {elem}} : TRUE

Fold(base, s) ==
  LET after[i \in 0 .. Len(s)] == IF i = 0 THEN base ELSE After(after[i - 1], s[i])
  IN  after[Len(s)]

-----------------------------------------------------------------------------
(* Induction over numbers, for sets of them.                                *)

\* A set of natural numbers that is not empty has a least element.
LEMMA NatMin ==
  ASSUME NEW T \in SUBSET Nat, T # {}
  PROVE  \E n \in T : \A m \in T : n <= m
<1> DEFINE R == {p \in Nat \X Nat : p[1] < p[2]}
<1>1. IsWellFoundedOn(R, Nat)
  BY NatLessThanWellFounded DEF OpToRel
<1>2. PICK n \in T : \A m \in T : ~(<<m, n>> \in R)
  BY <1>1, WFMin
<1>3. ASSUME NEW m \in T
      PROVE  n <= m
  <2>1. <<m, n>> \in Nat \X Nat /\ <<m, n>>[1] = m /\ <<m, n>>[2] = n
    OBVIOUS
  <2>2. <<m, n>> \in R <=> m < n
    BY <2>1
  <2> QED BY <1>2, <2>2
<1> QED BY <1>3

\* A set of natural numbers closed under successors is all of them.
LEMMA NatInd ==
  ASSUME NEW T \in SUBSET Nat, 0 \in T, \A n \in T : n + 1 \in T
  PROVE  T = Nat
<1> SUFFICES ASSUME Nat \ T # {} PROVE FALSE
  OBVIOUS
<1>1. PICK n \in Nat \ T : \A m \in Nat \ T : n <= m
  BY NatMin
<1>2. n # 0 /\ n - 1 \in T
  BY <1>1
<1> QED BY <1>1, <1>2

\* The same up to a number.
LEMMA NatIndUpTo ==
  ASSUME NEW n \in Nat, NEW T, 0 \in T, \A i \in 0 .. n - 1 : i \in T => i + 1 \in T
  PROVE  0 .. n \subseteq T
<1> DEFINE U == {i \in Nat : i <= n => i \in T}
<1>1. 0 \in U /\ \A i \in U : i + 1 \in U
  OBVIOUS
<1>2. U = Nat
  BY <1>1, NatInd
<1> QED BY <1>2

\* A sequence that is not empty is a shorter one and a last element.
LEMMA SeqParts ==
  ASSUME NEW S, NEW s \in Seq(S), NEW n \in Nat, n < Len(s)
  PROVE  /\ SubSeq(s, 1, n) \in Seq(S) /\ Len(SubSeq(s, 1, n)) = n
         /\ s[n + 1] \in S
         /\ SubSeq(s, 1, n + 1) = Append(SubSeq(s, 1, n), s[n + 1])
OBVIOUS

\* A set of sequences that has the empty one and whatever is one longer than
\* one of its own is all sequences.
LEMMA SeqInd ==
  ASSUME NEW S, NEW T, <<>> \in T, \A s \in T : \A x \in S : Append(s, x) \in T
  PROVE  Seq(S) \subseteq T
<1> DEFINE U == {n \in Nat : \A s \in Seq(S) : Len(s) = n => s \in T}
<1>1. 0 \in U
  OBVIOUS
<1>2. ASSUME NEW n \in U
      PROVE  n + 1 \in U
  <2>1. ASSUME NEW s \in Seq(S), Len(s) = n + 1
        PROVE  s \in T
    <3> DEFINE front == SubSeq(s, 1, n)
    <3>1. front \in Seq(S) /\ Len(front) = n /\ s[n + 1] \in S
          /\ SubSeq(s, 1, n + 1) = Append(front, s[n + 1])
      BY <2>1, SeqParts
    <3>2. SubSeq(s, 1, n + 1) = s
      BY <2>1
    <3> HIDE DEF front
    <3>3. front \in T
      BY <1>2, <3>1
    <3> QED BY <3>1, <3>2, <3>3
  <2> QED BY <2>1
<1>3. U = Nat
  BY <1>1, <1>2, NatInd
<1> QED BY <1>3

-----------------------------------------------------------------------------
(* What a fold is.                                                          *)

Folds(f, base, s, n) ==
  f = [i \in 0 .. n |-> IF i = 0 THEN base ELSE After(f[i - 1], s[i])]

\* The recursion has a solution.
LEMMA FoldExists ==
  ASSUME NEW base, NEW s, NEW n \in Nat
  PROVE  \E f : Folds(f, base, s, n)
<1> DEFINE T == {k \in Nat : \E f : Folds(f, base, s, k)}
<1>1. 0 \in T
  <2> DEFINE f == [i \in 0 .. 0 |-> base]
  <2>1. Folds(f, base, s, 0)
    BY DEF Folds
  <2> QED BY <2>1
<1>2. ASSUME NEW k \in T
      PROVE  k + 1 \in T
  <2>1. PICK f : Folds(f, base, s, k)
    BY <1>2
  <2> DEFINE g == [i \in 0 .. k + 1 |-> IF i = 0 THEN base ELSE After(f[i - 1], s[i])]
  <2>2. \A i \in 0 .. k : g[i] = f[i]
    BY <2>1 DEF Folds
  <2>3. g = [i \in 0 .. k + 1 |-> IF i = 0 THEN base ELSE After(g[i - 1], s[i])]
    BY <2>2
  <2> HIDE DEF g
  <2>4. Folds(g, base, s, k + 1)
    BY <2>3 DEF Folds
  <2> QED BY <2>4
<1>3. T = Nat
  BY <1>1, <1>2, NatInd
<1> QED BY <1>3

\* A fold goes through states, the first of them the base, each the one before
\* with the next element applied.
LEMMA FoldStates ==
  ASSUME NEW base, NEW s, Len(s) \in Nat
  PROVE  \E f : /\ f[0] = base
                /\ \A i \in 1 .. Len(s) : f[i] = Op(f[i - 1], s[i])
                /\ Fold(base, s) = f[Len(s)]
<1> DEFINE f == CHOOSE g : Folds(g, base, s, Len(s))
<1>1. Folds(f, base, s, Len(s))
  BY FoldExists
<1>2. Fold(base, s) = f[Len(s)]
  BY DEF Fold, Folds
<1>3. \A acc, elem : After(acc, elem) = Op(acc, elem)
  BY DEF After
<1> HIDE DEF f
<1>4. f[0] = base /\ \A i \in 1 .. Len(s) : f[i] = After(f[i - 1], s[i])
  BY <1>1 DEF Folds
<1> QED BY <1>2, <1>3, <1>4

\* Without elements nothing happens.
LEMMA FoldEmpty ==
  ASSUME NEW base, NEW s, Len(s) = 0
  PROVE  Fold(base, s) = base
BY FoldStates

\* A longer fold is a shorter one and one step.
LEMMA FoldAppend ==
  ASSUME NEW base, NEW S, NEW s \in Seq(S), NEW x \in S
  PROVE  Fold(base, Append(s, x)) = Op(Fold(base, s), x)
<1> DEFINE t == Append(s, x)
<1>1. /\ Len(t) = Len(s) + 1 /\ Len(s) \in Nat
      /\ \A i \in 1 .. Len(s) : t[i] = s[i]
      /\ t[Len(s) + 1] = x
  OBVIOUS
<1> HIDE DEF t
<1>2. PICK f : /\ f[0] = base
               /\ \A i \in 1 .. Len(s) : f[i] = Op(f[i - 1], s[i])
               /\ Fold(base, s) = f[Len(s)]
  BY <1>1, FoldStates
<1>3. PICK g : /\ g[0] = base
               /\ \A i \in 1 .. Len(t) : g[i] = Op(g[i - 1], t[i])
               /\ Fold(base, t) = g[Len(t)]
  BY <1>1, FoldStates
<1> DEFINE T == {i \in 0 .. Len(s) : f[i] = g[i]}
<1>4. 0 .. Len(s) \subseteq T
  <2>1. 0 \in T
    BY <1>1, <1>2, <1>3
  <2>2. \A i \in 0 .. Len(s) - 1 : i \in T => i + 1 \in T
    BY <1>1, <1>2, <1>3
  <2> QED BY <1>1, <2>1, <2>2, NatIndUpTo
<1>5. g[Len(s)] = Fold(base, s)
  BY <1>1, <1>2, <1>4
<1>6. g[Len(t)] = Op(g[Len(s)], x)
  BY <1>1, <1>3
<1> QED BY <1>3, <1>5, <1>6 DEF t
=============================================================================
