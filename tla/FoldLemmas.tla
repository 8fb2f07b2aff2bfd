----------------------------- MODULE FoldLemmas -----------------------------
(***************************************************************************)
(* Folds, step by step.  FoldLeft of the community modules is a recursive  *)
(* function over the subsets of the positions of a sequence; what it has   *)
(* after k elements is a function F of k, with one step of the operator    *)
(* between k - 1 and k.  A module that proves something of a fold takes an *)
(* instance of this one for its operator, shows that Fold is FoldLeft of   *)
(* that operator, and then that every F[k] is as it should be, by          *)
(* RangeInduction over the set of the k for which it is.                   *)
(***************************************************************************)
EXTENDS Integers, Sequences, FiniteSetsExt, WellFoundedInduction, TLAPS

CONSTANT Op(_, _, _)  \* the operator of a fold: what it is given besides, so far, element

\* FoldLeft, with Op
Fold(given, base, s) ==
  LET iter[t \in SUBSET DOMAIN s] ==
        IF t = {} THEN base ELSE Op(given, iter[t \ {Max(t)}], s[Max(t)])
  IN iter[DOMAIN s]

\* F is what the fold has after each of its steps.
IsFold(F, given, base, s) ==
  /\ F[0] = base
  /\ \A k \in 1 .. Len(s) : F[k] = Op(given, F[k - 1], s[k])
  /\ Fold(given, base, s) = F[Len(s)]

-----------------------------------------------------------------------------
(* Numbers. *)

LEMMA LeastNumber ==
  ASSUME NEW S, S \subseteq Nat, S # {}
  PROVE  \E m \in S : \A n \in S : m <= n
<1>. DEFINE R == OpToRel(<, Nat)
<1>1. R = {ss \in Nat \X Nat : ss[1] < ss[2]}
  BY Zenon DEF OpToRel
<1>2. IsWellFoundedOn(R, Nat)
  BY NatLessThanWellFounded
<1>. HIDE DEF R
<1>3. PICK m \in S : \A n \in S : <<n, m>> \notin R
  BY <1>2, WFMin
<1>4. \A n \in S : ~(n < m)
  BY <1>1, <1>3
<1>. QED  BY <1>4

\* Induction over the numbers up to n, for a set of them.
LEMMA RangeInduction ==
  ASSUME NEW n \in Nat, NEW T, 0 \in T, \A k \in 1 .. n : k - 1 \in T => k \in T
  PROVE  \A k \in 0 .. n : k \in T
<1>. SUFFICES ASSUME NEW k \in 0 .. n, k \notin T PROVE FALSE
  OBVIOUS
<1>. DEFINE S == (0 .. n) \ T
<1>1. S \subseteq Nat /\ S # {}
  OBVIOUS
<1>2. PICK m \in S : \A i \in S : m <= i
  BY <1>1, LeastNumber
<1>3. m \in 1 .. n /\ m - 1 \in 0 .. n /\ m - 1 \notin S
  BY <1>2
<1>. QED  BY <1>3

LEMMA GreatestNumber ==
  ASSUME NEW n \in Nat, NEW S, S \subseteq 0 .. n, S # {}
  PROVE  \E m \in S : \A i \in S : i <= m
<1>. DEFINE T == {k \in Nat : n - k \in S}
<1>1. T \subseteq Nat /\ T # {}
  <2>1. PICK i \in S : i \in 0 .. n
    OBVIOUS
  <2>2. n - i \in Nat /\ n - (n - i) = i
    BY <2>1
  <2>3. n - i \in T
    BY <2>2
  <2>. QED  BY <2>3
<1>2. PICK t \in T : \A i \in T : t <= i
  BY <1>1, LeastNumber
<1>3. n - t \in S
  BY <1>2
<1>4. ASSUME NEW i \in S PROVE i <= n - t
  <2>1. i \in 0 .. n /\ n - (n - i) = i /\ n - i \in Nat
    OBVIOUS
  <2>2. n - i \in T
    BY <2>1
  <2>. QED  BY <1>2, <2>1, <2>2
<1>. QED  BY <1>3, <1>4

LEMMA MaxOfNumbers ==
  ASSUME NEW n \in Nat, NEW S, S \subseteq 0 .. n, S # {}
  PROVE  Max(S) \in S /\ \A i \in S : i <= Max(S)
<1>1. PICK m \in S : \A i \in S : m >= i
  <2>1. PICK m \in S : \A i \in S : i <= m
    BY GreatestNumber
  <2>. QED  BY <2>1
<1>. QED  BY <1>1, Zenon DEF Max

LEMMA WithoutMax ==
  ASSUME NEW n \in Nat, NEW t \in SUBSET (1 .. n), t # {}
  PROVE  Max(t) \in 1 .. n /\ t \ {Max(t)} \in SUBSET (1 .. Max(t) - 1)
<1>1. t \subseteq 0 .. n
  OBVIOUS
<1>. DEFINE m == Max(t)
<1>2. m \in t /\ \A i \in t : i <= m
  BY <1>1, MaxOfNumbers
<1>. HIDE DEF m
<1>3. m \in 1 .. n /\ \A i \in t \ {m} : i \in 1 .. m - 1
  BY <1>2
<1>4. m \in 1 .. n /\ t \ {m} \in SUBSET (1 .. m - 1)
  BY <1>3
<1>. QED  BY <1>4 DEF m

LEMMA MaxOfRange ==
  ASSUME NEW k \in Nat \ {0}
  PROVE  Max(1 .. k) = k /\ (1 .. k) \ {k} = 1 .. (k - 1)
<1>1. 1 .. k \subseteq 0 .. k /\ 1 .. k # {}
  OBVIOUS
<1>2. Max(1 .. k) \in 1 .. k /\ \A i \in 1 .. k : i <= Max(1 .. k)
  BY <1>1, MaxOfNumbers
<1>. QED  BY <1>2

-----------------------------------------------------------------------------
(* The recursive function of a fold exists: one for the subsets of 1 .. k  *)
(* is made of one for those of 1 .. k - 1.                                 *)

LEMMA FoldHasSteps ==
  ASSUME NEW given, NEW base, NEW s, Len(s) \in Nat, DOMAIN s = 1 .. Len(s)
  PROVE  \E F : IsFold(F, given, base, s)
<1>. DEFINE n == Len(s)
            Body(f, t) == IF t = {} THEN base ELSE Op(given, f[t \ {Max(t)}], s[Max(t)])
            Solves(f, m) == f = [t \in SUBSET (1 .. m) |-> Body(f, t)]
            T == {m \in 0 .. n : \E f : Solves(f, m)}
<1>. HIDE DEF n
<1>0. n \in Nat /\ DOMAIN s = 1 .. n
  BY DEF n
<1>1. 0 \in T
  <2>. DEFINE f == [t \in SUBSET (1 .. 0) |-> base]
  <2>1. \A t \in SUBSET (1 .. 0) : Body(f, t) = base
    OBVIOUS
  <2>2. Solves(f, 0)
    BY <2>1
  <2>. QED  BY <1>0, <2>2
<1>2. ASSUME NEW k \in 1 .. n, k - 1 \in T PROVE k \in T
  <2>1. PICK g : Solves(g, k - 1)
    BY <1>2
  <2>. DEFINE h == [t \in SUBSET (1 .. k) |-> Body(g, t)]
  <2>2. ASSUME NEW t \in SUBSET (1 .. k) PROVE Body(g, t) = Body(h, t)
    <3>. SUFFICES ASSUME t # {} PROVE h[t \ {Max(t)}] = g[t \ {Max(t)}]
      OBVIOUS
    <3>0. k \in Nat /\ k \in 1 .. n
      BY <1>0
    <3>1. t \ {Max(t)} \in SUBSET (1 .. (k - 1)) /\ t \ {Max(t)} \in SUBSET (1 .. k)
      BY <3>0, WithoutMax
    <3>. HIDE DEF Body
    <3>2. g[t \ {Max(t)}] = Body(g, t \ {Max(t)})
      BY <2>1, <3>1
    <3>. QED  BY <3>1, <3>2
  <2>3. Solves(h, k)
    <3>. HIDE DEF Body
    <3>. QED  BY <2>2
  <2>4. \E f : Solves(f, k)
    <3>. HIDE DEF Solves, h
    <3>. QED  BY <2>3
  <2>5. k \in 0 .. n
    BY <1>0
  <2>. HIDE DEF Solves
  <2>. QED  BY <2>4, <2>5
<1>3. n \in T
  <2>. HIDE DEF T
  <2>1. \A k \in 0 .. n : k \in T
    BY <1>0, <1>1, <1>2, RangeInduction
  <2>. QED  BY <1>0, <2>1
<1>. DEFINE iter == CHOOSE f : Solves(f, n)
<1>4. Solves(iter, n)
  BY <1>3, Zenon
<1>5. Fold(given, base, s) = iter[1 .. n]
  BY <1>0 DEF Fold
<1>. HIDE DEF iter
<1>. DEFINE F == [k \in 0 .. n |-> iter[1 .. k]]
<1>6. F[0] = base /\ F[n] = iter[1 .. n]
  <2>1. 1 .. 0 = {} /\ {} \in SUBSET (1 .. n) /\ 0 \in 0 .. n /\ n \in 0 .. n
    BY <1>0
  <2>2. iter[{}] = base
    BY <1>4, <2>1
  <2>. QED  BY <2>1, <2>2
<1>7. ASSUME NEW k \in 1 .. n PROVE F[k] = Op(given, F[k - 1], s[k])
  <2>1. 1 .. k \in SUBSET (1 .. n) /\ 1 .. k # {} /\ k \in Nat \ {0}
    <3>1. \A i \in 1 .. k : i \in 1 .. n
      BY <1>0
    <3>2. k \in 1 .. k /\ k \in Nat \ {0}
      BY <1>0
    <3>. QED  BY <3>1, <3>2
  <2>2. iter[1 .. k] = Op(given, iter[(1 .. k) \ {Max(1 .. k)}], s[Max(1 .. k)])
    BY <1>4, <2>1
  <2>3. Max(1 .. k) = k /\ (1 .. k) \ {Max(1 .. k)} = 1 .. (k - 1)
    BY <2>1, MaxOfRange
  <2>4. iter[1 .. k] = Op(given, iter[1 .. (k - 1)], s[k])
    BY <2>2, <2>3, Zenon
  <2>5. k \in 0 .. n /\ k - 1 \in 0 .. n
    BY <1>0
  <2>. QED  BY <2>4, <2>5
<1>. HIDE DEF F
<1>8. IsFold(F, given, base, s)
  BY <1>5, <1>6, <1>7 DEF IsFold, n
<1>. QED  BY <1>8

\* One element more is one step more.
LEMMA FoldOneMore ==
  ASSUME NEW given, NEW base, NEW n \in Nat, NEW s, NEW t,
         Len(s) = n, DOMAIN s = 1 .. n, Len(t) = n + 1, DOMAIN t = 1 .. n + 1,
         \A k \in 1 .. n : t[k] = s[k]
  PROVE  Fold(given, base, t) = Op(given, Fold(given, base, s), t[n + 1])
<1>1. PICK F : IsFold(F, given, base, s)
  BY FoldHasSteps
<1>2. PICK G : IsFold(G, given, base, t)
  <2>1. Len(t) \in Nat /\ DOMAIN t = 1 .. Len(t)
    OBVIOUS
  <2>. QED  BY <2>1, FoldHasSteps
<1>3. /\ F[0] = base /\ G[0] = base
      /\ Fold(given, base, s) = F[n] /\ Fold(given, base, t) = G[n + 1]
      /\ \A k \in 1 .. n : F[k] = Op(given, F[k - 1], s[k])
      /\ \A k \in 1 .. n + 1 : G[k] = Op(given, G[k - 1], t[k])
  BY <1>1, <1>2, Zenon DEF IsFold
<1>. DEFINE T == {k \in 0 .. n : F[k] = G[k]}
<1>4. 0 \in T
  BY <1>3
<1>5. ASSUME NEW k \in 1 .. n, k - 1 \in T PROVE k \in T
  <2>1. k \in 1 .. n + 1 /\ k \in 0 .. n
    OBVIOUS
  <2>2. F[k - 1] = G[k - 1] /\ t[k] = s[k]
    BY <1>5
  <2>. QED  BY <1>3, <2>1, <2>2
<1>6. n \in T
  <2>. HIDE DEF T
  <2>1. \A k \in 0 .. n : k \in T
    BY <1>4, <1>5, RangeInduction
  <2>. QED  BY <2>1
<1>7. n + 1 \in 1 .. n + 1 /\ (n + 1) - 1 = n
  OBVIOUS
<1>. QED  BY <1>3, <1>6, <1>7

-----------------------------------------------------------------------------
(* What keeps a set. *)

\* A fold stays in a set that no step of it leaves.
LEMMA FoldKeeps ==
  ASSUME NEW given, NEW X, NEW base \in X, NEW E, NEW s \in Seq(E),
         \A acc \in X : \A e \in E : Op(given, acc, e) \in X
  PROVE  Fold(given, base, s) \in X
<1>. DEFINE n == Len(s)
<1>1. n \in Nat /\ DOMAIN s = 1 .. n /\ \A k \in 1 .. n : s[k] \in E
  OBVIOUS
<1>2. PICK F : IsFold(F, given, base, s)
  BY <1>1, FoldHasSteps
<1>. HIDE DEF n
<1>. DEFINE T == {k \in 0 .. n : F[k] \in X}
<1>3. 0 \in T
  BY <1>1, <1>2 DEF IsFold
<1>4. ASSUME NEW k \in 1 .. n, k - 1 \in T PROVE k \in T
  <2>1. F[k] = Op(given, F[k - 1], s[k])
    BY <1>2 DEF IsFold, n
  <2>. QED  BY <1>1, <1>4, <2>1
<1>5. n \in T
  <2>. HIDE DEF T
  <2>1. \A k \in 0 .. n : k \in T
    BY <1>1, <1>3, <1>4, RangeInduction
  <2>. QED  BY <1>1, <2>1
<1>. QED  BY <1>2, <1>5 DEF IsFold, n
=============================================================================
