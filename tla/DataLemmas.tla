------------------------------ MODULE DataLemmas ------------------------------
(***************************************************************************)
(* Facts about numbers and sequences that the proofs share.                *)
(***************************************************************************)
EXTENDS Integers, FiniteSets, SequencesExt, SequenceTheorems, FiniteSetTheorems, WellFoundedInduction, TLAPS

LEMMA Minimal ==
  ASSUME NEW R, NEW N, IsWellFoundedOn(R, N), NEW S, S \subseteq N, S # {}
  PROVE  \E x \in S : \A y \in S : ~(<<y, x>> \in R)
BY WFMin

LEMMA LessIsWellFounded ==
  \E R, N : IsWellFoundedOn(R, N) /\ N = Nat /\ \A x, y \in N : x < y => <<x, y>> \in R
<1>1. \A x, y \in Nat : x < y => <<x, y>> \in OpToRel(<, Nat)
  BY DEF OpToRel
<1> QED
  BY <1>1, NatLessThanWellFounded, Zenon

(* A set of naturals has a least element. *)
LEMMA Least ==
  ASSUME NEW S, S \subseteq Nat, S # {}
  PROVE  \E m \in S : \A k \in S : m <= k
<1>1. PICK R, N : IsWellFoundedOn(R, N) /\ N = Nat /\ \A x, y \in N : x < y => <<x, y>> \in R
  BY LessIsWellFounded
<1>2. IsWellFoundedOn(R, N) /\ S \subseteq N
  BY <1>1, Zenon
<1>3. \E x \in S : \A y \in S : ~(<<y, x>> \in R)
  BY <1>2, Minimal, Zenon
<1>4. \A x \in S, y \in S : ~(<<y, x>> \in R) => ~(y < x)
  BY <1>1, Zenon
<1>5. \A x \in S, y \in S : ~(y < x) => x <= y
  OBVIOUS
<1> QED
  BY <1>3, <1>4, <1>5, Zenon

LEMMA MinIsLeast ==
  ASSUME NEW S, S \subseteq Nat, S # {}
  PROVE  Min(S) \in S /\ \A k \in S : Min(S) <= k
BY Least DEF Min

(* Induction, over a set instead of a predicate. *)
LEMMA UpTo ==
  ASSUME NEW n \in Nat, NEW G, 0 \in G, \A m \in 0 .. n - 1 : m \in G => m + 1 \in G
  PROVE  0 .. n \subseteq G
<1> DEFINE Bad == (0 .. n) \ G
<1>1. SUFFICES ASSUME Bad # {} PROVE FALSE
  OBVIOUS
<1>2. Bad \subseteq Nat
  OBVIOUS
<1>3. PICK m \in Bad : \A k \in Bad : m <= k
  BY <1>1, <1>2, Least
<1>4. m - 1 \in 0 .. n - 1 /\ m - 1 \notin Bad
  BY <1>3
<1> QED
  BY <1>3, <1>4

LEMMA AppendFacts ==
  ASSUME NEW S, NEW s \in Seq(S), NEW e \in S
  PROVE  /\ Append(s, e) \in Seq(S) /\ Append(s, e) # << >>
         /\ ToSet(Append(s, e)) = ToSet(s) \cup {e}
         /\ s # << >> => Append(s, e)[1] = s[1]
         /\ IsInjective(s) /\ e \notin ToSet(s) => IsInjective(Append(s, e))
<1>1. /\ Append(s, e) \in Seq(S) /\ Len(Append(s, e)) = Len(s) + 1 /\ Len(s) \in Nat
      /\ Append(s, e)[Len(s) + 1] = e
      /\ \A i \in 1 .. Len(s) : Append(s, e)[i] = s[i]
      /\ DOMAIN s = 1 .. Len(s) /\ DOMAIN Append(s, e) = 1 .. Len(s) + 1
  OBVIOUS
<1> DEFINE a == Append(s, e)
<1> HIDE DEF a
<1>2. ToSet(a) = ToSet(s) \cup {e}
  BY <1>1 DEF ToSet, a
<1>3. s # << >> => a[1] = s[1]
  <2>1. s # << >> => Len(s) > 0
    OBVIOUS
  <2> QED
    BY <1>1, <2>1 DEF a
<1>4. ASSUME IsInjective(s), e \notin ToSet(s) PROVE IsInjective(a)
  BY <1>1, <1>4 DEF IsInjective, ToSet, a
<1>5. a # << >>
  BY <1>1 DEF a
<1>6. a \in Seq(S)
  BY <1>1 DEF a
<1> QED
  BY <1>2, <1>3, <1>4, <1>5, <1>6 DEF a

LEMMA AppendsDiffer ==
  ASSUME NEW S, NEW s \in Seq(S), NEW a \in S, NEW b \in S
  PROVE  Append(s, a) # s /\ (Append(s, a) = Append(s, b) => a = b)
<1>1. /\ Len(Append(s, a)) = Len(s) + 1 /\ Len(s) \in Nat
      /\ Append(s, a)[Len(s) + 1] = a /\ Append(s, b)[Len(s) + 1] = b
  OBVIOUS
<1> QED
  BY <1>1
=============================================================================
