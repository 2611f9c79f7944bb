------------------------ MODULE ProviderRouterProofs ------------------------
(***************************************************************************)
(* Proofs about ProviderRouter, for any rules, providers and numbers of    *)
(* concurrent requests.                                                    *)
(***************************************************************************)
EXTENDS ProviderRouter, DataLemmas, FunctionTheorems

-----------------------------------------------------------------------------
(* The weights of a rotation, and what the strategies select *)

Listed == ToSet(Primaries \o Alternatives)

LEMMA RuleFacts ==
  ASSUME rule \in Rules
  PROVE  /\ Primaries \in Seq(Providers) /\ Primaries # << >>
         /\ Alternatives \in Seq(Providers) /\ Fallbacks \in Seq(Providers)
         /\ Kind \in {"direct", "limits", "roundRobin", "weighted"}
         /\ Streams \subseteq Requests
         /\ Listed \subseteq Providers /\ ToSet(Primaries) \subseteq Listed
         /\ Listed = ToSet(Primaries) \cup ToSet(Alternatives)
<1>1. /\ Primaries \in Seq(Providers) /\ Primaries # << >>
      /\ Alternatives \in Seq(Providers) /\ Fallbacks \in Seq(Providers)
      /\ Kind \in {"direct", "limits", "roundRobin", "weighted"}
      /\ Streams \subseteq Requests
  BY RuleAssumption DEF RuleShape, Valid, Primaries, Alternatives, Fallbacks, Kind, Streams
<1>2. ASSUME NEW a \in Seq(Providers), NEW b \in Seq(Providers)
      PROVE  ToSet(a \o b) = ToSet(a) \cup ToSet(b) /\ ToSet(a) \subseteq Providers /\ ToSet(b) \subseteq Providers
  <2> DEFINE c == a \o b
  <2>1. /\ DOMAIN c = 1 .. Len(a) + Len(b) /\ DOMAIN a = 1 .. Len(a) /\ DOMAIN b = 1 .. Len(b)
        /\ Len(a) \in Nat /\ Len(b) \in Nat
        /\ \A i \in 1 .. Len(a) + Len(b) : c[i] = IF i <= Len(a) THEN a[i] ELSE b[i - Len(a)]
    BY ConcatProperties
  <2> HIDE DEF c
  <2>2. ToSet(c) \subseteq ToSet(a) \cup ToSet(b)
    BY <2>1 DEF ToSet
  <2>3. ToSet(a) \subseteq ToSet(c)
    <3>1. \A j \in 1 .. Len(a) : j \in DOMAIN c /\ c[j] = a[j]
      BY <2>1
    <3> QED
      BY <2>1, <3>1 DEF ToSet
  <2>4. ToSet(b) \subseteq ToSet(c)
    <3>1. \A j \in 1 .. Len(b) : Len(a) + j \in DOMAIN c /\ c[Len(a) + j] = b[j]
      BY <2>1
    <3> QED
      BY <2>1, <3>1 DEF ToSet
  <2>5. ToSet(a) \subseteq Providers /\ ToSet(b) \subseteq Providers
    BY <2>1 DEF ToSet
  <2> QED
    BY <2>2, <2>3, <2>4, <2>5 DEF c
<1> QED
  BY <1>1, <1>2 DEF Listed

(* The partial sums of the weights exist and grow. *)
LEMMA Weights ==
  ASSUME rule \in Rules
  PROVE  /\ CumulativeWeight \in [0 .. Len(Primaries) -> Nat]
         /\ CumulativeWeight[0] = 0
         /\ \A i \in 1 .. Len(Primaries) :
               CumulativeWeight[i] = CumulativeWeight[i - 1] + Weight[Primaries[i]]
<1> DEFINE n == Len(Primaries)
           Sums(f, m) == f \in [0 .. m -> Nat] /\ f[0] = 0
                         /\ \A i \in 1 .. m : f[i] = f[i - 1] + Weight[Primaries[i]]
           G == {m \in 0 .. n : \E f : Sums(f, m)}
<1>1. n \in Nat /\ \A i \in 1 .. n : Weight[Primaries[i]] \in Nat
  BY RuleFacts, RuleAssumption
<1>2. 0 \in G
  <2>1. [i \in 0 .. 0 |-> 0] \in [0 .. 0 -> Nat] /\ [i \in 0 .. 0 |-> 0][0] = 0 /\ 1 .. 0 = {}
    OBVIOUS
  <2>2. Sums([i \in 0 .. 0 |-> 0], 0)
    BY <2>1
  <2> HIDE DEF Sums
  <2> QED
    BY <1>1, <2>2
<1>3. ASSUME NEW m \in 0 .. n - 1, m \in G PROVE m + 1 \in G
  <2>1. PICK f : Sums(f, m)
    BY <1>3
  <2> DEFINE g == [i \in 0 .. m + 1 |-> IF i = m + 1 THEN f[m] + Weight[Primaries[m + 1]] ELSE f[i]]
  <2>2. m \in Nat /\ m + 1 \in 1 .. n /\ Weight[Primaries[m + 1]] \in Nat /\ f[m] \in Nat
    BY <1>1, <2>1
  <2> HIDE DEF n
  <2>3. g \in [0 .. m + 1 -> Nat]
    BY <2>1, <2>2
  <2>4. g[0] = 0
    BY <2>1, <2>2
  <2>5. ASSUME NEW i \in 1 .. m + 1 PROVE g[i] = g[i - 1] + Weight[Primaries[i]]
    <3>1. CASE i = m + 1
      BY <2>2, <3>1
    <3>2. CASE i \in 1 .. m
      BY <2>1, <2>2, <3>2
    <3> QED
      BY <2>2, <3>1, <3>2
  <2>6. Sums(g, m + 1)
    BY <2>3, <2>4, <2>5
  <2> HIDE DEF Sums
  <2> QED
    BY <2>2, <2>6
<1>4. n \in G
  <2> HIDE DEF G, n
  <2> QED
    BY <1>1, <1>2, <1>3, UpTo, SMTT(30)
<1>5. PICK f : Sums(f, n)
  BY <1>4
<1>6. f = [i \in 0 .. n |-> IF i = 0 THEN 0 ELSE f[i - 1] + Weight[Primaries[i]]]
  BY <1>1, <1>5
<1>7. CumulativeWeight = [i \in 0 .. n |-> IF i = 0 THEN 0 ELSE CumulativeWeight[i - 1] + Weight[Primaries[i]]]
  BY <1>6 DEF CumulativeWeight
<1> DEFINE T == {i \in 0 .. n : CumulativeWeight[i] \in Nat}
<1>8. 0 .. n \subseteq T
  <2>1. 0 \in T
    BY <1>1, <1>7
  <2>2. ASSUME NEW m \in 0 .. n - 1, m \in T PROVE m + 1 \in T
    BY <1>1, <1>7, <2>2
  <2> QED
    BY <1>1, <2>1, <2>2, UpTo
<1> QED
  BY <1>1, <1>7, <1>8

LEMMA WeightsGrow ==
  ASSUME rule \in Rules
  PROVE  \A j \in 0 .. Len(Primaries) : \A i \in 0 .. j : CumulativeWeight[i] <= CumulativeWeight[j]
<1> DEFINE n == Len(Primaries)
           G == {j \in 0 .. n : \A i \in 0 .. j : CumulativeWeight[i] <= CumulativeWeight[j]}
<1>1. /\ n \in Nat /\ \A i \in 0 .. n : CumulativeWeight[i] \in Nat
      /\ \A i \in 1 .. n : Weight[Primaries[i]] \in Nat
                         /\ CumulativeWeight[i] = CumulativeWeight[i - 1] + Weight[Primaries[i]]
  <2>1. n \in Nat /\ \A i \in 1 .. n : Weight[Primaries[i]] \in Nat
    BY RuleFacts, RuleAssumption
  <2> QED
    BY <2>1, Weights
<1> HIDE DEF n
<1>2. 0 \in G
  <2>1. 0 \in 0 .. n /\ 0 .. 0 = {0} /\ CumulativeWeight[0] \in Nat
    BY <1>1
  <2> QED
    BY <2>1
<1>3. ASSUME NEW m \in 0 .. n - 1, m \in G PROVE m + 1 \in G
  <2>1. /\ m + 1 \in 1 .. n /\ m \in 0 .. n /\ CumulativeWeight[m + 1] \in Nat
        /\ CumulativeWeight[m] <= CumulativeWeight[m + 1]
    BY <1>1
  <2>2. ASSUME NEW i \in 0 .. m + 1 PROVE CumulativeWeight[i] <= CumulativeWeight[m + 1]
    <3>1. CASE i = m + 1
      BY <2>1, <3>1
    <3>2. CASE i \in 0 .. m
      <4>1. CumulativeWeight[i] <= CumulativeWeight[m] /\ CumulativeWeight[i] \in Nat /\ CumulativeWeight[m] \in Nat
        BY <1>1, <1>3, <2>1, <3>2
      <4> QED
        BY <2>1, <4>1
    <3> QED
      BY <2>1, <3>1, <3>2
  <2> QED
    BY <2>1, <2>2
<1>4. 0 .. n \subseteq G
  <2> HIDE DEF G
  <2> QED
    BY <1>1, <1>2, <1>3, UpTo
<1> QED
  BY <1>4 DEF n

(* The weighted choice is well defined: one provider covers the position.  *)
LEMMA WeightedHits ==
  ASSUME rule \in Rules, Kind = "weighted", NEW pos \in Nat
  PROVE  /\ CumulativeWeight[Len(Primaries)] \in Nat \ {0}
         /\ \E i \in DOMAIN Primaries :
               /\ CumulativeWeight[i - 1] <= pos % CumulativeWeight[Len(Primaries)]
               /\ pos % CumulativeWeight[Len(Primaries)] < CumulativeWeight[i]
<1> DEFINE n == Len(Primaries)
           total == CumulativeWeight[n]
<1>1. /\ n \in Nat \ {0} /\ DOMAIN Primaries = 1 .. n /\ CumulativeWeight[0] = 0
      /\ \A i \in 0 .. n : CumulativeWeight[i] \in Nat
      /\ \A i \in 1 .. n : Weight[Primaries[i]] \in Nat
                         /\ CumulativeWeight[i] = CumulativeWeight[i - 1] + Weight[Primaries[i]]
  BY RuleFacts, RuleAssumption, Weights
<1>2. PICK k \in 1 .. n : Weight[Primaries[k]] > 0
  BY <1>1, RuleAssumption DEF Valid, Kind, Primaries
<1>3. total \in Nat \ {0}
  <2>1. k \in 0 .. n /\ k - 1 \in 0 .. n /\ n \in 0 .. n
    BY <1>1
  <2>2. CumulativeWeight[k] <= total
    BY <2>1, WeightsGrow
  <2>3. CumulativeWeight[k] > 0
    BY <1>1, <1>2, <2>1
  <2> QED
    BY <1>1, <2>1, <2>2, <2>3
<1> HIDE DEF total
<1>4. pos % total \in 0 .. total - 1
  BY <1>3
<1>5. PICK x : x = pos % total /\ x \in 0 .. total - 1
  BY <1>4
<1> DEFINE S == {i \in 1 .. n : x < CumulativeWeight[i]}
<1>6. S \subseteq Nat /\ S # {}
  <2>1. n \in S
    BY <1>1, <1>3, <1>5 DEF total
  <2> QED
    BY <2>1
<1>7. PICK i \in S : \A j \in S : i <= j
  BY <1>6, Least
<1>8. CumulativeWeight[i - 1] <= x
  <2>1. CASE i = 1
    BY <1>1, <1>5, <2>1
  <2>2. CASE i # 1
    <3>1. i - 1 \in 1 .. n /\ i - 1 \notin S /\ CumulativeWeight[i - 1] \in Nat
      BY <1>1, <1>7, <2>2
    <3> QED
      BY <1>5, <3>1
  <2> QED
    BY <2>1, <2>2
<1>9. i \in 1 .. n /\ x < CumulativeWeight[i]
  BY <1>7
<1> QED
  BY <1>1, <1>3, <1>5, <1>8, <1>9 DEF total

(* Only one does: the intervals of the cumulative weights do not overlap.   *)
LEMMA EntryIs ==
  ASSUME rule \in Rules, Kind = "weighted", NEW k \in Nat, NEW i \in DOMAIN Primaries
  PROVE  Entry(k) = i <=> /\ CumulativeWeight[i - 1] <= k % CumulativeWeight[Len(Primaries)]
                          /\ k % CumulativeWeight[Len(Primaries)] < CumulativeWeight[i]
<1> DEFINE x == k % CumulativeWeight[Len(Primaries)]
           Covers(e) == CumulativeWeight[e - 1] <= x /\ x < CumulativeWeight[e]
<1>1. PICK e \in DOMAIN Primaries : Covers(e)
  BY WeightedHits
<1>2. Entry(k) \in DOMAIN Primaries /\ Covers(Entry(k))
  BY <1>1 DEF Entry
<1>3. x \in Nat
  <2>1. CumulativeWeight[Len(Primaries)] \in Nat \ {0}
    BY WeightedHits
  <2> QED
    BY <2>1
<1> HIDE DEF x
<1>4. ASSUME NEW a \in DOMAIN Primaries, NEW b \in DOMAIN Primaries, Covers(a), Covers(b) PROVE ~(a < b)
  <2>1. Len(Primaries) \in Nat /\ DOMAIN Primaries = 1 .. Len(Primaries)
    BY RuleFacts
  <2>2. /\ a \in 0 .. Len(Primaries) /\ b - 1 \in 0 .. Len(Primaries) /\ b \in Nat /\ a \in Nat
        /\ a < b => a \in 0 .. b - 1
    BY <2>1
  <2>3. a < b => CumulativeWeight[a] <= CumulativeWeight[b - 1]
    BY <2>2, WeightsGrow
  <2>4. CumulativeWeight[a] \in Nat /\ CumulativeWeight[b - 1] \in Nat
    BY <2>2, Weights
  <2> QED
    BY <1>3, <1>4, <2>3, <2>4
<1>5. Covers(i) => Entry(k) = i
  <2>1. Entry(k) \in Nat /\ i \in Nat
    BY <1>2, RuleFacts
  <2>2. Covers(i) => ~(i < Entry(k)) /\ ~(Entry(k) < i)
    BY <1>2, <1>4
  <2> QED
    BY <2>1, <2>2
<1> QED
  BY <1>2, <1>5 DEF x

LEMMA NoMultiple ==
  ASSUME NEW d \in Int, NEW t \in Nat \ {0}, t * d < t, t * d > -t
  PROVE  d = 0
<1>1. CASE d >= 1
  <2>1. t * d >= t
    BY <1>1, SMT
  <2> QED
    BY <2>1
<1>2. CASE d <= -1
  <2>1. t * d <= -t
    BY <1>2, SMT
  <2> QED
    BY <2>1
<1> QED
  BY <1>1, <1>2

LEMMA Remainders ==
  ASSUME NEW t \in Nat \ {0}
  PROVE  /\ \A x \in Int : x = t * (x \div t) + (x % t) /\ x % t \in 0 .. t - 1 /\ x \div t \in Int
         /\ \A q \in Int : \A r \in 0 .. t - 1 : (t * q + r) % t = r
         /\ \A x, y \in Int : x % t = y % t /\ x - y < t /\ y - x < t => x = y
<1>1. \A x \in Int : x = t * (x \div t) + (x % t) /\ x % t \in 0 .. t - 1 /\ x \div t \in Int
  OBVIOUS
<1>2. ASSUME NEW q \in Int, NEW p \in Int, NEW r \in 0 .. t - 1, NEW s \in 0 .. t - 1, t * q + r = t * p + s
      PROVE  r = s
  <2>1. t * (q - p) = t * q - t * p
    BY SMT
  <2>2. t * (q - p) = s - r /\ s - r < t /\ s - r > -t
    BY <1>2, <2>1
  <2>3. q - p = 0
    BY <2>2, NoMultiple
  <2> QED
    BY <1>2, <2>3
<1>3. ASSUME NEW q \in Int, NEW r \in 0 .. t - 1 PROVE (t * q + r) % t = r
  <2>1. PICK x \in Int : x = t * q + r
    OBVIOUS
  <2>2. t * (x \div t) + (x % t) = t * q + r /\ x % t \in 0 .. t - 1 /\ x \div t \in Int
    BY <1>1, <2>1
  <2>3. x % t = r
    BY <1>2, <2>2
  <2> QED
    BY <2>1, <2>3
<1>4. ASSUME NEW x \in Int, NEW y \in Int, x % t = y % t, x - y < t, y - x < t PROVE x = y
  <2>1. /\ x = t * (x \div t) + (x % t) /\ x \div t \in Int /\ x % t \in Int
        /\ y = t * (y \div t) + (y % t) /\ y \div t \in Int
    BY <1>1
  <2>2. PICK p \in Int, q \in Int, r \in Int : x = t * p + r /\ y = t * q + r
    BY <1>4, <2>1
  <2>3. t * (p - q) = t * p - t * q
    BY SMT
  <2>4. p - q = 0
    BY <1>4, <2>2, <2>3, NoMultiple
  <2> QED
    BY <2>2, <2>4
<1> QED
  BY <1>1, <1>3, <1>4

(* Of t numbers in a row, hi - lo have a remainder from lo up to hi.        *)
LEMMA OneTurn ==
  ASSUME NEW a \in Nat, NEW t \in Nat \ {0}, NEW lo \in Nat, NEW hi \in Nat, lo <= hi, hi <= t
  PROVE  Cardinality({k \in a .. a + t - 1 : lo <= k % t /\ k % t < hi}) = hi - lo
<1> DEFINE S == {k \in a .. a + t - 1 : lo <= k % t /\ k % t < hi}
           T == lo .. hi - 1
           f == [k \in S |-> k % t]
<1>1. \A k \in S : k \in Int /\ k % t \in T
  BY Remainders
<1>2. ASSUME NEW k \in S, NEW m \in S, f[k] = f[m] PROVE k = m
  <2>1. k \in Int /\ m \in Int /\ k % t = m % t /\ k - m < t /\ m - k < t
    BY <1>2
  <2> QED
    BY <2>1, Remainders
<1>3. ASSUME NEW r \in T PROVE \E k \in S : f[k] = r
  <2>1. PICK c \in 0 .. t - 1, q \in Int : r - a = t * q + c
    <3>1. PICK x \in Int : x = r - a
      OBVIOUS
    <3>2. x = t * (x \div t) + (x % t) /\ x % t \in 0 .. t - 1 /\ x \div t \in Int
      BY Remainders
    <3> QED
      BY <3>1, <3>2
  <2>2. PICK k \in Int : k = a + c
    OBVIOUS
  <2>3. k = t * (-q) + r /\ r \in 0 .. t - 1
    <3>1. t * (-q) = -(t * q)
      BY SMT
    <3> QED
      BY <2>1, <2>2, <3>1
  <2>4. k % t = r
    BY <2>3, Remainders
  <2>5. k \in S
    BY <2>1, <2>2, <2>4
  <2> QED
    BY <2>4, <2>5
<1>4. f \in Bijection(S, T)
  <2>1. f \in [S -> T]
    BY <1>1
  <2> HIDE DEF f, S, T
  <2> QED
    BY <1>2, <1>3, <2>1, Fun_IsBij
<1>5. IsFiniteSet(S)
  <2>1. IsFiniteSet(a .. a + t - 1)
    BY FS_Interval
  <2> QED
    BY <2>1, FS_Subset
<1>6. Cardinality(T) = hi - lo
  <2>1. lo \in Int /\ hi - 1 \in Int
    OBVIOUS
  <2>2. Cardinality(T) = IF lo > hi - 1 THEN 0 ELSE (hi - 1) - lo + 1
    BY <2>1, FS_Interval
  <2> QED
    BY <2>2
<1>7. Cardinality(S) = Cardinality(T)
  <2> HIDE DEF f, S, T
  <2>1. ExistsBijection(S, T)
    BY <1>4 DEF ExistsBijection
  <2> QED
    BY <1>5, <2>1, FS_Bijection
<1> QED
  BY <1>6, <1>7

LEMMA SharesOfOneTurn ==
  ASSUME rule \in Rules, position \in Nat
  PROVE  WeightedShares
<1> SUFFICES ASSUME Kind = "weighted", NEW i \in DOMAIN Primaries
             PROVE  Cardinality({k \in position .. position + CumulativeWeight[Len(Primaries)] - 1 : Entry(k) = i})
                      = Weight[Primaries[i]]
  BY DEF WeightedShares
<1> DEFINE n == Len(Primaries)
           total == CumulativeWeight[n]
<1>1. /\ n \in Nat /\ DOMAIN Primaries = 1 .. n /\ i - 1 \in 0 .. n /\ i \in 0 .. n /\ n \in 0 .. n /\ i \in 1 .. n
  BY RuleFacts
<1>2. /\ total \in Nat \ {0} /\ CumulativeWeight[i - 1] \in Nat /\ CumulativeWeight[i] \in Nat
      /\ Weight[Primaries[i]] \in Nat
      /\ CumulativeWeight[i] = CumulativeWeight[i - 1] + Weight[Primaries[i]]
  <2>1. total \in Nat \ {0}
    BY WeightedHits
  <2>2. Weight[Primaries[i]] \in Nat
    BY RuleFacts, RuleAssumption
  <2> HIDE DEF n, total
  <2> QED
    BY <1>1, <2>1, <2>2, Weights DEF n
<1>3. CumulativeWeight[i] <= total
  BY <1>1, WeightsGrow
<1>4. \A k \in position .. position + total - 1 :
         Entry(k) = i <=> CumulativeWeight[i - 1] <= k % total /\ k % total < CumulativeWeight[i]
  <2>1. \A k \in position .. position + total - 1 : k \in Nat
    BY <1>2
  <2> QED
    BY <2>1, EntryIs
<1> DEFINE lo == CumulativeWeight[i - 1]
           hi == CumulativeWeight[i]
<1> HIDE DEF n, total, lo, hi
<1>5. {k \in position .. position + total - 1 : Entry(k) = i}
        = {k \in position .. position + total - 1 : lo <= k % total /\ k % total < hi}
  BY <1>4 DEF lo, hi
<1>6. Cardinality({k \in position .. position + total - 1 : lo <= k % total /\ k % total < hi}) = hi - lo
  <2>1. total \in Nat \ {0} /\ lo \in Nat /\ hi \in Nat /\ lo <= hi /\ hi <= total
    BY <1>2, <1>3 DEF lo, hi
  <2> QED
    BY <2>1, OneTurn, ZenonT(60)
<1>7. hi - lo = Weight[Primaries[i]]
  BY <1>2 DEF lo, hi
<1> QED
  BY <1>5, <1>6, <1>7 DEF total, n

LEMMA ChoiceListed ==
  ASSUME rule \in Rules, position \in Nat, Choice # NoProvider
  PROVE  /\ Choice \in Listed
         /\ Kind = "limits" => Choice \notin DOMAIN Live(limits)
<1>1. /\ Primaries \in Seq(Providers) /\ Len(Primaries) \in Nat \ {0} /\ DOMAIN Primaries = 1 .. Len(Primaries)
      /\ \A i \in 1 .. Len(Primaries) : Primaries[i] \in Listed
  BY RuleFacts DEF ToSet
<1>2. CASE Kind = "direct"
  <2>1. Choice = Primaries[1]
    BY <1>2 DEF Choice
  <2> QED
    BY <1>1, <1>2, <2>1
<1>3. CASE Kind = "roundRobin"
  <2>1. Choice = Primaries[(position % Len(Primaries)) + 1]
    BY <1>3 DEF Choice
  <2>2. position % Len(Primaries) \in 0 .. Len(Primaries) - 1
    BY <1>1
  <2> QED
    BY <1>1, <1>3, <2>1, <2>2
<1>4. CASE Kind = "weighted"
  <2>1. Choice = Primaries[Entry(position)]
    BY <1>4 DEF Choice
  <2>2. \E i \in DOMAIN Primaries : Choice = Primaries[i]
    BY <1>4, <2>1, WeightedHits DEF Entry
  <2> QED
    BY <1>1, <1>4, <2>2
<1>5. CASE Kind = "limits"
  <2>1. Choice = IF Free = {} THEN NoProvider ELSE Candidates[Min(Free)]
    BY <1>5 DEF Choice
  <2>2. Candidates \in Seq(Providers) /\ DOMAIN Candidates \subseteq Nat
    BY RuleFacts, ConcatProperties DEF Candidates
  <2>3. Free # {} /\ Free \subseteq Nat
    BY <2>1, <2>2 DEF Free
  <2>4. Min(Free) \in Free
    BY <2>3, MinIsLeast
  <2> QED
    BY <2>1, <2>3, <2>4 DEF Free, Listed, ToSet, Candidates
<1> QED
  BY <1>2, <1>3, <1>4, <1>5, RuleFacts

-----------------------------------------------------------------------------
(* What a request has been through *)

(* The lists of a rule name no provider for two purposes.                  *)
ListsApart ==
    \A rl \in Rules :
        /\ IsInjective(rl.fallbacks)
        /\ ToSet(rl.fallbacks) \cap (ToSet(rl.primaries) \cup ToSet(rl.alternatives)) = {}

TypeInv ==
    /\ rule \in Rules
    /\ position \in Nat
    /\ pc \in [Requests -> {"new", "openStream", "streaming", "try", "await", "reselect", "fallback", "done"}]
    /\ target \in [Requests -> Providers \cup {NoProvider}]
    /\ \A r \in Requests : pc[r] \notin {"new", "done"} => target[r] \in Providers
    /\ phase \in [Requests -> {"primary", "alternative", "fallback"}]
    /\ tried \in [Requests -> Seq(Providers)]
    /\ limited \in [Requests -> BOOLEAN]
    /\ next \in [Requests -> Nat \ {0}]
    /\ notice \in [Requests -> {"none", "rateLimit", "serviceIssue", "circuitBreaker"}]
    /\ result \in [Requests -> {"none", "ok", "noProvider", "allFailed", "cancelled"}]
    /\ contacted \in [Requests -> Seq(Providers)]
    /\ refused \in [Requests -> SUBSET Providers]

(* The fallbacks a request has turned to.                                  *)
Used(r) == {Fallbacks[i] : i \in 1 .. next[r] - 1}

Offered(r) == ToSet(contacted[r]) \cup refused[r]

Trying(r) == pc[r] \in {"try", "await"}

(* A provider is contacted because it was selected or is a fallback whose  *)
(* turn has come, and all of these but the one in hand have been offered   *)
(* the request.                                                            *)
Complete(r) ==
    /\ next[r] \in 1 .. Len(Fallbacks) + 1
    /\ ToSet(tried[r]) \subseteq Listed
    /\ ToSet(contacted[r]) \subseteq ToSet(tried[r]) \cup Used(r)
    /\ IsInjective(contacted[r])
    /\ pc[r] = "try" => target[r] \in (ToSet(tried[r]) \cup Used(r)) \ ToSet(contacted[r])
    /\ pc[r] \in {"try", "await", "reselect", "fallback"} =>
          /\ tried[r] # << >>
          /\ {tried[r][1]} \cup Used(r) \subseteq Offered(r) \cup (IF pc[r] = "try" THEN {target[r]} ELSE {})
    /\ result[r] = "allFailed" => {tried[r][1]} \cup ToSet(Fallbacks) \subseteq Offered(r)

(* A rate limit is the reason only if the first selection met one.         *)
Truthful(r) ==
    /\ Trying(r) => (notice[r] # "none" <=> IsTold(r) /\ target[r] # tried[r][1])
    /\ Trying(r) => notice[r] # "circuitBreaker"
    /\ Trying(r) /\ phase[r] = "primary" =>
          contacted[r] = IF pc[r] = "await" THEN <<target[r]>> ELSE << >>
    /\ Trying(r) /\ phase[r] = "primary" => target[r] = tried[r][1]
    /\ limited[r] \/ phase[r] = "alternative" \/ pc[r] = "reselect" \/ (Trying(r) /\ notice[r] = "rateLimit") =>
          contacted[r] # << >> /\ contacted[r][1] = tried[r][1]

Sending(r) == pc[r] \notin {"openStream", "streaming"} /\ Complete(r) /\ Truthful(r)

Streamed(r) ==
    /\ pc[r] \in {"new", "openStream", "streaming", "done"}
    /\ pc[r] \in {"new", "openStream"} => contacted[r] = << >>
    /\ IsInjective(contacted[r])
    /\ pc[r] = "openStream" => target[r] = tried[r][1] /\ target[r] \in Listed /\ notice[r] = "none"
    /\ pc[r] = "streaming" =>
          /\ notice[r] # "none" <=> IsTold(r) /\ target[r] # tried[r][1]
          /\ notice[r] # "rateLimit"
          /\ notice[r] = "circuitBreaker" => tried[r][1] \in refused[r]

Untouched(r) ==
    /\ phase[r] = "primary" /\ ~limited[r] /\ next[r] = 1
    /\ tried[r] = << >> /\ contacted[r] = << >> /\ result[r] = "none"

RequestAt(r) ==
    /\ pc[r] = "new" => Untouched(r)
    /\ IF r \in Streams THEN Streamed(r) ELSE Sending(r)

RequestInv == TypeInv /\ \A r \in Requests : RequestAt(r)

LEMMA RequestInit == Init => RequestInv
<1> SUFFICES ASSUME Init PROVE RequestInv
  OBVIOUS
<1>1. TypeInv
  BY DEF Init, TypeInv
<1>2. ASSUME NEW r \in Requests PROVE RequestAt(r)
  <2>1. /\ pc[r] = "new" /\ phase[r] = "primary" /\ ~limited[r] /\ next[r] = 1
        /\ tried[r] = << >> /\ contacted[r] = << >> /\ result[r] = "none"
    BY DEF Init
  <2>2. ToSet(<< >>) = {} /\ IsInjective(<< >>)
    BY DEF ToSet, IsInjective
  <2>3. Fallbacks \in Seq(Providers)
    BY <1>1, RuleFacts DEF TypeInv
  <2> QED
    BY <2>1, <2>2, <2>3 DEF RequestAt, Untouched, Streamed, Sending, Complete, Truthful, Trying
<1> QED
  BY <1>1, <1>2 DEF RequestInv

(* Of all requests, a step changes the local state of r only.              *)
OnlyMoves(r) ==
    /\ rule' = rule
    /\ \A q \in Requests \ {r} :
          /\ pc'[q] = pc[q] /\ target'[q] = target[q] /\ phase'[q] = phase[q] /\ tried'[q] = tried[q]
          /\ limited'[q] = limited[q] /\ next'[q] = next[q] /\ notice'[q] = notice[q]
          /\ result'[q] = result[q] /\ contacted'[q] = contacted[q] /\ refused'[q] = refused[q]

Moves(r) == TypeInv' /\ OnlyMoves(r)

LEMMA OneRequest ==
  ASSUME RequestInv, NEW r \in Requests, Moves(r), RequestAt(r)'
  PROVE  RequestInv'
<1>1. ASSUME NEW q \in Requests \ {r} PROVE RequestAt(q)'
  <2>1. RequestAt(q)
    BY DEF RequestInv
  <2>2. /\ rule' = rule
        /\ pc'[q] = pc[q] /\ target'[q] = target[q] /\ phase'[q] = phase[q] /\ tried'[q] = tried[q]
        /\ limited'[q] = limited[q] /\ next'[q] = next[q] /\ notice'[q] = notice[q]
        /\ result'[q] = result[q] /\ contacted'[q] = contacted[q] /\ refused'[q] = refused[q]
    BY DEF Moves, OnlyMoves
  <2>3. Fallbacks' = Fallbacks /\ Streams' = Streams /\ Listed' = Listed
    BY <2>2 DEF Fallbacks, Streams, Listed, Primaries, Alternatives
  <2>4. Used(q)' = Used(q) /\ Offered(q)' = Offered(q) /\ Trying(q)' = Trying(q) /\ IsTold(q)' = IsTold(q)
    BY <2>2, <2>3 DEF Used, Offered, Trying, IsTold
  <2>5. Untouched(q) => Untouched(q)'
    BY <2>2 DEF Untouched
  <2>6. Streamed(q) => Streamed(q)'
    BY <2>2, <2>3, <2>4 DEF Streamed
  <2>7. Complete(q) => Complete(q)'
    BY <2>2, <2>3, <2>4 DEF Complete
  <2>8. Truthful(q) => Truthful(q)'
    BY <2>2, <2>4 DEF Truthful
  <2> QED
    BY <2>1, <2>2, <2>3, <2>5, <2>6, <2>7, <2>8 DEF RequestAt, Sending
<1> QED
  BY <1>1 DEF RequestInv, Moves

LEMMA SelectMoves ==
  ASSUME TypeInv, Select
  PROVE  rule' = rule /\ position' \in Nat
BY RuleAssumption DEF TypeInv, Select

LEMMA FailMoves ==
  ASSUME TypeInv, NEW r \in Requests, NEW b \in BOOLEAN, Fail(r, b),
         position' = position, contacted' = contacted, refused' \in [Requests -> SUBSET Providers],
         \A q \in Requests \ {r} : refused'[q] = refused[q], pc[r] \notin {"new", "done"}
  PROVE  Moves(r)
BY DEF TypeInv, Fail, Goto, Moves, OnlyMoves

(* What opening a stream comes to. *)
Opens(r, p, S) ==
    /\ refused' = [refused EXCEPT ![r] = S] /\ UNCHANGED <<rule, position, tried, limited, next>>
    /\ \/ UNCHANGED <<target, phase, notice>>
       \/ Aim(r, p, "fallback", "circuitBreaker") /\ p \in ToSet(Fallbacks) /\ target[r] \in S
    /\ \/ Finish(r, "allFailed") /\ UNCHANGED contacted
       \/ /\ CB!Admits(breakers[p]) /\ Goto(r, "streaming")
          /\ contacted' = [contacted EXCEPT ![r] = <<p>>] /\ UNCHANGED result

LEMMA OpenStreamOpens ==
  ASSUME TypeInv, NEW r \in Requests, OpenStream(r)
  PROVE  \E p \in Providers, S \in SUBSET Providers : Opens(r, p, S)
<1> DEFINE order    == <<target[r]>> \o Fallbacks
           admitted == {i \in DOMAIN order : CB!Admits(breakers[order[i]])}
           q        == order[Min(admitted)]
<1>1. target[r] \in Providers
  BY DEF OpenStream, TypeInv
<1>2. DOMAIN order = 1 .. Len(order) /\ Len(order) \in Nat /\ \A i \in DOMAIN order : order[i] \in Providers
  <2>1. <<target[r]>> \in Seq(Providers) /\ Fallbacks \in Seq(Providers)
    BY <1>1, RuleFacts DEF TypeInv
  <2>2. order \in Seq(Providers)
    BY <2>1, ConcatProperties
  <2> HIDE DEF order
  <2> QED
    BY <2>2
<1>3. ToSet(order) \subseteq Providers
  BY <1>2 DEF ToSet
<1> HIDE DEF order
<1>4. admitted \subseteq Nat /\ admitted \subseteq DOMAIN order
  BY <1>2
<1>5. CASE admitted = {}
  <2>1. /\ Finish(r, "allFailed") /\ refused' = [refused EXCEPT ![r] = ToSet(order)]
        /\ UNCHANGED <<rule, target, phase, notice, contacted>>
        /\ UNCHANGED <<position, tried, limited, next>>
    BY <1>5 DEF OpenStream, order
  <2> QED
    BY <1>1, <1>3, <2>1 DEF Opens
<1>6. CASE admitted # {}
  <2>1. Min(admitted) \in admitted
    BY <1>4, <1>6, MinIsLeast
  <2>2. q \in Providers /\ CB!Admits(breakers[q])
    BY <1>2, <2>1
  <2> DEFINE S == {order[i] : i \in 1 .. Min(admitted) - 1}
  <2>3. S \in SUBSET Providers
    <3>1. \A i \in 1 .. Min(admitted) - 1 : i \in DOMAIN order
      BY <1>2, <1>4, <2>1
    <3> QED
      BY <1>2, <3>1
  <2>4. Min(admitted) # 1 => q \in ToSet(Fallbacks) /\ target[r] \in S
    <3>1. Fallbacks \in Seq(Providers) /\ DOMAIN Fallbacks = 1 .. Len(Fallbacks)
      BY RuleFacts DEF TypeInv
    <3>2. /\ Len(order) = Len(Fallbacks) + 1 /\ order[1] = target[r]
          /\ \A i \in 2 .. Len(order) : order[i] = Fallbacks[i - 1]
      BY <1>1, <3>1 DEF order
    <3> DEFINE m == Min(admitted)
    <3>3. m \in 1 .. Len(order)
      BY <1>2, <1>4, <2>1
    <3> HIDE DEF m
    <3>4. ASSUME m # 1 PROVE order[m] \in ToSet(Fallbacks) /\ order[1] \in {order[i] : i \in 1 .. m - 1}
      <4>1. m - 1 \in DOMAIN Fallbacks /\ order[m] = Fallbacks[m - 1] /\ 1 \in 1 .. m - 1
        BY <1>2, <3>1, <3>2, <3>3, <3>4
      <4> QED
        BY <4>1 DEF ToSet
    <3> QED
      BY <3>2, <3>4 DEF m
  <2> HIDE DEF admitted
  <2>5. /\ refused' = [refused EXCEPT ![r] = S]
        /\ \/ UNCHANGED <<target, phase, notice>>
           \/ Min(admitted) # 1 /\ Aim(r, q, "fallback", "circuitBreaker")
        /\ \/ Finish(r, "allFailed") /\ UNCHANGED contacted
           \/ Goto(r, "streaming") /\ contacted' = [contacted EXCEPT ![r] = <<q>>] /\ UNCHANGED result
        /\ UNCHANGED <<rule, position, tried, limited, next>>
    BY <1>6 DEF OpenStream, order, admitted
  <2> HIDE DEF q, S
  <2> QED
    BY <2>2, <2>3, <2>4, <2>5 DEF Opens
<1> QED
  BY <1>5, <1>6

(* Every step of a request keeps the types and all other requests.         *)
LEMMA StepMoves ==
  ASSUME TypeInv, NEW r \in rule.requests, Advance(r) \/ Answered(r) \/ Cancel(r)
  PROVE  r \in Requests /\ Moves(r)
<1>1. r \in Requests
  BY RuleAssumption DEF TypeInv, RuleShape
<1>2. Choice # NoProvider => Choice \in Providers
  BY ChoiceListed, RuleFacts DEF TypeInv
<1>3. Fallbacks \in Seq(Providers)
  BY RuleFacts DEF TypeInv
<1>4. CASE Route(r)
  <2>1. rule' = rule /\ position' \in Nat /\ Choice \in Providers
    BY <1>2, <1>4, SelectMoves DEF Route
  <2> QED
    BY <1>1, <1>4, <2>1 DEF Route, Goto, Aim, TypeInv, Moves, OnlyMoves
<1>5. CASE RouteFails(r)
  BY <1>1, <1>5, SelectMoves DEF RouteFails, Goto, Finish, TypeInv, Moves, OnlyMoves
<1>6. CASE Contact(r)
  <2>1. target[r] \in Providers
    BY <1>1, <1>6 DEF Contact, TypeInv
  <2> QED
    BY <1>1, <1>6, <2>1 DEF Contact, Goto, TypeInv, Moves, OnlyMoves
<1>7. CASE NotFound(r) \/ BreakerRefuses(r)
  <2>1. target[r] \in Providers
    BY <1>1, <1>7 DEF NotFound, BreakerRefuses, TypeInv
  <2>2. /\ Fail(r, FALSE) /\ position' = position /\ contacted' = contacted
        /\ refused' = [refused EXCEPT ![r] = @ \cup {target[r]}]
    BY <1>7 DEF NotFound, BreakerRefuses
  <2>3. /\ refused' \in [Requests -> SUBSET Providers]
        /\ \A q \in Requests \ {r} : refused'[q] = refused[q]
    BY <1>1, <2>1, <2>2 DEF TypeInv
  <2>4. target[r] \in Providers /\ pc[r] \notin {"new", "done"}
    BY <1>7, <2>1 DEF NotFound, BreakerRefuses
  <2> QED
    BY <1>1, <2>2, <2>3, <2>4, FailMoves
<1>8. CASE Reselect(r)
  <2>1. rule' = rule /\ position' \in Nat /\ Choice \in Providers
    BY <1>2, <1>8, SelectMoves DEF Reselect
  <2> QED
    BY <1>1, <1>8, <2>1 DEF Reselect, Goto, Aim, TypeInv, Moves, OnlyMoves
<1>9. CASE StopReselecting(r)
  BY <1>1, <1>9, SelectMoves DEF StopReselecting, Goto, TypeInv, Moves, OnlyMoves
<1>10. CASE TryFallback(r)
  BY <1>1, <1>3, <1>10 DEF TryFallback, Goto, Aim, TypeInv, Moves, OnlyMoves
<1>11. CASE GiveUp(r) \/ AnswerOk(r) \/ StreamAnswered(r) \/ Cancel(r)
  <2>1. PICK res \in {"ok", "allFailed", "cancelled"} :
          /\ Finish(r, res)
          /\ UNCHANGED <<rule, position, target, phase, tried, limited, next, notice, contacted, refused>>
    BY <1>11 DEF GiveUp, AnswerOk, StreamAnswered, Cancel
  <2> QED
    BY <1>1, <2>1 DEF Finish, Goto, TypeInv, Moves, OnlyMoves
<1>12. CASE AnswerError(r) \/ \E h \in RetryAfters \cup {NoHeader} : AnswerRateLimit(r, h)
  BY <1>1, <1>12, FailMoves DEF AnswerError, AnswerRateLimit, TypeInv
<1>13. CASE OpenStream(r)
  <2>1. PICK p \in Providers, S \in SUBSET Providers : Opens(r, p, S)
    BY <1>1, <1>13, OpenStreamOpens
  <2>2. <<p>> \in Seq(Providers)
    OBVIOUS
  <2>3. /\ refused' = [refused EXCEPT ![r] = S] /\ UNCHANGED <<rule, position, tried, limited, next>>
        /\ UNCHANGED <<target, phase, notice>> \/ Aim(r, p, "fallback", "circuitBreaker")
        /\ \/ Finish(r, "allFailed") /\ UNCHANGED contacted
           \/ Goto(r, "streaming") /\ contacted' = [contacted EXCEPT ![r] = <<p>>] /\ UNCHANGED result
    BY <2>1 DEF Opens
  <2>4. pc[r] = "openStream"
    BY <1>13 DEF OpenStream
  <2>5. /\ target' \in [Requests -> Providers \cup {NoProvider}] /\ target'[r] \in Providers
        /\ phase' \in [Requests -> {"primary", "alternative", "fallback"}]
        /\ notice' \in [Requests -> {"none", "rateLimit", "serviceIssue", "circuitBreaker"}]
        /\ \A q \in Requests \ {r} : target'[q] = target[q] /\ phase'[q] = phase[q] /\ notice'[q] = notice[q]
    <3>1. target[r] \in Providers
      BY <1>1, <2>4 DEF TypeInv
    <3>2. CASE UNCHANGED <<target, phase, notice>>
      BY <1>1, <3>1, <3>2 DEF TypeInv
    <3>3. CASE Aim(r, p, "fallback", "circuitBreaker")
      BY <1>1, <3>3 DEF Aim, TypeInv
    <3> QED
      BY <2>3, <3>2, <3>3
  <2>6. /\ contacted' \in [Requests -> Seq(Providers)]
        /\ \A q \in Requests \ {r} : contacted'[q] = contacted[q]
    BY <1>1, <2>2, <2>3 DEF TypeInv
  <2>7. /\ pc' \in [Requests -> {"new", "openStream", "streaming", "try", "await", "reselect", "fallback", "done"}]
        /\ result' \in [Requests -> {"none", "ok", "noProvider", "allFailed", "cancelled"}]
        /\ \A q \in Requests \ {r} : pc'[q] = pc[q] /\ result'[q] = result[q]
    BY <1>1, <2>3 DEF Goto, Finish, TypeInv
  <2>8. refused' \in [Requests -> SUBSET Providers] /\ \A q \in Requests \ {r} : refused'[q] = refused[q]
    BY <1>1, <2>3 DEF TypeInv
  <2> QED
    BY <1>1, <2>3, <2>5, <2>6, <2>7, <2>8 DEF TypeInv, Moves, OnlyMoves
<1> QED
  BY <1>4, <1>5, <1>6, <1>7, <1>8, <1>9, <1>10, <1>11, <1>12, <1>13 DEF Advance, Answered

(* A step of r that leaves a component of it alone. *)
LEMMA SameLists ==
  ASSUME rule' = rule
  PROVE  /\ Fallbacks' = Fallbacks /\ Listed' = Listed /\ Streams' = Streams
         /\ \A r \in Requests : IsTold(r)' = IsTold(r)
BY DEF Fallbacks, Listed, Streams, Primaries, Alternatives, IsTold

LEMMA FallbackFacts ==
  ASSUME ListsApart, rule \in Rules
  PROVE  /\ Fallbacks \in Seq(Providers) /\ IsInjective(Fallbacks)
         /\ DOMAIN Fallbacks = 1 .. Len(Fallbacks) /\ Len(Fallbacks) \in Nat
         /\ ToSet(Fallbacks) \cap Listed = {}
<1>1. /\ Fallbacks \in Seq(Providers) /\ IsInjective(Fallbacks)
      /\ ToSet(Fallbacks) \cap (ToSet(Primaries) \cup ToSet(Alternatives)) = {}
  BY RuleFacts DEF ListsApart, Fallbacks, Primaries, Alternatives
<1>2. Listed = ToSet(Primaries) \cup ToSet(Alternatives)
  BY RuleFacts
<1>3. DOMAIN Fallbacks = 1 .. Len(Fallbacks) /\ Len(Fallbacks) \in Nat
  BY <1>1
<1> QED
  BY <1>1, <1>2, <1>3

(* The first provider: the selection, of a request or of a stream. *)
LEMMA RouteLocal ==
  ASSUME RequestInv, NEW r \in Requests, Route(r) \/ RouteFails(r), Moves(r)
  PROVE  RequestAt(r)'
<1>1. /\ pc[r] = "new" /\ RequestAt(r) /\ Untouched(r) /\ rule \in Rules /\ position \in Nat
  BY DEF RequestInv, RequestAt, TypeInv, Route, RouteFails
<1>2. /\ Fallbacks' = Fallbacks /\ Listed' = Listed /\ Streams' = Streams /\ Len(Fallbacks) \in Nat
      /\ IsTold(r)' = IsTold(r)
  BY <1>1, RuleFacts, SameLists DEF Moves, OnlyMoves
<1>3. ToSet(<< >>) = {} /\ IsInjective(<< >>)
  BY DEF ToSet, IsInjective
<1>4. CASE Route(r)
  <2> DEFINE c == Choice
  <2>1. c \in Listed
    BY <1>1, <1>4, ChoiceListed DEF Route
  <2> HIDE DEF c
  <2>2. /\ pc'[r] = IF r \in Streams THEN "openStream" ELSE "try"
        /\ target'[r] = c /\ phase'[r] = "primary" /\ notice'[r] = "none" /\ tried'[r] = <<c>>
        /\ limited'[r] = limited[r] /\ next'[r] = next[r] /\ result'[r] = result[r]
        /\ contacted'[r] = contacted[r] /\ refused'[r] = refused[r]
    BY <1>4 DEF Route, Goto, Aim, RequestInv, TypeInv, c
  <2>3. ToSet(<<c>>) = {c} /\ <<c>> # << >> /\ <<c>>[1] = c
    BY DEF ToSet
  <2> QED
    BY <1>1, <1>2, <1>3, <2>1, <2>2, <2>3
    DEF Untouched, RequestAt, Streamed, Sending, Complete, Truthful, Trying, Used, Offered
<1>5. CASE RouteFails(r)
  <2>1. /\ pc'[r] = "done" /\ result'[r] = "noProvider"
        /\ target'[r] = target[r] /\ phase'[r] = phase[r] /\ tried'[r] = tried[r]
        /\ limited'[r] = limited[r] /\ next'[r] = next[r] /\ notice'[r] = notice[r]
        /\ contacted'[r] = contacted[r] /\ refused'[r] = refused[r]
    BY <1>5 DEF RouteFails, Goto, Finish, RequestInv, TypeInv
  <2> QED
    BY <1>1, <1>2, <1>3, <2>1
    DEF Untouched, RequestAt, Streamed, Sending, Complete, Truthful, Trying, Used, Offered
<1> QED
  BY <1>4, <1>5

(* try_provider: the provider is contacted ... *)
LEMMA ContactLocal ==
  ASSUME RequestInv, NEW r \in Requests, Contact(r), Moves(r)
  PROVE  RequestAt(r)'
<1>1. pc[r] = "try" /\ RequestAt(r) /\ r \notin Streams /\ Complete(r) /\ Truthful(r) /\ rule \in Rules
  BY DEF RequestInv, RequestAt, TypeInv, Contact, Streamed, Sending
<1>2. Fallbacks' = Fallbacks /\ Listed' = Listed /\ Streams' = Streams /\ IsTold(r)' = IsTold(r)
  BY SameLists DEF Moves, OnlyMoves
<1> DEFINE p == target[r]
           c == contacted[r]
<1>3. p \in Providers /\ c \in Seq(Providers)
  BY <1>1 DEF RequestInv, TypeInv
<1>4. /\ pc'[r] = "await" /\ contacted'[r] = Append(c, p)
      /\ target'[r] = target[r] /\ phase'[r] = phase[r] /\ tried'[r] = tried[r]
      /\ limited'[r] = limited[r] /\ next'[r] = next[r] /\ notice'[r] = notice[r]
      /\ result'[r] = result[r] /\ refused'[r] = refused[r]
  BY DEF Contact, Goto, RequestInv, TypeInv
<1> DEFINE d == Append(c, p)
<1>5. /\ d # << >> /\ ToSet(d) = ToSet(c) \cup {p} /\ (c # << >> => d[1] = c[1])
      /\ (IsInjective(c) /\ p \notin ToSet(c) => IsInjective(d))
      /\ (c = << >> => d = <<p>>)
  <2>1. c = << >> => d = <<p>>
    BY <1>3
  <2> HIDE DEF c, p
  <2> QED
    BY <1>3, <2>1, AppendFacts
<1> HIDE DEF d
<1>6. contacted'[r] = d
  BY <1>4 DEF d
<1>7. p \in ToSet(tried[r]) \cup Used(r)
  BY <1>1 DEF RequestInv, Complete
<1>8. Complete(r)'
  BY <1>1, <1>2, <1>4, <1>5, <1>6, <1>7 DEF Complete, Used, Offered
<1>9. Truthful(r)'
  BY <1>1, <1>2, <1>4, <1>5, <1>6 DEF Truthful, Trying
<1> QED
  BY <1>1, <1>2, <1>4, <1>8, <1>9 DEF RequestAt, Sending

(* ... or it fails, before or after it was contacted. *)
LEMMA FailLocal ==
  ASSUME RequestInv, NEW r \in Requests, NEW b \in BOOLEAN, Fail(r, b), Moves(r), contacted' = contacted,
         \/ pc[r] = "try" /\ ~b /\ refused'[r] = refused[r] \cup {target[r]}
         \/ pc[r] = "await" /\ refused'[r] = refused[r]
  PROVE  RequestAt(r)'
<1>1. /\ pc[r] \in {"try", "await"} /\ RequestAt(r) /\ r \notin Streams
      /\ Complete(r) /\ Truthful(r) /\ rule \in Rules
  BY DEF RequestInv, RequestAt, TypeInv, Streamed, Sending
<1>2. Fallbacks' = Fallbacks /\ Listed' = Listed /\ Streams' = Streams /\ IsTold(r)' = IsTold(r)
  BY SameLists DEF Moves, OnlyMoves
<1>3. /\ pc'[r] \in {"reselect", "fallback"}
      /\ pc'[r] = "reselect" => phase[r] # "fallback" /\ b
      /\ limited'[r] = IF phase[r] = "primary" THEN b ELSE limited[r]
      /\ target'[r] = target[r] /\ phase'[r] = phase[r] /\ tried'[r] = tried[r]
      /\ next'[r] = next[r] /\ notice'[r] = notice[r] /\ result'[r] = result[r] /\ contacted'[r] = contacted[r]
  BY DEF Fail, Goto, RequestInv, TypeInv
<1>4. refused[r] \subseteq refused'[r] /\ (pc[r] = "try" => target[r] \in refused'[r])
  BY <1>1
<1>5. Complete(r)'
  BY <1>1, <1>2, <1>3, <1>4 DEF Complete, Used, Offered
<1>6. Truthful(r)'
  <2>1. phase[r] \in {"primary", "alternative", "fallback"}
    BY DEF RequestInv, TypeInv
  <2>2. ASSUME limited'[r] \/ phase[r] = "alternative" \/ pc'[r] = "reselect"
        PROVE  contacted[r] # << >> /\ contacted[r][1] = tried[r][1]
    <3>1. CASE phase[r] = "primary"
      <4>1. b
        BY <1>3, <2>2, <3>1
      <4>2. pc[r] = "await" /\ contacted[r] = <<target[r]>> /\ target[r] = tried[r][1]
        BY <1>1, <3>1, <4>1 DEF Truthful, Trying
      <4> QED
        BY <4>2
    <3>2. CASE phase[r] # "primary"
      BY <1>1, <1>3, <2>1, <2>2, <3>2 DEF Truthful
    <3> QED
      BY <3>1, <3>2
  <2> QED
    BY <1>3, <2>2 DEF Truthful, Trying
<1> QED
  BY <1>1, <1>2, <1>3, <1>5, <1>6 DEF RequestAt, Sending

(* The end of a request. *)
LEMMA DoneLocal ==
  ASSUME RequestInv, NEW r \in Requests, NEW res, Finish(r, res), Moves(r),
         UNCHANGED <<target, phase, tried, limited, next, notice, contacted, refused>>,
         pc[r] # "new",
         res = "allFailed" /\ r \notin Streams => pc[r] = "fallback" /\ next[r] > Len(Fallbacks)
  PROVE  RequestAt(r)'
<1>1. RequestAt(r) /\ rule \in Rules
  BY DEF RequestInv, TypeInv
<1>2. Fallbacks' = Fallbacks /\ Listed' = Listed /\ Streams' = Streams /\ IsTold(r)' = IsTold(r)
  BY SameLists DEF Moves, OnlyMoves
<1>3. pc'[r] = "done" /\ result'[r] = res
  BY DEF Finish, Goto, RequestInv, TypeInv
<1>4. CASE r \in Streams
  BY <1>1, <1>2, <1>3, <1>4 DEF RequestAt, Streamed
<1>5. CASE r \notin Streams
  <2>1. Complete(r) /\ Truthful(r)
    BY <1>1, <1>5 DEF RequestAt, Sending
  <2>2. next[r] > Len(Fallbacks) => ToSet(Fallbacks) \subseteq Used(r)
    <3>1. /\ DOMAIN Fallbacks = 1 .. Len(Fallbacks) /\ Len(Fallbacks) \in Nat
          /\ next[r] \in 1 .. Len(Fallbacks) + 1
      BY <1>1, <2>1, RuleFacts DEF Complete
    <3> QED
      BY <3>1 DEF ToSet, Used
  <2>3. Complete(r)'
    BY <1>2, <1>3, <1>5, <2>1, <2>2 DEF Complete, Used, Offered
  <2>4. Truthful(r)'
    BY <1>3, <2>1 DEF Truthful, Trying
  <2> QED
    BY <1>2, <1>3, <1>5, <2>3, <2>4 DEF RequestAt, Sending
<1> QED
  BY <1>4, <1>5

(* The loop over alternatives. *)
LEMMA ReselectLocal ==
  ASSUME ListsApart, RequestInv, NEW r \in Requests, Reselect(r) \/ StopReselecting(r), Moves(r)
  PROVE  RequestAt(r)'
<1>1. /\ pc[r] = "reselect" /\ RequestAt(r) /\ r \notin Streams /\ Complete(r) /\ Truthful(r)
      /\ rule \in Rules /\ position \in Nat /\ tried[r] \in Seq(Providers) /\ tried[r] # << >>
  BY DEF RequestInv, RequestAt, TypeInv, Reselect, StopReselecting, Streamed, Sending, Complete
<1>2. Fallbacks' = Fallbacks /\ Listed' = Listed /\ Streams' = Streams /\ IsTold(r)' = IsTold(r)
  BY SameLists DEF Moves, OnlyMoves
<1>3. CASE Reselect(r)
  <2> DEFINE c == Choice
             t == Append(tried[r], c)
  <2>1. c \in Listed /\ c \in Providers /\ c \notin ToSet(tried[r])
    <3>1. c \in Listed /\ c \in Providers
      BY <1>1, <1>3, ChoiceListed, RuleFacts DEF Reselect
    <3>2. ~Contains(tried[r], c)
      BY <1>3 DEF Reselect
    <3>3. DOMAIN tried[r] = 1 .. Len(tried[r])
      BY <1>1
    <3> QED
      BY <3>1, <3>2, <3>3 DEF Contains, ToSet
  <2> HIDE DEF c
  <2>2. t # << >> /\ ToSet(t) = ToSet(tried[r]) \cup {c} /\ t[1] = tried[r][1]
    BY <1>1, <2>1, AppendFacts
  <2>3. /\ pc'[r] = "try" /\ target'[r] = c /\ phase'[r] = "alternative"
        /\ notice'[r] = IF IsTold(r) THEN "rateLimit" ELSE "none"
        /\ tried'[r] = t /\ limited'[r] = limited[r] /\ next'[r] = next[r] /\ result'[r] = result[r]
        /\ contacted'[r] = contacted[r] /\ refused'[r] = refused[r]
    BY <1>3 DEF Reselect, Goto, Aim, RequestInv, TypeInv, c
  <2> HIDE DEF t
  <2>4. Used(r)' = Used(r) /\ Offered(r)' = Offered(r)
    BY <1>2, <2>3 DEF Used, Offered
  <2>5. c \notin ToSet(contacted[r])
    <3>1. c \notin Used(r)
      <4>1. Used(r) \subseteq ToSet(Fallbacks)
        BY <1>1, FallbackFacts DEF Used, ToSet, Complete
      <4> QED
        BY <1>1, <2>1, <4>1, FallbackFacts
    <3> QED
      BY <1>1, <2>1, <3>1 DEF Complete
  <2>6. tried[r][1] \in ToSet(tried[r])
    BY <1>1 DEF ToSet
  <2>7. Complete(r)'
    BY <1>1, <1>2, <2>1, <2>2, <2>3, <2>4, <2>5 DEF Complete
  <2>8. Truthful(r)'
    <3>1. /\ notice'[r] # "none" <=> IsTold(r)'
          /\ notice'[r] # "circuitBreaker"
      BY <1>2, <2>3
    <3>2. target'[r] # tried'[r][1]
      BY <2>1, <2>2, <2>3, <2>6
    <3>3. contacted'[r] # << >> /\ contacted'[r][1] = tried'[r][1]
      BY <1>1, <2>2, <2>3 DEF Truthful
    <3> QED
      BY <2>3, <3>1, <3>2, <3>3 DEF Truthful, Trying
  <2> QED
    BY <1>1, <1>2, <2>3, <2>7, <2>8 DEF RequestAt, Sending
<1>4. CASE StopReselecting(r)
  <2>1. /\ pc'[r] = "fallback"
        /\ UNCHANGED <<target, phase, tried, limited, next, notice, result, contacted, refused>>
    BY <1>4 DEF StopReselecting, Goto, RequestInv, TypeInv
  <2>2. Complete(r)'
    BY <1>1, <1>2, <2>1 DEF Complete, Used, Offered
  <2>3. Truthful(r)'
    BY <1>1, <2>1 DEF Truthful, Trying
  <2> QED
    BY <1>1, <1>2, <2>1, <2>2, <2>3 DEF RequestAt, Sending
<1> QED
  BY <1>3, <1>4

(* The loop over fallbacks. *)
LEMMA FallbackLocal ==
  ASSUME ListsApart, RequestInv, NEW r \in Requests, TryFallback(r), Moves(r)
  PROVE  RequestAt(r)'
<1>1. /\ pc[r] = "fallback" /\ RequestAt(r) /\ r \notin Streams /\ Complete(r) /\ Truthful(r)
      /\ rule \in Rules /\ tried[r] \in Seq(Providers) /\ tried[r] # << >>
  BY DEF RequestInv, RequestAt, TypeInv, TryFallback, Streamed, Sending, Complete
<1>2. Fallbacks' = Fallbacks /\ Listed' = Listed /\ Streams' = Streams /\ IsTold(r)' = IsTold(r)
  BY SameLists DEF Moves, OnlyMoves
<1> DEFINE k == next[r]
           f == Fallbacks[k]
<1>3. /\ k \in 1 .. Len(Fallbacks) /\ k \in DOMAIN Fallbacks /\ Len(Fallbacks) \in Nat
      /\ IsInjective(Fallbacks) /\ DOMAIN Fallbacks = 1 .. Len(Fallbacks)
      /\ ToSet(Fallbacks) \cap Listed = {}
  BY <1>1, FallbackFacts DEF TryFallback, Complete
<1>4. /\ pc'[r] = "try" /\ target'[r] = f /\ phase'[r] = "fallback" /\ next'[r] = k + 1
      /\ notice'[r] = IF ~IsTold(r) THEN "none" ELSE IF limited[r] THEN "rateLimit" ELSE "serviceIssue"
      /\ UNCHANGED <<tried, limited, result, contacted, refused>>
  BY DEF TryFallback, Goto, Aim, RequestInv, TypeInv
<1>5. f \in ToSet(Fallbacks) /\ f \notin Used(r)
  BY <1>3 DEF ToSet, Used, IsInjective
<1> HIDE DEF f
<1>6. Used(r)' = Used(r) \cup {f}
  <2>1. Used(r)' = {Fallbacks[i] : i \in 1 .. k}
    BY <1>2, <1>3, <1>4 DEF Used
  <2>2. 1 .. k = (1 .. k - 1) \cup {k}
    BY <1>3
  <2> QED
    BY <2>1, <2>2 DEF Used, f
<1>7. f \notin ToSet(tried[r]) /\ tried[r][1] \in ToSet(tried[r])
  BY <1>1, <1>3, <1>5 DEF Complete, ToSet
<1>8. Offered(r)' = Offered(r)
  BY <1>4 DEF Offered
<1> HIDE DEF k
<1>9. Complete(r)'
  <2>1. next'[r] \in 1 .. Len(Fallbacks) + 1
    BY <1>3, <1>4
  <2> QED
    BY <1>1, <1>2, <1>4, <1>5, <1>6, <1>7, <1>8, <2>1 DEF Complete
<1>10. Truthful(r)'
  <2>1. /\ notice'[r] # "none" <=> IsTold(r)'
        /\ notice'[r] # "circuitBreaker"
        /\ notice'[r] = "rateLimit" => limited[r]
    BY <1>2, <1>4
  <2>2. target'[r] # tried'[r][1]
    BY <1>4, <1>7
  <2>3. limited[r] => contacted'[r] # << >> /\ contacted'[r][1] = tried'[r][1]
    BY <1>1, <1>4 DEF Truthful
  <2> QED
    BY <1>4, <2>1, <2>2, <2>3 DEF Truthful, Trying
<1> QED
  BY <1>1, <1>2, <1>4, <1>9, <1>10 DEF RequestAt, Sending

(* stream(): at most one provider is contacted. *)
LEMMA OpenLocal ==
  ASSUME ListsApart, RequestInv, NEW r \in Requests, OpenStream(r), Moves(r)
  PROVE  RequestAt(r)'
<1>1. /\ pc[r] = "openStream" /\ RequestAt(r) /\ r \in Streams /\ contacted[r] = << >> /\ TypeInv
      /\ target[r] = tried[r][1] /\ target[r] \in Listed /\ notice[r] = "none"
  BY DEF RequestInv, RequestAt, OpenStream, Sending, Streamed
<1>2. Streams' = Streams /\ IsTold(r)' = IsTold(r)
  BY SameLists DEF Moves, OnlyMoves
<1>3. PICK p \in Providers, S \in SUBSET Providers : Opens(r, p, S)
  BY <1>1, OpenStreamOpens
<1>4. IsInjective(<< >>) /\ IsInjective(<<p>>)
  BY DEF IsInjective
<1>5. /\ pc'[r] \in {"streaming", "done"} /\ contacted'[r] \in {<< >>, <<p>>}
      /\ tried'[r] = tried[r] /\ refused'[r] = S
  BY <1>1, <1>3 DEF Opens, Goto, Finish, TypeInv
<1>6. \/ target'[r] = target[r] /\ notice'[r] = "none"
      \/ /\ target'[r] = p /\ p # target[r] /\ target[r] \in S
         /\ notice'[r] = IF IsTold(r) THEN "circuitBreaker" ELSE "none"
  <2>1. p \in ToSet(Fallbacks) => p # target[r]
    BY <1>1, FallbackFacts DEF TypeInv
  <2>2. CASE UNCHANGED <<target, phase, notice>>
    BY <1>1, <2>2
  <2>3. CASE Aim(r, p, "fallback", "circuitBreaker") /\ p \in ToSet(Fallbacks) /\ target[r] \in S
    BY <1>1, <2>1, <2>3 DEF Aim, TypeInv
  <2> QED
    BY <1>3, <2>2, <2>3 DEF Opens
<1> QED
  BY <1>1, <1>2, <1>4, <1>5, <1>6 DEF RequestAt, Streamed

LEMMA RequestStep == ListsApart /\ RequestInv /\ [Next]_vars => RequestInv'
<1> SUFFICES ASSUME ListsApart, RequestInv, [Next]_vars PROVE RequestInv'
  OBVIOUS
<1>1. CASE Tick \/ UNCHANGED vars
  <2>1. /\ UNCHANGED <<rule, position, pc, target, phase, tried, limited, next, notice, result, contacted, refused>>
    BY <1>1 DEF Tick, local, vars
  <2>2. TypeInv'
    BY <2>1 DEF RequestInv, TypeInv
  <2>3. /\ Fallbacks' = Fallbacks /\ Listed' = Listed /\ Streams' = Streams
        /\ \A r \in Requests : IsTold(r)' = IsTold(r)
    BY <2>1, SameLists
  <2>4. ASSUME NEW r \in Requests PROVE RequestAt(r)'
    <3>1. RequestAt(r)
      BY DEF RequestInv
    <3>2. Used(r)' = Used(r) /\ Offered(r)' = Offered(r) /\ Trying(r)' = Trying(r) /\ IsTold(r)' = IsTold(r)
      BY <2>1, <2>3 DEF Used, Offered, Trying
    <3>3. Complete(r)' = Complete(r)
      BY <2>1, <2>3, <3>2 DEF Complete
    <3>4. Truthful(r)' = Truthful(r)
      BY <2>1, <3>2 DEF Truthful
    <3> QED
      BY <2>1, <2>3, <3>1, <3>2, <3>3, <3>4 DEF RequestAt, Untouched, Streamed, Sending
  <2> QED
    BY <2>2, <2>4 DEF RequestInv
<1>2. ASSUME NEW r \in rule.requests, Advance(r) \/ Answered(r) \/ Cancel(r) PROVE RequestInv'
  <2>1. r \in Requests /\ Moves(r)
    BY <1>2, StepMoves DEF RequestInv
  <2>2. CASE Route(r) \/ RouteFails(r)
    BY <2>1, <2>2, RouteLocal, OneRequest
  <2>3. CASE Contact(r)
    BY <2>1, <2>3, ContactLocal, OneRequest
  <2>4. CASE NotFound(r) \/ BreakerRefuses(r)
    <3>1. /\ Fail(r, FALSE) /\ contacted' = contacted /\ pc[r] = "try"
          /\ refused'[r] = refused[r] \cup {target[r]}
      BY <2>1, <2>4 DEF NotFound, BreakerRefuses, RequestInv, TypeInv
    <3>2. RequestAt(r)'
      BY <2>1, <3>1, FailLocal
    <3> QED
      BY <2>1, <3>2, OneRequest
  <2>5. CASE Reselect(r) \/ StopReselecting(r)
    BY <2>1, <2>5, ReselectLocal, OneRequest
  <2>6. CASE TryFallback(r)
    BY <2>1, <2>6, FallbackLocal, OneRequest
  <2>7. CASE GiveUp(r) \/ AnswerOk(r) \/ StreamAnswered(r) \/ Cancel(r)
    <3>1. PICK res \in {"ok", "allFailed", "cancelled"} :
            /\ Finish(r, res) /\ pc[r] # "new"
            /\ UNCHANGED <<target, phase, tried, limited, next, notice, contacted, refused>>
            /\ res = "allFailed" => pc[r] = "streaming" \/ (pc[r] = "fallback" /\ next[r] > Len(Fallbacks))
      BY <2>7 DEF GiveUp, AnswerOk, StreamAnswered, Cancel
    <3>2. pc[r] = "streaming" => r \in Streams
      BY <2>1 DEF RequestInv, RequestAt, Sending
    <3>3. RequestAt(r)'
      BY <2>1, <3>1, <3>2, DoneLocal
    <3> QED
      BY <2>1, <3>3, OneRequest
  <2>8. CASE AnswerError(r) \/ \E h \in RetryAfters \cup {NoHeader} : AnswerRateLimit(r, h)
    <3>1. PICK b \in BOOLEAN : Fail(r, b) /\ contacted' = contacted /\ pc[r] = "await" /\ refused' = refused
      BY <2>8 DEF AnswerError, AnswerRateLimit
    <3>2. RequestAt(r)'
      BY <2>1, <3>1, FailLocal
    <3> QED
      BY <2>1, <3>2, OneRequest
  <2>9. CASE OpenStream(r)
    BY <2>1, <2>9, OpenLocal, OneRequest
  <2> QED
    BY <1>2, <2>2, <2>3, <2>4, <2>5, <2>6, <2>7, <2>8, <2>9 DEF Advance, Answered
<1> QED
  BY <1>1, <1>2 DEF Next

LEMMA RequestsAreTold ==
  ASSUME RequestInv
  PROVE  EachProviderOnce /\ NoticeTellsTheTruth
<1> SUFFICES ASSUME NEW r \in Requests
             PROVE  /\ IsInjective(contacted[r])
                    /\ result[r] = "allFailed" /\ r \notin Streams =>
                           {tried[r][1]} \cup ToSet(Fallbacks) \subseteq ToSet(contacted[r]) \cup refused[r]
                    /\ pc[r] \in {"await", "streaming"} =>
                           /\ notice[r] # "none" <=> IsTold(r) /\ target[r] # tried[r][1]
                           /\ notice[r] = "rateLimit" => contacted[r][1] = tried[r][1]
                           /\ notice[r] = "circuitBreaker" => tried[r][1] \in refused[r]
  BY DEF EachProviderOnce, NoticeTellsTheTruth
<1>1. RequestAt(r)
  BY DEF RequestInv
<1>2. CASE r \in Streams
  BY <1>1, <1>2 DEF RequestAt, Streamed
<1>3. CASE r \notin Streams
  BY <1>1, <1>3 DEF RequestAt, Sending, Complete, Truthful, Trying, Offered
<1> QED
  BY <1>2, <1>3

(* EachProviderOnce for every rule whose lists do not overlap, and for any *)
(* number of requests: whatever limits run out and circuits open while     *)
(* send() runs, it offers the request to each provider at most once and    *)
(* gives up only after the selected one and all fallbacks.                 *)
THEOREM ProviderOnce == ASSUME ListsApart PROVE Spec => []EachProviderOnce
<1>1. RequestInv => EachProviderOnce
  BY RequestsAreTold
<1> QED
  BY <1>1, RequestInit, RequestStep, PTL DEF Spec

(* NoticeTellsTheTruth, likewise, for send() and stream(): a notice goes   *)
(* only to a provider that is not the selected one, and to each such one   *)
(* if notifications are on and the caller's message does not look like a   *)
(* notice; "rate limit" is its reason only when the selected provider was  *)
(* contacted, "circuit breaker" only when that one's breaker refused.      *)
THEOREM NoticesAreTrue == ASSUME ListsApart PROVE Spec => []NoticeTellsTheTruth
<1>1. RequestInv => NoticeTellsTheTruth
  BY RequestsAreTold
<1> QED
  BY <1>1, RequestInit, RequestStep, PTL DEF Spec

-----------------------------------------------------------------------------
(* The waits that providers asked for *)

(* MAX_RATE_LIMIT_ENTRIES is more than the providers there are: a full map *)
(* refuses to record a limit.                                              *)
FewProviders == IsFiniteSet(Providers) /\ Cardinality(Providers) < MaxEntries

(* What 2^n is; the provers know no more of it than that it is a number.   *)
PowersCount == \A n \in Nat : 2 ^ n \in Nat \ {0}

(* Nothing was sent for a request that is not under way.                   *)
RouteInv ==
    /\ TypeInv
    /\ \A r \in Requests : pc[r] \in {"new", "openStream"} => contacted[r] = << >>

LEMMA RouteInit == Init => RouteInv
BY RequestInit DEF Init, RouteInv, RequestInv

LEMMA RouteStep == RouteInv /\ [Next]_vars => RouteInv'
<1> SUFFICES ASSUME RouteInv, [Next]_vars PROVE RouteInv'
  OBVIOUS
<1>1. CASE Tick \/ UNCHANGED vars
  <2>1. /\ UNCHANGED <<rule, position, pc, target, phase, tried, limited, next, notice, result, contacted, refused>>
    BY <1>1 DEF Tick, local, vars
  <2> QED
    BY <2>1 DEF RouteInv, TypeInv
<1>2. ASSUME NEW r \in rule.requests, Advance(r) \/ Answered(r) \/ Cancel(r) PROVE RouteInv'
  <2>1. r \in Requests /\ Moves(r)
    BY <1>2, StepMoves DEF RouteInv
  <2>2. pc[r] = "new" => contacted[r] = << >>
    BY <2>1 DEF RouteInv
  <2>3. pc'[r] \in {"new", "openStream"} => pc[r] = "new" /\ contacted'[r] = contacted[r]
    <3>1. CASE OpenStream(r)
      <4>1. PICK p \in Providers, S \in SUBSET Providers : Opens(r, p, S)
        BY <2>1, <3>1, OpenStreamOpens DEF RouteInv
      <4> QED
        BY <2>1, <4>1 DEF Opens, Goto, Finish, RouteInv, TypeInv
    <3>2. CASE ~OpenStream(r)
      BY <1>2, <2>1, <3>2
      DEF Advance, Answered, Route, RouteFails, Contact, NotFound, BreakerRefuses, Reselect, StopReselecting,
          TryFallback, GiveUp, AnswerOk, AnswerError, AnswerRateLimit, StreamAnswered, Cancel,
          Fail, Goto, Finish, RouteInv, TypeInv
    <3> QED
      BY <3>1, <3>2
  <2>4. ASSUME NEW q \in Requests, pc'[q] \in {"new", "openStream"} PROVE contacted'[q] = << >>
    BY <2>1, <2>2, <2>3, <2>4 DEF Moves, OnlyMoves, RouteInv
  <2> QED
    BY <2>1, <2>4 DEF Moves, RouteInv
<1> QED
  BY <1>1, <1>2 DEF Next

(* WeightedShares for every rule, whatever requests select: of any turn of *)
(* the rotation, each entry of the list gets its weight - wherever the     *)
(* turn begins.                                                            *)
THEOREM SharesAreKept == Spec => []WeightedShares
<1>1. RouteInv => WeightedShares
  BY SharesOfOneTurn DEF RouteInv, TypeInv
<1> QED
  BY <1>1, RouteInit, RouteStep, PTL DEF Spec

(* A wait is over before the entry that keeps the strategy away is.        *)
LimitsInv ==
    /\ DOMAIN limits \subseteq Providers
    /\ \A p \in DOMAIN limits : limits[p] \in [left : Nat, count : Nat \ {0}]
    /\ owed \in [Providers -> Nat]
    /\ Kind = "limits" => \A p \in Providers : owed[p] > 0 => p \in DOMAIN limits /\ owed[p] <= limits[p].left

LEMMA LiveEntries ==
  ASSUME NEW l
  PROVE  /\ DOMAIN Live(l) = {p \in DOMAIN l : l[p].left > 0}
         /\ \A p \in DOMAIN Live(l) : Live(l)[p] = l[p]
BY DEF Live, Restrict

LEMMA LiveKeeps ==
  ASSUME LimitsInv
  PROVE  /\ DOMAIN Live(limits) \subseteq Providers
         /\ \A p \in DOMAIN Live(limits) : Live(limits)[p] \in [left : Nat, count : Nat \ {0}]
         /\ Kind = "limits" => \A p \in Providers :
               owed[p] > 0 => p \in DOMAIN Live(limits) /\ owed[p] <= Live(limits)[p].left
<1>1. /\ DOMAIN Live(limits) = {p \in DOMAIN limits : limits[p].left > 0}
      /\ \A p \in DOMAIN Live(limits) : Live(limits)[p] = limits[p]
  BY LiveEntries
<1>2. ASSUME NEW p \in Providers, Kind = "limits", owed[p] > 0
      PROVE  p \in DOMAIN Live(limits) /\ owed[p] <= Live(limits)[p].left
  <2>1. p \in DOMAIN limits /\ owed[p] <= limits[p].left /\ limits[p].left \in Nat /\ owed[p] \in Nat
    BY <1>2 DEF LimitsInv
  <2> QED
    BY <1>1, <1>2, <2>1
<1> QED
  BY <1>1, <1>2 DEF LimitsInv

(* A 429 is recorded, with at least the wait that it asked for.            *)
LEMMA RecordedFacts ==
  ASSUME FewProviders, PowersCount, LimitsInv, Kind = "limits", NEW p \in Providers,
         NEW h \in RetryAfters \cup {NoHeader}
  PROVE  LET new  == Recorded(p, h)
             wait == IF h = NoHeader THEN BackoffBase ELSE h
         IN  /\ wait \in Nat
             /\ DOMAIN new \subseteq Providers /\ p \in DOMAIN new
             /\ \A q \in DOMAIN new : new[q] \in [left : Nat, count : Nat \ {0}]
             /\ wait <= new[p].left
             /\ \A q \in Providers \ {p} : owed[q] > 0 => q \in DOMAIN new /\ owed[q] <= new[q].left
<1> DEFINE crowded == Cardinality(DOMAIN limits) >= (MaxEntries * 9) \div 10
           kept    == IF crowded THEN Live(limits) ELSE limits
           count   == IF p \in DOMAIN kept THEN kept[p].count + 1 ELSE 1
           entry   == [left |-> LimitDuration(h, count), count |-> count]
           new     == [q \in DOMAIN kept \cup {p} |-> IF q = p THEN entry ELSE kept[q]]
           wait    == IF h = NoHeader THEN BackoffBase ELSE h
<1>1. /\ DOMAIN kept \subseteq Providers
      /\ \A q \in DOMAIN kept : kept[q] \in [left : Nat, count : Nat \ {0}]
      /\ \A q \in Providers : owed[q] > 0 => q \in DOMAIN kept /\ owed[q] <= kept[q].left
  <2>1. CASE crowded
    BY <2>1, LiveKeeps
  <2>2. CASE ~crowded
    BY <2>2 DEF LimitsInv
  <2> QED
    BY <2>1, <2>2
<1>2. ~(Cardinality(DOMAIN kept) >= MaxEntries)
  <2> HIDE DEF kept
  <2>1. Cardinality(DOMAIN kept) <= Cardinality(Providers) /\ Cardinality(Providers) \in Nat
        /\ Cardinality(DOMAIN kept) \in Nat
    BY <1>1, FS_Subset, FS_CardinalityType DEF FewProviders
  <2>2. MaxEntries \in Nat
    BY RuleAssumption
  <2> QED
    BY <2>1, <2>2 DEF FewProviders
<1>3. Recorded(p, h) = new
  BY <1>2 DEF Recorded
<1> HIDE DEF kept, crowded
<1>4. count \in Nat \ {0}
  BY <1>1
<1> HIDE DEF count
<1>5. /\ wait \in Nat /\ LimitDuration(h, count) \in Nat /\ wait <= LimitDuration(h, count)
  <2>1. RetryAfters \subseteq Nat /\ BackoffBase \in Nat \ {0}
    BY RuleAssumption
  <2>2. CASE h = NoHeader
    <3>1. PICK k \in Nat \ {0} : k = 2 ^ (count - 1)
      BY <1>4 DEF PowersCount
    <3>2. LimitDuration(h, count) = BackoffBase * k
      BY <2>2, <3>1 DEF LimitDuration
    <3>3. BackoffBase * k \in Nat /\ BackoffBase <= BackoffBase * k
      BY <2>1, SMT
    <3> QED
      BY <2>1, <2>2, <3>2, <3>3
  <2>3. CASE h # NoHeader
    BY <2>1, <2>3 DEF LimitDuration
  <2> QED
    BY <2>2, <2>3
<1>6. entry \in [left : Nat, count : Nat \ {0}] /\ wait <= entry.left
  BY <1>4, <1>5
<1> HIDE DEF entry, wait
<1>7. /\ DOMAIN new \subseteq Providers /\ p \in DOMAIN new /\ new[p] = entry
      /\ \A q \in DOMAIN new \ {p} : q \in DOMAIN kept /\ new[q] = kept[q]
      /\ DOMAIN kept \subseteq DOMAIN new
  BY <1>1
<1> HIDE DEF new
<1>8. \A q \in DOMAIN new : new[q] \in [left : Nat, count : Nat \ {0}]
  BY <1>1, <1>6, <1>7
<1>9. \A q \in Providers \ {p} : owed[q] > 0 => q \in DOMAIN new /\ owed[q] <= new[q].left
  BY <1>1, <1>7
<1> QED
  BY <1>3, <1>5, <1>6, <1>7, <1>8, <1>9 DEF wait

LEMMA LimitsInit == Init => LimitsInv
<1>1. ASSUME Init PROVE LimitsInv
  <2>1. DOMAIN << >> = {}
    OBVIOUS
  <2> QED
    BY <1>1, <2>1 DEF Init, LimitsInv
<1> QED
  BY <1>1

LEMMA SelectLimits ==
  ASSUME LimitsInv, Select
  PROVE  LimitsInv'
<1>1. owed' = owed /\ Kind' = Kind /\ limits' = IF Kind = "limits" THEN Live(limits) ELSE limits
  BY DEF Select, Kind
<1> QED
  BY <1>1, LiveKeeps DEF LimitsInv

LEMMA LimitsStep == FewProviders /\ PowersCount /\ RouteInv /\ LimitsInv /\ [Next]_vars => LimitsInv'
<1> SUFFICES ASSUME FewProviders, PowersCount, RouteInv, LimitsInv, [Next]_vars PROVE LimitsInv'
  OBVIOUS
<1>1. CASE Tick
  <2>1. /\ limits' = [p \in DOMAIN limits |-> [limits[p] EXCEPT !.left = Less(@)]]
        /\ owed' = [p \in Providers |-> Less(owed[p])] /\ Kind' = Kind
    BY <1>1 DEF Tick, Kind
  <2>2. \A m, n \in Nat : Less(n) \in Nat /\ (m <= n => Less(m) <= Less(n)) /\ (Less(n) > 0 => n > 0)
    BY DEF Less
  <2>3. ASSUME NEW p \in DOMAIN limits
        PROVE  /\ limits'[p] \in [left : Nat, count : Nat \ {0}]
               /\ limits'[p].left = Less(limits[p].left)
    BY <2>1, <2>2 DEF LimitsInv
  <2>4. ASSUME NEW p \in Providers PROVE owed'[p] \in Nat /\ owed'[p] = Less(owed[p])
    BY <2>1, <2>2 DEF LimitsInv
  <2>5. ASSUME Kind = "limits", NEW p \in Providers, owed'[p] > 0
        PROVE  p \in DOMAIN limits /\ owed'[p] <= limits'[p].left
    <3>1. owed[p] \in Nat /\ owed[p] > 0
      BY <2>2, <2>4, <2>5 DEF LimitsInv
    <3>2. p \in DOMAIN limits /\ owed[p] <= limits[p].left /\ limits[p].left \in Nat
      BY <2>5, <3>1 DEF LimitsInv
    <3> QED
      BY <2>2, <2>3, <2>4, <3>1, <3>2
  <2>6. DOMAIN limits' = DOMAIN limits /\ owed' \in [Providers -> Nat]
    BY <2>1, <2>4
  <2> QED
    BY <2>1, <2>3, <2>5, <2>6 DEF LimitsInv
<1>2. CASE UNCHANGED vars
  BY <1>2 DEF vars, LimitsInv, Kind
<1>3. ASSUME NEW r \in rule.requests, Advance(r) \/ Answered(r) \/ Cancel(r) PROVE LimitsInv'
  <2>1. CASE Route(r) \/ RouteFails(r) \/ Reselect(r) \/ StopReselecting(r)
    BY <2>1, SelectLimits DEF Route, RouteFails, Reselect, StopReselecting
  <2>2. ASSUME NEW h \in RetryAfters \cup {NoHeader}, AnswerRateLimit(r, h) PROVE LimitsInv'
    <3> DEFINE p == target[r]
               wait == IF h = NoHeader THEN BackoffBase ELSE h
    <3>1. r \in Requests
      BY <1>3, StepMoves DEF RouteInv
    <3>2. p \in Providers
      BY <2>2, <3>1 DEF AnswerRateLimit, RouteInv, TypeInv
    <3>3. /\ limits' = IF Kind = "limits" THEN Recorded(p, h) ELSE limits
          /\ owed' = [owed EXCEPT ![p] = wait] /\ Kind' = Kind
      BY <2>2 DEF AnswerRateLimit, Kind, Fail
    <3>4. wait \in Nat
      BY RuleAssumption
    <3> HIDE DEF p, wait
    <3>5. owed' \in [Providers -> Nat] /\ owed'[p] = wait /\ \A q \in Providers \ {p} : owed'[q] = owed[q]
      BY <3>2, <3>3, <3>4 DEF LimitsInv
    <3>6. CASE Kind # "limits"
      BY <3>3, <3>5, <3>6 DEF LimitsInv
    <3>7. CASE Kind = "limits"
      <4>1. limits' = Recorded(p, h)
        BY <3>3, <3>7
      <4>2. /\ DOMAIN limits' \subseteq Providers /\ p \in DOMAIN limits'
            /\ \A q \in DOMAIN limits' : limits'[q] \in [left : Nat, count : Nat \ {0}]
            /\ wait <= limits'[p].left
            /\ \A q \in Providers \ {p} : owed[q] > 0 => q \in DOMAIN limits' /\ owed[q] <= limits'[q].left
        BY <3>2, <3>7, <4>1, RecordedFacts DEF wait
      <4> QED
        BY <3>3, <3>5, <4>2 DEF LimitsInv
    <3> QED
      BY <3>6, <3>7
  <2>3. CASE \/ Contact(r) \/ NotFound(r) \/ BreakerRefuses(r) \/ TryFallback(r) \/ GiveUp(r) \/ OpenStream(r)
             \/ AnswerOk(r) \/ AnswerError(r) \/ StreamAnswered(r) \/ Cancel(r)
    <3>1. UNCHANGED <<limits, owed>>
      BY <2>3 DEF Contact, NotFound, BreakerRefuses, TryFallback, GiveUp, OpenStream, AnswerOk, AnswerError, StreamAnswered, Cancel
    <3>2. rule' = rule
      BY <1>3, StepMoves DEF RouteInv, Moves, OnlyMoves
    <3> QED
      BY <3>1, <3>2 DEF LimitsInv, Kind
  <2> QED
    BY <1>3, <2>1, <2>2, <2>3 DEF Advance, Answered
<1> QED
  BY <1>1, <1>2, <1>3 DEF Next

(* Who is contacted is admitted by its breaker. *)
LEMMA OnlyAdmitted ==
  ASSUME RouteInv, NEW r \in Requests, NEW p \in Providers, [Next]_vars,
         contacted'[r] = Append(contacted[r], p)
  PROVE  CB!Admits(breakers[p])
<1>1. contacted[r] \in Seq(Providers) /\ contacted[r] # contacted'[r]
  BY AppendsDiffer DEF RouteInv, TypeInv
<1>2. PICK q \in rule.requests : Advance(q) \/ Answered(q) \/ Cancel(q)
  BY <1>1 DEF Next, Tick, local, vars
<1>3. q \in Requests /\ Moves(q)
  BY <1>2, StepMoves DEF RouteInv
<1>4. q = r
  BY <1>1, <1>3 DEF Moves, OnlyMoves
<1>5. Contact(r) \/ OpenStream(r)
  BY <1>1, <1>2, <1>4
  DEF Advance, Answered, Route, RouteFails, NotFound, BreakerRefuses, Reselect, StopReselecting,
      TryFallback, GiveUp, AnswerOk, AnswerError, AnswerRateLimit, StreamAnswered, Cancel
<1>6. CASE Contact(r)
  <2>1. target[r] \in Providers /\ CB!Admits(breakers[target[r]])
    BY <1>6 DEF Contact, RouteInv, TypeInv
  <2>2. contacted'[r] = Append(contacted[r], target[r])
    BY <1>6 DEF Contact, RouteInv, TypeInv
  <2> DEFINE t == target[r]
             c == contacted[r]
  <2> HIDE DEF t, c
  <2>3. t \in Providers /\ c \in Seq(Providers) /\ Append(c, p) = Append(c, t)
    BY <1>1, <2>1, <2>2 DEF t, c
  <2>4. t = p
    BY <2>3, AppendsDiffer
  <2> QED
    BY <2>1, <2>4 DEF t
<1>7. CASE OpenStream(r)
  <2>1. contacted[r] = << >>
    BY <1>7 DEF OpenStream, RouteInv
  <2>2. PICK o \in Providers, S \in SUBSET Providers : Opens(r, o, S)
    BY <1>7, OpenStreamOpens DEF RouteInv
  <2>3. contacted'[r] = <<o>> /\ CB!Admits(breakers[o])
    BY <1>1, <2>2 DEF Opens, RouteInv, TypeInv
  <2>4. Append(<< >>, p) = <<p>>
    OBVIOUS
  <2>5. o = p
    BY <2>1, <2>3, <2>4
  <2> QED
    BY <2>3, <2>5
<1> QED
  BY <1>5, <1>6, <1>7

(* Who is selected has no wait left. *)
LEMMA OnlyFree ==
  ASSUME RouteInv, LimitsInv, NEW r \in Requests, [Next]_vars, tried'[r] # tried[r], Kind = "limits"
  PROVE  owed[Last(tried'[r])] <= 0
<1>1. PICK q \in rule.requests : Advance(q) \/ Answered(q) \/ Cancel(q)
  BY DEF Next, Tick, local, vars
<1>2. q \in Requests /\ Moves(q)
  BY <1>1, StepMoves DEF RouteInv
<1>3. q = r
  BY <1>2 DEF Moves, OnlyMoves
<1>4. Route(r) \/ Reselect(r)
  BY <1>1, <1>3
  DEF Advance, Answered, Contact, OpenStream, RouteFails, NotFound, BreakerRefuses, StopReselecting,
      TryFallback, GiveUp, AnswerOk, AnswerError, AnswerRateLimit, StreamAnswered, Cancel, Fail
<1> DEFINE c == Choice
<1>5. c # NoProvider /\ c \in Providers /\ c \notin DOMAIN Live(limits)
  BY <1>4, ChoiceListed, RuleFacts DEF Route, Reselect, RouteInv, TypeInv
<1>6. \/ tried'[r] = <<c>>
      \/ tried'[r] = Append(tried[r], c)
  BY <1>4 DEF Route, Reselect, RouteInv, TypeInv
<1> HIDE DEF c
<1>7. Last(tried'[r]) = c
  <2> DEFINE t == tried[r]
  <2>1. t \in Seq(Providers)
    BY DEF RouteInv, TypeInv
  <2> HIDE DEF t
  <2>2. Len(Append(t, c)) = Len(t) + 1 /\ Append(t, c)[Len(t) + 1] = c /\ Len(<<c>>) = 1 /\ <<c>>[1] = c
    BY <1>5, <2>1
  <2> QED
    BY <1>6, <2>2 DEF Last, t
<1>8. owed[c] \in Nat /\ ~(owed[c] > 0)
  BY <1>5, LiveKeeps DEF LimitsInv
<1> QED
  BY <1>7, <1>8

(* ProvidersMayRecover for any rules, overlapping or not: no request, on   *)
(* whatever path, reaches a provider whose circuit is open before the      *)
(* timeout, and a "limits" strategy selects none before the wait that its  *)
(* last 429 asked for is over, while the map of limits is not full.        *)
THEOREM ProvidersRecover == ASSUME FewProviders, PowersCount PROVE Spec => ProvidersMayRecover
<1>1. RouteInv /\ LimitsInv /\ [Next]_vars =>
        [\A r \in Requests :
          /\ \A p \in Providers :
                 contacted'[r] = Append(contacted[r], p) =>
                     ~(breakers[p].state = "Open" /\ breakers[p].age < Timeout)
          /\ tried'[r] # tried[r] /\ Kind = "limits" => owed[Last(tried'[r])] <= 0]_vars
  <2> SUFFICES ASSUME RouteInv, LimitsInv, [Next]_vars, NEW r \in Requests
               PROVE  /\ \A p \in Providers :
                            contacted'[r] = Append(contacted[r], p) =>
                                ~(breakers[p].state = "Open" /\ breakers[p].age < Timeout)
                      /\ tried'[r] # tried[r] /\ Kind = "limits" => owed[Last(tried'[r])] <= 0
    OBVIOUS
  <2>1. \A p \in Providers : CB!Admits(breakers[p]) => ~(breakers[p].state = "Open" /\ breakers[p].age < Timeout)
    BY RuleAssumption DEF CB!Admits
  <2> QED
    BY <2>1, OnlyAdmitted, OnlyFree
<1>2. Init => RouteInv /\ LimitsInv
  BY RouteInit, LimitsInit
<1>3. RouteInv /\ LimitsInv /\ [Next]_vars => RouteInv' /\ LimitsInv'
  BY RouteStep, LimitsStep
<1> QED
  BY <1>1, <1>2, <1>3, PTL DEF Spec, ProvidersMayRecover
=============================================================================
