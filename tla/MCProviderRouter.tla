-------------------------- MODULE MCProviderRouter --------------------------
(* A small instance of ProviderRouter for TLC: two send() calls under        *)
(* LimitsAlternative with a fallback; two send() calls and a stream() under  *)
(* WeightedRoundRobin with an unregistered fallback; or one of each with a   *)
(* registered fallback before it. Notifications are off in the second; in    *)
(* the first, a request starts with "IMPORTANT:" by itself.                  *)
EXTENDS ProviderRouter, TLC

CONSTANTS p1, p2, p3, p4, r1, r2, r3

Weighted12(fallbacks, requests, notifies) ==
  [kind |-> "weighted", primaries |-> <<p1, p2>>, alternatives |-> <<>>, fallbacks |-> fallbacks,
   registered |-> {p1, p2, p4}, requests |-> requests, streams |-> {r3},
   notifies |-> notifies, marked |-> {}]
SomeRules == {
  [kind |-> "limits", primaries |-> <<p1>>, alternatives |-> <<p2>>, fallbacks |-> <<p3>>,
   registered |-> {p1, p2, p3}, requests |-> {r1, r2}, streams |-> {},
   notifies |-> TRUE, marked |-> {r2}],
  Weighted12(<<p3>>, {r1, r2, r3}, FALSE), Weighted12(<<p4, p3>>, {r1, r3}, TRUE)}
Weights == [p \in Providers |-> IF p = p1 THEN 2 ELSE 1]
=============================================================================
