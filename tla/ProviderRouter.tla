--------------------------- MODULE ProviderRouter ---------------------------
(***************************************************************************)
(* lunaroute-routing: how one routing rule sends requests to providers     *)
(* (provider_router.rs) through its strategy (strategy.rs), its providers' *)
(* circuit breakers and its fallbacks.  Requests run concurrently; a       *)
(* request is at rest only while it awaits a provider, so selection, the   *)
(* breaker check and the reaction to an answer are steps that other        *)
(* requests' steps come between.  Every breaker call is atomic here: their *)
(* own interleavings are CircuitBreaker's.                                 *)
(*                                                                         *)
(* Durations are ticks; an Instant is kept as the ticks left until it.     *)
(***************************************************************************)
EXTENDS Integers, FiniteSets, SequencesExt

CONSTANTS
    Providers,     \* provider ids that the rule names
    Requests,      \* the requests of a run, each issued once
    Rules,         \* the routing rules to choose from, see RuleAssumption
    Weight,        \* WeightedRoundRobin: the weight of each provider
    RetryAfters,   \* values of the retry-after header that a 429 may carry
    BackoffBase,   \* exponential_backoff_base_secs
    MaxEntries,    \* MAX_RATE_LIMIT_ENTRIES
    MaxUsize,      \* usize::MAX, where the rotation counter wraps
    FailureThreshold, SuccessThreshold, Timeout, MaxU32   \* the breakers

CB == INSTANCE BreakerOps

(* A rule: `kind' is its strategy, or "direct" for a rule with a primary;   *)
(* `registered' are the providers that have an entry in Router.providers,   *)
(* `requests' the requests that are issued and `streams' those of them that *)
(* call stream().  With it comes what decides whether a switch of provider  *)
(* is told: `notifies', whether the router has a notification_config that   *)
(* is enabled, and `marked', the requests whose first message starts with   *)
(* "IMPORTANT:" as the caller sends it.                                     *)
RuleShape(rl) ==
    /\ rl.registered \subseteq Providers
    /\ rl.streams \subseteq rl.requests /\ rl.requests \subseteq Requests
    /\ rl.notifies \in BOOLEAN /\ rl.marked \subseteq rl.requests
    /\ rl.kind \in {"direct", "limits", "roundRobin", "weighted"}
    /\ {rl.primaries, rl.alternatives, rl.fallbacks} \subseteq Seq(Providers)

\* RoutingStrategy::validate.
Valid(rl) ==
    /\ rl.primaries # <<>>
    /\ rl.kind = "limits" => rl.alternatives # <<>>
    /\ rl.kind = "weighted" => \E i \in DOMAIN rl.primaries : Weight[rl.primaries[i]] > 0

ASSUME RuleAssumption ==
    /\ \A rl \in Rules : RuleShape(rl) /\ Valid(rl)
    /\ Weight \in [Providers -> Nat]
    /\ RetryAfters \subseteq Nat
    /\ {BackoffBase, MaxEntries, MaxUsize} \subseteq Nat \ {0}
    /\ {FailureThreshold, SuccessThreshold, Timeout, MaxU32} \subseteq Nat

VARIABLES
    rule,       \* the rule all requests match
    breakers,   \* circuit_breakers: one record per provider
    limits,     \* rate_limit_states: provider -> [left, count], a partial map
    position,   \* the rotation counter of the strategy
    pc,         \* where each request is
    target,     \* the provider the request is trying
    phase,      \* which part of send() tries it
    tried,      \* tried_providers
    limited,    \* is_rate_limit_error
    next,       \* index of the next fallback
    notice,     \* switch reason the notice in the request is built for, or "none"
    result,     \* what the caller got
    contacted,  \* auxiliary: providers the request was really sent to, in order
    refused,    \* auxiliary: providers whose breaker or registration refused it
    streak,     \* auxiliary: 429s of a provider since it last answered otherwise
    owed        \* auxiliary: ticks left of the wait a provider last asked for

local == <<pc, target, phase, tried, limited, next, notice, result, contacted, refused>>
vars == <<rule, breakers, limits, position, pc, target, phase, tried, limited, next,
          notice, result, contacted, refused, streak, owed>>

Kind == rule.kind
Primaries == rule.primaries
Alternatives == rule.alternatives
Fallbacks == rule.fallbacks
Registered == rule.registered
Streams == rule.streams
Rotating == Kind \in {"roundRobin", "weighted"}

NoProvider == "none"
NoHeader == -1

Init ==
    /\ rule \in Rules
    /\ breakers = [p \in Providers |-> CB!Fresh("Closed")]
    /\ limits = << >>
    /\ position = 0
    /\ pc = [r \in Requests |-> "new"]
    /\ target = [r \in Requests |-> NoProvider]
    /\ phase = [r \in Requests |-> "primary"]
    /\ tried = [r \in Requests |-> << >>]
    /\ limited = [r \in Requests |-> FALSE]
    /\ next = [r \in Requests |-> 1]
    /\ notice = [r \in Requests |-> "none"]
    /\ result = [r \in Requests |-> "none"]
    /\ contacted = [r \in Requests |-> << >>]
    /\ refused = [r \in Requests |-> {}]
    /\ streak = [p \in Providers |-> 0]
    /\ owed = [p \in Providers |-> 0]

-----------------------------------------------------------------------------
(* strategy.rs *)

(* Mutant: entries are dropped one tick early. *)
WrongLive(l) == Restrict(l, {p \in DOMAIN l : l[p].left > 1})

(* clear_expired_rate_limits: what is left of the map. *)
Live(l) == Restrict(l, {p \in DOMAIN l : l[p].left > 0})

(* calculate_rate_limit_duration: the header first, backoff without it. *)
LimitDuration(header, count) ==
    IF header = NoHeader THEN BackoffBase * 2 ^ (count - 1) ELSE header

(* record_rate_limit, with its cleanup at 90% and its refusal when full.   *)
Recorded(p, header) ==
    LET crowded == Cardinality(DOMAIN limits) >= (MaxEntries * 9) \div 10
        kept    == IF crowded THEN Live(limits) ELSE limits
        count   == IF p \in DOMAIN kept THEN kept[p].count + 1 ELSE 1
        new     == [left |-> LimitDuration(header, count), count |-> count]
    IN  IF crowded /\ Cardinality(DOMAIN kept) >= MaxEntries THEN kept
        ELSE [q \in DOMAIN kept \cup {p} |-> IF q = p THEN new ELSE kept[q]]

(* LimitsAlternative: primaries, then alternatives, that are not limited. *)
Candidates == Primaries \o Alternatives
Free == {i \in DOMAIN Candidates : Candidates[i] \notin DOMAIN Live(limits)}

(* WeightedRoundRobin: the first entry of the list whose cumulative weight *)
(* exceeds the normalised position.  (Weights that add up to more than a   *)
(* u32 are refused.)                                                       *)
CumulativeWeight[i \in 0 .. Len(Primaries)] ==
    IF i = 0 THEN 0 ELSE CumulativeWeight[i - 1] + Weight[Primaries[i]]

(* Mutant: <= where the code has <. *)
WrongEntry(pos) ==
    LET n == pos % CumulativeWeight[Len(Primaries)]
    IN  CHOOSE i \in DOMAIN Primaries :
          n <= CumulativeWeight[i] /\ \A j \in 1 .. i - 1 : n > CumulativeWeight[j]

Entry(pos) ==
    LET n == pos % CumulativeWeight[Len(Primaries)]
    IN  CHOOSE i \in DOMAIN Primaries : CumulativeWeight[i - 1] <= n /\ n < CumulativeWeight[i]

(* select_provider, or the rule's primary: the provider, or none. *)
Choice ==
    CASE Kind = "direct"     -> Primaries[1]
      [] Kind = "roundRobin" -> Primaries[(position % Len(Primaries)) + 1]
      [] Kind = "weighted"   -> Primaries[Entry(position)]
      [] Kind = "limits"     -> IF Free = {} THEN NoProvider ELSE Candidates[Min(Free)]

Select ==
    /\ limits' = IF Kind = "limits" THEN Live(limits) ELSE limits
    /\ position' = IF Rotating THEN (position + 1) % (MaxUsize + 1) ELSE position
    /\ UNCHANGED <<rule, breakers, streak, owed>>

-----------------------------------------------------------------------------
(* provider_router.rs *)

Goto(r, l) == pc' = [pc EXCEPT ![r] = l]

Finish(r, res) == Goto(r, "done") /\ result' = [result EXCEPT ![r] = res]

(* The early returns of inject_notification_if_needed: notifications are   *)
(* absent or disabled, or has_notification_already.  Every attempt starts  *)
(* from a clone of the caller's request, so a first message that looks     *)
(* like a notice is the caller's own and never that of an earlier attempt. *)
IsTold(r) == rule.notifies /\ r \notin rule.marked

(* The request turns to provider p, with a notice in front of its messages *)
(* that is built for the reason.  ("none": the selected provider gets the  *)
(* request as it came.)                                                    *)
Aim(r, p, ph, reason) ==
    /\ target' = [target EXCEPT ![r] = p]
    /\ phase' = [phase EXCEPT ![r] = ph]
    /\ notice' = [notice EXCEPT ![r] = IF IsTold(r) THEN reason ELSE "none"]

(* send() and stream(): find the route and select a provider.  An error of *)
(* the strategy is returned to the caller at once.                         *)
Route(r) ==
    /\ pc[r] = "new"
    /\ Select
    /\ Choice # NoProvider
    /\ Goto(r, IF r \in Streams THEN "openStream" ELSE "try")
    /\ Aim(r, Choice, "primary", "none")
    /\ tried' = [tried EXCEPT ![r] = <<Choice>>]
    /\ UNCHANGED <<rule, limited, next, result, contacted, refused>>

RouteFails(r) ==
    /\ pc[r] = "new"
    /\ Select
    /\ Choice = NoProvider
    /\ Finish(r, "noProvider")
    /\ UNCHANGED <<rule, target, phase, tried, limited, next, notice, contacted, refused>>

(* What send() does with an error of try_provider: a rate limit makes the  *)
(* primary or an alternative select again, any other error goes on to the  *)
(* fallbacks; only the primary's error decides the later switch reason.    *)
Fail(r, rateLimit) ==
    /\ Goto(r, IF Kind = "limits" /\ phase[r] # "fallback" /\ rateLimit
               THEN "reselect" ELSE "fallback")
    /\ limited' = IF phase[r] = "primary" THEN [limited EXCEPT ![r] = rateLimit] ELSE limited
    /\ UNCHANGED <<rule, target, phase, tried, next, notice, result>>

(* Mutant: the breaker is consulted for the selected provider only. *)
WrongContact(r) ==
    LET p == target[r] IN
    /\ pc[r] = "try"
    /\ phase[r] = "primary" => CB!Admits(breakers[p])
    /\ p \in Registered
    /\ breakers' = [breakers EXCEPT ![p] = CB!AfterAllow(@)]
    /\ contacted' = [contacted EXCEPT ![r] = Append(@, p)]
    /\ Goto(r, "await")
    /\ UNCHANGED <<rule, limits, position, target, phase, tried, limited, next, notice,
                   result, refused, streak, owed>>

(* try_provider up to the await, in its three outcomes.                    *)
Contact(r) ==
    LET p == target[r] IN
    /\ pc[r] = "try"
    /\ CB!Admits(breakers[p])
    /\ p \in Registered
    /\ breakers' = [breakers EXCEPT ![p] = CB!AfterAllow(@)]
    /\ contacted' = [contacted EXCEPT ![r] = Append(@, p)]
    /\ Goto(r, "await")
    /\ UNCHANGED <<rule, limits, position, target, phase, tried, limited, next, notice,
                   result, refused, streak, owed>>

NotFound(r) ==
    LET p == target[r] IN
    /\ pc[r] = "try"
    /\ CB!Admits(breakers[p])
    /\ p \notin Registered
    /\ breakers' = [breakers EXCEPT ![p] = CB!AfterAllow(@)]
    /\ refused' = [refused EXCEPT ![r] = @ \cup {p}]
    /\ Fail(r, FALSE)
    /\ UNCHANGED <<rule, limits, position, contacted, streak, owed>>

(* Mutant: the request waits for the open circuit instead of skipping it. *)
WrongBreakerWaits(r) ==
    LET p == target[r] IN
    /\ pc[r] = "try"
    /\ ~CB!Admits(breakers[p])
    /\ refused' = [refused EXCEPT ![r] = @ \cup {p}]
    /\ UNCHANGED <<rule, breakers, limits, position, pc, target, phase, tried, limited, next,
                   notice, result, contacted, streak, owed>>

BreakerRefuses(r) ==
    LET p == target[r] IN
    /\ pc[r] = "try"
    /\ ~CB!Admits(breakers[p])
    /\ refused' = [refused EXCEPT ![r] = @ \cup {p}]
    /\ Fail(r, FALSE)
    /\ UNCHANGED <<rule, breakers, limits, position, contacted, streak, owed>>

(* try_provider after the await. *)
AnswerOk(r) ==
    LET p == target[r] IN
    /\ pc[r] = "await"
    /\ breakers' = [breakers EXCEPT ![p] = CB!AfterSuccess(@)]
    /\ streak' = [streak EXCEPT ![p] = 0]
    /\ Finish(r, "ok")
    /\ UNCHANGED <<rule, limits, position, target, phase, tried, limited, next, notice,
                   contacted, refused, owed>>

AnswerError(r) ==
    LET p == target[r] IN
    /\ pc[r] = "await"
    /\ breakers' = [breakers EXCEPT ![p] = CB!AfterFailure(@)]
    /\ streak' = [streak EXCEPT ![p] = 0]
    /\ Fail(r, FALSE)
    /\ UNCHANGED <<rule, limits, position, contacted, refused, owed>>

AnswerRateLimit(r, header) ==
    LET p == target[r] IN
    /\ pc[r] = "await"
    /\ breakers' = [breakers EXCEPT ![p] = CB!AfterFailure(@)]
    /\ limits' = IF Kind = "limits" THEN Recorded(p, header) ELSE limits
    /\ streak' = [streak EXCEPT ![p] = @ + 1]
    /\ owed' = [owed EXCEPT ![p] = IF header = NoHeader THEN BackoffBase ELSE header]
    /\ Fail(r, TRUE)
    /\ UNCHANGED <<rule, position, contacted, refused>>

(* The caller drops the future while it awaits: nothing is recorded.       *)
Cancel(r) ==
    /\ pc[r] = "await"
    /\ Finish(r, "cancelled")
    /\ UNCHANGED <<rule, breakers, limits, position, target, phase, tried, limited, next,
                   notice, contacted, refused, streak, owed>>

(* Mutant: the loop does not look at tried_providers. *)
WrongReselect(r) ==
    /\ pc[r] = "reselect"
    /\ Select
    /\ Choice # NoProvider
    /\ Goto(r, "try")
    /\ Aim(r, Choice, "alternative", "rateLimit")
    /\ tried' = [tried EXCEPT ![r] = Append(@, Choice)]
    /\ UNCHANGED <<rule, limited, next, result, contacted, refused>>

(* The loop over alternatives: select again; stop at a provider that was   *)
(* already tried or when there is none.                                    *)
Reselect(r) ==
    /\ pc[r] = "reselect"
    /\ Select
    /\ Choice # NoProvider
    /\ ~Contains(tried[r], Choice)
    /\ Goto(r, "try")
    /\ Aim(r, Choice, "alternative", "rateLimit")
    /\ tried' = [tried EXCEPT ![r] = Append(@, Choice)]
    /\ UNCHANGED <<rule, limited, next, result, contacted, refused>>

StopReselecting(r) ==
    /\ pc[r] = "reselect"
    /\ Select
    /\ Choice = NoProvider \/ Contains(tried[r], Choice)
    /\ Goto(r, "fallback")
    /\ UNCHANGED <<rule, target, phase, tried, limited, next, notice, result, contacted, refused>>

(* Mutant: the switch reasons are swapped. *)
WrongReason(r) ==
    /\ pc[r] = "fallback"
    /\ next[r] <= Len(Fallbacks)
    /\ Goto(r, "try")
    /\ Aim(r, Fallbacks[next[r]], "fallback", IF limited[r] THEN "serviceIssue" ELSE "rateLimit")
    /\ next' = [next EXCEPT ![r] = @ + 1]
    /\ UNCHANGED <<rule, breakers, limits, position, tried, limited, result, contacted,
                   refused, streak, owed>>

(* The loop over fallbacks, and its end. *)
TryFallback(r) ==
    /\ pc[r] = "fallback"
    /\ next[r] <= Len(Fallbacks)
    /\ Goto(r, "try")
    /\ Aim(r, Fallbacks[next[r]], "fallback", IF limited[r] THEN "rateLimit" ELSE "serviceIssue")
    /\ next' = [next EXCEPT ![r] = @ + 1]
    /\ UNCHANGED <<rule, breakers, limits, position, tried, limited, result, contacted,
                   refused, streak, owed>>

(* Mutant: the last fallback is not tried. *)
WrongGiveUp(r) ==
    /\ pc[r] = "fallback"
    /\ next[r] >= Len(Fallbacks)
    /\ Finish(r, "allFailed")
    /\ UNCHANGED <<rule, breakers, limits, position, target, phase, tried, limited, next,
                   notice, contacted, refused, streak, owed>>

GiveUp(r) ==
    /\ pc[r] = "fallback"
    /\ next[r] > Len(Fallbacks)
    /\ Finish(r, "allFailed")
    /\ UNCHANGED <<rule, breakers, limits, position, target, phase, tried, limited, next,
                   notice, contacted, refused, streak, owed>>

(* stream() after the selection: the primary if its breaker admits, else   *)
(* the first fallback whose breaker does; an admitted provider without an  *)
(* entry ends the search.                                                  *)
OpenStream(r) ==
    LET order    == <<target[r]>> \o Fallbacks
        admitted == {i \in DOMAIN order : CB!Admits(breakers[order[i]])}
        first    == Min(admitted)
        p        == order[first]
    IN
    /\ pc[r] = "openStream"
    /\ IF admitted = {}
       THEN /\ Finish(r, "allFailed")
            /\ refused' = [refused EXCEPT ![r] = ToSet(order)]
            /\ UNCHANGED <<rule, breakers, target, phase, notice, contacted>>
       ELSE /\ breakers' = [breakers EXCEPT ![p] = CB!AfterAllow(@)]
            /\ refused' = [refused EXCEPT ![r] = {order[i] : i \in 1 .. first - 1}]
            /\ IF first = 1 THEN UNCHANGED <<rule, target, phase, notice>>
               ELSE Aim(r, p, "fallback", "circuitBreaker")
            /\ IF p \in Registered
               THEN /\ Goto(r, "streaming")
                    /\ contacted' = [contacted EXCEPT ![r] = <<p>>]
                    /\ UNCHANGED result
               ELSE Finish(r, "allFailed") /\ UNCHANGED contacted
    /\ UNCHANGED <<rule, limits, position, tried, limited, next, streak, owed>>

(* The provider's stream opens or fails; neither is recorded anywhere.     *)
StreamAnswered(r) ==
    /\ pc[r] = "streaming"
    /\ \E res \in {"ok", "allFailed"} : Finish(r, res)
    /\ UNCHANGED <<rule, breakers, limits, position, target, phase, tried, limited, next,
                   notice, contacted, refused, streak, owed>>

Less(n) == IF n = 0 THEN 0 ELSE n - 1

Tick ==
    /\ breakers' = [p \in Providers |-> CB!Aged(breakers[p])]
    /\ limits' = [p \in DOMAIN limits |-> [limits[p] EXCEPT !.left = Less(@)]]
    /\ owed' = [p \in Providers |-> Less(owed[p])]
    /\ UNCHANGED <<rule, position, local, streak>>

Answered(r) ==
    \/ AnswerOk(r) \/ AnswerError(r) \/ StreamAnswered(r)
    \/ \E h \in RetryAfters \cup {NoHeader} : AnswerRateLimit(r, h)

Advance(r) ==
    \/ Route(r) \/ RouteFails(r)
    \/ Contact(r) \/ NotFound(r) \/ BreakerRefuses(r)
    \/ Reselect(r) \/ StopReselecting(r)
    \/ TryFallback(r) \/ GiveUp(r)
    \/ OpenStream(r)

Next == Tick \/ \E r \in rule.requests : Advance(r) \/ Answered(r) \/ Cancel(r)

Spec == Init /\ [][Next]_vars

(* A request that can go on does, and providers answer or time out (the    *)
(* HTTP client has a request timeout).                                     *)
FairSpec == Spec /\ \A r \in Requests : WF_vars(Advance(r)) /\ WF_vars(Answered(r))

-----------------------------------------------------------------------------
(* One send() contacts a provider at most once, whatever rate limits       *)
(* expire while it runs (the lists of the rule do not overlap), and it     *)
(* reports that all providers failed only after it has offered the request *)
(* to the selected provider and to every fallback.                         *)
EachProviderOnce ==
    \A r \in Requests :
        /\ IsInjective(contacted[r])
        /\ result[r] = "allFailed" /\ r \notin Streams =>
               {tried[r][1]} \cup ToSet(Fallbacks) \subseteq ToSet(contacted[r]) \cup refused[r]

(* The notice a provider gets with a request is true, after any chain of   *)
(* alternatives and fallbacks: it is there only if the provider is not the *)
(* selected one, and always then if notifications are on and the caller's  *)
(* own message does not look like one; it blames a rate limit only if the  *)
(* selected provider was really contacted, and maintenance only if the     *)
(* circuit breaker of the selected provider refused the request.           *)
NoticeTellsTheTruth ==
    \A r \in Requests :
        pc[r] \in {"await", "streaming"} =>
            /\ notice[r] # "none" <=> IsTold(r) /\ target[r] # tried[r][1]
            /\ notice[r] = "rateLimit" => contacted[r][1] = tried[r][1]
            /\ notice[r] = "circuitBreaker" => tried[r][1] \in refused[r]

(* A provider is left alone while it recovers.  Until the timeout of its   *)
(* open circuit no request of any path - selection, alternative, fallback, *)
(* stream - reaches it, and the strategy does not select it before the     *)
(* wait that its last 429 asked for is over, whichever request received    *)
(* that answer.                                                            *)
ProvidersMayRecover ==
    [][\A r \in Requests :
          /\ \A p \in Providers :
                 contacted'[r] = Append(contacted[r], p) =>
                     ~(breakers[p].state = "Open" /\ breakers[p].age < Timeout)
          /\ tried'[r] # tried[r] /\ Kind = "limits" => owed[Last(tried'[r])] <= 0]_vars

(* WeightedRoundRobin: wherever the rotation is, the next total-weight      *)
(* selections, by whatever requests, give each entry of the list exactly   *)
(* its weight (unless the counter wraps among them).                       *)
WeightedShares ==
    LET total == CumulativeWeight[Len(Primaries)] IN
    Kind = "weighted" => \A i \in DOMAIN Primaries :
        Cardinality({k \in position .. position + total - 1 : Entry(k) = i}) = Weight[Primaries[i]]

(* Every request that is routed is answered: no cycle of expiring limits   *)
(* and reselection keeps send() from returning.                            *)
EveryRequestEnds == \A r \in Requests : pc[r] = "try" ~> pc[r] = "done"

-----------------------------------------------------------------------------
(* routing/README.md:107: "Tries all alternatives sequentially if multiple *)
(* are rate-limited": a request that only met rate limits goes on to the   *)
(* fallbacks only when no provider of the strategy is left to select.      *)
AlternativesExhausted ==
    [][\A r \in Requests :
          pc[r] = "reselect" /\ pc'[r] = "fallback" =>
              \A i \in DOMAIN Alternatives :
                  Contains(tried[r], Alternatives[i]) \/ Alternatives[i] \in DOMAIN limits']_vars

(* strategy.rs:86, "Number of consecutive rate limits encountered": the    *)
(* count behind the 60s, 120s, 240s backoff.                               *)
CountsConsecutiveLimits == \A p \in DOMAIN limits : limits[p].count >= streak[p]

(* router.rs:94: fallbacks are "tried in order if primary/strategy         *)
(* providers fail".                                                        *)
FallbacksBackTheStrategy ==
    \A r \in Requests : result[r] = "noProvider" => Fallbacks = << >>
=============================================================================
