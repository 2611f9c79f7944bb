---------------------------- MODULE RequestProofs ----------------------------
(***************************************************************************)
(* Proofs about the way of a request: what it carries (Connector), for any *)
(* setups, callers, logins and retries, where it goes (Server), for any    *)
(* configurations and any messages, and what is answered over a WebSocket  *)
(* (ResponsesSocket), whatever client and provider say.                    *)
(***************************************************************************)
EXTENDS Connector, Server, ResponsesSocket, DataLemmas

-----------------------------------------------------------------------------
(* What is known of a call.                                                *)

(* The fields of a call. *)
IsCall(k) ==
  k = [pc |-> k.pc, path |-> k.path, request |-> k.request, headers |-> k.headers, body |-> k.body,
       credential |-> k.credential, account |-> k.account, sent |-> k.sent, told |-> k.told]

(* The client's headers that the handler passes on. *)
Given(k) == {Header(n, "client") : n \in Received(k.path, k.request.headers)}

(* Only some paths add the configured headers. *)
HeadersInv(s, f, k) ==
  /\ k.headers \subseteq Given(k) \cup Customs(s, k.request.session)
  /\ s.customs = {} \/ k.path \notin Translated \cup {"context"} => k.headers = Given(k)

PathInv(s, f, k) ==
  /\ k.pc \in {"idle", "credential", "read", "fill", "account", "send", "wait", "done"}
  /\ k.pc # "idle" => k.path \in PathsOf(s.kind)
  /\ k.pc \in {"credential", "read", "fill", "account"} => s.kind = "openai"
  /\ s.kind = "anthropic" => k.headers = Given(k)

Token(n) == <<"authorization", "token", n>>

(* There is one credential at most; a token is that of a login there was. *)
CredentialInv(s, f, k) ==
  /\ \/ k.credential = {}
     \/ k.credential = {Header("authorization", "key")} /\ s.key
     \/ s.codex /\ \E n \in 1 .. f.login : k.credential = {Token(n)}
  /\ k.pc = "fill" => \E n \in 1 .. f.login : k.credential = {Token(n)}
  /\ k.pc \in {"account", "send"} /\ s.kind = "openai" /\ ClientProvided(k) => k.credential = {}
  /\ k.pc \in {"read", "fill"} => ~ClientProvided(k) /\ s.codex

(* The account is read after the token. *)
AccountInv(s, f, k) ==
  /\ s.kind # "openai" => k.account = {}
  /\ k.pc = "send" =>
       \/ k.account = {} /\ ~(s.codex /\ s.account /\ k.path \in RawOpenAI)
       \/ k.account = {Header("chatgpt-account-id", "configured")}
       \/ /\ ~s.account
          /\ \E n \in 1 .. f.login :
               /\ k.account = {<<"chatgpt-account-id", "file", n>>}
               /\ \A m \in 1 .. f.login : k.credential = {Token(m)} => m <= n

SentInv(s, f, k) ==
  /\ \E S : k.sent \in Seq(S)
  /\ \A i \in DOMAIN k.sent : ShowsOne(s, k, k.sent[i])

CallInv(s, f, k) ==
  IsCall(k) /\ HeadersInv(s, f, k) /\ PathInv(s, f, k) /\ CredentialInv(s, f, k) /\ AccountInv(s, f, k) /\ SentInv(s, f, k)

LoginInv ==
  /\ setup.codex => setup.kind = "openai"
  /\ file = [login |-> file.login, has |-> file.has] /\ file.login \in Nat \ {0}
  /\ token \in 0 .. file.login /\ (token # 0 => setup.codex)

ConnectorInv ==
  /\ LoginInv
  /\ calls = [c \in Callers |-> calls[c]]
  /\ \A c \in Callers : CallInv(setup, file, calls[c])

-----------------------------------------------------------------------------
(* Headers.                                                                *)

LEMMA CustomsAreHarmless ==
  ASSUME NEW s, NEW session, NEW h \in Customs(s, session)
  PROVE  /\ h = <<h[1], h[2], 0>> /\ ~Sensitive(h[2])
         /\ h[2] \notin {"client", "key", "token", "file", "codex", "empty"}
<1>1. PICK c \in s.customs : h = <<c.name, Substituted(c.variable, session), 0>>
  BY DEF Customs, Header
<1>2. /\ Substituted(c.variable, session) \notin {"client", "key", "token", "file", "codex", "empty"}
      /\ ~Sensitive(Substituted(c.variable, session))
  BY DEF Substituted, Context, Sensitive
<1> QED
  BY <1>1, <1>2

LEMMA GivenAreTheClients ==
  ASSUME NEW k, NEW h \in Given(k)
  PROVE  h = <<h[1], "client", 0>> /\ h[1] \in Received(k.path, k.request.headers)
BY DEF Given, Header

(* reqwest's own agent is added where there is none. *)
LEMMA WithAgents ==
  ASSUME NEW headers, NEW h
  PROVE  h \in WithAgent(headers) <=>
           \/ h \in headers
           \/ h = <<"user-agent", "lunaroute", 0>> /\ ~\E g \in headers : g[1] = "user-agent"
<1>1. CASE "user-agent" \in Names(headers)
  <2>1. \E g \in headers : g[1] = "user-agent"
    BY <1>1 DEF Names
  <2>2. WithAgent(headers) = headers
    BY <1>1 DEF WithAgent
  <2> QED
    BY <2>1, <2>2
<1>2. CASE "user-agent" \notin Names(headers)
  <2>1. ~\E g \in headers : g[1] = "user-agent"
    BY <1>2 DEF Names
  <2> QED
    BY <1>2, <2>1 DEF WithAgent, Header
<1> QED
  BY <1>1, <1>2

LEMMA AtMostOne ==
  ASSUME NEW S, NEW v, S \subseteq {v}
  PROVE  Cardinality(S) <= 1
<1>1. CASE S = {}
  BY <1>1, FS_EmptySet
<1>2. CASE S = {v}
  BY <1>2, FS_Singleton
<1> QED
  BY <1>1, <1>2

LEMMA InValues ==
  ASSUME NEW headers, NEW name, NEW v
  PROVE  v \in Values(headers, name) <=> \E h \in headers : h[1] = name /\ v = <<h[2], h[3]>>
BY DEF Values

(* The six senders of openai.rs. *)
LEMMA RawIsProper ==
  ASSUME LoginInv, NEW k, CallInv(setup, file, k), k.pc = "send", k.path \in RawOpenAI, setup.kind = "openai"
  PROVE  ShowsOne(setup, k, RawRequest(k))
<1> DEFINE passed == {h \in k.headers : ~SkippedByOpenAI(h[1])}
           rest == passed \cup k.credential \cup k.account \cup CodexHeaders
           hs == RawRequest(k)
           auth == Values(hs, "authorization")
           account == Values(hs, "chatgpt-account-id")
<1>0. hs = WithAgent(rest)
  BY DEF RawRequest
<1>1. \A h : h \in hs <=>
        \/ h \in passed \/ h \in k.credential \/ h \in k.account \/ h \in CodexHeaders
        \/ h = <<"user-agent", "lunaroute", 0>> /\ ~\E g \in rest : g[1] = "user-agent"
  <2> HIDE DEF rest, hs, passed
  <2>1. \A h : h \in hs <=>
          \/ h \in rest
          \/ h = <<"user-agent", "lunaroute", 0>> /\ ~\E g \in rest : g[1] = "user-agent"
    BY <1>0, WithAgents
  <2>2. \A h : h \in rest <=> h \in passed \/ h \in k.credential \/ h \in k.account \/ h \in CodexHeaders
    BY DEF rest
  <2> QED
    BY <2>1, <2>2
<1>2. \A h \in passed : /\ h = <<h[1], h[2], 0>> /\ ~Sensitive(h[2])
                        /\ h[2] \notin {"key", "token", "file", "codex", "empty"}
                        /\ ~SkippedByOpenAI(h[1])
  <2>1. k.headers \subseteq Given(k) \cup Customs(setup, k.request.session)
    BY DEF CallInv, HeadersInv
  <2> QED
    BY <2>1, CustomsAreHarmless, GivenAreTheClients DEF Sensitive
<1>3. \A h \in CodexHeaders : setup.codex /\ h[1] \in {"user-agent", "originator"} /\ h = <<h[1], "codex", 0>>
  BY DEF CodexHeaders, Header
<1>4. \A h \in k.credential :
        /\ h[1] = "authorization"
        /\ \/ h[2] = "key" /\ h[3] = 0
           \/ h[2] = "token" /\ h[3] \in 1 .. file.login /\ k.credential = {Token(h[3])}
  BY DEF CallInv, CredentialInv, Token, Header
<1>5. \A h \in k.account : h[1] = "chatgpt-account-id" /\ h[2] \in {"configured", "file"}
  BY DEF CallInv, AccountInv, Header
<1>6. \A h \in hs : h[1] = "authorization" => h \in passed \cup k.credential
  BY <1>1, <1>3, <1>5
<1>7. \A h \in hs : h[1] = "chatgpt-account-id" => h \in passed \cup k.account
  BY <1>1, <1>3, <1>4
<1>8. \A v : v \in auth <=> \E h \in hs : h[1] = "authorization" /\ v = <<h[2], h[3]>>
  BY InValues
<1>9. \A v : v \in account <=> \E h \in hs : h[1] = "chatgpt-account-id" /\ v = <<h[2], h[3]>>
  BY InValues
<1> HIDE DEF passed, hs, auth, account, rest
<1>10. setup.key => Client \notin auth
  BY <1>2, <1>4, <1>6, <1>8 DEF Client, SkippedByOpenAI
<1>11. setup.customs = {} => k.headers = Given(k)
  BY DEF CallInv, HeadersInv
<1>12. ~setup.key /\ setup.customs = {} /\ "authorization" \in Received(k.path, k.request.headers) => auth = {Client}
  <2> SUFFICES ASSUME ~setup.key, setup.customs = {}, "authorization" \in Received(k.path, k.request.headers)
               PROVE  auth = {Client}
    OBVIOUS
  <2>1. <<"authorization", "client", 0>> \in k.headers
    BY <1>11 DEF Given, Header
  <2>2. k.credential = {}
    BY <2>1 DEF CallInv, CredentialInv, ClientProvided, Names
  <2>3. <<"authorization", "client", 0>> \in passed
    BY <2>1 DEF passed, SkippedByOpenAI
  <2>4. \A h \in passed : h = <<h[1], "client", 0>>
    BY <1>11, GivenAreTheClients DEF passed
  <2> QED
    BY <1>1, <1>6, <1>8, <2>2, <2>3, <2>4 DEF Client
<1>13. setup.customs = {} => Cardinality(auth) <= 1
  <2> SUFFICES ASSUME setup.customs = {}
               PROVE  \E v : auth \subseteq {v}
    BY AtMostOne
  <2>4. \A h \in passed : h = <<h[1], "client", 0>> /\ h \in k.headers
    BY <1>11, GivenAreTheClients DEF passed
  <2>1. CASE "authorization" \in Names(k.headers)
    <3>1. k.credential = {}
      BY <2>1 DEF CallInv, CredentialInv, ClientProvided
    <3> QED
      BY <1>6, <1>8, <2>4, <3>1
  <2>2. CASE "authorization" \notin Names(k.headers)
    <3>1. \A h \in passed : h[1] # "authorization"
      BY <2>2, <2>4 DEF Names
    <3>2. \E g : k.credential \subseteq {g}
      BY DEF CallInv, CredentialInv
    <3> QED
      BY <1>6, <1>8, <3>1, <3>2
  <2> QED
    BY <2>1, <2>2
<1>14. setup.codex => Values(hs, "user-agent") = {<<"codex", 0>>} /\ Values(hs, "originator") = {<<"codex", 0>>}
  <2> SUFFICES ASSUME setup.codex, NEW name \in {"user-agent", "originator"}
               PROVE  Values(hs, name) = {<<"codex", 0>>}
    OBVIOUS
  <2>1. <<name, "codex", 0>> \in CodexHeaders /\ <<"user-agent", "codex", 0>> \in rest
    BY DEF CodexHeaders, Header, rest
  <2>2. \A h \in hs : h[1] = name => h = <<name, "codex", 0>>
    <3>1. \A h \in passed : h[1] # name
      BY <1>2 DEF SkippedByOpenAI
    <3> QED
      BY <1>1, <1>3, <1>4, <1>5, <2>1, <3>1
  <2>3. <<name, "codex", 0>> \in hs
    BY <1>1, <2>1
  <2>4. \A v : v \in Values(hs, name) <=> \E h \in hs : h[1] = name /\ v = <<h[2], h[3]>>
    BY InValues
  <2> QED
    BY <2>2, <2>3, <2>4
<1>15. setup.codex /\ setup.account => account = {<<"configured", 0>>}
  <2> SUFFICES ASSUME setup.codex, setup.account
               PROVE  account = {<<"configured", 0>>}
    OBVIOUS
  <2>1. k.account = {<<"chatgpt-account-id", "configured", 0>>}
    BY DEF CallInv, AccountInv, Header
  <2>2. \A h \in passed : h[1] # "chatgpt-account-id"
    BY <1>2 DEF SkippedByOpenAI
  <2>3. \A h \in hs : h[1] = "chatgpt-account-id" => h = <<"chatgpt-account-id", "configured", 0>>
    BY <1>7, <2>1, <2>2
  <2>4. <<"chatgpt-account-id", "configured", 0>> \in hs
    BY <1>1, <2>1
  <2> QED
    BY <1>9, <2>3, <2>4
<1>16. \A h \in hs : ~Sensitive(h[2])
  BY <1>1, <1>2, <1>3, <1>4, <1>5 DEF Sensitive
<1>17. \A t \in auth, f \in account : t[1] = "token" /\ f[1] = "file" => t[2] <= f[2]
  <2> SUFFICES ASSUME NEW t \in auth, NEW f \in account, t[1] = "token", f[1] = "file"
               PROVE  t[2] <= f[2]
    OBVIOUS
  <2>1. PICK h \in hs : h[1] = "authorization" /\ t = <<h[2], h[3]>>
    BY <1>8
  <2>2. PICK g \in hs : g[1] = "chatgpt-account-id" /\ f = <<g[2], g[3]>>
    BY <1>9
  <2>3. h \in k.credential /\ k.credential = {Token(h[3])} /\ h[3] \in 1 .. file.login
    BY <1>2, <1>4, <1>6, <2>1
  <2>4. g \in k.account
    BY <1>2, <1>7, <2>2
  <2>5. g[2] = "file" /\ \A m \in 1 .. file.login : k.credential = {Token(m)} => m <= g[3]
    BY <2>2, <2>4 DEF CallInv, AccountInv, Header
  <2> QED
    BY <2>1, <2>2, <2>3, <2>5
<1> QED
  BY <1>10, <1>12, <1>13, <1>14, <1>15, <1>16, <1>17 DEF ShowsOne, hs, auth, account

(* The two senders of translated requests: no header of a client arrives. *)
LEMMA TranslatedIsProper ==
  ASSUME LoginInv, NEW k, CallInv(setup, file, k), k.path \in Translated, setup.kind \in {"openai", "anthropic"}
  PROVE  ShowsOne(setup, k, TranslatedRequest(k))
<1> DEFINE hs == TranslatedRequest(k)
           agent == <<"user-agent", "lunaroute", 0>>
           auth == Values(hs, "authorization")
           account == Values(hs, "chatgpt-account-id")
<1>1. Received(k.path, k.request.headers) = {} /\ Given(k) = {} /\ k.path \notin RawOpenAI
  BY DEF Received, Given, Translated, RawOpenAI, RawAnthropic
<1>2. \A h \in k.headers : h[2] \notin {"client", "key", "token", "file"} /\ ~Sensitive(h[2])
  BY <1>1, CustomsAreHarmless DEF CallInv, HeadersInv
<1>3. \A h \in k.credential : h[2] \in {"key", "token"} /\ ~Sensitive(h[2]) /\ h[1] = "authorization"
  BY DEF CallInv, CredentialInv, Token, Header, Sensitive
<1>4. CASE setup.kind = "openai"
  <2>1. hs = WithAgent(k.headers \cup k.credential)
    BY <1>4 DEF TranslatedRequest
  <2>2. \A h \in hs : h \in k.headers \/ h \in k.credential \/ h = agent
    BY <2>1, WithAgents
  <2>3. \A h \in hs : /\ h[2] \notin {"client", "file"} /\ ~Sensitive(h[2])
                      /\ h[1] = "authorization" => h \in k.headers \cup k.credential
    BY <1>2, <1>3, <2>2 DEF Sensitive
  <2> HIDE DEF hs
  <2>4. Client \notin auth /\ \A f \in account : f[1] # "file"
    BY <2>3, InValues DEF Client
  <2>5. setup.customs = {} => Cardinality(auth) <= 1
    <3> SUFFICES ASSUME setup.customs = {}
                 PROVE  \E v : auth \subseteq {v}
      BY AtMostOne
    <3>1. k.headers = {}
      BY <1>1 DEF CallInv, HeadersInv
    <3>2. \E g : k.credential \subseteq {g}
      BY DEF CallInv, CredentialInv
    <3> QED
      BY <2>3, <3>1, <3>2, InValues
  <2> HIDE DEF auth, account
  <2> QED
    BY <1>1, <1>4, <2>3, <2>4, <2>5 DEF ShowsOne, hs, auth, account
<1>5. CASE setup.kind = "anthropic"
  <2> DEFINE own == <<"x-api-key", IF setup.key THEN "key" ELSE "empty", 0>>
  <2>1. hs = WithAgent({own})
    BY <1>5 DEF TranslatedRequest, Header
  <2>2. \A h : h \in hs <=> h \in {own, agent}
    BY <2>1, WithAgents
  <2> HIDE DEF hs
  <2>3. auth = {}
    BY <2>2, InValues
  <2>4. setup.key => Values(hs, "x-api-key") = {<<"key", 0>>}
    <3> SUFFICES ASSUME setup.key
                 PROVE  Values(hs, "x-api-key") = {<<"key", 0>>}
      OBVIOUS
    <3>1. own \in hs /\ own = <<"x-api-key", "key", 0>>
      BY <2>2
    <3>2. \A h \in hs : h[1] = "x-api-key" => h = <<"x-api-key", "key", 0>>
      BY <2>2
    <3> QED
      BY <3>1, <3>2, InValues
  <2>5. \A h \in hs : ~Sensitive(h[2])
    BY <2>2 DEF Sensitive
  <2>6. Cardinality(auth) <= 1
    BY <2>3, FS_EmptySet
  <2> HIDE DEF auth, account
  <2> QED
    BY <1>1, <1>5, <2>3, <2>4, <2>5, <2>6 DEF LoginInv, ShowsOne, hs, auth, account
<1> QED
  BY <1>4, <1>5

(* The two senders of messages to Anthropic pass on what they do not skip. *)
LEMMA MessagesAreProper ==
  ASSUME LoginInv, NEW k, CallInv(setup, file, k), k.path \in RawAnthropic, setup.kind = "anthropic",
         NEW kept, kept \subseteq {h \in k.headers : ~SkippedByAnthropic(h[1])},
         \A h \in k.headers : h[1] = "authorization" /\ ~setup.key => h \in kept
  PROVE  ShowsOne(setup, k, WithAgent(kept \cup ApiKeyOfAnthropic))
<1> DEFINE hs == WithAgent(kept \cup ApiKeyOfAnthropic)
           auth == Values(hs, "authorization")
           account == Values(hs, "chatgpt-account-id")
<1>1. k.path \notin RawOpenAI /\ ~setup.codex
  BY DEF RawAnthropic, RawOpenAI, LoginInv
<1>2. \A h \in kept : /\ h = <<h[1], "client", 0>> /\ h[1] \in Received(k.path, k.request.headers)
                      /\ ~SkippedByAnthropic(h[1])
  BY GivenAreTheClients DEF CallInv, PathInv
<1>3. \A h : h \in hs => h \in kept \/ h \in ApiKeyOfAnthropic \/ h = <<"user-agent", "lunaroute", 0>>
  BY WithAgents
<1>4. \A h : h \in kept \/ h \in ApiKeyOfAnthropic => h \in hs
  BY WithAgents
<1>5. ApiKeyOfAnthropic = IF setup.key THEN {<<"x-api-key", "key", 0>>} ELSE {}
  BY DEF ApiKeyOfAnthropic, Header
<1> HIDE DEF hs
<1>6. setup.key => auth = {} /\ Values(hs, "x-api-key") = {<<"key", 0>>}
  <2> SUFFICES ASSUME setup.key
               PROVE  auth = {} /\ Values(hs, "x-api-key") = {<<"key", 0>>}
    OBVIOUS
  <2>1. \A h \in hs : h[1] # "authorization" /\ (h[1] = "x-api-key" => h = <<"x-api-key", "key", 0>>)
    BY <1>2, <1>3, <1>5 DEF SkippedByAnthropic
  <2>2. <<"x-api-key", "key", 0>> \in hs
    BY <1>4, <1>5
  <2> QED
    BY <2>1, <2>2, InValues
<1>7. \A v \in auth : v = Client
  BY <1>2, <1>3, <1>5, InValues DEF Client
<1>8. ~setup.key /\ "authorization" \in Received(k.path, k.request.headers) => auth = {Client}
  <2> SUFFICES ASSUME ~setup.key, "authorization" \in Received(k.path, k.request.headers)
               PROVE  Client \in auth
    BY <1>7
  <2>1. <<"authorization", "client", 0>> \in k.headers
    BY DEF CallInv, PathInv, Given, Header
  <2> QED
    BY <1>4, <2>1, InValues DEF Client
<1>9. Cardinality(auth) <= 1
  BY <1>7, AtMostOne
<1>10. \A h \in hs : ~Sensitive(h[2])
  BY <1>2, <1>3, <1>5 DEF Sensitive
<1>11. \A t \in auth : t[1] # "token"
  BY <1>7 DEF Client
<1> HIDE DEF auth, account
<1> QED
  BY <1>1, <1>6, <1>8, <1>9, <1>10, <1>11 DEF ShowsOne, hs, auth, account

(* The bypass replaces the credential of its provider, and no other header. *)
LEMMA BypassIsProper ==
  ASSUME LoginInv, NEW k, CallInv(setup, file, k), k.path = "bypass", setup.kind \notin {"openai", "anthropic"},
         NEW name, name = IF setup.kind = "bypass_anthropic" THEN "x-api-key" ELSE "authorization",
         NEW hs, hs = IF setup.key THEN {h \in k.headers : h[1] # name} \cup {Header(name, "key")} ELSE k.headers
  PROVE  ShowsOne(setup, k, hs)
<1> DEFINE auth == Values(hs, "authorization")
           account == Values(hs, "chatgpt-account-id")
<1>1. k.path \notin RawOpenAI /\ ~setup.codex
  BY DEF RawOpenAI, LoginInv
<1>2. k.headers = Given(k)
  BY DEF CallInv, HeadersInv, Translated
<1>3. \A h \in k.headers : h = <<h[1], "client", 0>>
  BY <1>2, GivenAreTheClients
<1>4. \A h \in hs : h[1] = "authorization" =>
        h = <<"authorization", IF setup.key /\ name = "authorization" THEN "key" ELSE "client", 0>>
  BY <1>3 DEF Header
<1>5. setup.key /\ setup.kind = "bypass" => Client \notin auth
  BY <1>4, InValues DEF Client
<1>6. ~setup.key /\ "authorization" \in Received(k.path, k.request.headers) => auth = {Client}
  <2> SUFFICES ASSUME ~setup.key, "authorization" \in Received(k.path, k.request.headers)
               PROVE  auth = {Client}
    OBVIOUS
  <2>1. <<"authorization", "client", 0>> \in hs
    BY <1>2 DEF Given, Header
  <2> QED
    BY <1>4, <2>1, InValues DEF Client
<1>7. Cardinality(auth) <= 1
  <2>1. \E v : auth \subseteq {v}
    BY <1>4, InValues
  <2> QED
    BY <2>1, AtMostOne
<1>8. \A h \in hs : ~Sensitive(h[2])
  BY <1>3 DEF Header, Sensitive
<1>9. \A t \in auth : t[1] # "token"
  BY <1>4, InValues
<1> HIDE DEF auth, account
<1> QED
  BY <1>1, <1>5, <1>6, <1>7, <1>8, <1>9 DEF ShowsOne, auth, account

-----------------------------------------------------------------------------
(* Steps.                                                                  *)

(* What a call shows depends on its path and its request only. *)
LEMMA ShowsTheSame ==
  ASSUME NEW s, NEW k, NEW k2, NEW headers, k2.path = k.path, k2.request = k.request, ShowsOne(s, k, headers)
  PROVE  ShowsOne(s, k2, headers)
BY DEF ShowsOne

(* A step of a call in which neither its request nor its attempts change. *)
LEMMA CallGoesOn ==
  ASSUME NEW s, NEW f, NEW k, CallInv(s, f, k), NEW k2, IsCall(k2),
         k2.path = k.path, k2.request = k.request, k2.headers = k.headers, k2.sent = k.sent
  PROVE  HeadersInv(s, f, k2) /\ SentInv(s, f, k2) /\ Given(k2) = Given(k) /\ ClientProvided(k2) = ClientProvided(k)
<1>1. Given(k2) = Given(k) /\ ClientProvided(k2) = ClientProvided(k)
  BY DEF Given, ClientProvided
<1>2. HeadersInv(s, f, k2)
  BY <1>1 DEF CallInv, HeadersInv
<1>3. SentInv(s, f, k2)
  BY ShowsTheSame DEF CallInv, SentInv
<1> QED
  BY <1>1, <1>2, <1>3

(* One more attempt. *)
LEMMA OneMoreSent ==
  ASSUME NEW s, NEW f, NEW k, CallInv(s, f, k), NEW headers, ShowsOne(s, k, headers), k.pc = "send",
         NEW k2, k2 = [k EXCEPT !.pc = "wait", !.sent = Append(@, headers)]
  PROVE  CallInv(s, f, k2)
<1> USE DEF CallInv
<1>1. /\ IsCall(k2) /\ k2.pc = "wait" /\ k2.sent = Append(k.sent, headers)
      /\ k2.path = k.path /\ k2.request = k.request /\ k2.headers = k.headers
      /\ k2.credential = k.credential /\ k2.account = k.account
  BY DEF IsCall
<1>2. Given(k2) = Given(k)
  BY <1>1 DEF Given
<1>3. HeadersInv(s, f, k2)
  BY <1>1, <1>2 DEF HeadersInv
<1>4. PathInv(s, f, k2)
  BY <1>1, <1>2 DEF PathInv
<1>5. CredentialInv(s, f, k2)
  BY <1>1 DEF CredentialInv
<1>6. AccountInv(s, f, k2)
  BY <1>1 DEF AccountInv
<1>7. SentInv(s, f, k2)
  <2>1. PICK S : k.sent \in Seq(S)
    BY DEF SentInv
  <2>2. k.sent \in Seq(S \cup {headers}) /\ headers \in S \cup {headers}
    BY <2>1
  <2>3. /\ k2.sent \in Seq(S \cup {headers}) /\ Len(k.sent) \in Nat /\ DOMAIN k2.sent = 1 .. Len(k.sent) + 1
        /\ DOMAIN k.sent = 1 .. Len(k.sent) /\ k2.sent[Len(k.sent) + 1] = headers
        /\ \A i \in 1 .. Len(k.sent) : k2.sent[i] = k.sent[i]
    BY <1>1, <2>2
  <2>4. ASSUME NEW i \in DOMAIN k2.sent PROVE ShowsOne(s, k, k2.sent[i])
    BY <2>3, <2>4 DEF SentInv
  <2> QED
    BY <1>1, <2>3, <2>4, ShowsTheSame DEF SentInv
<1> QED
  BY <1>1, <1>3, <1>4, <1>5, <1>6, <1>7

(* A call that goes on leaves the others alone. *)
LEMMA OthersStay ==
  ASSUME ConnectorInv, NEW c \in Callers, NEW k2, Becomes(c, k2), UNCHANGED <<setup, file>>,
         CallInv(setup, file, k2), token' \in 0 .. file.login, token' # 0 => setup.codex
  PROVE  ConnectorInv'
<1>1. /\ calls' = [d \in Callers |-> calls'[d]] /\ calls'[c] = k2
      /\ \A d \in Callers : d # c => calls'[d] = calls[d]
  BY DEF Becomes, ConnectorInv
<1>2. setup' = setup /\ file' = file
  OBVIOUS
<1>3. LoginInv'
  BY <1>2 DEF ConnectorInv, LoginInv
<1>4. ASSUME NEW d \in Callers PROVE CallInv(setup, file, calls'[d])
  BY <1>1, <1>4 DEF ConnectorInv
<1> QED
  BY <1>1, <1>2, <1>3, <1>4 DEF ConnectorInv

LEMMA AnArrival ==
  ASSUME ConnectorInv, NEW c \in Callers, NEW r, Arrive(c, r)
  PROVE  ConnectorInv'
<1> DEFINE headers == {Header(n, "client") : n \in Received(r.path, r.headers)}
           changes == setup.kind = "openai" /\ r.path \in Translated \cup {"context"}
           k2 == calls'[c]
<1>1. /\ IsCall(k2) /\ k2.pc = (IF setup.kind = "openai" THEN "credential" ELSE "send") /\ k2.path = r.path
      /\ k2.request = r /\ k2.headers = (IF changes THEN WithCustoms(headers, setup, r.session) ELSE headers)
      /\ k2.credential = {} /\ k2.account = {} /\ k2.sent = << >>
      /\ Becomes(c, k2)
  BY DEF Arrive, Becomes, Idle, IsCall, ConnectorInv
<1>2. r.path \in PathsOf(setup.kind) /\ UNCHANGED <<setup, file, token>>
  BY DEF Arrive
<1>3. Given(k2) = headers
  BY <1>1 DEF Given
<1> HIDE DEF headers, k2
<1>4. HeadersInv(setup, file, k2)
  <2>1. WithCustoms(headers, setup, r.session) \subseteq headers \cup Customs(setup, r.session)
    BY DEF WithCustoms
  <2>2. setup.customs = {} => WithCustoms(headers, setup, r.session) = headers
    BY DEF WithCustoms, Customs
  <2> QED
    BY <1>1, <1>3, <2>1, <2>2 DEF HeadersInv
<1>5. PathInv(setup, file, k2)
  BY <1>1, <1>2, <1>3 DEF PathInv
<1>6. CredentialInv(setup, file, k2)
  BY <1>1 DEF CredentialInv
<1>7. AccountInv(setup, file, k2)
  BY <1>1 DEF AccountInv, ConnectorInv, LoginInv
<1>8. SentInv(setup, file, k2)
  BY <1>1 DEF SentInv
<1> QED
  BY <1>1, <1>2, <1>4, <1>5, <1>6, <1>7, <1>8, OthersStay DEF CallInv, ConnectorInv, LoginInv

(* The steps on the way to the credential and to the account. *)
Advances(c, pc, credential, account) ==
  Becomes(c, [calls[c] EXCEPT !.pc = pc, !.credential = credential, !.account = account])

LEMMA TheNextStep ==
  ASSUME ConnectorInv, NEW c \in Callers, UNCHANGED <<setup, file>>, token' \in 0 .. file.login, token' # 0 => setup.codex,
         NEW pc, NEW credential, NEW account,
         Advances(c, pc, credential, account),
         NEW k2, k2 = calls'[c], setup.kind = "openai", calls[c].pc # "idle",
         pc \in {"read", "fill", "account", "send"}, CredentialInv(setup, file, k2), AccountInv(setup, file, k2)
  PROVE  ConnectorInv'
<1> DEFINE k == calls[c]
<1>1. CallInv(setup, file, k)
  BY DEF ConnectorInv
<1>2. /\ IsCall(k2) /\ k2.pc = pc /\ k2.path = k.path /\ k2.request = k.request /\ k2.headers = k.headers
      /\ k2.sent = k.sent /\ Becomes(c, k2)
  BY <1>1 DEF Advances, Becomes, ConnectorInv, CallInv, IsCall
<1>3. HeadersInv(setup, file, k2) /\ SentInv(setup, file, k2) /\ Given(k2) = Given(k)
  BY <1>1, <1>2, CallGoesOn
<1>4. PathInv(setup, file, k2)
  BY <1>1, <1>2, <1>3 DEF PathInv, CallInv
<1> QED
  BY <1>2, <1>3, <1>4, OthersStay DEF CallInv

(* What a step makes of the fields of a call. *)
LEMMA Becoming ==
  ASSUME ConnectorInv, NEW c \in Callers, NEW pc, NEW credential, NEW account,
         Advances(c, pc, credential, account)
  PROVE  /\ calls'[c].pc = pc /\ calls'[c].credential = credential /\ calls'[c].account = account
         /\ (ClientProvided(calls'[c]) <=> ClientProvided(calls[c]))
         /\ calls'[c].path = calls[c].path
<1>1. /\ calls'[c] = [calls[c] EXCEPT !.pc = pc, !.credential = credential, !.account = account]
      /\ IsCall(calls[c])
  BY DEF Advances, Becomes, ConnectorInv, CallInv
<1>2. /\ calls'[c].pc = pc /\ calls'[c].credential = credential /\ calls'[c].account = account
      /\ calls'[c].path = calls[c].path /\ calls'[c].headers = calls[c].headers
  BY <1>1 DEF IsCall
<1>3. ClientProvided(calls'[c]) <=> ClientProvided(calls[c])
  BY <1>2 DEF ClientProvided
<1> QED
  BY <1>2, <1>3

(* The steps of which not all three fields are named. *)
LEMMA AdvancesInOne ==
  ASSUME ConnectorInv, NEW c \in Callers, NEW pc, NEW v
  PROVE  /\ Becomes(c, [calls[c] EXCEPT !.pc = pc]) => Advances(c, pc, calls[c].credential, calls[c].account)
         /\ Becomes(c, [calls[c] EXCEPT !.pc = pc, !.credential = v]) => Advances(c, pc, v, calls[c].account)
         /\ Becomes(c, [calls[c] EXCEPT !.pc = pc, !.account = v]) => Advances(c, pc, calls[c].credential, v)
<1>1. IsCall(calls[c])
  BY DEF ConnectorInv, CallInv
<1>2. /\ [calls[c] EXCEPT !.pc = pc]
           = [calls[c] EXCEPT !.pc = pc, !.credential = calls[c].credential, !.account = calls[c].account]
      /\ [calls[c] EXCEPT !.pc = pc, !.credential = v]
           = [calls[c] EXCEPT !.pc = pc, !.credential = v, !.account = calls[c].account]
      /\ [calls[c] EXCEPT !.pc = pc, !.account = v]
           = [calls[c] EXCEPT !.pc = pc, !.credential = calls[c].credential, !.account = v]
  BY <1>1 DEF IsCall
<1> QED
  BY <1>2 DEF Advances

LEMMA AFallBack ==
  ASSUME ConnectorInv, NEW c \in Callers, FallBack(c)
  PROVE  ConnectorInv'
<1> DEFINE k == calls[c]
           key == <<"authorization", "key", 0>>
<1>1. /\ CallInv(setup, file, k) /\ k.pc = "credential" /\ setup.kind = "openai" /\ UNCHANGED <<setup, file, token>>
      /\ token \in 0 .. file.login /\ (token # 0 => setup.codex) /\ file.login \in Nat
  BY DEF ConnectorInv, FallBack, CallInv, PathInv, LoginInv
<1>2. ASSUME NEW credential, Becomes(c, [k EXCEPT !.pc = "account", !.credential = credential]),
             \/ credential = {}
             \/ ~ClientProvided(k) /\ credential = {key} /\ setup.key
             \/ ~ClientProvided(k) /\ setup.codex /\ credential = {Token(token)} /\ token # 0
      PROVE  ConnectorInv'
  <2>1. Advances(c, "account", credential, k.account)
    BY <1>2, AdvancesInOne
  <2>2. /\ calls'[c].pc = "account" /\ calls'[c].credential = credential /\ calls'[c].account = k.account
        /\ (ClientProvided(calls'[c]) <=> ClientProvided(k))
    BY <2>1, Becoming
  <2>3. CredentialInv(setup, file, calls'[c])
    BY <1>1, <1>2, <2>2 DEF CredentialInv, Header
  <2>4. AccountInv(setup, file, calls'[c])
    BY <1>1, <2>2 DEF AccountInv
  <2> QED
    BY <1>1, <2>1, <2>3, <2>4, TheNextStep
<1>3. CASE ~ClientProvided(k) /\ setup.codex /\ token = 0
  <2>1. Becomes(c, [k EXCEPT !.pc = "read"])
    BY <1>3 DEF FallBack
  <2>2. Advances(c, "read", k.credential, k.account)
    BY <2>1, AdvancesInOne
  <2>3. /\ calls'[c].pc = "read" /\ calls'[c].credential = k.credential /\ calls'[c].account = k.account
        /\ (ClientProvided(calls'[c]) <=> ClientProvided(k))
    BY <2>2, Becoming
  <2>4. CredentialInv(setup, file, calls'[c])
    BY <1>1, <1>3, <2>3 DEF CredentialInv, CallInv
  <2>5. AccountInv(setup, file, calls'[c])
    BY <1>1, <2>3 DEF AccountInv
  <2> QED
    BY <1>1, <2>2, <2>4, <2>5, TheNextStep
<1>4. CASE ClientProvided(k)
  <2>1. Becomes(c, [k EXCEPT !.pc = "account", !.credential = {}])
    BY <1>4 DEF FallBack
  <2> QED
    BY <1>2, <2>1
<1>5. CASE ~ClientProvided(k) /\ ~setup.codex
  <2>1. Becomes(c, [k EXCEPT !.pc = "account", !.credential = ApiKey])
    BY <1>5 DEF FallBack
  <2>2. ApiKey = {} \/ (ApiKey = {key} /\ setup.key)
    BY DEF ApiKey, Header
  <2> QED
    BY <1>2, <1>5, <2>1, <2>2
<1>6. CASE ~ClientProvided(k) /\ setup.codex /\ token # 0
  <2>1. Becomes(c, [k EXCEPT !.pc = "account", !.credential = {Token(token)}])
    BY <1>6 DEF FallBack, Token
  <2> QED
    BY <1>2, <1>6, <2>1
<1> QED
  BY <1>3, <1>4, <1>5, <1>6

LEMMA AReadOfTheToken ==
  ASSUME ConnectorInv, NEW c \in Callers, ReadToken(c)
  PROVE  ConnectorInv'
<1> DEFINE k == calls[c]
           t == Reads(setup.field)
           pc == IF t = 0 THEN "account" ELSE "fill"
           credential == IF t = 0 THEN ApiKey ELSE {Token(t)}
<1>1. /\ CallInv(setup, file, k) /\ k.pc = "read" /\ setup.kind = "openai" /\ UNCHANGED <<setup, file, token>>
      /\ token \in 0 .. file.login /\ (token # 0 => setup.codex) /\ file.login \in Nat \ {0}
      /\ ~ClientProvided(k) /\ setup.codex
  BY DEF ConnectorInv, ReadToken, CallInv, PathInv, LoginInv, CredentialInv
<1>2. Becomes(c, [k EXCEPT !.pc = pc, !.credential = credential])
  BY DEF ReadToken, Token
<1>3. t \in 0 .. file.login
  BY <1>1 DEF Reads
<1>4. \/ pc = "account" /\ credential = {}
      \/ pc = "account" /\ credential = {<<"authorization", "key", 0>>} /\ setup.key
      \/ pc = "fill" /\ \E n \in 1 .. file.login : credential = {Token(n)}
  BY <1>1, <1>3 DEF ApiKey, Header
<1> HIDE DEF t, pc, credential
<1>5. Advances(c, pc, credential, k.account)
  BY <1>2, AdvancesInOne
<1>6. /\ calls'[c].pc = pc /\ calls'[c].credential = credential /\ calls'[c].account = k.account
      /\ (ClientProvided(calls'[c]) <=> ClientProvided(k))
  BY <1>5, Becoming
<1>7. CredentialInv(setup, file, calls'[c])
  BY <1>1, <1>4, <1>6 DEF CredentialInv, Header
<1>8. AccountInv(setup, file, calls'[c])
  BY <1>1, <1>4, <1>6 DEF AccountInv
<1>9. pc \in {"account", "fill"}
  BY <1>4
<1> QED
  BY <1>1, <1>5, <1>7, <1>8, <1>9, TheNextStep

LEMMA AFillOfTheCache ==
  ASSUME ConnectorInv, NEW c \in Callers, FillCache(c)
  PROVE  ConnectorInv'
<1> DEFINE k == calls[c]
<1>1. /\ CallInv(setup, file, k) /\ k.pc = "fill" /\ setup.kind = "openai" /\ UNCHANGED <<setup, file>>
      /\ ~ClientProvided(k) /\ setup.codex /\ file.login \in Nat
  BY DEF ConnectorInv, FillCache, CallInv, PathInv, LoginInv, CredentialInv
<1>2. PICK n \in 1 .. file.login : k.credential = {Token(n)}
  BY <1>1 DEF CallInv, CredentialInv
<1>3. token' = n
  <2>1. token' = (CHOOSE h \in k.credential : TRUE)[3]
    BY DEF FillCache
  <2>2. (CHOOSE h \in k.credential : TRUE) = Token(n)
    BY <1>2
  <2>3. Token(n)[3] = n
    BY DEF Token
  <2> QED
    BY <2>1, <2>2, <2>3
<1>4. Advances(c, "account", k.credential, k.account)
  BY AdvancesInOne DEF FillCache
<1>5. /\ calls'[c].pc = "account" /\ calls'[c].credential = k.credential /\ calls'[c].account = k.account
      /\ (ClientProvided(calls'[c]) <=> ClientProvided(k))
  BY <1>4, Becoming
<1>6. CredentialInv(setup, file, calls'[c])
  BY <1>1, <1>2, <1>5 DEF CredentialInv
<1>7. AccountInv(setup, file, calls'[c])
  BY <1>1, <1>5 DEF AccountInv
<1> QED
  BY <1>1, <1>3, <1>4, <1>6, <1>7, TheNextStep

(* The account is that of the latest login, so no token is of a later one. *)
LEMMA AnAccount ==
  ASSUME ConnectorInv, NEW c \in Callers, GetAccount(c)
  PROVE  ConnectorInv'
<1> DEFINE k == calls[c]
           account == IF ~setup.codex \/ k.path \in Translated THEN {}
                      ELSE IF setup.account THEN {Header("chatgpt-account-id", "configured")}
                      ELSE IF Reads("account") # 0 THEN {<<"chatgpt-account-id", "file", file.login>>} ELSE {}
<1>1. /\ CallInv(setup, file, k) /\ k.pc = "account" /\ setup.kind = "openai" /\ UNCHANGED <<setup, file, token>>
      /\ token \in 0 .. file.login /\ (token # 0 => setup.codex) /\ file.login \in Nat \ {0}
  BY DEF ConnectorInv, GetAccount, CallInv, PathInv, LoginInv
<1>2. Becomes(c, [k EXCEPT !.pc = "send", !.account = account])
  BY DEF GetAccount
<1>3. Advances(c, "send", k.credential, account)
  BY <1>2, AdvancesInOne
<1>4. \/ account = {} /\ ~(setup.codex /\ setup.account /\ k.path \in RawOpenAI)
      \/ account = {Header("chatgpt-account-id", "configured")}
      \/ ~setup.account /\ account = {<<"chatgpt-account-id", "file", file.login>>}
  BY DEF Translated, RawOpenAI
<1> HIDE DEF account
<1>5. /\ calls'[c].pc = "send" /\ calls'[c].credential = k.credential /\ calls'[c].account = account
      /\ (ClientProvided(calls'[c]) <=> ClientProvided(k)) /\ calls'[c].path = k.path
  BY <1>3, Becoming
<1>6. CredentialInv(setup, file, calls'[c])
  BY <1>1, <1>5 DEF CredentialInv, CallInv
<1>7. AccountInv(setup, file, calls'[c])
  BY <1>1, <1>4, <1>5 DEF AccountInv
<1> QED
  BY <1>1, <1>3, <1>6, <1>7, TheNextStep

LEMMA ASend ==
  ASSUME ConnectorInv, NEW c \in Callers, NEW paths, NEW headers, Sends(c, paths, headers),
         ShowsOne(setup, calls[c], headers)
  PROVE  ConnectorInv'
<1> DEFINE k2 == [calls[c] EXCEPT !.pc = "wait", !.sent = Append(@, headers)]
<1>1. Becomes(c, k2) /\ calls[c].pc = "send" /\ UNCHANGED <<setup, file, token>> /\ CallInv(setup, file, calls[c])
  BY DEF Sends, ConnectorInv
<1>2. CallInv(setup, file, k2)
  BY <1>1, OneMoreSent
<1> HIDE DEF k2
<1> QED
  BY <1>1, <1>2, OthersStay DEF ConnectorInv, LoginInv

(* Whatever a path sends shows one identity. *)
LEMMA AnAttempt ==
  ASSUME ConnectorInv, NEW c \in Callers,
         \/ SendChat(c) \/ SendResponses(c) \/ StreamChat(c) \/ StreamResponses(c) \/ GetModels(c)
         \/ SendTranslated(c) \/ StreamTranslated(c) \/ SendMessages(c) \/ StreamMessages(c) \/ Bypassed(c)
  PROVE  ConnectorInv'
<1> DEFINE k == calls[c]
<1>1. LoginInv /\ CallInv(setup, file, k)
  BY DEF ConnectorInv
<1>2. ASSUME NEW paths, NEW headers, Sends(c, paths, headers)
      PROVE  k.pc = "send" /\ k.path \in paths /\ k.path \in PathsOf(setup.kind)
  BY <1>1, <1>2 DEF Sends, CallInv, PathInv
<1>3. ASSUME SendChat(c) \/ SendResponses(c) \/ StreamChat(c) \/ StreamResponses(c) \/ GetModels(c)
      PROVE  ConnectorInv'
  <2>1. PICK paths : Sends(c, paths, RawRequest(k)) /\ paths \subseteq RawOpenAI
    BY <1>3 DEF SendChat, SendResponses, StreamChat, StreamResponses, GetModels, RawOpenAI
  <2>2. k.pc = "send" /\ k.path \in RawOpenAI /\ setup.kind = "openai"
    BY <1>2, <2>1 DEF PathsOf, RawOpenAI, RawAnthropic, Translated
  <2>3. ShowsOne(setup, k, RawRequest(k))
    BY <1>1, <2>2, RawIsProper
  <2> QED
    BY <2>1, <2>3, ASend
<1>4. ASSUME SendTranslated(c) \/ StreamTranslated(c)
      PROVE  ConnectorInv'
  <2>1. PICK paths : Sends(c, paths, TranslatedRequest(k)) /\ paths \subseteq Translated
    BY <1>4 DEF SendTranslated, StreamTranslated, Translated
  <2>2. k.path \in Translated /\ setup.kind \in {"openai", "anthropic"}
    BY <1>2, <2>1 DEF PathsOf, Translated
  <2>3. ShowsOne(setup, k, TranslatedRequest(k))
    BY <1>1, <2>2, TranslatedIsProper
  <2> QED
    BY <2>1, <2>3, ASend
<1>5. ASSUME SendMessages(c) \/ StreamMessages(c)
      PROVE  ConnectorInv'
  <2>1. PICK paths, kept :
          /\ Sends(c, paths, WithAgent(kept \cup ApiKeyOfAnthropic)) /\ paths \subseteq RawAnthropic
          /\ \/ kept = {h \in k.headers : ~SkippedByAnthropic(h[1])}
             \/ kept = {h \in k.headers : ~SkippedByAnthropic(h[1]) /\ h[1] # "accept-encoding"}
    BY <1>5 DEF SendMessages, StreamMessages, RawAnthropic
  <2>2. k.path \in RawAnthropic /\ setup.kind = "anthropic"
    BY <1>2, <2>1 DEF PathsOf, RawAnthropic, RawOpenAI, Translated
  <2>3. /\ kept \subseteq {h \in k.headers : ~SkippedByAnthropic(h[1])}
        /\ \A h \in k.headers : h[1] = "authorization" /\ ~setup.key => h \in kept
    BY <2>1 DEF SkippedByAnthropic
  <2>4. ShowsOne(setup, k, WithAgent(kept \cup ApiKeyOfAnthropic))
    BY <1>1, <2>2, <2>3, MessagesAreProper
  <2> QED
    BY <2>1, <2>4, ASend
<1>6. ASSUME Bypassed(c)
      PROVE  ConnectorInv'
  <2> DEFINE name == IF setup.kind = "bypass_anthropic" THEN "x-api-key" ELSE "authorization"
             hs == IF setup.key THEN {h \in k.headers : h[1] # name} \cup {Header(name, "key")} ELSE k.headers
  <2>1. Sends(c, {"bypass"}, hs)
    BY <1>6 DEF Bypassed
  <2>2. k.path = "bypass" /\ setup.kind \notin {"openai", "anthropic"}
    BY <1>2, <2>1 DEF PathsOf, RawOpenAI, RawAnthropic, Translated
  <2>3. ShowsOne(setup, k, hs)
    BY <1>1, <2>2, BypassIsProper
  <2> QED
    BY <2>1, <2>3, ASend
<1> QED
  BY <1>3, <1>4, <1>5, <1>6

LEMMA AnAnswer ==
  ASSUME ConnectorInv, NEW c \in Callers, NEW answer, NEW header, Answered(c, answer, header)
  PROVE  ConnectorInv'
<1> DEFINE k == calls[c]
           k2 == calls'[c]
<1>1. /\ CallInv(setup, file, k) /\ UNCHANGED <<setup, file, token>> /\ k.pc = "wait" /\ LoginInv
      /\ Becomes(c, k2)
      /\ \/ k2 = [k EXCEPT !.pc = IF setup.kind = "openai" THEN "credential" ELSE "send"]
         \/ k2 = [k EXCEPT !.pc = "done", !.told = Conclusion(k, answer, header)]
  BY DEF ConnectorInv, Answered, Becomes
<1>2. /\ IsCall(k2) /\ k2.path = k.path /\ k2.request = k.request /\ k2.headers = k.headers
      /\ k2.sent = k.sent /\ k2.credential = k.credential /\ k2.account = k.account
      /\ k2.pc \in {"done", IF setup.kind = "openai" THEN "credential" ELSE "send"}
  BY <1>1 DEF CallInv, IsCall
<1> HIDE DEF k2
<1>3. HeadersInv(setup, file, k2) /\ SentInv(setup, file, k2) /\ Given(k2) = Given(k)
  BY <1>1, <1>2, CallGoesOn
<1>4. PathInv(setup, file, k2)
  BY <1>1, <1>2, <1>3 DEF PathInv, CallInv
<1>5. CredentialInv(setup, file, k2)
  BY <1>1, <1>2 DEF CredentialInv, CallInv
<1>6. AccountInv(setup, file, k2)
  BY <1>1, <1>2 DEF AccountInv, CallInv, LoginInv
<1> QED
  BY <1>1, <1>2, <1>3, <1>4, <1>5, <1>6, OthersStay DEF CallInv, LoginInv

LEMMA ALogin ==
  ASSUME ConnectorInv, NEW has, LogIn(has)
  PROVE  ConnectorInv'
<1>1. /\ file' = [login |-> file.login + 1, has |-> has] /\ UNCHANGED <<setup, token, calls>>
      /\ file.login \in Nat \ {0}
  BY DEF LogIn, ConnectorInv, LoginInv
<1>2. LoginInv'
  BY <1>1 DEF LoginInv, ConnectorInv
<1>3. 1 .. file.login \subseteq 1 .. file'.login
  BY <1>1
<1>4. ASSUME NEW c \in Callers PROVE CallInv(setup, file', calls[c])
  <2> DEFINE k == calls[c]
  <2>1. CallInv(setup, file, k)
    BY DEF ConnectorInv
  <2>2. CredentialInv(setup, file', k)
    BY <1>3, <2>1 DEF CallInv, CredentialInv
  <2>3. \A m : k.credential = {Token(m)} => m \in 1 .. file.login
    <3> SUFFICES ASSUME NEW m, k.credential = {Token(m)}
                 PROVE  m \in 1 .. file.login
      OBVIOUS
    <3>1. Token(m) \in k.credential /\ Token(m) # Header("authorization", "key")
      BY DEF Token, Header
    <3>2. PICK n \in 1 .. file.login : k.credential = {Token(n)}
      BY <2>1, <3>1 DEF CallInv, CredentialInv
    <3>3. Token(m) = Token(n)
      BY <3>1, <3>2
    <3> QED
      BY <3>3 DEF Token
  <2>4. AccountInv(setup, file', k)
    BY <1>3, <2>1, <2>3 DEF CallInv, AccountInv
  <2> QED
    BY <2>1, <2>2, <2>4 DEF CallInv, HeadersInv, PathInv, SentInv
<1> QED
  BY <1>1, <1>2, <1>4 DEF ConnectorInv

LEMMA ConnectorStarts ==
  ASSUME ConnectorInit
  PROVE  ConnectorInv
<1>1. LoginInv
  BY ConnectorAssumption DEF ConnectorInit, LoginInv, Reads
<1>2. CallInv(setup, file, Idle)
  <2>1. Given(Idle) = {}
    BY DEF Given, Idle, NoRequest, Received, ThroughChat, RawAnthropic, Translated
  <2>2. HeadersInv(setup, file, Idle) /\ PathInv(setup, file, Idle)
    BY <2>1 DEF HeadersInv, PathInv, Idle
  <2>3. IsCall(Idle) /\ CredentialInv(setup, file, Idle) /\ AccountInv(setup, file, Idle) /\ SentInv(setup, file, Idle)
    BY DEF IsCall, CredentialInv, AccountInv, SentInv, Idle
  <2> QED
    BY <2>2, <2>3 DEF CallInv
<1> QED
  BY <1>1, <1>2 DEF ConnectorInit, ConnectorInv

LEMMA ConnectorSteps ==
  ASSUME ConnectorInv, [ConnectorNext]_connectorVars
  PROVE  ConnectorInv'
<1>1. CASE UNCHANGED connectorVars
  BY <1>1 DEF connectorVars, ConnectorInv, LoginInv
<1>2. ASSUME NEW c \in Callers, FallBack(c) \/ ReadToken(c) \/ FillCache(c) \/ GetAccount(c)
      PROVE  ConnectorInv'
  BY <1>2, AFallBack, AReadOfTheToken, AFillOfTheCache, AnAccount
<1> QED
  BY <1>1, <1>2, AnArrival, AnAttempt, AnAnswer, ALogin DEF ConnectorNext

-----------------------------------------------------------------------------
(* Every attempt shows the provider one identity: the server's key or the  *)
(* client's credential and never both, one agent and one account with a    *)
(* Codex login, and no token of a later login than that of the account     *)
(* beside it, for all configurations, requests, numbers of calls, retries  *)
(* and logins between their steps.                                         *)
THEOREM IdentityIsOne == ConnectorSpec => []OneIdentity
<1>1. ConnectorInv => OneIdentity
  BY DEF ConnectorInv, CallInv, SentInv, OneIdentity
<1> QED
  BY <1>1, ConnectorStarts, ConnectorSteps, PTL DEF ConnectorSpec

-----------------------------------------------------------------------------
(* The server.                                                             *)

Said == Messages({"user", "tool"})

ChatInv ==
  /\ launch \in Launches
  /\ chat = [path |-> chat.path, model |-> chat.model, history |-> chat.history]
  /\ chat.path \in {"none", "/v1/chat/completions", "/v1/messages"}
  /\ chat.history \in Seq(Said)
  /\ config.dialect \in Dialects
  /\ phase # "listening" => last = Nothing /\ aside = Nothing /\ chat.history = << >>

(* What became of the last request is what the whole history asks for. *)
LastInv == chat.history # << >> => last = Conversed(config, chat.path, chat.model, chat.history)

ServerInv == ChatInv /\ LastInv /\ NoRouteToNowhere

LEMMA ServerStarts == ServerInit => ServerInv
<1> SUFFICES ASSUME ServerInit
             PROVE  ServerInv
  OBVIOUS
<1>1. ChatInv /\ LastInv
  BY DEF ServerInit, ChatInv, LastInv, DefaultConfig, Dialects
<1>2. NoRouteToNowhere
  BY DEF ServerInit, NoRouteToNowhere, Nothing, Outcome, Range
<1> QED
  BY <1>1, <1>2 DEF ServerInv

(* The dialect stays one of those there are, whatever is written where. *)
LEMMA DialectStaysValid ==
  ASSUME NEW l \in Launches, NEW d \in Dialects
  PROVE  LET merged == MergeEnv(Loaded(l), l.env) IN
         merged.dialect \in Dialects /\ [merged EXCEPT !.dialect = d].dialect = d
<1> DEFINE merged == MergeEnv(Loaded(l), l.env)
<1>1. IsConfig(l.file)
  BY ServerAssumption
<1>2. IsConfig(DefaultConfig)
  BY DEF DefaultConfig, IsConfig, Dialects
<1>3. IsConfig(Loaded(l))
  <2>1. IsConfig([l.file EXCEPT !.from = "database"])
    BY <1>1 DEF IsConfig
  <2> QED
    BY <1>1, <1>2, <2>1 DEF Loaded, FromFile
<1>4. IsConfig(merged)
  <2> DEFINE c == Loaded(l)
  <2>1. IsConfig(c)
    BY <1>3
  <2> HIDE DEF c
  <2>2. merged = MergeEnv(c, l.env)
    BY DEF c
  <2> DEFINE d1 == IF l.env.dialect \in Dialects THEN l.env.dialect ELSE c.dialect
             d2 == [p \in Builtin |-> WithKey(c.providers[p], p \in l.env.keys)]
             d3 == IF l.env.bypass \in {"on", "off"} THEN l.env.bypass = "on" ELSE c.bypass
             d4 == IF l.env.bypassTo # "none" THEN l.env.bypassTo ELSE c.bypassTo
  <2>3. merged = [c EXCEPT !.dialect = d1, !.providers = d2, !.bypass = d3, !.bypassTo = d4]
    BY <2>2 DEF MergeEnv
  <2>4. d1 \in Dialects
    BY <2>1 DEF IsConfig
  <2> HIDE DEF merged, d1, d2, d3, d4
  <2> QED
    BY <2>1, <2>3, <2>4 DEF IsConfig
<1> HIDE DEF merged
<1>5. [merged EXCEPT !.dialect = d].dialect = d
  BY <1>4 DEF IsConfig
<1> QED
  BY <1>4, <1>5 DEF merged, IsConfig

-----------------------------------------------------------------------------
(* Routes.                                                                 *)

(* Of rules of two priorities one is the first. *)
LEMMA ARuleIsFound ==
  ASSUME NEW fits, fits # {}, fits \subseteq Nat, NEW rules, \A i \in fits : rules[i].priority \in {1, 10}
  PROVE  \E i \in fits : \A j \in fits :
           \/ rules[j].priority < rules[i].priority
           \/ rules[j].priority = rules[i].priority /\ i <= j
<1> DEFINE high == {i \in fits : rules[i].priority = 10}
<1>1. CASE high # {}
  <2>1. PICK i \in high : \A j \in high : i <= j
    BY <1>1, Least
  <2>2. i \in fits /\ rules[i].priority = 10
    BY <2>1
  <2>3. ASSUME NEW j \in fits
        PROVE  rules[j].priority < rules[i].priority \/ (rules[j].priority = rules[i].priority /\ i <= j)
    <3>1. CASE rules[j].priority = 1
      BY <2>2, <3>1
    <3>2. CASE rules[j].priority = 10
      BY <2>1, <2>2, <3>2
    <3> QED
      BY <3>1, <3>2
  <2> QED
    BY <2>2, <2>3
<1>2. CASE high = {}
  <2>1. PICK i \in fits : \A j \in fits : i <= j
    BY Least
  <2> QED
    BY <1>2, <2>1
<1> QED
  BY <1>1, <1>2

(* main.rs makes routes to providers that are there only. *)
LEMMA RoutesAreOfTheServer ==
  ASSUME NEW c, NEW model, Connectors(c) # {}
  PROVE  Range(FindRoute(Rules(c), model)) \subseteq Connectors(c)
<1> DEFINE rules == Rules(c)
           has == Connectors(c)
           R == [priority : {1, 10}, family : {"gpt", "claude", "any"}, primary : has,
                 fallbacks : {<< >>} \cup {<<q>> : q \in has}]
           any == Rule(1, "any", IF "openai" \in has THEN "openai" ELSE "anthropic", << >>)
           fits == {i \in DOMAIN rules : Matches(rules[i], model)}
           best == CHOOSE i \in fits : \A j \in fits :
                     \/ rules[j].priority < rules[i].priority
                     \/ rules[j].priority = rules[i].priority /\ i <= j
<1>1. PICK A, B : A \in Seq(R) /\ B \in Seq(R) /\ rules = A \o B \o <<any>>
  <2> DEFINE To(family, p, q) ==
               IF p \in has THEN <<Rule(10, family, p, IF q \in has THEN <<q>> ELSE << >>)>> ELSE << >>
  <2>1. ASSUME NEW family \in {"gpt", "claude"}, NEW p, NEW q
        PROVE  To(family, p, q) \in Seq(R)
    <3>1. CASE p \in has
      <4> DEFINE rest == IF q \in has THEN <<q>> ELSE << >>
      <4>1. rest \in {<< >>} \cup {<<x>> : x \in has}
        OBVIOUS
      <4>2. Rule(10, family, p, rest) \in R
        BY <3>1, <4>1 DEF Rule
      <4>3. To(family, p, q) = <<Rule(10, family, p, rest)>>
        BY <3>1
      <4> HIDE DEF To, R
      <4> QED
        BY <4>2, <4>3
    <3> QED
      BY <3>1
  <2>2. rules = To("gpt", "openai", "anthropic") \o To("claude", "anthropic", "openai") \o <<any>>
    BY DEF Rules
  <2> HIDE DEF To, rules
  <2> QED
    BY <2>1, <2>2
<1>2. any \in R
  BY DEF Connectors, Builtin, Rule
<1>3. /\ rules \in Seq(R) /\ Len(rules) \in DOMAIN rules /\ rules[Len(rules)] = any /\ DOMAIN rules \subseteq Nat
      /\ \A i \in DOMAIN rules : rules[i] \in R
  <2> HIDE DEF rules, any, R
  <2>1. rules \in Seq(R) /\ Len(rules) = Len(A) + Len(B) + 1 /\ rules[Len(rules)] = any
    BY <1>1, <1>2
  <2>2. Len(A) \in Nat /\ Len(B) \in Nat
    BY <1>1
  <2> QED
    BY <2>1, <2>2
<1>4. Len(rules) \in fits
  BY <1>3 DEF Matches, Rule
<1> HIDE DEF rules, has, any
<1>5. \A i \in fits : rules[i].priority \in {1, 10} /\ i \in Nat
  BY <1>3
<1>6. best \in fits
  <2> HIDE DEF fits
  <2> QED
    BY <1>4, <1>5, ARuleIsFound
<1>7. rules[best] \in R
  BY <1>3, <1>6
<1>8. FindRoute(rules, model) = <<rules[best].primary>> \o rules[best].fallbacks
  BY DEF FindRoute
<1> HIDE DEF best
<1>9. FindRoute(rules, model) \in Seq(has)
  <2>1. rules[best].primary \in has /\ rules[best].fallbacks \in Seq(has)
    <3>1. rules[best].primary \in has /\ rules[best].fallbacks \in {<< >>} \cup {<<q>> : q \in has}
      BY <1>7
    <3>2. << >> \in Seq(has) /\ \A q \in has : <<q>> \in Seq(has)
      OBVIOUS
    <3> QED
      BY <3>1, <3>2
  <2> QED
    BY <1>8, <2>1
<1> QED
  BY <1>9 DEF rules, has, Range

(* Whom the handlers and the bypass send to. *)
Known(c, o) == Range(o.tried) \subseteq DOMAIN Registry(c)

LEMMA OneIsKnown ==
  ASSUME NEW c, NEW what, NEW p \in DOMAIN Registry(c), NEW sent
  PROVE  Known(c, Outcome(what, <<p>>, sent))
BY DEF Known, Outcome, Range

LEMMA NobodyIsKnown ==
  ASSUME NEW c, NEW what, NEW sent
  PROVE  Known(c, Outcome(what, << >>, sent))
BY DEF Known, Outcome, Range

LEMMA ConnectorsAreKnown ==
  ASSUME NEW c
  PROVE  Connectors(c) \subseteq DOMAIN Registry(c)
BY DEF Registry

LEMMA BypassIsKnown ==
  ASSUME NEW c, NEW path, NEW sent
  PROVE  Known(c, Bypass(c, path, sent))
<1>1. BypassProvider(c) \subseteq Connectors(c)
  BY DEF BypassProvider
<1>2. CASE path \in Intercepted \/ BypassProvider(c) = {}
  BY <1>2, NobodyIsKnown DEF Bypass
<1>3. CASE ~(path \in Intercepted \/ BypassProvider(c) = {})
  <2> DEFINE p == CHOOSE p \in BypassProvider(c) : TRUE
  <2>1. p \in DOMAIN Registry(c)
    BY <1>1, <1>3, ConnectorsAreKnown
  <2>2. Bypass(c, path, sent) = Outcome("sent", <<p>>, sent)
    BY <1>3 DEF Bypass
  <2> QED
    BY <2>1, <2>2, OneIsKnown
<1> QED
  BY <1>2, <1>3

(* A passthrough handler is there only with the provider of its dialect. *)
LEMMA HandlerHasItsProvider ==
  ASSUME NEW c, c.dialect \in Dialects, Passthrough(c), NEW path \in Served(c)
  PROVE  /\ path # "/v1/messages" => "openai" \in Connectors(c)
         /\ path = "/v1/messages" => "anthropic" \in Connectors(c)
<1>1. /\ path # "/v1/messages" => c.dialect # "anthropic"
      /\ path = "/v1/messages" => c.dialect # "openai"
  BY DEF Served, OpenAIPaths
<1> QED
  BY <1>1 DEF Passthrough, Dialects, Builtin

LEMMA ConversationIsKnown ==
  ASSUME NEW c, c.dialect \in Dialects, Connectors(c) # {},
         NEW path \in {"/v1/chat/completions", "/v1/messages"}, NEW model, NEW h
  PROVE  Known(c, Conversed(c, path, model, h))
<1> DEFINE mark == ExtractMarker(h)
           sent == IF mark = "none" THEN h ELSE StripMarker(h)
<1> HIDE DEF mark, sent
<1>1. CASE path \notin Served(c)
  <2>1. Conversed(c, path, model, h) = Bypass(c, path, h)
    BY <1>1 DEF Conversed
  <2> QED
    BY <2>1, BypassIsKnown
<1>2. CASE path \in Served(c) /\ ~Passthrough(c)
  <2>1. Conversed(c, path, model, h) = Outcome("routed", FindRoute(Rules(c), model), h)
    BY <1>2 DEF Conversed
  <2> QED
    BY <2>1, RoutesAreOfTheServer, ConnectorsAreKnown DEF Known, Outcome
<1>3. CASE path \in Served(c) /\ Passthrough(c) /\ path = "/v1/chat/completions"
  <2>1. Conversed(c, path, model, h) = OpenAIOverride(c, mark, sent)
    BY <1>3 DEF Conversed, mark, sent
  <2>2. "openai" \in DOMAIN Registry(c)
    BY <1>3, HandlerHasItsProvider, ConnectorsAreKnown
  <2> QED
    BY <2>1, <2>2, OneIsKnown, NobodyIsKnown DEF OpenAIOverride
<1>4. CASE path \in Served(c) /\ Passthrough(c) /\ path = "/v1/messages"
  <2>1. Conversed(c, path, model, h) = AnthropicOverride(c, mark, sent)
    BY <1>4 DEF Conversed, mark, sent
  <2>2. "anthropic" \in DOMAIN Registry(c)
    BY <1>4, HandlerHasItsProvider, ConnectorsAreKnown
  <2> QED
    BY <2>1, <2>2, OneIsKnown DEF AnthropicOverride
<1> QED
  BY <1>1, <1>2, <1>3, <1>4

-----------------------------------------------------------------------------
(* Chains of tool calls.                                                   *)

(* Results speak for nobody: the message that speaks stays the same. *)
LEMMA ResultsDoNotSpeak ==
  ASSUME NEW h \in Seq(Said), NEW m \in Said, m.role = "user" => ToolResultsOnly(m)
  PROVE  ExtractMarker(Append(h, m)) = ExtractMarker(h)
<1> DEFINE h2 == Append(h, m)
           Own(x) == {i \in DOMAIN x : x[i].role = "user" /\ ~ToolResultsOnly(x[i])}
<1>1. /\ Len(h) \in Nat /\ DOMAIN h = 1 .. Len(h) /\ DOMAIN h2 = 1 .. Len(h) + 1 /\ h2[Len(h) + 1] = m
      /\ \A i \in DOMAIN h : h2[i] = h[i]
  OBVIOUS
<1> HIDE DEF h2
<1>2. Own(h2) = Own(h)
  BY <1>1
<1>3. Speaks(h2) = Speaks(h) /\ (Speaks(h) = 0 \/ Speaks(h) \in DOMAIN h)
  <2> DEFINE Latest(S) == IF S = {} THEN 0 ELSE CHOOSE i \in S : \A j \in S : j <= i
  <2>0. \A x : Speaks(x) = Latest(Own(x))
    BY DEF Speaks
  <2>1. Speaks(h2) = Speaks(h)
    <3> HIDE DEF Own, Latest
    <3> QED
      BY <1>2, <2>0
  <2>2. CASE Own(h) = {}
    <3> HIDE DEF Own
    <3> QED
      BY <2>0, <2>1, <2>2
  <2>3. CASE Own(h) # {}
    <3> DEFINE S == Own(h)
    <3>1. S # {} /\ S \subseteq 1 .. Len(h)
      BY <1>1, <2>3
    <3> HIDE DEF S
    <3>2. PICK i \in S : \A j \in S : j <= i
      <4> DEFINE T == {Len(h) - j : j \in S}
      <4>0. \A j \in S : Len(h) - j \in Nat
        BY <1>1, <3>1
      <4>1. T # {} /\ T \subseteq Nat
        BY <3>1, <4>0
      <4>2. PICK t \in T : \A u \in T : t <= u
        BY <4>1, Least
      <4>3. PICK i \in S : t = Len(h) - i
        BY <4>2
      <4>4. ASSUME NEW j \in S PROVE j <= i
        <5>1. Len(h) - j \in T
          OBVIOUS
        <5>2. Len(h) - i <= Len(h) - j
          BY <4>2, <4>3, <5>1
        <5>3. i \in Nat /\ j \in Nat
          BY <3>1, <4>3
        <5> QED
          BY <1>1, <5>2, <5>3
      <4> QED
        BY <4>3, <4>4
    <3>3. (CHOOSE x \in S : \A j \in S : j <= x) \in S
      BY <3>2
    <3>4. Speaks(h) = CHOOSE x \in S : \A j \in S : j <= x
      BY <2>3 DEF Speaks, S
    <3> QED
      BY <1>1, <2>1, <3>1, <3>3, <3>4
  <2> QED
    BY <2>2, <2>3
<1> HIDE DEF Own
<1> QED
  BY <1>1, <1>3 DEF ExtractMarker, h2

(* Whom a request is sent to depends on the marker of its history alone. *)
LEMMA TheMarkerDirects ==
  ASSUME NEW c, NEW path, NEW model, NEW h, NEW h2, ExtractMarker(h2) = ExtractMarker(h)
  PROVE  /\ Conversed(c, path, model, h2).tried = Conversed(c, path, model, h).tried
         /\ Conversed(c, path, model, h2).what = Conversed(c, path, model, h).what
BY DEF Conversed, Bypass, OpenAIOverride, AnthropicOverride, Outcome

-----------------------------------------------------------------------------
(* Steps.                                                                  *)

(* The configuration is read before anything is sent. *)
LEMMA AConfiguration ==
  ASSUME ServerInv, Configure
  PROVE  ServerInv'
<1>1. /\ phase' # "listening" /\ UNCHANGED <<launch, chat, last, aside>> /\ launch \in Launches /\ phase = "launched"
      /\ last = Nothing /\ aside = Nothing /\ chat.history = << >>
  BY DEF Configure, ServerInv, ChatInv
<1>2. config'.dialect \in Dialects
  <2> DEFINE merged == MergeEnv(Loaded(launch), launch.env)
             over == Dialect(launch)
  <2>1. \/ config' = config
        \/ over = "none" /\ config' = merged
        \/ over \in Dialects /\ config' = [merged EXCEPT !.dialect = over]
    BY DEF Configure
  <2> HIDE DEF merged, over
  <2>2. merged.dialect \in Dialects /\ \A d \in Dialects : [merged EXCEPT !.dialect = d].dialect = d
    <3>1. "both" \in Dialects
      BY DEF Dialects
    <3> QED
      BY <1>1, <3>1, DialectStaysValid DEF merged
  <2> QED
    BY <2>1, <2>2 DEF ServerInv, ChatInv
<1>3. ChatInv' /\ LastInv'
  BY <1>1, <1>2 DEF ServerInv, ChatInv, LastInv
<1>4. NoRouteToNowhere'
  BY <1>1 DEF NoRouteToNowhere, Nothing, Outcome, Range
<1> QED
  BY <1>3, <1>4 DEF ServerInv

LEMMA AStart ==
  ASSUME ServerInv, SetUp
  PROVE  ServerInv'
<1>1. /\ UNCHANGED <<launch, config, chat, last, aside>> /\ last = Nothing /\ aside = Nothing /\ chat.history = << >>
  BY DEF SetUp, ServerInv, ChatInv
<1> QED
  BY <1>1 DEF ServerInv, ChatInv, LastInv, NoRouteToNowhere

LEMMA ABeginning ==
  ASSUME ServerInv, NEW path \in {"/v1/chat/completions", "/v1/messages"}, NEW model, Begin(path, model)
  PROVE  ServerInv'
<1>1. /\ UNCHANGED <<launch, phase, config, last>> /\ phase = "listening" /\ aside' = Nothing
      /\ chat' = [path |-> path, model |-> model, history |-> << >>]
  BY DEF Begin
<1>2. ChatInv' /\ LastInv'
  BY <1>1 DEF ServerInv, ChatInv, LastInv
<1>3. NoRouteToNowhere'
  BY <1>1 DEF ServerInv, NoRouteToNowhere, Nothing, Outcome, Range
<1> QED
  BY <1>2, <1>3 DEF ServerInv

(* The message as it joins the history. *)
Joining(m) == IF ToolResultsOnly(m) /\ chat.path = "/v1/chat/completions" THEN [m EXCEPT !.role = "tool"] ELSE m

LEMMA WhatJoins ==
  ASSUME NEW m \in UserMessages
  PROVE  Joining(m) \in Said /\ (ToolResultsOnly(m) => (Joining(m).role = "user" => ToolResultsOnly(Joining(m))))
<1>1. m \in Messages({"user"})
  BY ServerAssumption
<1> QED
  BY <1>1 DEF Joining, Said, Messages

LEMMA AMessage ==
  ASSUME ServerInv, NEW m \in UserMessages, Converse(m)
  PROVE  ServerInv'
<1> DEFINE h == Append(chat.history, Joining(m))
<1>1. /\ UNCHANGED <<launch, phase, config, aside>> /\ phase = "listening" /\ chat.path # "none"
      /\ last' = Conversed(config, chat.path, chat.model, h) /\ chat' = [chat EXCEPT !.history = h]
  BY DEF Converse, Joining
<1>2. h \in Seq(Said)
  BY WhatJoins DEF ServerInv, ChatInv
<1> HIDE DEF h
<1>3. chat'.path = chat.path /\ chat'.model = chat.model /\ chat'.history = h
      /\ chat' = [path |-> chat'.path, model |-> chat'.model, history |-> chat'.history]
  BY <1>1 DEF ServerInv, ChatInv
<1>4. ChatInv' /\ LastInv'
  BY <1>1, <1>2, <1>3 DEF ServerInv, ChatInv, LastInv
<1>5. Connectors(config) # {} => Known(config, last') /\ Known(config, aside)
  <2>1. chat.path \in {"/v1/chat/completions", "/v1/messages"} /\ config.dialect \in Dialects
    BY <1>1 DEF ServerInv, ChatInv
  <2> QED
    BY <1>1, <2>1, ConversationIsKnown DEF ServerInv, NoRouteToNowhere, Known
<1>6. NoRouteToNowhere'
  BY <1>1, <1>5 DEF NoRouteToNowhere, Known
<1> QED
  BY <1>4, <1>6 DEF ServerInv

LEMMA ARequestAside ==
  ASSUME ServerInv, NEW path \in {"/v1/models", "/v1/responses", "/v1/embeddings"} \cup HealthPaths, RequestAside(path)
  PROVE  ServerInv'
<1>1. UNCHANGED <<launch, phase, config, chat, last>> /\ phase = "listening" /\ config.dialect \in Dialects
  BY DEF RequestAside, ServerInv, ChatInv
<1>2. Connectors(config) # {} => Known(config, aside')
  <2>1. CASE path \in HealthPaths
    BY <2>1, NobodyIsKnown DEF RequestAside
  <2>2. CASE path \notin HealthPaths /\ path \notin Served(config)
    BY <2>2, BypassIsKnown DEF RequestAside
  <2>3. CASE path \notin HealthPaths /\ path \in Served(config) /\ Passthrough(config)
    <3>1. "openai" \in DOMAIN Registry(config)
      BY <1>1, <2>3, HandlerHasItsProvider, ConnectorsAreKnown
    <3> QED
      BY <2>3, <3>1, OneIsKnown DEF RequestAside
  <2>4. CASE path \notin HealthPaths /\ path \in Served(config) /\ ~Passthrough(config)
    BY <2>4, NobodyIsKnown DEF RequestAside
  <2> QED
    BY <2>1, <2>2, <2>3, <2>4
<1>3. NoRouteToNowhere'
  BY <1>1, <1>2 DEF ServerInv, NoRouteToNowhere, Known
<1> QED
  BY <1>1, <1>3 DEF ServerInv, ChatInv, LastInv

LEMMA ServerSteps ==
  ASSUME ServerInv, [ServerNext]_serverVars
  PROVE  ServerInv'
<1>1. CASE UNCHANGED serverVars
  BY <1>1 DEF serverVars, ServerInv, ChatInv, LastInv, NoRouteToNowhere
<1> QED
  BY <1>1, AConfiguration, AStart, ABeginning, AMessage, ARequestAside DEF ServerNext

LEMMA ServerStays == ServerSpec => []ServerInv
BY ServerStarts, ServerSteps, PTL DEF ServerSpec

-----------------------------------------------------------------------------
(* No request is sent or routed to a provider that the server does not     *)
(* have, for all ways of starting it and all messages of the user, if it   *)
(* has a provider at all.                                                  *)
THEOREM RoutesLeadSomewhere == ServerSpec => []NoRouteToNowhere
<1>1. ServerInv => NoRouteToNowhere
  BY DEF ServerInv
<1> QED
  BY <1>1, ServerStays, PTL

(* The requests of a chain of tool calls follow the message that began it, *)
(* whatever the messages between them are and however many.                *)
THEOREM ChainsStayTogether == ServerSpec => ChainStaysTogether
<1>1. ASSUME ServerInv, NEW m \in UserMessages, Converse(m), ToolResultsOnly(m)
      PROVE  last'.tried = last.tried /\ last'.what = last.what
  <2> DEFINE h == chat.history
  <2>1. HasResult(m)
    <3>1. m \in Messages({"user"})
      BY ServerAssumption
    <3>2. m.blocks # << >> /\ \A i \in DOMAIN m.blocks : m.blocks[i].kind = "result"
      BY <1>1 DEF ToolResultsOnly
    <3>3. 1 \in DOMAIN m.blocks
      BY <3>1, <3>2 DEF Messages
    <3> QED
      BY <3>2, <3>3 DEF HasResult
  <2>2. h # << >> /\ last' = Conversed(config, chat.path, chat.model, Append(h, Joining(m)))
    BY <1>1, <2>1 DEF Converse, Joining
  <2>3. last = Conversed(config, chat.path, chat.model, h) /\ h \in Seq(Said)
    BY <1>1, <2>2 DEF ServerInv, ChatInv, LastInv
  <2>4. ExtractMarker(Append(h, Joining(m))) = ExtractMarker(h)
    BY <1>1, <2>3, WhatJoins, ResultsDoNotSpeak
  <2> HIDE DEF h
  <2> QED
    BY <2>2, <2>3, <2>4, TheMarkerDirects
<1>2. ServerInv /\ [ServerNext]_serverVars =>
        [\A m \in UserMessages :
           Converse(m) /\ ToolResultsOnly(m) => last'.tried = last.tried /\ last'.what = last.what]_serverVars
  BY <1>1
<1> QED
  BY <1>2, ServerStays, PTL DEF ServerSpec, ChainStaysTogether

-----------------------------------------------------------------------------
(* Frames of a WebSocket: ResponsesSocket.                                 *)
SaidKinds == EventKinds \cup Terminal \cup Codes
OutFrame == [kind : SaidKinds, id : Int, of : Nat]

SocketClient == [is : {"open", "closing", "gone"}, waits : BOOLEAN, named : BOOLEAN,
           waiting : Seq(Nat), previous : Int, read : Nat]

SocketType ==
  /\ client \in SocketClient
  /\ frames \in Seq([kind : FrameKinds, previous : Int])
  /\ served \in 0 .. Len(frames)
  /\ loop \in {"recv", "opening", "forwarding", "ended"}
  /\ outbox \in Seq(OutFrame)
  /\ client.read <= Len(outbox)
  /\ forwarded \in Nat
  /\ upstream \in Seq([of : Nat, previous : Int, session : Nat])

(* The two parts of EndsOnce. *)
Ordered ==
  \A i, j \in DOMAIN outbox : i < j =>
    outbox[i].of <= outbox[j].of /\ (Ends(outbox[i]) => outbox[i].of # outbox[j].of)
HasEnd(n) == \E i \in DOMAIN outbox : outbox[i].of = n /\ Ends(outbox[i])
Ended == \A n \in Handled : frames[n].kind \in Asking /\ Open => HasEnd(n)

(* Whatever was said answers a frame that was received, and what was said  *)
(* for a frame that is served has not ended its answer.                    *)
AnswersInv ==
  /\ \A i \in DOMAIN outbox : outbox[i].of \in 1 .. served
  /\ Underway =>
       /\ served > 0 /\ frames[served].kind = "create"
       /\ \A i \in DOMAIN outbox : outbox[i].of = served => ~Ends(outbox[i])
  /\ Ordered /\ Ended

(* A response that was delivered.  An id above 0 is the provider's. *)
Delivered(id) == \E i \in DOMAIN outbox : outbox[i].kind = "completed" /\ outbox[i].id = id

IdsInv ==
  /\ \A i \in DOMAIN outbox :
       outbox[i].id > 0 => outbox[i].id = outbox[i].of /\ frames[outbox[i].of].kind = "create"
  /\ client.previous # NoResponse => Delivered(client.previous)
  /\ \A k \in DOMAIN frames :
       frames[k].previous > 0 => Delivered(frames[k].previous) /\ frames[k].previous < k
  /\ \A q \in DOMAIN upstream :
       upstream[q].previous # NoResponse =>
         upstream[q].previous > 0 /\ Delivered(upstream[q].previous) /\ upstream[q].previous < upstream[q].of

SocketInv == SocketType /\ AnswersInv /\ IdsInv /\ NobodyHangs
-----------------------------------------------------------------------------
LEMMA RefusalNames ==
  /\ DOMAIN Refusals = {"malformed", "missing", "unsupported", "binary"}
  /\ \A x \in DOMAIN Refusals : Refusals[x] \in Codes
  /\ {"upstream_error", "stream_error", "stream_ended"} \subseteq Codes
  /\ Codes \cap Terminal = {}
  /\ "completed" \in Terminal
<1>1. DOMAIN Refusals = {"malformed", "missing", "unsupported", "binary"}
  BY DEF Refusals
<1>2. \A x \in DOMAIN Refusals : Refusals[x] \in Codes
  BY DEF Codes, Range
<1>3. Codes = {Refusals[x] : x \in DOMAIN Refusals} \cup {"upstream_error", "stream_error", "stream_ended"}
  BY DEF Codes, Range
<1>4. \A x \in DOMAIN Refusals : Refusals[x] \notin Terminal
  BY <1>1 DEF Refusals, Terminal
<1> QED
  BY <1>1, <1>2, <1>3, <1>4 DEF Terminal

(* What is said of the frame that is served, if anybody listens. *)
Says(f) == outbox' = IF Open THEN Append(outbox, f) ELSE outbox

LEMMA Longer ==
  ASSUME SocketType, NEW f \in OutFrame, Says(f)
  PROVE  /\ outbox' \in Seq(OutFrame)
         /\ DOMAIN outbox \subseteq DOMAIN outbox'
         /\ \A i \in DOMAIN outbox : outbox'[i] = outbox[i]
         /\ ~Open => outbox' = outbox
         /\ Open => /\ Len(outbox') = Len(outbox) + 1
                    /\ DOMAIN outbox' = DOMAIN outbox \cup {Len(outbox) + 1}
                    /\ outbox'[Len(outbox) + 1] = f
         /\ DOMAIN outbox = 1 .. Len(outbox) /\ DOMAIN outbox' = 1 .. Len(outbox')
<1>1. outbox \in Seq(OutFrame) /\ Len(outbox) \in Nat /\ DOMAIN outbox = 1 .. Len(outbox)
  BY DEF SocketType
<1>2. CASE ~Open
  BY <1>1, <1>2 DEF Says
<1>3. CASE Open
  <2>1. outbox' = Append(outbox, f)
    BY <1>3 DEF Says
  <2>2. /\ outbox' \in Seq(OutFrame) /\ Len(outbox') = Len(outbox) + 1
        /\ \A i \in 1 .. Len(outbox) : outbox'[i] = outbox[i]
        /\ outbox'[Len(outbox) + 1] = f
    BY <1>1, <2>1, AppendProperties
  <2>3. DOMAIN outbox' = 1 .. Len(outbox) + 1
    BY <2>2
  <2> QED
    BY <1>1, <1>3, <2>2, <2>3
<1> QED
  BY <1>2, <1>3

-----------------------------------------------------------------------------
(* Types *)

LEMMA TypeInit == SocketInit => SocketType
BY SocketAssumption DEF SocketInit, SocketType, SocketClient, NoResponse

LEMMA ClientReads ==
  ASSUME client \in SocketClient, NEW p \in Int, NEW w \in Seq(Nat)
  PROVE  LET c == [client EXCEPT !.read = client.read + 1, !.previous = p, !.waiting = w] IN
         c \in SocketClient /\ c.read = client.read + 1
<1>1. client.read + 1 \in Nat
  BY DEF SocketClient
<1> QED
  BY <1>1 DEF SocketClient

(* The frames that the server says. *)
SaidFrame(kind, id) == [kind |-> kind, id |-> id, of |-> Now]

LEMMA SaidType ==
  ASSUME SocketType, NEW kind \in SaidKinds, NEW id \in Int
  PROVE  SaidFrame(kind, id) \in OutFrame /\ (SendText(kind, id) <=> Says(SaidFrame(kind, id)))
<1>1. Now \in Nat
  BY DEF SocketType, Now
<1> QED
  BY <1>1 DEF SaidFrame, OutFrame, Says, SendText

LEMMA TypeStep == SocketType /\ [SocketNext]_socketVars => SocketType'
<1> SUFFICES ASSUME SocketType, [SocketNext]_socketVars PROVE SocketType'
  OBVIOUS
<1> USE DEF SocketType, SocketClient
<1>0. Len(outbox) \in Nat /\ Len(frames) \in Nat /\ served \in Nat
  OBVIOUS
<1>1. ASSUME NEW kind \in FrameKinds, SendFrame(kind) PROVE SocketType'
  <2> DEFINE f == [kind |-> kind, previous |-> IF kind = "create" THEN client.previous ELSE NoResponse]
  <2>1. f \in [kind : FrameKinds, previous : Int]
    BY DEF NoResponse
  <2>2. frames' = Append(frames, f)
    BY <1>1 DEF SendFrame
  <2>3. frames' \in Seq([kind : FrameKinds, previous : Int]) /\ Len(frames') = Len(frames) + 1
    BY <2>1, <2>2, AppendProperties
  <2>4. Append(client.waiting, Len(frames')) \in Seq(Nat)
    BY <1>0, <2>3, AppendProperties
  <2>5. client' \in SocketClient /\ client'.read = client.read
    BY <1>1, <2>4 DEF SendFrame, SocketClient
  <2> QED
    BY <1>0, <1>1, <2>3, <2>5 DEF SendFrame
<1>2. CASE ReadFrame
  <2> DEFINE f == outbox[client.read + 1]
  <2>1. client.read + 1 \in 1 .. Len(outbox)
    BY <1>0, <1>2 DEF ReadFrame
  <2>2. f \in OutFrame
    BY <2>1
  <2>3. f.id \in Int
    BY <2>2 DEF OutFrame
  <2> DEFINE p == IF f.kind = "completed" THEN f.id ELSE client.previous
             w == IF f.kind \in Ending /\ client.waiting # << >> THEN Tail(client.waiting) ELSE client.waiting
  <2>4. w \in Seq(Nat)
    BY HeadTailProperties
  <2>6. p \in Int
    BY <2>3
  <2>7. client' = [client EXCEPT !.read = client.read + 1, !.previous = p, !.waiting = w]
    BY <1>2 DEF ReadFrame
  <2> HIDE DEF f, p, w
  <2>5. client' \in SocketClient /\ client'.read = client.read + 1
    BY <2>4, <2>6, <2>7, ClientReads
  <2> QED
    BY <1>0, <1>2, <2>1, <2>5 DEF ReadFrame
<1>3. CASE Disappear
  BY <1>3 DEF Disappear, SocketClient
<1>4. ASSUME NEW kind \in SaidKinds, NEW id \in Int, SendText(kind, id)
      PROVE  outbox' \in Seq(OutFrame) /\ client.read <= Len(outbox')
  <2>1. SaidFrame(kind, id) \in OutFrame /\ Says(SaidFrame(kind, id))
    BY <1>4, SaidType
  <2>2. outbox' \in Seq(OutFrame) /\ (Len(outbox') = Len(outbox) \/ Len(outbox') = Len(outbox) + 1)
    BY <2>1, Longer
  <2> QED
    BY <1>0, <2>2
<1>5. ReceiveFrame => served' \in 0 .. Len(frames') /\ UNCHANGED <<client, frames>>
  BY <1>0 DEF ReceiveFrame, Now
<1>6. CASE Refuse
  <2>1. Refusals[Frame.kind] \in SaidKinds
    BY <1>6, RefusalNames DEF Refuse, SaidKinds
  <2>2. outbox' \in Seq(OutFrame) /\ client.read <= Len(outbox')
    BY <1>4, <1>6, <2>1 DEF Refuse, SendError, NoResponse
  <2> QED
    BY <1>5, <1>6, <2>2 DEF Refuse
<1>7. CASE PingFrame
  BY <1>5, <1>7 DEF PingFrame
<1>8. CASE CloseFrame
  BY <1>5, <1>8 DEF CloseFrame
<1>9. CASE WarmUp
  <2>1. -Now \in Int
    BY DEF Now
  <2>2. outbox' \in Seq(OutFrame) /\ client.read <= Len(outbox')
    BY <1>4, <1>9, <2>1, RefusalNames DEF WarmUp, SaidKinds
  <2> QED
    BY <1>5, <1>9, <2>2 DEF WarmUp
<1>10. CASE Create
  <2> DEFINE r == [of |-> Now, previous |-> StripSynthetic(Frame.previous), session |-> IF client.named THEN 0 ELSE Now]
  <2>1. Now \in 1 .. Len(frames)
    BY <1>0, <1>10 DEF Create, ReceiveFrame, Now
  <2>2. Frame.previous \in Int
    <3>1. frames[Now] \in [kind : FrameKinds, previous : Int]
      BY <2>1, ElementOfSeq
    <3> QED
      BY <3>1 DEF Frame
  <2>3. r \in [of : Nat, previous : Int, session : Nat]
    BY <2>1, <2>2 DEF StripSynthetic, NoResponse
  <2>4. upstream' = Append(upstream, r)
    BY <1>10 DEF Create
  <2>5. upstream' \in Seq([of : Nat, previous : Int, session : Nat])
    BY <2>3, <2>4, AppendProperties
  <2> QED
    BY <1>5, <1>10, <2>5 DEF Create
<1>11. CASE OpenStream
  <2>1. outbox' \in Seq(OutFrame) /\ client.read <= Len(outbox')
    BY <1>4, <1>11, RefusalNames DEF OpenStream, SendError, SaidKinds, NoResponse
  <2> QED
    BY <1>11, <2>1 DEF OpenStream
<1>12. CASE StreamOver
  <2>1. outbox' \in Seq(OutFrame) /\ client.read <= Len(outbox')
    BY <1>4, <1>12, RefusalNames DEF StreamOver, SendError, SaidKinds, NoResponse
  <2> QED
    BY <1>12, <2>1 DEF StreamOver
<1>13. ASSUME NEW kind \in EventKinds, NEW where \in {"event", "data"}, Forward(kind, where)
       PROVE  SocketType'
  <2>1. (IF kind \in Terminal THEN Now ELSE NoResponse) \in Int
    BY DEF Now, NoResponse
  <2>2. outbox' \in Seq(OutFrame) /\ client.read <= Len(outbox')
    BY <1>4, <1>13, <2>1 DEF Forward, SaidKinds
  <2> QED
    BY <1>13, <2>2 DEF Forward
<1>14. CASE Hangup
  BY <1>14 DEF Hangup
<1>15. CASE UNCHANGED socketVars
  BY <1>15 DEF socketVars
<1> QED
  BY <1>1, <1>2, <1>3, <1>6, <1>7, <1>8, <1>9, <1>10, <1>11, <1>12, <1>13, <1>14, <1>15
  DEF SocketNext, Streams
-----------------------------------------------------------------------------
(* Answers *)

LEMMA AnswersInit == SocketInit => AnswersInv
<1> SUFFICES ASSUME SocketInit PROVE AnswersInv
  OBVIOUS
<1>1. DOMAIN outbox = {} /\ served = 0 /\ loop = "recv"
  BY DEF SocketInit
<1>2. Handled = {} /\ ~Underway
  BY <1>1 DEF Handled, Underway
<1> QED
  BY <1>1, <1>2 DEF AnswersInv, Ordered, Ended

(* What a frame to the client does to the answers, when it is for frame n, *)
(* the last one received, whose answer has not ended.                      *)
LEMMA AnswerGrows ==
  ASSUME SocketType, AnswersInv, NEW f \in OutFrame, Says(f), UNCHANGED <<client, frames>>,
         f.of = served', served' \in Nat, served' >= served,
         \A i \in DOMAIN outbox : outbox[i].of = served' => ~Ends(outbox[i])
  PROVE  /\ Ordered'
         /\ \A n : HasEnd(n) => HasEnd(n)'
         /\ Ends(f) /\ Open => \E i \in DOMAIN outbox' : outbox'[i].of = served' /\ Ends(outbox'[i])
         /\ f.of > 0 => \A i \in DOMAIN outbox' : outbox'[i].of \in 1 .. served'
         /\ ~Ends(f) => \A i \in DOMAIN outbox' : outbox'[i].of = served' => ~Ends(outbox'[i])
<1> DEFINE n == served'
           final == Len(outbox) + 1
<1>1. /\ DOMAIN outbox \subseteq DOMAIN outbox' /\ (\A i \in DOMAIN outbox : outbox'[i] = outbox[i])
      /\ (~Open => outbox' = outbox)
      /\ (Open => DOMAIN outbox' = DOMAIN outbox \cup {final} /\ outbox'[final] = f)
      /\ DOMAIN outbox = 1 .. Len(outbox) /\ Len(outbox) \in Nat
  <2>1. Len(outbox) \in Nat
    BY DEF SocketType
  <2> QED
    BY <2>1, Longer
<1>2. /\ Ordered /\ served \in Nat /\ n \in Nat /\ n >= served
      /\ \A i \in DOMAIN outbox : outbox[i].of \in 1 .. served /\ (outbox[i].of = n => ~Ends(outbox[i]))
  BY DEF AnswersInv, SocketType
<1> HIDE DEF n, final
<1>3. ASSUME NEW i \in DOMAIN outbox', NEW j \in DOMAIN outbox', i < j
      PROVE  outbox'[i].of <= outbox'[j].of /\ (Ends(outbox'[i]) => outbox'[i].of # outbox'[j].of)
  <2>1. CASE i \in DOMAIN outbox /\ j \in DOMAIN outbox
    BY <1>1, <1>2, <1>3, <2>1 DEF Ordered
  <2>2. CASE Open /\ j = final /\ i \in DOMAIN outbox
    <3>1. outbox'[i] = outbox[i] /\ outbox'[j] = f
      BY <1>1, <2>2
    <3>2. outbox[i].of \in 1 .. served /\ (outbox[i].of = n => ~Ends(outbox[i])) /\ f.of = n
      BY <1>2, <2>2 DEF n
    <3>3. outbox[i].of <= f.of
      BY <1>2, <3>2
    <3> QED
      BY <3>1, <3>2, <3>3
  <2>3. ~(i = final /\ j = final) /\ ~(Open /\ i = final /\ j \in DOMAIN outbox)
    BY <1>1, <1>3 DEF final
  <2> QED
    BY <1>1, <2>1, <2>2, <2>3
<1>4. Ordered'
  BY <1>3 DEF Ordered
<1>5. \A m : HasEnd(m) => HasEnd(m)'
  BY <1>1 DEF HasEnd
<1>6. Ends(f) /\ Open => \E i \in DOMAIN outbox' : outbox'[i].of = n /\ Ends(outbox'[i])
  BY <1>1 DEF n
<1>7. f.of > 0 => \A i \in DOMAIN outbox' : outbox'[i].of \in 1 .. n
  <2> SUFFICES ASSUME f.of > 0, NEW i \in DOMAIN outbox' PROVE outbox'[i].of \in 1 .. n
    OBVIOUS
  <2>1. CASE i \in DOMAIN outbox
    BY <1>1, <1>2, <2>1
  <2>2. CASE i \notin DOMAIN outbox
    <3>1. outbox'[i] = f
      BY <1>1, <2>2
    <3> QED
      BY <1>2, <3>1 DEF n
  <2> QED
    BY <2>1, <2>2
<1>8. ~Ends(f) => \A i \in DOMAIN outbox' : outbox'[i].of = n => ~Ends(outbox'[i])
  BY <1>1, <1>2
<1> QED
  BY <1>4, <1>5, <1>6, <1>7, <1>8 DEF n

(* The answer of the frame that is served ends, and nothing is underway. *)
LEMMA AnswerEnds ==
  ASSUME SocketType, AnswersInv, NEW f \in OutFrame, Says(f), UNCHANGED <<client, frames>>,
         f.of = served', served' \in Nat \ {0}, loop' = "recv",
         \/ loop = "recv" /\ served' = served + 1
         \/ Underway /\ served' = served,
         Open => Ends(f)
  PROVE  AnswersInv'
<1>1. served \in Nat /\ \A i \in DOMAIN outbox : outbox[i].of \in 1 .. served
  BY DEF SocketType, AnswersInv
<1>2. \A i \in DOMAIN outbox : outbox[i].of = served' => ~Ends(outbox[i])
  BY <1>1 DEF AnswersInv
<1>3. /\ Ordered' /\ (\A n : HasEnd(n) => HasEnd(n)')
      /\ Open => \E i \in DOMAIN outbox' : outbox'[i].of = served' /\ Ends(outbox'[i])
      /\ \A i \in DOMAIN outbox' : outbox'[i].of \in 1 .. served'
  BY <1>1, <1>2, AnswerGrows
<1>4. ~Underway' /\ Open' = Open /\ frames' = frames
  BY DEF Underway, Open
<1>5. Handled' \subseteq Handled \cup {served'}
  BY <1>1 DEF Handled, Underway
<1>6. Ended'
  <2> SUFFICES ASSUME NEW n \in Handled', frames[n].kind \in Asking, Open PROVE HasEnd(n)'
    BY <1>4 DEF Ended
  <2>1. CASE n \in Handled
    BY <1>3, <2>1 DEF AnswersInv, Ended
  <2>2. CASE n = served'
    BY <1>3, <2>2 DEF HasEnd
  <2> QED
    BY <1>5, <2>1, <2>2
<1> QED
  BY <1>3, <1>4, <1>6 DEF AnswersInv

LEMMA AnswersStep == SocketType /\ AnswersInv /\ [SocketNext]_socketVars => AnswersInv'
<1> SUFFICES ASSUME SocketType, AnswersInv, [SocketNext]_socketVars PROVE AnswersInv'
  OBVIOUS
<1>0. /\ served \in Nat /\ served <= Len(frames) /\ Len(frames) \in Nat /\ DOMAIN frames = 1 .. Len(frames)
      /\ Handled \subseteq 1 .. served
      /\ Underway => loop # "recv"
  BY DEF SocketType, Handled, Underway
<1>1. ASSUME UNCHANGED <<outbox, served, loop>>, Open' => Open,
             \A n \in 1 .. served : frames'[n] = frames[n]
      PROVE  AnswersInv'
  <2>1. Ordered' /\ (\A n : HasEnd(n)' <=> HasEnd(n)) /\ Handled' = Handled /\ Underway' = Underway
    BY <1>1 DEF AnswersInv, Ordered, HasEnd, Handled, Underway
  <2>2. Ended'
    BY <1>0, <1>1, <2>1 DEF AnswersInv, Ended
  <2> QED
    BY <1>0, <1>1, <2>1, <2>2 DEF AnswersInv
<1>2. ASSUME NEW kind \in FrameKinds, SendFrame(kind) PROVE AnswersInv'
  <2> DEFINE f == [kind |-> kind, previous |-> IF kind = "create" THEN client.previous ELSE NoResponse]
  <2>1. f \in [kind : FrameKinds, previous : Int]
    BY DEF NoResponse, SocketType, SocketClient
  <2>2. frames' = Append(frames, f)
    BY <1>2 DEF SendFrame
  <2>3. \A n \in 1 .. Len(frames) : frames'[n] = frames[n]
    BY <2>1, <2>2, AppendProperties DEF SocketType
  <2>4. Open' => Open
    BY <1>2 DEF SendFrame, Open
  <2> QED
    BY <1>0, <1>1, <1>2, <2>3, <2>4 DEF SendFrame
<1>3. CASE ReadFrame
  BY <1>1, <1>3 DEF ReadFrame
<1>4. CASE Disappear
  <2>1. Open
    BY <1>4 DEF Disappear
  <2> QED
    BY <1>1, <1>4, <2>1 DEF Disappear
<1>5. ASSUME ReceiveFrame
      PROVE  /\ loop = "recv" /\ served' = served + 1 /\ served + 1 \in DOMAIN frames
             /\ Now = served + 1 /\ UNCHANGED <<client, frames>>
             /\ Frame = frames[served + 1]
  BY <1>0, <1>5 DEF ReceiveFrame, Now, Frame
<1>6. CASE Refuse
  <2>1. ReceiveFrame /\ Refusals[Frame.kind] \in Codes
    BY <1>6, RefusalNames DEF Refuse
  <2>2. SaidFrame(Refusals[Frame.kind], NoResponse) \in OutFrame /\ Says(SaidFrame(Refusals[Frame.kind], NoResponse))
    BY <1>6, <2>1, SaidType DEF Refuse, SendError, SaidKinds, NoResponse
  <2>3. /\ SaidFrame(Refusals[Frame.kind], NoResponse).of = served' /\ Ends(SaidFrame(Refusals[Frame.kind], NoResponse))
        /\ loop = "recv" /\ loop' = "recv"
    BY <1>5, <1>6, <2>1 DEF SaidFrame, Ends, Refuse
  <2> QED
    BY <1>0, <1>5, <2>1, <2>2, <2>3, AnswerEnds
<1>7. CASE WarmUp
  <2>1. -Now \in Int /\ "completed" \in SaidKinds /\ ReceiveFrame
    BY <1>7, RefusalNames DEF Now, SocketType, SaidKinds, WarmUp
  <2>2. SaidFrame("completed", -Now) \in OutFrame /\ Says(SaidFrame("completed", -Now))
    BY <1>7, <2>1, SaidType DEF WarmUp
  <2>3. SaidFrame("completed", -Now).of = served' /\ Ends(SaidFrame("completed", -Now)) /\ loop = "recv" /\ loop' = "recv"
    BY <1>5, <1>7, <2>1, RefusalNames DEF SaidFrame, Ends, WarmUp
  <2> QED
    BY <1>0, <1>5, <2>1, <2>2, <2>3, AnswerEnds
<1>8. ASSUME ReceiveFrame, UNCHANGED outbox,
             \/ loop' \in {"recv", "ended"} /\ Frame.kind \notin Asking
             \/ loop' = "opening" /\ Frame.kind = "create"
      PROVE  AnswersInv'
  <2>1. /\ Ordered' /\ (\A n : HasEnd(n)' <=> HasEnd(n)) /\ Open' = Open
        /\ \A i \in DOMAIN outbox' : outbox'[i].of \in 1 .. served
    BY <1>5, <1>8 DEF AnswersInv, Ordered, HasEnd, Open
  <2>2. Handled = 1 .. served
    BY <1>5, <1>8 DEF Handled
  <2>3. \A n \in Handled' : n \in Handled \/ (n = served + 1 /\ Frame.kind \notin Asking)
    <3>1. CASE loop' \in {"recv", "ended"} /\ Frame.kind \notin Asking
      <4>1. Handled' = 1 .. served + 1
        BY <1>5, <1>8, <3>1 DEF Handled
      <4> QED
        BY <1>0, <2>2, <3>1, <4>1
    <3>2. CASE loop' = "opening"
      <4>1. Handled' = 1 .. served' - 1 /\ served' - 1 = served
        BY <1>0, <1>5, <1>8, <3>2 DEF Handled
      <4>2. Handled' = Handled
        BY <2>2, <4>1
      <4> QED
        BY <4>2
    <3> QED
      BY <1>8, <3>1, <3>2
  <2>4. Ended'
    BY <1>5, <1>8, <2>1, <2>3 DEF AnswersInv, Ended
  <2>5. \A i \in DOMAIN outbox' : outbox'[i].of \in 1 .. served' /\ outbox'[i].of # served'
    BY <1>0, <1>5, <1>8, <2>1
  <2>6. Underway' => served' > 0 /\ frames'[served'].kind = "create"
    BY <1>0, <1>5, <1>8 DEF Underway
  <2> QED
    BY <2>1, <2>4, <2>5, <2>6 DEF AnswersInv
<1>9. CASE PingFrame
  <2>1. ReceiveFrame /\ Frame.kind = "ping" /\ UNCHANGED <<loop, outbox>>
    BY <1>9 DEF PingFrame
  <2>2. Frame.kind \notin Asking
    BY <2>1, RefusalNames DEF Asking
  <2>3. loop' \in {"recv", "ended"}
    BY <1>5, <2>1
  <2> QED
    BY <1>8, <2>1, <2>2, <2>3
<1>10. CASE CloseFrame
  <2>1. ReceiveFrame /\ Frame.kind = "close" /\ UNCHANGED outbox /\ loop' = "ended"
    BY <1>10 DEF CloseFrame
  <2>2. Frame.kind \notin Asking
    BY <2>1, RefusalNames DEF Asking
  <2>3. loop' \in {"recv", "ended"}
    BY <2>1
  <2> QED
    BY <1>8, <2>1, <2>2, <2>3
<1>11. CASE Create
  BY <1>8, <1>11 DEF Create
<1>12. ASSUME UNCHANGED <<client, frames, served>>, Underway, loop' = "recv",
              NEW kind \in SaidKinds, NEW id \in Int, SendText(kind, id), Open => kind \in Terminal \cup Codes
       PROVE  AnswersInv'
  <2>1. SaidFrame(kind, id) \in OutFrame /\ Says(SaidFrame(kind, id))
    BY <1>12, SaidType
  <2>2. SaidFrame(kind, id).of = served' /\ (Open => Ends(SaidFrame(kind, id))) /\ served' \in Nat \ {0}
    BY <1>0, <1>12 DEF SaidFrame, Ends, Now, Underway, AnswersInv
  <2> QED
    BY <1>12, <2>1, <2>2, AnswerEnds
<1>13. ASSUME UNCHANGED <<client, frames, served, outbox>>, Underway, Underway'
       PROVE  AnswersInv'
  <2>1. Ordered' /\ (\A n : HasEnd(n)' <=> HasEnd(n)) /\ Handled' = Handled /\ Open' = Open
    BY <1>13 DEF AnswersInv, Ordered, HasEnd, Handled, Underway, Open
  <2>2. Ended'
    BY <1>13, <2>1 DEF AnswersInv, Ended
  <2> QED
    BY <1>13, <2>1, <2>2 DEF AnswersInv
<1>14. CASE OpenStream
  <2>1. Underway /\ UNCHANGED <<client, frames, served>>
    BY <1>14 DEF OpenStream, Underway
  <2>2. CASE loop' = "forwarding" /\ UNCHANGED outbox
    BY <1>13, <2>1, <2>2 DEF Underway
  <2>3. CASE loop' = "recv" /\ SendError("upstream_error")
    BY <1>12, <2>1, <2>3, RefusalNames DEF SendError, SaidKinds, NoResponse
  <2> QED
    BY <1>14, <2>2, <2>3 DEF OpenStream
<1>15. CASE StreamOver
  <2>1. Underway /\ UNCHANGED <<client, frames, served>> /\ loop' = "recv"
    BY <1>15 DEF StreamOver, Underway
  <2> QED
    BY <1>12, <1>15, <2>1, RefusalNames DEF StreamOver, SendError, SaidKinds, NoResponse
<1>16. ASSUME NEW kind \in EventKinds, NEW where \in {"event", "data"}, Forward(kind, where)
       PROVE  AnswersInv'
  <2> DEFINE id == IF kind \in Terminal THEN Now ELSE NoResponse
             f == SaidFrame(kind, id)
  <2>1. Underway /\ UNCHANGED <<client, frames, served>> /\ SendText(kind, id) /\ id \in Int /\ kind \in SaidKinds
    BY <1>0, <1>16 DEF Forward, Underway, Now, NoResponse, SaidKinds
  <2>2. CASE loop' = "recv"
    <3>1. Open => kind \in Terminal \cup Codes
      BY <1>16, <2>2 DEF Forward, IsTerminal
    <3> HIDE DEF id
    <3> QED
      BY <1>12, <2>1, <2>2, <3>1
  <2>3. CASE loop' # "recv"
    <3>1. loop' = loop /\ kind \notin Terminal
      BY <1>16, <2>3 DEF Forward, IsTerminal
    <3>2. kind \notin Codes
      BY SocketAssumption
    <3>3. f \in OutFrame /\ Says(f) /\ ~Ends(f) /\ f.of = served' /\ served' > 0 /\ served' = served
      <4>1. SaidFrame(kind, id) \in OutFrame /\ Says(SaidFrame(kind, id))
        BY <2>1, SaidType
      <4>2. SaidFrame(kind, id).of = served /\ SaidFrame(kind, id).kind = kind
        BY <2>1 DEF SaidFrame, Now, Underway
      <4> QED
        BY <2>1, <3>1, <3>2, <4>1, <4>2 DEF Ends, AnswersInv
    <3>4. \A i \in DOMAIN outbox : outbox[i].of = served => ~Ends(outbox[i])
      BY <2>1 DEF AnswersInv
    <3> HIDE DEF f
    <3>5. /\ Ordered' /\ (\A n : HasEnd(n) => HasEnd(n)')
          /\ \A i \in DOMAIN outbox' : outbox'[i].of \in 1 .. served' /\ (outbox'[i].of = served' => ~Ends(outbox'[i]))
      BY <1>0, <2>1, <3>3, <3>4, AnswerGrows
    <3>6. Handled' = Handled /\ Open' = Open /\ Underway'
      BY <2>1, <3>1 DEF Handled, Open, Underway
    <3>7. Ended'
      BY <2>1, <3>5, <3>6 DEF AnswersInv, Ended
    <3> QED
      BY <2>1, <3>3, <3>5, <3>6, <3>7 DEF AnswersInv
  <2> QED
    BY <2>2, <2>3
<1>17. CASE Hangup
  <2>1. UNCHANGED <<outbox, served, client, frames>> /\ loop = "recv" /\ loop' = "ended"
    BY <1>17 DEF Hangup
  <2>2. /\ Ordered' /\ (\A n : HasEnd(n)' <=> HasEnd(n)) /\ Handled' = Handled /\ ~Underway' /\ Open' = Open
    BY <2>1 DEF AnswersInv, Ordered, HasEnd, Handled, Underway, Open
  <2>3. Ended'
    BY <2>1, <2>2 DEF AnswersInv, Ended
  <2> QED
    BY <2>1, <2>2, <2>3 DEF AnswersInv
<1>18. CASE UNCHANGED socketVars
  BY <1>1, <1>18 DEF socketVars, Open
<1> QED
  BY <1>2, <1>3, <1>4, <1>6, <1>7, <1>9, <1>10, <1>11, <1>14, <1>15, <1>16, <1>17, <1>18
  DEF SocketNext, Streams

-----------------------------------------------------------------------------
(* Ids *)

LEMMA IdsInit == SocketInit => IdsInv
BY DEF SocketInit, IdsInv, NoResponse

(* A frame to the client has an id of the provider's only if it ends its    *)
(* response to the frame that is served.                                    *)
LEMMA IdsOfFrames ==
  ASSUME SocketType, AnswersInv, IdsInv, NEW f \in OutFrame, Says(f),
         UNCHANGED <<client, frames, upstream>>,
         f.id > 0 => f.id = f.of /\ frames[f.of].kind = "create"
  PROVE  IdsInv'
<1>1. /\ DOMAIN outbox \subseteq DOMAIN outbox' /\ (\A i \in DOMAIN outbox : outbox'[i] = outbox[i])
      /\ \A i \in DOMAIN outbox' : i \in DOMAIN outbox \/ outbox'[i] = f
  BY Longer
<1>2. \A id : Delivered(id) => Delivered(id)'
  BY <1>1 DEF Delivered
<1>3. \A i \in DOMAIN outbox' :
        outbox'[i].id > 0 => outbox'[i].id = outbox'[i].of /\ frames[outbox'[i].of].kind = "create"
  BY <1>1 DEF IdsInv
<1> QED
  BY <1>2, <1>3 DEF IdsInv

LEMMA IdsStep == SocketType /\ AnswersInv /\ IdsInv /\ [SocketNext]_socketVars => IdsInv'
<1> SUFFICES ASSUME SocketType, AnswersInv, IdsInv, [SocketNext]_socketVars PROVE IdsInv'
  OBVIOUS
<1>0. /\ served \in Nat /\ served <= Len(frames) /\ Len(frames) \in Nat /\ DOMAIN frames = 1 .. Len(frames)
      /\ DOMAIN outbox = 1 .. Len(outbox) /\ Len(outbox) \in Nat
      /\ \A i \in DOMAIN outbox : outbox[i].of \in 1 .. served /\ outbox[i].id \in Int
      /\ Underway => served > 0 /\ frames[served].kind = "create"
  <2>1. \A i \in DOMAIN outbox : outbox[i] \in OutFrame
    BY DEF SocketType
  <2> QED
    BY <2>1 DEF SocketType, AnswersInv, OutFrame
<1>1. \A id \in Int : Delivered(id) /\ id > 0 => id <= served
  BY <1>0 DEF Delivered, IdsInv
<1>2. ASSUME NEW kind \in FrameKinds, SendFrame(kind) PROVE IdsInv'
  <2> DEFINE f == [kind |-> kind, previous |-> IF kind = "create" THEN client.previous ELSE NoResponse]
             k == Len(frames) + 1
  <2>1. f \in [kind : FrameKinds, previous : Int] /\ client.previous \in Int
    BY DEF NoResponse, SocketType, SocketClient
  <2>2. frames' = Append(frames, f) /\ UNCHANGED <<outbox, upstream>> /\ client'.previous = client.previous
    BY <1>2 DEF SendFrame, SocketType, SocketClient
  <2>3. /\ \A n \in 1 .. Len(frames) : frames'[n] = frames[n]
        /\ frames'[k] = f /\ DOMAIN frames' = 1 .. k
    BY <2>1, <2>2, AppendProperties DEF SocketType
  <2>4. f.previous > 0 => Delivered(f.previous) /\ f.previous < k
    BY <1>0, <1>1, <2>1 DEF IdsInv, NoResponse
  <2> HIDE DEF f
  <2>5. \A id : Delivered(id)' <=> Delivered(id)
    BY <2>2 DEF Delivered
  <2>6. \A n \in DOMAIN frames' :
          frames'[n].previous > 0 => Delivered(frames'[n].previous) /\ frames'[n].previous < n
    <3> SUFFICES ASSUME NEW n \in DOMAIN frames', frames'[n].previous > 0
                 PROVE  Delivered(frames'[n].previous) /\ frames'[n].previous < n
      OBVIOUS
    <3>1. CASE n = k
      BY <2>3, <2>4, <3>1
    <3>2. CASE n \in DOMAIN frames
      BY <1>0, <2>3, <3>2 DEF IdsInv
    <3> QED
      BY <1>0, <2>3, <3>1, <3>2
  <2>7. \A i \in DOMAIN outbox : frames'[outbox[i].of] = frames[outbox[i].of]
    BY <1>0, <2>3
  <2> QED
    BY <2>2, <2>5, <2>6, <2>7 DEF IdsInv
<1>3. CASE ReadFrame
  <2> DEFINE f == outbox[client.read + 1]
  <2>1. client.read + 1 \in DOMAIN outbox
    BY <1>0, <1>3 DEF ReadFrame, SocketType, SocketClient
  <2>2. client'.previous = (IF f.kind = "completed" THEN f.id ELSE client.previous)
        /\ UNCHANGED <<frames, outbox, upstream>>
    BY <1>3 DEF ReadFrame, SocketType, SocketClient
  <2>3. client'.previous # NoResponse => Delivered(client'.previous)
    BY <2>1, <2>2 DEF Delivered, IdsInv
  <2>4. \A id : Delivered(id)' <=> Delivered(id)
    BY <2>2 DEF Delivered
  <2> QED
    BY <2>2, <2>3, <2>4 DEF IdsInv
<1>4. ASSUME UNCHANGED <<frames, outbox, upstream>>, client'.previous = client.previous PROVE IdsInv'
  <2>1. \A id : Delivered(id)' <=> Delivered(id)
    BY <1>4 DEF Delivered
  <2> QED
    BY <1>4, <2>1 DEF IdsInv
<1>5. CASE Disappear
  BY <1>4, <1>5 DEF Disappear, SocketType, SocketClient
<1>6. ASSUME NEW kind \in SaidKinds, NEW id \in Int, SendText(kind, id), UNCHANGED <<client, frames, upstream>>,
             id > 0 => Underway /\ id = Now
      PROVE  IdsInv'
  <2>1. SaidFrame(kind, id) \in OutFrame /\ Says(SaidFrame(kind, id))
    BY <1>6, SaidType
  <2>2. SaidFrame(kind, id).id = id /\ SaidFrame(kind, id).of = Now
    BY DEF SaidFrame
  <2>3. Underway => Now = served
    BY DEF Underway, Now
  <2>4. SaidFrame(kind, id).id > 0 =>
          SaidFrame(kind, id).id = SaidFrame(kind, id).of /\ frames[SaidFrame(kind, id).of].kind = "create"
    BY <1>0, <1>6, <2>2, <2>3
  <2> QED
    BY <1>6, <2>1, <2>4, IdsOfFrames
<1>7. CASE Refuse
  <2>1. Refusals[Frame.kind] \in SaidKinds
    BY <1>7, RefusalNames DEF Refuse, SaidKinds
  <2> QED
    BY <1>6, <1>7, <2>1 DEF Refuse, ReceiveFrame, SendError, NoResponse
<1>8. CASE PingFrame
  BY <1>4, <1>8 DEF PingFrame, ReceiveFrame
<1>9. CASE CloseFrame
  BY <1>4, <1>9 DEF CloseFrame, ReceiveFrame
<1>10. CASE WarmUp
  <2>1. Now = served + 1
    BY <1>10 DEF WarmUp, ReceiveFrame, Now
  <2>2. -Now \in Int /\ ~(-Now > 0)
    BY <1>0, <2>1
  <2> QED
    BY <1>6, <1>10, <2>2, RefusalNames DEF WarmUp, ReceiveFrame, SaidKinds
<1>11. CASE Create
  <2> DEFINE p == StripSynthetic(Frame.previous)
             r == [of |-> Now, previous |-> p, session |-> IF client.named THEN 0 ELSE Now]
  <2>1. Now = served + 1 /\ Now \in DOMAIN frames /\ Frame = frames[Now]
    BY <1>0, <1>11 DEF Create, ReceiveFrame, Now, Frame
  <2>2. Frame.previous \in Int
    <3>1. frames[Now] \in [kind : FrameKinds, previous : Int]
      BY <1>0, <2>1, ElementOfSeq DEF SocketType
    <3> QED
      BY <2>1, <3>1
  <2>3. p # NoResponse => p > 0 /\ Delivered(p) /\ p < Now
    BY <2>1, <2>2 DEF StripSynthetic, NoResponse, IdsInv
  <2>4. r \in [of : Nat, previous : Int, session : Nat]
    BY <1>0, <2>1, <2>2 DEF StripSynthetic, NoResponse
  <2>5. upstream' = Append(upstream, r) /\ UNCHANGED <<client, frames, outbox>>
    BY <1>11 DEF Create, ReceiveFrame
  <2>6. /\ \A q \in 1 .. Len(upstream) : upstream'[q] = upstream[q]
        /\ upstream'[Len(upstream) + 1] = r /\ DOMAIN upstream' = 1 .. Len(upstream) + 1
        /\ DOMAIN upstream = 1 .. Len(upstream) /\ Len(upstream) \in Nat
    BY <2>4, <2>5, AppendProperties DEF SocketType
  <2>7. r.previous = p /\ r.of = Now
    OBVIOUS
  <2> HIDE DEF p, r
  <2>8. \A id : Delivered(id)' <=> Delivered(id)
    BY <2>5 DEF Delivered
  <2>9. \A q \in DOMAIN upstream' :
          upstream'[q].previous # NoResponse =>
            upstream'[q].previous > 0 /\ Delivered(upstream'[q].previous)
            /\ upstream'[q].previous < upstream'[q].of
    BY <2>3, <2>6, <2>7, <2>8 DEF IdsInv
  <2> QED
    BY <2>5, <2>8, <2>9 DEF IdsInv
<1>12. CASE OpenStream
  BY <1>4, <1>6, <1>12, RefusalNames DEF OpenStream, SendError, SaidKinds, NoResponse
<1>13. CASE StreamOver
  BY <1>6, <1>13, RefusalNames DEF StreamOver, SendError, SaidKinds, NoResponse
<1>14. ASSUME NEW kind \in EventKinds, NEW where \in {"event", "data"}, Forward(kind, where)
       PROVE  IdsInv'
  <2> DEFINE id == IF kind \in Terminal THEN Now ELSE NoResponse
  <2>1. Underway /\ UNCHANGED <<client, frames, upstream>> /\ SendText(kind, id) /\ kind \in SaidKinds
    BY <1>14 DEF Forward, Underway, SaidKinds
  <2>2. id \in Int /\ (id > 0 => id = Now)
    BY <1>0 DEF Now, NoResponse
  <2> HIDE DEF id
  <2> QED
    BY <1>6, <2>1, <2>2
<1>15. CASE Hangup
  BY <1>4, <1>15 DEF Hangup
<1>16. CASE UNCHANGED socketVars
  BY <1>4, <1>16 DEF socketVars
<1> QED
  BY <1>2, <1>3, <1>5, <1>7, <1>8, <1>9, <1>10, <1>11, <1>12, <1>13, <1>14, <1>15, <1>16
  DEF SocketNext, Streams

-----------------------------------------------------------------------------
(* Ends to come *)

(* What a client can still count on. *)
Prospect == Cardinality(Unread) + Cardinality(Unserved) + (IF Underway THEN 1 ELSE 0)

LEMMA OneMore ==
  ASSUME NEW S, IsFiniteSet(S), NEW x, x \notin S
  PROVE  /\ Cardinality(S \cup {x}) = Cardinality(S) + 1 /\ Cardinality(S) \in Nat
         /\ IsFiniteSet(S \cup {x})
BY FS_AddElement, FS_CardinalityType

LEMMA CountsFinite ==
  SocketType => /\ IsFiniteSet(Unread) /\ Cardinality(Unread) \in Nat
                /\ IsFiniteSet(Unserved) /\ Cardinality(Unserved) \in Nat
                /\ Prospect \in Nat
<1> SUFFICES ASSUME SocketType
             PROVE  /\ IsFiniteSet(Unread) /\ Cardinality(Unread) \in Nat
                    /\ IsFiniteSet(Unserved) /\ Cardinality(Unserved) \in Nat
                    /\ Prospect \in Nat
  OBVIOUS
<1>1. /\ client.read + 1 \in Int /\ Len(outbox) \in Int /\ served + 1 \in Int /\ Len(frames) \in Int
  BY DEF SocketType, SocketClient
<1>2. IsFiniteSet(client.read + 1 .. Len(outbox)) /\ IsFiniteSet(served + 1 .. Len(frames))
  BY <1>1, FS_Interval
<1>3. IsFiniteSet(Unread) /\ IsFiniteSet(Unserved)
  BY <1>2, FS_Subset DEF Unread, Unserved
<1> QED
  BY <1>3, FS_CardinalityType DEF Prospect

LEMMA CountsStayFinite == SocketType' => (Cardinality(Unserved) \in Nat /\ Prospect \in Nat)'
<1>1. SocketType => Cardinality(Unserved) \in Nat /\ Prospect \in Nat
  BY CountsFinite
<1> QED
  BY <1>1, PTL

LEMMA UnreadGrows ==
  ASSUME SocketType, NEW f \in OutFrame, Says(f), Open, client' = client
  PROVE  Cardinality(Unread') = Cardinality(Unread) + (IF f.kind \in Ending THEN 1 ELSE 0)
<1> DEFINE final == Len(outbox) + 1
<1>1. /\ Len(outbox) \in Nat /\ client.read \in Nat /\ client.read <= Len(outbox)
      /\ Len(outbox') = final /\ outbox'[final] = f
      /\ \A i \in 1 .. Len(outbox) : outbox'[i] = outbox[i]
  BY Longer DEF SocketType, SocketClient
<1>2. final \notin Unread
  BY <1>1 DEF Unread
<1>3. CASE f.kind \in Ending
  <2>1. Unread' = Unread \cup {final}
    BY <1>1, <1>3 DEF Unread
  <2> QED
    BY <1>2, <1>3, <2>1, CountsFinite, OneMore
<1>4. CASE f.kind \notin Ending
  <2>1. Unread' = Unread
    BY <1>1, <1>4 DEF Unread
  <2> QED
    BY <1>4, <2>1, CountsFinite
<1> QED
  BY <1>3, <1>4

LEMMA UnservedShrinks ==
  ASSUME SocketType, ReceiveFrame
  PROVE  Cardinality(Unserved) = Cardinality(Unserved') + (IF Frame.kind \in Asking THEN 1 ELSE 0)
<1>1. /\ served \in Nat /\ Len(frames) \in Nat /\ served < Len(frames) /\ served' = served + 1
      /\ frames' = frames /\ Frame = frames[served + 1]
  BY DEF SocketType, ReceiveFrame, Now, Frame
<1>2. Unserved' \subseteq Unserved /\ served + 1 \notin Unserved'
  BY <1>1 DEF Unserved
<1>3. IsFiniteSet(Unserved')
  BY <1>2, CountsFinite, FS_Subset
<1>4. CASE Frame.kind \in Asking
  <2>1. Unserved = Unserved' \cup {served + 1}
    BY <1>1, <1>4 DEF Unserved
  <2>2. Cardinality(Unserved' \cup {served + 1}) = Cardinality(Unserved') + 1
    BY <1>2, <1>3, OneMore
  <2> QED
    BY <1>4, <2>1, <2>2
<1>5. CASE Frame.kind \notin Asking
  <2>1. Unserved = Unserved'
    BY <1>1, <1>5 DEF Unserved
  <2> QED
    BY <1>3, <1>5, <2>1, FS_CardinalityType
<1> QED
  BY <1>4, <1>5

(* A step of the server leaves the client no fewer ends to come. *)
LEMMA ServerKeepsProspect ==
  ASSUME SocketType, SocketType', NobodyHangs, client' = client, client.is = "open" => Prospect' >= Prospect
  PROVE  NobodyHangs'
<1> SUFFICES ASSUME client.is = "open" PROVE Len(client.waiting) <= Prospect'
  BY DEF NobodyHangs, Prospect
<1>1. Len(client.waiting) <= Prospect /\ Len(client.waiting) \in Nat
  BY DEF NobodyHangs, Prospect, SocketType, SocketClient
<1>2. Prospect \in Nat
  BY CountsFinite
<1>3. Prospect' \in Nat
  BY CountsStayFinite
<1> QED
  BY <1>1, <1>2, <1>3

LEMMA HangsStep == SocketType /\ SocketType' /\ AnswersInv /\ NobodyHangs /\ [SocketNext]_socketVars => NobodyHangs'
<1> SUFFICES ASSUME SocketType, SocketType', AnswersInv, NobodyHangs, [SocketNext]_socketVars PROVE NobodyHangs'
  OBVIOUS
<1>0. /\ served \in Nat /\ served <= Len(frames) /\ Len(frames) \in Nat
      /\ Len(outbox) \in Nat /\ client.read \in Nat /\ client.read <= Len(outbox)
      /\ client.waiting \in Seq(Nat) /\ Len(client.waiting) \in Nat
      /\ Cardinality(Unread) \in Nat /\ Cardinality(Unserved) \in Nat
      /\ IsFiniteSet(Unread) /\ IsFiniteSet(Unserved)
      /\ client.is = "open" => Open
  <2>1. client \in SocketClient /\ served \in 0 .. Len(frames) /\ client.read <= Len(outbox)
        /\ Len(frames) \in Nat /\ Len(outbox) \in Nat
    BY DEF SocketType
  <2>2. client.read \in Nat /\ client.waiting \in Seq(Nat)
    BY <2>1 DEF SocketClient
  <2>3. client.is = "open" => Open
    BY DEF Open
  <2>4. served \in Nat /\ served <= Len(frames) /\ Len(client.waiting) \in Nat
    BY <2>1, <2>2
  <2> QED
    BY <2>1, <2>2, <2>3, <2>4, CountsFinite
<1>1. ASSUME NEW kind \in FrameKinds, SendFrame(kind) PROVE NobodyHangs'
  <2> DEFINE f == [kind |-> kind, previous |-> IF kind = "create" THEN client.previous ELSE NoResponse]
             k == Len(frames) + 1
  <2>1. f \in [kind : FrameKinds, previous : Int]
    BY DEF NoResponse, SocketType, SocketClient
  <2>2. /\ frames' = Append(frames, f) /\ UNCHANGED <<outbox, served, loop>> /\ client'.read = client.read
        /\ client'.waiting = IF kind \in Asking THEN Append(client.waiting, Len(frames')) ELSE client.waiting
        /\ client.is = "open"
    BY <1>1 DEF SendFrame, SocketType, SocketClient
  <2>3. /\ \A n \in 1 .. Len(frames) : frames'[n] = frames[n]
        /\ frames'[k].kind = kind /\ Len(frames') = k
    BY <2>1, <2>2, AppendProperties DEF SocketType
  <2>4. Unread' = Unread /\ Underway' = Underway
    BY <2>2 DEF Unread, Underway
  <2>5. Cardinality(Unserved') = Cardinality(Unserved) + (IF kind \in Asking THEN 1 ELSE 0)
    <3>1. k \notin Unserved
      BY <1>0 DEF Unserved
    <3>2. CASE kind \in Asking
      <4>1. Unserved' = Unserved \cup {k}
        BY <1>0, <2>2, <2>3, <3>2 DEF Unserved
      <4> QED
        BY <1>0, <3>1, <3>2, <4>1, OneMore
    <3>3. CASE kind \notin Asking
      <4>1. Unserved' = Unserved
        BY <1>0, <2>2, <2>3, <3>3 DEF Unserved
      <4> QED
        BY <1>0, <3>3, <4>1
    <3> QED
      BY <3>2, <3>3
  <2>6. Len(client'.waiting) = Len(client.waiting) + (IF kind \in Asking THEN 1 ELSE 0)
    <3>1. Len(frames') \in Nat
      BY <1>0, <2>3
    <3>2. Len(Append(client.waiting, Len(frames'))) = Len(client.waiting) + 1
      BY <1>0, <3>1, AppendProperties
    <3>3. CASE kind \in Asking
      <4>1. client'.waiting = Append(client.waiting, Len(frames'))
        BY <2>2, <3>3
      <4> QED
        BY <3>2, <3>3, <4>1
    <3>4. CASE kind \notin Asking
      <4>1. client'.waiting = client.waiting
        BY <2>2, <3>4
      <4> QED
        BY <1>0, <3>4, <4>1
    <3> QED
      BY <3>3, <3>4
  <2>7. Len(client.waiting) <= Prospect
    BY <2>2 DEF NobodyHangs, Prospect
  <2> QED
    <3>1. Prospect' = Prospect + (IF kind \in Asking THEN 1 ELSE 0)
      BY <1>0, <2>4, <2>5 DEF Prospect
    <3>2. Prospect \in Nat
      BY CountsFinite
    <3>3. Len(client'.waiting) <= Prospect'
      BY <1>0, <2>6, <2>7, <3>1, <3>2
    <3> QED
      BY <3>3 DEF NobodyHangs, Prospect
<1>2. CASE ReadFrame
  <2> DEFINE f == outbox[client.read + 1]
  <2>1. /\ client.read + 1 \in 1 .. Len(outbox) /\ client'.read = client.read + 1 /\ client'.is = client.is
        /\ client'.waiting = IF f.kind \in Ending /\ client.waiting # << >> THEN Tail(client.waiting) ELSE client.waiting
        /\ UNCHANGED <<frames, served, loop, outbox>>
    BY <1>0, <1>2 DEF ReadFrame, SocketType, SocketClient
  <2>2. Unserved' = Unserved /\ Underway' = Underway
    BY <2>1 DEF Unserved, Underway
  <2>3. client.read + 1 \notin Unread' /\ Unread' \subseteq Unread
    BY <1>0, <2>1 DEF Unread
  <2>4. IsFiniteSet(Unread') /\ Cardinality(Unread') \in Nat
    BY <1>0, <2>3, FS_Subset, FS_CardinalityType
  <2>5. CASE f.kind \in Ending
    <3>1. Unread = Unread' \cup {client.read + 1}
      BY <1>0, <2>1, <2>5 DEF Unread
    <3>2. Cardinality(Unread' \cup {client.read + 1}) = Cardinality(Unread') + 1
      BY <2>3, <2>4, OneMore
    <3>3. client.waiting # << >> => Len(client'.waiting) = Len(client.waiting) - 1
      BY <1>0, <2>1, <2>5, HeadTailProperties
    <3>4. client.waiting = << >> => Len(client'.waiting) = 0
      BY <2>1
    <3>5. Cardinality(Unread) = Cardinality(Unread') + 1
      BY <3>1, <3>2
    <3> HIDE DEF f
    <3>6. client.is = "open" => Len(client.waiting) <= Prospect
      BY DEF NobodyHangs, Prospect
    <3>7. Prospect = Prospect' + 1
      BY <2>2, <2>4, <3>5, <1>0 DEF Prospect
    <3>8. Prospect' \in Nat
      BY CountsStayFinite
    <3>9. client.is = "open" => Len(client'.waiting) <= Prospect'
      BY <1>0, <3>3, <3>4, <3>6, <3>7, <3>8
    <3> QED
      BY <2>1, <3>9 DEF NobodyHangs, Prospect
  <2>6. CASE f.kind \notin Ending
    <3>1. Unread' = Unread
      BY <1>0, <2>1, <2>6 DEF Unread
    <3>2. client'.waiting = client.waiting
      BY <2>1, <2>6
    <3> QED
      BY <2>1, <2>2, <3>1, <3>2 DEF NobodyHangs
  <2> QED
    BY <2>5, <2>6
<1>3. CASE Disappear
  BY <1>3 DEF Disappear, NobodyHangs, SocketType, SocketClient
<1>4. ASSUME UNCHANGED <<client, frames, served, outbox>>, client.is = "open" => Underway' = Underway
      PROVE  NobodyHangs'
  BY <1>4 DEF NobodyHangs, Unread, Unserved
<1>5. ASSUME NEW kind \in SaidKinds, NEW id \in Int, SendText(kind, id), client' = client, client.is = "open"
      PROVE  /\ Cardinality(Unread') = Cardinality(Unread) + (IF kind \in Ending THEN 1 ELSE 0)
             /\ kind \in Codes \cup Terminal => Cardinality(Unread') = Cardinality(Unread) + 1
  <2>1. SaidFrame(kind, id) \in OutFrame /\ Says(SaidFrame(kind, id)) /\ SaidFrame(kind, id).kind = kind
    BY <1>5, SaidType DEF SaidFrame
  <2>2. Cardinality(Unread') = Cardinality(Unread) + (IF kind \in Ending THEN 1 ELSE 0)
    BY <1>0, <1>5, <2>1, UnreadGrows
  <2> QED
    BY <2>2 DEF Ending
<1>6. ASSUME ReceiveFrame
      PROVE  /\ Cardinality(Unserved) = Cardinality(Unserved') + (IF Frame.kind \in Asking THEN 1 ELSE 0)
             /\ ~Underway /\ client' = client /\ Cardinality(Unserved') \in Nat
  <2>1. Cardinality(Unserved) = Cardinality(Unserved') + (IF Frame.kind \in Asking THEN 1 ELSE 0)
    BY <1>6, UnservedShrinks
  <2>2. Cardinality(Unserved') \in Nat
    BY CountsStayFinite
  <2> QED
    BY <1>6, <2>1, <2>2 DEF ReceiveFrame, Underway
<1>7. CASE Refuse
  <2>1. ReceiveFrame /\ Refusals[Frame.kind] \in Codes /\ Frame.kind \in Asking /\ loop' = loop
    BY <1>7, RefusalNames DEF Refuse, Asking
  <2>2. client.is = "open" => Cardinality(Unread') = Cardinality(Unread) + 1
    BY <1>5, <1>6, <1>7, <2>1 DEF Refuse, SendError, SaidKinds, NoResponse
  <2> QED
    BY <1>0, <1>6, <2>1, <2>2, ServerKeepsProspect DEF Prospect
<1>8. CASE PingFrame
  <2>1. ReceiveFrame /\ Frame.kind \notin Asking /\ loop' = loop /\ outbox' = outbox
    BY <1>8, RefusalNames DEF PingFrame, Asking
  <2>2. Unread' = Unread
    BY <1>6, <2>1 DEF Unread
  <2> QED
    BY <1>0, <1>6, <2>1, <2>2, ServerKeepsProspect DEF Prospect
<1>9. CASE CloseFrame
  <2>1. ReceiveFrame /\ Frame.kind \notin Asking /\ outbox' = outbox
    BY <1>9, RefusalNames DEF CloseFrame, Asking
  <2>2. Unread' = Unread
    BY <1>6, <2>1 DEF Unread
  <2> QED
    BY <1>0, <1>6, <2>1, <2>2, ServerKeepsProspect DEF Prospect
<1>10. CASE WarmUp
  <2>1. ReceiveFrame /\ Frame.kind \in Asking /\ loop' = loop
    BY <1>10 DEF WarmUp, Asking
  <2>2. -Now \in Int
    BY <1>0 DEF Now
  <2>3. client.is = "open" => Cardinality(Unread') = Cardinality(Unread) + 1
    BY <1>5, <1>6, <1>10, <2>1, <2>2, RefusalNames DEF WarmUp, SaidKinds
  <2> QED
    BY <1>0, <1>6, <2>1, <2>3, ServerKeepsProspect DEF Prospect
<1>11. CASE Create
  <2>1. ReceiveFrame /\ Frame.kind \in Asking /\ Underway' /\ outbox' = outbox
    BY <1>11 DEF Create, Asking, Underway
  <2>2. Unread' = Unread
    BY <1>6, <2>1 DEF Unread
  <2> QED
    BY <1>0, <1>6, <2>1, <2>2, ServerKeepsProspect DEF Prospect
<1>12. ASSUME UNCHANGED <<client, frames, served>>, Underway,
              NEW kind \in SaidKinds, NEW id \in Int, SendText(kind, id),
              client.is = "open" => Underway' \/ kind \in Codes \cup Terminal
       PROVE  NobodyHangs'
  <2>1. Unserved' = Unserved
    BY <1>12 DEF Unserved
  <2>2. client.is = "open" =>
          \/ Cardinality(Unread') = Cardinality(Unread) + 1
          \/ Underway' /\ Cardinality(Unread') = Cardinality(Unread)
    <3>1. client.is = "open" => Cardinality(Unread') \in {Cardinality(Unread), Cardinality(Unread) + 1}
      BY <1>0, <1>5, <1>12
    <3>2. client.is = "open" /\ kind \in Codes \cup Terminal => Cardinality(Unread') = Cardinality(Unread) + 1
      BY <1>5, <1>12
    <3> QED
      BY <1>12, <3>1, <3>2
  <2> QED
    BY <1>0, <1>12, <2>1, <2>2, ServerKeepsProspect DEF Prospect
<1>13. CASE OpenStream
  <2>1. Underway /\ UNCHANGED <<client, frames, served>>
    BY <1>13 DEF OpenStream, Underway
  <2>2. CASE loop' = "forwarding" /\ UNCHANGED outbox
    BY <1>4, <2>1, <2>2 DEF Underway
  <2>3. CASE loop' = "recv" /\ SendError("upstream_error")
    BY <1>12, <2>1, <2>3, RefusalNames DEF SendError, SaidKinds, NoResponse
  <2> QED
    BY <1>13, <2>2, <2>3 DEF OpenStream
<1>14. CASE StreamOver
  <2>1. Underway /\ UNCHANGED <<client, frames, served>>
    BY <1>14 DEF StreamOver, Underway
  <2> QED
    BY <1>12, <1>14, <2>1, RefusalNames DEF StreamOver, SendError, SaidKinds, NoResponse
<1>15. ASSUME NEW kind \in EventKinds, NEW where \in {"event", "data"}, Forward(kind, where)
       PROVE  NobodyHangs'
  <2> DEFINE id == IF kind \in Terminal THEN Now ELSE NoResponse
  <2>1. Underway /\ UNCHANGED <<client, frames, served>> /\ SendText(kind, id) /\ kind \in SaidKinds /\ id \in Int
    BY <1>0, <1>15 DEF Forward, Underway, Now, NoResponse, SaidKinds
  <2>2. client.is = "open" => Underway' \/ kind \in Terminal
    BY <1>0, <1>15 DEF Forward, IsTerminal, Underway
  <2> HIDE DEF id
  <2> QED
    BY <1>12, <2>1, <2>2
<1>16. CASE Hangup
  <2>1. UNCHANGED <<client, frames, served, outbox>> /\ ~Open
    BY <1>16 DEF Hangup
  <2> QED
    BY <1>0, <1>4, <2>1
<1>17. CASE UNCHANGED socketVars
  BY <1>4, <1>17 DEF socketVars, Underway
<1> QED
  BY <1>1, <1>2, <1>3, <1>7, <1>8, <1>9, <1>10, <1>11, <1>13, <1>14, <1>15, <1>16, <1>17
  DEF SocketNext, Streams

-----------------------------------------------------------------------------
LEMMA SocketStarts == SocketInit => SocketInv
<1>1. SocketInit => NobodyHangs
  <2> SUFFICES ASSUME SocketInit PROVE Len(client.waiting) <= Prospect
    BY DEF NobodyHangs, Prospect
  <2>1. Len(client.waiting) = 0 /\ Prospect \in Nat
    BY TypeInit, CountsFinite DEF SocketInit
  <2> QED
    BY <2>1
<1> QED
  BY <1>1, TypeInit, AnswersInit, IdsInit DEF SocketInv

LEMMA SocketKept == SocketInv /\ [SocketNext]_socketVars => SocketInv'
BY TypeStep, AnswersStep, IdsStep, HangsStep DEF SocketInv

(* TurnsStayApart for any number of frames: the answers on one connection  *)
(* come in order, each ends once, the provider goes on only from its own   *)
(* responses that were delivered here, and a client that waits for an      *)
(* answer has one to come, however the streams end (run_ws_session,        *)
(* forward_stream).                                                        *)
THEOREM TurnsKeptApart == SocketSpec => []TurnsStayApart
<1>1. SocketInv => TurnsStayApart
  <2> SUFFICES ASSUME SocketInv PROVE EndsOnce /\ IdsAreKnown
    BY DEF SocketInv, TurnsStayApart
  <2>1. EndsOnce
    BY DEF SocketInv, AnswersInv, EndsOnce, Ordered, Ended, HasEnd
  <2>2. IdsAreKnown
    <3> SUFFICES ASSUME NEW q \in DOMAIN upstream, upstream[q].previous # NoResponse
                 PROVE  \E i \in DOMAIN outbox :
                          /\ outbox[i].kind = "completed" /\ outbox[i].id = upstream[q].previous
                          /\ outbox[i].of < upstream[q].of /\ frames[outbox[i].of].kind = "create"
      BY DEF IdsAreKnown, Range
    <3>1. /\ upstream[q].previous > 0 /\ Delivered(upstream[q].previous)
          /\ upstream[q].previous < upstream[q].of
      BY DEF SocketInv, IdsInv
    <3>2. PICK i \in DOMAIN outbox : outbox[i].kind = "completed" /\ outbox[i].id = upstream[q].previous
      BY <3>1 DEF Delivered
    <3>3. outbox[i].id = outbox[i].of /\ frames[outbox[i].of].kind = "create"
      BY <3>1, <3>2 DEF SocketInv, IdsInv
    <3> QED
      BY <3>1, <3>2, <3>3
  <2> QED
    BY <2>1, <2>2
<1> QED
  BY <1>1, SocketStarts, SocketKept, PTL DEF SocketSpec
=============================================================================
