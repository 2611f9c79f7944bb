------------------------------ MODULE Connector ------------------------------
(***************************************************************************)
(* What a request to a provider carries: the headers that the handlers of  *)
(* lunaroute-ingress let pass, what the connectors of lunaroute-egress     *)
(* and the bypass make of them, the token and the account of the Codex     *)
(* login (codex_auth.rs), and the configured changes of headers and body.  *)
(*                                                                         *)
(* A header is its name and where its value comes from; one that comes     *)
(* from the file of the login has the number of that login.  A body is a   *)
(* tree of keys with non-empty objects; what a connector makes of it is in *)
(* BodyChanges.  "other" is a header of no meaning here that every handler *)
(* lets pass.  Hours are the unit of time.                                 *)
(***************************************************************************)
EXTENDS Integers, SequencesExt, FiniteSetsExt

CONSTANTS
  Setups,     \* configurations of a connector
  Callers,    \* requests in flight
  Requests,   \* for each of them the requests it may be
  Shapes,     \* sets of fields that can be read in the login's file
  MaxLogins,  \* times the file of the login is written
  MaxResends, \* client_config.max_retries
  WithChanges(_, _)  \* a body as a connector changes it: module BodyChanges

ASSUME ConnectorAssumption ==
  /\ \A s \in Setups : s.codex => s.kind = "openai"
  /\ Shapes \subseteq SUBSET {"access", "field", "account"} /\ {} \in Shapes
  /\ MaxLogins \in Nat /\ MaxResends \in Nat

VARIABLES
  setup,
  file,   \* the fields of the login's file that can be read, and its number
  token,  \* codex_token_cache: the login whose token is cached, or 0
  calls

connectorVars == <<setup, file, token, calls>>

(* OpenAIConfig::new(), and no Codex login. *)
Object(kids) == [kids |-> kids]
NewConfig(kind, key) ==
  [kind |-> kind, key |-> key, codex |-> FALSE, field |-> "access", account |-> FALSE, customs |-> {}, notes |-> {},
   defaults |-> Object(<<>>), overrides |-> Object(<<>>), prepend |-> <<>>]

Header(name, from) == <<name, from, 0>>
Names(headers) == {h[1] : h \in headers}
MaxRetryAfter == 48
Missing == -1

(***************************************************************************)
(* Paths.  "context" is send_passthrough_with_context, "send" and "stream" *)
(* are the ones of Provider; the others are named for their handlers.      *)
(***************************************************************************)
RawOpenAI    == {"chat", "chat_stream", "responses", "responses_stream", "models", "context"}
RawAnthropic == {"messages", "messages_stream"}
Translated   == {"send", "stream"}
PathsOf(kind) ==
  CASE kind = "openai"    -> RawOpenAI \cup Translated
    [] kind = "anthropic" -> RawAnthropic \cup Translated
    [] OTHER              -> {"bypass"}
Resent(path) == path \in {"chat", "context", "responses", "send"}

(* What the handlers pass on of a client's headers.  "host" stands for *)
(* those of one connection.                                            *)
ThroughResponses(names) == names \cap {"authorization", "user-agent", "other"}
ThroughChat(names)      == names \ {"host"}
ThroughMessages(names)  == names \ {"host"}
ThroughModels(names)    == names
ThroughBypass(names)    == names \ {"host"}
Received(path, names) ==
  CASE path \in {"responses", "responses_stream"} -> ThroughResponses(names)
    [] path \in RawAnthropic                      -> ThroughMessages(names)
    [] path = "models"                            -> ThroughModels(names)
    [] path = "bypass"                            -> ThroughBypass(names)
    [] path \in Translated                        -> {}
    [] OTHER                                      -> ThroughChat(names)

(***************************************************************************)
(* Custom headers and their templates.                                     *)
(***************************************************************************)
Sensitive(variable) == variable = "env.SECRET_KEY"
Context(session) ==
  {"request_id", "provider", "model", "timestamp", "env.PLAIN", "env.SECRET_KEY"}
    \cup (IF session THEN {"session_id"} ELSE {})

(* A variable without a value stays as it is written. *)
Substituted(variable, session) ==
  IF variable \in Context(session) /\ ~Sensitive(variable) THEN variable ELSE "template"

Customs(s, session) == {Header(c.name, Substituted(c.variable, session)) : c \in s.customs}

(* headers.extend() of the client's headers, whose names are in lower case. *)
WithCustoms(headers, s, session) ==
  {h \in headers : ~\E c \in s.customs : c.lower /\ c.name = h[1]} \cup Customs(s, session)

(***************************************************************************)
(* What is sent.                                                           *)
(***************************************************************************)
(* The six copies in openai.rs: which of the headers are skipped. *)
SkippedByOpenAI(name) ==
  \/ name = "authorization" /\ setup.key
  \/ name = "chatgpt-account-id" /\ setup.codex /\ setup.account
  \/ name \in {"user-agent", "originator"} /\ setup.codex

CodexHeaders == IF setup.codex THEN {Header("user-agent", "codex"), Header("originator", "codex")} ELSE {}

(* reqwest adds the user agent of the client's configuration. *)
WithAgent(headers) ==
  IF "user-agent" \in Names(headers) THEN headers ELSE headers \cup {Header("user-agent", "lunaroute")}

RawRequest(call) ==
  WithAgent({h \in call.headers : ~SkippedByOpenAI(h[1])} \cup call.credential \cup call.account \cup CodexHeaders)

(* An empty key is sent to Anthropic, too. *)
TranslatedRequest(call) ==
  WithAgent(IF setup.kind = "openai" THEN call.headers \cup call.credential
            ELSE {Header("x-api-key", IF setup.key THEN "key" ELSE "empty")})

ApiKeyOfAnthropic == IF setup.key THEN {Header("x-api-key", "key")} ELSE {}
SkippedByAnthropic(name) == name \in {"authorization", "x-api-key"} /\ setup.key

(***************************************************************************)
(* Answers.                                                                *)
(***************************************************************************)
Answers == {"ok", "garbled", "limited", "unavailable", "refused", "lost"}

(* parse_retry_after of the header: seconds, a date, or neither. *)
RetryAfter(h) ==
  CASE h.form = "seconds" -> Min({h.hours, MaxRetryAfter})
    [] h.form = "date"    -> Max({0, Min({h.hours, MaxRetryAfter})})
    [] OTHER              -> Missing
RetryHeaders ==
  {[form |-> "none", hours |-> 0], [form |-> "seconds", hours |-> 60], [form |-> "date", hours |-> -1]}

Told(what) == [what |-> what, after |-> Missing, notes |-> {}]
Refused(header) == [Told("RateLimitExceeded") EXCEPT !.after = RetryAfter(header)]

(* A whole answer: handle_openai_passthrough_response() and its like. *)
ToldWhole(answer, header) ==
  CASE answer = "ok"      -> Told("ok")
    [] answer = "garbled" -> Told("ParseError")
    [] answer = "limited" -> Refused(header)
    [] OTHER              -> Told("ProviderError")

(* What streams, and the models, know of no rate limit. *)
ToldStream(answer) == Told(IF answer \in {"ok", "garbled"} THEN "ok" ELSE "ProviderError")
ToldModels(answer) == Told(CASE answer = "ok" -> "ok" [] answer = "garbled" -> "ParseError" [] OTHER -> "ProviderError")

(* apply_response_body_modifications() of the answer *)
Annotated(told, session) ==
  IF told.what = "ok" THEN [told EXCEPT !.notes = {Substituted(v, session) : v \in setup.notes}] ELSE told

(* From<EgressError>: the router is told of rate limits, and of errors. *)
AsCoreError(told) == IF told.what \in {"ok", "RateLimitExceeded"} THEN told ELSE Told("Provider")

Conclusion(call, answer, header) ==
  LET p == call.path IN
  IF answer = "lost" THEN IF p \in Translated THEN AsCoreError(Told("HttpError")) ELSE Told("HttpError")
  ELSE CASE p \in RawAnthropic \cup {"bypass"}        -> Told("passed")
         [] p = "models"                              -> ToldModels(answer)
         [] p \in {"chat_stream", "responses_stream"} -> ToldStream(answer)
         [] p = "stream"                              -> AsCoreError(ToldStream(answer))
         [] p = "send"                                -> AsCoreError(ToldWhole(answer, header))
         [] p = "context"                             -> Annotated(ToldWhole(answer, header), call.request.session)
         [] OTHER                                     -> ToldWhole(answer, header)

(* with_retry: errors of the connection, and 500 to 504 of the provider *)
TryAgain(path, answer) == Resent(path) /\ answer \in {"lost", "unavailable"}

(***************************************************************************)
(* The system.                                                             *)
(***************************************************************************)
NoRequest == [path |-> "none", headers |-> {}, body |-> Object(<<>>), session |-> FALSE]
Idle ==
  [pc |-> "idle", path |-> "none", request |-> NoRequest, headers |-> {}, body |-> Object(<<>>),
   credential |-> {}, account |-> {}, sent |-> <<>>, told |-> Told("nothing")]

Reads(field) == IF field \in file.has THEN file.login ELSE 0

(* OpenAIConnector::new() reads tokens.access_token, whatever field is configured. *)
ConnectorInit ==
  /\ setup \in Setups
  /\ \E has \in SUBSET {"access", "field", "account"} : file = [login |-> 1, has |-> has]
  /\ setup.codex \/ file.has = {}
  /\ token = IF setup.codex THEN Reads("access") ELSE 0
  /\ calls = [c \in Callers |-> Idle]

Becomes(c, call) == calls' = [calls EXCEPT ![c] = call]

Arrive(c, r) ==
  /\ calls[c].pc = "idle" /\ r.path \in PathsOf(setup.kind)
  /\ LET headers == {Header(n, "client") : n \in Received(r.path, r.headers)}
         changes == setup.kind = "openai" /\ r.path \in Translated \cup {"context"} IN
     Becomes(c, [Idle EXCEPT !.pc = IF setup.kind = "openai" THEN "credential" ELSE "send",
                             !.path = r.path, !.request = r,
                             !.headers = IF changes THEN WithCustoms(headers, setup, r.session) ELSE headers,
                             !.body = IF changes THEN WithChanges(r.body, setup) ELSE r.body])
  /\ UNCHANGED <<setup, file, token>>

ApiKey == IF setup.key THEN {Header("authorization", "key")} ELSE {}

(* The client's own credential counts where its headers are passed on. *)
ClientProvided(call) == call.path \in RawOpenAI /\ "authorization" \in Names(call.headers)

(* get_fallback_auth_header(), with get_codex_token() in three steps. *)
FallBack(c) ==
  /\ calls[c].pc = "credential"
  /\ CASE ClientProvided(calls[c]) -> Becomes(c, [calls[c] EXCEPT !.pc = "account", !.credential = {}])
       [] ~ClientProvided(calls[c]) /\ ~setup.codex ->
            Becomes(c, [calls[c] EXCEPT !.pc = "account", !.credential = ApiKey])
       [] ~ClientProvided(calls[c]) /\ setup.codex /\ token # 0 ->
            Becomes(c, [calls[c] EXCEPT !.pc = "account", !.credential = {<<"authorization", "token", token>>}])
       [] OTHER -> Becomes(c, [calls[c] EXCEPT !.pc = "read"])
  /\ UNCHANGED <<setup, file, token>>

ReadToken(c) ==
  /\ calls[c].pc = "read"
  /\ LET t == Reads(setup.field) IN
     Becomes(c, IF t = 0 THEN [calls[c] EXCEPT !.pc = "account", !.credential = ApiKey]
                ELSE [calls[c] EXCEPT !.pc = "fill", !.credential = {<<"authorization", "token", t>>}])
  /\ UNCHANGED <<setup, file, token>>

FillCache(c) ==
  /\ calls[c].pc = "fill"
  /\ token' = (CHOOSE h \in calls[c].credential : TRUE)[3]
  /\ Becomes(c, [calls[c] EXCEPT !.pc = "account"])
  /\ UNCHANGED <<setup, file>>

(* Mutant: the account is looked up once for all attempts. *)
WrongGetAccount(c) ==
  /\ calls[c].pc = "account"
  /\ Becomes(c, [calls[c] EXCEPT !.pc = "send", !.account =
       IF ~setup.codex \/ calls[c].path \in Translated THEN {}
       ELSE IF setup.account THEN {Header("chatgpt-account-id", "configured")}
       ELSE IF calls[c].sent # <<>> THEN @
       ELSE IF Reads("account") # 0 THEN {<<"chatgpt-account-id", "file", file.login>>} ELSE {}])
  /\ UNCHANGED <<setup, file, token>>

(* get_codex_account_id(): the file is read for every attempt. *)
GetAccount(c) ==
  /\ calls[c].pc = "account"
  /\ Becomes(c, [calls[c] EXCEPT !.pc = "send", !.account =
       IF ~setup.codex \/ calls[c].path \in Translated THEN {}
       ELSE IF setup.account THEN {Header("chatgpt-account-id", "configured")}
       ELSE IF Reads("account") # 0 THEN {<<"chatgpt-account-id", "file", file.login>>} ELSE {}])
  /\ UNCHANGED <<setup, file, token>>

(* The requests of the paths; each copy of the code has its own. *)
Sends(c, paths, headers) ==
  /\ calls[c].pc = "send" /\ calls[c].path \in paths
  /\ Becomes(c, [calls[c] EXCEPT !.pc = "wait", !.sent = Append(@, headers)])
  /\ UNCHANGED <<setup, file, token>>

SendChat(c)        == Sends(c, {"chat", "context"}, RawRequest(calls[c]))
SendResponses(c)   == Sends(c, {"responses"}, RawRequest(calls[c]))
StreamChat(c)      == Sends(c, {"chat_stream"}, RawRequest(calls[c]))
StreamResponses(c) == Sends(c, {"responses_stream"}, RawRequest(calls[c]))
GetModels(c)       == Sends(c, {"models"}, RawRequest(calls[c]))

SendTranslated(c)   == Sends(c, {"send"}, TranslatedRequest(calls[c]))
StreamTranslated(c) == Sends(c, {"stream"}, TranslatedRequest(calls[c]))

SendMessages(c) ==
  Sends(c, {"messages"}, WithAgent({h \in calls[c].headers : ~SkippedByAnthropic(h[1])} \cup ApiKeyOfAnthropic))

(* The parser of the events needs plain text. *)
StreamMessages(c) ==
  Sends(c, {"messages_stream"},
    WithAgent({h \in calls[c].headers : ~SkippedByAnthropic(h[1]) /\ h[1] # "accept-encoding"} \cup ApiKeyOfAnthropic))

Bypassed(c) ==
  LET name == IF setup.kind = "bypass_anthropic" THEN "x-api-key" ELSE "authorization" IN
  Sends(c, {"bypass"}, IF setup.key THEN {h \in calls[c].headers : h[1] # name} \cup {Header(name, "key")}
                       ELSE calls[c].headers)

Answered(c, answer, header) ==
  /\ calls[c].pc = "wait"
  /\ answer # "limited" => header.form = "none"
  /\ IF TryAgain(calls[c].path, answer) /\ Len(calls[c].sent) <= MaxResends
     THEN Becomes(c, [calls[c] EXCEPT !.pc = IF setup.kind = "openai" THEN "credential" ELSE "send"])
     ELSE Becomes(c, [calls[c] EXCEPT !.pc = "done", !.told = Conclusion(calls[c], answer, header)])
  /\ UNCHANGED <<setup, file, token>>

(* Codex logs in again, or its file cannot be read for a while. *)
LogIn(has) ==
  /\ setup.codex /\ file.login < MaxLogins
  /\ file' = [login |-> file.login + 1, has |-> has]
  /\ UNCHANGED <<setup, token, calls>>

ConnectorNext ==
  \/ \E c \in Callers :
       \/ \E r \in Requests[c] : Arrive(c, r)
       \/ FallBack(c) \/ ReadToken(c) \/ FillCache(c) \/ GetAccount(c)
       \/ SendChat(c) \/ SendResponses(c) \/ StreamChat(c) \/ StreamResponses(c) \/ GetModels(c)
       \/ SendTranslated(c) \/ StreamTranslated(c) \/ SendMessages(c) \/ StreamMessages(c) \/ Bypassed(c)
       \/ \E answer \in Answers, header \in RetryHeaders : Answered(c, answer, header)
  \/ \E has \in Shapes : LogIn(has)

ConnectorSpec == ConnectorInit /\ [][ConnectorNext]_connectorVars

-----------------------------------------------------------------------------
Values(headers, name) == {<<h[2], h[3]>> : h \in {g \in headers : g[1] = name}}
Client == <<"client", 0>>

(* What one attempt shows of those on whose behalf it is made. *)
ShowsOne(s, call, headers) ==
  LET auth    == Values(headers, "authorization")
      account == Values(headers, "chatgpt-account-id")
      given   == Received(call.path, call.request.headers)
      raw     == call.path \in RawOpenAI IN
  /\ s.key /\ s.kind \in {"openai", "bypass"} => Client \notin auth
  /\ s.key /\ s.kind = "anthropic" =>
       auth = {} /\ Values(headers, "x-api-key") = {<<"key", 0>>}
  /\ ~s.key /\ s.customs = {} /\ "authorization" \in given => auth = {Client}
  /\ s.customs = {} => Cardinality(auth) <= 1
  /\ s.codex /\ raw /\ s.customs = {} =>
       Values(headers, "user-agent") = {<<"codex", 0>>} /\ Values(headers, "originator") = {<<"codex", 0>>}
  /\ s.codex /\ s.account /\ raw => account = {<<"configured", 0>>}
  /\ ~\E h \in headers : Sensitive(h[2])
  /\ \A t \in auth, f \in account : t[1] = "token" /\ f[1] = "file" => t[2] <= f[2]

(* Every attempt shows the provider one identity.  With a key the client's *)
(* credential does not leave the server, without one it arrives; no        *)
(* attempt carries two tokens; with a Codex login the agent is Codex's,    *)
(* whoever the client is, and a configured account is the only one; and    *)
(* the token of a login never goes with the account of an earlier one,     *)
(* although the token is cached and the account is not, while logins,      *)
(* retries and other calls fall between.  No sensitive variable fills a    *)
(* header.  The code is in get_fallback_auth_header, get_codex_account_id  *)
(* and the senders of openai.rs, anthropic.rs and bypass.rs.               *)
OneIdentity == \A c \in Callers : \A i \in DOMAIN calls[c].sent : ShowsOne(setup, calls[c], calls[c].sent[i])

(* openai.rs: a configured API key overrides the credential of the client. *)
ConfiguredKeyOverrides ==
  \A c \in Callers : \A i \in DOMAIN calls[c].sent :
    setup.kind = "openai" /\ setup.key /\ calls[c].path \in RawOpenAI
      /\ "authorization" \in Received(calls[c].path, calls[c].request.headers)
      => <<"key", 0>> \in Values(calls[c].sent[i], "authorization")
=============================================================================
