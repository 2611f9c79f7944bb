------------------------------- MODULE Server -------------------------------
(***************************************************************************)
(* lunaroute-server: where its configuration comes from, which providers,  *)
(* routes and handlers it sets up (main.rs, config.rs, bootstrap.rs), and  *)
(* which of them a request reaches, for the messages of a conversation as  *)
(* the user's [LUNAROUTE:name] markers direct (marker.rs), for any other   *)
(* path as PathClassifier and the bypass do.                               *)
(*                                                                         *)
(* Of the settings, those are modelled on which the way of a request       *)
(* depends.  A model is its family, "gpt", "claude" or "other".  A request *)
(* that is routed is followed no further than the decision of RouteTable;  *)
(* what ProviderRouter makes of it is another module.                      *)
(***************************************************************************)
EXTENDS Integers, FiniteSets, SequencesExt

CONSTANTS
  Launches,     \* command lines, environments and files to start with
  UserMessages, \* what the user of a conversation can send
  MaxMessages   \* bound on the messages of a conversation

VARIABLES
  launch,  \* auxiliary: the way the server was started
  phase,   \* launched, configured, listening or failed
  config,
  chat,    \* a conversation: where the client sends it, and its history
  last,    \* what became of the last request of the conversation
  aside    \* what became of the last other request

serverVars == <<launch, phase, config, chat, last, aside>>

Builtin  == {"openai", "anthropic"}
Dialects == Builtin \cup {"both"}

(* What serde admits of a file, and of a message. *)
IsConfig(c) ==
  /\ c = [from |-> c.from, dialect |-> c.dialect, providers |-> c.providers, extra |-> c.extra,
          bypass |-> c.bypass, bypassTo |-> c.bypassTo]
  /\ c.dialect \in Dialects
Messages(roles) ==
  [role : roles, plain : BOOLEAN,
   blocks : Seq([kind : {"text", "result"}, marks : Seq(STRING), words : BOOLEAN])]

ASSUME ServerAssumption ==
  /\ MaxMessages \in Nat
  /\ \A l \in Launches : IsConfig(l.file)
  /\ UserMessages \subseteq Messages({"user"})

-----------------------------------------------------------------------------
(* Configuration.                                                          *)

(* Both providers are enabled, without keys. *)
DefaultProviders == [p \in Builtin |-> "enabled"]

DefaultConfig ==
  [from |-> "default", dialect |-> "both", providers |-> DefaultProviders, extra |-> "none",
   bypass |-> TRUE, bypassTo |-> "first"]

(* A bootstrap file that cannot be read, parsed or validated is as none. *)
ReadBootstrap(l) ==
  CASE l.boot = "none"     -> [source |-> "file", path |-> "home"]
    [] l.boot = "database" -> [source |-> "database", path |-> "home"]
    [] OTHER               -> [source |-> "file", path |-> l.boot]

(* The command line, then the bootstrap file, then ~/.lunaroute/config.yaml. *)
ConfigPath(l) == IF l.path # "none" THEN l.path ELSE ReadBootstrap(l).path

(* The path is opened as it stands: nothing is called "~". *)
FromFile(path, l) == IF path = "home" \/ ~l.readable THEN DefaultConfig ELSE l.file

(* A key in the environment adds its provider when the file has none. *)
WithKey(setting, has) == IF has /\ setting = "absent" THEN "enabled" ELSE setting

(* Values that are not valid are ignored with a warning. *)
MergeEnv(c, env) ==
  [c EXCEPT
     !.dialect   = IF env.dialect \in Dialects THEN env.dialect ELSE @,
     !.providers = [p \in Builtin |-> WithKey(@[p], p \in env.keys)],
     !.bypass    = IF env.bypass \in {"on", "off"} THEN env.bypass = "on" ELSE @,
     !.bypassTo  = IF env.bypassTo # "none" THEN env.bypassTo ELSE @]

(* The option has LUNAROUTE_DIALECT as its default (Cli.dialect). *)
Dialect(l) == IF l.dialect # "none" THEN l.dialect ELSE l.env.dialect

Loaded(l) ==
  IF ReadBootstrap(l).source = "database"
  THEN [l.file EXCEPT !.from = "database"]
  ELSE FromFile(ConfigPath(l), l)

(* A database that cannot be reached, or a row that does not parse, and a
   wrong dialect end the program; a file that cannot be read does not. *)
Configure ==
  /\ phase = "launched"
  /\ LET merged == MergeEnv(Loaded(launch), launch.env)
         over   == Dialect(launch) IN
     \/ /\ ReadBootstrap(launch).source = "database" => launch.readable
        /\ over \in Dialects \cup {"none"}
        /\ phase' = "configured"
        /\ config' = IF over = "none" THEN merged ELSE [merged EXCEPT !.dialect = over]
     \/ /\ \/ ReadBootstrap(launch).source = "database"
           \/ over \notin Dialects \cup {"none"}
        /\ phase' = "failed" /\ UNCHANGED config
  /\ UNCHANGED <<launch, chat, last, aside>>

-----------------------------------------------------------------------------
(* Providers, routes and handlers.                                         *)

Connectors(c) == {p \in Builtin : c.providers[p] = "enabled"}

(* An extra provider needs a type that is known. *)
ValidExtra(c) == c.extra \in Builtin \cup {"none"}

(* ProviderRegistry, for the markers: what each provider is. *)
Registry(c) ==
  [p \in Connectors(c) \cup (IF c.extra = "none" THEN {} ELSE {"extra"}) |->
     IF p = "extra" THEN c.extra ELSE p]

Rule(priority, family, primary, fallbacks) ==
  [priority |-> priority, family |-> family, primary |-> primary, fallbacks |-> fallbacks]

(* The rules of the configuration are not read. *)
Rules(c) ==
  LET has == Connectors(c)
      To(family, p, q) ==
        IF p \in has THEN <<Rule(10, family, p, IF q \in has THEN <<q>> ELSE <<>>)>> ELSE <<>> IN
  To("gpt", "openai", "anthropic") \o To("claude", "anthropic", "openai")
    \o <<Rule(1, "any", IF "openai" \in has THEN "openai" ELSE "anthropic", <<>>)>>

Matches(rule, model) == rule.family \in {"any", model}

(* The first matching rule in the order of priority: whom to try. *)
FindRoute(rules, model) ==
  LET fits == {i \in DOMAIN rules : Matches(rules[i], model)}
      best == CHOOSE i \in fits : \A j \in fits :
                \/ rules[j].priority < rules[i].priority
                \/ rules[j].priority = rules[i].priority /\ i <= j IN
  <<rules[best].primary>> \o rules[best].fallbacks

(* With the only provider's dialect, or both, requests are not normalized. *)
Passthrough(c) ==
  IF c.dialect = "both" THEN Connectors(c) = Builtin ELSE Connectors(c) = {c.dialect}

(* openai::passthrough_router or openai::router *)
OpenAIPaths(c) ==
  {"/v1/chat/completions", "/v1/models"} \cup (IF Passthrough(c) THEN {"/v1/responses"} ELSE {})

(* multi_dialect: the paths of both. *)
Served(c) ==
  (IF c.dialect = "anthropic" THEN {} ELSE OpenAIPaths(c))
    \cup (IF c.dialect = "openai" THEN {} ELSE {"/v1/messages"})

HealthPaths == {"/healthz", "/readyz", "/metrics"}

(* PathClassifier::new *)
Intercepted == {"/v1/chat/completions", "/v1/messages", "/v1/models"} \cup HealthPaths

(* Mutant: the configured provider is taken whether it is enabled or not. *)
WrongBypassProvider(c) ==
  IF ~c.bypass THEN {}
  ELSE IF c.bypassTo # "first" THEN {c.bypassTo}
  ELSE IF "openai" \in Connectors(c) THEN {"openai"} ELSE Connectors(c)

(* The configured provider, or else the first that is enabled. *)
BypassProvider(c) ==
  IF ~c.bypass THEN {}
  ELSE IF c.bypassTo # "first" THEN {c.bypassTo} \cap Connectors(c)
  ELSE IF "openai" \in Connectors(c) THEN {"openai"} ELSE Connectors(c)

(* The address may be taken. *)
SetUp ==
  /\ phase = "configured"
  /\ phase' \in {"listening", "failed"}
  /\ ~ValidExtra(config) => phase' = "failed"
  /\ UNCHANGED <<launch, config, chat, last, aside>>

-----------------------------------------------------------------------------
(* Markers.  A message has blocks: of a tool result; of a text with some   *)
(* markers and maybe words; or a reminder, which is one marker alone.  The *)
(* content of a plain message is one text.                                 *)

ToolResultsOnly(m) == ~m.plain /\ m.blocks # <<>> /\ \A i \in DOMAIN m.blocks : m.blocks[i].kind = "result"

Marked(b) == b.marks # <<>>

(* The user's last message that has more than results; 0 if there is none. *)
Speaks(h) ==
  LET own == {i \in DOMAIN h : h[i].role = "user" /\ ~ToolResultsOnly(h[i])} IN
  IF own = {} THEN 0 ELSE CHOOSE i \in own : \A j \in own : j <= i

(* Mutant: the last message of the user is looked at, whatever it has. *)
WrongExtractMarker(h) ==
  LET own   == {i \in DOMAIN h : h[i].role = "user"}
      found == IF own = {} THEN <<>>
               ELSE SelectSeq(h[CHOOSE i \in own : \A j \in own : j <= i].blocks, Marked) IN
  IF found = <<>> THEN "none" ELSE found[1].marks[1]

(* Its first marker.  "clear" asks for no provider. *)
ExtractMarker(h) ==
  LET found == IF Speaks(h) = 0 THEN <<>> ELSE SelectSeq(h[Speaks(h)].blocks, Marked) IN
  IF found = <<>> THEN "none" ELSE found[1].marks[1]

Unmarked(b) == [b EXCEPT !.marks = <<>>]

(* The blocks and the message that become empty go too. *)
StripMessage(m) ==
  IF m.plain THEN <<[m EXCEPT !.blocks = [i \in DOMAIN @ |-> Unmarked(@[i])]]>>
  ELSE LET kept == SelectSeq(m.blocks, LAMBDA b : b.kind = "result" \/ b.words) IN
       IF kept = <<>> THEN <<>> ELSE <<[m EXCEPT !.blocks = [i \in DOMAIN kept |-> Unmarked(kept[i])]]>>

(* Mutant: the last message of the history is stripped. *)
WrongStripMarker(h) == SubSeq(h, 1, Len(h) - 1) \o StripMessage(h[Len(h)])

StripMarker(h) ==
  LET i == Speaks(h) IN
  IF i = 0 THEN h ELSE SubSeq(h, 1, i - 1) \o StripMessage(h[i]) \o SubSeq(h, i + 1, Len(h))

-----------------------------------------------------------------------------
(* Requests.  An outcome is what was done, whom it was sent to (in the     *)
(* order of trying), and what was sent.                                    *)

Outcome(what, tried, sent) == [what |-> what, tried |-> tried, sent |-> sent]
Nothing == Outcome("none", <<>>, <<>>)

(* chat_completions_passthrough: another dialect's provider is refused. *)
OpenAIOverride(c, mark, sent) ==
  IF mark \notin DOMAIN Registry(c) THEN Outcome("sent", <<"openai">>, sent)
  ELSE IF Registry(c)[mark] = "openai" THEN Outcome("sent", <<mark>>, sent)
  ELSE Outcome("refused", <<>>, <<>>)

(* messages_passthrough: it is translated for another dialect's provider. *)
AnthropicOverride(c, mark, sent) ==
  Outcome("sent", IF mark \in DOMAIN Registry(c) THEN <<mark>> ELSE <<"anthropic">>, sent)

(* The bypass, for a path without a handler: as it is, to its provider. *)
Bypass(c, path, sent) ==
  IF path \in Intercepted \/ BypassProvider(c) = {} THEN Outcome("not found", <<>>, <<>>)
  ELSE Outcome("sent", <<CHOOSE p \in BypassProvider(c) : TRUE>>, sent)

Conversed(c, path, model, h) ==
  LET mark == ExtractMarker(h)
      sent == IF mark = "none" THEN h ELSE StripMarker(h) IN
  IF path \notin Served(c) THEN Bypass(c, path, h)
  ELSE IF ~Passthrough(c) THEN Outcome("routed", FindRoute(Rules(c), model), h)
  ELSE IF path = "/v1/chat/completions" THEN OpenAIOverride(c, mark, sent)
  ELSE AnthropicOverride(c, mark, sent)

(* A client begins a conversation, in its dialect and with its model. *)
Begin(path, model) ==
  /\ phase = "listening" /\ chat.path = "none"
  /\ chat' = [path |-> path, model |-> model, history |-> <<>>]
  /\ aside' = Nothing
  /\ UNCHANGED <<launch, phase, config, last>>

HasResult(m) == \E i \in DOMAIN m.blocks : m.blocks[i].kind = "result"

(* It sends its history with a new message.  Results answer calls of tools;
   they are messages of their own, of the role "tool", in OpenAI's dialect. *)
Converse(m) ==
  /\ phase = "listening" /\ chat.path # "none" /\ Len(chat.history) < MaxMessages
  /\ HasResult(m) => chat.history # <<>> /\ (ToolResultsOnly(m) \/ chat.path = "/v1/messages")
  /\ LET tool == ToolResultsOnly(m) /\ chat.path = "/v1/chat/completions"
         h    == Append(chat.history, IF tool THEN [m EXCEPT !.role = "tool"] ELSE m) IN
     /\ last' = Conversed(config, chat.path, chat.model, h)
     /\ chat' = [chat EXCEPT !.history = h]
  /\ UNCHANGED <<launch, phase, config, aside>>

(* Any other request: the models and responses of the OpenAI handlers, the
   health endpoints, and what no handler knows.  It leaves no trace: only
   those before the conversation are looked at. *)
RequestAside(path) ==
  /\ phase = "listening" /\ chat.path = "none"
  /\ aside' =
       IF path \in HealthPaths THEN Outcome("here", <<>>, <<>>)
       ELSE IF path \notin Served(config) THEN Bypass(config, path, <<>>)
       ELSE IF Passthrough(config) THEN Outcome("sent", <<"openai">>, <<>>)
       ELSE Outcome("here", <<>>, <<>>)
  /\ UNCHANGED <<launch, phase, config, chat, last>>

ServerInit ==
  /\ launch \in Launches
  /\ phase = "launched"
  /\ config = DefaultConfig
  /\ chat = [path |-> "none", model |-> "none", history |-> <<>>]
  /\ last = Nothing /\ aside = Nothing

ServerNext ==
  \/ Configure \/ SetUp
  \/ \E path \in {"/v1/chat/completions", "/v1/messages"}, model \in {"gpt", "claude", "other"} : Begin(path, model)
  \/ \E m \in UserMessages : Converse(m)
  \/ \E path \in {"/v1/models", "/v1/responses", "/v1/embeddings"} \cup HealthPaths : RequestAside(path)

ServerSpec == ServerInit /\ [][ServerNext]_serverVars

-----------------------------------------------------------------------------
(* Whom a request is sent or routed to is a provider of this server, and   *)
(* one that takes requests of its path as they come, or after translation; *)
(* unless no provider is enabled (the default route of main.rs, the choice *)
(* of the bypass provider, the connectors of the markers).                 *)
NoRouteToNowhere ==
  Connectors(config) # {} =>
    \A o \in {last, aside} : Range(o.tried) \subseteq DOMAIN Registry(config)

(* The marker that directed a request is not seen by the provider, however *)
(* it was written, and everything else of the history is (extract_marker   *)
(* and strip_marker select the message on their own).                      *)
Contents(h) ==
  FlattenSeq([i \in DOMAIN h |-> SelectSeq(h[i].blocks, LAMBDA b : b.kind = "result" \/ b.words)])
MarkersStayHere ==
  last.what = "sent" =>
    LET h == chat.history
        i == Speaks(h) IN
    /\ \A j \in DOMAIN last.sent : j >= i => ~\E k \in DOMAIN last.sent[j].blocks : Marked(last.sent[j].blocks[k])
    /\ [k \in DOMAIN Contents(last.sent) |-> Unmarked(Contents(last.sent)[k])]
         = [k \in DOMAIN Contents(h) |-> Unmarked(Contents(h)[k])]

(* The requests of a chain of tool calls go where the message went that    *)
(* began it (marker.rs).                                                   *)
ChainStaysTogether ==
  [][ \A m \in UserMessages :
        Converse(m) /\ ToolResultsOnly(m) => last'.tried = last.tried /\ last'.what = last.what ]_serverVars

(* bootstrap.rs: the configuration file that the bootstrap file names, or  *)
(* ~/.lunaroute/config.yaml, is the server's configuration.                *)
ConfigFileIsRead ==
  phase = "listening" /\ launch.readable /\ ReadBootstrap(launch).source = "file" =>
    config.from = "file"
=============================================================================
