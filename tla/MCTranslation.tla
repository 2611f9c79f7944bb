--------------------------- MODULE MCTranslation ---------------------------
(* Small instances of StreamTranslation, Conversation and Server: a client
   streams an answer, from every provider to every handler; or it holds a
   conversation without streams, with every pair of dialects and with an
   OpenAI connector that prepends a system message (the text 0); or the
   server is started in many ways and its handlers are chosen; or a text is
   redacted in which three expressions find something; or a connector sends
   requests, two at once if there is a Codex login; or a client sends three
   frames over a WebSocket. *)
EXTENDS StreamTranslation, Conversation, Server, Redaction, BodyChanges, ResponsesSocket
VARIABLE part
AllRoutes ==
  {r \in [provider : {"openai", "anthropic"}, handler : {"chat", "messages", "cross"}] :
     r.handler = "cross" => r.provider = "openai"}
Configured == <<Message("system", <<0>>, <<>>, NoId)>>
AllPairs ==
  {r \in [client : {"openai", "anthropic"}, provider : {"openai", "anthropic"}, prepend : {<<>>, Configured}] :
     r.provider = "anthropic" => r.prepend = <<>>}

(* What the user of the server says: texts with and without markers, results of tools. *)
Text(marks, more) == [kind |-> "text", marks |-> marks, words |-> more]
ToolResult == [kind |-> "result", marks |-> <<>>, words |-> FALSE]
Says(plain, blocks) == [role |-> "user", plain |-> plain, blocks |-> blocks]
AllMessages ==
  {Says(TRUE, <<Text(<<>>, TRUE)>>), Says(FALSE, <<ToolResult>>), Says(FALSE, <<ToolResult, Text(<<>>, TRUE)>>),
   Says(TRUE, <<Text(<<"nobody">>, FALSE)>>), Says(FALSE, <<Text(<<"openai", "extra">>, FALSE)>>),
   Says(FALSE, <<Text(<<>>, TRUE), Text(<<"anthropic">>, TRUE)>>),
   Says(FALSE, <<Text(<<"clear">>, TRUE), Text(<<"extra">>, FALSE)>>)}

(* How it is started: the place of the file and the dialect, the providers, the bypass. *)
NoEnv == [dialect |-> "none", keys |-> {}, bypass |-> "none", bypassTo |-> "none"]
Start ==
  [boot |-> "none", path |-> "absolute", readable |-> TRUE, file |-> [DefaultConfig EXCEPT !.from = "file"],
   env |-> NoEnv, dialect |-> "none"]
ByPlace ==
  {[Start EXCEPT !.boot = b, !.path = p, !.readable = r, !.file.dialect = "openai", !.env.dialect = e, !.dialect = d] :
     b \in {"none", "absolute", "home", "database"}, p \in {"none", "absolute"}, r \in BOOLEAN,
     e \in {"anthropic", "none", "wrong"}, d \in {"none", "both"}}
ByProviders ==
  {[Start EXCEPT !.file.providers = [q \in Builtin |-> IF q = "openai" THEN o ELSE a],
                 !.file.dialect = d, !.file.extra = x, !.env.keys = k] :
     o \in {"absent", "disabled", "enabled"}, a \in {"absent", "disabled", "enabled"},
     d \in Dialects, x \in Builtin \cup {"wrong"}, k \in {{}, {"openai"}}}
ByBypass ==
  {[Start EXCEPT !.file.providers.anthropic = a, !.file.bypass = f, !.file.bypassTo = t, !.env.bypass = b, !.env.bypassTo = u] :
     a \in {"absent", "enabled"}, f \in BOOLEAN, t \in {"first", "nobody"},
     b \in {"on", "off", "wrong"}, u \in {"none", "anthropic"}}
AllLaunches == ByPlace \cup ByProviders \cup ByBypass

(* Texts of four positions, each expression finding at most one interval. *)
Intervals == {<<a, b>> \in (0..3) \X (1..4) : a < b}
FoundBy(kind) ==
  {{}} \cup {{[kind |-> kind, from |-> i[1], to |-> i[2], valid |-> v]} : i \in Intervals, v \in {TRUE, kind # "phone"}}
AllTexts == {[len |-> 4, finds |-> e \cup p \cup k] : e \in FoundBy("email"), p \in FoundBy("phone"), k \in FoundBy("key")}
Settings ==
  [enabled |-> {"email", "phone"}, least |-> 70, show |-> 1, key |-> TRUE, mode |-> "mask",
   customs |-> [k \in {"key"} |-> [confidence |-> 90, mode |-> "mask", placeholder |-> FALSE]]]
AllConfigs ==
  {Settings, [Settings EXCEPT !.mode = "remove", !.customs["key"].confidence = 99, !.customs["key"].mode = "tokenize"],
   [Settings EXCEPT !.mode = "tokenize", !.least = 90, !.customs["key"].placeholder = TRUE],
   [Settings EXCEPT !.mode = "tokenize", !.key = FALSE, !.customs["key"].mode = "tokenize"],
   [Settings EXCEPT !.mode = "partial", !.customs["key"].confidence = 80],
   [Settings EXCEPT !.mode = "hide", !.enabled = {"phone"}]}
AllOverrides ==
  {<<>>, [k \in {"email", "phone"} |-> IF k = "phone" THEN [mode |-> "mask", replacement |-> "number"]
                                       ELSE [mode |-> "partial", replacement |-> "none"]]}

(* Connectors: of every kind with and without a key, with a Codex login,
   with a custom header, with changes of the body. *)
NoChanges == NewConfig("openai", FALSE)
Custom(name, lower, variable) == [name |-> name, lower |-> lower, variable |-> variable]
Trees(v) ==
  {Object([k \in {"messages"} |-> m] @@ [k \in {"a"} |-> a]) : m, a \in {Value(v), Object([x \in {"x"} |-> Value(v)])}}
    \cup {Object([k \in {"a"} |-> Object([x \in ks |-> Value(v)])]) : ks \in {{"x"}, {"x", "y"}}}
    \cup {Object([k \in {"messages"} |-> Value(v)])}
AllSetups ==
  {NewConfig(d, k) : d \in {"openai", "anthropic", "bypass", "bypass_anthropic"}, k \in BOOLEAN}
    \cup {[NoChanges EXCEPT !.codex = TRUE, !.key = k, !.field = f, !.account = a] :
             k, a \in BOOLEAN, f \in {"access", "field"}}
    \cup {[NoChanges EXCEPT !.key = k, !.customs = {Custom(n, l, v)}, !.notes = {v}] :
             k, l \in BOOLEAN, n \in {"authorization", "x-api-key"}, v \in {"session_id", "env.SECRET_KEY", "model"}}
    \cup {[NoChanges EXCEPT !.defaults = d, !.overrides = o, !.prepend = <<0>>] :
             d \in Trees(<<1>>) \cup {Object(<<>>)}, o \in Trees(<<3>>) \cup {Object(<<>>)}}
Asks(path, headers, body, session) == [path |-> path, headers |-> headers, body |-> body, session |-> session]
Clients ==
  {{}, {"authorization", "user-agent", "other", "host"}, {"chatgpt-account-id", "originator", "x-api-key"},
   {"authorization", "chatgpt-account-id", "x-api-key", "accept-encoding"}}
WithHeaders ==
  {Asks(p, h, Object(<<>>), s) :
     p \in RawOpenAI \cup RawAnthropic \cup Translated \cup {"bypass"}, h \in Clients, s \in {FALSE}}
    \cup {Asks("context", h, Object(<<>>), TRUE) : h \in Clients}
WithBody == {Asks(p, {}, b, FALSE) : p \in {"send", "context"}, b \in Trees(<<2>>)}
AllRequests == [c \in {"a", "b"} |-> IF c = "a" THEN WithHeaders \cup WithBody ELSE {Asks("chat", {}, Object(<<>>), FALSE)}]
AllShapes == {{}, {"access", "account"}, {"field", "account"}, {"account"}}
(* Bodies only where they are changed, two calls only with a login. *)
Telling ==
  /\ calls["a"].request \in WithBody => setup.prepend # <<>>
  /\ calls["a"].request \in WithHeaders => setup.prepend = <<>>
  /\ calls["b"].pc # "idle" =>
       /\ setup.codex /\ calls["a"].path \in {"none", "responses", "send"}
       /\ "authorization" \notin calls["a"].request.headers
       /\ \A c \in Callers : calls[c].told.what \in {"nothing", "ok"}
(* A third message with one model only, two finds and more in one place only. *)
Short == Len(chat.history) = 3 => chat.model = "claude"
Single == Cardinality(input.text.finds) > 1 => input.place = "message"

(* Clients of the WebSocket. *)
AllPeers == {p \in [waits : BOOLEAN, named : BOOLEAN] : p.named = p.waits}

(* The parts that are not looked at stay as they were at first. *)
MCInit ==
  /\ part \in {"stream", "talk", "server", "redaction", "connector", "socket"}
  /\ Init /\ (part # "stream" => route = CHOOSE r \in Routes : TRUE)
  /\ TalkInit /\ (part # "talk" => pair = CHOOSE p \in Pairs : TRUE)
  /\ ServerInit /\ (part # "server" => launch = CHOOSE l \in Launches : TRUE)
  /\ RedactionInit /\ (part # "redaction" => service = FromConfig(Settings))
  /\ ConnectorInit /\ (part # "connector" => setup = NoChanges)
  /\ SocketInit /\ (part # "socket" => client.named)
MCNext ==
  \/ part = "stream" /\ Next /\ UNCHANGED <<part, talkVars, serverVars, redactionVars, connectorVars, socketVars>>
  \/ part = "talk" /\ TalkNext /\ UNCHANGED <<part, vars, serverVars, redactionVars, connectorVars, socketVars>>
  \/ part = "server" /\ ServerNext /\ Short' /\ UNCHANGED <<part, vars, talkVars, redactionVars, connectorVars, socketVars>>
  \/ part = "redaction" /\ RedactionNext /\ Single' /\ UNCHANGED <<part, vars, talkVars, serverVars, connectorVars, socketVars>>
  \/ part = "connector" /\ ConnectorNext /\ Telling' /\ UNCHANGED <<part, vars, talkVars, serverVars, redactionVars, socketVars>>
  \/ part = "socket" /\ SocketNext /\ UNCHANGED <<part, vars, talkVars, serverVars, redactionVars, connectorVars>>
MCSpec == MCInit /\ [][MCNext]_<<part, vars, talkVars, serverVars, redactionVars, connectorVars, socketVars>>
=============================================================================
