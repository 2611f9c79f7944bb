-------------------------- MODULE SessionRecording --------------------------
(***************************************************************************)
(* How requests become rows.  The ingress handlers of lunaroute-ingress    *)
(* and the recording provider of lunaroute-session turn a request into     *)
(* session events; most of them are written by spawned tasks, which run in *)
(* any order.  Every event goes into the recorder's bounded channel; the   *)
(* sqlite writer takes them out in order, a batch per transaction.         *)
(*                                                                         *)
(* The recorder is its abstract log here (module EventLog): a batch is any *)
(* nonempty prefix of what was accepted, up to the batch size.             *)
(***************************************************************************)
EXTENDS SqliteTables, FiniteSets

CONSTANTS
    Mixes,         \* the instances: a handler and a session id for every request
    Tokens,        \* token counts a provider may report
    ChannelSize,   \* events the recorder accepts before it drops some
    BatchSize      \* RecorderConfig.batch_size

Routed == {"send", "stream"}
Messages == {"messages", "messages_stream", "messages_cross"}
Chat == {"chat", "chat_stream"}
Handlers == Routed \cup Messages \cup Chat \cup {"responses", "responses_stream", "socket"}

(* The recording provider makes up a session id for every request (a UUID).*)
ASSUME RecordingAssumption ==
    /\ ChannelSize \in Nat \ {0} /\ BatchSize \in Nat \ {0}
    /\ Tokens \subseteq Nat
    /\ IsFiniteSet(Requests)
    /\ \A m \in Mixes, r \in Requests :
          /\ m[r].handler \in Handlers /\ m[r].session \in Sessions
          /\ m[r].handler \in Routed =>
                 \A q \in Requests \ {r} : m[q].session # m[r].session

VARIABLES
    handler,    \* which handler serves a request
    session,    \* the session id it records under
    phase,      \* how far the handler is
    tasks,      \* spawned tasks: the events each has still to write
    first,      \* an item of the stream was seen (first_event_seen)
    completed,  \* completed of the recording stream, stats_emitted of the responses stream
    calls,      \* requests whose answer contained a tool call
    mapper,     \* ToolCallMapper: calls whose tool name is known
    queue,      \* accepted events that are not committed yet
    db,         \* the tables
    spoiled     \* auxiliary: the channel refused an event or a batch was rolled back

vars == <<handler, session, phase, tasks, first, completed, calls, mapper, queue, db, spoiled>>
stored == <<queue, db, spoiled>>

Init ==
    /\ \E m \in Mixes :
          /\ handler = [r \in Requests |-> m[r].handler]
          /\ session = [r \in Requests |-> m[r].session]
    /\ phase = [r \in Requests |-> "new"]
    /\ tasks = [r \in Requests |-> {}]
    /\ first = [r \in Requests |-> FALSE]
    /\ completed = [r \in Requests |-> FALSE]
    /\ calls = {}
    /\ mapper = {}
    /\ queue = << >>
    /\ db = EmptyTables
    /\ spoiled = FALSE

-----------------------------------------------------------------------------
(* Events *)

E(kind, r) == Blank(kind, session[r], r)

ToolCall(r) == [E("tool", r) EXCEPT !.tool = Tool]

(* The result of call q, sent back with request r.  The tasks of the       *)
(* messages and responses handlers look the tool's name up when they write.*)
ToolResult(r, q) == [E("tool", r) EXCEPT !.call = q, !.tool = Tool, !.result = TRUE]

Stats(r, tokens, n) == [E("stats", r) EXCEPT !.tokens = tokens, !.calls = n]

Done(r, ok, tokens, n, streamed) ==
    [E("completed", r) EXCEPT !.ok = ok, !.tokens = tokens, !.calls = n, !.streamed = streamed]

Spawn(r, new) == tasks' = [tasks EXCEPT ![r] = @ \cup new]
Goto(r, p) == phase' = [phase EXCEPT ![r] = p]

-----------------------------------------------------------------------------
(* A request arrives.  Bound: the client of a session sends the next one   *)
(* when it has the answer to the last and the tasks of that have run; the  *)
(* background parser of the last answer may still be on its way.           *)
Arrives(r, handlers) ==
    /\ phase[r] = "new" /\ handler[r] \in handlers
    /\ \A q \in Requests : session[q] = session[r] =>
           phase[q] \in {"new", "parsing", "ended"} /\ tasks[q] = {}

(* Tool results the client can send with r: calls of the session's earlier *)
(* answers.                                                                *)
Answered(r) == {q \in calls : session[q] = session[r]}

(* One task writes the result events one after the other.                  *)
Sequences(r) ==
    UNION {SetToSeqs({ToolResult(r, q) : q \in S}) : S \in SUBSET Answered(r)}

(* messages_passthrough: Started, RequestRecorded and the results are one  *)
(* task each.                                                              *)
ArriveMessages(r) ==
    /\ Arrives(r, Messages)
    /\ \E results \in Sequences(r) :
          Spawn(r, {<<E("started", r)>>, <<E("request", r)>>} \cup ({results} \ {<< >>}))
    /\ Goto(r, "waiting")
    /\ UNCHANGED <<handler, session, first, completed, calls, mapper, stored>>

(* The history of a chat request: a result is recorded when the mapper     *)
(* knows its call; items in the format of the Responses API teach the      *)
(* mapper and record their calls again.                                    *)
History(r, sent, items, live) ==
    LET known == IF items THEN live \cup sent ELSE live IN
    [known  |-> known,
     events |-> {ToolResult(r, q) : q \in sent \cap known}
                \cup IF items THEN {[ToolCall(r) EXCEPT !.call = q] : q \in sent} ELSE {}]

(* chat_completions_passthrough: every event is a task of its own.         *)
ArriveChat(r) ==
    /\ Arrives(r, Chat)
    /\ \E sent \in SUBSET Answered(r), items \in BOOLEAN, live \in SUBSET mapper :
          LET history == History(r, sent, items, live) IN
          /\ mapper' = mapper \cup history.known
          /\ Spawn(r, {<<e>> : e \in {E("started", r), E("request", r)} \cup history.events})
    /\ Goto(r, "waiting")
    /\ UNCHANGED <<handler, session, first, completed, calls, stored>>

(* responses_passthrough and responses_sse_stream do the same: one task    *)
(* writes RequestRecorded and then the results.                            *)
ResponsesTasks(r) ==
    /\ \E results \in Sequences(r) :
          Spawn(r, {<<E("started", r)>>, <<E("request", r)>> \o results})
    /\ Goto(r, "waiting")
    /\ UNCHANGED <<handler, session, first, completed, calls, mapper, stored>>

ArriveResponses(r) == Arrives(r, {"responses"}) /\ ResponsesTasks(r)
ArriveResponsesStream(r) == Arrives(r, {"responses_stream"}) /\ ResponsesTasks(r)

(* A frame on a WebSocket: response.create goes through the same pipeline; *)
(* a warmup or a frame that is refused is answered on the spot.            *)
ArriveFrame(r) ==
    /\ Arrives(r, {"socket"})
    /\ \/ ResponsesTasks(r)
       \/ Goto(r, "ended") /\ UNCHANGED <<handler, session, tasks, first, completed, calls, mapper, stored>>

(* Mutant of ArriveRouted: Started is spawned like the ingress does. *)
WrongArriveRouted(r) ==
    /\ Arrives(r, Routed)
    /\ Spawn(r, {<<E("started", r)>>, <<E("request", r)>>})
    /\ Goto(r, "waiting")
    /\ UNCHANGED <<handler, session, first, completed, calls, mapper, stored>>

(* SessionStoreRecordingProvider: both events are awaited before the call. *)
ArriveRouted(r) ==
    /\ Arrives(r, Routed)
    /\ Spawn(r, {<<E("started", r), E("request", r)>>})
    /\ Goto(r, "waiting")
    /\ UNCHANGED <<handler, session, first, completed, calls, mapper, stored>>

(* The provider is called. *)
Waiting(r) == phase[r] = "waiting" /\ (handler[r] \in Routed => tasks[r] = {})

-----------------------------------------------------------------------------
(* An answer that is no stream *)

Calls(r, b) == calls' = IF b THEN calls \cup {r} ELSE calls

(* send(): the response and the completion, awaited. *)
SendAnswered(r) ==
    /\ Waiting(r) /\ handler[r] = "send"
    /\ \E t \in Tokens, b \in BOOLEAN :
          /\ Spawn(r, {<<[E("response", r) EXCEPT !.tokens = t],
                         Done(r, TRUE, t, IF b THEN 1 ELSE 0, FALSE)>>})
          /\ Calls(r, b)
    /\ Goto(r, "ended")
    /\ UNCHANGED <<handler, session, first, completed, mapper, stored>>

(* messages and chat leave the answer to a parser; no completion follows.  *)
LeftToParser(r) ==
    /\ \E b \in BOOLEAN : Calls(r, b)
    /\ Goto(r, "parsing")
    /\ UNCHANGED <<handler, session, tasks, first, completed, mapper, stored>>

MessagesAnswered(r) == Waiting(r) /\ handler[r] = "messages" /\ LeftToParser(r)
ChatAnswered(r) == Waiting(r) /\ handler[r] = "chat" /\ LeftToParser(r)

ResponsesAnswered(r) ==
    /\ Waiting(r) /\ handler[r] = "responses"
    /\ \E t \in Tokens, b \in BOOLEAN :
          /\ Spawn(r, {<<Stats(r, t, 0)>>, <<Done(r, TRUE, t, 0, FALSE)>>})
          /\ Calls(r, b)
    /\ Goto(r, "ended")
    /\ UNCHANGED <<handler, session, first, completed, mapper, stored>>

(* The provider fails: a failed completion. *)
Failed(r) ==
    /\ Spawn(r, {<<Done(r, FALSE, 0, 0, FALSE)>>})
    /\ Goto(r, "ended")
    /\ UNCHANGED <<handler, session, first, completed, calls, mapper, stored>>

SendFails(r) == Waiting(r) /\ handler[r] = "send" /\ Failed(r)
RoutedStreamFails(r) == Waiting(r) /\ handler[r] = "stream" /\ Failed(r)
MessagesFails(r) == Waiting(r) /\ handler[r] = "messages" /\ Failed(r)
ChatFails(r) == Waiting(r) /\ handler[r] = "chat" /\ Failed(r)
ResponsesFails(r) == Waiting(r) /\ handler[r] = "responses" /\ Failed(r)
ResponsesStreamFails(r) == Waiting(r) /\ handler[r] \in {"responses_stream", "socket"} /\ Failed(r)

Unrecorded(r) ==
    /\ Goto(r, "ended")
    /\ UNCHANGED <<handler, session, tasks, first, completed, calls, mapper, stored>>

(* A request that goes to a provider of the other dialect returns early:   *)
(* neither its answer nor its failure is recorded.                         *)
CrossAnswered(r) == Waiting(r) /\ handler[r] = "messages_cross" /\ Unrecorded(r)

(* Nor is a messages or chat stream that cannot be opened. *)
PassthroughFails(r) ==
    Waiting(r) /\ handler[r] \in {"messages_stream", "chat_stream"} /\ Unrecorded(r)

(* The client is gone before the answer: the handler's future is dropped.  *)
Cancelled(r) == Waiting(r) /\ handler[r] # "messages_cross" /\ Unrecorded(r)

-----------------------------------------------------------------------------
(* Streams *)

Opens(r, handlers) ==
    /\ Waiting(r) /\ handler[r] \in handlers
    /\ Goto(r, "streaming")
    /\ UNCHANGED <<handler, session, tasks, first, completed, calls, mapper, stored>>

RoutedStreamOpens(r) == Opens(r, {"stream"})
MessagesStreamOpens(r) == Opens(r, {"messages_stream"})
ChatStreamOpens(r) == Opens(r, {"chat_stream"})
ResponsesStreamOpens(r) == Opens(r, {"responses_stream", "socket"})

Streaming(r, h) == phase[r] = "streaming" /\ handler[r] = h

(* mark_first_event spawns StreamStarted. *)
RoutedItem(r) ==
    /\ Streaming(r, "stream") /\ ~first[r] /\ ~completed[r]
    /\ first' = [first EXCEPT ![r] = TRUE]
    /\ Spawn(r, {<<E("first", r)>>})
    /\ UNCHANGED <<handler, session, phase, completed, calls, mapper, stored>>

(* The passthrough streams keep their items for the parser. *)
Collected(r) ==
    /\ ~first[r]
    /\ first' = [first EXCEPT ![r] = TRUE]
    /\ UNCHANGED <<handler, session, phase, tasks, completed, calls, mapper, stored>>

MessagesItem(r) == Streaming(r, "messages_stream") /\ Collected(r)
ChatItem(r) == Streaming(r, "chat_stream") /\ Collected(r)

(* Mutant of Complete: without the flag. *)
WrongComplete(r, ok, t) ==
    /\ Spawn(r, {<<Done(r, ok, t, 0, TRUE)>>})
    /\ completed' = completed

(* complete() spawns the completion once. *)
Complete(r, ok, t) ==
    IF completed[r] THEN UNCHANGED <<tasks, completed>>
    ELSE /\ Spawn(r, {<<Done(r, ok, t, 0, TRUE)>>})
         /\ completed' = [completed EXCEPT ![r] = TRUE]

(* poll_next sees the end or an error; the stream object lives on.         *)
StreamFinishes(r) ==
    /\ Streaming(r, "stream")
    /\ \E t \in Tokens, ok \in BOOLEAN : Complete(r, ok, t)
    /\ UNCHANGED <<handler, session, phase, first, calls, mapper, stored>>

(* Mutant of StreamDropped: no Drop implementation. *)
WrongStreamDropped(r) ==
    /\ Streaming(r, "stream")
    /\ Goto(r, "ended")
    /\ UNCHANGED <<handler, session, tasks, first, completed, calls, mapper, stored>>

(* Drop: a stream that is not complete was interrupted.                    *)
StreamDropped(r) ==
    /\ Streaming(r, "stream")
    /\ \E t \in Tokens : Complete(r, FALSE, t)
    /\ Goto(r, "ended")
    /\ UNCHANGED <<handler, session, first, calls, mapper, stored>>

(* The chained future of a messages or chat stream runs after its last     *)
(* item: StreamStarted if there was a first token (and it took a           *)
(* millisecond), Completed, and the parser if events were collected.       *)
PassthroughEnds(r) ==
    /\ \E ttft, b \in BOOLEAN :
          /\ ttft \/ b => first[r]
          /\ Spawn(r, (IF ttft THEN {<<E("first", r)>>} ELSE {})
                      \cup {<<Done(r, TRUE, 0, 0, TRUE)>>})
          /\ Calls(r, b)
    /\ Goto(r, IF first[r] THEN "parsing" ELSE "ended")
    /\ UNCHANGED <<handler, session, first, completed, mapper, stored>>

MessagesStreamEnds(r) == Streaming(r, "messages_stream") /\ PassthroughEnds(r)
ChatStreamEnds(r) == Streaming(r, "chat_stream") /\ PassthroughEnds(r)

(* responses_sse_stream: the first event with usage writes everything, one *)
(* after the other; the calls seen so far go into the mapper.              *)
UsageSeen(r) ==
    /\ Streaming(r, "responses_stream") \/ Streaming(r, "socket")
    /\ ~completed[r]
    /\ completed' = [completed EXCEPT ![r] = TRUE]
    /\ \E t \in Tokens \ {0}, b \in BOOLEAN :
          /\ Spawn(r, {<<Stats(r, t, 0)>> \o (IF b THEN <<ToolCall(r)>> ELSE << >>)
                       \o <<Done(r, TRUE, t, 0, FALSE)>>})
          /\ Calls(r, b)
          /\ mapper' = IF b THEN mapper \cup {r} ELSE mapper
    /\ UNCHANGED <<handler, session, phase, first, stored>>

(* The client is gone, or an error item makes the server drop the body; a  *)
(* responses stream just ends.                                             *)
StreamGone(r) ==
    /\ phase[r] = "streaming" /\ handler[r] \notin {"stream", "socket"}
    /\ Unrecorded(r)

(* A socket drops the stream at its first terminal event, at an error, or  *)
(* when sending fails, and then reads the next frame.                      *)
SocketTurnEnds(r) == Streaming(r, "socket") /\ Unrecorded(r)

-----------------------------------------------------------------------------
(* The background parsers: one task per tool call, one for the totals when *)
(* there are any.                                                          *)
Parses(r, h) ==
    /\ phase[r] = "parsing" /\ handler[r] = h
    /\ \E t \in Tokens :
          LET n == IF r \in calls THEN 1 ELSE 0 IN
          Spawn(r, (IF n > 0 THEN {<<ToolCall(r)>>} ELSE {})
                   \cup (IF t > 0 \/ n > 0 THEN {<<Stats(r, t, n)>>} ELSE {}))
    /\ Goto(r, "ended")
    /\ UNCHANGED <<handler, session, first, completed, calls, stored>>

TeachMapper(r) == mapper' = IF r \in calls THEN mapper \cup {r} ELSE mapper

(* Only the body of a messages answer does not teach the mapper its calls. *)
ParseMessagesBody(r) == Parses(r, "messages") /\ UNCHANGED mapper
ParseChatBody(r) == Parses(r, "chat") /\ TeachMapper(r)
ParseMessagesStream(r) == Parses(r, "messages_stream") /\ TeachMapper(r)
ParseChatStream(r) == Parses(r, "chat_stream") /\ TeachMapper(r)

-----------------------------------------------------------------------------
(* A task writes its next event.  A lookup may find the mapping expired.   *)
(* write_event says Ok whether or not the channel took it.                 *)
Names(e) ==
    IF e.kind = "tool" /\ e.result /\ handler[e.request] \notin Chat
    THEN {Unknown} \cup (IF e.call \in mapper THEN {Tool} ELSE {})
    ELSE {e.tool}

WriteEvent(r) ==
    \E t \in tasks[r] : \E name \in Names(Head(t)) :
        /\ tasks' = [tasks EXCEPT ![r] = (@ \ {t}) \cup ({Tail(t)} \ {<< >>})]
        /\ IF Len(queue) < ChannelSize
           THEN queue' = Append(queue, [Head(t) EXCEPT !.tool = name]) /\ UNCHANGED spoiled
           ELSE spoiled' = TRUE /\ UNCHANGED queue
        /\ UNCHANGED <<handler, session, phase, first, completed, calls, mapper, db>>

(* The worker hands the writer a batch.  A batch that fails is logged and  *)
(* gone.                                                                   *)
Commit ==
    \E n \in 1 .. BatchSize :
        /\ n <= Len(queue)
        /\ LET done == WriteBatch(db, SubSeq(queue, 1, n)) IN
           /\ db' = IF done.failed THEN db ELSE done.db
           /\ spoiled' = (spoiled \/ done.failed)
        /\ queue' = SubSeq(queue, n + 1, Len(queue))
        /\ UNCHANGED <<handler, session, phase, tasks, first, completed, calls, mapper>>

Arrive(r) ==
    \/ ArriveMessages(r) \/ ArriveChat(r) \/ ArriveRouted(r)
    \/ ArriveResponses(r) \/ ArriveResponsesStream(r) \/ ArriveFrame(r)

Answer(r) ==
    \/ SendAnswered(r) \/ MessagesAnswered(r) \/ ChatAnswered(r) \/ ResponsesAnswered(r)
    \/ SendFails(r) \/ RoutedStreamFails(r) \/ MessagesFails(r) \/ ChatFails(r)
    \/ ResponsesFails(r) \/ ResponsesStreamFails(r)
    \/ CrossAnswered(r) \/ PassthroughFails(r) \/ Cancelled(r)

StreamStep(r) ==
    \/ RoutedStreamOpens(r) \/ MessagesStreamOpens(r) \/ ChatStreamOpens(r)
    \/ ResponsesStreamOpens(r)
    \/ RoutedItem(r) \/ MessagesItem(r) \/ ChatItem(r)
    \/ StreamFinishes(r) \/ StreamDropped(r)
    \/ MessagesStreamEnds(r) \/ ChatStreamEnds(r) \/ UsageSeen(r)
    \/ StreamGone(r) \/ SocketTurnEnds(r)

Parse(r) ==
    \/ ParseMessagesBody(r) \/ ParseChatBody(r)
    \/ ParseMessagesStream(r) \/ ParseChatStream(r)

Next ==
    \/ \E r \in Requests : Arrive(r) \/ Answer(r) \/ StreamStep(r) \/ Parse(r) \/ WriteEvent(r)
    \/ Commit

Spec == Init /\ [][Next]_vars

(* Spawned tasks run, the worker writes what it has, and whoever holds a   *)
(* stream drops it some time.                                              *)
FairSpec ==
    /\ Spec
    /\ \A r \in Requests : WF_vars(WriteEvent(r)) /\ WF_vars(StreamDropped(r))
    /\ WF_vars(Commit)

-----------------------------------------------------------------------------
(* tool_stats and tool_call_executions are written by several events, in   *)
(* any order and under retried ids: the aggregate never counts fewer calls *)
(* of a tool than there are executions under its name.                     *)
CountsCoverExecutions ==
    \A r \in Requests, t \in {Tool, Unknown} :
        db.counts[<<r, t>>] >= Cardinality({c \in Requests : db.execs[<<r, c>>] = t})

(* session_stats and stream_metrics have no unique index: only the         *)
(* handlers, which end in many ways (end, error, drop, usage seen twice),  *)
(* keep a request from being counted twice.                                *)
OneRowPerRequest ==
    \A r \in Requests : db.stats[r] <= 1 /\ db.streams[r] <= 1

(* A request of the recording provider cannot break anybody's batch: as    *)
(* long as nothing was dropped or rolled back, the row of its session is   *)
(* stored or on its way before all its other events, whatever order the    *)
(* tasks of its stream run in.                                             *)
StartedLeads ==
    \A r \in Requests : handler[r] \in Routed /\ ~spoiled =>
        \A i \in 1 .. Len(queue) :
            queue[i].request = r /\ queue[i].kind # "started" =>
                \/ db.rows[session[r]].there
                \/ \E j \in 1 .. i : queue[j] = E("started", r)

(* The tokens of a session, which several requests and several events of   *)
(* one request report in any order, never go down.                         *)
TokensNeverShrink ==
    [][\A s \in Sessions : db'.rows[s].tokens >= db.rows[s].tokens]_vars

(* A stream the recording provider handed out gets an outcome in its       *)
(* session's row, also when the client drops it before the first item,     *)
(* unless the recorder lost events.                                        *)
RoutedEnds ==
    \A r \in Requests :
        phase[r] = "streaming" /\ handler[r] = "stream"
            ~> db.rows[session[r]].outcome # "none" \/ spoiled
=============================================================================
