----------------------- MODULE SessionRecordingProofs -----------------------
(***************************************************************************)
(* Proofs about SessionRecording, for any requests, sessions, handlers,    *)
(* channel and batch sizes, and any order of the spawned tasks.            *)
(***************************************************************************)
EXTENDS SessionRecording, DataLemmas

-----------------------------------------------------------------------------
(* Types *)

Phases == {"new", "waiting", "parsing", "streaming", "ended"}
Kinds == {"started", "first", "request", "response", "tool", "stats", "completed"}
Tools == {Tool, Unknown}

Event == [kind : Kinds, session : Sessions, request : Requests, call : Requests,
          tool : Tools, result : BOOLEAN, tokens : Nat, calls : Nat,
          ok : BOOLEAN, streamed : BOOLEAN]

Row == [there : BOOLEAN, outcome : {"none", "success", "error"}, tokens : Nat]

Tables ==
    [rows    : [Sessions -> Row],
     counts  : [Requests \X Tools -> Nat],
     execs   : [Requests \X Requests -> Tools \cup {NoExecution}],
     stats   : [Requests -> Nat],
     streams : [Requests -> Nat]]

(* An event carries the session of its request; only send() records a      *)
(* response, counts calls in its completion, and executes no tool.         *)
Proper(e) ==
    /\ e.session = session[e.request]
    /\ e.kind = "response" => handler[e.request] = "send"
    /\ e.kind = "completed" /\ e.calls > 0 => handler[e.request] = "send"
    /\ e.kind = "tool" => handler[e.request] # "send"

Recorded == {e \in Event : Proper(e)}
EventsOf(r) == {e \in Recorded : e.request = r}

TypeInv ==
    /\ handler \in [Requests -> Handlers]
    /\ session \in [Requests -> Sessions]
    /\ phase \in [Requests -> Phases]
    /\ tasks = [r \in Requests |-> tasks[r]]
    /\ \A r \in Requests : tasks[r] \subseteq Seq(EventsOf(r)) \ {<< >>}
    /\ first \in [Requests -> BOOLEAN]
    /\ completed \in [Requests -> BOOLEAN]
    /\ calls \subseteq Requests
    /\ mapper \subseteq Requests
    /\ queue \in Seq(Recorded)
    /\ db \in Tables
    /\ spoiled \in BOOLEAN

(* A routed request shares its session with no other request.              *)
RoutedApart ==
    \A r \in Requests : handler[r] \in Routed =>
        \A q \in Requests \ {r} : session[q] # session[r]

(* Tables a writer can leave: a row that is not there holds no tokens, a   *)
(* request of send() has no executions, and the counts cover the others.   *)
Sound(d) ==
    /\ d \in Tables
    /\ \A s \in Sessions : ~d.rows[s].there => d.rows[s].tokens = 0
    /\ \A r \in Requests : handler[r] = "send" =>
           \A c \in Requests : d.execs[<<r, c>>] = NoExecution
    /\ \A r \in Requests, t \in Tools :
           d.counts[<<r, t>>] >= Cardinality({c \in Requests : d.execs[<<r, c>>] = t})

TablesInv == Sound(db)

-----------------------------------------------------------------------------
(* Rows without a unique index: where the next one of a request may come   *)
(* from.                                                                   *)

RowKinds == {"stats", "streams"}

Records(k, e) ==
    \/ k = "stats" /\ e.kind \in {"response", "stats"}
    \/ k = "streams" /\ e.kind = "completed" /\ e.streamed

RowsIn(k, d, r) == IF k = "stats" THEN d.stats[r] ELSE d.streams[r]
RowsOf(k, r) == RowsIn(k, db, r)

(* Some event of a set of tasks, at most one, or one of the channel.       *)
Has(k, T) == \E t \in T : \E i \in 1 .. Len(t) : Records(k, t[i])
Single(k, T) ==
    \A t, u \in T : \A i \in 1 .. Len(t), j \in 1 .. Len(u) :
        Records(k, t[i]) /\ Records(k, u[j]) => t = u /\ i = j
First(k, T) ==
    \A t \in T : \A i \in 1 .. Len(t) : Records(k, t[i]) => T = {t} /\ i = 1
Queued(k, r) == {i \in 1 .. Len(queue) : queue[i].request = r /\ Records(k, queue[i])}

(* The handler has yet to spawn the event. *)
MayYet(k, r) ==
    /\ ~completed[r]
    /\ phase[r] \in {"new", "waiting", "streaming"} \cup (IF k = "stats" THEN {"parsing"} ELSE {})

(* There is one source at a time: the handler, one task, one event on its  *)
(* way, or the row itself.                                                 *)
Once(k, r) ==
    /\ RowsOf(k, r) <= 1
    /\ Single(k, tasks[r])
    /\ \A i, j \in Queued(k, r) : i = j
    /\ MayYet(k, r) => ~Has(k, tasks[r])
    /\ MayYet(k, r) \/ Has(k, tasks[r]) => Queued(k, r) = {} /\ RowsOf(k, r) = 0
    /\ Queued(k, r) # {} => RowsOf(k, r) = 0

Finishers == {"stream", "responses_stream", "socket"}

OnceInv ==
    /\ \A r \in Requests :
          completed[r] => handler[r] \in Finishers /\ phase[r] \in {"streaming", "ended"}
    /\ \A k \in RowKinds, r \in Requests : Once(k, r)

-----------------------------------------------------------------------------
(* The first events of the recording provider, awaited one by one.         *)

Opening(r) == <<E("started", r), E("request", r)>>

Unheard(r) == \A i \in 1 .. Len(queue) : queue[i].request # r

(* The row of the session is stored, or its Started is on its way by place *)
(* i of the channel.                                                       *)
Led(r, i) ==
    \/ db.rows[session[r]].there
    \/ \E j \in 1 .. i : queue[j] = E("started", r)

LeadInv ==
    \A r \in Requests : handler[r] \in Routed =>
        /\ phase[r] = "new" => tasks[r] = {}
        /\ \A t \in tasks[r] : \A i \in 2 .. Len(t) : t[i].kind # "started"
        /\ phase[r] = "new" \/ Opening(r) \in tasks[r] => Unheard(r)
        /\ Opening(r) \in tasks[r] => tasks[r] = {Opening(r)} /\ phase[r] = "waiting"
        /\ ~spoiled /\ phase[r] # "new" /\ Opening(r) \notin tasks[r] => Led(r, Len(queue))

-----------------------------------------------------------------------------
(* Tokens: a response sets them, so it must come before whatever else      *)
(* reports some.                                                           *)

Silent(r, i) ==
    /\ db.rows[session[r]].tokens = 0
    /\ \A j \in 1 .. i : queue[j].request = r => queue[j].tokens = 0

ResponseInv ==
    \A r \in Requests : handler[r] = "send" =>
        /\ phase[r] # "ended" \/ Has("stats", tasks[r]) => Silent(r, Len(queue))
        /\ phase[r] # "ended" => \A t \in tasks[r] : \A j \in 1 .. Len(t) : t[j].tokens = 0
        /\ First("stats", tasks[r])
        /\ \A i \in Queued("stats", r) : Silent(r, i - 1)

RecordingInv ==
    /\ TypeInv /\ RoutedApart /\ TablesInv
    /\ OnceInv
    /\ LeadInv /\ StartedLeads
    /\ ResponseInv

-----------------------------------------------------------------------------
(* What a step of a handler or of its parser does to the rest: it spawns   *)
(* the tasks `new' of request r, and leaves the channel and the tables.    *)

Spawns(r, new) ==
    /\ new \subseteq Seq(EventsOf(r)) \ {<< >>}
    /\ tasks' = [tasks EXCEPT ![r] = @ \cup new]
    /\ \E p \in Phases \ {"new"} : phase' = [phase EXCEPT ![r] = p]
    /\ \E c \in BOOLEAN : completed' = [completed EXCEPT ![r] = c]
    /\ completed'[r] => handler[r] \in Finishers /\ phase'[r] \in {"streaming", "ended"}
    /\ first' \in [Requests -> BOOLEAN]
    /\ calls' \subseteq Requests /\ mapper' \subseteq Requests
    /\ UNCHANGED <<handler, session, queue, db, spoiled>>

(* Of each kind of row it spawns one event at most, its last.              *)
SpawnsOnce(r, new) ==
    \A k \in RowKinds :
        /\ Single(k, new)
        /\ Has(k, new) => MayYet(k, r) /\ ~MayYet(k, r)'
        /\ MayYet(k, r)' => MayYet(k, r)

(* The recording provider spawns its opening, and nothing while that has   *)
(* not been written.                                                       *)
SpawnsLed(r, new) ==
    handler[r] \in Routed =>
        \/ phase[r] = "new" /\ phase'[r] = "waiting" /\ new = {Opening(r)} /\ tasks[r] = {}
        \/ /\ phase[r] # "new" /\ Opening(r) \notin tasks[r]
           /\ \A t \in new : \A i \in 1 .. Len(t) : t[i].kind # "started"

SpawnsQuietly(r, new) ==
    handler[r] = "send" =>
        /\ phase[r] # "ended"
        /\ phase'[r] # "ended" => \A t \in new : \A i \in 1 .. Len(t) : t[i].tokens = 0
        /\ First("stats", new) /\ (Has("stats", new) => tasks[r] = {})

HandlerStep(r) ==
    \E new : /\ Spawns(r, new)
             /\ SpawnsOnce(r, new) /\ SpawnsLed(r, new) /\ SpawnsQuietly(r, new)

LEMMA RequestsFinite == IsFiniteSet(Requests)
BY RecordingAssumption

LEMMA Constructed ==
    ASSUME TypeInv, NEW r \in Requests
    PROVE  /\ \A kind \in {"started", "first", "request"} :
                 E(kind, r) \in EventsOf(r) /\ E(kind, r).kind = kind /\ E(kind, r).tokens = 0
           /\ handler[r] # "send" => \A q \in Requests :
                 /\ ToolResult(r, q) \in EventsOf(r) /\ ToolResult(r, q).kind = "tool"
                 /\ [ToolCall(r) EXCEPT !.call = q] \in EventsOf(r)
                 /\ [ToolCall(r) EXCEPT !.call = q].kind = "tool"
           /\ handler[r] # "send" => ToolCall(r) \in EventsOf(r) /\ ToolCall(r).kind = "tool"
<1> USE DEF E, Blank, EventsOf, Recorded, Proper, Event, Kinds, Tools, TypeInv
<1>1. \A kind \in {"started", "first", "request"} :
        E(kind, r) \in EventsOf(r) /\ E(kind, r).kind = kind /\ E(kind, r).tokens = 0
  OBVIOUS
<1>2. ASSUME handler[r] # "send", NEW q \in Requests
      PROVE  /\ ToolResult(r, q) \in EventsOf(r) /\ ToolResult(r, q).kind = "tool"
             /\ [ToolCall(r) EXCEPT !.call = q] \in EventsOf(r)
             /\ [ToolCall(r) EXCEPT !.call = q].kind = "tool"
  BY <1>2 DEF ToolResult, ToolCall
<1>3. handler[r] # "send" => ToolCall(r) \in EventsOf(r) /\ ToolCall(r).kind = "tool"
  BY DEF ToolCall
<1> HIDE DEF E, EventsOf
<1> QED
  BY <1>1, <1>2, <1>3

LEMMA ResponseIs ==
    ASSUME TypeInv, NEW r \in Requests, handler[r] = "send", NEW t \in Nat
    PROVE  /\ [E("response", r) EXCEPT !.tokens = t] \in EventsOf(r)
           /\ [E("response", r) EXCEPT !.tokens = t].kind = "response"
BY DEF E, Blank, EventsOf, Recorded, Proper, Event, Kinds, Tools, TypeInv

LEMMA StatsIs ==
    ASSUME TypeInv, NEW r \in Requests, NEW t \in Nat, NEW n \in Nat
    PROVE  Stats(r, t, n) \in EventsOf(r) /\ Stats(r, t, n).kind = "stats"
BY DEF Stats, E, Blank, EventsOf, Recorded, Proper, Event, Kinds, Tools, TypeInv

LEMMA DoneIs ==
    ASSUME TypeInv, NEW r \in Requests, NEW ok \in BOOLEAN, NEW t \in Nat, NEW n \in Nat,
           NEW streamed \in BOOLEAN, n = 0 \/ handler[r] = "send"
    PROVE  /\ Done(r, ok, t, n, streamed) \in EventsOf(r)
           /\ Done(r, ok, t, n, streamed).kind = "completed"
           /\ Done(r, ok, t, n, streamed).streamed = streamed
<1> USE DEF E, Blank, EventsOf, Recorded, Proper, Event, Kinds, Tools, TypeInv
<1> DEFINE e == Done(r, ok, t, n, streamed)
<1>1. /\ e.kind = "completed" /\ e.session = session[r] /\ e.request = r
      /\ e.tokens = t /\ e.calls = n /\ e.streamed = streamed
  BY DEF Done
<1>2. e \in [kind : {"completed"}, session : {session[r]}, request : {r}, call : {r},
             tool : {Unknown}, result : BOOLEAN, tokens : {t}, calls : {n},
             ok : BOOLEAN, streamed : BOOLEAN]
  BY DEF Done
<1> HIDE DEF e
<1>3. e \in EventsOf(r)
  BY <1>1, <1>2
<1> QED
  BY <1>1, <1>3 DEF e

LEMMA OneEvent ==
    ASSUME NEW S, NEW e \in S
    PROVE  /\ <<e>> \in Seq(S) \ {<< >>} /\ Len(<<e>>) = 1
           /\ \A i \in 1 .. Len(<<e>>) : i = 1 /\ <<e>>[i] = e
OBVIOUS

(* The results a client can send are tool events.                          *)
LEMMA ResultsAreTools ==
    ASSUME TypeInv, NEW r \in Requests, handler[r] # "send", NEW results \in Sequences(r)
    PROVE  results \in Seq(EventsOf(r)) /\ \A i \in 1 .. Len(results) : results[i].kind = "tool"
<1>1. PICK S \in SUBSET Answered(r) : results \in SetToSeqs({ToolResult(r, q) : q \in S})
  BY DEF Sequences
<1> DEFINE T == {ToolResult(r, q) : q \in S}
<1>2. S \subseteq Requests
  BY DEF TypeInv, Answered
<1>3. IsFiniteSet(T)
  <2>1. IsFiniteSet(S)
    BY <1>2, RecordingAssumption, FS_Subset
  <2> DEFINE f == [q \in S |-> ToolResult(r, q)]
  <2>2. f \in Surjection(S, T)
    BY DEF Surjection
  <2> HIDE DEF f, T
  <2> QED
    BY <2>1, <2>2, FS_Surjection
<1>4. Cardinality(T) \in Nat
  BY <1>3, FS_CardinalityType
<1>5. \A e \in T : e \in EventsOf(r) /\ e.kind = "tool"
  <2>1. \A q \in S : ToolResult(r, q) \in EventsOf(r) /\ ToolResult(r, q).kind = "tool"
    <3>1. \A q \in Requests : ToolResult(r, q) \in EventsOf(r) /\ ToolResult(r, q).kind = "tool"
      BY Constructed
    <3> QED
      BY <1>2, <3>1
  <2> QED
    BY <2>1
<1>6. results \in [1 .. Cardinality(T) -> T]
  BY <1>1 DEF SetToSeqs
<1> HIDE DEF T
<1>7. Len(results) = Cardinality(T)
  BY <1>4, <1>6
<1>8. \A i \in 1 .. Len(results) : results[i] \in T
  BY <1>6, <1>7
<1>9. results \in Seq(EventsOf(r))
  BY <1>4, <1>5, <1>6
<1> QED
  BY <1>5, <1>8, <1>9

-----------------------------------------------------------------------------
(* Every action of a handler is a HandlerStep.                             *)

(* A step that spawns nothing.                                             *)
LEMMA IdleStep ==
    ASSUME RecordingInv, NEW r \in Requests, NEW p \in Phases \ {"new"},
           phase' = [phase EXCEPT ![r] = p],
           phase[r] \in {"new", "waiting", "streaming"} \/ p = "ended",
           completed[r] => p \in {"streaming", "ended"},
           UNCHANGED <<handler, session, tasks, completed, stored>>,
           first' \in [Requests -> BOOLEAN], calls' \subseteq Requests, mapper' \subseteq Requests,
           handler[r] = "send" => phase[r] # "ended",
           handler[r] \in Routed => phase[r] # "new" /\ Opening(r) \notin tasks[r]
    PROVE  HandlerStep(r)
<1>1. Spawns(r, {})
  <2>1. completed' = [completed EXCEPT ![r] = completed[r]] /\ completed[r] \in BOOLEAN
    BY DEF RecordingInv, TypeInv, OnceInv
  <2>2. tasks' = [tasks EXCEPT ![r] = @ \cup {}]
    BY DEF RecordingInv, TypeInv, stored
  <2> QED
    BY <2>1, <2>2 DEF Spawns, stored, RecordingInv, TypeInv, OnceInv
<1>2. SpawnsOnce(r, {})
  BY DEF SpawnsOnce, Single, Has, MayYet, RowKinds, RecordingInv, TypeInv, Phases
<1>3. SpawnsLed(r, {})
  BY DEF SpawnsLed
<1>4. SpawnsQuietly(r, {})
  BY DEF SpawnsQuietly, First, Has
<1> QED
  BY <1>1, <1>2, <1>3, <1>4 DEF HandlerStep

(* The arrival of a request.                                               *)
LEMMA ArrivalStep ==
    ASSUME RecordingInv, NEW r \in Requests, NEW new, phase[r] = "new",
           Spawn(r, new), Goto(r, "waiting"), mapper' \subseteq Requests,
           UNCHANGED <<handler, session, first, completed, calls, stored>>,
           new \subseteq Seq(EventsOf(r)) \ {<< >>},
           \A t \in new : \A i \in 1 .. Len(t) : t[i].kind \in {"started", "request", "tool"},
           handler[r] \in Routed => new = {Opening(r)}
    PROVE  HandlerStep(r)
<1>1. Spawns(r, new)
  <2>1. completed' = [completed EXCEPT ![r] = completed[r]] /\ completed[r] \in BOOLEAN
    BY DEF RecordingInv, TypeInv
  <2> QED
    BY <2>1 DEF Spawns, Spawn, Goto, Phases, RecordingInv, TypeInv, OnceInv, stored
<1>2. SpawnsOnce(r, new)
  <2>1. \A k : ~Has(k, new) /\ Single(k, new)
    BY DEF Has, Single, Records
  <2> QED
    BY <2>1 DEF SpawnsOnce, MayYet, RowKinds, Goto, RecordingInv, TypeInv
<1>3. SpawnsLed(r, new)
  BY DEF SpawnsLed, RecordingInv, LeadInv, Goto, TypeInv
<1>4. SpawnsQuietly(r, new)
  <2>1. ~Has("stats", new) /\ First("stats", new)
    BY DEF Has, First, Records
  <2>2. handler[r] = "send" => \A t \in new : \A i \in 1 .. Len(t) : t[i].tokens = 0
    BY Constructed DEF Opening, Routed, RecordingInv
  <2> QED
    BY <2>1, <2>2 DEF SpawnsQuietly
<1> QED
  BY <1>1, <1>2, <1>3, <1>4 DEF HandlerStep

LEMMA MessagesArrival ==
    ASSUME RecordingInv, NEW r \in Requests, ArriveMessages(r) PROVE HandlerStep(r)
<1>1. PICK results \in Sequences(r) :
        Spawn(r, {<<E("started", r)>>, <<E("request", r)>>} \cup ({results} \ {<< >>}))
  BY DEF ArriveMessages
<1>2. handler[r] \in Messages /\ phase[r] = "new"
  BY DEF ArriveMessages, Arrives
<1>3. handler[r] # "send" /\ handler[r] \notin Routed
  BY <1>2 DEF Messages, Routed
<1>4. results \in Seq(EventsOf(r)) /\ \A i \in 1 .. Len(results) : results[i].kind = "tool"
  BY <1>3, ResultsAreTools DEF RecordingInv
<1> DEFINE new == {<<E("started", r)>>, <<E("request", r)>>} \cup ({results} \ {<< >>})
<1>5. /\ E("started", r) \in EventsOf(r) /\ E("started", r).kind = "started"
      /\ E("request", r) \in EventsOf(r) /\ E("request", r).kind = "request"
  BY Constructed DEF RecordingInv
<1>6. new \subseteq Seq(EventsOf(r)) \ {<< >>}
  <2>1. <<E("started", r)>> \in Seq(EventsOf(r)) \ {<< >>}
    BY <1>5, OneEvent
  <2>2. <<E("request", r)>> \in Seq(EventsOf(r)) \ {<< >>}
    BY <1>5, OneEvent
  <2> QED
    BY <1>4, <2>1, <2>2
<1>7. \A t \in new : \A i \in 1 .. Len(t) : t[i].kind \in {"started", "request", "tool"}
  BY <1>4, <1>5
<1> HIDE DEF new
<1> QED
  BY <1>1, <1>2, <1>3, <1>6, <1>7, ArrivalStep DEF ArriveMessages, RecordingInv, TypeInv, new

LEMMA ChatArrival ==
    ASSUME RecordingInv, NEW r \in Requests, ArriveChat(r) PROVE HandlerStep(r)
<1>1. PICK sent \in SUBSET Answered(r), items \in BOOLEAN, live \in SUBSET mapper :
        LET history == History(r, sent, items, live) IN
        /\ mapper' = mapper \cup history.known
        /\ Spawn(r, {<<e>> : e \in {E("started", r), E("request", r)} \cup history.events})
  BY DEF ArriveChat
<1>2. handler[r] \in Chat /\ phase[r] = "new"
  BY DEF ArriveChat, Arrives
<1>3. handler[r] # "send" /\ handler[r] \notin Routed
  BY <1>2 DEF Chat, Routed
<1> DEFINE history == History(r, sent, items, live)
           told == {E("started", r), E("request", r)} \cup history.events
           new == {<<e>> : e \in told}
<1>4. sent \subseteq Requests /\ live \subseteq Requests
  BY DEF Answered, RecordingInv, TypeInv
<1>5. history.known \subseteq Requests
  BY <1>4 DEF History
<1>6. \A e \in history.events : e \in EventsOf(r) /\ e.kind = "tool"
  <2>1. \A q \in Requests :
          /\ ToolResult(r, q) \in EventsOf(r) /\ ToolResult(r, q).kind = "tool"
          /\ [ToolCall(r) EXCEPT !.call = q] \in EventsOf(r)
          /\ [ToolCall(r) EXCEPT !.call = q].kind = "tool"
    BY <1>3, Constructed DEF RecordingInv
  <2>2. ASSUME NEW e \in history.events
        PROVE  \E q \in sent : e = ToolResult(r, q) \/ e = [ToolCall(r) EXCEPT !.call = q]
    BY <2>2 DEF History
  <2> QED
    BY <1>4, <2>1, <2>2
<1>7. /\ E("started", r) \in EventsOf(r) /\ E("started", r).kind = "started"
      /\ E("request", r) \in EventsOf(r) /\ E("request", r).kind = "request"
  BY Constructed DEF RecordingInv
<1> HIDE DEF history
<1>8. \A e \in told : e \in EventsOf(r) /\ e.kind \in {"started", "request", "tool"}
  BY <1>6, <1>7
<1> HIDE DEF told
<1>9. /\ new \subseteq Seq(EventsOf(r)) \ {<< >>}
      /\ \A t \in new : \A i \in 1 .. Len(t) : t[i].kind \in {"started", "request", "tool"}
  <2>1. \A e \in told : <<e>> \in Seq(EventsOf(r)) \ {<< >>}
    BY <1>8, OneEvent
  <2>2. ASSUME NEW e \in told, NEW i \in 1 .. Len(<<e>>)
        PROVE  <<e>>[i].kind \in {"started", "request", "tool"}
    BY <1>8, OneEvent
  <2> QED
    BY <2>1, <2>2
<1>10. Spawn(r, new) /\ mapper' \subseteq Requests
  BY <1>1, <1>5 DEF history, told, RecordingInv, TypeInv
<1> HIDE DEF new
<1> QED
  BY <1>2, <1>3, <1>9, <1>10, ArrivalStep DEF ArriveChat

LEMMA ResponsesArrival ==
    ASSUME RecordingInv, NEW r \in Requests, phase[r] = "new",
           handler[r] \in {"responses", "responses_stream", "socket"}, ResponsesTasks(r)
    PROVE  HandlerStep(r)
<1>1. PICK results \in Sequences(r) :
        Spawn(r, {<<E("started", r)>>, <<E("request", r)>> \o results})
  BY DEF ResponsesTasks
<1>2. handler[r] # "send" /\ handler[r] \notin Routed
  BY DEF Routed
<1>3. results \in Seq(EventsOf(r)) /\ \A i \in 1 .. Len(results) : results[i].kind = "tool"
  BY <1>2, ResultsAreTools DEF RecordingInv
<1> DEFINE both == <<E("request", r)>> \o results
           new == {<<E("started", r)>>, both}
<1>4. /\ E("started", r) \in EventsOf(r) /\ E("started", r).kind = "started"
      /\ E("request", r) \in EventsOf(r) /\ E("request", r).kind = "request"
  BY Constructed DEF RecordingInv
<1>5. /\ both \in Seq(EventsOf(r)) /\ both # << >>
      /\ \A i \in 1 .. Len(both) : both[i].kind \in {"request", "tool"}
  BY <1>3, <1>4
<1> HIDE DEF both
<1>6. /\ new \subseteq Seq(EventsOf(r)) \ {<< >>}
      /\ \A t \in new : \A i \in 1 .. Len(t) : t[i].kind \in {"started", "request", "tool"}
  BY <1>4, <1>5
<1>7. Spawn(r, new)
  BY <1>1 DEF both
<1> HIDE DEF new
<1> QED
  BY <1>2, <1>6, <1>7, ArrivalStep DEF ResponsesTasks, RecordingInv, TypeInv

LEMMA ArriveStep ==
    ASSUME RecordingInv, NEW r \in Requests, Arrive(r) PROVE HandlerStep(r)
<1>1. CASE ArriveMessages(r)
  BY <1>1, MessagesArrival
<1>2. CASE ArriveChat(r)
  BY <1>2, ChatArrival
<1>3. CASE ArriveRouted(r)
  <2>1. /\ E("started", r) \in EventsOf(r) /\ E("started", r).kind = "started"
        /\ E("request", r) \in EventsOf(r) /\ E("request", r).kind = "request"
    BY Constructed DEF RecordingInv
  <2>2. /\ {Opening(r)} \subseteq Seq(EventsOf(r)) \ {<< >>}
        /\ \A t \in {Opening(r)} : \A i \in 1 .. Len(t) :
              t[i].kind \in {"started", "request", "tool"}
    BY <2>1 DEF Opening
  <2>3. Spawn(r, {Opening(r)})
    BY <1>3 DEF ArriveRouted, Opening
  <2>4. /\ phase[r] = "new" /\ Goto(r, "waiting") /\ mapper' \subseteq Requests
        /\ UNCHANGED <<handler, session, first, completed, calls, stored>>
    BY <1>3 DEF ArriveRouted, Arrives, RecordingInv, TypeInv
  <2> QED
    BY <2>2, <2>3, <2>4, ArrivalStep
<1>4. CASE \/ ArriveResponses(r) \/ ArriveResponsesStream(r)
           \/ Arrives(r, {"socket"}) /\ ResponsesTasks(r)
  BY <1>4, ResponsesArrival DEF ArriveResponses, ArriveResponsesStream, Arrives
<1>5. CASE /\ Arrives(r, {"socket"}) /\ Goto(r, "ended")
           /\ UNCHANGED <<handler, session, tasks, first, completed, calls, mapper, stored>>
  BY <1>5, IdleStep DEF Arrives, Goto, Phases, Routed, RecordingInv, TypeInv
<1> QED
  BY <1>1, <1>2, <1>3, <1>4, <1>5 DEF Arrive, ArriveFrame

(* A step that spawns what a handler or its parser has to say.             *)
LEMMA SpawningStep ==
    ASSUME RecordingInv, NEW r \in Requests, NEW new, NEW p \in Phases \ {"new"}, NEW c \in BOOLEAN,
           Spawn(r, new),
           phase' = [phase EXCEPT ![r] = p], completed' = [completed EXCEPT ![r] = c],
           UNCHANGED <<handler, session, stored>>,
           first' \in [Requests -> BOOLEAN], calls' \subseteq Requests, mapper' \subseteq Requests,
           new \subseteq Seq(EventsOf(r)) \ {<< >>},
           \A t \in new : \A i \in 1 .. Len(t) : t[i].kind # "started",
           phase[r] \in {"waiting", "streaming", "parsing"},
           handler[r] \in Routed => Opening(r) \notin tasks[r],
           completed[r] => c,
           c => handler[r] \in Finishers /\ p \in {"streaming", "ended"},
           \/ p \in {"ended", phase[r]}
           \/ p = "parsing" /\ phase[r] = "streaming",
           \A k \in RowKinds : Single(k, new),
           Has("stats", new) => ~completed[r] /\ (c \/ p = "ended"),
           Has("streams", new) =>
               ~completed[r] /\ phase[r] # "parsing" /\ (c \/ p \in {"ended", "parsing"}),
           handler[r] = "send" => p = "ended" /\ tasks[r] = {} /\ First("stats", new)
    PROVE  HandlerStep(r)
<1> USE DEF RecordingInv, TypeInv
<1>1. Spawns(r, new)
  BY DEF Spawns, Spawn, stored
<1>2. SpawnsOnce(r, new)
  BY DEF SpawnsOnce, MayYet, RowKinds, Phases
<1>3. SpawnsLed(r, new)
  BY DEF SpawnsLed
<1>4. SpawnsQuietly(r, new)
  BY DEF SpawnsQuietly
<1> QED
  BY <1>1, <1>2, <1>3, <1>4 DEF HandlerStep

(* Nothing but the opening is awaited before the provider is called.       *)
LEMMA OpeningIsOver ==
    ASSUME RecordingInv, NEW r \in Requests,
           Waiting(r) \/ phase[r] \in {"streaming", "parsing"}
    PROVE  /\ phase[r] # "new"
           /\ handler[r] \in Routed => Opening(r) \notin tasks[r]
           /\ phase[r] # "streaming" => ~completed[r]
           /\ handler[r] = "send" /\ phase[r] = "waiting" => tasks[r] = {}
BY DEF Waiting, RecordingInv, LeadInv, OnceInv, Routed

LEMMA AnswerStep ==
    ASSUME RecordingInv, NEW r \in Requests, Answer(r) PROVE HandlerStep(r)
<1>1. Waiting(r) /\ phase[r] = "waiting"
  BY DEF Answer, SendAnswered, MessagesAnswered, ChatAnswered, ResponsesAnswered,
         SendFails, RoutedStreamFails, MessagesFails, ChatFails, ResponsesFails,
         ResponsesStreamFails, CrossAnswered, PassthroughFails, Cancelled, Waiting
<1>2. /\ handler[r] \in Routed => Opening(r) \notin tasks[r]
      /\ ~completed[r]
      /\ handler[r] = "send" => tasks[r] = {}
  BY <1>1, OpeningIsOver
<1>3. CASE SendAnswered(r)
  <2>1. PICK t \in Tokens, b \in BOOLEAN :
          /\ Spawn(r, {<<[E("response", r) EXCEPT !.tokens = t],
                         Done(r, TRUE, t, IF b THEN 1 ELSE 0, FALSE)>>})
          /\ Calls(r, b)
    BY <1>3 DEF SendAnswered
  <2> DEFINE a == [E("response", r) EXCEPT !.tokens = t]
             d == Done(r, TRUE, t, IF b THEN 1 ELSE 0, FALSE)
  <2>2. handler[r] = "send" /\ t \in Nat
    BY <1>3, RecordingAssumption DEF SendAnswered
  <2>3. /\ a \in EventsOf(r) /\ a.kind = "response"
        /\ d \in EventsOf(r) /\ d.kind = "completed" /\ d.streamed = FALSE
    <3>1. a \in EventsOf(r) /\ a.kind = "response"
      BY <2>2, ResponseIs DEF RecordingInv
    <3>2. d \in EventsOf(r) /\ d.kind = "completed" /\ d.streamed = FALSE
      <4>1. (IF b THEN 1 ELSE 0) \in Nat
        OBVIOUS
      <4> QED
        BY <2>2, <4>1, DoneIs DEF RecordingInv
    <3> QED
      BY <3>1, <3>2
  <2> HIDE DEF a, d
  <2> DEFINE new == {<<a, d>>}
  <2>4. /\ new \subseteq Seq(EventsOf(r)) \ {<< >>}
        /\ \A u \in new : \A i \in 1 .. Len(u) : u[i].kind # "started"
    BY <2>3
  <2>5. (\A k \in RowKinds : Single(k, new)) /\ ~Has("streams", new) /\ First("stats", new)
    BY <2>3 DEF Single, Has, First, Records, RowKinds
  <2>6. Spawn(r, new)
    BY <2>1 DEF a, d
  <2>7. calls' \subseteq Requests
    BY <2>1 DEF Calls, RecordingInv, TypeInv
  <2> HIDE DEF new
  <2>8. /\ phase' = [phase EXCEPT ![r] = "ended"] /\ "ended" \in Phases \ {"new"}
        /\ completed' = [completed EXCEPT ![r] = FALSE]
        /\ UNCHANGED <<handler, session, stored>>
        /\ first' \in [Requests -> BOOLEAN] /\ mapper' \subseteq Requests
    BY <1>2, <1>3 DEF SendAnswered, Goto, RecordingInv, TypeInv, Phases
  <2> QED
    BY <1>1, <1>2, <2>4, <2>5, <2>6, <2>7, <2>8, SpawningStep
<1>4. CASE ResponsesAnswered(r)
  <2>1. PICK t \in Tokens, b \in BOOLEAN :
          Spawn(r, {<<Stats(r, t, 0)>>, <<Done(r, TRUE, t, 0, FALSE)>>}) /\ Calls(r, b)
    BY <1>4 DEF ResponsesAnswered
  <2> DEFINE a == Stats(r, t, 0)
             d == Done(r, TRUE, t, 0, FALSE)
  <2>2. handler[r] = "responses" /\ t \in Nat
    BY <1>4, RecordingAssumption DEF ResponsesAnswered
  <2>3. /\ a \in EventsOf(r) /\ a.kind = "stats"
        /\ d \in EventsOf(r) /\ d.kind = "completed" /\ d.streamed = FALSE
    <3>1. a \in EventsOf(r) /\ a.kind = "stats"
      BY <2>2, StatsIs DEF RecordingInv
    <3>2. d \in EventsOf(r) /\ d.kind = "completed" /\ d.streamed = FALSE
      BY <2>2, DoneIs DEF RecordingInv
    <3> QED
      BY <3>1, <3>2
  <2> HIDE DEF a, d
  <2> DEFINE new == {<<a>>, <<d>>}
  <2>4. /\ new \subseteq Seq(EventsOf(r)) \ {<< >>}
        /\ \A u \in new : \A i \in 1 .. Len(u) : u[i].kind # "started"
    BY <2>3
  <2>5. (\A k \in RowKinds : Single(k, new)) /\ ~Has("streams", new)
    BY <2>3 DEF Single, Has, Records, RowKinds
  <2>6. Spawn(r, new)
    BY <2>1 DEF a, d
  <2>7. calls' \subseteq Requests
    BY <2>1 DEF Calls, RecordingInv, TypeInv
  <2> HIDE DEF new
  <2>8. /\ phase' = [phase EXCEPT ![r] = "ended"] /\ "ended" \in Phases \ {"new"}
        /\ completed' = [completed EXCEPT ![r] = FALSE]
        /\ UNCHANGED <<handler, session, stored>>
        /\ first' \in [Requests -> BOOLEAN] /\ mapper' \subseteq Requests
    BY <1>2, <1>4 DEF ResponsesAnswered, Goto, RecordingInv, TypeInv, Phases
  <2> QED
    BY <1>1, <1>2, <2>2, <2>4, <2>5, <2>6, <2>7, <2>8, SpawningStep
<1>5. CASE Failed(r)
  <2> DEFINE d == Done(r, FALSE, 0, 0, FALSE)
             new == {<<d>>}
  <2>1. d \in EventsOf(r) /\ d.kind = "completed" /\ d.streamed = FALSE
    BY DoneIs DEF RecordingInv
  <2>2. Spawn(r, new)
    BY <1>5 DEF Failed
  <2> HIDE DEF d
  <2>3. /\ new \subseteq Seq(EventsOf(r)) \ {<< >>}
        /\ \A u \in new : \A i \in 1 .. Len(u) : u[i].kind # "started"
    BY <2>1
  <2>4. /\ \A k \in RowKinds : Single(k, new)
        /\ ~Has("streams", new) /\ ~Has("stats", new) /\ First("stats", new)
    BY <2>1 DEF Single, Has, First, Records, RowKinds
  <2> HIDE DEF new
  <2>5. /\ phase' = [phase EXCEPT ![r] = "ended"] /\ "ended" \in Phases \ {"new"}
        /\ completed' = [completed EXCEPT ![r] = FALSE]
        /\ UNCHANGED <<handler, session, stored>>
        /\ first' \in [Requests -> BOOLEAN]
        /\ calls' \subseteq Requests /\ mapper' \subseteq Requests
    BY <1>2, <1>5 DEF Failed, Goto, RecordingInv, TypeInv, Phases
  <2> QED
    BY <1>1, <1>2, <2>2, <2>3, <2>4, <2>5, SpawningStep
<1>6. CASE MessagesAnswered(r) \/ ChatAnswered(r)
  BY <1>1, <1>2, <1>6, IdleStep
     DEF MessagesAnswered, ChatAnswered, LeftToParser, Calls, Goto, Phases, Routed,
         RecordingInv, TypeInv
<1>7. CASE Unrecorded(r)
  BY <1>1, <1>2, <1>7, IdleStep DEF Unrecorded, Goto, Phases, RecordingInv, TypeInv
<1> QED
  BY <1>3, <1>4, <1>5, <1>6, <1>7
     DEF Answer, SendFails, RoutedStreamFails, MessagesFails, ChatFails, ResponsesFails,
         ResponsesStreamFails, CrossAnswered, PassthroughFails, Cancelled

(* The completion of a recording stream, spawned once.                     *)
LEMMA CompleteStep ==
    ASSUME RecordingInv, NEW r \in Requests, Streaming(r, "stream"),
           NEW t \in Tokens, NEW ok \in BOOLEAN, Complete(r, ok, t),
           NEW p \in {"streaming", "ended"}, phase' = [phase EXCEPT ![r] = p],
           UNCHANGED <<handler, session, first, calls, mapper, stored>>
    PROVE  HandlerStep(r)
<1>1. /\ phase[r] = "streaming" /\ handler[r] = "stream"
      /\ handler[r] \in Finishers /\ handler[r] # "send"
      /\ p \in Phases \ {"new"}
      /\ Opening(r) \notin tasks[r]
      /\ first' \in [Requests -> BOOLEAN] /\ calls' \subseteq Requests /\ mapper' \subseteq Requests
  BY OpeningIsOver DEF Streaming, Routed, Finishers, Phases, RecordingInv, TypeInv
<1>2. CASE completed[r]
  <2>1. UNCHANGED <<handler, session, tasks, completed, stored>>
    BY <1>2 DEF Complete
  <2> QED
    BY <1>1, <2>1, IdleStep
<1>3. CASE ~completed[r]
  <2> DEFINE d == Done(r, ok, t, 0, TRUE)
             new == {<<d>>}
  <2>1. d \in EventsOf(r) /\ d.kind = "completed"
    <3>1. t \in Nat
      BY RecordingAssumption
    <3> QED
      BY <3>1, DoneIs DEF RecordingInv
  <2>2. Spawn(r, new) /\ completed' = [completed EXCEPT ![r] = TRUE]
    BY <1>3 DEF Complete
  <2> HIDE DEF d
  <2>3. /\ new \subseteq Seq(EventsOf(r)) \ {<< >>}
        /\ \A u \in new : \A i \in 1 .. Len(u) : u[i].kind # "started"
    BY <2>1
  <2>4. (\A k \in RowKinds : Single(k, new)) /\ ~Has("stats", new)
    BY <2>1 DEF Single, Has, Records, RowKinds
  <2> HIDE DEF new
  <2> QED
    BY <1>1, <1>3, <2>2, <2>3, <2>4, SpawningStep
<1> QED
  BY <1>2, <1>3

LEMMA ItemStep ==
    ASSUME RecordingInv, NEW r \in Requests, RoutedItem(r) PROVE HandlerStep(r)
<1> DEFINE e == E("first", r)
           new == {<<e>>}
<1>1. e \in EventsOf(r) /\ e.kind = "first"
  BY Constructed DEF RecordingInv
<1>2. Spawn(r, new)
  BY DEF RoutedItem
<1>3. /\ phase[r] = "streaming" /\ handler[r] # "send" /\ ~completed[r]
      /\ Opening(r) \notin tasks[r]
      /\ phase' = [phase EXCEPT ![r] = "streaming"] /\ "streaming" \in Phases \ {"new"}
      /\ completed' = [completed EXCEPT ![r] = FALSE]
      /\ UNCHANGED <<handler, session, stored>>
      /\ first' \in [Requests -> BOOLEAN] /\ calls' \subseteq Requests /\ mapper' \subseteq Requests
  BY OpeningIsOver DEF RoutedItem, Streaming, Routed, Phases, RecordingInv, TypeInv
<1> HIDE DEF e
<1>4. /\ new \subseteq Seq(EventsOf(r)) \ {<< >>}
      /\ \A u \in new : \A i \in 1 .. Len(u) : u[i].kind # "started"
  BY <1>1
<1>5. (\A k \in RowKinds : Single(k, new)) /\ \A k \in RowKinds : ~Has(k, new)
  BY <1>1 DEF Single, Has, Records, RowKinds
<1> HIDE DEF new
<1> QED
  BY <1>2, <1>3, <1>4, <1>5, SpawningStep DEF RowKinds

LEMMA PassthroughStep ==
    ASSUME RecordingInv, NEW r \in Requests, phase[r] = "streaming",
           handler[r] \in {"messages_stream", "chat_stream"}, PassthroughEnds(r)
    PROVE  HandlerStep(r)
<1>1. PICK ttft \in BOOLEAN, b \in BOOLEAN :
        /\ Spawn(r, (IF ttft THEN {<<E("first", r)>>} ELSE {}) \cup {<<Done(r, TRUE, 0, 0, TRUE)>>})
        /\ Calls(r, b)
  BY DEF PassthroughEnds
<1> DEFINE e == E("first", r)
           d == Done(r, TRUE, 0, 0, TRUE)
           p == IF first[r] THEN "parsing" ELSE "ended"
           new == (IF ttft THEN {<<e>>} ELSE {}) \cup {<<d>>}
<1>2. /\ handler[r] \notin Routed /\ handler[r] \notin Finishers /\ handler[r] # "send"
      /\ ~completed[r]
  BY DEF Routed, Finishers, RecordingInv, OnceInv
<1>3. /\ e \in EventsOf(r) /\ e.kind = "first"
      /\ d \in EventsOf(r) /\ d.kind = "completed"
  <2>1. e \in EventsOf(r) /\ e.kind = "first"
    BY Constructed DEF RecordingInv
  <2>2. d \in EventsOf(r) /\ d.kind = "completed"
    BY DoneIs DEF RecordingInv
  <2> QED
    BY <2>1, <2>2
<1>4. Spawn(r, new) /\ calls' \subseteq Requests
  BY <1>1 DEF Calls, RecordingInv, TypeInv
<1> HIDE DEF e, d
<1>5. \A u \in new : u = <<e>> \/ u = <<d>>
  OBVIOUS
<1> HIDE DEF new
<1>6. /\ new \subseteq Seq(EventsOf(r)) \ {<< >>}
      /\ \A u \in new : \A i \in 1 .. Len(u) : u[i].kind # "started"
  <2>1. <<e>> \in Seq(EventsOf(r)) \ {<< >>} /\ \A i \in 1 .. Len(<<e>>) : <<e>>[i].kind # "started"
    BY <1>3
  <2>2. <<d>> \in Seq(EventsOf(r)) \ {<< >>} /\ \A i \in 1 .. Len(<<d>>) : <<d>>[i].kind # "started"
    BY <1>3
  <2> QED
    BY <1>5, <2>1, <2>2
<1>7. (\A k \in RowKinds : Single(k, new)) /\ ~Has("stats", new)
  BY <1>3, <1>5 DEF Single, Has, Records, RowKinds
<1>8. /\ phase' = [phase EXCEPT ![r] = p] /\ p \in {"parsing", "ended"}
      /\ completed' = [completed EXCEPT ![r] = FALSE]
      /\ UNCHANGED <<handler, session, stored>>
      /\ first' \in [Requests -> BOOLEAN] /\ mapper' \subseteq Requests
  BY <1>2 DEF PassthroughEnds, Goto, RecordingInv, TypeInv
<1> HIDE DEF p
<1>9. p \in Phases \ {"new"}
  BY <1>8 DEF Phases
<1> QED
  BY <1>2, <1>4, <1>6, <1>7, <1>8, <1>9, SpawningStep

LEMMA UsageStep ==
    ASSUME RecordingInv, NEW r \in Requests, UsageSeen(r) PROVE HandlerStep(r)
<1>1. PICK t \in Tokens \ {0}, b \in BOOLEAN :
        /\ Spawn(r, {<<Stats(r, t, 0)>> \o (IF b THEN <<ToolCall(r)>> ELSE << >>)
                     \o <<Done(r, TRUE, t, 0, FALSE)>>})
        /\ Calls(r, b)
        /\ mapper' = IF b THEN mapper \cup {r} ELSE mapper
  BY DEF UsageSeen
<1> DEFINE a == Stats(r, t, 0)
           c == ToolCall(r)
           d == Done(r, TRUE, t, 0, FALSE)
           one == <<a>> \o (IF b THEN <<c>> ELSE << >>) \o <<d>>
           new == {one}
<1>2. /\ phase[r] = "streaming" /\ handler[r] \in {"responses_stream", "socket"} /\ ~completed[r]
      /\ handler[r] \notin Routed /\ handler[r] \in Finishers /\ handler[r] # "send"
  BY DEF UsageSeen, Streaming, Routed, Finishers
<1>3. /\ a \in EventsOf(r) /\ a.kind = "stats"
      /\ c \in EventsOf(r) /\ c.kind = "tool"
      /\ d \in EventsOf(r) /\ d.kind = "completed" /\ d.streamed = FALSE
  <2>1. a \in EventsOf(r) /\ a.kind = "stats"
    BY StatsIs, RecordingAssumption DEF RecordingInv
  <2>2. c \in EventsOf(r) /\ c.kind = "tool"
    BY <1>2, Constructed DEF RecordingInv
  <2>3. d \in EventsOf(r) /\ d.kind = "completed" /\ d.streamed = FALSE
    BY DoneIs, RecordingAssumption DEF RecordingInv
  <2> QED
    BY <2>1, <2>2, <2>3
<1>4. Spawn(r, new) /\ calls' \subseteq Requests /\ mapper' \subseteq Requests
  BY <1>1 DEF Calls, RecordingInv, TypeInv
<1> HIDE DEF a, c, d
<1>5. /\ one \in Seq(EventsOf(r)) \ {<< >>} /\ one[1] = a
      /\ \A i \in 1 .. Len(one) : one[i] \in {c, d} \/ i = 1
  <2>1. CASE b
    BY <1>3, <2>1
  <2>2. CASE ~b
    BY <1>3, <2>2
  <2> QED
    BY <2>1, <2>2
<1> HIDE DEF one
<1>6. \A i \in 1 .. Len(one) : (Records("stats", one[i]) => i = 1) /\ ~Records("streams", one[i])
  BY <1>3, <1>5 DEF Records
<1>7. (\A k \in RowKinds : Single(k, new)) /\ ~Has("streams", new)
  BY <1>6 DEF Single, Has, RowKinds
<1>8. /\ new \subseteq Seq(EventsOf(r)) \ {<< >>}
      /\ \A u \in new : \A i \in 1 .. Len(u) : u[i].kind # "started"
  BY <1>3, <1>5
<1> HIDE DEF new
<1>9. /\ phase' = [phase EXCEPT ![r] = "streaming"] /\ "streaming" \in Phases \ {"new"}
      /\ completed' = [completed EXCEPT ![r] = TRUE]
      /\ UNCHANGED <<handler, session, stored>> /\ first' \in [Requests -> BOOLEAN]
  BY <1>2 DEF UsageSeen, Phases, RecordingInv, TypeInv
<1> QED
  BY <1>2, <1>4, <1>7, <1>8, <1>9, SpawningStep

LEMMA StreamingStep ==
    ASSUME RecordingInv, NEW r \in Requests, StreamStep(r) PROVE HandlerStep(r)
<1>1. CASE \E hs : Opens(r, hs)
  <2>1. Waiting(r) /\ phase[r] = "waiting" /\ ~completed[r]
    BY <1>1, OpeningIsOver DEF Opens, Waiting
  <2>2. handler[r] \in Routed => Opening(r) \notin tasks[r]
    BY <2>1, OpeningIsOver
  <2> QED
    BY <1>1, <2>1, <2>2, IdleStep DEF Opens, Goto, Phases, RecordingInv, TypeInv
<1>2. CASE phase[r] = "streaming" /\ handler[r] # "stream" /\ (Unrecorded(r) \/ Collected(r))
  <2>1. /\ handler[r] \in Routed => Opening(r) \notin tasks[r]
        /\ UNCHANGED <<handler, session, tasks, completed, stored>>
        /\ first' \in [Requests -> BOOLEAN]
        /\ calls' \subseteq Requests /\ mapper' \subseteq Requests
    BY <1>2, OpeningIsOver DEF Unrecorded, Collected, RecordingInv, TypeInv
  <2>2. PICK p \in {"streaming", "ended"} : phase' = [phase EXCEPT ![r] = p]
    BY <1>2 DEF Unrecorded, Collected, Goto, RecordingInv, TypeInv
  <2>3. p \in Phases \ {"new"}
    BY DEF Phases
  <2> QED
    BY <1>2, <2>1, <2>2, <2>3, IdleStep
<1>3. CASE RoutedItem(r)
  BY <1>3, ItemStep
<1>4. CASE StreamFinishes(r) \/ StreamDropped(r)
  <2>1. PICK t \in Tokens, ok \in BOOLEAN : Complete(r, ok, t)
    BY <1>4 DEF StreamFinishes, StreamDropped
  <2>2. PICK p \in {"streaming", "ended"} : phase' = [phase EXCEPT ![r] = p]
    BY <1>4 DEF StreamFinishes, StreamDropped, Streaming, Goto, RecordingInv, TypeInv
  <2> QED
    BY <1>4, <2>1, <2>2, CompleteStep DEF StreamFinishes, StreamDropped
<1>5. CASE MessagesStreamEnds(r) \/ ChatStreamEnds(r)
  BY <1>5, PassthroughStep DEF MessagesStreamEnds, ChatStreamEnds, Streaming
<1>6. CASE UsageSeen(r)
  BY <1>6, UsageStep
<1> QED
  BY <1>1, <1>2, <1>3, <1>4, <1>5, <1>6
     DEF StreamStep, RoutedStreamOpens, MessagesStreamOpens, ChatStreamOpens, ResponsesStreamOpens,
         MessagesItem, ChatItem, StreamGone, SocketTurnEnds, Streaming

LEMMA ParseStep ==
    ASSUME RecordingInv, NEW r \in Requests, Parse(r) PROVE HandlerStep(r)
<1>1. PICK h \in {"messages", "chat", "messages_stream", "chat_stream"} :
        Parses(r, h) /\ mapper' \subseteq Requests
  BY DEF Parse, ParseMessagesBody, ParseChatBody, ParseMessagesStream, ParseChatStream,
         TeachMapper, RecordingInv, TypeInv
<1> DEFINE n == IF r \in calls THEN 1 ELSE 0
<1>2. PICK t \in Tokens :
        Spawn(r, (IF n > 0 THEN {<<ToolCall(r)>>} ELSE {})
                 \cup (IF t > 0 \/ n > 0 THEN {<<Stats(r, t, n)>>} ELSE {}))
  BY <1>1 DEF Parses
<1> DEFINE a == Stats(r, t, n)
           c == ToolCall(r)
           new == (IF n > 0 THEN {<<c>>} ELSE {}) \cup (IF t > 0 \/ n > 0 THEN {<<a>>} ELSE {})
<1>3. /\ phase[r] = "parsing" /\ handler[r] \notin Routed /\ handler[r] # "send"
      /\ ~completed[r]
  BY <1>1, OpeningIsOver DEF Parses, Routed
<1>4. /\ a \in EventsOf(r) /\ a.kind = "stats"
      /\ c \in EventsOf(r) /\ c.kind = "tool"
  <2>1. n \in Nat /\ t \in Nat
    BY RecordingAssumption
  <2>2. a \in EventsOf(r) /\ a.kind = "stats"
    BY <2>1, StatsIs DEF RecordingInv
  <2>3. c \in EventsOf(r) /\ c.kind = "tool"
    BY <1>3, Constructed DEF RecordingInv
  <2> QED
    BY <2>2, <2>3
<1>5. Spawn(r, new)
  BY <1>2
<1> HIDE DEF a, c
<1>6. \A u \in new : u = <<a>> \/ u = <<c>>
  OBVIOUS
<1> HIDE DEF new
<1>7. /\ new \subseteq Seq(EventsOf(r)) \ {<< >>}
      /\ \A u \in new : \A i \in 1 .. Len(u) : u[i].kind # "started"
  <2>1. <<a>> \in Seq(EventsOf(r)) \ {<< >>} /\ \A i \in 1 .. Len(<<a>>) : <<a>>[i].kind # "started"
    BY <1>4
  <2>2. <<c>> \in Seq(EventsOf(r)) \ {<< >>} /\ \A i \in 1 .. Len(<<c>>) : <<c>>[i].kind # "started"
    BY <1>4
  <2> QED
    BY <1>6, <2>1, <2>2
<1>8. (\A k \in RowKinds : Single(k, new)) /\ ~Has("streams", new)
  BY <1>4, <1>6 DEF Single, Has, Records, RowKinds
<1>9. /\ phase' = [phase EXCEPT ![r] = "ended"] /\ "ended" \in Phases \ {"new"}
      /\ completed' = [completed EXCEPT ![r] = FALSE]
      /\ UNCHANGED <<handler, session, stored>>
      /\ first' \in [Requests -> BOOLEAN] /\ calls' \subseteq Requests
  BY <1>1, <1>3 DEF Parses, Goto, Phases, RecordingInv, TypeInv
<1> QED
  BY <1>1, <1>3, <1>5, <1>7, <1>8, <1>9, SpawningStep

-----------------------------------------------------------------------------
(* A HandlerStep keeps the invariant.                                      *)

LEMMA HasUnion ==
    ASSUME NEW k, NEW T, NEW U
    PROVE  Has(k, T \cup U) <=> Has(k, T) \/ Has(k, U)
BY DEF Has

LEMMA SingleUnion ==
    ASSUME NEW k, NEW T, NEW U, Single(k, T), Single(k, U), ~Has(k, T) \/ ~Has(k, U)
    PROVE  Single(k, T \cup U)
BY DEF Single, Has

(* As long as a request keeps its handler and its session, its events stay *)
(* proper.                                                                 *)
LEMMA SameEvents ==
    ASSUME UNCHANGED <<handler, session>>
    PROVE  /\ Recorded' = Recorded
           /\ \A q \in Requests : EventsOf(q)' = EventsOf(q) /\ Opening(q)' = Opening(q)
           /\ \A q \in Requests : E("started", q)' = E("started", q)
BY DEF Recorded, EventsOf, Proper, Opening, E

LEMMA HandlerStepTyped ==
    ASSUME RecordingInv, NEW r \in Requests, NEW new, Spawns(r, new) PROVE TypeInv'
<1> USE DEF RecordingInv, TypeInv, Spawns
<1>1. Recorded' = Recorded /\ \A q \in Requests : EventsOf(q)' = EventsOf(q)
  BY SameEvents
<1>2. handler' \in [Requests -> Handlers] /\ session' \in [Requests -> Sessions]
  OBVIOUS
<1>3. phase' \in [Requests -> Phases]
  OBVIOUS
<1>4. tasks' = [q \in Requests |-> tasks'[q]]
  <2>1. DOMAIN tasks = Requests
    OBVIOUS
  <2> QED
    BY <2>1
<1>5. \A q \in Requests : tasks'[q] \subseteq Seq(EventsOf(q)') \ {<< >>}
  <2>1. DOMAIN tasks = Requests
    OBVIOUS
  <2>2. \A q \in Requests : tasks[q] \subseteq Seq(EventsOf(q)) \ {<< >>}
    OBVIOUS
  <2>3. ASSUME NEW q \in Requests PROVE tasks'[q] \subseteq tasks[q] \cup (IF q = r THEN new ELSE {})
    BY <2>1
  <2> QED
    BY <1>1, <2>2, <2>3
<1>6. first' \in [Requests -> BOOLEAN] /\ completed' \in [Requests -> BOOLEAN]
  OBVIOUS
<1>7. calls' \subseteq Requests /\ mapper' \subseteq Requests
  OBVIOUS
<1>8. queue' \in Seq(Recorded') /\ db' \in Tables /\ spoiled' \in BOOLEAN
  BY <1>1
<1> QED
  BY <1>2, <1>3, <1>4, <1>5, <1>6, <1>7, <1>8

(* Where a spawning step changes something.                                *)
LEMMA Elsewhere ==
    ASSUME RecordingInv, NEW r \in Requests, NEW new, Spawns(r, new)
    PROVE  /\ tasks'[r] = tasks[r] \cup new
           /\ phase'[r] # "new"
           /\ \A q \in Requests \ {r} :
                 tasks'[q] = tasks[q] /\ phase'[q] = phase[q] /\ completed'[q] = completed[q]
<1>1. DOMAIN tasks = Requests /\ DOMAIN phase = Requests /\ DOMAIN completed = Requests
  BY DEF RecordingInv, TypeInv
<1> QED
  BY <1>1 DEF Spawns

LEMMA HandlerStepOnce ==
    ASSUME RecordingInv, NEW r \in Requests, NEW new, Spawns(r, new), SpawnsOnce(r, new)
    PROVE  OnceInv'
<1>1. ASSUME NEW q \in Requests, completed'[q]
      PROVE  handler'[q] \in Finishers /\ phase'[q] \in {"streaming", "ended"}
  BY <1>1, Elsewhere DEF Spawns, RecordingInv, OnceInv
<1>2. ASSUME NEW k \in RowKinds, NEW q \in Requests PROVE Once(k, q)'
  <2>1. Once(k, q)
    BY DEF RecordingInv, OnceInv
  <2>2. RowsOf(k, q)' = RowsOf(k, q) /\ Queued(k, q)' = Queued(k, q)
    BY DEF Spawns, RowsOf, RowsIn, Queued
  <2>3. CASE q # r
    <3>1. tasks'[q] = tasks[q] /\ (MayYet(k, q)' <=> MayYet(k, q))
      BY <2>3, Elsewhere DEF MayYet
    <3> QED
      BY <2>1, <2>2, <3>1 DEF Once
  <2>4. CASE q = r
    <3>1. /\ tasks'[q] = tasks[q] \cup new
          /\ Single(k, new)
          /\ Has(k, new) => MayYet(k, q) /\ ~MayYet(k, q)'
          /\ MayYet(k, q)' => MayYet(k, q)
      BY <2>4, Elsewhere DEF SpawnsOnce
    <3>2. Has(k, tasks'[q]) <=> Has(k, tasks[q]) \/ Has(k, new)
      BY <3>1, HasUnion
    <3>3. Single(k, tasks'[q])
      BY <2>1, <3>1, SingleUnion DEF Once
    <3> QED
      BY <2>1, <2>2, <3>1, <3>2, <3>3 DEF Once
  <2> QED
    BY <2>3, <2>4
<1> QED
  BY <1>1, <1>2 DEF OnceInv

LEMMA HandlerStepLed ==
    ASSUME RecordingInv, NEW r \in Requests, NEW new, Spawns(r, new), SpawnsLed(r, new)
    PROVE  LeadInv'
<1> SUFFICES ASSUME NEW q \in Requests, handler[q] \in Routed
             PROVE  /\ phase'[q] = "new" => tasks'[q] = {}
                    /\ \A t \in tasks'[q] : \A i \in 2 .. Len(t) : t[i].kind # "started"
                    /\ phase'[q] = "new" \/ Opening(q) \in tasks'[q] => Unheard(q)
                    /\ Opening(q) \in tasks'[q] => tasks'[q] = {Opening(q)} /\ phase'[q] = "waiting"
                    /\ ~spoiled /\ phase'[q] # "new" /\ Opening(q) \notin tasks'[q] => Led(q, Len(queue))
  <2>1. \A q \in Requests : Opening(q)' = Opening(q) /\ Unheard(q)' = Unheard(q)
    BY SameEvents DEF Spawns, Unheard
  <2>2. \A q \in Requests : Led(q, Len(queue))' = Led(q, Len(queue))
    <3>1. \A q \in Requests : E("started", q)' = E("started", q)
      BY SameEvents DEF Spawns
    <3> QED
      BY <3>1 DEF Spawns, Led
  <2> QED
    BY <2>1, <2>2 DEF LeadInv, Spawns
<1>1. CASE q # r
  BY <1>1, Elsewhere DEF RecordingInv, LeadInv
<1>2. CASE q = r
  <2>1. tasks'[q] = tasks[q] \cup new /\ phase'[q] # "new"
    BY <1>2, Elsewhere
  <2>2. /\ Opening(q) = <<E("started", q), E("request", q)>>
        /\ E("started", q).kind = "started" /\ E("request", q).kind = "request"
    BY DEF Opening, E, Blank
  <2>3. CASE phase[q] = "new" /\ phase'[q] = "waiting" /\ new = {Opening(q)} /\ tasks[q] = {}
    <3>1. tasks'[q] = {Opening(q)} /\ \A i \in 2 .. Len(Opening(q)) : Opening(q)[i].kind # "started"
      BY <2>1, <2>2, <2>3
    <3> QED
      BY <2>3, <3>1 DEF RecordingInv, LeadInv
  <2>4. CASE /\ phase[q] # "new" /\ Opening(q) \notin tasks[q]
             /\ \A t \in new : \A i \in 1 .. Len(t) : t[i].kind # "started"
    <3>1. Opening(q) \notin new
      BY <2>2, <2>4
    <3> QED
      BY <2>1, <2>4, <3>1 DEF RecordingInv, LeadInv
  <2> QED
    BY <1>2, <2>3, <2>4 DEF SpawnsLed
<1> QED
  BY <1>1, <1>2

LEMMA HandlerStepQuiet ==
    ASSUME RecordingInv, NEW r \in Requests, NEW new, Spawns(r, new), SpawnsQuietly(r, new)
    PROVE  ResponseInv'
<1> SUFFICES ASSUME NEW q \in Requests, handler[q] = "send"
             PROVE  /\ phase'[q] # "ended" \/ Has("stats", tasks'[q]) => Silent(q, Len(queue))
                    /\ phase'[q] # "ended" =>
                           \A t \in tasks'[q] : \A j \in 1 .. Len(t) : t[j].tokens = 0
                    /\ First("stats", tasks'[q])
                    /\ \A i \in Queued("stats", q) : Silent(q, i - 1)
  <2>1. \A q \in Requests : Queued("stats", q)' = Queued("stats", q)
    BY DEF Spawns, Queued
  <2>2. \A q \in Requests, i \in Int : Silent(q, i)' = Silent(q, i)
    BY DEF Spawns, Silent
  <2>3. \A q \in Requests : \A i \in Queued("stats", q) : Silent(q, i - 1)' = Silent(q, i - 1)
    BY <2>2 DEF Queued
  <2>4. \A q \in Requests : Silent(q, Len(queue))' = Silent(q, Len(queue))
    BY DEF Spawns, Silent
  <2>5. UNCHANGED <<handler, queue>>
    BY DEF Spawns
  <2> HIDE DEF Spawns
  <2> QED
    BY <2>1, <2>3, <2>4, <2>5 DEF ResponseInv
<1>1. /\ phase[q] # "ended" \/ Has("stats", tasks[q]) => Silent(q, Len(queue))
      /\ phase[q] # "ended" => \A t \in tasks[q] : \A j \in 1 .. Len(t) : t[j].tokens = 0
      /\ First("stats", tasks[q])
      /\ \A i \in Queued("stats", q) : Silent(q, i - 1)
  BY DEF RecordingInv, ResponseInv
<1>2. CASE q # r
  BY <1>1, <1>2, Elsewhere
<1>3. CASE q = r
  <2>1. /\ tasks'[q] = tasks[q] \cup new
        /\ phase[q] # "ended"
        /\ phase'[q] # "ended" => \A t \in new : \A j \in 1 .. Len(t) : t[j].tokens = 0
        /\ First("stats", new) /\ (Has("stats", new) => tasks[q] = {})
    BY <1>3, Elsewhere DEF SpawnsQuietly
  <2>2. ~Has("stats", tasks[q])
    <3>1. phase[q] \in Phases /\ ~completed[q]
      BY DEF RecordingInv, TypeInv, OnceInv, Finishers
    <3>2. MayYet("stats", q)
      BY <2>1, <3>1 DEF MayYet, Phases
    <3> QED
      BY <3>2 DEF RecordingInv, OnceInv, Once, RowKinds
  <2>3. First("stats", tasks'[q])
    <3>1. CASE Has("stats", new)
      BY <2>1, <3>1
    <3>2. CASE ~Has("stats", new)
      BY <2>1, <2>2, <3>2, HasUnion DEF First, Has
    <3> QED
      BY <3>1, <3>2
  <2> QED
    BY <1>1, <2>1, <2>3
<1> QED
  BY <1>2, <1>3

LEMMA HandlerStepKeeps ==
    ASSUME RecordingInv, NEW r \in Requests, HandlerStep(r) PROVE RecordingInv'
<1>1. PICK new : /\ Spawns(r, new)
                 /\ SpawnsOnce(r, new) /\ SpawnsLed(r, new) /\ SpawnsQuietly(r, new)
  BY DEF HandlerStep
<1>2. TypeInv'
  BY <1>1, HandlerStepTyped
<1>3. RoutedApart' /\ TablesInv'
  BY <1>1 DEF Spawns, RecordingInv, RoutedApart, TablesInv, Sound
<1>4. StartedLeads'
  <2>1. \A q \in Requests : E("started", q)' = E("started", q)
    BY <1>1, SameEvents DEF Spawns
  <2> QED
    BY <1>1, <2>1 DEF Spawns, RecordingInv, StartedLeads
<1>5. OnceInv' /\ LeadInv' /\ ResponseInv'
  BY <1>1, HandlerStepOnce, HandlerStepLed, HandlerStepQuiet
<1> QED
  BY <1>2, <1>3, <1>4, <1>5 DEF RecordingInv

-----------------------------------------------------------------------------
(* A task writes an event.                                                 *)

(* Task t of T hands over its first event.                                 *)
Rest(T, t) == (T \ {t}) \cup ({Tail(t)} \ {<< >>})

LEMMA Popped ==
    ASSUME NEW S, NEW T, T \subseteq Seq(S) \ {<< >>}, NEW t \in T, NEW k
    PROVE  LET U == Rest(T, t) IN
           /\ U \subseteq Seq(S) \ {<< >>}
           /\ Has(k, U) => Has(k, T)
           /\ Records(k, Head(t)) => Has(k, T)
           /\ Single(k, T) => Single(k, U) /\ (Records(k, Head(t)) => ~Has(k, U))
           /\ First(k, T) => ~Has(k, U)
<1>1. t \in Seq(S) /\ t # << >> /\ Len(t) \in Nat \ {0} /\ Head(t) = t[1] /\ t[1] \in S
  OBVIOUS
<1>2. /\ Tail(t) \in Seq(S) /\ Len(Tail(t)) = Len(t) - 1
      /\ \A i \in 1 .. Len(Tail(t)) : i + 1 \in 1 .. Len(t) /\ Tail(t)[i] = t[i + 1]
  BY <1>1
<1> DEFINE U == Rest(T, t)
<1>3. U \subseteq Seq(S) \ {<< >>}
  BY <1>2 DEF Rest
<1>4. ASSUME NEW u \in U, NEW i \in 1 .. Len(u)
      PROVE  \/ u \in T \ {t}
             \/ u = Tail(t) /\ i + 1 \in 1 .. Len(t) /\ u[i] = t[i + 1]
  BY <1>2 DEF Rest
<1> HIDE DEF U
<1>5. Has(k, U) => Has(k, T)
  BY <1>4 DEF Has
<1>6. Records(k, Head(t)) => Has(k, T)
  BY <1>1 DEF Has
<1>7. ASSUME Single(k, T), NEW u \in U, NEW v \in U, NEW i \in 1 .. Len(u), NEW j \in 1 .. Len(v),
             Records(k, u[i]), Records(k, v[j])
      PROVE  u = v /\ i = j
  <2>1. i \in Nat /\ j \in Nat
    BY <1>3
  <2>2. CASE u \in T \ {t} /\ v \in T \ {t}
    BY <1>7, <2>2 DEF Single
  <2>3. CASE u \in T \ {t} /\ v = Tail(t) /\ j + 1 \in 1 .. Len(t) /\ v[j] = t[j + 1]
    BY <1>7, <2>3 DEF Single
  <2>4. CASE v \in T \ {t} /\ u = Tail(t) /\ i + 1 \in 1 .. Len(t) /\ u[i] = t[i + 1]
    BY <1>7, <2>4 DEF Single
  <2>5. CASE /\ u = Tail(t) /\ i + 1 \in 1 .. Len(t) /\ u[i] = t[i + 1]
             /\ v = Tail(t) /\ j + 1 \in 1 .. Len(t) /\ v[j] = t[j + 1]
    <3>1. i + 1 = j + 1
      BY <1>7, <2>5 DEF Single
    <3> QED
      BY <2>1, <2>5, <3>1
  <2> QED
    BY <1>4, <2>2, <2>3, <2>4, <2>5
<1>8. Single(k, T) => Single(k, U)
  BY <1>7 DEF Single
<1>9. Single(k, T) /\ Records(k, Head(t)) => ~Has(k, U)
  <2> SUFFICES ASSUME Single(k, T), Records(k, Head(t)),
                      NEW u \in U, NEW i \in 1 .. Len(u), Records(k, u[i])
               PROVE  FALSE
    BY DEF Has
  <2>1. 1 \in 1 .. Len(t) /\ Records(k, t[1]) /\ i \in Nat
    BY <1>1, <1>3
  <2>2. CASE u \in T \ {t}
    BY <2>1, <2>2 DEF Single
  <2>3. CASE u = Tail(t) /\ i + 1 \in 1 .. Len(t) /\ u[i] = t[i + 1]
    <3>1. i + 1 = 1
      BY <2>1, <2>3 DEF Single
    <3> QED
      BY <2>1, <3>1
  <2> QED
    BY <1>4, <2>2, <2>3
<1>10. First(k, T) => ~Has(k, U)
  <2> SUFFICES ASSUME First(k, T), NEW u \in U, NEW i \in 1 .. Len(u), Records(k, u[i])
               PROVE  FALSE
    BY DEF Has
  <2>1. i \in Nat \ {0}
    BY <1>3
  <2>2. CASE u \in T \ {t}
    BY <2>2 DEF First
  <2>3. CASE u = Tail(t) /\ i + 1 \in 1 .. Len(t) /\ u[i] = t[i + 1]
    <3>1. i + 1 = 1
      BY <2>3 DEF First
    <3> QED
      BY <2>1, <3>1
  <2> QED
    BY <1>4, <2>2, <2>3
<1> QED
  BY <1>3, <1>5, <1>6, <1>8, <1>9, <1>10 DEF U

(* Task t of r writes its first event, as e: only the tool's name may      *)
(* differ.                                                                 *)
Writes(r, t, e) ==
    /\ t \in tasks[r]
    /\ e \in EventsOf(r)
    /\ e.kind = Head(t).kind /\ e.tokens = Head(t).tokens /\ e.streamed = Head(t).streamed
    /\ e.kind = "started" => e = Head(t)
    /\ tasks' = [tasks EXCEPT ![r] = Rest(@, t)]
    /\ \/ queue' = Append(queue, e) /\ spoiled' = spoiled
       \/ queue' = queue /\ spoiled' = TRUE
    /\ UNCHANGED <<handler, session, phase, first, completed, calls, mapper, db>>

LEMMA WriteEventWrites ==
    ASSUME RecordingInv, NEW r \in Requests, WriteEvent(r)
    PROVE  \E t, e : Writes(r, t, e)
<1> DEFINE WritesAs(t, name) ==
               /\ tasks' = [tasks EXCEPT ![r] = (@ \ {t}) \cup ({Tail(t)} \ {<< >>})]
               /\ IF Len(queue) < ChannelSize
                  THEN queue' = Append(queue, [Head(t) EXCEPT !.tool = name]) /\ UNCHANGED spoiled
                  ELSE spoiled' = TRUE /\ UNCHANGED queue
               /\ UNCHANGED <<handler, session, phase, first, completed, calls, mapper, db>>
<1>0. PICK t \in tasks[r] : \E name \in Names(Head(t)) : WritesAs(t, name)
  BY DEF WriteEvent
<1>1. PICK name \in Names(Head(t)) : WritesAs(t, name)
  BY <1>0
<1> DEFINE h == Head(t)
           e == [h EXCEPT !.tool = name]
<1>2. h \in EventsOf(r)
  BY DEF RecordingInv, TypeInv
<1>3. name \in Tools /\ (h.kind # "tool" => name = h.tool)
  BY <1>2 DEF Names, Tools, EventsOf, Recorded, Event
<1> HIDE DEF h
<1>4. e \in EventsOf(r) /\ e.kind = h.kind /\ e.tokens = h.tokens /\ e.streamed = h.streamed
  BY <1>2, <1>3 DEF EventsOf, Recorded, Event, Proper
<1>5. h.kind # "tool" => e = h
  BY <1>2, <1>3 DEF EventsOf, Recorded, Event
<1>6. \/ queue' = Append(queue, e) /\ spoiled' = spoiled
      \/ queue' = queue /\ spoiled' = TRUE
  BY <1>1 DEF h
<1> HIDE DEF e
<1>7. Writes(r, t, e)
  BY <1>1, <1>4, <1>5, <1>6 DEF Writes, Rest, h
<1> QED
  BY <1>7

(* Where a written event changes something.                                *)
LEMMA WritesWhere ==
    ASSUME RecordingInv, NEW r \in Requests, NEW t, NEW e, Writes(r, t, e)
    PROVE  /\ tasks[r] \subseteq Seq(EventsOf(r)) \ {<< >>}
           /\ tasks'[r] = Rest(tasks[r], t)
           /\ \A q \in Requests \ {r} : tasks'[q] = tasks[q]
           /\ queue \in Seq(Recorded) /\ Len(queue) \in Nat
           /\ e \in Recorded /\ e.request = r
           /\ \/ spoiled' /\ queue' = queue
              \/ /\ spoiled' = spoiled /\ Len(queue') = Len(queue) + 1
                 /\ \A i \in 1 .. Len(queue) : queue'[i] = queue[i]
                 /\ queue'[Len(queue) + 1] = e
<1>1. DOMAIN tasks = Requests /\ tasks[r] \subseteq Seq(EventsOf(r)) \ {<< >>}
  BY DEF RecordingInv, TypeInv
<1>2. queue \in Seq(Recorded) /\ Len(queue) \in Nat
  BY DEF RecordingInv, TypeInv
<1>3. e \in Recorded /\ e.request = r
  BY DEF Writes, EventsOf
<1>4. /\ tasks'[r] = Rest(tasks[r], t)
      /\ \A q \in Requests \ {r} : tasks'[q] = tasks[q]
  BY <1>1 DEF Writes
<1>5. \/ spoiled' /\ queue' = queue
      \/ /\ spoiled' = spoiled /\ Len(queue') = Len(queue) + 1
         /\ \A i \in 1 .. Len(queue) : queue'[i] = queue[i]
         /\ queue'[Len(queue) + 1] = e
  BY <1>2, <1>3 DEF Writes
<1> QED
  BY <1>1, <1>2, <1>3, <1>4, <1>5

LEMMA WritesTyped ==
    ASSUME RecordingInv, NEW r \in Requests, NEW t, NEW e, Writes(r, t, e) PROVE TypeInv'
<1>1. Recorded' = Recorded /\ \A q \in Requests : EventsOf(q)' = EventsOf(q)
  BY SameEvents DEF Writes
<1>2. queue' \in Seq(Recorded) /\ spoiled' \in BOOLEAN
  <2>1. queue \in Seq(Recorded) /\ e \in Recorded /\ spoiled \in BOOLEAN
    BY WritesWhere DEF RecordingInv, TypeInv
  <2>2. Append(queue, e) \in Seq(Recorded)
    BY <2>1
  <2>3. queue' \in {queue, Append(queue, e)} /\ spoiled' \in {spoiled, TRUE}
    BY DEF Writes
  <2> QED
    BY <2>1, <2>2, <2>3
<1>3. \A q \in Requests : tasks'[q] \subseteq Seq(EventsOf(q)) \ {<< >>}
  <2>1. tasks'[r] \subseteq Seq(EventsOf(r)) \ {<< >>}
    <3> DEFINE T == tasks[r]
               S == EventsOf(r)
    <3>1. t \in T /\ T \subseteq Seq(S) \ {<< >>}
      BY WritesWhere DEF Writes
    <3>2. tasks'[r] = Rest(T, t)
      BY WritesWhere
    <3> HIDE DEF T, S
    <3>3. Rest(T, t) \subseteq Seq(S) \ {<< >>}
      BY <3>1, Popped
    <3> QED
      BY <3>2, <3>3 DEF S
  <2> QED
    BY <2>1, WritesWhere DEF RecordingInv, TypeInv
<1>4. tasks' = [q \in Requests |-> tasks'[q]]
  BY DEF Writes, RecordingInv, TypeInv
<1> QED
  BY <1>1, <1>2, <1>3, <1>4 DEF Writes, RecordingInv, TypeInv

LEMMA WritesOnce ==
    ASSUME RecordingInv, NEW r \in Requests, NEW t, NEW e, Writes(r, t, e) PROVE OnceInv'
<1>1. UNCHANGED <<handler, phase, completed, db>>
  BY DEF Writes
<1>2. ASSUME NEW k \in RowKinds, NEW q \in Requests PROVE Once(k, q)'
  <2>1. Once(k, q)
    BY DEF RecordingInv, OnceInv
  <2>2. RowsOf(k, q)' = RowsOf(k, q) /\ (MayYet(k, q)' <=> MayYet(k, q))
    BY <1>1 DEF RowsOf, RowsIn, MayYet
  <2>3. /\ Queued(k, q)' \subseteq Queued(k, q) \cup {Len(queue) + 1}
        /\ (q # r \/ ~Records(k, e)) => Queued(k, q)' = Queued(k, q)
    <3>1. Len(queue) \in Nat /\ e.request = r
      BY WritesWhere
    <3>2. CASE queue' = queue
      BY <3>2 DEF Queued
    <3>3. CASE /\ Len(queue') = Len(queue) + 1
               /\ \A i \in 1 .. Len(queue) : queue'[i] = queue[i]
               /\ queue'[Len(queue) + 1] = e
      <4>1. \A i : i \in Queued(k, q)' =>
                i \in Queued(k, q) \/ (i = Len(queue) + 1 /\ q = r /\ Records(k, e))
        BY <3>1, <3>3 DEF Queued
      <4>2. Queued(k, q) \subseteq Queued(k, q)'
        BY <3>1, <3>3 DEF Queued
      <4> QED
        BY <4>1, <4>2
    <3> QED
      BY <3>2, <3>3, WritesWhere
  <2>4. CASE q # r
    <3>1. tasks'[q] = tasks[q]
      BY <2>4, WritesWhere
    <3> QED
      BY <2>1, <2>2, <2>3, <2>4, <3>1 DEF Once
  <2>5. CASE q = r
    <3>1. /\ Has(k, tasks'[r]) => Has(k, tasks[r])
          /\ Records(k, e) => Has(k, tasks[r]) /\ ~Has(k, tasks'[r])
          /\ Single(k, tasks'[r])
      <4>1. Single(k, tasks[r]) /\ t \in tasks[r]
        BY <2>1, <2>5 DEF Once, Writes
      <4>2. Records(k, e) <=> Records(k, Head(t))
        BY DEF Records, Writes
      <4> DEFINE T == tasks[r]
                 U == tasks'[r]
      <4>3. T \subseteq Seq(EventsOf(r)) \ {<< >>} /\ U = Rest(T, t)
        BY WritesWhere
      <4>4. t \in T /\ Single(k, T)
        BY <4>1
      <4> HIDE DEF T, U
      <4>5. /\ Has(k, U) => Has(k, T)
            /\ Records(k, Head(t)) => Has(k, T) /\ ~Has(k, U)
            /\ Single(k, U)
        BY <4>3, <4>4, Popped
      <4> QED
        BY <4>2, <4>5 DEF T, U
    <3>2. CASE Records(k, e)
      BY <2>1, <2>2, <2>3, <2>5, <3>1, <3>2 DEF Once
    <3>3. CASE ~Records(k, e)
      BY <2>1, <2>2, <2>3, <2>5, <3>1, <3>3 DEF Once
    <3> QED
      BY <3>2, <3>3
  <2> QED
    BY <2>4, <2>5
<1> QED
  BY <1>1, <1>2 DEF RecordingInv, OnceInv

LEMMA WritesLed ==
    ASSUME RecordingInv, NEW r \in Requests, NEW t, NEW e, Writes(r, t, e)
    PROVE  LeadInv' /\ StartedLeads'
<1>1. \A q \in Requests : Opening(q)' = Opening(q) /\ E("started", q)' = E("started", q)
  BY SameEvents DEF Writes
<1>2. Len(queue) \in Nat /\ e.request = r
  BY WritesWhere
(* The channel only grows at its end. *)
<1>3. ASSUME NEW q \in Requests, NEW i \in 0 .. Len(queue), Led(q, i),
             NEW j \in i .. Len(queue')
      PROVE  Led(q, j)'
  <2>1. CASE db.rows[session[q]].there
    BY <2>1 DEF Writes, Led
  <2>2. ASSUME NEW m \in 1 .. i, queue[m] = E("started", q)
        PROVE  \E n \in 1 .. j : queue'[n] = E("started", q)'
    <3>1. m \in 1 .. Len(queue) /\ m \in 1 .. j
      BY <1>2, <1>3
    <3>2. queue'[m] = queue[m]
      BY <3>1, WritesWhere
    <3> QED
      BY <1>1, <2>2, <3>1, <3>2
  <2> QED
    BY <1>3, <2>1, <2>2 DEF Led
<1>4. Len(queue') \in Nat /\ Len(queue') >= Len(queue)
  BY <1>2, WritesWhere
<1>5. UNCHANGED <<handler, session, phase, db>> /\ (~spoiled' => ~spoiled)
  BY WritesWhere DEF Writes
<1>6. ASSUME NEW q \in Requests, handler[q] \in Routed, q # r
      PROVE  /\ phase[q] = "new" => tasks'[q] = {}
             /\ \A u \in tasks'[q] : \A i \in 2 .. Len(u) : u[i].kind # "started"
             /\ phase[q] = "new" \/ Opening(q) \in tasks'[q] => Unheard(q)'
             /\ Opening(q) \in tasks'[q] => tasks'[q] = {Opening(q)} /\ phase[q] = "waiting"
             /\ ~spoiled' /\ phase[q] # "new" /\ Opening(q) \notin tasks'[q] => Led(q, Len(queue))'
  <2>1. tasks'[q] = tasks[q]
    BY <1>6, WritesWhere
  <2>2. Unheard(q) => Unheard(q)'
    <3>1. CASE queue' = queue
      BY <3>1 DEF Unheard
    <3>2. CASE /\ Len(queue') = Len(queue) + 1
               /\ \A i \in 1 .. Len(queue) : queue'[i] = queue[i]
               /\ queue'[Len(queue) + 1] = e
      BY <1>2, <1>6, <3>2 DEF Unheard
    <3> QED
      BY <3>1, <3>2, WritesWhere
  <2>3. Led(q, Len(queue)) => Led(q, Len(queue))'
    BY <1>2, <1>3, <1>4
  <2> QED
    BY <1>5, <1>6, <2>1, <2>2, <2>3 DEF RecordingInv, LeadInv
(* The task of a routed request is its opening, or that has been written.  *)
<1>7. ASSUME handler[r] \in Routed
      PROVE  /\ phase[r] # "new"
             /\ \A u \in tasks'[r] : \A i \in 2 .. Len(u) : u[i].kind # "started"
             /\ Opening(r) \notin tasks'[r]
             /\ ~spoiled' => Led(r, Len(queue))'
             /\ ~spoiled' /\ e.kind # "started" => Led(r, Len(queue))
  <2>1. /\ phase[r] # "new"
        /\ \A u \in tasks[r] : \A i \in 2 .. Len(u) : u[i].kind # "started"
        /\ Opening(r) \in tasks[r] => tasks[r] = {Opening(r)}
        /\ ~spoiled /\ Opening(r) \notin tasks[r] => Led(r, Len(queue))
    BY <1>7 DEF RecordingInv, LeadInv, Writes
  <2>2. /\ t \in Seq(EventsOf(r)) /\ t # << >> /\ t \in tasks[r]
        /\ Head(t) = t[1]
    <3>1. t \in tasks[r]
      BY DEF Writes
    <3>2. t \in Seq(EventsOf(r)) /\ t # << >>
      BY <3>1, WritesWhere
    <3> QED
      BY <3>1, <3>2
  <2>3. \A i \in 1 .. Len(Tail(t)) : Tail(t)[i].kind # "started"
    <3>1. \A i \in 1 .. Len(Tail(t)) : i + 1 \in 2 .. Len(t) /\ Tail(t)[i] = t[i + 1]
      BY <2>2
    <3> QED
      BY <2>1, <2>2, <3>1
  <2>4. /\ Opening(r) = <<E("started", r), E("request", r)>>
        /\ E("started", r).kind = "started"
        /\ Opening(r)[1].kind = "started" /\ 1 \in 1 .. Len(Opening(r))
    BY DEF Opening, E, Blank
  <2>5. Opening(r) # Tail(t)
    BY <2>3, <2>4
  <2>6. \A u \in tasks'[r] : u \in tasks[r] \ {t} \/ u = Tail(t)
    BY WritesWhere DEF Rest
  <2>7. Len(Tail(t)) \in Nat
    BY <2>2
  <2>8. \A u \in tasks'[r] : \A i \in 2 .. Len(u) : u[i].kind # "started"
    <3>1. \A i \in 2 .. Len(Tail(t)) : Tail(t)[i].kind # "started"
      BY <2>3, <2>7
    <3> QED
      BY <2>1, <2>6, <3>1
  <2>9. Opening(r) \notin tasks'[r]
    BY <2>1, <2>2, <2>5, <2>6
  <2>10. CASE Opening(r) \notin tasks[r]
    BY <1>2, <1>3, <1>4, <1>5, <2>1, <2>8, <2>9, <2>10
  <2>11. CASE Opening(r) \in tasks[r]
    <3>1. e = E("started", r)
      BY <2>1, <2>2, <2>4, <2>11 DEF Writes
    <3>2. ASSUME ~spoiled' PROVE Led(r, Len(queue))'
      <4>1. Len(queue) + 1 \in 1 .. Len(queue') /\ queue'[Len(queue) + 1] = e
        BY <1>2, <3>2, WritesWhere
      <4> QED
        BY <1>1, <3>1, <4>1 DEF Led
    <3> QED
      BY <2>1, <2>4, <2>8, <2>9, <3>1, <3>2
  <2> QED
    BY <2>10, <2>11
<1>8. LeadInv'
  <2>1. \A q \in Requests \ {r} : handler[q] \in Routed =>
          /\ phase[q] = "new" => tasks'[q] = {}
          /\ \A u \in tasks'[q] : \A i \in 2 .. Len(u) : u[i].kind # "started"
          /\ phase[q] = "new" \/ Opening(q) \in tasks'[q] => Unheard(q)'
          /\ Opening(q) \in tasks'[q] => tasks'[q] = {Opening(q)} /\ phase[q] = "waiting"
          /\ ~spoiled' /\ phase[q] # "new" /\ Opening(q) \notin tasks'[q] => Led(q, Len(queue))'
    BY <1>6
  <2>2. handler[r] \in Routed =>
          /\ phase[r] = "new" => tasks'[r] = {}
          /\ \A u \in tasks'[r] : \A i \in 2 .. Len(u) : u[i].kind # "started"
          /\ phase[r] = "new" \/ Opening(r) \in tasks'[r] => Unheard(r)'
          /\ Opening(r) \in tasks'[r] => tasks'[r] = {Opening(r)} /\ phase[r] = "waiting"
          /\ ~spoiled' /\ phase[r] # "new" /\ Opening(r) \notin tasks'[r] => Led(r, Len(queue))'
    BY <1>7
  <2> QED
    BY <1>1, <1>5, <2>1, <2>2 DEF LeadInv
<1>9. StartedLeads'
  <2> SUFFICES ASSUME NEW q \in Requests, handler[q] \in Routed, ~spoiled',
                      NEW i \in 1 .. Len(queue'),
                      queue'[i].request = q, queue'[i].kind # "started"
               PROVE  Led(q, i)'
    BY <1>5 DEF StartedLeads, Led
  <2>1. ~spoiled
    BY <1>5
  <2>2. CASE i \in 1 .. Len(queue)
    <3>1. queue'[i] = queue[i]
      BY <1>2, <2>2, WritesWhere
    <3>2. Led(q, i)
      BY <2>1, <2>2, <3>1 DEF RecordingInv, StartedLeads, Led
    <3> QED
      BY <1>2, <1>3, <1>4, <2>2, <3>2
  <2>3. CASE i \notin 1 .. Len(queue)
    <3>1. i = Len(queue) + 1 /\ queue'[i] = e
      BY <1>2, <2>3, WritesWhere
    <3>2. q = r /\ Led(r, Len(queue))
      BY <1>2, <1>7, <3>1
    <3> QED
      BY <1>2, <1>3, <1>4, <3>1, <3>2
  <2> QED
    BY <2>2, <2>3
<1> QED
  BY <1>8, <1>9

LEMMA WritesQuiet ==
    ASSUME RecordingInv, NEW r \in Requests, NEW t, NEW e, Writes(r, t, e) PROVE ResponseInv'
<1>1. UNCHANGED <<handler, session, phase, db>>
  BY DEF Writes
<1>2. Len(queue) \in Nat /\ e.request = r
  BY WritesWhere
<1>3. ASSUME NEW q \in Requests, NEW i \in 0 .. Len(queue), Silent(q, i) PROVE Silent(q, i)'
  <2>1. \A j \in 1 .. i : queue'[j] = queue[j]
    BY <1>2, WritesWhere
  <2> QED
    BY <1>1, <1>3, <2>1 DEF Silent
<1>4. ASSUME NEW q \in Requests, Silent(q, Len(queue)), q # r \/ e.tokens = 0
      PROVE  Silent(q, Len(queue))'
  <2>1. \A j \in 1 .. Len(queue') :
            (j \in 1 .. Len(queue) /\ queue'[j] = queue[j]) \/ queue'[j] = e
    BY <1>2, WritesWhere
  <2> QED
    BY <1>1, <1>2, <1>4, <2>1 DEF Silent
<1>5. ASSUME NEW q \in Requests, handler[q] = "send"
      PROVE  /\ phase[q] # "ended" \/ Has("stats", tasks'[q]) => Silent(q, Len(queue))'
             /\ phase[q] # "ended" => \A u \in tasks'[q] : \A j \in 1 .. Len(u) : u[j].tokens = 0
             /\ First("stats", tasks'[q])
             /\ \A i \in Queued("stats", q)' : Silent(q, i - 1)'
  <2>1. /\ phase[q] # "ended" \/ Has("stats", tasks[q]) => Silent(q, Len(queue))
        /\ phase[q] # "ended" => \A u \in tasks[q] : \A j \in 1 .. Len(u) : u[j].tokens = 0
        /\ First("stats", tasks[q])
        /\ \A i \in Queued("stats", q) : Silent(q, i - 1)
    BY <1>5 DEF RecordingInv, ResponseInv
  <2>2. ASSUME NEW i \in Queued("stats", q)' PROVE Silent(q, i - 1)'
    <3>1. CASE i \in 1 .. Len(queue) /\ queue'[i] = queue[i]
      <4>1. i \in Queued("stats", q) /\ i - 1 \in 0 .. Len(queue)
        BY <1>2, <2>2, <3>1 DEF Queued
      <4> QED
        BY <1>3, <2>1, <4>1
    <3>2. CASE i = Len(queue) + 1 /\ queue'[i] = e
      <4>1. q = r /\ Records("stats", e)
        BY <1>2, <2>2, <3>2 DEF Queued
      <4>2. Has("stats", tasks[r])
        <5>1. t \in tasks[r] /\ Records("stats", Head(t))
          BY <4>1 DEF Writes, Records
        <5>2. t \in Seq(EventsOf(r)) /\ t # << >>
          BY <5>1, WritesWhere
        <5>3. Head(t) = t[1] /\ 1 \in 1 .. Len(t)
          BY <5>2
        <5> QED
          BY <5>1, <5>3 DEF Has
      <4>3. Silent(q, Len(queue))
        BY <2>1, <4>1, <4>2
      <4> QED
        BY <1>2, <1>3, <3>2, <4>3
    <3> QED
      BY <1>2, <2>2, <3>1, <3>2, WritesWhere DEF Queued
  <2>3. CASE q # r
    BY <1>4, <2>1, <2>2, <2>3, WritesWhere
  <2>4. CASE q = r
    <3> DEFINE T == tasks[r]
               U == tasks'[r]
    <3>1. T \subseteq Seq(EventsOf(r)) \ {<< >>} /\ U = Rest(T, t)
      BY WritesWhere
    <3>2. t \in T /\ First("stats", T)
      BY <2>1, <2>4 DEF Writes
    <3> HIDE DEF T, U
    <3>3. ~Has("stats", U)
      BY <3>1, <3>2, Popped
    <3>4. /\ t # << >> /\ t \in Seq(EventsOf(r)) /\ Head(t) = t[1] /\ 1 \in 1 .. Len(t)
          /\ \A j \in 1 .. Len(Tail(t)) : j + 1 \in 1 .. Len(t) /\ Tail(t)[j] = t[j + 1]
      BY <3>1, <3>2
    <3>5. ASSUME phase[q] # "ended"
          PROVE  e.tokens = 0 /\ \A u \in U : \A j \in 1 .. Len(u) : u[j].tokens = 0
      <4>1. \A u \in T : \A j \in 1 .. Len(u) : u[j].tokens = 0
        BY <2>1, <2>4, <3>5 DEF T
      <4>2. e.tokens = 0
        BY <3>2, <3>4, <4>1 DEF Writes
      <4>3. \A j \in 1 .. Len(Tail(t)) : Tail(t)[j].tokens = 0
        BY <3>2, <3>4, <4>1
      <4> QED
        BY <3>1, <4>1, <4>2, <4>3 DEF Rest
    <3>6. First("stats", U)
      BY <3>3 DEF First, Has
    <3> QED
      BY <1>4, <2>1, <2>2, <2>4, <3>3, <3>5, <3>6 DEF U
  <2> QED
    BY <2>3, <2>4
<1> QED
  BY <1>1, <1>5 DEF ResponseInv

LEMMA WriteEventKeeps ==
    ASSUME RecordingInv, NEW r \in Requests, WriteEvent(r) PROVE RecordingInv'
<1>1. PICK t, e : Writes(r, t, e)
  BY WriteEventWrites
<1>2. RoutedApart' /\ TablesInv'
  BY <1>1 DEF Writes, RecordingInv, RoutedApart, TablesInv, Sound
<1> QED
  BY <1>1, <1>2, WritesTyped, WritesOnce, WritesLed, WritesQuiet DEF RecordingInv

-----------------------------------------------------------------------------
(* What one event does to the tables.                                      *)

Effect(d, f, e) ==
    /\ f \in Tables
    /\ \A s \in Sessions :
          /\ d.rows[s].there => f.rows[s].there
          /\ f.rows[s].there \/ f.rows[s] = d.rows[s]
          /\ f.rows[s].tokens # d.rows[s].tokens => s = e.session /\ f.rows[s].tokens = e.tokens
          /\ f.rows[s].tokens >= d.rows[s].tokens \/ (e.kind = "response" /\ s = e.session)
    /\ e.kind = "started" => f.rows[e.session].there
    /\ \A r \in Requests :
          /\ f.stats[r] = d.stats[r] + (IF Records("stats", e) /\ r = e.request THEN 1 ELSE 0)
          /\ f.streams[r] = d.streams[r] + (IF Records("streams", e) /\ r = e.request THEN 1 ELSE 0)
    /\ \A r \in Requests, t \in Tools :
          \/ f.counts[<<r, t>>] >= d.counts[<<r, t>>]
                 + (IF e.kind = "tool" /\ r = e.request /\ t = e.tool THEN 1 ELSE 0)
          \/ e.kind = "completed" /\ e.calls > 0 /\ r = e.request
    /\ \A r \in Requests, c \in Requests :
          \/ f.execs[<<r, c>>] = d.execs[<<r, c>>]
          \/ /\ e.kind = "tool" /\ r = e.request /\ c = e.call
             /\ d.execs[<<r, c>>] = NoExecution /\ f.execs[<<r, c>>] = e.tool

(* The fields of the tables.                                               *)
LEMMA TablesFields ==
    ASSUME NEW d, d \in Tables
    PROVE  /\ DOMAIN d = {"rows", "counts", "execs", "stats", "streams"}
           /\ d.rows \in [Sessions -> Row]
           /\ \A s \in Sessions : d.rows[s].there \in BOOLEAN /\ d.rows[s].tokens \in Nat
           /\ d.counts \in [Requests \X Tools -> Nat]
           /\ d.execs \in [Requests \X Requests -> Tools \cup {NoExecution}]
           /\ d.stats \in [Requests -> Nat] /\ d.streams \in [Requests -> Nat]
BY DEF Tables, Row

(* One row of a table is written.                                          *)
LEMMA PutRow ==
    ASSUME NEW d, d \in Tables, NEW s \in Sessions, NEW row \in Row
    PROVE  LET f == [d EXCEPT !.rows[s] = row] IN
           /\ f \in Tables /\ f.rows = [d.rows EXCEPT ![s] = row]
           /\ f.counts = d.counts /\ f.execs = d.execs /\ f.stats = d.stats /\ f.streams = d.streams
BY DEF Tables, Row

LEMMA PutCount ==
    ASSUME NEW d, d \in Tables, NEW r \in Requests, NEW t \in Tools, NEW n \in Nat
    PROVE  LET f == [d EXCEPT !.counts[<<r, t>>] = n] IN
           /\ f \in Tables /\ f.counts = [d.counts EXCEPT ![<<r, t>>] = n]
           /\ f.rows = d.rows /\ f.execs = d.execs /\ f.stats = d.stats /\ f.streams = d.streams
BY DEF Tables

LEMMA PutExec ==
    ASSUME NEW d, d \in Tables, NEW r \in Requests, NEW c \in Requests,
           NEW x \in Tools \cup {NoExecution}
    PROVE  LET f == [d EXCEPT !.execs[<<r, c>>] = x] IN
           /\ f \in Tables /\ f.execs = [d.execs EXCEPT ![<<r, c>>] = x]
           /\ f.rows = d.rows /\ f.counts = d.counts /\ f.stats = d.stats /\ f.streams = d.streams
BY DEF Tables

LEMMA PutStats ==
    ASSUME NEW d, d \in Tables, NEW r \in Requests, NEW n \in Nat
    PROVE  LET f == [d EXCEPT !.stats[r] = n] IN
           /\ f \in Tables /\ f.stats = [d.stats EXCEPT ![r] = n]
           /\ f.rows = d.rows /\ f.counts = d.counts /\ f.execs = d.execs /\ f.streams = d.streams
BY DEF Tables

LEMMA PutStreams ==
    ASSUME NEW d, d \in Tables, NEW r \in Requests, NEW n \in Nat
    PROVE  LET f == [d EXCEPT !.streams[r] = n] IN
           /\ f \in Tables /\ f.streams = [d.streams EXCEPT ![r] = n]
           /\ f.rows = d.rows /\ f.counts = d.counts /\ f.execs = d.execs /\ f.stats = d.stats
BY DEF Tables

LEMMA StartedEffect ==
    ASSUME NEW d, Sound(d), NEW e \in Event, e.kind = "started"
    PROVE  Effect(d, Started(d, e), e)
<1> USE DEF Event
<1>1. d \in Tables
  BY DEF Sound
<1>2. CASE d.rows[e.session].there
  <2>1. Started(d, e) = d
    BY <1>2 DEF Started
  <2>2. Effect(d, d, e)
    BY <1>1, <1>2, TablesFields DEF Effect, Records
  <2> QED
    BY <2>1, <2>2
<1>3. CASE ~d.rows[e.session].there
  <2> DEFINE f == [d EXCEPT !.rows[e.session] = NewRow]
  <2>1. /\ f \in Tables
        /\ f.rows = [d.rows EXCEPT ![e.session] = NewRow]
        /\ f.counts = d.counts /\ f.execs = d.execs /\ f.stats = d.stats /\ f.streams = d.streams
    <3>1. NewRow \in Row
      BY DEF Row, NewRow, NoRow
    <3> QED
      BY <1>1, <3>1, PutRow
  <2>2. NewRow.there = TRUE /\ NewRow.tokens = 0
    BY DEF NewRow, NoRow
  <2>3. Started(d, e) = f
    BY <1>3 DEF Started
  <2> HIDE DEF f
  <2>4. d.rows[e.session].tokens = 0
    BY <1>3 DEF Sound
  <2> QED
    <3>1. \A s \in Sessions :
            /\ f.rows[s] = IF s = e.session THEN NewRow ELSE d.rows[s]
            /\ d.rows[s].tokens \in Nat
      BY <1>1, <2>1, TablesFields
    <3>2. \A s \in Sessions :
            /\ d.rows[s].there => f.rows[s].there
            /\ f.rows[s].there \/ f.rows[s] = d.rows[s]
            /\ f.rows[s].tokens = d.rows[s].tokens
            /\ f.rows[s].tokens >= d.rows[s].tokens
      BY <2>2, <2>4, <3>1
    <3>3. f.rows[e.session].there
      BY <2>2, <3>1
    <3> QED
      BY <1>1, <2>1, <2>3, <3>2, <3>3, TablesFields DEF Effect, Records
<1> QED
  BY <1>2, <1>3

LEMMA ResponseEffect ==
    ASSUME NEW d, Sound(d), NEW e \in Event, e.kind = "response", ~Fails(d, e)
    PROVE  Effect(d, ResponseRecorded(d, e), e)
<1> USE DEF Event
<1> DEFINE row == [d.rows[e.session] EXCEPT !.tokens = e.tokens]
           g == [d EXCEPT !.rows[e.session] = row]
           f == [g EXCEPT !.stats[e.request] = d.stats[e.request] + 1]
<1>1. d \in Tables /\ d.rows[e.session].there /\ d.stats[e.request] + 1 \in Nat
  BY TablesFields DEF Sound, Fails, Inserts
<1>2. f = ResponseRecorded(d, e)
  BY <1>1 DEF ResponseRecorded
<1>3. row \in Row /\ row.there /\ row.tokens = e.tokens
  BY <1>1, TablesFields DEF Row
<1> HIDE DEF row
<1>4. /\ g \in Tables /\ g.rows = [d.rows EXCEPT ![e.session] = row]
      /\ g.counts = d.counts /\ g.execs = d.execs /\ g.stats = d.stats /\ g.streams = d.streams
  BY <1>1, <1>3, PutRow
<1> HIDE DEF g
<1>5. /\ f \in Tables /\ f.stats = [g.stats EXCEPT ![e.request] = d.stats[e.request] + 1]
      /\ f.rows = g.rows /\ f.counts = g.counts /\ f.execs = g.execs /\ f.streams = g.streams
  BY <1>1, <1>4, PutStats
<1> HIDE DEF f
<1>6. \A s \in Sessions :
        /\ d.rows[s].there => f.rows[s].there
        /\ f.rows[s].there \/ f.rows[s] = d.rows[s]
        /\ f.rows[s].tokens # d.rows[s].tokens => s = e.session /\ f.rows[s].tokens = e.tokens
        /\ f.rows[s].tokens >= d.rows[s].tokens \/ s = e.session
  BY <1>1, <1>3, <1>4, <1>5, TablesFields DEF Row
<1>7. \A r \in Requests : f.stats[r] = d.stats[r] + (IF r = e.request THEN 1 ELSE 0)
  BY <1>1, <1>4, <1>5, TablesFields
<1>8. Effect(d, f, e)
  BY <1>1, <1>4, <1>5, <1>6, <1>7, TablesFields DEF Effect, Records
<1> QED
  BY <1>2, <1>8

LEMMA ToolEffect ==
    ASSUME NEW d, Sound(d), NEW e \in Event, e.kind = "tool"
    PROVE  Effect(d, ToolCallRecorded(d, e), e)
<1> USE DEF Event
<1> DEFINE old == d.execs[<<e.request, e.call>>]
           x == IF old = NoExecution THEN e.tool ELSE old
           n == d.counts[<<e.request, e.tool>>] + 1
           g == [d EXCEPT !.counts[<<e.request, e.tool>>] = n]
           f == [g EXCEPT !.execs[<<e.request, e.call>>] = x]
<1>1. d \in Tables /\ n \in Nat /\ x \in Tools \cup {NoExecution}
  <2>1. d \in Tables
    BY DEF Sound
  <2>2. d.counts \in [Requests \X Tools -> Nat] /\ d.execs \in [Requests \X Requests -> Tools \cup {NoExecution}]
    BY <2>1, TablesFields
  <2> QED
    BY <2>1, <2>2
<1>2. f = ToolCallRecorded(d, e)
  BY <1>1 DEF ToolCallRecorded
<1> HIDE DEF n, x
<1>3. /\ g \in Tables /\ g.counts = [d.counts EXCEPT ![<<e.request, e.tool>>] = n]
      /\ g.rows = d.rows /\ g.execs = d.execs /\ g.stats = d.stats /\ g.streams = d.streams
  BY <1>1, PutCount
<1> HIDE DEF g
<1>4. /\ f \in Tables /\ f.execs = [g.execs EXCEPT ![<<e.request, e.call>>] = x]
      /\ f.rows = g.rows /\ f.counts = g.counts /\ f.stats = g.stats /\ f.streams = g.streams
  BY <1>1, <1>3, PutExec
<1> HIDE DEF f
<1>5. ASSUME NEW r \in Requests, NEW t \in Tools
      PROVE  f.counts[<<r, t>>] >= d.counts[<<r, t>>] + (IF r = e.request /\ t = e.tool THEN 1 ELSE 0)
  <2>1. d.counts \in [Requests \X Tools -> Nat] /\ <<r, t>> \in Requests \X Tools
    BY <1>1, TablesFields
  <2>2. CASE r = e.request /\ t = e.tool
    BY <1>3, <1>4, <2>1, <2>2 DEF n
  <2>3. CASE ~(r = e.request /\ t = e.tool)
    BY <1>3, <1>4, <2>1, <2>3
  <2> QED
    BY <2>2, <2>3
<1>6. ASSUME NEW r \in Requests, NEW c \in Requests
      PROVE  \/ f.execs[<<r, c>>] = d.execs[<<r, c>>]
             \/ /\ r = e.request /\ c = e.call
                /\ d.execs[<<r, c>>] = NoExecution /\ f.execs[<<r, c>>] = e.tool
  <2>1. d.execs \in [Requests \X Requests -> Tools \cup {NoExecution}] /\ <<r, c>> \in Requests \X Requests
    BY <1>1, TablesFields
  <2>2. CASE r = e.request /\ c = e.call
    BY <1>3, <1>4, <2>1, <2>2 DEF x
  <2>3. CASE ~(r = e.request /\ c = e.call)
    BY <1>3, <1>4, <2>1, <2>3
  <2> QED
    BY <2>2, <2>3
<1>7. f.rows = d.rows /\ f.stats = d.stats /\ f.streams = d.streams
  BY <1>3, <1>4
<1>8. Effect(d, f, e)
  BY <1>1, <1>4, <1>5, <1>6, <1>7, TablesFields DEF Effect, Records, Row
<1> QED
  BY <1>2, <1>8

(* MAX(COALESCE(tokens, 0), ?): the row keeps the rest.                    *)
LEMMA RaisedIs ==
    ASSUME NEW d, d \in Tables, NEW e \in Event
    PROVE  LET f == RaisedTokens(d, e) IN
           /\ f \in Tables
           /\ \A s \in Sessions :
                 /\ f.rows[s].there = d.rows[s].there
                 /\ s # e.session => f.rows[s] = d.rows[s]
                 /\ f.rows[s].tokens >= d.rows[s].tokens
                 /\ f.rows[s].tokens # d.rows[s].tokens => s = e.session /\ f.rows[s].tokens = e.tokens
           /\ f.counts = d.counts /\ f.execs = d.execs /\ f.stats = d.stats /\ f.streams = d.streams
<1> USE DEF Event
<1> DEFINE n == Larger(d.rows[e.session].tokens, e.tokens)
           row == [d.rows[e.session] EXCEPT !.tokens = n]
           f == [d EXCEPT !.rows[e.session] = row]
<1>1. f = RaisedTokens(d, e)
  BY DEF RaisedTokens
<1>2. d.rows \in [Sessions -> Row] /\ d.rows[e.session].tokens \in Nat
  BY TablesFields DEF Row
<1>3. n \in Nat /\ n >= d.rows[e.session].tokens /\ n \in {d.rows[e.session].tokens, e.tokens}
  BY <1>2 DEF Larger
<1> HIDE DEF n
<1>4. row \in Row /\ row.there = d.rows[e.session].there /\ row.tokens = n
  BY <1>2, <1>3 DEF Row
<1> HIDE DEF row
<1>5. /\ f \in Tables /\ f.rows = [d.rows EXCEPT ![e.session] = row]
      /\ f.counts = d.counts /\ f.execs = d.execs /\ f.stats = d.stats /\ f.streams = d.streams
  BY <1>4, PutRow
<1> HIDE DEF f
<1>6. \A s \in Sessions :
        /\ f.rows[s].there = d.rows[s].there
        /\ s # e.session => f.rows[s] = d.rows[s]
        /\ f.rows[s].tokens >= d.rows[s].tokens
        /\ f.rows[s].tokens # d.rows[s].tokens => s = e.session /\ f.rows[s].tokens = e.tokens
  BY <1>2, <1>3, <1>4, <1>5 DEF Row
<1> QED
  BY <1>1, <1>5, <1>6

LEMMA StatsEffect ==
    ASSUME NEW d, Sound(d), NEW e \in Event, e.kind = "stats", ~Fails(d, e)
    PROVE  Effect(d, StatsUpdated(d, e), e)
<1> USE DEF Event
<1> DEFINE m == RaisedTokens(d, e)
           n == Larger(m.counts[<<e.request, Tool>>], e.calls)
           g == [m EXCEPT !.counts[<<e.request, Tool>>] = n]
           f == [g EXCEPT !.stats[e.request] = m.stats[e.request] + 1]
<1>1. d \in Tables /\ d.rows[e.session].there
  BY DEF Sound, Fails, Inserts
<1>2. /\ m \in Tables
      /\ \A s \in Sessions :
            /\ m.rows[s].there = d.rows[s].there
            /\ s # e.session => m.rows[s] = d.rows[s]
            /\ m.rows[s].tokens >= d.rows[s].tokens
            /\ m.rows[s].tokens # d.rows[s].tokens => s = e.session /\ m.rows[s].tokens = e.tokens
      /\ m.counts = d.counts /\ m.execs = d.execs /\ m.stats = d.stats /\ m.streams = d.streams
  BY <1>1, RaisedIs
<1> HIDE DEF m
<1>3. f = [m EXCEPT !.counts[<<e.request, Tool>>] = Larger(@, e.calls), !.stats[e.request] = @ + 1]
  BY <1>2
<1>4. /\ m.counts \in [Requests \X Tools -> Nat]
      /\ Tool \in Tools /\ <<e.request, Tool>> \in Requests \X Tools
      /\ m.stats[e.request] + 1 \in Nat
  <2>1. m.counts \in [Requests \X Tools -> Nat] /\ m.stats \in [Requests -> Nat]
    BY <1>2, TablesFields
  <2>2. Tool \in Tools
    BY DEF Tools
  <2> QED
    BY <2>1, <2>2
<1>5. n \in Nat /\ n >= m.counts[<<e.request, Tool>>]
  BY <1>4 DEF Larger
<1> HIDE DEF n
<1>6. /\ g \in Tables /\ g.counts = [m.counts EXCEPT ![<<e.request, Tool>>] = n]
      /\ g.rows = m.rows /\ g.execs = m.execs /\ g.stats = m.stats /\ g.streams = m.streams
  BY <1>2, <1>4, <1>5, PutCount
<1> HIDE DEF g
<1>7. /\ f \in Tables /\ f.stats = [g.stats EXCEPT ![e.request] = m.stats[e.request] + 1]
      /\ f.rows = g.rows /\ f.counts = g.counts /\ f.execs = g.execs /\ f.streams = g.streams
  BY <1>4, <1>6, PutStats
<1> HIDE DEF f
<1>8. \A s \in Sessions :
        /\ d.rows[s].there => f.rows[s].there
        /\ f.rows[s].there \/ f.rows[s] = d.rows[s]
        /\ f.rows[s].tokens # d.rows[s].tokens => s = e.session /\ f.rows[s].tokens = e.tokens
        /\ f.rows[s].tokens >= d.rows[s].tokens
  BY <1>1, <1>2, <1>6, <1>7
<1>9. ASSUME NEW r \in Requests, NEW t \in Tools PROVE f.counts[<<r, t>>] >= d.counts[<<r, t>>]
  <2>1. <<r, t>> \in Requests \X Tools
    OBVIOUS
  <2>2. CASE <<r, t>> = <<e.request, Tool>>
    BY <1>2, <1>4, <1>5, <1>6, <1>7, <2>2
  <2>3. CASE <<r, t>> # <<e.request, Tool>>
    BY <1>2, <1>4, <1>6, <1>7, <2>1, <2>3
  <2> QED
    BY <2>2, <2>3
<1>10. \A r \in Requests : f.stats[r] = d.stats[r] + (IF r = e.request THEN 1 ELSE 0)
  BY <1>1, <1>2, <1>6, <1>7, TablesFields
<1>11. f.execs = d.execs /\ f.streams = d.streams
  BY <1>2, <1>6, <1>7
<1>12. Effect(d, f, e)
  BY <1>1, <1>7, <1>8, <1>9, <1>10, <1>11, TablesFields DEF Effect, Records
<1> QED
  BY <1>3, <1>12 DEF m, StatsUpdated

LEMMA CompletedEffect ==
    ASSUME NEW d, Sound(d), NEW e \in Event, e.kind = "completed"
    PROVE  Effect(d, Completed(d, e), e)
<1> USE DEF Event
<1> DEFINE m == RaisedTokens(d, e)
           closed == IF d.rows[e.session].there
                     THEN [m EXCEPT !.rows[e.session].outcome = IF e.ok THEN "success" ELSE "error"]
                     ELSE d
           counted == IF e.calls > 0
                      THEN [closed EXCEPT !.counts[<<e.request, Tool>>] = e.calls] ELSE closed
           f == IF e.streamed THEN [counted EXCEPT !.streams[e.request] = @ + 1] ELSE counted
<1>1. d \in Tables
  BY DEF Sound
<1>2. /\ m \in Tables
      /\ \A s \in Sessions :
            /\ m.rows[s].there = d.rows[s].there
            /\ s # e.session => m.rows[s] = d.rows[s]
            /\ m.rows[s].tokens >= d.rows[s].tokens
            /\ m.rows[s].tokens # d.rows[s].tokens => s = e.session /\ m.rows[s].tokens = e.tokens
      /\ m.counts = d.counts /\ m.execs = d.execs /\ m.stats = d.stats /\ m.streams = d.streams
  BY <1>1, RaisedIs
<1> HIDE DEF m
<1>3. /\ closed \in Tables
      /\ \A s \in Sessions :
            /\ d.rows[s].there => closed.rows[s].there
            /\ closed.rows[s].there \/ closed.rows[s] = d.rows[s]
            /\ closed.rows[s].tokens # d.rows[s].tokens =>
                   s = e.session /\ closed.rows[s].tokens = e.tokens
            /\ closed.rows[s].tokens >= d.rows[s].tokens
      /\ closed.counts = d.counts /\ closed.execs = d.execs
      /\ closed.stats = d.stats /\ closed.streams = d.streams
  <2>1. CASE ~d.rows[e.session].there
    <3>1. closed = d
      BY <2>1
    <3> HIDE DEF closed
    <3>2. \A s \in Sessions : closed.rows[s] = d.rows[s] /\ d.rows[s].tokens \in Nat
      BY <1>1, <3>1, TablesFields
    <3> QED
      BY <1>1, <3>1, <3>2
  <2>2. CASE d.rows[e.session].there
    <3> DEFINE o == IF e.ok THEN "success" ELSE "error"
               row == [m.rows[e.session] EXCEPT !.outcome = o]
               g == [m EXCEPT !.rows[e.session] = row]
    <3>1. closed = g
      BY <2>2
    <3>2. row \in Row /\ row.there = m.rows[e.session].there /\ row.tokens = m.rows[e.session].tokens
      BY <1>2, TablesFields DEF Row
    <3> HIDE DEF closed, row
    <3>3. /\ g \in Tables /\ g.rows = [m.rows EXCEPT ![e.session] = row]
          /\ g.counts = m.counts /\ g.execs = m.execs /\ g.stats = m.stats /\ g.streams = m.streams
      BY <1>2, <3>2, PutRow
    <3> HIDE DEF g
    <3>4. \A s \in Sessions :
            /\ g.rows[s].there = m.rows[s].there /\ g.rows[s].tokens = m.rows[s].tokens
            /\ s # e.session => g.rows[s] = m.rows[s]
      BY <1>2, <3>2, <3>3, TablesFields
    <3>5. \A s \in Sessions :
            /\ d.rows[s].there => g.rows[s].there
            /\ g.rows[s].there \/ g.rows[s] = d.rows[s]
            /\ g.rows[s].tokens # d.rows[s].tokens => s = e.session /\ g.rows[s].tokens = e.tokens
            /\ g.rows[s].tokens >= d.rows[s].tokens
      BY <1>2, <2>2, <3>4
    <3> QED
      BY <1>2, <3>1, <3>3, <3>5
  <2> QED
    BY <2>1, <2>2
<1> HIDE DEF closed
<1>4. /\ counted \in Tables
      /\ counted.rows = closed.rows /\ counted.execs = d.execs
      /\ counted.stats = d.stats /\ counted.streams = d.streams
      /\ \A r \in Requests, t \in Tools :
            \/ counted.counts[<<r, t>>] >= d.counts[<<r, t>>]
            \/ e.calls > 0 /\ r = e.request
  <2>1. CASE ~(e.calls > 0)
    <3>1. counted = closed
      BY <2>1
    <3> HIDE DEF counted
    <3> QED
      BY <1>1, <1>3, <3>1, TablesFields
  <2>2. CASE e.calls > 0
    <3> DEFINE g == [closed EXCEPT !.counts[<<e.request, Tool>>] = e.calls]
    <3>1. /\ g \in Tables
          /\ g.counts = [closed.counts EXCEPT ![<<e.request, Tool>>] = e.calls]
          /\ g.rows = closed.rows /\ g.execs = closed.execs
          /\ g.stats = closed.stats /\ g.streams = closed.streams
      BY <1>3 DEF Tables, Tools
    <3>2. counted = g
      BY <2>2
    <3> HIDE DEF counted, g
    <3> QED
      BY <1>1, <1>3, <2>2, <3>1, <3>2, TablesFields
  <2> QED
    BY <2>1, <2>2
<1> HIDE DEF counted
<1>5. /\ f \in Tables
      /\ f.rows = closed.rows /\ f.execs = d.execs /\ f.stats = d.stats
      /\ f.counts = counted.counts
      /\ \A r \in Requests :
            f.streams[r] = d.streams[r] + (IF e.streamed /\ r = e.request THEN 1 ELSE 0)
  <2>1. CASE ~e.streamed
    <3>1. f = counted
      BY <2>1
    <3> HIDE DEF f
    <3> QED
      BY <1>1, <1>4, <2>1, <3>1, TablesFields
  <2>2. CASE e.streamed
    <3> DEFINE n == counted.streams[e.request] + 1
               g == [counted EXCEPT !.streams[e.request] = n]
    <3>0. n \in Nat
      BY <1>4, TablesFields
    <3>1. /\ g \in Tables
          /\ g.streams = [counted.streams EXCEPT ![e.request] = n]
          /\ g.rows = counted.rows /\ g.execs = counted.execs
          /\ g.stats = counted.stats /\ g.counts = counted.counts
      <4> HIDE DEF n
      <4> QED
        BY <1>4, <3>0, PutStreams
    <3>2. f = g
      BY <2>2
    <3> HIDE DEF f, g
    <3> QED
      BY <1>1, <1>4, <2>2, <3>1, <3>2, TablesFields
  <2> QED
    BY <2>1, <2>2
<1> HIDE DEF f
<1>6. Effect(d, f, e)
  <2>1. \A r \in Requests :
          /\ f.stats[r] = d.stats[r] + (IF Records("stats", e) /\ r = e.request THEN 1 ELSE 0)
          /\ f.streams[r] = d.streams[r] + (IF Records("streams", e) /\ r = e.request THEN 1 ELSE 0)
    BY <1>1, <1>5, TablesFields DEF Records
  <2> QED
    BY <1>1, <1>3, <1>4, <1>5, <2>1, TablesFields DEF Effect
<1> QED
  BY <1>6 DEF f, counted, closed, m, Completed

LEMMA AppliedEffect ==
    ASSUME NEW d, Sound(d), NEW e \in Event, ~Fails(d, e)
    PROVE  Effect(d, Applied(d, e), e)
<1>1. CASE e.kind = "started"
  BY <1>1, StartedEffect DEF Applied
<1>2. CASE e.kind \in {"first", "request"}
  <2>1. Applied(d, e) = d
    BY <1>2 DEF Applied, StreamStarted, RequestRecorded
  <2>2. d \in Tables
    BY DEF Sound
  <2>3. Effect(d, d, e)
    BY <1>2, <2>2, TablesFields DEF Effect, Records
  <2> QED
    BY <2>1, <2>3
<1>3. CASE e.kind = "response"
  BY <1>3, ResponseEffect DEF Applied
<1>4. CASE e.kind = "tool"
  BY <1>4, ToolEffect DEF Applied
<1>5. CASE e.kind = "stats"
  BY <1>5, StatsEffect DEF Applied
<1>6. CASE e.kind = "completed"
  BY <1>6, CompletedEffect DEF Applied
<1> QED
  BY <1>1, <1>2, <1>3, <1>4, <1>5, <1>6 DEF Event, Kinds

-----------------------------------------------------------------------------
(* A batch is committed.                                                   *)

LEMMA EffectIsSound ==
    ASSUME RecordingInv, NEW d, Sound(d), NEW e \in Recorded, NEW f, Effect(d, f, e)
    PROVE  Sound(f)
<1>1. f \in Tables /\ f.counts \in [Requests \X Tools -> Nat] /\ d \in Tables
      /\ d.counts \in [Requests \X Tools -> Nat]
  BY TablesFields DEF Effect, Sound
<1>2. ASSUME NEW s \in Sessions, ~f.rows[s].there PROVE f.rows[s].tokens = 0
  BY <1>2 DEF Effect, Sound
<1>3. ASSUME NEW r \in Requests, handler[r] = "send", NEW c \in Requests
      PROVE  f.execs[<<r, c>>] = NoExecution
  BY <1>3 DEF Effect, Sound, Recorded, Proper
<1>4. ASSUME NEW r \in Requests, NEW t \in Tools
      PROVE  f.counts[<<r, t>>] >= Cardinality({c \in Requests : f.execs[<<r, c>>] = t})
  <2> DEFINE D == {c \in Requests : d.execs[<<r, c>>] = t}
             F == {c \in Requests : f.execs[<<r, c>>] = t}
  <2>1. IsFiniteSet(D) /\ Cardinality(D) \in Nat /\ d.counts[<<r, t>>] >= Cardinality(D)
    <3>1. IsFiniteSet(D)
      BY RequestsFinite, FS_Subset
    <3> QED
      BY <3>1, FS_CardinalityType DEF Sound
  <2>2. d.counts[<<r, t>>] \in Nat /\ f.counts[<<r, t>>] \in Nat
    <3>1. <<r, t>> \in Requests \X Tools
      OBVIOUS
    <3> QED
      BY <1>1, <3>1
  <2>3. CASE e.kind = "completed" /\ e.calls > 0 /\ r = e.request
    <3>1. handler[r] = "send"
      BY <2>3 DEF Recorded, Proper
    <3>2. F = {}
      BY <1>3, <3>1, TablesAssumption DEF Tools
    <3>3. Cardinality(F) = 0
      BY <3>2, FS_EmptySet
    <3> QED
      BY <2>2, <3>3
  <2>4. CASE /\ e.kind = "tool" /\ r = e.request /\ t = e.tool
             /\ f.counts[<<r, t>>] >= d.counts[<<r, t>>] + 1
    <3>1. F \subseteq D \cup {e.call}
      BY <2>4 DEF Effect
    <3> HIDE DEF D, F
    <3> DEFINE c == e.call
    <3> HIDE DEF c
    <3>2. /\ IsFiniteSet(D \cup {c}) /\ Cardinality(D \cup {c}) \in Nat
          /\ Cardinality(D \cup {c}) <= Cardinality(D) + 1
      <4>1. /\ IsFiniteSet(D \cup {c})
            /\ Cardinality(D \cup {c}) = IF c \in D THEN Cardinality(D) ELSE Cardinality(D) + 1
        BY <2>1, FS_AddElement
      <4> QED
        BY <2>1, <4>1
    <3>3. Cardinality(F) <= Cardinality(D \cup {c}) /\ Cardinality(F) \in Nat
      BY <3>1, <3>2, FS_Subset, FS_CardinalityType DEF c
    <3> QED
      BY <2>1, <2>2, <2>4, <3>2, <3>3 DEF F
  <2>5. CASE /\ ~(e.kind = "tool" /\ r = e.request /\ t = e.tool)
             /\ f.counts[<<r, t>>] >= d.counts[<<r, t>>]
    <3>1. F \subseteq D
      BY <2>5 DEF Effect
    <3> HIDE DEF D, F
    <3>2. Cardinality(F) <= Cardinality(D) /\ Cardinality(F) \in Nat
      BY <2>1, <3>1, FS_Subset, FS_CardinalityType
    <3> QED
      BY <2>1, <2>2, <2>5, <3>2 DEF F
  <2>6. \/ f.counts[<<r, t>>] >= d.counts[<<r, t>>]
               + (IF e.kind = "tool" /\ r = e.request /\ t = e.tool THEN 1 ELSE 0)
        \/ e.kind = "completed" /\ e.calls > 0 /\ r = e.request
    BY DEF Effect
  <2> QED
    BY <2>2, <2>3, <2>4, <2>5, <2>6
<1> QED
  BY <1>1, <1>2, <1>3, <1>4 DEF Sound

(* The tables after each event of a batch of the channel.                  *)
Runs(d, n) ==
    /\ d[0] = db
    /\ \A i \in 1 .. n : ~Fails(d[i - 1], queue[i]) /\ d[i] = Applied(d[i - 1], queue[i])

LEMMA TransactionRuns ==
    ASSUME NEW tables, NEW batch, Len(batch) \in Nat
    PROVE  \E tx : /\ tx[0] = [failed |-> FALSE, db |-> tables]
                   /\ \A i \in 1 .. Len(batch) : tx[i] = Statement(tx[i - 1], batch[i])
                   /\ Transaction(tables, batch) = tx[Len(batch)]
<1> DEFINE n == Len(batch)
           Start == [failed |-> FALSE, db |-> tables]
           Follows(f, m) == f[0] = Start /\ \A i \in 1 .. m : f[i] = Statement(f[i - 1], batch[i])
           G == {m \in 0 .. n : \E f : Follows(f, m)}
           Equation(f) == f = [i \in 0 .. n |-> IF i = 0 THEN Start ELSE Statement(f[i - 1], batch[i])]
<1>1. 0 \in G
  <2>1. Follows([i \in {0} |-> Start], 0)
    OBVIOUS
  <2> HIDE DEF Follows
  <2> QED
    BY <2>1
<1>2. ASSUME NEW m \in 0 .. n - 1, m \in G PROVE m + 1 \in G
  <2>1. PICK f : Follows(f, m)
    BY <1>2
  <2> DEFINE g == [i \in 0 .. m + 1 |-> IF i = m + 1 THEN Statement(f[m], batch[m + 1]) ELSE f[i]]
  <2>2. g[0] = Start
    BY <2>1
  <2>3. ASSUME NEW i \in 1 .. m + 1 PROVE g[i] = Statement(g[i - 1], batch[i])
    <3>1. CASE i = m + 1
      BY <3>1
    <3>2. CASE i \in 1 .. m
      BY <2>1, <3>2
    <3> QED
      BY <3>1, <3>2
  <2> HIDE DEF g
  <2>4. Follows(g, m + 1)
    BY <2>2, <2>3
  <2> HIDE DEF Follows
  <2> QED
    BY <2>4
<1>3. PICK f : Follows(f, n)
  <2>1. 0 .. n \subseteq G
    <3> HIDE DEF G
    <3> QED
      BY <1>1, <1>2, UpTo
  <2> HIDE DEF Follows
  <2> QED
    BY <2>1
<1> DEFINE g == [i \in 0 .. n |-> f[i]]
<1>4. Equation(g)
  BY <1>3
<1> HIDE DEF g
<1>5. Equation(CHOOSE h : Equation(h))
  BY <1>4, Zenon
<1>6. Transaction(tables, batch) = (CHOOSE h : Equation(h))[n]
  BY DEF Transaction
<1>7. Follows(CHOOSE h : Equation(h), n)
  <2> DEFINE h == CHOOSE k : Equation(k)
  <2>1. Equation(h)
    BY <1>5
  <2> HIDE DEF h, Start
  <2>2. h[0] = Start
    BY <2>1
  <2>3. \A i \in 1 .. n : h[i] = Statement(h[i - 1], batch[i])
    BY <2>1
  <2> QED
    BY <2>2, <2>3 DEF h
<1> QED
  BY <1>6, <1>7

(* A transaction that does not fail has not failed before.                 *)
LEMMA NeverFailed ==
    ASSUME NEW n \in Nat, NEW tx, NEW batch, ~tx[n].failed,
           \A i \in 1 .. n : tx[i] = Statement(tx[i - 1], batch[i])
    PROVE  \A i \in 0 .. n : ~tx[i].failed
<1> DEFINE G == {m \in 0 .. n : ~tx[n - m].failed}
<1>1. 0 \in G
  OBVIOUS
<1>2. ASSUME NEW m \in 0 .. n - 1, m \in G PROVE m + 1 \in G
  <2>1. n - m \in 1 .. n /\ (n - m) - 1 = n - (m + 1)
    OBVIOUS
  <2>2. tx[n - m] = Statement(tx[n - (m + 1)], batch[n - m])
    BY <2>1
  <2>3. ~tx[n - m].failed
    BY <1>2
  <2>4. ~tx[n - (m + 1)].failed
    BY <2>2, <2>3 DEF Statement, Refused
  <2> QED
    BY <2>4
<1>3. 0 .. n \subseteq G
  <2> HIDE DEF G
  <2> QED
    BY <1>1, <1>2, UpTo
<1>4. ASSUME NEW i \in 0 .. n PROVE ~tx[i].failed
  <2>1. n - i \in G /\ n - (n - i) = i
    BY <1>3
  <2> QED
    BY <2>1
<1> QED
  BY <1>4

(* A batch of n events is written as a whole, or not at all.               *)
CommitsFirst(n) ==
    /\ n \in 1 .. Len(queue)
    /\ queue' = SubSeq(queue, n + 1, Len(queue))
    /\ \/ db' = db /\ spoiled'
       \/ spoiled' = spoiled /\ \E d : Runs(d, n) /\ d[n] = db'
    /\ UNCHANGED <<handler, session, phase, tasks, first, completed, calls, mapper>>

LEMMA CommitRuns ==
    ASSUME RecordingInv, Commit PROVE \E n : CommitsFirst(n)
<1> DEFINE Batch(n) == SubSeq(queue, 1, n)
<1>1. PICK n \in 1 .. BatchSize :
        /\ n <= Len(queue)
        /\ LET done == WriteBatch(db, Batch(n)) IN
           /\ db' = IF done.failed THEN db ELSE done.db
           /\ spoiled' = (spoiled \/ done.failed)
        /\ queue' = SubSeq(queue, n + 1, Len(queue))
        /\ UNCHANGED <<handler, session, phase, tasks, first, completed, calls, mapper>>
  BY DEF Commit
<1>2. queue \in Seq(Recorded) /\ Len(queue) \in Nat /\ n \in 1 .. Len(queue) /\ n \in Nat
  BY <1>1, RecordingAssumption DEF RecordingInv, TypeInv
<1> DEFINE batch == Batch(n)
<1>3. Len(batch) = n /\ \A i \in 1 .. n : batch[i] = queue[i]
  BY <1>2
<1> HIDE DEF batch
<1> DEFINE done == WriteBatch(db, batch)
<1>4. /\ db' = IF done.failed THEN db ELSE done.db
      /\ spoiled' = (spoiled \/ done.failed)
  BY <1>1 DEF batch
<1>5. CASE done.failed
  BY <1>1, <1>2, <1>4, <1>5 DEF CommitsFirst
<1>6. CASE ~done.failed
  <2>1. done = Transaction(db, batch)
    BY <1>6 DEF WriteBatch, Refused
  <2>2. PICK tx : /\ tx[0] = [failed |-> FALSE, db |-> db]
                  /\ \A i \in 1 .. n : tx[i] = Statement(tx[i - 1], batch[i])
                  /\ Transaction(db, batch) = tx[n]
    <3> HIDE DEF done
    <3>1. \E tx : /\ tx[0] = [failed |-> FALSE, db |-> db]
                  /\ \A i \in 1 .. Len(batch) : tx[i] = Statement(tx[i - 1], batch[i])
                  /\ Transaction(db, batch) = tx[Len(batch)]
      <4>1. Len(batch) \in Nat
        BY <1>2, <1>3
      <4> QED
        BY <4>1, TransactionRuns
    <3> QED
      BY <1>3, <3>1
  <2>3. \A i \in 0 .. n : ~tx[i].failed
    BY <1>2, <1>6, <2>1, <2>2, NeverFailed
  <2> DEFINE d == [i \in 0 .. n |-> tx[i].db]
  <2>4. ASSUME NEW i \in 1 .. n
        PROVE  ~Fails(d[i - 1], queue[i]) /\ d[i] = Applied(d[i - 1], queue[i])
    <3>1. /\ tx[i] = Statement(tx[i - 1], queue[i]) /\ ~tx[i].failed /\ i - 1 \in 0 .. n
          /\ d[i] = tx[i].db /\ d[i - 1] = tx[i - 1].db
      BY <1>2, <1>3, <2>2, <2>3
    <3> HIDE DEF d
    <3>2. ~(tx[i - 1].failed \/ Fails(tx[i - 1].db, queue[i]))
      BY <3>1 DEF Statement, Refused
    <3>3. tx[i] = [failed |-> FALSE, db |-> Applied(tx[i - 1].db, queue[i])]
      BY <3>1, <3>2 DEF Statement
    <3> QED
      BY <3>1, <3>2, <3>3
  <2>5. d[0] = db /\ d[n] = done.db
    BY <1>2, <2>1, <2>2
  <2> HIDE DEF d, done
  <2>6. Runs(d, n) /\ d[n] = db'
    BY <1>4, <1>6, <2>4, <2>5 DEF Runs
  <2>7. spoiled' = spoiled
    BY <1>4, <1>6 DEF RecordingInv, TypeInv
  <2> QED
    BY <1>1, <1>2, <2>6, <2>7 DEF CommitsFirst
<1> QED
  BY <1>5, <1>6

LEMMA RunsEffects ==
    ASSUME RecordingInv, NEW n \in 1 .. Len(queue), NEW d, Runs(d, n)
    PROVE  /\ \A i \in 0 .. n : Sound(d[i])
           /\ \A i \in 1 .. n : Effect(d[i - 1], d[i], queue[i])
<1>1. queue \in Seq(Recorded) /\ n \in Nat /\ \A i \in 1 .. n : queue[i] \in Recorded
  BY DEF RecordingInv, TypeInv
<1>2. ASSUME NEW i \in 1 .. n, Sound(d[i - 1])
      PROVE  Effect(d[i - 1], d[i], queue[i]) /\ Sound(d[i])
  <2>1. Effect(d[i - 1], d[i], queue[i])
    BY <1>1, <1>2, AppliedEffect DEF Runs, Recorded
  <2> QED
    BY <1>1, <1>2, <2>1, EffectIsSound
<1> DEFINE G == {i \in 0 .. n : Sound(d[i])}
<1>3. 0 \in G
  BY <1>1 DEF Runs, RecordingInv, TablesInv
<1>4. ASSUME NEW i \in 0 .. n - 1, i \in G PROVE i + 1 \in G
  <2>1. i + 1 \in 1 .. n /\ (i + 1) - 1 = i
    BY <1>1
  <2> QED
    BY <1>2, <1>4, <2>1
<1>5. 0 .. n \subseteq G
  <2> HIDE DEF G
  <2> QED
    BY <1>1, <1>3, <1>4, UpTo
<1>6. ASSUME NEW i \in 1 .. n PROVE Effect(d[i - 1], d[i], queue[i])
  BY <1>2, <1>5
<1> QED
  BY <1>5, <1>6

(* What a run leaves of the rows of a session.                             *)
LEMMA RunsThere ==
    ASSUME RecordingInv, NEW n \in 1 .. Len(queue), NEW d, Runs(d, n)
    PROVE  /\ \A s \in Sessions : db.rows[s].there => d[n].rows[s].there
           /\ \A j \in 1 .. n : queue[j].kind = "started" => d[n].rows[queue[j].session].there
<1> DEFINE G == {i \in 0 .. n :
                    /\ \A s \in Sessions : db.rows[s].there => d[i].rows[s].there
                    /\ \A j \in 1 .. i : queue[j].kind = "started" =>
                           d[i].rows[queue[j].session].there}
<1>1. n \in Nat /\ \A i \in 1 .. n : queue[i] \in Recorded /\ queue[i].session \in Sessions
  BY DEF RecordingInv, TypeInv, Recorded, Event
<1>2. 0 \in G
  BY <1>1 DEF Runs
<1>3. ASSUME NEW i \in 0 .. n - 1, i \in G PROVE i + 1 \in G
  <2>1. i + 1 \in 1 .. n /\ (i + 1) - 1 = i /\ i \in Nat
    BY <1>1
  <2>2. Effect(d[i], d[i + 1], queue[i + 1])
    BY <2>1, RunsEffects
  <2>3. /\ \A s \in Sessions : d[i].rows[s].there => d[i + 1].rows[s].there
        /\ queue[i + 1].kind = "started" => d[i + 1].rows[queue[i + 1].session].there
    BY <2>2 DEF Effect
  <2>4. \A s \in Sessions : db.rows[s].there => d[i + 1].rows[s].there
    BY <1>3, <2>3
  <2>5. ASSUME NEW j \in 1 .. i + 1, queue[j].kind = "started"
        PROVE  d[i + 1].rows[queue[j].session].there
    <3>1. CASE j = i + 1
      BY <2>3, <2>5, <3>1
    <3>2. CASE j \in 1 .. i
      <4>1. queue[j].session \in Sessions
        BY <1>1, <2>1, <3>2
      <4> QED
        BY <1>3, <2>3, <2>5, <3>2, <4>1
    <3> QED
      BY <2>1, <3>1, <3>2
  <2> QED
    BY <2>1, <2>4, <2>5
<1>4. 0 .. n \subseteq G
  <2> HIDE DEF G
  <2> QED
    BY <1>1, <1>2, <1>3, UpTo
<1> QED
  BY <1>1, <1>4

(* What a run adds to the tables without a unique index.                   *)
LEMMA RunsRows ==
    ASSUME RecordingInv, NEW n \in 1 .. Len(queue), NEW d, Runs(d, n),
           NEW k \in RowKinds, NEW r \in Requests
    PROVE  /\ RowsIn(k, d[n], r) <= 1
           /\ (\A j \in Queued(k, r) : j > n) => RowsIn(k, d[n], r) = RowsOf(k, r)
<1> DEFINE Clear(i) == \A j \in Queued(k, r) : j > i
           G == {i \in 0 .. n :
                    /\ RowsIn(k, d[i], r) <= 1
                    /\ Clear(i) => RowsIn(k, d[i], r) = RowsOf(k, r)}
<1>1. n \in Nat /\ \A i \in 1 .. n : queue[i] \in Recorded
  BY DEF RecordingInv, TypeInv
<1>2. /\ RowsOf(k, r) <= 1
      /\ \A i, j \in Queued(k, r) : i = j
      /\ Queued(k, r) # {} => RowsOf(k, r) = 0
      /\ Queued(k, r) \subseteq 1 .. Len(queue)
  BY DEF RecordingInv, OnceInv, Once, Queued
<1>3. 0 \in G
  BY <1>1, <1>2 DEF Runs, RowsOf
<1>4. ASSUME NEW i \in 0 .. n - 1, i \in G PROVE i + 1 \in G
  <2>1. i + 1 \in 1 .. n /\ (i + 1) - 1 = i /\ i \in Nat /\ i + 1 \in 1 .. Len(queue)
    BY <1>1
  <2>2. Effect(d[i], d[i + 1], queue[i + 1])
    BY <2>1, RunsEffects
  <2>3. RowsIn(k, d[i + 1], r) =
            RowsIn(k, d[i], r) + (IF Records(k, queue[i + 1]) /\ r = queue[i + 1].request THEN 1 ELSE 0)
    BY <2>2 DEF Effect, RowsIn, RowKinds
  <2>4. RowsIn(k, d[i], r) \in Nat
    <3>1. d[i] \in Tables
      BY <1>1, RunsEffects DEF Sound
    <3> QED
      BY <3>1, TablesFields DEF RowsIn
  <2>5. CASE Records(k, queue[i + 1]) /\ r = queue[i + 1].request
    <3>1. i + 1 \in Queued(k, r)
      BY <2>1, <2>5 DEF Queued
    <3>2. Clear(i) /\ ~Clear(i + 1) /\ RowsOf(k, r) = 0
      BY <1>2, <2>1, <3>1
    <3> HIDE DEF Clear
    <3> QED
      BY <1>4, <2>1, <2>3, <2>4, <2>5, <3>2
  <2>6. CASE ~(Records(k, queue[i + 1]) /\ r = queue[i + 1].request)
    <3>1. Clear(i + 1) => Clear(i)
      BY <1>2, <2>1
    <3> HIDE DEF Clear
    <3> QED
      BY <1>4, <2>1, <2>3, <2>4, <2>6, <3>1
  <2> QED
    BY <2>5, <2>6
<1>5. 0 .. n \subseteq G
  <2> HIDE DEF G
  <2> QED
    BY <1>1, <1>3, <1>4, UpTo
<1> QED
  BY <1>1, <1>5

(* What a run does to the tokens of a session.                             *)
LEMMA RunsTokens ==
    ASSUME RecordingInv, NEW n \in 1 .. Len(queue), NEW d, Runs(d, n)
    PROVE  /\ \A r \in Requests : handler[r] = "send" /\ Silent(r, n) =>
                  d[n].rows[session[r]].tokens = 0
           /\ \A s \in Sessions : d[n].rows[s].tokens >= db.rows[s].tokens
<1> DEFINE G == {i \in 0 .. n :
                    /\ \A r \in Requests : handler[r] = "send" /\ Silent(r, i) =>
                           d[i].rows[session[r]].tokens = 0
                    /\ \A s \in Sessions : d[i].rows[s].tokens >= db.rows[s].tokens}
<1>1. n \in Nat /\ \A i \in 1 .. n : queue[i] \in Recorded
  BY DEF RecordingInv, TypeInv
<1>2. \A i \in 0 .. n, s \in Sessions : d[i].rows[s].tokens \in Nat
  <2>1. \A i \in 0 .. n : d[i] \in Tables
    BY RunsEffects DEF Sound
  <2> QED
    BY <2>1, TablesFields
<1>3. \A r \in Requests : session[r] \in Sessions
  BY DEF RecordingInv, TypeInv
<1>4. 0 \in G
  <2>1. d[0] = db
    BY DEF Runs
  <2>2. \A s \in Sessions : db.rows[s].tokens \in Nat
    BY <1>1, <1>2, <2>1
  <2> QED
    BY <1>1, <2>1, <2>2 DEF Silent
<1>5. ASSUME NEW i \in 0 .. n - 1, i \in G PROVE i + 1 \in G
  <2> DEFINE e == queue[i + 1]
  <2>1. i + 1 \in 1 .. n /\ (i + 1) - 1 = i /\ i \in Nat /\ i \in 0 .. n /\ i + 1 \in 1 .. Len(queue)
    BY <1>1
  <2>2. Effect(d[i], d[i + 1], e)
    BY <2>1, RunsEffects
  <2>3. e \in Recorded /\ e.request \in Requests /\ e.session = session[e.request]
    BY <1>1, <2>1 DEF Recorded, Event, Proper
  <2>4. ASSUME NEW r \in Requests, handler[r] = "send", Silent(r, i + 1)
        PROVE  d[i + 1].rows[session[r]].tokens = 0
    <3>1. Silent(r, i) /\ (e.request = r => e.tokens = 0)
      BY <2>1, <2>4 DEF Silent
    <3>2. d[i].rows[session[r]].tokens = 0
      BY <1>5, <2>4, <3>1
    <3>3. e.session = session[r] => e.request = r
      BY <2>3, <2>4 DEF RecordingInv, RoutedApart, Routed
    <3>4. d[i + 1].rows[session[r]].tokens # d[i].rows[session[r]].tokens =>
              session[r] = e.session /\ d[i + 1].rows[session[r]].tokens = e.tokens
      BY <1>3, <2>2 DEF Effect
    <3> QED
      BY <3>1, <3>2, <3>3, <3>4
  <2>5. ASSUME NEW s \in Sessions PROVE d[i + 1].rows[s].tokens >= db.rows[s].tokens
    <3>1. CASE d[i + 1].rows[s].tokens >= d[i].rows[s].tokens
      <4>1. d[0] = db /\ 0 \in 0 .. n
        BY <1>1 DEF Runs
      <4>2. db.rows[s].tokens \in Nat /\ d[i].rows[s].tokens \in Nat /\ d[i + 1].rows[s].tokens \in Nat
        BY <1>2, <2>1, <4>1
      <4> QED
        BY <1>5, <3>1, <4>2
    <3>2. CASE e.kind = "response" /\ s = e.session
      <4>1. handler[e.request] = "send"
        BY <2>3, <3>2 DEF Recorded, Proper
      <4>2. i + 1 \in Queued("stats", e.request)
        BY <2>1, <3>2 DEF Queued, Records
      <4>3. Silent(e.request, i)
        BY <2>1, <2>3, <4>1, <4>2 DEF RecordingInv, ResponseInv
      <4>4. d[i].rows[s].tokens = 0
        BY <1>5, <2>3, <3>2, <4>1, <4>3
      <4>5. d[i + 1].rows[s].tokens >= d[i].rows[s].tokens
        BY <1>2, <2>1, <4>4
      <4> QED
        BY <3>1, <4>5
    <3> QED
      BY <2>2, <3>1, <3>2 DEF Effect
  <2> QED
    BY <2>1, <2>4, <2>5
<1>6. 0 .. n \subseteq G
  <2> HIDE DEF G
  <2> QED
    BY <1>1, <1>4, <1>5, UpTo
<1> QED
  BY <1>1, <1>6

(* What a commit leaves in the tables, also when the batch is rolled back. *)
LEMMA CommitLeaves ==
    ASSUME RecordingInv, NEW n, CommitsFirst(n)
    PROVE  /\ Sound(db')
           /\ \A s \in Sessions : db.rows[s].there => db'.rows[s].there
           /\ ~spoiled' => /\ ~spoiled
                           /\ \A j \in 1 .. n : queue[j].kind = "started" =>
                                  db'.rows[queue[j].session].there
           /\ \A k \in RowKinds, r \in Requests :
                 /\ RowsIn(k, db', r) <= 1
                 /\ (\A j \in Queued(k, r) : j > n) => RowsIn(k, db', r) = RowsOf(k, r)
           /\ \A r \in Requests : handler[r] = "send" /\ Silent(r, n) =>
                  db'.rows[session[r]].tokens = 0
           /\ \A s \in Sessions : db'.rows[s].tokens >= db.rows[s].tokens
<1>1. n \in 1 .. Len(queue) /\ n \in Nat
  BY DEF CommitsFirst, RecordingInv, TypeInv
<1>2. CASE db' = db /\ spoiled'
  <2>1. Sound(db') /\ \A s \in Sessions : db'.rows[s].tokens >= db.rows[s].tokens
    BY <1>2, TablesFields DEF RecordingInv, TablesInv, Sound
  <2>2. \A k \in RowKinds, r \in Requests : RowsIn(k, db', r) <= 1 /\ RowsIn(k, db', r) = RowsOf(k, r)
    BY <1>2 DEF RowsOf, RecordingInv, OnceInv, Once
  <2> QED
    BY <1>2, <2>1, <2>2 DEF Silent
<1>3. CASE spoiled' = spoiled /\ \E d : Runs(d, n) /\ d[n] = db'
  <2>1. PICK d : Runs(d, n) /\ d[n] = db'
    BY <1>3
  <2>2. Sound(d[n])
    BY <1>1, <2>1, RunsEffects
  <2>3. /\ \A s \in Sessions : db.rows[s].there => d[n].rows[s].there
        /\ \A j \in 1 .. n : queue[j].kind = "started" => d[n].rows[queue[j].session].there
    BY <1>1, <2>1, RunsThere
  <2>4. \A k \in RowKinds, r \in Requests :
          /\ RowsIn(k, d[n], r) <= 1
          /\ (\A j \in Queued(k, r) : j > n) => RowsIn(k, d[n], r) = RowsOf(k, r)
    BY <1>1, <2>1, RunsRows
  <2>5. /\ \A r \in Requests : handler[r] = "send" /\ Silent(r, n) =>
               d[n].rows[session[r]].tokens = 0
        /\ \A s \in Sessions : d[n].rows[s].tokens >= db.rows[s].tokens
    BY <1>1, <2>1, RunsTokens
  <2> QED
    BY <1>3, <2>1, <2>2, <2>3, <2>4, <2>5
<1> QED
  BY <1>2, <1>3 DEF CommitsFirst

(* The rest of the channel moves up.                                       *)
LEMMA CommitMoves ==
    ASSUME RecordingInv, NEW n, CommitsFirst(n)
    PROVE  /\ n \in 1 .. Len(queue) /\ n \in Nat /\ Len(queue) \in Nat
           /\ queue' \in Seq(Recorded) /\ Len(queue') = Len(queue) - n
           /\ \A i \in 1 .. Len(queue') : i + n \in 1 .. Len(queue) /\ queue'[i] = queue[i + n]
<1>1. queue \in Seq(Recorded) /\ Len(queue) \in Nat /\ n \in 1 .. Len(queue)
  BY DEF CommitsFirst, RecordingInv, TypeInv
<1>2. queue' = SubSeq(queue, n + 1, Len(queue))
  BY DEF CommitsFirst
<1> QED
  BY <1>1, <1>2

LEMMA CommitOnce ==
    ASSUME RecordingInv, NEW n, CommitsFirst(n) PROVE OnceInv'
<1>1. UNCHANGED <<handler, phase, tasks, completed>>
  BY DEF CommitsFirst
<1>2. ASSUME NEW k \in RowKinds, NEW r \in Requests PROVE Once(k, r)'
  <2>1. Once(k, r)
    BY DEF RecordingInv, OnceInv
  <2>2. \A i \in Queued(k, r)' : i \in Nat /\ i > 0 /\ i + n \in Queued(k, r)
    BY CommitMoves DEF Queued
  <2>3. /\ RowsOf(k, r)' <= 1
        /\ (\A j \in Queued(k, r) : j > n) => RowsOf(k, r)' = RowsOf(k, r)
    BY CommitLeaves DEF RowsOf, RowsIn
  <2>4. MayYet(k, r)' <=> MayYet(k, r)
    BY <1>1 DEF MayYet
  <2>5. n \in Nat
    BY CommitMoves
  <2>6. \A i, j \in Queued(k, r)' : i = j
    <3> SUFFICES ASSUME NEW i \in Queued(k, r)', NEW j \in Queued(k, r)' PROVE i = j
      OBVIOUS
    <3>1. i + n = j + n
      BY <2>1, <2>2 DEF Once
    <3> QED
      BY <2>2, <2>5, <3>1
  <2>7. MayYet(k, r) \/ Has(k, tasks[r]) => Queued(k, r)' = {} /\ RowsOf(k, r)' = 0
    BY <2>1, <2>2, <2>3 DEF Once
  <2>8. Queued(k, r)' # {} => RowsOf(k, r)' = 0
    <3> SUFFICES ASSUME NEW i \in Queued(k, r)' PROVE RowsOf(k, r)' = 0
      OBVIOUS
    <3>1. i + n \in Queued(k, r) /\ i + n > n
      BY <2>2, <2>5
    <3>2. RowsOf(k, r) = 0 /\ \A j \in Queued(k, r) : j = i + n
      BY <2>1, <3>1 DEF Once
    <3> QED
      BY <2>3, <3>1, <3>2
  <2> QED
    BY <1>1, <2>1, <2>3, <2>4, <2>6, <2>7, <2>8 DEF Once
<1> QED
  BY <1>1, <1>2 DEF RecordingInv, OnceInv

LEMMA CommitLed ==
    ASSUME RecordingInv, NEW n, CommitsFirst(n) PROVE LeadInv' /\ StartedLeads'
<1>1. UNCHANGED <<handler, session, phase, tasks>>
  BY DEF CommitsFirst
<1>2. \A q \in Requests : Opening(q)' = Opening(q) /\ E("started", q)' = E("started", q)
  BY <1>1, SameEvents
<1>3. ASSUME ~spoiled', NEW r \in Requests, NEW i \in 0 .. Len(queue'), Led(r, i + n)
      PROVE  Led(r, i)'
  <2>1. CASE db.rows[session[r]].there
    <3>1. session[r] \in Sessions
      BY DEF RecordingInv, TypeInv
    <3> QED
      BY <1>1, <2>1, <3>1, CommitLeaves DEF Led
  <2>2. ASSUME NEW j \in 1 .. i + n, queue[j] = E("started", r)
        PROVE  Led(r, i)'
    <3>1. CASE j \in 1 .. n
      <4>1. queue[j].kind = "started" /\ queue[j].session = session[r]
        BY <2>2 DEF E, Blank
      <4>2. db'.rows[session[r]].there
        BY <1>3, <3>1, <4>1, CommitLeaves
      <4> QED
        BY <1>1, <4>2 DEF Led
    <3>2. CASE j \notin 1 .. n
      <4>1. j - n \in 1 .. i /\ j - n \in 1 .. Len(queue') /\ (j - n) + n = j
        BY <1>3, <2>2, <3>2, CommitMoves
      <4>2. queue'[j - n] = queue[j]
        BY <4>1, CommitMoves
      <4> QED
        BY <1>2, <2>2, <4>1, <4>2 DEF Led
    <3> QED
      BY <3>1, <3>2
  <2> QED
    BY <1>3, <2>1, <2>2 DEF Led
<1>4. Len(queue') \in Nat /\ Len(queue') + n = Len(queue)
  BY CommitMoves
<1>5. ASSUME NEW r \in Requests, Unheard(r) PROVE Unheard(r)'
  BY <1>5, CommitMoves DEF Unheard
<1>6. ~spoiled' => ~spoiled
  BY CommitLeaves
<1>7. ASSUME NEW r \in Requests, ~spoiled', Led(r, Len(queue)) PROVE Led(r, Len(queue))'
  BY <1>3, <1>4, <1>7
<1>8. LeadInv'
  BY <1>1, <1>2, <1>5, <1>6, <1>7 DEF RecordingInv, LeadInv
<1>9. StartedLeads'
  <2> SUFFICES ASSUME NEW r \in Requests, handler[r] \in Routed, ~spoiled',
                      NEW i \in 1 .. Len(queue'),
                      queue'[i].request = r, queue'[i].kind # "started"
               PROVE  Led(r, i)'
    BY <1>1 DEF StartedLeads, Led
  <2>1. i + n \in 1 .. Len(queue) /\ queue'[i] = queue[i + n]
    BY CommitMoves
  <2>2. Led(r, i + n)
    BY <1>6, <2>1 DEF RecordingInv, StartedLeads, Led
  <2> QED
    BY <1>3, <1>4, <2>2
<1> QED
  BY <1>8, <1>9

LEMMA CommitQuiet ==
    ASSUME RecordingInv, NEW n, CommitsFirst(n) PROVE ResponseInv'
<1>1. UNCHANGED <<handler, session, phase, tasks>>
  BY DEF CommitsFirst
<1>2. n \in Nat /\ Len(queue') \in Nat /\ Len(queue') + n = Len(queue)
  BY CommitMoves
<1>3. ASSUME NEW r \in Requests, handler[r] = "send", NEW i \in 0 .. Len(queue'), Silent(r, i + n)
      PROVE  Silent(r, i)'
  <2>1. Silent(r, n)
    BY <1>2, <1>3 DEF Silent
  <2>2. db'.rows[session[r]].tokens = 0
    BY <1>3, <2>1, CommitLeaves
  <2>3. ASSUME NEW j \in 1 .. i, queue'[j].request = r PROVE queue'[j].tokens = 0
    <3>1. j \in 1 .. Len(queue') /\ j + n \in 1 .. i + n
      BY <1>2, <1>3
    <3>2. queue'[j] = queue[j + n]
      BY <3>1, CommitMoves
    <3> QED
      BY <1>3, <2>3, <3>1, <3>2 DEF Silent
  <2> QED
    BY <1>1, <2>2, <2>3 DEF Silent
<1>4. ASSUME NEW r \in Requests, handler[r] = "send"
      PROVE  /\ Silent(r, Len(queue)) => Silent(r, Len(queue))'
             /\ \A i \in Queued("stats", r)' : Silent(r, i - 1)'
  <2>1. Silent(r, Len(queue)) => Silent(r, Len(queue))'
    BY <1>2, <1>3, <1>4
  <2>2. ASSUME NEW i \in Queued("stats", r)' PROVE Silent(r, i - 1)'
    <3>1. i \in 1 .. Len(queue') /\ i + n \in Queued("stats", r)
      BY CommitMoves DEF Queued
    <3>2. Silent(r, (i + n) - 1)
      BY <1>4, <3>1 DEF RecordingInv, ResponseInv
    <3>3. i - 1 \in 0 .. Len(queue') /\ (i - 1) + n = (i + n) - 1
      BY <1>2, <3>1
    <3> QED
      BY <1>3, <1>4, <3>2, <3>3
  <2> QED
    BY <2>1, <2>2
<1> QED
  BY <1>1, <1>4 DEF RecordingInv, ResponseInv

LEMMA CommitKeeps ==
    ASSUME RecordingInv, Commit PROVE RecordingInv'
<1>1. PICK n : CommitsFirst(n)
  BY CommitRuns
<1>2. UNCHANGED <<handler, session, phase, tasks, first, completed, calls, mapper>>
  BY <1>1 DEF CommitsFirst
<1>3. TablesInv'
  <2>1. Sound(db')
    BY <1>1, CommitLeaves
  <2> QED
    BY <1>2, <2>1 DEF TablesInv, Sound
<1>4. TypeInv'
  <2>1. queue' \in Seq(Recorded) /\ db' \in Tables /\ spoiled' \in BOOLEAN
    <3>1. queue' \in Seq(Recorded)
      BY <1>1, CommitMoves
    <3>2. spoiled' \in BOOLEAN
      BY <1>1 DEF CommitsFirst, RecordingInv, TypeInv
    <3> QED
      BY <1>3, <3>1, <3>2 DEF TablesInv, Sound
  <2>2. Recorded' = Recorded /\ \A q \in Requests : EventsOf(q)' = EventsOf(q)
    BY <1>2, SameEvents
  <2> QED
    BY <1>2, <2>1, <2>2 DEF RecordingInv, TypeInv
<1>5. RoutedApart'
  BY <1>2 DEF RecordingInv, RoutedApart
<1> QED
  BY <1>1, <1>3, <1>4, <1>5, CommitOnce, CommitLed, CommitQuiet DEF RecordingInv

-----------------------------------------------------------------------------

LEMMA RecordingStarts == Init => RecordingInv
<1> SUFFICES ASSUME Init PROVE RecordingInv
  OBVIOUS
<1>1. PICK m \in Mixes : /\ handler = [r \in Requests |-> m[r].handler]
                         /\ session = [r \in Requests |-> m[r].session]
  BY DEF Init
<1>2. /\ handler \in [Requests -> Handlers] /\ session \in [Requests -> Sessions]
      /\ RoutedApart
  BY <1>1, RecordingAssumption DEF RoutedApart
<1>3. \A r \in Requests : tasks[r] = {} /\ phase[r] = "new" /\ completed[r] = FALSE
  BY DEF Init
<1>4. queue = << >> /\ Len(queue) = 0
  BY DEF Init
<1>5. Sound(db)
  <2>1. db \in Tables
    BY DEF Init, EmptyTables, Tables, Row, NoRow, Tools
  <2>2. /\ \A s \in Sessions : ~db.rows[s].there /\ db.rows[s].tokens = 0
        /\ \A r \in Requests, c \in Requests : db.execs[<<r, c>>] = NoExecution
        /\ \A r \in Requests, t \in Tools : db.counts[<<r, t>>] = 0
    BY DEF Init, EmptyTables, NoRow, Tools
  <2>3. ASSUME NEW r \in Requests, NEW t \in Tools
        PROVE  db.counts[<<r, t>>] >= Cardinality({c \in Requests : db.execs[<<r, c>>] = t})
    <3>1. {c \in Requests : db.execs[<<r, c>>] = t} = {}
      BY <2>2, TablesAssumption DEF Tools
    <3>2. Cardinality({c \in Requests : db.execs[<<r, c>>] = t}) = 0
      BY <3>1, FS_EmptySet
    <3> QED
      BY <2>2, <3>2
  <2> QED
    BY <2>1, <2>2, <2>3 DEF Sound
<1>6. TypeInv
  <2>1. /\ tasks = [r \in Requests |-> tasks[r]]
        /\ \A r \in Requests : tasks[r] \subseteq Seq(EventsOf(r)) \ {<< >>}
    BY <1>3 DEF Init
  <2>2. phase \in [Requests -> Phases]
    BY DEF Init, Phases
  <2>3. first \in [Requests -> BOOLEAN] /\ completed \in [Requests -> BOOLEAN]
    BY DEF Init
  <2>4. calls \subseteq Requests /\ mapper \subseteq Requests /\ spoiled \in BOOLEAN
    BY DEF Init
  <2>5. queue \in Seq(Recorded)
    BY DEF Init
  <2> QED
    BY <1>2, <1>5, <2>1, <2>2, <2>3, <2>4, <2>5 DEF TypeInv, Sound
<1>7. OnceInv
  <2>1. \A k \in RowKinds, r \in Requests : RowsOf(k, r) = 0 /\ Queued(k, r) = {}
    BY <1>4 DEF Init, EmptyTables, RowsOf, RowsIn, Queued
  <2> QED
    BY <1>3, <2>1 DEF OnceInv, Once, Single, Has
<1>8. LeadInv /\ StartedLeads
  BY <1>3, <1>4 DEF LeadInv, StartedLeads, Unheard
<1>9. ResponseInv
  <2>1. \A r \in Requests : Silent(r, 0) /\ Queued("stats", r) = {}
    <3>1. \A r \in Requests : session[r] \in Sessions
      BY <1>2
    <3> QED
      BY <1>4, <3>1 DEF Init, EmptyTables, NoRow, Silent, Queued
  <2> QED
    BY <1>3, <1>4, <2>1 DEF ResponseInv, First, Has
<1> QED
  BY <1>2, <1>5, <1>6, <1>7, <1>8, <1>9 DEF RecordingInv, TablesInv

LEMMA RecordingKept == RecordingInv /\ [Next]_vars => RecordingInv'
<1> SUFFICES ASSUME RecordingInv, [Next]_vars PROVE RecordingInv'
  OBVIOUS
<1>1. ASSUME NEW r \in Requests, Arrive(r) \/ Answer(r) \/ StreamStep(r) \/ Parse(r)
      PROVE  RecordingInv'
  <2>1. HandlerStep(r)
    BY <1>1, ArriveStep, AnswerStep, StreamingStep, ParseStep
  <2> QED
    BY <2>1, HandlerStepKeeps
<1>2. ASSUME NEW r \in Requests, WriteEvent(r) PROVE RecordingInv'
  BY <1>2, WriteEventKeeps
<1>3. CASE Commit
  BY <1>3, CommitKeeps
<1>4. CASE UNCHANGED vars
  <2>1. UNCHANGED <<handler, session, phase, tasks, first, completed, calls, mapper, queue, db, spoiled>>
    BY <1>4 DEF vars
  <2>2. /\ \A r \in Requests : Opening(r)' = Opening(r) /\ E("started", r)' = E("started", r)
        /\ Recorded' = Recorded /\ \A r \in Requests : EventsOf(r)' = EventsOf(r)
    BY <2>1, SameEvents
  <2>3. TypeInv' /\ RoutedApart' /\ TablesInv'
    BY <2>1, <2>2 DEF RecordingInv, TypeInv, RoutedApart, TablesInv, Sound
  <2>4. OnceInv'
    BY <2>1 DEF RecordingInv, OnceInv, Once, RowsOf, RowsIn, Queued, MayYet
  <2>5. LeadInv' /\ StartedLeads'
    BY <2>1, <2>2 DEF RecordingInv, LeadInv, StartedLeads, Unheard, Led
  <2>6. ResponseInv'
    BY <2>1 DEF RecordingInv, ResponseInv, Silent, Queued
  <2> QED
    BY <2>3, <2>4, <2>5, <2>6 DEF RecordingInv
<1> QED
  BY <1>1, <1>2, <1>3, <1>4 DEF Next

LEMMA RecordingAlways == Spec => []RecordingInv
BY RecordingStarts, RecordingKept, PTL DEF Spec

(* The tables without a unique index hold at most one row of a request,    *)
(* however its handler ends and whenever its tasks run: the flags of the   *)
(* streams and the ends of the handlers are enough.                        *)
THEOREM RequestsCountOnce == Spec => []OneRowPerRequest
<1>1. RecordingInv => OneRowPerRequest
  BY DEF RecordingInv, OnceInv, Once, RowsOf, RowsIn, RowKinds, OneRowPerRequest
<1> QED
  BY <1>1, RecordingAlways, PTL

(* Nothing a routed request records is written before the row of its       *)
(* session, as long as the recorder lost nothing: the provider awaits its  *)
(* first two events, and nobody shares its session.                        *)
THEOREM RoutedStartedFirst == Spec => []StartedLeads
<1>1. RecordingInv => StartedLeads
  BY DEF RecordingInv
<1> QED
  BY <1>1, RecordingAlways, PTL

(* The count of a tool never falls behind the executions under its name,   *)
(* though the completion replaces it and the totals only raise it: only    *)
(* send() replaces a count, and its requests have no executions.           *)
THEOREM CountsNeverBehind == Spec => []CountsCoverExecutions
<1>1. RecordingInv => CountsCoverExecutions
  BY DEF RecordingInv, TablesInv, Sound, Tools, CountsCoverExecutions
<1> QED
  BY <1>1, RecordingAlways, PTL

(* The tokens of a session never go down, though a response sets them: it  *)
(* is the first event of its session that reports any.                     *)
THEOREM TokensOnlyRise == Spec => TokensNeverShrink
<1> DEFINE Rises == \A s \in Sessions : db'.rows[s].tokens >= db.rows[s].tokens
<1>1. RecordingInv /\ [Next]_vars => [Rises]_vars
  <2> SUFFICES ASSUME RecordingInv, Next PROVE Rises
    OBVIOUS
  <2>1. CASE db' = db
    BY <2>1, TablesFields DEF RecordingInv, TypeInv
  <2>2. CASE Commit
    <3>1. PICK n : CommitsFirst(n)
      BY <2>2, CommitRuns
    <3> QED
      BY <3>1, CommitLeaves
  <2>3. ASSUME NEW r \in Requests, Arrive(r) \/ Answer(r) \/ StreamStep(r) \/ Parse(r) \/ WriteEvent(r)
        PROVE  db' = db
    <3>1. CASE WriteEvent(r)
      BY <3>1 DEF WriteEvent
    <3>2. CASE Arrive(r) \/ Answer(r) \/ StreamStep(r) \/ Parse(r)
      <4>1. HandlerStep(r)
        BY <3>2, ArriveStep, AnswerStep, StreamingStep, ParseStep
      <4> QED
        BY <4>1 DEF HandlerStep, Spawns
    <3> QED
      BY <2>3, <3>1, <3>2
  <2> QED
    BY <2>1, <2>2, <2>3 DEF Next
<1> QED
  BY <1>1, RecordingAlways, PTL DEF Spec, TokensNeverShrink
=============================================================================
