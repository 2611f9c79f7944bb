---------------------------- MODULE StreamMetrics ----------------------------
(***************************************************************************)
(* What a passthrough stream leaves behind: the tracker that times its     *)
(* events (lunaroute-ingress/streaming_metrics.rs), the events that the    *)
(* handlers of Messages and Chat collect on the way to the client, and the *)
(* parser that finds the tokens and the tool calls in them afterwards      *)
(* (async_stream_parser.rs).  SessionRecording takes it from there.        *)
(*                                                                         *)
(* The arguments of a tool call come in parts, numbered per call; a text   *)
(* is the sequence of the widths of its characters.                        *)
(***************************************************************************)
EXTENDS Integers, SequencesExt

CONSTANTS
  Dialects,      \* {"anthropic", "openai"}
  ToolNames,
  Variants,      \* answers that a client of Chat asks for at once (n)
  Gaps,          \* milliseconds between two events
  SomeTexts,
  MaxTokens,
  MaxEventsSaid, \* bound of the stream
  MAX_COLLECTED_EVENTS, MAX_CHUNK_LATENCIES, MAX_ACCUMULATED_TEXT_BYTES

VARIABLES
  dialect,    \* of the provider
  provider,   \* what it has said: its calls, their arguments, its usage
  tracker,    \* StreamingMetricsTracker
  collected,  \* collected_events
  report      \* what is recorded in the end

metricsVars == <<dialect, provider, tracker, collected, report>>

(* A number, an id and a name that are absent. *)
None == -1
NoId == <<>>
NoName == ""
NoReport == [chunks |-> None]

-----------------------------------------------------------------------------
(* An event; most of it is absent. *)
Silence ==
  [json |-> TRUE, text |-> <<>>, input |-> None, output |-> None, block |-> NoId, delta |-> <<>>]
(* A part of a tool call; its first one has a name, the later ones need not. *)
Delta(index, id, name, part) == [index |-> index, id |-> id, name |-> name, part |-> part]

WidthOf(text) == FoldSeq(+, 0, text)

(* The longest part of a text that fits, in whole characters. *)
Fitting(text, room) ==
  SubSeq(text, 1, Max({n \in 0 .. Len(text) : WidthOf(SubSeq(text, 1, n)) <= room}))

NewTracker == [ttft |-> None, chunks |-> 0, latencies |-> <<>>, now |-> 0, text |-> <<>>, hits |-> 0]

RecordChunkLatency(t, gap) ==
  LET full == Len(t.latencies) = MAX_CHUNK_LATENCIES IN
  [t EXCEPT !.latencies = IF full THEN @ ELSE Append(@, gap),
            !.hits = IF full THEN @ + 1 ELSE @,
            !.now = @ + gap]

AccumulateText(t, text) ==
  [t EXCEPT !.text = @ \o Fitting(text, MAX_ACCUMULATED_TEXT_BYTES - WidthOf(@))]

Tracked(t, e, gap) ==
  LET timed == RecordChunkLatency([t EXCEPT !.ttft = IF @ = None THEN t.now + gap ELSE @], gap) IN
  AccumulateText([timed EXCEPT !.chunks = @ + 1], e.text)

(* One event more than the limit is kept.  The handler of Chat passes on what *)
(* is no JSON before it comes here.                                           *)
Collects(e) == Len(collected) <= MAX_COLLECTED_EVENTS /\ (dialect = "openai" => e.json)

(* The handlers look at one event of the stream and send it on. *)
Says(e, gap) ==
  /\ report = NoReport /\ tracker.chunks < MaxEventsSaid
  /\ tracker' = Tracked(tracker, e, gap)
  /\ collected' = IF Collects(e) THEN Append(collected, e) ELSE collected
  /\ UNCHANGED <<dialect, report>>

-----------------------------------------------------------------------------
(* parse_anthropic_stream(), parse_openai_stream(). *)
NoData ==
  [input |-> 0, output |-> 0, blocks |-> 0, ids |-> <<>>, names |-> <<>>, args |-> <<>>, counts |-> <<>>, seen |-> {},
   blockIds |-> {}]

ValueOf(f, x, else) == IF x \in DOMAIN f THEN f[x] ELSE else
With(f, x, y) == [z \in DOMAIN f \cup {x} |-> IF z = x THEN y ELSE f[z]]

(* A call without an id gets one. *)
ToolId(data, d) ==
  IF d.id # NoId THEN d.id
  ELSE IF dialect = "openai" THEN <<"index", d.index>> ELSE <<d.name, Cardinality(data.seen)>>

RegisterCall(data, d) ==
  LET id == ToolId(data, d) IN
  IF d.name = NoName THEN data
  ELSE [data EXCEPT !.ids = With(@, d.index, id), !.names = With(@, id, d.name), !.seen = @ \cup {id},
                    !.counts = IF id \in data.seen THEN @ ELSE With(@, d.name, ValueOf(@, d.name, 0) + 1)]

(* Mutant: only a delta that has a name has arguments. *)
WrongAppendArguments(data, d) ==
  IF d.name = NoName \/ d.index \notin DOMAIN data.ids THEN data
  ELSE LET id == data.ids[d.index] IN
       [data EXCEPT !.args = With(@, id, ValueOf(@, id, <<>>) \o d.part)]

AppendArguments(data, d) ==
  IF d.index \notin DOMAIN data.ids THEN data
  ELSE LET id == data.ids[d.index] IN
       [data EXCEPT !.args = With(@, id, ValueOf(@, id, <<>>) \o d.part)]

(* Messages has blocks, and those with an id are counted; in Chat there is one *)
(* if there is any text.                                                       *)
CountBlock(data, e) ==
  IF dialect = "openai" THEN [data EXCEPT !.blocks = IF e.text # <<>> THEN 1 ELSE @]
  ELSE IF e.block = NoId \/ e.block \in data.blockIds THEN data
  ELSE [data EXCEPT !.blocks = @ + 1, !.blockIds = @ \cup {e.block}]

ParseEvent(data, e) ==
  LET usage == CountBlock([data EXCEPT !.input = IF e.input = None THEN @ ELSE e.input,
                                       !.output = IF e.output = None THEN @ ELSE e.output], e) IN
  FoldLeft(LAMBDA x, d : AppendArguments(RegisterCall(x, d), d), usage, e.delta)

ParsedStream(events) ==
  LET data == FoldLeft(ParseEvent, NoData, SelectSeq(events, LAMBDA e : e.json)) IN
  [input |-> data.input, output |-> data.output, total |-> data.input + data.output, blocks |-> data.blocks,
   byTool |-> data.counts, count |-> FoldFunction(+, 0, data.counts),
   calls |-> {[id |-> id, name |-> data.names[id], args |-> ValueOf(data.args, id, <<>>)] : id \in DOMAIN data.names}]

(* finalize().  start is before the handler sent the request. *)
Percentile(sorted, p) == sorted[((Len(sorted) - 1) * p) \div 100 + 1]

Finalize(t, elapsed, start) ==
  LET sorted == SortSeq(t.latencies, LAMBDA x, y : x < y)
      ttft == IF t.ttft = None THEN 0 ELSE t.ttft
      duration == t.now + elapsed + start IN
  [ttft |-> ttft, chunks |-> t.chunks, latencies |-> t.latencies, duration |-> duration,
   streaming |-> IF duration < ttft THEN 0 ELSE duration - ttft,
   marks |-> IF sorted = <<>> THEN <<>>
             ELSE <<sorted[1], Percentile(sorted, 50), Percentile(sorted, 95), Percentile(sorted, 99), Last(sorted)>>]
-----------------------------------------------------------------------------
(* The provider. *)
MetricsInit ==
  /\ dialect \in Dialects
  /\ provider = [calls |-> <<>>, input |-> 0, output |-> 0, began |-> FALSE]
  /\ tracker = NewTracker /\ collected = <<>> /\ report = NoReport

Talking == dialect = "anthropic" => provider.began

MessageStart ==
  /\ dialect = "anthropic" /\ ~provider.began
  /\ \E n \in 0 .. MaxTokens, gap \in Gaps :
       Says([Silence EXCEPT !.input = n], gap) /\ provider' = [provider EXCEPT !.began = TRUE, !.input = n]

(* A call has the index of its place: among the blocks, or in its choice. *)
IndexIn(choice) == Len(SelectSeq(provider.calls, LAMBDA c : c.choice = choice))

BeginCall ==
  /\ Talking
  /\ \E name \in ToolNames, choice \in Variants, named \in BOOLEAN, part \in {<<>>, <<1>>}, gap \in Gaps :
       LET id == IF named THEN <<Len(provider.calls) + 1>> ELSE NoId IN
       /\ dialect = "anthropic" => named /\ part = <<>>
       /\ Says([Silence EXCEPT !.delta = <<Delta(IndexIn(choice), id, name, part)>>,
                               !.block = IF dialect = "anthropic" THEN id ELSE NoId], gap)
       /\ provider' = [provider EXCEPT !.calls = Append(@, [id |-> id, name |-> name, choice |-> choice,
                                                            index |-> IndexIn(choice), args |-> part])]

(* Blocks of Messages come one after the other.  A provider of Chat may send  *)
(* the id and the name again.                                                 *)
Argument ==
  \E i \in DOMAIN provider.calls, again \in BOOLEAN, gap \in Gaps :
    LET c == provider.calls[i]
        part == <<Len(c.args) + 1>> IN
    /\ dialect = "anthropic" => i = Len(provider.calls) /\ ~again
    /\ again => c.id # NoId
    /\ Says([Silence EXCEPT !.delta = <<Delta(c.index, IF again THEN c.id ELSE NoId,
                                              IF again THEN c.name ELSE NoName, part)>>], gap)
    /\ provider' = [provider EXCEPT !.calls[i].args = @ \o part]

SayText ==
  /\ Talking
  /\ \E text \in SomeTexts, gap \in Gaps : Says([Silence EXCEPT !.text = text], gap)
  /\ UNCHANGED provider

(* message_delta, or a chunk with usage, which may come with every chunk.  *)
Usage ==
  /\ Talking
  /\ \E n \in provider.output .. MaxTokens, m \in 0 .. MaxTokens, gap \in Gaps :
       LET in == IF dialect = "openai" THEN m ELSE provider.input IN
       /\ Says([Silence EXCEPT !.output = n, !.input = IF dialect = "openai" THEN m ELSE None], gap)
       /\ provider' = [provider EXCEPT !.output = n, !.input = in]

(* [DONE], a ping. *)
SayOther ==
  /\ \E json \in BOOLEAN, gap \in Gaps : Says([Silence EXCEPT !.json = json], gap)
  /\ UNCHANGED provider

(* Only a stream that comes to its end is recorded; an error or a client that *)
(* leaves drops it (SessionRecording).                                        *)
StreamEnds ==
  /\ report = NoReport
  /\ \E elapsed, start \in Gaps :
       report' = Finalize(tracker, elapsed, start) @@ ParsedStream(collected)
  /\ UNCHANGED <<dialect, provider, tracker, collected>>

MetricsNext ==
  \/ MessageStart \/ BeginCall \/ Argument \/ SayText \/ Usage \/ SayOther
  \/ StreamEnds

-----------------------------------------------------------------------------
(* Everything was collected. *)
AllCollected == tracker.chunks <= MAX_COLLECTED_EVENTS + 1

Matches(r, c) == r.name = c.name /\ c.id \in {r.id, NoId}

(* Tokens and calls are what the provider said, each call once with all of   *)
(* its arguments, although parts of several calls alternate, calls are named *)
(* again and some have no id; beyond the limit they are the beginning of     *)
(* that (parse_anthropic_stream, parse_openai_stream).                       *)
CallsAreTrue ==
  LET calls == ToSet(provider.calls) IN
  /\ \A r \in report.calls : \E c \in calls : Matches(r, c) /\ IsPrefix(r.args, c.args)
  /\ report.count = Cardinality(report.calls)
  /\ AllCollected =>
       /\ \A c \in calls : \E r \in report.calls : Matches(r, c) /\ r.args = c.args
       /\ \A n \in ToolNames :
            ValueOf(report.byTool, n, 0) = Len(SelectSeq(provider.calls, LAMBDA c : c.name = n))
       /\ <<report.input, report.output>> = <<provider.input, provider.output>>

(* The statistics are ordered and agree with each other: half of the         *)
(* latencies are within the median, the first one is the time to the first   *)
(* token, and the stream lasted as long as the others (finalize).            *)
TimesAreTrue ==
  LET all == report.latencies IN
  /\ \A i, j \in DOMAIN report.marks : i < j => report.marks[i] <= report.marks[j]
  /\ all # <<>> =>
       /\ 2 * Len(SelectSeq(all, LAMBDA l : l <= report.marks[2])) >= Len(all)
       /\ report.ttft = all[1]
       /\ report.streaming >= WidthOf(Tail(all))

(* What a stream leaves in the records is what it was, and what is kept of   *)
(* it until then is bounded (memory bounds of streaming_metrics.rs:10-14).   *)
ReportIsTrue ==
  /\ report # NoReport => CallsAreTrue /\ TimesAreTrue
  /\ Len(collected) <= MAX_COLLECTED_EVENTS + 1
  /\ Len(tracker.latencies) <= MAX_CHUNK_LATENCIES
  /\ WidthOf(tracker.text) <= MAX_ACCUMULATED_TEXT_BYTES

(* "Log once when limit is first reached" (streaming_metrics.rs:82): the     *)
(* latencies stay at their limit, and every further event is such a time.    *)
LimitHitOnce == tracker.hits <= 1
=============================================================================
