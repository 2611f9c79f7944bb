---------------------------- MODULE FileRecording ----------------------------
(***************************************************************************)
(* The recording provider over the file session recorder of                *)
(* lunaroute-session (recording_provider.rs, recorder.rs): the directory   *)
(* of one session, which one call fills, step by step, while another       *)
(* client of the recorder reads, lists or deletes it.                      *)
(*                                                                         *)
(* What is recorded is a number: the request 0, the response -1, a stream  *)
(* event its place in the answer.  A line of the events file holds what    *)
(* was written to it, and reads back only if that is one whole text.       *)
(***************************************************************************)
EXTENDS Integers, SequencesExt

CONSTANTS
  Answers,     \* calls with what the provider answers
  Filters,     \* what query_sessions is asked for
  MaxErrors    \* errors of the file system

Items == {"id", "name", "text", "usage", "end", "error"}

ASSUME RecordingAssumption ==
  Answers \subseteq [streams : BOOLEAN, ok : BOOLEAN, items : Seq(Items)] /\ MaxErrors \in Nat

VARIABLES
  exchange,  \* the call and its answer
  at,        \* where the caller is
  stream,    \* RecordingStream: how much was polled, and what it remembers
  channel,   \* to the task that writes the events
  writer,    \* the event whose line that task has begun, or "none"
  closing,   \* complete_session: "none", what is to be written, and how far it is
  tools,     \* ToolCallMapper: the name of the tool is known to later calls
  naming,    \* a spawned record_call
  folder,    \* the directory of the session
  reader,    \* the other client
  errors

callVars == <<exchange, at, stream, channel, writer, closing, tools, naming>>
recordingVars == <<callVars, folder, reader, errors>>

Error == errors < MaxErrors /\ errors' = errors + 1
Fine  == UNCHANGED errors

(* SessionMetadata: its fields that change. *)
NewMetadata(s) == [streams |-> s, success |-> FALSE, failed |-> FALSE, usage |-> FALSE, finish |-> FALSE]
WithSuccess(meta, usage, finish) == [meta EXCEPT !.success = TRUE, !.usage = usage, !.finish = finish]
WithError(meta) == [meta EXCEPT !.failed = TRUE]

NoFile  == [is |-> "absent"]
Half    == [is |-> "torn"]
Full(meta) == [is |-> "full", meta |-> meta]
Lines(ls, open) == [is |-> "lines", lines |-> ls, open |-> open]
NoFolder == [there |-> FALSE, metadata |-> NoFile, log |-> NoFile]
Closed == [step |-> "none", meta |-> NewMetadata(FALSE)]

(* The text of x, or a part of it, goes behind what was written last. *)
Behind(log, x, whole) ==
  IF log.open
  THEN Lines(Front(log.lines) \o <<[Last(log.lines) EXCEPT !.of = Append(@, x), !.cut = @ \/ ~whole]>>, TRUE)
  ELSE Lines(Append(log.lines, [of |-> <<x>>, cut |-> ~whole]), TRUE)

(* record_response and record_stream_event: the file is opened for each text,
   which is written before its newline.  Without the file nothing is. *)
WriteText(x) ==
  \/ /\ folder.log.is = "lines"
     /\ \/ folder' = [folder EXCEPT !.log = Behind(@, x, TRUE)] /\ Fine
        \/ folder' = [folder EXCEPT !.log = Behind(@, x, FALSE)] /\ Error
        \/ UNCHANGED folder /\ Error
  \/ folder.log.is = "absent" /\ UNCHANGED folder /\ Fine

TextWritten == folder'.log.is = "lines" /\ folder'.log # folder.log /\ Fine

WriteNewline ==
  \/ folder' = [folder EXCEPT !.log = IF @.is = "lines" THEN [@ EXCEPT !.open = FALSE] ELSE @] /\ Fine
  \/ UNCHANGED folder /\ Error

(* fs::write empties the file, or makes it, and fills it; it needs the directory. *)
Truncate == folder.there /\ folder' = [folder EXCEPT !.metadata = Half]
FillMetadata(meta) == folder' = [folder EXCEPT !.metadata = IF @.is = "absent" THEN @ ELSE Full(meta)]

-----------------------------------------------------------------------------
(* send and stream.  An error of start_session is logged, and the call goes *)
(* on; a caller may drop the future at any await.                           *)

Goes(from, to) == at = from /\ at' = to

CreateFolder ==
  /\ \/ Goes("new", "metadata") /\ folder' = [folder EXCEPT !.there = TRUE] /\ Fine
     \/ Goes("new", "ask") /\ UNCHANGED folder /\ Error
  /\ UNCHANGED <<exchange, stream, channel, writer, closing, tools, naming>>

BeginMetadata ==
  /\ \/ Goes("metadata", "metadata_text") /\ Truncate /\ Fine
     \/ Goes("metadata", "ask") /\ UNCHANGED folder /\ ((~folder.there /\ Fine) \/ Error)
  /\ UNCHANGED <<exchange, stream, channel, writer, closing, tools, naming>>

EndMetadata ==
  /\ \/ Goes("metadata_text", "log") /\ FillMetadata(NewMetadata(exchange.streams)) /\ Fine
     \/ Goes("metadata_text", "ask") /\ UNCHANGED folder /\ Error
  /\ UNCHANGED <<exchange, stream, channel, writer, closing, tools, naming>>

CreateLog ==
  /\ \/ Goes("log", "request") /\ folder.there /\ folder' = [folder EXCEPT !.log = Lines(<<>>, FALSE)] /\ Fine
     \/ Goes("log", "ask") /\ UNCHANGED folder /\ ((~folder.there /\ Fine) \/ Error)
  /\ UNCHANGED <<exchange, stream, channel, writer, closing, tools, naming>>

WriteRequest ==
  /\ at = "request" /\ WriteText(0)
  /\ at' = IF TextWritten THEN "request_newline" ELSE "ask"
  /\ UNCHANGED <<exchange, stream, channel, writer, closing, tools, naming>>

EndRequest ==
  /\ Goes("request_newline", "ask") /\ WriteNewline
  /\ UNCHANGED <<exchange, stream, channel, writer, closing, tools, naming>>

(* send: a failure is recorded; the names of the tools are known before the
   response is recorded. *)
Answer ==
  /\ at = "ask" /\ ~exchange.streams
  /\ IF exchange.ok
     THEN /\ at' = "response" /\ tools' = (tools \/ "name" \in Range(exchange.items))
          /\ UNCHANGED closing
     ELSE /\ at' = "closing" /\ UNCHANGED tools
          /\ closing' = [step |-> "spawned", meta |-> WithError(NewMetadata(FALSE))]
  /\ UNCHANGED <<exchange, stream, channel, writer, naming, folder>> /\ Fine

WriteResponse ==
  /\ at = "response" /\ WriteText(-1)
  /\ at' = IF TextWritten THEN "response_newline" ELSE "closing"
  /\ closing' = IF TextWritten THEN closing ELSE [step |-> "spawned", meta |-> WithSuccess(NewMetadata(FALSE), TRUE, TRUE)]
  /\ UNCHANGED <<exchange, stream, channel, writer, tools, naming>>

EndResponse ==
  /\ Goes("response_newline", "closing") /\ WriteNewline
  /\ closing' = [step |-> "spawned", meta |-> WithSuccess(NewMetadata(FALSE), TRUE, TRUE)]
  /\ UNCHANGED <<exchange, stream, channel, writer, tools, naming>>

(* stream: when the provider refuses, `?' leaves the session as it is. *)
OpenStream ==
  /\ at = "ask" /\ exchange.streams
  /\ at' = IF exchange.ok THEN "streaming" ELSE "gone"
  /\ UNCHANGED <<exchange, stream, channel, writer, closing, tools, naming, folder>> /\ Fine

Ahead == SubSeq(exchange.items, stream.polled + 1, Len(exchange.items))

(* Every part of a call that follows its id and its name names it again. *)
PollEvent ==
  LET item == Head(Ahead)
      id   == stream.id \/ item = "id"
      name == stream.name \/ item = "name" IN
  /\ at = "streaming" /\ Ahead # <<>> /\ item # "error"
  /\ stream' = [stream EXCEPT !.polled = @ + 1, !.id = id, !.name = name,
                              !.usage = @ \/ item = "usage", !.finish = @ \/ item = "end"]
  /\ naming' = (naming \/ (item \in {"id", "name"} /\ id /\ name))
  /\ channel' = Append(channel, stream.polled + 1)
  /\ UNCHANGED <<exchange, at, writer, closing, tools, folder>> /\ Fine

PollError ==
  /\ at = "streaming" /\ Ahead # <<>> /\ Head(Ahead) = "error"
  /\ stream' = [stream EXCEPT !.polled = @ + 1, !.failed = TRUE]
  /\ closing' = [step |-> "spawned", meta |-> WithError(NewMetadata(TRUE))]
  /\ UNCHANGED <<exchange, at, channel, writer, tools, naming, folder>> /\ Fine

(* Mutant: had_error is not looked at. *)
WrongPollEnd ==
  /\ at = "streaming" /\ Ahead = <<>>
  /\ at' = "ended"
  /\ closing' = [step |-> "spawned", meta |-> WithSuccess(NewMetadata(TRUE), stream.usage, stream.finish)]
  /\ UNCHANGED <<exchange, stream, channel, writer, tools, naming, folder>> /\ Fine

PollEnd ==
  /\ at = "streaming" /\ Ahead = <<>>
  /\ at' = "ended"
  /\ closing' = IF stream.failed THEN closing
                ELSE [step |-> "spawned", meta |-> WithSuccess(NewMetadata(TRUE), stream.usage, stream.finish)]
  /\ UNCHANGED <<exchange, stream, channel, writer, tools, naming, folder>> /\ Fine

(* There is no Drop: nothing more is recorded but what the channel holds.  A
   write of metadata that has begun goes on without its caller. *)
Leave ==
  /\ at \notin {"metadata_text", "gone", "ended"} /\ (~exchange.streams => closing.step # "written")
  /\ at' = "gone"
  /\ closing' = IF exchange.streams THEN closing ELSE Closed
  /\ UNCHANGED <<exchange, stream, channel, writer, tools, naming, folder>> /\ Fine

-----------------------------------------------------------------------------
(* The tasks a stream spawns; complete_session of a send is awaited, and    *)
(* takes the same steps.                                                    *)

RecordEvent ==
  /\ writer = "none" /\ channel # <<>>
  /\ WriteText(Head(channel))
  /\ channel' = Tail(channel)
  /\ writer' = IF TextWritten THEN "line" ELSE "none"
  /\ UNCHANGED <<exchange, at, stream, closing, tools, naming>>

EndEvent ==
  /\ writer = "line" /\ WriteNewline
  /\ writer' = "none"
  /\ UNCHANGED <<exchange, at, stream, channel, closing, tools, naming>>

Finish(to) ==
  /\ closing' = IF to = "written" THEN [closing EXCEPT !.step = to] ELSE Closed
  /\ at' = IF to # "written" /\ ~exchange.streams THEN "ended" ELSE at

BeginClosing ==
  /\ closing.step = "spawned"
  /\ \/ Truncate /\ Finish("written") /\ Fine
     \/ UNCHANGED folder /\ Finish("none") /\ ((~folder.there /\ Fine) \/ Error)
  /\ UNCHANGED <<exchange, stream, channel, writer, tools, naming>>

EndClosing ==
  /\ closing.step = "written" /\ Finish("none")
  /\ \/ FillMetadata(closing.meta) /\ Fine
     \/ UNCHANGED folder /\ Error
  /\ UNCHANGED <<exchange, stream, channel, writer, tools, naming>>

NameTool ==
  /\ naming /\ naming' = FALSE /\ tools' = TRUE
  /\ UNCHANGED <<exchange, at, stream, channel, writer, closing, folder>> /\ Fine

-----------------------------------------------------------------------------
(* The other client: one get_session, query_sessions or delete_session.     *)

Reads(f, meta) == [is |-> f, meta |-> meta, response |-> FALSE, events |-> <<>>]
NoReader == Reads("idle", NewMetadata(FALSE))
Refuse == reader' = [reader EXCEPT !.is = "error"]
Parses(l) == Len(l.of) = 1 /\ ~l.cut
EventsOf(ls) ==
  LET found[i \in 0 .. Len(ls)] ==
        IF i = 0 THEN <<>>
        ELSE IF Parses(ls[i]) /\ ls[i].of[1] > 0 THEN Append(found[i - 1], ls[i].of[1]) ELSE found[i - 1]
  IN found[Len(ls)]

ReadMetadata ==
  /\ reader.is = "idle"
  /\ CASE folder.metadata.is = "absent" -> reader' = [reader EXCEPT !.is = "none"]
       [] folder.metadata.is = "torn"   -> Refuse
       [] OTHER                         -> reader' = Reads("metadata", folder.metadata.meta)
  /\ UNCHANGED folder

(* The first line has to be the request; a later one that cannot be parsed is
   passed over. *)
ReadEvents ==
  LET ls == folder.log.lines IN
  /\ reader.is = "metadata"
  /\ IF folder.log.is = "absent" \/ ls = <<>> \/ ~Parses(ls[1]) \/ ls[1].of # <<0>> THEN Refuse
     ELSE reader' = [Reads("session", reader.meta) EXCEPT
                       !.response = \E i \in DOMAIN ls : Parses(ls[i]) /\ ls[i].of = <<-1>>, !.events = EventsOf(ls)]
  /\ UNCHANGED folder

(* Metadata that cannot be read is passed over; the limit comes last. *)
Query ==
  /\ reader.is = "idle"
  /\ \E f \in Filters :
       reader' = IF /\ folder.metadata.is = "full"
                    /\ folder.metadata.meta.success \in f.success /\ folder.metadata.meta.streams \in f.streams
                    /\ f.limit > 0
                 THEN Reads("listed", folder.metadata.meta) ELSE [reader EXCEPT !.is = "not_listed"]
  /\ UNCHANGED folder

(* remove_dir_all: a file made meanwhile keeps the directory. *)
DeleteFiles ==
  /\ reader.is = "idle" /\ folder.there
  /\ folder' = [folder EXCEPT !.metadata = NoFile, !.log = NoFile]
  /\ reader' = [reader EXCEPT !.is = "deleting"]

DeleteFolder ==
  /\ reader.is = "deleting"
  /\ IF folder.metadata = NoFile /\ folder.log = NoFile
     THEN folder' = NoFolder /\ reader' = [reader EXCEPT !.is = "deleted"]
     ELSE UNCHANGED folder /\ Refuse

RecordingInit ==
  /\ exchange \in Answers /\ tools = FALSE
  /\ at = "new" /\ channel = <<>> /\ writer = "none" /\ closing = Closed /\ naming = FALSE
  /\ stream = [polled |-> 0, id |-> FALSE, name |-> FALSE, usage |-> FALSE, finish |-> FALSE, failed |-> FALSE]
  /\ folder = NoFolder /\ reader = NoReader /\ errors = 0

Starting == CreateFolder \/ BeginMetadata \/ EndMetadata \/ CreateLog \/ WriteRequest \/ EndRequest
Sending  == Answer \/ WriteResponse \/ EndResponse
Polling  == OpenStream \/ PollEvent \/ PollError \/ PollEnd
Spawned  == RecordEvent \/ EndEvent \/ BeginClosing \/ EndClosing \/ NameTool
Reading  == ReadMetadata \/ ReadEvents \/ Query \/ DeleteFiles \/ DeleteFolder

RecordingNext ==
  \/ (Starting \/ Sending \/ Polling \/ Leave \/ Spawned) /\ UNCHANGED reader
  \/ Reading /\ UNCHANGED callVars /\ Fine

RecordingSpec == RecordingInit /\ [][RecordingNext]_recordingVars

-----------------------------------------------------------------------------
Got == {i \in 1..stream.polled : exchange.items[i] # "error"}

(* What get_session and query_sessions say is what happened: the events are *)
(* those that the caller got, in their order and, if no write failed,       *)
(* without a gap; a success has been seen by the caller, in a stream up to  *)
(* its end and without an error, and the answer of a send comes with it     *)
(* (poll_next, record_stream_event, complete_session, get_session).         *)
RecordTellsTheTruth ==
  /\ reader.is = "session" =>
       /\ Range(reader.events) \subseteq Got
       /\ \A i \in DOMAIN reader.events : i > 1 => reader.events[i] > reader.events[i - 1]
       /\ errors = 0 => \A i \in Got : i \in Range(reader.events) \/ \A j \in Range(reader.events) : j < i
       /\ reader.meta.success /\ ~reader.meta.streams /\ errors = 0 => reader.response
  /\ reader.is \in {"session", "listed"} =>
       /\ reader.meta.success => exchange.ok /\ ~stream.failed
                                 /\ (exchange.streams => stream.polled = Len(exchange.items))
       /\ reader.meta.failed => ~exchange.ok \/ stream.failed
=============================================================================
