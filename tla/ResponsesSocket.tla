--------------------------- MODULE ResponsesSocket ---------------------------
(***************************************************************************)
(* The WebSocket of the Responses API (lunaroute-ingress/responses_ws.rs): *)
(* one connection, whose frames are served one after the other, each by a  *)
(* stream of the provider or by an answer of the server's own.             *)
(*                                                                         *)
(* A frame has the number of its place; a response of the provider has the *)
(* number of the frame it answers as its id, the synthetic response to a   *)
(* warm-up that number with a minus sign.                                  *)
(***************************************************************************)
EXTENDS Integers, SequencesExt, FiniteSets

CONSTANTS
  Peers,     \* whether a client waits for an answer, and names its session
  FrameKinds,  \* what it sends, and how often
  MaxFrames,
  EventKinds,  \* what the provider's streams say, and how much one of them
  MaxEvents

VARIABLES
  client,   \* what it is waiting for, and the response it goes on from
  frames,   \* from the client
  served,   \* how many of them the server has received
  loop,     \* where run_ws_session() is
  outbox,   \* frames to the client
  forwarded,     \* events of the stream that is forwarded
  upstream  \* requests to the provider

socketVars == <<client, frames, served, loop, outbox, forwarded, upstream>>

NoResponse == 0
Terminal == {"completed", "failed", "incomplete", "cancelled"}
(* What the server says to a frame that it refuses. *)
Refusals ==
  [malformed |-> "malformed_json", missing |-> "invalid_request", unsupported |-> "unsupported_event_type",
   binary |-> "unsupported_frame_type"]
Codes == Range(Refusals) \cup {"upstream_error", "stream_error", "stream_ended"}

Open == client.is # "gone"

(* What the client takes for the end of an answer: an error that comes from
   the provider, too. *)
Ending == Terminal \cup Codes \cup {"error"}

-----------------------------------------------------------------------------
(* The client.  It goes on from the last response that was completed.  With *)
(* pings and Close frames it does not wait for anything.                    *)

Asking == {"create", "warmup"} \cup DOMAIN Refusals

(* An event of the provider is none of the server's own error frames, which *)
(* have the names of their codes here.                                      *)
ASSUME SocketAssumption ==
  /\ Peers \subseteq [waits : BOOLEAN, named : BOOLEAN]
  /\ FrameKinds \subseteq Asking \cup {"ping", "close"}
  /\ EventKinds \cap Codes = {}

SendFrame(kind) ==
  /\ client.is = "open" /\ Len(frames) < MaxFrames
  /\ client.waits => client.waiting = <<>>
  /\ frames' = Append(frames, [kind |-> kind, previous |-> IF kind = "create" THEN client.previous ELSE NoResponse])
  /\ client' = [client EXCEPT !.waiting = IF kind \in Asking THEN Append(@, Len(frames')) ELSE @,
                              !.is = IF kind = "close" THEN "closing" ELSE @]
  /\ UNCHANGED <<served, loop, outbox, forwarded, upstream>>

ReadFrame ==
  LET f == outbox[client.read + 1] IN
  /\ Open /\ client.read < Len(outbox)
  /\ client' = [client EXCEPT !.read = @ + 1,
                              !.previous = IF f.kind = "completed" THEN f.id ELSE @,
                              !.waiting = IF f.kind \in Ending /\ @ # <<>> THEN Tail(@) ELSE @]
  /\ UNCHANGED <<frames, served, loop, outbox, forwarded, upstream>>

Disappear ==
  /\ Open
  /\ client' = [client EXCEPT !.is = "gone"]
  /\ UNCHANGED <<frames, served, loop, outbox, forwarded, upstream>>

-----------------------------------------------------------------------------
(* The server. *)

(* The frame that is served. *)
Now == IF loop = "recv" THEN served + 1 ELSE served

(* What is sent to a client that is gone is lost; whether the server is told *)
(* of it matters in Forward only.                                            *)
SendText(kind, id) ==
  outbox' = IF Open THEN Append(outbox, [kind |-> kind, id |-> id, of |-> Now]) ELSE outbox

SendError(code) == SendText(code, NoResponse)

ReceiveFrame ==
  /\ loop = "recv" /\ served < Len(frames)
  /\ served' = Now
  /\ UNCHANGED <<client, frames>>

Frame == frames[Now]

(* parse_client_frame() refuses a text, or the frame is none. *)
Refuse ==
  /\ ReceiveFrame
  /\ Frame.kind \in DOMAIN Refusals /\ SendError(Refusals[Frame.kind])
  /\ UNCHANGED <<loop, forwarded, upstream>>

PingFrame == ReceiveFrame /\ Frame.kind = "ping" /\ UNCHANGED <<loop, outbox, forwarded, upstream>>

CloseFrame == ReceiveFrame /\ Frame.kind = "close" /\ loop' = "ended" /\ UNCHANGED <<outbox, forwarded, upstream>>

(* generate: false is answered at once, with an id of the server's own. *)
WarmUp ==
  /\ ReceiveFrame /\ Frame.kind = "warmup"
  /\ SendText("completed", -Now)
  /\ UNCHANGED <<loop, forwarded, upstream>>

StripSynthetic(id) == IF id < 0 THEN NoResponse ELSE id

(* responses_sse_stream() gives each request a session of its own unless the
   upgrade named one. *)
Create ==
  /\ ReceiveFrame /\ Frame.kind = "create"
  /\ upstream' = Append(upstream, [of |-> Now, previous |-> StripSynthetic(Frame.previous),
                                   session |-> IF client.named THEN 0 ELSE Now])
  /\ loop' = "opening" /\ forwarded' = 0
  /\ UNCHANGED outbox

OpenStream ==
  /\ loop = "opening"
  /\ UNCHANGED <<client, frames, served, forwarded, upstream>>
  /\ \/ loop' = "forwarding" /\ UNCHANGED outbox
     \/ loop' = "recv" /\ SendError("upstream_error")

(* Mutant: only the name of the event is looked at. *)
WrongIsTerminal(kind, where) == where = "event" /\ kind \in Terminal

(* The event says what it is in its name, or in its data. *)
IsTerminal(kind, where) == where \in {"event", "data"} /\ kind \in Terminal

(* forward_stream(), for one event; a send that fails ends it. *)
Forward(kind, where) ==
  /\ loop = "forwarding" /\ forwarded < MaxEvents
  /\ forwarded' = forwarded + 1
  /\ UNCHANGED <<client, frames, served, upstream>>
  /\ SendText(kind, IF kind \in Terminal THEN Now ELSE NoResponse)
  /\ \/ ~Open /\ loop' = "recv"
     \/ loop' = IF IsTerminal(kind, where) THEN "recv" ELSE loop

(* It breaks, or ends without a terminal event. *)
StreamOver ==
  /\ loop = "forwarding"
  /\ loop' = "recv"
  /\ SendError("stream_error") \/ SendError("stream_ended")
  /\ UNCHANGED <<client, frames, served, forwarded, upstream>>

(* recv() finds the connection closed or broken. *)
Hangup ==
  /\ loop = "recv" /\ ~Open
  /\ loop' = "ended"
  /\ UNCHANGED <<client, frames, served, outbox, forwarded, upstream>>

-----------------------------------------------------------------------------
SocketInit ==
  /\ \E c \in Peers :
       client = [is |-> "open", waits |-> c.waits, named |-> c.named, waiting |-> <<>>, previous |-> NoResponse, read |-> 0]
  /\ frames = <<>> /\ served = 0 /\ loop = "recv" /\ outbox = <<>> /\ forwarded = 0 /\ upstream = <<>>

Streams ==
  \/ OpenStream \/ StreamOver
  \/ \E kind \in EventKinds, where \in {"event", "data"} : Forward(kind, where)

SocketNext ==
  \/ \E kind \in FrameKinds : SendFrame(kind)
  \/ ReadFrame \/ Disappear
  \/ Refuse \/ PingFrame \/ CloseFrame \/ WarmUp \/ Create
  \/ Streams
  \/ Hangup

SocketSpec == SocketInit /\ [][SocketNext]_socketVars

-----------------------------------------------------------------------------
Handled == 1 .. (IF loop \in {"recv", "ended"} THEN served ELSE served - 1)
Ends(f) == f.kind \in Terminal \cup Codes

(* Answers come in the order of the frames, and each has one end, which is *)
(* its last frame (forward_stream, handle_client_text).                    *)
EndsOnce ==
  /\ \A i, j \in DOMAIN outbox : i < j =>
       outbox[i].of <= outbox[j].of /\ (Ends(outbox[i]) => outbox[i].of # outbox[j].of)
  /\ \A n \in Handled : frames[n].kind \in Asking /\ Open =>
       \E i \in DOMAIN outbox : outbox[i].of = n /\ Ends(outbox[i])

(* The provider is asked to go on only from responses of its own that this  *)
(* connection has delivered before (strip_synthetic_warmup_previous_id).    *)
IdsAreKnown ==
  \A r \in Range(upstream) :
    r.previous # NoResponse =>
      \E f \in Range(outbox) : f.kind = "completed" /\ f.id = r.previous /\ f.of < r.of
                                /\ frames[f.of].kind = "create"

Unread == {i \in client.read + 1 .. Len(outbox) : outbox[i].kind \in Ending}
Unserved == {n \in served + 1 .. Len(frames) : frames[n].kind \in Asking}
Underway == loop \in {"opening", "forwarding"}

(* "so the client doesn't hang waiting" (responses_ws.rs:351): for every    *)
(* frame that a client waits for there is an end to read, a stream that is  *)
(* open, or a frame that the server has still to receive (forward_stream).  *)
NobodyHangs ==
  client.is = "open" =>
    Len(client.waiting) <= Cardinality(Unread) + Cardinality(Unserved) + (IF Underway THEN 1 ELSE 0)

(* Requests of one connection keep apart and all come to an end, whatever   *)
(* the client sends, whether it waits, and however the provider's streams   *)
(* end.                                                                     *)
TurnsStayApart == EndsOnce /\ IdsAreKnown /\ NobodyHangs

(* An error frame ends an answer for the client                             *)
(* (docs/superpowers/specs/2026-04-16-codex-websocket-responses-design.md:45); *)
(* an error event of the provider is none of TERMINAL_EVENTS, and another   *)
(* one follows when its stream ends.                                        *)
OwnAnswers ==
  [][client'.read > client.read /\ outbox[client'.read].kind \in Ending /\ client.waiting # <<>>
       => outbox[client'.read].of = Head(client.waiting)]_socketVars

(* "subsequent frames reuse it" (line 131 there, of the session): without a *)
(* session of the client every frame is a session of its own.               *)
OneSession == \A q, r \in Range(upstream) : q.session = r.session
=============================================================================
