------------------------- MODULE StreamTranslation --------------------------
(***************************************************************************)
(* A streamed answer on its way from a provider of one dialect to a client *)
(* of the same or the other one: the wire events of the provider, the      *)
(* normalized events that lunaroute-egress makes of them                   *)
(* (create_openai_stream, create_anthropic_stream), and the events that    *)
(* the handlers of lunaroute-ingress send (chat_completions, messages, and *)
(* the cross-dialect branch of messages_passthrough).                      *)
(*                                                                         *)
(* The streams are pulled event by event, so that one wire event goes all  *)
(* the way in one step.  What the provider says is a sequence of fragments *)
(* of text or of the arguments of a tool call; a fragment is its position  *)
(* in that sequence, and 0 is an empty one.                                *)
(***************************************************************************)
EXTENDS Integers, FiniteSets, SequencesExt

CONSTANTS
  Routes,    \* pairs of a provider's dialect and a handler
  MaxSaid,   \* fragments in an answer
  MaxCalls,  \* tool calls in an answer
  MaxWire    \* wire events in an answer

ASSUME StreamAssumption ==
  /\ Routes \subseteq [provider : {"openai", "anthropic"}, handler : {"chat", "messages", "cross"}]
  \* The cross-dialect branch is taken for an OpenAI provider only.
  /\ \A r \in Routes : r.handler = "cross" => r.provider = "openai"
  /\ {MaxSaid, MaxCalls, MaxWire} \subseteq Nat

VARIABLES
  route,
  wire,    \* the provider: events left, open block, its kind, calls begun, position
  said,    \* for each fragment its tool call, or 0 for text
  reader,  \* what create_anthropic_stream remembers
  block,   \* StreamBlockState
  out,     \* what the client got
  packed,  \* a chunk began two tool calls
  dead     \* the task of the stream panicked

vars == <<route, wire, said, reader, block, out, packed, dead>>

None == -1
ToAnthropicClient == route.handler # "chat"

(***************************************************************************)
(* Ingress: normalized events to client events.                            *)
(***************************************************************************)
Out(type, at, id, frag) == [type |-> type, at |-> at, id |-> id, frag |-> frag]
FreshBlock == [active |-> None, tool |-> FALSE, call |-> None, next |-> 0]

(* close_active: the block without its active part, and what is sent. *)
Closed(b) == IF b.active = None THEN b ELSE [b EXCEPT !.active = None, !.tool = FALSE, !.call = None]
Stop(b) == IF b.active = None THEN <<>> ELSE <<Out("stop", <<b.active>>, None, 0)>>

Result(b, events) == [block |-> b, out |-> events, dead |-> FALSE]

OnStart == Result(FreshBlock, <<Out("start", <<>>, None, 0)>>)

(* Mutant: the text goes to whatever block is active. *)
WrongOnDelta(e, b) ==
  LET opens == b.active = None
      now == IF opens THEN [b EXCEPT !.active = b.next, !.next = @ + 1, !.tool = FALSE] ELSE b IN
  Result(now, (IF opens THEN <<Out("text_block", <<now.active>>, None, 0)>> ELSE <<>>)
                \o <<Out("text", <<now.active>>, None, e.frag)>>)

OnDelta(e, b) ==
  LET closes == b.active # None /\ b.tool
      was == IF closes THEN Closed(b) ELSE b
      opens == was.active = None
      now == IF opens THEN [was EXCEPT !.active = was.next, !.next = @ + 1, !.tool = FALSE] ELSE was IN
  Result(now, (IF closes THEN Stop(b) ELSE <<>>)
                \o (IF opens THEN <<Out("text_block", <<now.active>>, None, 0)>> ELSE <<>>)
                \o <<Out("text", <<now.active>>, None, e.frag)>>)

IsActive(b, call) == b.tool /\ b.call = call

(* A delta with an id and a name opens a block unless its call is active. *)
Opened(e, b) ==
  IF e.id = None \/ IsActive(b, e.call) THEN Result(b, <<>>)
  ELSE Result([active |-> b.next, tool |-> TRUE, call |-> e.call, next |-> b.next + 1],
              Stop(b) \o <<Out("tool_block", <<b.next>>, e.id, 0)>>)

(* Mutant: the delta that opens the block brings no arguments. *)
WrongOnCall(e, b) ==
  LET o == Opened(e, b) IN
  IF e.id # None \/ e.frag = 0 \/ ~IsActive(o.block, e.call) THEN o
  ELSE IF o.block.active = None THEN [o EXCEPT !.dead = TRUE]
  ELSE [o EXCEPT !.out = @ \o <<Out("args", <<o.block.active>>, None, e.frag)>>]

(* Arguments of a call that is not active are dropped; the index of the
   active one is unwrapped. *)
OnCall(e, b) ==
  LET o == Opened(e, b) IN
  IF e.frag = 0 \/ ~IsActive(o.block, e.call) THEN o
  ELSE IF o.block.active = None THEN [o EXCEPT !.dead = TRUE]
  ELSE [o EXCEPT !.out = @ \o <<Out("args", <<o.block.active>>, None, e.frag)>>]

OnEnd(b) ==
  Result(Closed(b), Stop(b) \o <<Out("finish", <<>>, None, 0), Out("over", <<>>, None, 0)>>)

(* An error takes the active index and leaves the rest of the block. *)
OnError(b) ==
  Result([b EXCEPT !.active = None],
         Stop(b) \o <<Out("error", <<>>, None, 0), Out("over", <<>>, None, 0)>>)

ToAnthropic(e, b) ==
  CASE e.type = "start" -> OnStart
    [] e.type = "delta" -> OnDelta(e, b)
    [] e.type = "call"  -> OnCall(e, b)
    [] e.type = "usage" -> Result(b, <<>>)
    [] e.type = "end"   -> OnEnd(b)
    [] e.type = "error" -> OnError(b)

(* An OpenAI client knows a tool call by its choice and its index. *)
ToOpenAI(e, b) ==
  LET at == <<e.index, e.call>> IN
  CASE e.type = "start" -> Result(b, <<>>)
    [] e.type = "delta" -> Result(b, <<Out("text", at, None, e.frag)>>)
    [] e.type = "call"  -> Result(b, (IF e.id = None THEN <<>> ELSE <<Out("tool_block", at, e.id, 0)>>)
                                       \o (IF e.frag = 0 THEN <<>> ELSE <<Out("args", at, None, e.frag)>>))
    [] e.type = "usage" -> Result(b, <<Out("usage", <<>>, None, 0)>>)
    [] e.type = "end"   -> Result(b, <<Out("finish", <<>>, None, 0)>>)
    [] e.type = "error" -> Result(b, <<Out("error", <<>>, None, 0)>>)

Sent(s, e) ==
  IF s.dead THEN s
  ELSE LET r == IF ToAnthropicClient THEN ToAnthropic(e, s.block) ELSE ToOpenAI(e, s.block) IN
       [block |-> r.block, out |-> s.out \o r.out, dead |-> r.dead]

(* The normalized events of one wire event reach the client. *)
Deliver(events) ==
  LET r == FoldLeft(Sent, [block |-> block, out |-> out, dead |-> dead], events) IN
  block' = r.block /\ out' = r.out /\ dead' = r.dead

(***************************************************************************)
(* Egress: wire events to normalized events.                               *)
(***************************************************************************)
Normal(type, index, call, id, frag) ==
  [type |-> type, index |-> index, call |-> call, id |-> id, frag |-> frag]
Signal(type) == Normal(type, 0, None, None, 0)

(* A chunk becomes one event at most: usage, else the end, else its text,
   else its first tool call. *)
Chunk(usage, finish, text, calls) == [usage |-> usage, finish |-> finish, text |-> text, calls |-> calls]
FromChunk(c) ==
  CASE c.usage -> <<Signal("usage")>>
    [] ~c.usage /\ c.finish -> <<Signal("end")>>
    [] ~c.usage /\ ~c.finish /\ c.text # None -> <<Normal("delta", 0, None, None, c.text)>>
    [] ~c.usage /\ ~c.finish /\ c.text = None /\ c.calls # <<>> ->
         LET f == c.calls[1] IN <<Normal("call", 0, f.call, f.id, f.frag)>>
    [] OTHER -> <<>>

(* The connection breaks or an event does not parse: an error, and whatever
   else was being said goes on. *)
Garbled == Deliver(<<Signal("error")>>)

(* message_delta: usage, and the first stop reason. *)
MessageDelta(usage, stops) ==
  /\ reader' = [reader EXCEPT !.ended = @ \/ stops]
  /\ Deliver((IF usage THEN <<Signal("usage")>> ELSE <<>>)
               \o (IF stops /\ ~reader.ended THEN <<Signal("end")>> ELSE <<>>))

(***************************************************************************)
(* The providers.  Both say their tool calls one after the other, as their *)
(* interfaces do; an Anthropic block of a kind the code does not know      *)
(* (`thinking', or the input of a `server' tool) does not parse.           *)
(***************************************************************************)
Init ==
  /\ route \in Routes
  /\ wire = [pc |-> "begin", kind |-> "", index |-> None, calls |-> 0, left |-> MaxWire]
  /\ said = <<>> /\ packed = FALSE /\ dead = FALSE
  /\ reader = [calls |-> <<>>, ended |-> FALSE]
  \* The cross-dialect branch puts a start before the provider's events.
  /\ block = FreshBlock
  /\ out = IF route.handler = "cross" THEN OnStart.out ELSE <<>>

At(provider, pc) == ~dead /\ route.provider = provider /\ wire.pc = pc /\ wire.left > 0
Goes(pc) == wire' = [wire EXCEPT !.pc = pc, !.left = @ - 1]
Say(call) == Len(said) < MaxSaid /\ said' = Append(said, call)
Position == Len(said) + 1

(* OpenAI: a role with an empty text or none, text, tool calls, the end, the
   usage, [DONE]. *)
SayRole ==
  /\ At("openai", "begin") /\ Goes("talking")
  /\ \E text \in {None, 0} : Deliver(FromChunk(Chunk(FALSE, FALSE, text, <<>>)))
  /\ UNCHANGED <<route, said, reader, packed>>

SayText ==
  /\ At("openai", "talking") /\ wire.calls = 0 /\ Goes("talking")
  /\ Say(0)
  /\ Deliver(FromChunk(Chunk(FALSE, FALSE, Position, <<>>)))
  /\ UNCHANGED <<route, reader, packed>>

Call(c, head, frag) == [call |-> c, id |-> IF head THEN c ELSE None, frag |-> frag]

BeginCall ==
  /\ At("openai", "talking") /\ wire.calls < MaxCalls
  /\ wire' = [wire EXCEPT !.calls = @ + 1, !.left = @ - 1]
  /\ \E whole \in BOOLEAN :
       /\ IF whole THEN Say(wire'.calls) ELSE said' = said
       /\ Deliver(FromChunk(Chunk(FALSE, FALSE, None, <<Call(wire'.calls, TRUE, IF whole THEN Position ELSE 0)>>)))
  /\ UNCHANGED <<route, reader, packed>>

(* Two whole calls in one chunk. *)
BeginTwoCalls ==
  /\ At("openai", "talking") /\ wire.calls + 2 <= MaxCalls /\ Len(said) + 2 <= MaxSaid
  /\ wire' = [wire EXCEPT !.calls = @ + 2, !.left = @ - 1]
  /\ said' = said \o <<wire.calls + 1, wire.calls + 2>>
  /\ Deliver(FromChunk(Chunk(FALSE, FALSE, None,
       <<Call(wire.calls + 1, TRUE, Position), Call(wire.calls + 2, TRUE, Position + 1)>>)))
  /\ packed' = TRUE
  /\ UNCHANGED <<route, reader>>

SayArguments ==
  /\ At("openai", "talking") /\ wire.calls > 0 /\ Goes("talking")
  /\ Say(wire.calls)
  /\ Deliver(FromChunk(Chunk(FALSE, FALSE, None, <<Call(wire.calls, FALSE, Position)>>)))
  /\ UNCHANGED <<route, reader, packed>>

SayFinish ==
  /\ At("openai", "talking") /\ Goes("finished")
  /\ Deliver(FromChunk(Chunk(FALSE, TRUE, None, <<>>)))
  /\ UNCHANGED <<route, said, reader, packed>>

SayUsage ==
  /\ At("openai", "finished") /\ Goes("counted")
  /\ Deliver(FromChunk(Chunk(TRUE, FALSE, None, <<>>)))
  /\ UNCHANGED <<route, said, reader, packed>>

(* Anthropic: the message, its blocks, and message_delta, maybe again. *)
StartMessage ==
  /\ At("anthropic", "begin") /\ Goes("between")
  /\ Deliver(<<Signal("start")>>)
  /\ UNCHANGED <<route, said, reader, packed>>

StartBlock ==
  /\ At("anthropic", "between")
  /\ \E kind \in {"text", "call", "thinking", "server"} :
       LET called == kind = "call" IN
       /\ called => wire.calls < MaxCalls
       /\ wire' = [wire EXCEPT !.pc = "block", !.kind = kind, !.index = @ + 1, !.left = @ - 1,
                               !.calls = IF called THEN @ + 1 ELSE @]
       /\ reader' = IF called THEN [reader EXCEPT !.calls = (wire'.index :> wire'.calls) @@ @] ELSE reader
       /\ IF kind \in {"thinking", "server"} THEN Garbled ELSE UNCHANGED <<block, out, dead>>
  /\ UNCHANGED <<route, said, packed>>

TextDelta ==
  /\ At("anthropic", "block") /\ wire.kind = "text" /\ Goes("block")
  /\ Say(0)
  /\ Deliver(<<Normal("delta", wire.index, None, None, Position)>>)
  /\ UNCHANGED <<route, reader, packed>>

(* Every delta of a call repeats its id and name, and its index is 0. *)
JsonDelta ==
  /\ At("anthropic", "block") /\ wire.kind \in {"call", "server"} /\ Goes("block")
  /\ IF wire.index \in DOMAIN reader.calls
     THEN /\ Say(wire.calls)
          /\ Deliver(<<Normal("call", wire.index, 0, reader.calls[wire.index], Position)>>)
     ELSE UNCHANGED <<said, block, out, dead>>
  /\ UNCHANGED <<route, reader, packed>>

ThinkingDelta ==
  /\ At("anthropic", "block") /\ wire.kind = "thinking" /\ Goes("block")
  /\ Garbled
  /\ UNCHANGED <<route, said, reader, packed>>

StopBlock ==
  /\ At("anthropic", "block") /\ Goes("between")
  /\ reader' = [reader EXCEPT !.calls = Restrict(@, DOMAIN @ \ {wire.index})]
  /\ UNCHANGED <<route, said, block, out, packed, dead>>

FinishMessage ==
  /\ \/ At("anthropic", "between") /\ Goes("finished")
     \/ At("anthropic", "finished") /\ Goes("finished")
  /\ \E usage, stops \in BOOLEAN : (wire.pc = "finished" \/ stops) /\ MessageDelta(usage, stops)
  /\ UNCHANGED <<route, said, packed>>

(* Either provider: an event that does not parse, a broken connection, the
   end of the body, be it early.  Chat clients get [DONE] after whatever came. *)
Garble ==
  /\ \E p \in {"openai", "anthropic"}, pc \in {"talking", "between", "block"} : At(p, pc) /\ Goes(pc)
  /\ Garbled
  /\ UNCHANGED <<route, said, reader, packed>>

Ended(events) == IF ToAnthropicClient THEN events ELSE Append(events, Out("over", <<>>, None, 0))

Cut ==
  /\ ~dead /\ wire.pc \notin {"begin", "closed"}
  /\ wire' = [wire EXCEPT !.pc = "closed"]
  /\ LET r == Sent([block |-> block, out |-> out, dead |-> dead], Signal("error")) IN
       block' = r.block /\ out' = Ended(r.out) /\ dead' = r.dead
  /\ UNCHANGED <<route, said, reader, packed>>

Close ==
  /\ ~dead /\ wire.pc \notin {"begin", "closed"}
  /\ wire' = [wire EXCEPT !.pc = "closed"]
  /\ out' = Ended(out)
  /\ UNCHANGED <<route, said, reader, block, packed, dead>>

Next ==
  \/ SayRole \/ SayText \/ BeginCall \/ BeginTwoCalls \/ SayArguments \/ SayFinish \/ SayUsage
  \/ StartMessage \/ StartBlock \/ TextDelta \/ JsonDelta \/ ThinkingDelta \/ StopBlock \/ FinishMessage
  \/ Garble \/ Cut \/ Close

Spec == Init /\ [][Next]_vars

(***************************************************************************)
(* Properties.                                                             *)
(***************************************************************************)
Got(type, at) == SelectSeq(out, LAMBDA o : o.type = type /\ o.at = at)
Fragments(at) == LET got == Got("args", at) IN [i \in DOMAIN got |-> got[i].frag]
Calls == {out[i] : i \in {i \in DOMAIN out : out[i].type = "tool_block"}}
Count(type) == Cardinality({i \in DOMAIN out : out[i].type = type})
SaidOf(call) == SelectSeq([i \in DOMAIN said |-> i], LAMBDA i : said[i] = call)

(* One event further: the open block, its kind, and the blocks so far; the
   index of a misplaced event is Broken. *)
Broken == [open |-> "broken", at |-> <<>>, used |-> 0]
Nest(s, o) ==
  CASE o.type \in {"text_block", "tool_block"} ->
         IF s.open = "none" /\ o.at = <<s.used>> THEN [open |-> o.type, at |-> o.at, used |-> s.used + 1] ELSE Broken
    [] o.type = "text" -> IF s.open = "text_block" /\ o.at = s.at THEN s ELSE Broken
    [] o.type = "args" -> IF s.open = "tool_block" /\ o.at = s.at THEN s ELSE Broken
    [] o.type = "stop" -> IF s.open \in {"text_block", "tool_block"} /\ o.at = s.at
                          THEN [s EXCEPT !.open = "none"] ELSE Broken
    [] o.type \in {"finish", "error", "over", "start"} -> IF s.open = "none" THEN s ELSE Broken
    [] OTHER -> s

(* An Anthropic client gets blocks that are numbered 0, 1, 2, ... and do not
   overlap, each delta inside a block of its kind, no block left open at the
   end or at an error, and one end (anthropic.rs 806-998); a chat client gets
   one finish_reason too (egress anthropic.rs 985-1000), and [DONE]. *)
WellFormed ==
  /\ ToAnthropicClient =>
       FoldLeft(Nest, [open |-> "none", at |-> <<>>, used |-> 0], out).open # "broken"
  /\ Count("finish") = IF wire.pc \in {"finished", "counted"} \/ Count("finish") > 0 THEN 1 ELSE 0
  /\ wire.pc = "closed" /\ (route.handler = "chat" \/ Count("finish") + Count("error") > 0) =>
       \E i \in DOMAIN out : out[i].type = "over"

(* What the client reads as the arguments of one tool call was said for this
   call and for no other (anthropic.rs 908-960). *)
Unmixed == \A o \in Calls : \A i \in DOMAIN Fragments(o.at) : said[Fragments(o.at)[i]] = o.id

(* The client gets all the text that was said, in order; calls stay apart;
   and, unless a chunk had two calls or something did not parse, every call
   comes with all of its arguments, in one piece (egress openai.rs 1715-1785,
   anthropic.rs 908-965).  Neither holds of the calls of an Anthropic provider
   to an Anthropic client, see README. *)
AllArrives ==
  /\ LET texts == SelectSeq(out, LAMBDA o : o.type = "text" /\ o.frag # 0) IN
       ~dead => [i \in DOMAIN texts |-> texts[i].frag] = SaidOf(0)
  /\ route.provider = "openai" \/ ~ToAnthropicClient =>
       /\ Unmixed
       /\ ~packed /\ Count("error") = 0 =>
            \A c \in 1..wire.calls : SaidOf(c) # <<>> =>
              /\ Cardinality({o.at : o \in {o \in Calls : o.id = c}}) = 1
              /\ \A o \in Calls : o.id = c => Fragments(o.at) = SaidOf(c)

(* "Send partial JSON only if the matching tool block is active"
   (ingress/anthropic.rs:942): the index that the code then unwraps is there. *)
NoPanic == ~dead
=============================================================================
