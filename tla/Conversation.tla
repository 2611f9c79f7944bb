---------------------------- MODULE Conversation ----------------------------
(***************************************************************************)
(* A conversation of several turns through the normalized form: each       *)
(* request carries the whole history in the client's dialect, becomes a    *)
(* NormalizedRequest (to_normalized of either handler), and then a request *)
(* in the provider's dialect (to_openai_request, to_anthropic_request);    *)
(* the answer comes back the same way and joins the client's history.      *)
(* The connector sends a request again when it fails for a while           *)
(* (with_retry), whether or not the provider has answered it meanwhile.    *)
(*                                                                         *)
(* A text is a number, `words' are the texts of a message in their order   *)
(* (the code joins them with newlines).  The model's parameters and the    *)
(* limits on sizes, which refuse a request and change nothing, are left    *)
(* out.                                                                    *)
(***************************************************************************)
EXTENDS Integers, FiniteSets, SequencesExt

CONSTANTS
  Pairs,     \* the dialects of client and provider, and prepend_messages
  MaxRetries, \* HttpClientConfig.max_retries
  MaxWords,   \* texts in a conversation
  MaxUses    \* tool calls in a conversation

ASSUME ConversationAssumption ==
  /\ \A r \in Pairs : {r.client, r.provider} \subseteq {"openai", "anthropic"}
  /\ {MaxRetries, MaxWords, MaxUses} \subseteq Nat

VARIABLES
  pair,
  told,      \* the client's history, in its dialect
  asked,     \* the request the provider got last, <<>> if it failed
  tries,     \* how often it was sent before
  answer,    \* the provider's last answer, in its dialect
  open,      \* tool calls of the last answer that have no result yet
  words,     \* texts so far
  made       \* tool calls so far

talkVars == <<pair, told, asked, tries, answer, open, words, made>>

(***************************************************************************)
(* Messages.  A block of an Anthropic message is a text, a tool call or a  *)
(* tool result; other messages, normalized or of OpenAI, have words, calls,*)
(* and the id of one result or none.                                       *)
(***************************************************************************)
NoId == [n |-> 0, toolu |-> FALSE, odd |-> FALSE]
Block(kind, id, word) == [kind |-> kind, id |-> id, word |-> word]
Message(role, ws, calls, result) == [role |-> role, words |-> ws, calls |-> calls, result |-> result]
Of(blocks, kinds) == SelectSeq(blocks, LAMBDA b : b.kind \in kinds)
Words(blocks) == [i \in DOMAIN blocks |-> blocks[i].word]
Ids(blocks) == [i \in DOMAIN blocks |-> blocks[i].id]

(***************************************************************************)
(* Ingress.                                                                *)
(***************************************************************************)
(* Mutant: the calls of a message that also has text are forgotten. *)
WrongFromBlocks(role, blocks) ==
  LET results == Of(blocks, {"result"})
      texts   == Of(blocks, {"text", "result"}) IN
  Message(role, Words(texts), IF texts = <<>> THEN Ids(Of(blocks, {"use"})) ELSE <<>>,
          IF results = <<>> THEN NoId ELSE Last(results).id)

(* Texts and results become one text; the last result gives its id. *)
FromBlocks(role, blocks) ==
  LET results == Of(blocks, {"result"}) IN
  Message(role, Words(Of(blocks, {"text", "result"})), Ids(Of(blocks, {"use"})),
          IF results = <<>> THEN NoId ELSE Last(results).id)

(* The system prompt of an Anthropic request is a field of its own. *)
FromAnthropicClient(h) ==
  LET dialogue == SelectSeq(h, LAMBDA m : m.role # "system") IN
  [system   |-> FlattenSeq([i \in DOMAIN h |-> IF h[i].role = "system" THEN Words(h[i].blocks) ELSE <<>>]),
   messages |-> [i \in DOMAIN dialogue |-> FromBlocks(dialogue[i].role, dialogue[i].blocks)]]

FromOpenAIClient(h) == [system |-> <<>>, messages |-> h]

Normalized(h) == IF pair.client = "anthropic" THEN FromAnthropicClient(h) ELSE FromOpenAIClient(h)

(* to_anthropic_tool_id: valid characters, a hash if some were not, a prefix. *)
ToAnthropicToolId(id) == [id EXCEPT !.toolu = TRUE, !.odd = FALSE]

(* from_normalized: the answer as a message of the client's history. *)
AnswerForAnthropic(a) ==
  [role |-> "assistant",
   blocks |-> [i \in DOMAIN a.words |-> Block("text", NoId, a.words[i])]
                \o [i \in DOMAIN a.calls |-> Block("use", ToAnthropicToolId(a.calls[i]), 0)]]
AnswerForOpenAI(a) == Message("assistant", a.words, a.calls, NoId)

(***************************************************************************)
(* Egress.  Neither request takes up the field `system'.                   *)
(***************************************************************************)
ToOpenAIRequest(n) == [system |-> <<>>, messages |-> n.messages]

(* apply_request_body_modifications: an OpenAI connector may put messages of
   its configuration in front, once and not in every attempt. *)
Modified(request) == [request EXCEPT !.messages = pair.prepend \o @]

(* Mutant: a tool message is not a user message. *)
WrongToAnthropicRequest(n) ==
  LET systems  == SelectSeq(n.messages, LAMBDA m : m.role = "system")
      dialogue == SelectSeq(n.messages, LAMBDA m : m.role \in {"user", "assistant"}) IN
  [system   |-> IF systems = <<>> THEN <<>> ELSE systems[1].words,
   messages |-> [i \in DOMAIN dialogue |-> Message(dialogue[i].role, dialogue[i].words, <<>>, NoId)]]

(* The first system message, and the others as plain text: the content of a
   message from a handler is never in parts, and only parts carry calls and
   results. *)
ToAnthropicRequest(n) ==
  LET systems  == SelectSeq(n.messages, LAMBDA m : m.role = "system")
      dialogue == SelectSeq(n.messages, LAMBDA m : m.role # "system") IN
  [system   |-> IF systems = <<>> THEN <<>> ELSE systems[1].words,
   messages |-> [i \in DOMAIN dialogue |->
                   Message(IF dialogue[i].role = "tool" THEN "user" ELSE dialogue[i].role,
                           dialogue[i].words, <<>>, NoId)]]

Request(h) ==
  IF pair.provider = "openai" THEN Modified(ToOpenAIRequest(Normalized(h))) ELSE ToAnthropicRequest(Normalized(h))

(* The answers of the providers, normalized. *)
FromAnthropicAnswer(blocks) == [words |-> Words(Of(blocks, {"text"})), calls |-> Ids(Of(blocks, {"use"}))]
FromOpenAIAnswer(m) == [words |-> m.words, calls |-> m.calls]

(***************************************************************************)
(* The turns.                                                              *)
(***************************************************************************)
TalkInit ==
  /\ pair \in Pairs
  /\ told = <<>> /\ asked = <<>> /\ tries = 0 /\ answer = <<>> /\ open = <<>> /\ words = 0 /\ made = 0

Said(role, ws) ==
  IF pair.client = "anthropic"
  THEN [role |-> role, blocks |-> [i \in DOMAIN ws |-> Block("text", NoId, ws[i])]]
  ELSE Message(role, ws, <<>>, NoId)

Send(h) == told' = h /\ asked' = Request(h) /\ tries' = 0 /\ answer' = <<>>

(* The first question may come with a system prompt. *)
Ask ==
  /\ told = <<>> \/ (answer # <<>> /\ open = <<>>)
  /\ words + 2 <= MaxWords /\ words' = words + 2
  /\ \/ told = <<>> /\ Send(<<Said("system", <<words + 1>>), Said("user", <<words + 2>>)>>)
     \/ Send(Append(told, Said("user", <<words + 1, words + 2>>)))
  /\ UNCHANGED <<pair, open, made>>

(* The provider answers with a text or none, and calls; an Anthropic one also
   the other way round. *)
Answer ==
  /\ asked # <<>> /\ answer = <<>>
  /\ \E n \in 0..(MaxUses - made), odd, speaks \in BOOLEAN :
       LET w == IF speaks THEN <<words + 1>> ELSE <<>>
           calls == [i \in 1..n |-> [n |-> made + i, toolu |-> pair.provider = "anthropic",
                                     odd |-> odd /\ pair.provider = "openai"]]
           text == [i \in DOMAIN w |-> Block("text", NoId, w[i])]
           uses == [i \in 1..n |-> Block("use", calls[i], 0)] IN
       /\ speaks \/ n > 0
       /\ words + Len(w) <= MaxWords /\ words' = words + Len(w) /\ made' = made + n
       /\ answer' \in IF pair.provider = "anthropic" THEN {text \o uses, uses \o text}
                      ELSE {Message("assistant", w, calls, NoId)}
       /\ LET a == IF pair.provider = "anthropic" THEN FromAnthropicAnswer(answer') ELSE FromOpenAIAnswer(answer')
              m == IF pair.client = "anthropic" THEN AnswerForAnthropic(a) ELSE AnswerForOpenAI(a) IN
          /\ told' = Append(told, m)
          /\ open' = IF pair.client = "anthropic" THEN Ids(Of(m.blocks, {"use"})) ELSE m.calls
  /\ UNCHANGED <<pair, asked, tries>>

(* An attempt times out or meets a server error, perhaps after the provider
   has answered with a text and a call that nobody will see. *)
Retry ==
  /\ asked # <<>> /\ answer = <<>> /\ tries < MaxRetries /\ tries' = tries + 1
  /\ \/ words < MaxWords /\ made < MaxUses /\ words' = words + 1 /\ made' = made + 1
     \/ UNCHANGED <<words, made>>
  /\ UNCHANGED <<pair, told, asked, answer, open>>

(* The provider refuses (a rate limit is not retried either), its answer has
   a block of a kind that does not parse, or it was the last attempt: the
   client gets an error, and sends what it had again. *)
Fail ==
  /\ asked # <<>> /\ answer = <<>> /\ asked' = <<>>
  /\ UNCHANGED <<pair, told, tries, answer, open, words, made>>
Again ==
  /\ asked = <<>> /\ told # <<>> /\ Send(told)
  /\ UNCHANGED <<pair, open, words, made>>

(* The client runs the tools: one message with all results, or one each. *)
ReturnResults ==
  /\ answer # <<>> /\ open # <<>>
  /\ words + Len(open) <= MaxWords /\ words' = words + Len(open)
  /\ Send(told \o
       IF pair.client = "anthropic"
       THEN <<[role |-> "user", blocks |-> [i \in DOMAIN open |-> Block("result", open[i], words + i)]]>>
       ELSE [i \in DOMAIN open |-> Message("tool", <<words + i>>, <<>>, open[i])])
  /\ open' = <<>>
  /\ UNCHANGED <<pair, made>>

TalkNext == Ask \/ Answer \/ Retry \/ Fail \/ Again \/ ReturnResults

TalkSpec == TalkInit /\ [][TalkNext]_talkVars

(***************************************************************************)
(* Properties.                                                             *)
(***************************************************************************)
\* Who said what, in order: <<speaker, text>>.
Speaker(role) == IF role = "tool" THEN "user" ELSE role
Spoken(role, ws) == [i \in DOMAIN ws |-> <<Speaker(role), ws[i]>>]
ToldTexts(h) ==
  FlattenSeq([i \in DOMAIN h |->
    IF pair.client = "openai" THEN Spoken(h[i].role, h[i].words)
    ELSE Spoken(h[i].role, Words(Of(h[i].blocks, {"text", "result"})))])
AskedTexts ==
  Spoken("system", asked.system)
    \o FlattenSeq([i \in DOMAIN asked.messages |-> Spoken(asked.messages[i].role, asked.messages[i].words)])
AfterConfigured(texts) == IF pair.prepend = <<>> THEN texts ELSE Tail(texts)
AfterSystem(texts) == SelectSeq(texts, LAMBDA x : x[1] # "system")
Waiting == asked # <<>> /\ answer = <<>>

(* Whatever the dialects and however many turns and attempts: the provider
   gets every text of the dialogue, also that of tool results, in order and
   from the right speaker, after the configured messages, and from an OpenAI
   client the system prompt
   (ingress anthropic.rs 491-670, egress openai.rs 1511-1560, anthropic.rs
   559-650).  The system prompt of an Anthropic client is lost, see README. *)
QuestionArrives ==
  Waiting =>
    IF pair.client = "openai" THEN AfterConfigured(AskedTexts) = ToldTexts(told)
    ELSE AfterConfigured(AskedTexts) = AfterSystem(ToldTexts(told))

(* The client gets all texts and calls of an answer, and can tell the calls
   apart (ingress anthropic.rs 676-770, egress anthropic.rs 690-735). *)
AnswerArrives ==
  answer # <<>> =>
    LET m == Last(told)
        a == IF pair.provider = "anthropic" THEN FromAnthropicAnswer(answer) ELSE FromOpenAIAnswer(answer) IN
    /\ ToldTexts(<<m>>) = Spoken("assistant", a.words)
    /\ Cardinality(ToSet(IF pair.client = "openai" THEN m.calls ELSE Ids(Of(m.blocks, {"use"})))) = Len(a.calls)

(* A result that an OpenAI provider gets names a call of an earlier answer in
   the same request, although the client may know it by another id and some
   calls were made in answers that were lost
   (ingress anthropic.rs 676-709, egress openai.rs 1545-1570). *)
ResultsNameCalls ==
  Waiting /\ pair.provider = "openai" =>
    \A i \in DOMAIN asked.messages :
      LET m == asked.messages[i] IN
      m.result # NoId => \E j \in 1..i-1 : Contains(asked.messages[j].calls, m.result)

(* Nothing that is said is lost or repeated on the way to the provider or back
   (ingress and egress anthropic.rs and openai.rs, to_normalized to
   from_normalized), and results name their calls. *)
DialogueArrives == QuestionArrives /\ AnswerArrives /\ ResultsNameCalls

(* NormalizedRequest.system is the system prompt: it reaches the provider. *)
SystemArrives == Waiting => AfterConfigured(AskedTexts) = ToldTexts(told)
(* Each result the client returned reaches the provider as a result. *)
ResultsArrive ==
  Waiting =>
    LET results == {m.result : m \in ToSet(asked.messages)} \ {NoId} IN
    IF pair.client = "openai" THEN results = {m.result : m \in ToSet(told)} \ {NoId}
    ELSE results = UNION {ToSet(Ids(Of(m.blocks, {"result"}))) : m \in ToSet(told)}
=============================================================================
