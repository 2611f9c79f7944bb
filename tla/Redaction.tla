------------------------------ MODULE Redaction ------------------------------
(***************************************************************************)
(* Detection and redaction of personal data: lunaroute-pii, and the        *)
(* service over it for requests, answers and stream events                 *)
(* (pii_redaction.rs of lunaroute-session).                                *)
(*                                                                         *)
(* A text is its length and what the regular expressions find in it:       *)
(* intervals of its positions, which do not overlap for one expression,    *)
(* with what the validation says of each.  A custom pattern is its name.   *)
(* Confidences are in percent.                                             *)
(***************************************************************************)
EXTENDS Integers, SequencesExt

CONSTANTS
  Configs,   \* settings of the service
  Overrides, \* overrides by type, which only other users of the redactor set
  Texts

VARIABLES
  service,  \* the detector and redactor that were made of the settings
  input,    \* the text to be redacted, and where it stands
  output    \* what stands there then, piece by piece

redactionVars == <<service, input, output>>

(* In the order of detect(); custom patterns come last. *)
BuiltinKinds == <<"email", "phone", "ssn", "credit_card", "ip_address">>
Validated    == {"phone", "ssn", "credit_card"}
Certainty(kind, c) ==
  CASE kind \in {"email", "credit_card"} -> 95
    [] kind = "phone"                    -> 85
    [] kind = "ssn"                      -> 90
    [] kind = "ip_address"               -> 99
    [] OTHER                             -> c.customs[kind].confidence

(* A word that is no mode means the default, and there are no overrides. *)
FromConfig(c) ==
  [enabled |-> c.enabled, least |-> c.least, show |-> c.show, key |-> c.key,
   mode    |-> IF c.mode \in {"remove", "tokenize", "partial"} THEN c.mode ELSE "mask",
   customs |-> [n \in DOMAIN c.customs |->
                 [c.customs[n] EXCEPT !.mode = IF @ = "tokenize" THEN @ ELSE "mask"]],
   overrides |-> <<>>]

(* A detection with the text it was found as. *)
Detect(text) ==
  {[from |-> f.from, to |-> f.to, kind |-> f.kind, of |-> [i \in 1..(f.to - f.from) |-> f.from + i - 1],
    sure |-> Certainty(f.kind, service)] :
     f \in {g \in text.finds :
              /\ g.kind \in service.enabled \cup DOMAIN service.customs
              /\ g.kind \in Validated => g.valid
              /\ Certainty(g.kind, service) >= service.least}}

Rank(kind) == IF kind \in Range(BuiltinKinds) THEN CHOOSE i \in DOMAIN BuiltinKinds : BuiltinKinds[i] = kind ELSE 6

(* By the start; of one start, the surest first. *)
Sooner(d, e) ==
  \/ d.from < e.from
  \/ d.from = e.from /\ d.sure > e.sure
  \/ d.from = e.from /\ d.sure = e.sure /\ Rank(d.kind) < Rank(e.kind)

(* Mutant: a detection that is less sure is dropped with its end. *)
WrongMerge(merged, d) ==
  LET last == Last(merged) IN
  IF merged = <<>> \/ d.from >= last.to THEN Append(merged, d)
  ELSE IF d.to > last.to /\ d.sure > last.sure THEN Front(merged) \o <<[d EXCEPT !.from = last.from]>>
  ELSE merged

(* One that overlaps the last takes its place if it is surer and longer, and
   otherwise at most makes it longer, with the text that it had. *)
Merge(merged, d) ==
  LET last == Last(merged) IN
  IF merged = <<>> \/ d.from >= last.to THEN Append(merged, d)
  ELSE IF d.to <= last.to THEN merged
  ELSE Front(merged) \o <<IF d.sure > last.sure THEN [d EXCEPT !.from = last.from] ELSE [last EXCEPT !.to = d.to]>>

MergeOverlapping(ds) == FoldLeft(Merge, <<>>, SetToSortSeq(ds, Sooner))

(* Pieces of the output: a position of the text, or what replaces a detection
   of a kind: nothing, a label, a token of a text, or its last characters. *)
Piece(is, kind, at) == [is |-> is, kind |-> kind, at |-> at]

Label(kind) ==
  IF kind \in DOMAIN service.overrides /\ service.overrides[kind].replacement # "none"
  THEN Piece("replacement", kind, <<>>) ELSE Piece("label", kind, <<>>)

RedactCustom(d) ==
  LET pattern == service.customs[d.kind] IN
  IF pattern.mode = "tokenize" /\ service.key THEN Piece("token", d.kind, d.of)
  ELSE Piece(IF pattern.placeholder THEN "replacement" ELSE "label", d.kind, <<>>)

(* Without a key a token becomes a mask. *)
RedactBuiltin(d) ==
  LET mode == IF d.kind \in DOMAIN service.overrides THEN service.overrides[d.kind].mode ELSE service.mode IN
  CASE mode = "remove"                   -> Piece("removed", d.kind, <<>>)
    [] mode = "tokenize" /\ service.key  -> Piece("token", d.kind, d.of)
    [] mode = "partial"                  ->
         Piece("partial", d.kind, IF Len(d.of) <= service.show THEN <<>>
                                  ELSE SubSeq(d.of, Len(d.of) - service.show + 1, Len(d.of)))
    [] OTHER                             -> Label(d.kind)

RedactDetection(d) == IF d.kind \in DOMAIN service.customs THEN RedactCustom(d) ELSE RedactBuiltin(d)

Plain(from, to) == [i \in 1..(to - from) |-> Piece("text", "none", <<from + i - 1>>)]

Redact(text) ==
  LET merged == MergeOverlapping(Detect(text))
      End(i) == IF i = 0 THEN 0 ELSE merged[i].to IN
  FlattenSeq([i \in DOMAIN merged |-> Plain(End(i - 1), merged[i].from) \o <<RedactDetection(merged[i])>>])
    \o Plain(End(Len(merged)), text.len)

-----------------------------------------------------------------------------
(* The service.  Of the arguments of a call that are JSON, each string is a *)
(* text of its own; keys and numbers stay.                                  *)

InRequests  == {"message", "argument", "id of an answered call"}
InResponses == {"answer", "argument of an answer"}
InEvents    == {"delta", "delta of arguments"}
PassedOver  == {"system", "tool result", "id of a call"}

RedactRequest ==
  /\ input.place \in InRequests
  /\ output' = Redact(input.text)

RedactResponse ==
  /\ input.place \in InResponses
  /\ output' = Redact(input.text)

(* Each fragment is a text of its own, JSON or not. *)
RedactStreamEvent ==
  /\ input.place \in InEvents
  /\ output' = Redact(input.text)

(* What the three leave as it is. *)
PassOver ==
  /\ input.place \in PassedOver
  /\ output' = Plain(0, input.text.len)

Begun == input.place # "none"

GiveText ==
  /\ ~Begun
  /\ \E p \in InRequests \cup InResponses \cup InEvents \cup PassedOver, t \in Texts :
       input' = [place |-> p, text |-> t]
  /\ UNCHANGED <<service, output>>

RedactionInit ==
  /\ \E c \in Configs, o \in Overrides : service = [FromConfig(c) EXCEPT !.overrides = o]
  /\ input = [place |-> "none", text |-> [len |-> 0, finds |-> {}]]
  /\ output = <<>>

RedactionNext ==
  \/ GiveText
  \/ /\ Begun /\ output = <<>>
     /\ RedactRequest \/ RedactResponse \/ RedactStreamEvent \/ PassOver
     /\ UNCHANGED <<service, input>>

-----------------------------------------------------------------------------
Redacted  == Begun /\ output # <<>> /\ input.place \notin PassedOver
Over(p)   == {d \in Detect(input.text) : d.from <= p /\ p < d.to}
Begins(p) == Over(p) # {} /\ \A d \in Over(p) : d.from = p

(* Each position outside of every detection is kept, in its order; for each *)
(* chain of detections that overlap, one piece stands in its place, of the  *)
(* kind of one of them, which shows no more than it may                     *)
(* (merge_overlapping_detections, redact).                                  *)
OnlyDetectionsChange ==
  Redacted =>
    LET kept == SelectSeq([i \in 1..input.text.len |-> i - 1], LAMBDA p : Over(p) = {} \/ Begins(p)) IN
    /\ Len(output) = Len(kept)
    /\ \A i \in DOMAIN kept :
         IF Over(kept[i]) = {} THEN output[i] = Piece("text", "none", <<kept[i]>>)
         ELSE /\ \E d \in Detect(input.text) : d.kind = output[i].kind /\ d.from >= kept[i]
              /\ output[i].is = "partial" =>
                   Len(output[i].at) <= service.show /\ \A j \in DOMAIN output[i].at : Over(output[i].at[j]) # {}
              /\ output[i].is # "text" /\ (output[i].is = "token" => service.key)

(* "Single redaction using highest confidence detection" (README.md:78 of   *)
(* lunaroute-pii): one inside of another that is less sure is dropped.      *)
HighestConfidenceWins ==
  Redacted =>
    \A d \in Detect(input.text) :
      (\A e \in Detect(input.text) \ {d} : e.sure < d.sure) =>
        \E i \in DOMAIN output : output[i].kind = d.kind

(* "Redact PII from tool results if present" (pii_redaction.rs:142): it is  *)
(* the arguments and the id that are redacted, tool_results are not.        *)
ToolResultsAreRedacted ==
  input.place = "tool result" /\ output # <<>> => output = Redact(input.text)
=============================================================================
