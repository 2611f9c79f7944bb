----------------------------- MODULE BodyChanges -----------------------------
(***************************************************************************)
(* What a connector of module Connector makes of the body of a request:    *)
(* defaults, overrides and prepended messages, as lunaroute-egress merges  *)
(* them (openai.rs).  A body is a tree of keys with non-empty objects.     *)
(***************************************************************************)
EXTENDS Connector

Value(v)     == [value |-> v]
IsObject(t)  == "kids" \in DOMAIN t

(* Mutant: an object replaces another one. *)
WrongDeepMerge(base, overlay) ==
  IF IsObject(base) /\ IsObject(overlay) THEN Object(overlay.kids @@ base.kids) ELSE overlay

RECURSIVE DeepMerge(_, _)
DeepMerge(base, overlay) ==
  IF IsObject(base) /\ IsObject(overlay)
  THEN Object([k \in DOMAIN base.kids \cup DOMAIN overlay.kids |->
                 CASE k \notin DOMAIN overlay.kids -> base.kids[k]
                   [] k \notin DOMAIN base.kids    -> overlay.kids[k]
                   [] OTHER                        -> DeepMerge(base.kids[k], overlay.kids[k])])
  ELSE overlay

(* The messages are an array; an override may make them something else. *)
WithMessages(t, s) ==
  IF "messages" \in DOMAIN t.kids /\ ~IsObject(t.kids["messages"])
  THEN Object([t.kids EXCEPT !["messages"] = Value(s.prepend \o @.value)])
  ELSE t

Changes(t, s) == WithMessages(DeepMerge(DeepMerge(s.defaults, t), s.overrides), s)

-----------------------------------------------------------------------------
RECURSIVE Leaves(_, _)
Leaves(t, at) ==
  IF IsObject(t) THEN UNION {Leaves(t.kids[k], Append(at, k)) : k \in DOMAIN t.kids} ELSE {<<at, t.value>>}

(* Two values cannot both be in a body if one stands in the other's place. *)
Beside(leaf, others) == ~\E o \in others : IsPrefix(o[1], leaf[1]) \/ IsPrefix(leaf[1], o[1])

(* The operator's overrides arrive, the client's fields where no override  *)
(* stands in their place, and the defaults where neither does; the         *)
(* prepended messages come before whatever messages there are then         *)
(* (openai.rs deep_merge, apply_request_body_modifications).               *)
BodyArrives ==
  \A c \in Callers :
    setup.kind = "openai" /\ calls[c].path \in Translated \cup {"context"} =>
      LET over  == Leaves(setup.overrides, <<>>)
          own   == {l \in Leaves(calls[c].request.body, <<>>) : Beside(l, over)}
          still == {l \in Leaves(setup.defaults, <<>>) :
                      Beside(l, over \cup Leaves(calls[c].request.body, <<>>))} IN
      Leaves(calls[c].body, <<>>) =
        {IF l[1] = <<"messages">> THEN <<l[1], setup.prepend \o l[2]>> ELSE l : l \in over \cup own \cup still}
=============================================================================
