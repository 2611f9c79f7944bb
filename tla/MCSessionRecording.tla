------------------------- MODULE MCSessionRecording -------------------------
(* Small instances of SessionRecording for TLC: two requests.  A routed    *)
(* request has a session of its own; the others share one, and one client  *)
(* of the OpenAI handlers sends an id the writer refuses.                  *)
EXTENDS SessionRecording

CONSTANTS r1, r2, own1, own2, shared, odd

R(h, s) == [handler |-> h, session |-> s]
Pair(a, b) == [r \in {r1, r2} |-> IF r = r1 THEN a ELSE b]

MCMixes ==
    {Pair(R("stream", own1), R("send", own2)),
     Pair(R("responses", odd), R("send", own1)),
     Pair(R("chat_stream", own2), R("messages_cross", own1)),
     Pair(R("messages_stream", shared), R("messages_cross", shared)),
     Pair(R("messages", shared), R("messages_cross", shared)),
     Pair(R("responses_stream", shared), R("chat", shared)),
     Pair(R("socket", shared), R("socket", shared))}
=============================================================================
