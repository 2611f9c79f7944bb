------------------------------ MODULE EventLog ------------------------------
(***************************************************************************)
(* What the recorder promises to its writers: the accepted events form one *)
(* log, every writer has stored a prefix of it, and once the log is closed *)
(* it does not grow.  Nothing is promised about the events accepted after  *)
(* a writer's last Persist, which a close may cut off.                     *)
(***************************************************************************)
EXTENDS Sequences, Integers

CONSTANTS Events, Readers

VARIABLES log, stored, closed

Init ==
    /\ log = << >>
    /\ stored = [r \in Readers |-> << >>]
    /\ closed = FALSE

Accept ==
    /\ ~closed
    /\ \E e \in Events : log' = Append(log, e)
    /\ UNCHANGED <<stored, closed>>

Persist(r) ==
    /\ ~closed
    /\ \E n \in Len(stored[r]) + 1 .. Len(log) :
           stored' = [stored EXCEPT ![r] = SubSeq(log, 1, n)]
    /\ UNCHANGED <<log, closed>>

Close ==
    /\ ~closed
    /\ closed' = TRUE
    /\ UNCHANGED <<log, stored>>

Next == Accept \/ Close \/ \E r \in Readers : Persist(r)

Spec == Init /\ [][Next]_<<log, stored, closed>>
=============================================================================
