------------------------------ MODULE Recorder ------------------------------
(***************************************************************************)
(* lunaroute-session/src/writer.rs: MultiWriterRecorder.  Sessions hand    *)
(* their events to a bounded channel without waiting; one worker takes     *)
(* them out, batches them and writes every batch to all writers at once;   *)
(* flush() and drop stop the worker.                                       *)
(*                                                                         *)
(* An event is the session it belongs to and its number in that session.   *)
(* The order of stored events of different sessions is an abstraction: the *)
(* writers keep sessions apart (one file or one row per session).          *)
(***************************************************************************)
EXTENDS Integers, Sequences, FiniteSets

CONSTANTS
    Sessions,      \* the sessions that record events
    MaxEvents,     \* bound: events recorded by each session
    ChannelSize,   \* RecorderConfig.channel_buffer_size
    BatchSize,     \* RecorderConfig.batch_size
    Writers,       \* the configured writers
    Faulty,        \* those whose writes may fail
    Callers        \* tasks that call flush()

ASSUME ConfigAssumption ==
    /\ MaxEvents \in Nat
    /\ ChannelSize \in Nat \ {0}   \* mpsc::channel panics on 0
    /\ BatchSize \in Nat
    /\ Faulty \subseteq Writers

Event == [session : Sessions, seq : 1 .. MaxEvents]

VARIABLES
    sent,        \* number of events each session has recorded so far
    queue,       \* the mpsc channel
    buffer,      \* the worker's buffer
    batch,       \* the events flush_buffer is writing
    pending,     \* the writers that have not finished with the batch
    worker,      \* "select", "writing" or "exited"
    stopping,    \* the worker leaves its loop after this flush
    stored,      \* what each writer has written
    shutdownTx,  \* shutdown_tx is still Some
    signalled,   \* the shutdown signal was sent
    handle,      \* worker_handle is still Some
    caller,      \* where each flush() call is
    alive,       \* the recorder has not been dropped
    accepted,    \* auxiliary: events record_event returned true for, in order
    lost,        \* auxiliary: the events the channel still held when it was dropped
    before       \* auxiliary: how many events were accepted before a flush() call

tasks == <<shutdownTx, signalled, handle, caller, alive, before>>
vars == <<sent, queue, buffer, batch, pending, worker, stopping, stored,
          shutdownTx, signalled, handle, caller, alive, accepted, lost, before>>

Init ==
    /\ sent = [s \in Sessions |-> 0]
    /\ queue = << >>
    /\ buffer = << >>
    /\ batch = << >>
    /\ pending = {}
    /\ worker = "select"
    /\ stopping = FALSE
    /\ stored = [w \in Writers |-> << >>]
    /\ shutdownTx = TRUE
    /\ signalled = FALSE
    /\ handle = TRUE
    /\ caller = [c \in Callers |-> "idle"]
    /\ alive = TRUE
    /\ accepted = << >>
    /\ lost = << >>
    /\ before = [c \in Callers |-> 0]

-----------------------------------------------------------------------------
(* record_event: try_send into the channel; a full or closed channel drops *)
(* the event and returns false.                                            *)
Accepts == worker # "exited" /\ Len(queue) < ChannelSize

Record(s) ==
    LET e == [session |-> s, seq |-> sent[s] + 1] IN
    /\ alive
    /\ sent[s] < MaxEvents
    /\ sent' = [sent EXCEPT ![s] = @ + 1]
    /\ IF Accepts
       THEN queue' = Append(queue, e) /\ accepted' = Append(accepted, e)
       ELSE UNCHANGED <<queue, accepted>>
    /\ UNCHANGED <<buffer, batch, pending, worker, stopping, stored, lost, tasks>>

-----------------------------------------------------------------------------
(* worker_loop *)

(* Mutant of StartFlush: the buffer is cloned, not taken. *)
WrongStartFlush(events) ==
    /\ batch' = events
    /\ buffer' = events
    /\ pending' = Writers
    /\ worker' = "writing"

(* flush_buffer, up to the parallel writes: take the buffer. *)
StartFlush(events) ==
    /\ batch' = events
    /\ buffer' = << >>
    /\ pending' = Writers
    /\ worker' = "writing"

(* Mutant of Receive: a full buffer is flushed, the new event not kept. *)
WrongReceive ==
    /\ worker = "select"
    /\ queue # << >>
    /\ queue' = Tail(queue)
    /\ IF Len(buffer) >= BatchSize
       THEN StartFlush(buffer)
       ELSE buffer' = Append(buffer, Head(queue)) /\ UNCHANGED <<batch, pending, worker>>
    /\ UNCHANGED <<sent, stopping, stored, accepted, lost, tasks>>

(* rx.recv(): one event; a full buffer is flushed at once. *)
Receive ==
    LET filled == Append(buffer, Head(queue)) IN
    /\ worker = "select"
    /\ queue # << >>
    /\ queue' = Tail(queue)
    /\ IF Len(filled) >= BatchSize
       THEN StartFlush(filled)
       ELSE buffer' = filled /\ UNCHANGED <<batch, pending, worker>>
    /\ UNCHANGED <<sent, stopping, stored, accepted, lost, tasks>>

(* Mutant of TimedFlush: only a full buffer is flushed. *)
WrongTimedFlush ==
    /\ worker = "select"
    /\ buffer # << >> /\ Len(buffer) >= BatchSize
    /\ StartFlush(buffer)
    /\ UNCHANGED <<sent, queue, stopping, stored, accepted, lost, tasks>>

(* interval.tick() with something in the buffer. *)
TimedFlush ==
    /\ worker = "select"
    /\ buffer # << >>
    /\ StartFlush(buffer)
    /\ UNCHANGED <<sent, queue, stopping, stored, accepted, lost, tasks>>

(* Leaving the loop drops the receiver, and with it what the channel holds.*)
Exit ==
    /\ worker' = "exited"
    /\ lost' = queue
    /\ queue' = << >>

(* Mutant of Shutdown: break without the flush. *)
WrongShutdown ==
    /\ worker = "select"
    /\ signalled \/ ~alive
    /\ stopping' = TRUE
    /\ Exit
    /\ UNCHANGED <<sent, stored, accepted, buffer, batch, pending, tasks>>

(* shutdown_rx resolves when the signal is sent and when the recorder, with*)
(* the sender in it, is dropped.  The buffer is flushed; the channel is    *)
(* not looked at again.                                                    *)
Shutdown ==
    /\ worker = "select"
    /\ signalled \/ ~alive
    /\ stopping' = TRUE
    /\ IF buffer = << >>
       THEN Exit /\ UNCHANGED <<buffer, batch, pending>>
       ELSE StartFlush(buffer) /\ UNCHANGED <<queue, lost>>
    /\ UNCHANGED <<sent, stored, accepted, tasks>>

(* The events of s at the positions in I, in their order. *)
Selection(s, I) ==
    LET n == Cardinality(I)
        Rising == {f \in [1 .. n -> I] : \A i, j \in 1 .. n : i < j => f[i] < f[j]}
    IN  {[i \in 1 .. n |-> s[f[i]]] : f \in Rising}

(* What a failing writer gets done: the events before the failing one      *)
(* (event by event, or none of a transaction), or those of some sessions   *)
(* (one write per session).                                                *)
PartlyDone ==
    {1 .. n : n \in 0 .. Len(batch)}
    \cup {{i \in 1 .. Len(batch) : batch[i].session \in done} : done \in SUBSET Sessions}

(* Mutant of Written: a failed batch is written again as a whole. *)
WrongWritten(w) ==
    IF w \notin Faulty THEN {batch}
    ELSE {SubSeq(batch, 1, n) \o batch : n \in 0 .. Len(batch)}

(* One writer finishes with the batch. *)
Written(w) ==
    IF w \in Faulty THEN UNION {Selection(batch, I) : I \in PartlyDone} ELSE {batch}

Write(w) ==
    /\ w \in pending
    /\ pending' = pending \ {w}
    /\ \E done \in Written(w) : stored' = [stored EXCEPT ![w] = @ \o done]
    /\ UNCHANGED <<sent, queue, buffer, batch, worker, stopping, accepted, lost, tasks>>

(* join_all returns, the writers are flushed, errors are only logged. *)
FlushDone ==
    /\ worker = "writing"
    /\ pending = {}
    /\ batch' = << >>
    /\ IF stopping THEN Exit ELSE worker' = "select" /\ UNCHANGED <<queue, lost>>
    /\ UNCHANGED <<sent, buffer, pending, stopping, stored, accepted, tasks>>

-----------------------------------------------------------------------------
(* flush(): only the first caller finds the sender; it waits for the       *)
(* worker.  Every other caller returns Ok at once.                         *)
TakeSender(c) ==
    /\ alive
    /\ caller[c] = "idle"
    /\ shutdownTx
    /\ shutdownTx' = FALSE
    /\ caller' = [caller EXCEPT ![c] = "signal"]
    /\ before' = [before EXCEPT ![c] = Len(accepted)]
    /\ UNCHANGED <<sent, queue, buffer, batch, pending, worker, stopping, stored,
                   signalled, handle, alive, accepted, lost>>

AlreadyTaken(c) ==
    /\ alive
    /\ caller[c] = "idle"
    /\ ~shutdownTx
    /\ caller' = [caller EXCEPT ![c] = "returned"]
    /\ before' = [before EXCEPT ![c] = Len(accepted)]
    /\ UNCHANGED <<sent, queue, buffer, batch, pending, worker, stopping, stored,
                   shutdownTx, signalled, handle, alive, accepted, lost>>

(* Mutant of SendSignal: the sender is put aside, not used. *)
WrongSendSignal(c) ==
    /\ caller[c] = "signal"
    /\ handle' = FALSE
    /\ caller' = [caller EXCEPT ![c] = "join"]
    /\ UNCHANGED <<sent, queue, buffer, batch, pending, worker, stopping, stored,
                   shutdownTx, signalled, alive, accepted, lost, before>>

SendSignal(c) ==
    /\ caller[c] = "signal"
    /\ signalled' = TRUE
    /\ handle' = FALSE
    /\ caller' = [caller EXCEPT ![c] = "join"]
    /\ UNCHANGED <<sent, queue, buffer, batch, pending, worker, stopping, stored,
                   shutdownTx, alive, accepted, lost, before>>

Join(c) ==
    /\ caller[c] = "join"
    /\ worker = "exited"
    /\ caller' = [caller EXCEPT ![c] = "flushed"]
    /\ UNCHANGED <<sent, queue, buffer, batch, pending, worker, stopping, stored,
                   shutdownTx, signalled, handle, alive, accepted, lost, before>>

(* The last reference goes away; no call borrows the recorder then. *)
Drop ==
    /\ alive
    /\ \A c \in Callers : caller[c] \in {"idle", "returned", "flushed"}
    /\ alive' = FALSE
    /\ shutdownTx' = FALSE
    /\ handle' = FALSE
    /\ UNCHANGED <<sent, queue, buffer, batch, pending, worker, stopping, stored,
                   signalled, caller, accepted, lost, before>>

WorkerStep == Receive \/ TimedFlush \/ Shutdown \/ FlushDone

Next ==
    \/ \E s \in Sessions : Record(s)
    \/ WorkerStep
    \/ \E w \in Writers : Write(w)
    \/ \E c \in Callers : TakeSender(c) \/ AlreadyTaken(c) \/ SendSignal(c) \/ Join(c)
    \/ Drop

Spec == Init /\ [][Next]_vars

(* tokio::select! picks at random among the branches that are ready, so a  *)
(* branch that is ready again and again is taken (strong fairness); writes *)
(* end, and a flush() call that can go on does.                            *)
FairSpec ==
    /\ Spec
    /\ SF_vars(Receive) /\ SF_vars(TimedFlush) /\ SF_vars(Shutdown) /\ WF_vars(FlushDone)
    /\ \A w \in Writers : WF_vars(Write(w))
    /\ \A c \in Callers : WF_vars(SendSignal(c)) /\ WF_vars(Join(c))

-----------------------------------------------------------------------------
(* Every variable keeps its type; the channel never exceeds its size.      *)
TypeOK ==
    /\ sent \in [Sessions -> 0 .. MaxEvents]
    /\ queue \in Seq(Event) /\ Len(queue) <= ChannelSize
    /\ buffer \in Seq(Event)
    /\ batch \in Seq(Event)
    /\ pending \subseteq Writers
    /\ worker \in {"select", "writing", "exited"}
    /\ stopping \in BOOLEAN
    /\ stored \in [Writers -> Seq(Event)]
    /\ shutdownTx \in BOOLEAN /\ signalled \in BOOLEAN /\ handle \in BOOLEAN
    /\ caller \in [Callers -> {"idle", "signal", "join", "returned", "flushed"}]
    /\ alive \in BOOLEAN
    /\ accepted \in Seq(Event)
    /\ lost \in Seq(Event)
    /\ before \in [Callers -> Nat]

(* The part of the batch a writer has still to write. *)
Unwritten(w) == IF w \in pending THEN batch ELSE << >>

(* No event the channel accepted is doubled or overtaken on its way to a   *)
(* writer that does not fail, and none is lost unless the channel was      *)
(* dropped with it: what is stored, being written, buffered, queued and    *)
(* lost there is exactly what was accepted, in order.                      *)
Conservation ==
    \A w \in Writers \ Faulty :
        stored[w] \o Unwritten(w) \o buffer \o queue \o lost = accepted

(* The events of each session are in the order it recorded them. *)
InOrder(events) ==
    \A i, j \in 1 .. Len(events) :
        i < j /\ events[i].session = events[j].session => events[i].seq < events[j].seq

(* A failing writer may lose events, but it never stores one twice or out  *)
(* of its session's order, and so it never delays or doubles for the others*)
(* what it failed on.                                                      *)
SessionOrder == \A w \in Writers : InOrder(stored[w])

(* When the flush() that stopped the worker returns, the worker holds no   *)
(* event any more: everything it had taken out of the channel was offered  *)
(* to every writer.                                                        *)
FlushEmptiesWorker ==
    \A c \in Callers :
        caller[c] = "flushed" => worker = "exited" /\ buffer = << >> /\ pending = {}

(* An accepted event reaches the writers that do not fail unless the       *)
(* recorder is told to stop: neither a slow writer nor a quiet period      *)
(* holds it back for ever.                                                 *)
EventuallyStored ==
    \A w \in Writers \ Faulty : \A n \in 1 .. MaxEvents :
        Len(accepted) >= n ~> Len(stored[w]) >= n \/ signalled \/ ~alive

(* flush() returns, whatever the writers fail on.                          *)
FlushReturns ==
    \A c \in Callers : caller[c] = "signal" ~> caller[c] = "flushed"

(* What the writers that do not fail have stored. *)
healthy == [w \in Writers \ Faulty |-> stored[w]]

(* The writers that do not fail see the log of accepted events: each has   *)
(* stored a prefix of it, in whatever order the parallel writes end, and   *)
(* nothing is accepted or stored after the worker is gone.                 *)
Log == INSTANCE EventLog WITH
    Events <- Event,
    Readers <- Writers \ Faulty,
    log <- accepted,
    stored <- healthy,
    closed <- worker = "exited"

ImplementsLog == Log!Spec

-----------------------------------------------------------------------------
(* writer.rs:198, "Flush all pending events and wait for them to be        *)
(* written": what was accepted before flush() is stored when it returns.   *)
FlushWritesPending ==
    \A c \in Callers, w \in Writers \ Faulty :
        caller[c] = "flushed" => Len(stored[w]) >= before[c]

(* writer.rs:199, "This can be called multiple times": the other calls     *)
(* also return only when the worker has written what it holds.             *)
EveryFlushWaits ==
    \A c \in Callers :
        caller[c] = "returned" => worker = "exited" \/ ~alive
=============================================================================
