--------------------------- MODULE RecorderProofs ---------------------------
(***************************************************************************)
(* Proofs about Recorder, for all sessions, writers, callers and sizes, and *)
(* about FileRecording, for all answers and any number of errors.          *)
(***************************************************************************)
EXTENDS Recorder, FileRecording, DataLemmas

(* What each place holds while the worker is in each of its states. *)
Places ==
    /\ worker = "writing" => buffer = << >>
    /\ worker # "writing" => pending = {} /\ batch = << >>
    /\ worker = "exited" => buffer = << >> /\ queue = << >>
    /\ worker # "exited" => lost = << >>
    /\ \A c \in Callers : caller[c] = "flushed" => worker = "exited"

IInv == TypeOK /\ Places /\ Conservation

-----------------------------------------------------------------------------
(* A selection of the events of a sequence is a sequence of them. *)
LEMMA SelectionType ==
    ASSUME NEW S, NEW s \in Seq(S), NEW I \in SUBSET (1 .. Len(s)), NEW d \in Selection(s, I)
    PROVE  d \in Seq(S)
<1>1. IsFiniteSet(1 .. Len(s))
  BY FS_Interval
<1>2. Cardinality(I) \in Nat
  BY <1>1, FS_Subset, FS_CardinalityType
<1>3. PICK f \in [1 .. Cardinality(I) -> I] : d = [i \in 1 .. Cardinality(I) |-> s[f[i]]]
  BY DEF Selection
<1>4. \A i \in 1 .. Cardinality(I) : s[f[i]] \in S
  BY <1>2, <1>3, ElementOfSeq
<1> QED
  BY <1>2, <1>3, <1>4, SeqDef

(* Whatever a writer gets done is a sequence of events. *)
LEMMA WrittenType ==
    ASSUME batch \in Seq(Event), NEW w \in Writers, NEW d \in Written(w)
    PROVE  d \in Seq(Event)
<1>1. CASE w \notin Faulty
  BY <1>1 DEF Written
<1>2. CASE w \in Faulty
  <2>1. PICK I \in PartlyDone : d \in Selection(batch, I)
    BY <1>2 DEF Written
  <2>2. Len(batch) \in Nat
    BY LenProperties
  <2>3. I \in SUBSET (1 .. Len(batch))
    BY <2>1, <2>2 DEF PartlyDone
  <2> QED
    BY <2>1, <2>3, SelectionType
<1> QED
  BY <1>1, <1>2

(* Taking an element from one sequence to the end of another. *)
LEMMA MoveHead ==
    ASSUME NEW S, NEW s \in Seq(S), NEW t \in Seq(S), t # << >>
    PROVE  /\ Append(s, Head(t)) \in Seq(S)
           /\ Append(s, Head(t)) \o Tail(t) = s \o t
<1>1. /\ Head(t) \in S /\ Tail(t) \in Seq(S)
      /\ <<Head(t)>> \in Seq(S)
  BY HeadTailProperties
<1>2. t = <<Head(t)>> \o Tail(t)
  BY <1>1, HeadTailProperties, ConcatProperties, LenProperties
<1>3. Append(s, Head(t)) = s \o <<Head(t)>>
  BY <1>1, AppendIsConcat
<1> QED
  BY <1>1, <1>2, <1>3, ConcatAssociative, AppendProperties

-----------------------------------------------------------------------------
LEMMA NoEvents == << >> \in Seq(Event) /\ Len(<< >>) = 0
BY EmptySeq

LEMMA InitInv == Init => IInv
<1> SUFFICES ASSUME Init PROVE IInv
  OBVIOUS
<1> USE ConfigAssumption DEF Init
<1>1. TypeOK
  <2>1. queue \in Seq(Event) /\ Len(queue) <= ChannelSize
    BY NoEvents
  <2>2. /\ sent \in [Sessions -> 0 .. MaxEvents]
        /\ stored \in [Writers -> Seq(Event)]
        /\ before \in [Callers -> Nat]
    BY NoEvents
  <2> QED
    BY <2>1, <2>2, NoEvents DEF TypeOK
<1>2. Places
  BY DEF Places
<1>3. Conservation
  BY DEF Conservation, Unwritten
<1> QED
  BY <1>1, <1>2, <1>3 DEF IInv

LEMMA TypeStep == TypeOK /\ [Next]_vars => TypeOK'
<1> SUFFICES ASSUME TypeOK, [Next]_vars PROVE TypeOK'
  OBVIOUS
<1> USE ConfigAssumption DEF TypeOK, tasks
<1>1. ASSUME NEW s \in Sessions, Record(s) PROVE TypeOK'
  <2>1. sent[s] + 1 \in 1 .. MaxEvents /\ sent' \in [Sessions -> 0 .. MaxEvents]
    BY <1>1, SMTT(30) DEF Record
  <2>2. [session |-> s, seq |-> sent[s] + 1] \in Event
    BY <2>1 DEF Event
  <2>3. CASE Accepts
    <3> DEFINE e == [session |-> s, seq |-> sent[s] + 1]
    <3>1. queue' = Append(queue, e) /\ accepted' = Append(accepted, e)
      BY <1>1, <2>3 DEF Record
    <3>2. queue' \in Seq(Event) /\ Len(queue') = Len(queue) + 1 /\ accepted' \in Seq(Event)
      BY <2>2, <3>1, AppendProperties
    <3>3. Len(queue) \in Nat /\ Len(queue) < ChannelSize
      BY <2>3, LenProperties DEF Accepts
    <3>4. Len(queue') <= ChannelSize
      BY <3>2, <3>3
    <3> QED
      BY <1>1, <2>1, <3>2, <3>4 DEF Record
  <2>4. CASE ~Accepts
    BY <1>1, <2>1, <2>4 DEF Record
  <2> QED
    BY <2>3, <2>4
<1>2. CASE Receive
  <2>1. /\ Tail(queue) \in Seq(Event) /\ Len(Tail(queue)) <= ChannelSize
        /\ Append(buffer, Head(queue)) \in Seq(Event)
    BY <1>2, HeadTailProperties, AppendProperties, LenProperties DEF Receive
  <2>2. CASE Len(Append(buffer, Head(queue))) >= BatchSize
    BY <1>2, <2>1, <2>2, NoEvents DEF Receive, StartFlush
  <2>3. CASE ~(Len(Append(buffer, Head(queue))) >= BatchSize)
    BY <1>2, <2>1, <2>3 DEF Receive
  <2> QED
    BY <2>2, <2>3
<1>3. CASE TimedFlush
  BY <1>3 DEF TimedFlush, StartFlush
<1>4. CASE Shutdown
  <2>1. CASE buffer = << >>
    BY <1>4, <2>1, NoEvents DEF Shutdown, Exit
  <2>2. CASE buffer # << >>
    BY <1>4, <2>2, NoEvents DEF Shutdown, StartFlush
  <2> QED
    BY <2>1, <2>2
<1>5. CASE FlushDone
  <2>1. CASE stopping
    BY <1>5, <2>1, NoEvents DEF FlushDone, Exit
  <2>2. CASE ~stopping
    BY <1>5, <2>2, NoEvents DEF FlushDone
  <2> QED
    BY <2>1, <2>2
<1>6. ASSUME NEW w \in Writers, Write(w) PROVE TypeOK'
  <2>1. PICK d \in Written(w) : stored' = [stored EXCEPT ![w] = @ \o d]
    BY <1>6 DEF Write
  <2>2. stored' \in [Writers -> Seq(Event)]
    BY <2>1, WrittenType, ConcatProperties
  <2> QED
    BY <1>6, <2>2 DEF Write
<1>7. ASSUME NEW c \in Callers, TakeSender(c) \/ AlreadyTaken(c) \/ SendSignal(c) \/ Join(c)
      PROVE  TypeOK'
  <2>1. Len(accepted) \in Nat
    BY LenProperties
  <2>2. CASE TakeSender(c)
    BY <2>1, <2>2 DEF TakeSender
  <2>3. CASE AlreadyTaken(c)
    BY <2>1, <2>3 DEF AlreadyTaken
  <2>4. CASE SendSignal(c)
    BY <2>4 DEF SendSignal
  <2>5. CASE Join(c)
    BY <2>5 DEF Join
  <2> QED
    BY <1>7, <2>2, <2>3, <2>4, <2>5
<1>8. CASE Drop
  BY <1>8 DEF Drop
<1>9. CASE UNCHANGED vars
  BY <1>9 DEF vars
<1> QED
  BY <1>1, <1>2, <1>3, <1>4, <1>5, <1>6, <1>7, <1>8, <1>9 DEF Next, WorkerStep

LEMMA PlacesStep == TypeOK /\ Places /\ [Next]_vars => Places'
<1> SUFFICES ASSUME TypeOK, Places, [Next]_vars PROVE Places'
  OBVIOUS
<1> USE DEF TypeOK, Places, tasks
<1>1. ASSUME NEW s \in Sessions, Record(s) PROVE Places'
  BY <1>1 DEF Record, Accepts
<1>2. CASE Receive
  BY <1>2 DEF Receive, StartFlush
<1>3. CASE TimedFlush
  BY <1>3 DEF TimedFlush, StartFlush
<1>4. CASE Shutdown
  BY <1>4 DEF Shutdown, StartFlush, Exit
<1>5. CASE FlushDone
  BY <1>5 DEF FlushDone, Exit
<1>6. ASSUME NEW w \in Writers, Write(w) PROVE Places'
  BY <1>6 DEF Write
<1>7. ASSUME NEW c \in Callers, TakeSender(c) \/ AlreadyTaken(c) \/ SendSignal(c) \/ Join(c)
      PROVE  Places'
  BY <1>7 DEF TakeSender, AlreadyTaken, SendSignal, Join
<1>8. CASE Drop
  BY <1>8 DEF Drop
<1>9. CASE UNCHANGED vars
  BY <1>9 DEF vars
<1> QED
  BY <1>1, <1>2, <1>3, <1>4, <1>5, <1>6, <1>7, <1>8, <1>9 DEF Next, WorkerStep

-----------------------------------------------------------------------------
(* Conservation, one writer at a time: what it was given and what is still *)
(* on its way to it. *)
Flow(w) == stored[w] \o Unwritten(w) \o buffer \o queue

LEMMA FlowType ==
    ASSUME TypeOK, NEW w \in Writers
    PROVE  /\ stored[w] \in Seq(Event) /\ Unwritten(w) \in Seq(Event)
           /\ buffer \in Seq(Event) /\ queue \in Seq(Event) /\ lost \in Seq(Event)
           /\ stored[w] \o Unwritten(w) \in Seq(Event)
           /\ stored[w] \o Unwritten(w) \o buffer \in Seq(Event)
           /\ Flow(w) \in Seq(Event)
BY NoEvents, ConcatProperties DEF TypeOK, Unwritten, Flow

LEMMA AppendToConcat ==
    ASSUME NEW S, NEW s \in Seq(S), NEW t \in Seq(S), NEW e \in S
    PROVE  s \o Append(t, e) = Append(s \o t, e)
<1>1. <<e>> \in Seq(S) /\ s \o t \in Seq(S)
  BY ConcatProperties
<1> QED
  BY <1>1, AppendIsConcat, ConcatAssociative

(* The worker's steps only move events along the way to a writer. *)
LEMMA ReceiveFlow ==
    ASSUME TypeOK, TypeOK', Places, Receive, NEW w \in Writers
    PROVE  stored'[w] = stored[w] /\ Flow(w)' = Flow(w)
<1> DEFINE filled == Append(buffer, Head(queue))
<1>1. /\ worker = "select" /\ queue # << >> /\ queue' = Tail(queue)
      /\ stored' = stored
  BY DEF Receive
<1>2. Unwritten(w) = << >>
  BY <1>1 DEF Places, Unwritten
<1>3. /\ filled \in Seq(Event) /\ Tail(queue) \in Seq(Event)
      /\ filled \o Tail(queue) = buffer \o queue
  BY <1>1, FlowType, MoveHead, HeadTailProperties
<1> DEFINE done == stored[w]
<1>d. done \in Seq(Event) /\ buffer \in Seq(Event) /\ queue \in Seq(Event)
  BY FlowType
<1>4. Flow(w) = done \o (buffer \o queue)
  <2> HIDE DEF done
  <2>1. done \o << >> = done /\ (done \o buffer) \o queue = done \o (buffer \o queue)
    BY <1>d, ConcatEmptySeq, ConcatAssociative
  <2> QED
    BY <1>2, <2>1 DEF Flow, done
<1>5. Flow(w) = (done \o filled) \o Tail(queue)
  <2> HIDE DEF done, filled
  <2>1. (done \o filled) \o Tail(queue) = done \o (filled \o Tail(queue))
    BY <1>d, <1>3, ConcatAssociative
  <2> QED
    BY <1>3, <1>4, <2>1
<1>6. stored[w] \o filled \in Seq(Event)
  BY <1>3, FlowType, ConcatProperties
<1>7. CASE Len(filled) >= BatchSize
  <2>1. Unwritten(w)' = filled /\ buffer' = << >>
    BY <1>7 DEF Receive, StartFlush, Unwritten
  <2> QED
    BY <1>1, <1>5, <1>6, <2>1, ConcatEmptySeq DEF Flow
<1>8. CASE ~(Len(filled) >= BatchSize)
  <2>1. Unwritten(w)' = Unwritten(w) /\ buffer' = filled
    BY <1>8 DEF Receive, Unwritten
  <2> QED
    BY <1>1, <1>2, <1>5, <2>1, FlowType, ConcatEmptySeq DEF Flow
<1> QED
  BY <1>1, <1>7, <1>8

LEMMA StartFlushFlow ==
    ASSUME TypeOK, TypeOK', Places, worker = "select", StartFlush(buffer),
           stored' = stored, queue' = queue, NEW w \in Writers
    PROVE  Flow(w)' = Flow(w)
<1>1. Unwritten(w) = << >>
  BY DEF Places, Unwritten
<1>2. Unwritten(w)' = buffer /\ buffer' = << >>
  BY DEF StartFlush, Unwritten
<1>3. stored[w] \o buffer \in Seq(Event)
  BY FlowType, ConcatProperties
<1> QED
  BY <1>1, <1>2, <1>3, FlowType, ConcatEmptySeq DEF Flow

(* Writing a batch moves it from "unwritten" to "stored". *)
LEMMA WriteFlow ==
    ASSUME TypeOK, Places, NEW v \in Writers, Write(v), NEW w \in Writers \ Faulty
    PROVE  Flow(w)' = Flow(w)
<1>1. buffer' = buffer /\ queue' = queue /\ batch' = batch /\ pending' = pending \ {v}
  BY DEF Write
<1>2. CASE w = v
  <2>1. stored'[w] = stored[w] \o batch
    BY <1>2 DEF Write, Written, TypeOK
  <2>2. Unwritten(w) = batch /\ Unwritten(w)' = << >>
    BY <1>1, <1>2 DEF Write, Unwritten
  <2>3. stored[w] \o batch \in Seq(Event)
    BY FlowType, ConcatProperties DEF TypeOK
  <2> QED
    BY <1>1, <2>1, <2>2, <2>3, ConcatEmptySeq DEF Flow
<1>3. CASE w # v
  <2>1. stored'[w] = stored[w] /\ Unwritten(w)' = Unwritten(w)
    BY <1>1, <1>3 DEF Write, Unwritten, TypeOK
  <2> QED
    BY <1>1, <2>1 DEF Flow
<1> QED
  BY <1>2, <1>3

(* Leaving the loop moves the queue to "lost". *)
LEMMA ExitFlow ==
    ASSUME TypeOK, Places, worker # "exited", Exit, NEW w \in Writers,
           stored' = stored, buffer' = buffer, pending = {}, pending' = {}
    PROVE  Flow(w)' \o lost' = Flow(w) \o lost
<1>1. Unwritten(w) = << >> /\ Unwritten(w)' = << >>
  BY DEF Unwritten
<1>2. lost = << >> /\ lost' = queue /\ queue' = << >>
  BY DEF Places, Exit
<1> QED
  BY <1>1, <1>2, FlowType, ConcatEmptySeq DEF Flow

LEMMA ConservationStep ==
    TypeOK /\ TypeOK' /\ Places /\ Conservation /\ [Next]_vars => Conservation'
<1> SUFFICES ASSUME TypeOK, TypeOK', Places, Conservation, [Next]_vars,
                    NEW w \in Writers \ Faulty
             PROVE  Flow(w)' \o lost' = accepted'
  BY DEF Conservation, Flow
<1>0. Flow(w) \o lost = accepted
  BY DEF Conservation, Flow
<1> USE DEF tasks
<1>1. ASSUME NEW s \in Sessions, Record(s) PROVE Flow(w)' \o lost' = accepted'
  <2>1. stored' = stored /\ Unwritten(w)' = Unwritten(w) /\ buffer' = buffer /\ lost' = lost
    BY <1>1 DEF Record, Unwritten
  <2>2. CASE Accepts
    <3> DEFINE e == [session |-> s, seq |-> sent[s] + 1]
    <3>1. queue' = Append(queue, e) /\ accepted' = Append(accepted, e) /\ lost = << >>
      BY <1>1, <2>2 DEF Record, Places, Accepts
    <3>2. e \in Event
      BY <1>1, ConfigAssumption DEF Event, Record, TypeOK
    <3>3. Flow(w)' = Append(Flow(w), e)
      <4> DEFINE ahead == stored[w] \o Unwritten(w) \o buffer
      <4>1. ahead \in Seq(Event) /\ queue \in Seq(Event)
        BY FlowType
      <4> HIDE DEF ahead, e
      <4>2. ahead \o Append(queue, e) = Append(ahead \o queue, e)
        BY <3>2, <4>1, AppendToConcat
      <4> QED
        BY <2>1, <3>1, <4>2 DEF Flow, ahead
    <3>4. Append(Flow(w), e) \in Seq(Event)
      BY <3>2, FlowType, AppendProperties
    <3> QED
      BY <1>0, <2>1, <3>1, <3>3, <3>4, FlowType, ConcatEmptySeq
  <2>3. CASE ~Accepts
    BY <1>0, <1>1, <2>1, <2>3 DEF Record, Flow
  <2> QED
    BY <2>2, <2>3
<1>2. CASE Receive
  BY <1>0, <1>2, ReceiveFlow DEF Receive
<1>3. CASE TimedFlush
  BY <1>0, <1>3, StartFlushFlow DEF TimedFlush
<1>4. CASE Shutdown
  <2>1. CASE buffer = << >>
    BY <1>0, <1>4, <2>1, ExitFlow DEF Shutdown, Places
  <2>2. CASE buffer # << >>
    BY <1>0, <1>4, <2>2, StartFlushFlow DEF Shutdown
  <2> QED
    BY <2>1, <2>2
<1>5. CASE FlushDone
  <2>1. CASE stopping
    BY <1>0, <1>5, <2>1, ExitFlow DEF FlushDone
  <2>2. CASE ~stopping
    BY <1>0, <1>5, <2>2 DEF FlushDone, Flow, Unwritten
  <2> QED
    BY <2>1, <2>2
<1>6. ASSUME NEW v \in Writers, Write(v) PROVE Flow(w)' \o lost' = accepted'
  BY <1>0, <1>6, WriteFlow DEF Write
<1>7. ASSUME NEW c \in Callers, TakeSender(c) \/ AlreadyTaken(c) \/ SendSignal(c) \/ Join(c)
      PROVE  Flow(w)' \o lost' = accepted'
  BY <1>0, <1>7 DEF TakeSender, AlreadyTaken, SendSignal, Join, Flow, Unwritten
<1>8. CASE Drop
  BY <1>0, <1>8 DEF Drop, Flow, Unwritten
<1>9. CASE UNCHANGED vars
  BY <1>0, <1>9 DEF vars, Flow, Unwritten
<1> QED
  BY <1>1, <1>2, <1>3, <1>4, <1>5, <1>6, <1>7, <1>8, <1>9 DEF Next, WorkerStep

-----------------------------------------------------------------------------
(* The inductive invariant holds in every reachable state. *)
THEOREM Invariance == Spec => []IInv
<1>1. IInv /\ [Next]_vars => IInv'
  BY TypeStep, PlacesStep, ConservationStep DEF IInv
<1> QED
  BY <1>1, InitInv, PTL DEF Spec

(* Every variable of the recorder keeps its type, and the channel never    *)
(* holds more than channel_buffer_size events (record_event's try_send).   *)
THEOREM TypeCorrect == Spec => []TypeOK
BY Invariance, PTL DEF IInv

(* Between record_event and a healthy writer no event is doubled or        *)
(* overtaken, and none is lost but with the dropped channel (worker_loop,  *)
(* flush_buffer).                                                          *)
THEOREM NothingLostOnTheWay == Spec => []Conservation
BY Invariance, PTL DEF IInv

(* After the flush() that stopped it, the worker holds no event.           *)
THEOREM FlushLeavesNothingBuffered == Spec => []FlushEmptiesWorker
<1>1. IInv => FlushEmptiesWorker
  BY DEF IInv, Places, FlushEmptiesWorker
<1> QED
  BY <1>1, Invariance, PTL

-----------------------------------------------------------------------------
(* What a healthy writer has, with the batch it is writing, is a prefix of *)
(* the accepted events. *)
LEMMA GivenIsPrefix ==
    ASSUME TypeOK, Conservation, NEW w \in Writers \ Faulty
    PROVE  \E rest \in Seq(Event) : accepted = (stored[w] \o Unwritten(w)) \o rest
<1> DEFINE given == stored[w] \o Unwritten(w)
<1>1. /\ given \in Seq(Event) /\ buffer \in Seq(Event)
      /\ queue \in Seq(Event) /\ lost \in Seq(Event)
  BY FlowType
<1>2. accepted = given \o buffer \o queue \o lost
  BY DEF Conservation
<1> HIDE DEF given
<1>3. /\ buffer \o queue \in Seq(Event)
      /\ (buffer \o queue) \o lost \in Seq(Event)
  BY <1>1, ConcatProperties
<1>4. (given \o buffer) \o queue = given \o (buffer \o queue)
  BY <1>1, ConcatAssociative
<1>5. (given \o (buffer \o queue)) \o lost = given \o ((buffer \o queue) \o lost)
  BY <1>1, <1>3, ConcatAssociative, SMTT(30)
<1>6. accepted = given \o ((buffer \o queue) \o lost)
  BY <1>2, <1>4, <1>5
<1> QED
  BY <1>3, <1>6 DEF given

LEMMA PrefixOfConcat ==
    ASSUME NEW S, NEW s \in Seq(S), NEW t \in Seq(S), s # << >>
    PROVE  /\ s = SubSeq(s \o t, 1, Len(s))
           /\ Len(s) \in 1 .. Len(s \o t)
<1>1. Len(s) \in Nat \ {0} /\ Len(t) \in Nat /\ Len(s \o t) = Len(s) + Len(t)
  BY EmptySeq, LenProperties, ConcatProperties
<1> QED
  BY <1>1, SubSeqOfConcat1, SubSeqFull

(* A write of a healthy writer is a Persist of the log, or no step of it.  *)
LEMMA WritePersists ==
    ASSUME TypeOK, Places, Conservation, NEW w \in Writers \ Faulty, Write(w)
    PROVE  [Log!Next]_<<accepted, healthy, worker = "exited">>
<1>1. /\ accepted' = accepted /\ worker' = worker /\ worker # "exited"
      /\ Unwritten(w) = batch
  BY DEF Write, Places, Unwritten
<1>2. stored' = [stored EXCEPT ![w] = @ \o batch] /\ stored[w] \in Seq(Event)
  BY DEF Write, Written, TypeOK
<1> DEFINE done == stored[w] \o batch
<1>3. healthy' = [healthy EXCEPT ![w] = done] /\ healthy[w] = stored[w]
  BY <1>2 DEF TypeOK, healthy
<1>4. done \in Seq(Event) /\ Len(done) = Len(stored[w]) + Len(batch)
  BY <1>2, ConcatProperties DEF TypeOK
<1>5. PICK rest \in Seq(Event) : accepted = done \o rest
  BY <1>1, GivenIsPrefix
<1>6. CASE batch = << >>
  <2>1. done = stored[w]
    BY <1>2, <1>6, ConcatEmptySeq
  <2>2. healthy' = healthy
    BY <1>3, <2>1 DEF healthy
  <2> QED
    BY <1>1, <2>2
<1>7. CASE batch # << >>
  <2>1. Len(batch) \in Nat \ {0} /\ Len(stored[w]) \in Nat
    BY <1>2, <1>7, EmptySeq, LenProperties DEF TypeOK
  <2>2. Len(done) >= Len(stored[w]) + 1 /\ Len(done) \in Nat /\ done # << >>
    BY <1>4, <2>1, NoEvents
  <2>3. done = SubSeq(accepted, 1, Len(done)) /\ Len(done) \in 1 .. Len(accepted)
    <3> HIDE DEF done
    <3> QED
      BY <1>4, <1>5, <2>2, PrefixOfConcat
  <2>4. Len(done) \in Len(healthy[w]) + 1 .. Len(accepted)
    BY <1>3, <2>1, <2>2, <2>3
  <2>5. healthy' = [healthy EXCEPT ![w] = SubSeq(accepted, 1, Len(done))]
    BY <1>3, <2>3
  <2> HIDE DEF done
  <2>6. Log!Persist(w)
    BY <1>1, <2>4, <2>5 DEF Log!Persist
  <2> QED
    BY <2>6 DEF Log!Next
<1> QED
  BY <1>6, <1>7

LEMMA LogStep ==
    ASSUME TypeOK, Places, Conservation, [Next]_vars
    PROVE  [Log!Next]_<<accepted, healthy, worker = "exited">>
<1> USE DEF tasks, healthy
<1>1. ASSUME NEW s \in Sessions, Record(s)
      PROVE  [Log!Next]_<<accepted, healthy, worker = "exited">>
  <2>1. stored' = stored /\ worker' = worker
    BY <1>1 DEF Record
  <2>2. CASE Accepts
    <3> DEFINE e == [session |-> s, seq |-> sent[s] + 1]
    <3>1. e \in Event
      BY <1>1, ConfigAssumption DEF Event, Record, TypeOK
    <3>2. accepted' = Append(accepted, e) /\ worker # "exited"
      BY <1>1, <2>2 DEF Record, Accepts
    <3>3. Log!Accept
      BY <2>1, <3>1, <3>2 DEF Log!Accept
    <3> QED
      BY <3>3 DEF Log!Next
  <2>3. CASE ~Accepts
    BY <1>1, <2>1, <2>3 DEF Record
  <2> QED
    BY <2>2, <2>3
<1>2. CASE Receive \/ TimedFlush
  BY <1>2 DEF Receive, TimedFlush, StartFlush
<1>3. CASE Shutdown \/ FlushDone
  <2>1. accepted' = accepted /\ stored' = stored /\ worker # "exited"
    BY <1>3 DEF Shutdown, FlushDone
  <2>2. CASE worker' = "exited"
    <3>1. Log!Close
      BY <2>1, <2>2 DEF Log!Close
    <3> QED
      BY <3>1 DEF Log!Next
  <2>3. CASE worker' # "exited"
    BY <2>1, <2>3
  <2> QED
    BY <2>2, <2>3
<1>4. ASSUME NEW w \in Writers, Write(w)
      PROVE  [Log!Next]_<<accepted, healthy, worker = "exited">>
  <2>1. CASE w \in Writers \ Faulty
    BY <1>4, <2>1, WritePersists
  <2>2. CASE w \in Faulty
    <3>1. accepted' = accepted /\ worker' = worker
      BY <1>4 DEF Write
    <3>2. \A v \in Writers \ Faulty : stored'[v] = stored[v]
      BY <1>4, <2>2 DEF Write, TypeOK
    <3> QED
      BY <3>1, <3>2
  <2> QED
    BY <2>1, <2>2
<1>5. ASSUME NEW c \in Callers, TakeSender(c) \/ AlreadyTaken(c) \/ SendSignal(c) \/ Join(c)
      PROVE  [Log!Next]_<<accepted, healthy, worker = "exited">>
  BY <1>5 DEF TakeSender, AlreadyTaken, SendSignal, Join
<1>6. CASE Drop
  BY <1>6 DEF Drop
<1>7. CASE UNCHANGED vars
  BY <1>7 DEF vars
<1> QED
  BY <1>1, <1>2, <1>3, <1>4, <1>5, <1>6, <1>7 DEF Next, WorkerStep

(* The recorder implements the log of accepted events: each healthy writer *)
(* stores a growing prefix of it, and nothing is accepted or stored once   *)
(* the worker has left its loop.                                           *)
THEOREM RecorderIsALog == Spec => ImplementsLog
<1>1. Init => Log!Init
  BY DEF Init, Log!Init, healthy
<1>2. TypeOK /\ Places /\ Conservation /\ [Next]_vars
      => [Log!Next]_<<accepted, healthy, worker = "exited">>
  BY LogStep
<1>3. Spec => [](TypeOK /\ Places /\ Conservation)
  BY Invariance, PTL DEF IInv
<1> QED
  BY <1>1, <1>2, <1>3, PTL DEF Spec, ImplementsLog, Log!Spec

-----------------------------------------------------------------------------
(* Order.  For every writer, also one that fails, what it has stored and   *)
(* what is on its way to it is in the order of the sessions, and numbered  *)
(* below what the sessions record next.                                    *)
Recorded(events, n) == \A i \in 1 .. Len(events) : events[i].seq <= n[events[i].session]

FlowOrder == \A w \in Writers : InOrder(Flow(w)) /\ Recorded(Flow(w), sent)

Precedes(s, t) ==
    \A i \in 1 .. Len(s), j \in 1 .. Len(t) :
        s[i].session = t[j].session => s[i].seq < t[j].seq

LEMMA OrderOfConcat ==
    ASSUME NEW s \in Seq(Event), NEW t \in Seq(Event)
    PROVE  InOrder(s \o t) <=> InOrder(s) /\ InOrder(t) /\ Precedes(s, t)
<1> DEFINE st == s \o t
<1>1. Len(s) \in Nat /\ Len(t) \in Nat /\ Len(st) = Len(s) + Len(t)
  BY LenProperties, ConcatProperties
<1>2. /\ \A i \in 1 .. Len(s) : i \in 1 .. Len(st) /\ st[i] = s[i]
      /\ \A i \in 1 .. Len(t) : Len(s) + i \in 1 .. Len(st) /\ st[Len(s) + i] = t[i]
      /\ \A i \in 1 .. Len(st) : i \in 1 .. Len(s) \/ i - Len(s) \in 1 .. Len(t)
  BY <1>1, ConcatProperties
<1> HIDE DEF st
<1>3. ASSUME InOrder(st) PROVE InOrder(s) /\ InOrder(t) /\ Precedes(s, t)
  <2>1. InOrder(s)
    BY <1>1, <1>2, <1>3 DEF InOrder
  <2>2. InOrder(t)
    <3> SUFFICES ASSUME NEW i \in 1 .. Len(t), NEW j \in 1 .. Len(t), i < j,
                        t[i].session = t[j].session
                 PROVE  t[i].seq < t[j].seq
      BY DEF InOrder
    <3>1. Len(s) + i < Len(s) + j
      BY <1>1
    <3> QED
      BY <1>2, <1>3, <3>1 DEF InOrder
  <2>3. Precedes(s, t)
    <3> SUFFICES ASSUME NEW i \in 1 .. Len(s), NEW j \in 1 .. Len(t),
                        s[i].session = t[j].session
                 PROVE  s[i].seq < t[j].seq
      BY DEF Precedes
    <3>1. i < Len(s) + j
      BY <1>1
    <3> QED
      BY <1>2, <1>3, <3>1 DEF InOrder
  <2> QED
    BY <2>1, <2>2, <2>3
<1>4. ASSUME InOrder(s), InOrder(t), Precedes(s, t) PROVE InOrder(st)
  <2> SUFFICES ASSUME NEW i \in 1 .. Len(st), NEW j \in 1 .. Len(st), i < j,
                      st[i].session = st[j].session
               PROVE  st[i].seq < st[j].seq
    BY DEF InOrder
  <2>1. CASE j \in 1 .. Len(s)
    <3>1. i \in 1 .. Len(s)
      BY <1>1, <2>1
    <3> QED
      BY <1>2, <1>4, <2>1, <3>1 DEF InOrder
  <2>2. CASE i \in 1 .. Len(s) /\ j - Len(s) \in 1 .. Len(t)
    <3>1. j = Len(s) + (j - Len(s))
      BY <1>1
    <3>2. st[j] = t[j - Len(s)]
      BY <1>2, <2>2, <3>1
    <3> QED
      BY <1>2, <1>4, <2>2, <3>2 DEF Precedes
  <2>3. CASE i - Len(s) \in 1 .. Len(t) /\ j - Len(s) \in 1 .. Len(t)
    <3>1. i = Len(s) + (i - Len(s)) /\ j = Len(s) + (j - Len(s)) /\ i - Len(s) < j - Len(s)
      BY <1>1
    <3>2. st[i] = t[i - Len(s)] /\ st[j] = t[j - Len(s)]
      BY <1>2, <2>3, <3>1
    <3> QED
      BY <1>4, <2>3, <3>1, <3>2 DEF InOrder
  <2> QED
    BY <1>1, <1>2, <2>1, <2>2, <2>3
<1> QED
  BY <1>3, <1>4 DEF st

LEMMA RecordedOfConcat ==
    ASSUME NEW s \in Seq(Event), NEW t \in Seq(Event), NEW n
    PROVE  Recorded(s \o t, n) <=> Recorded(s, n) /\ Recorded(t, n)
<1> DEFINE st == s \o t
<1>1. Len(s) \in Nat /\ Len(t) \in Nat /\ Len(st) = Len(s) + Len(t)
  BY LenProperties, ConcatProperties
<1>2. /\ \A i \in 1 .. Len(s) : i \in 1 .. Len(st) /\ st[i] = s[i]
      /\ \A i \in 1 .. Len(t) : Len(s) + i \in 1 .. Len(st) /\ st[Len(s) + i] = t[i]
      /\ \A i \in 1 .. Len(st) :
            \/ i \in 1 .. Len(s)
            \/ i - Len(s) \in 1 .. Len(t) /\ i = Len(s) + (i - Len(s))
  BY <1>1, ConcatProperties
<1> HIDE DEF st
<1>3. Recorded(st, n) => Recorded(s, n) /\ Recorded(t, n)
  BY <1>2 DEF Recorded
<1>4. ASSUME Recorded(s, n), Recorded(t, n), NEW i \in 1 .. Len(st)
      PROVE  st[i].seq <= n[st[i].session]
  <2>1. CASE i \in 1 .. Len(s)
    BY <1>2, <1>4, <2>1 DEF Recorded
  <2>2. CASE i - Len(s) \in 1 .. Len(t) /\ i = Len(s) + (i - Len(s))
    <3>1. st[i] = t[i - Len(s)]
      BY <1>2, <2>2
    <3> QED
      BY <1>4, <2>2, <3>1 DEF Recorded
  <2> QED
    BY <1>2, <2>1, <2>2
<1> QED
  BY <1>3, <1>4 DEF st, Recorded

LEMMA PrecedesFromConcat ==
    ASSUME NEW s \in Seq(Event), NEW t \in Seq(Event), NEW u \in Seq(Event)
    PROVE  Precedes(s \o t, u) <=> Precedes(s, u) /\ Precedes(t, u)
<1> DEFINE st == s \o t
<1>1. Len(s) \in Nat /\ Len(t) \in Nat /\ Len(st) = Len(s) + Len(t)
  BY LenProperties, ConcatProperties
<1>2. /\ \A i \in 1 .. Len(s) : i \in 1 .. Len(st) /\ st[i] = s[i]
      /\ \A i \in 1 .. Len(t) : Len(s) + i \in 1 .. Len(st) /\ st[Len(s) + i] = t[i]
      /\ \A i \in 1 .. Len(st) :
            \/ i \in 1 .. Len(s)
            \/ i - Len(s) \in 1 .. Len(t) /\ st[i] = t[i - Len(s)]
  BY <1>1, ConcatProperties
<1> HIDE DEF st
<1>3. ASSUME Precedes(st, u) PROVE Precedes(s, u) /\ Precedes(t, u)
  <2>1. ASSUME NEW i \in 1 .. Len(s), NEW j \in 1 .. Len(u), s[i].session = u[j].session
        PROVE  s[i].seq < u[j].seq
    BY <1>2, <1>3, <2>1 DEF Precedes
  <2>2. ASSUME NEW i \in 1 .. Len(t), NEW j \in 1 .. Len(u), t[i].session = u[j].session
        PROVE  t[i].seq < u[j].seq
    <3>1. Len(s) + i \in 1 .. Len(st) /\ st[Len(s) + i] = t[i]
      BY <1>2
    <3> QED
      BY <1>3, <2>2, <3>1 DEF Precedes
  <2> QED
    BY <2>1, <2>2 DEF Precedes
<1>4. ASSUME Precedes(s, u), Precedes(t, u) PROVE Precedes(st, u)
  <2> SUFFICES ASSUME NEW i \in 1 .. Len(st), NEW j \in 1 .. Len(u),
                      st[i].session = u[j].session
               PROVE  st[i].seq < u[j].seq
    BY DEF Precedes
  <2>1. CASE i \in 1 .. Len(s)
    BY <1>2, <1>4, <2>1 DEF Precedes
  <2>2. CASE i - Len(s) \in 1 .. Len(t) /\ st[i] = t[i - Len(s)]
    BY <1>4, <2>2 DEF Precedes
  <2> QED
    BY <1>2, <2>1, <2>2
<1> QED
  BY <1>3, <1>4 DEF st

(* A selection keeps the order, inside and towards its neighbours.         *)
LEMMA SelectionOrder ==
    ASSUME NEW s \in Seq(Event), NEW I \in SUBSET (1 .. Len(s)), NEW d \in Selection(s, I),
           NEW r \in Seq(Event), NEW t \in Seq(Event), NEW n
    PROVE  /\ InOrder(s) => InOrder(d)
           /\ Recorded(s, n) => Recorded(d, n)
           /\ Precedes(r, s) => Precedes(r, d)
           /\ Precedes(s, t) => Precedes(d, t)
<1>1. IsFiniteSet(1 .. Len(s)) /\ Len(s) \in Nat
  BY FS_Interval, LenProperties
<1>2. Cardinality(I) \in Nat
  BY <1>1, FS_Subset, FS_CardinalityType
<1>3. PICK f \in [1 .. Cardinality(I) -> I] :
          /\ \A i, j \in 1 .. Cardinality(I) : i < j => f[i] < f[j]
          /\ d = [i \in 1 .. Cardinality(I) |-> s[f[i]]]
  BY DEF Selection
<1>4. d \in Seq(Event) /\ Len(d) = Cardinality(I)
  <2>1. d \in Seq(Event)
    BY SelectionType
  <2>2. DOMAIN d = 1 .. Cardinality(I)
    BY <1>3
  <2> QED
    BY <1>2, <2>1, <2>2, LenProperties
<1>5. \A i \in 1 .. Len(d) : f[i] \in 1 .. Len(s) /\ d[i] = s[f[i]]
  BY <1>3, <1>4
<1>6. \A i, j \in 1 .. Len(d) : i < j => f[i] < f[j]
  BY <1>3, <1>4
<1> QED
  BY <1>5, <1>6, ZenonT(60) DEF InOrder, Recorded, Precedes

(* Recording the next event of a session keeps the order. *)
LEMMA RecordOrder ==
    ASSUME NEW s \in Sessions, NEW f \in Seq(Event), NEW n \in [Sessions -> 0 .. MaxEvents],
           n[s] < MaxEvents, InOrder(f), Recorded(f, n)
    PROVE  LET e == [session |-> s, seq |-> n[s] + 1]
               m == [n EXCEPT ![s] = @ + 1]
           IN  InOrder(Append(f, e)) /\ Recorded(Append(f, e), m) /\ Recorded(f, m)
<1> DEFINE e == [session |-> s, seq |-> n[s] + 1]
           m == [n EXCEPT ![s] = @ + 1]
           fe == Append(f, e)
<1>1. n[s] \in Nat /\ e \in Event /\ \A z \in Sessions : n[z] \in Nat /\ m[z] \in Nat
  BY ConfigAssumption DEF Event
<1>2. /\ Len(f) \in Nat /\ Len(fe) = Len(f) + 1 /\ fe[Len(f) + 1] = e
      /\ \A i \in 1 .. Len(f) : fe[i] = f[i] /\ f[i] \in Event
  BY <1>1, AppendProperties, LenProperties, ElementOfSeq
<1>3. e.session = s /\ e.seq = n[s] + 1 /\ m[s] = n[s] + 1
  OBVIOUS
<1>4. \A z \in Sessions : n[z] <= m[z]
  BY <1>1
<1>5. \A i \in 1 .. Len(f) : f[i].session \in Sessions /\ f[i].seq \in Nat
  BY <1>2 DEF Event
<1> HIDE DEF e, m, fe
<1>6. Recorded(f, m)
  <2> SUFFICES ASSUME NEW i \in 1 .. Len(f) PROVE f[i].seq <= m[f[i].session]
    BY DEF Recorded
  <2>1. f[i].seq <= n[f[i].session]
    BY DEF Recorded
  <2> QED
    BY <1>1, <1>4, <1>5, <2>1
<1>7. Recorded(fe, m)
  <2> SUFFICES ASSUME NEW i \in 1 .. Len(fe) PROVE fe[i].seq <= m[fe[i].session]
    BY DEF Recorded
  <2>1. CASE i \in 1 .. Len(f)
    BY <1>2, <1>6, <2>1 DEF Recorded
  <2>2. CASE i = Len(f) + 1
    BY <1>1, <1>2, <1>3, <2>2
  <2> QED
    BY <1>2, <2>1, <2>2
<1>8. InOrder(fe)
  <2> SUFFICES ASSUME NEW i \in 1 .. Len(fe), NEW j \in 1 .. Len(fe), i < j,
                      fe[i].session = fe[j].session
               PROVE  fe[i].seq < fe[j].seq
    BY DEF InOrder
  <2>1. i \in 1 .. Len(f)
    BY <1>2
  <2>2. CASE j \in 1 .. Len(f)
    BY <1>2, <2>1, <2>2 DEF InOrder
  <2>3. CASE j = Len(f) + 1
    <3>1. f[i].session = s /\ f[i].seq <= n[s]
      BY <1>2, <1>3, <2>1, <2>3 DEF Recorded
    <3>2. fe[i].seq = f[i].seq /\ fe[j].seq = n[s] + 1 /\ f[i].seq \in Nat
      BY <1>2, <1>3, <1>5, <2>1, <2>3
    <3> QED
      BY <1>1, <3>1, <3>2
  <2> QED
    BY <1>2, <2>2, <2>3
<1> QED
  BY <1>6, <1>7, <1>8 DEF e, m, fe

(* A writer that finishes keeps the order, whatever it left out.           *)
LEMMA WriteOrder ==
    ASSUME TypeOK, Places, NEW v \in Writers, Write(v), NEW w \in Writers,
           InOrder(Flow(w)), Recorded(Flow(w), sent)
    PROVE  InOrder(Flow(w))' /\ Recorded(Flow(w), sent)'
<1> DEFINE old == stored[w]
<1>1. /\ buffer = << >> /\ buffer' = << >> /\ queue' = queue /\ sent' = sent
      /\ batch' = batch /\ pending' = pending \ {v}
  BY DEF Write, Places
<1>2. old \in Seq(Event) /\ queue \in Seq(Event) /\ batch \in Seq(Event)
  BY DEF TypeOK
<1>3. CASE w = v
  <2>1. PICK d \in Written(w) : stored' = [stored EXCEPT ![w] = @ \o d]
    BY <1>3 DEF Write
  <2>2. d \in Seq(Event)
    BY <1>2, <2>1, WrittenType
  <2>3. old \o batch \in Seq(Event) /\ old \o d \in Seq(Event)
    BY <1>2, <2>2, ConcatProperties
  <2>4. Flow(w) = (old \o batch) \o queue
    <3>1. Unwritten(w) = batch
      BY <1>3 DEF Write, Unwritten
    <3> QED
      BY <1>1, <2>3, <3>1, ConcatEmptySeq DEF Flow
  <2>5. Flow(w)' = (old \o d) \o queue
    <3>1. Unwritten(w)' = << >> /\ stored'[w] = old \o d
      BY <1>1, <1>3, <2>1 DEF Unwritten, TypeOK
    <3> QED
      BY <1>1, <2>3, <3>1, ConcatEmptySeq DEF Flow
  <2> HIDE DEF old
  <2>6. /\ InOrder(old) /\ InOrder(batch) /\ Precedes(old, batch)
        /\ InOrder(queue) /\ Precedes(old \o batch, queue)
        /\ Recorded(old, sent) /\ Recorded(batch, sent) /\ Recorded(queue, sent)
    BY <1>2, <2>3, <2>4, OrderOfConcat, RecordedOfConcat, ZenonT(60)
  <2>7. Precedes(old, queue) /\ Precedes(batch, queue)
    BY <1>2, <2>6, PrecedesFromConcat
  <2>8. /\ InOrder(d) /\ Recorded(d, sent) /\ Precedes(old, d) /\ Precedes(d, queue)
    <3>1. CASE w \notin Faulty
      BY <2>1, <2>6, <2>7, <3>1 DEF Written
    <3>2. CASE w \in Faulty
      <4>1. PICK I \in PartlyDone : d \in Selection(batch, I)
        BY <2>1, <3>2 DEF Written
      <4>2. I \in SUBSET (1 .. Len(batch))
        BY <1>2, <4>1, LenProperties DEF PartlyDone
      <4> QED
        BY <1>2, <2>6, <2>7, <4>1, <4>2, SelectionOrder
    <3> QED
      BY <3>1, <3>2
  <2>9. Precedes(old \o d, queue)
    BY <1>2, <2>2, <2>7, <2>8, PrecedesFromConcat
  <2>10. InOrder(old \o d) /\ Recorded(old \o d, sent)
    BY <1>2, <2>2, <2>6, <2>8, OrderOfConcat, RecordedOfConcat
  <2>11. InOrder((old \o d) \o queue)
    BY <1>2, <2>3, <2>6, <2>9, <2>10, OrderOfConcat
  <2>12. Recorded((old \o d) \o queue, sent)
    BY <1>2, <2>3, <2>6, <2>10, RecordedOfConcat
  <2> QED
    BY <1>1, <2>5, <2>11, <2>12
<1>4. CASE w # v
  <2>1. stored'[w] = stored[w] /\ Unwritten(w)' = Unwritten(w)
    BY <1>1, <1>4 DEF Write, Unwritten, TypeOK
  <2>2. Flow(w)' = Flow(w)
    BY <1>1, <2>1 DEF Flow
  <2> QED
    BY <1>1, <2>2
<1> QED
  BY <1>3, <1>4

LEMMA FlowOrderStep ==
    TypeOK /\ TypeOK' /\ Places /\ FlowOrder /\ [Next]_vars => FlowOrder'
<1> SUFFICES ASSUME TypeOK, TypeOK', Places, FlowOrder, [Next]_vars, NEW w \in Writers
             PROVE  InOrder(Flow(w))' /\ Recorded(Flow(w), sent)'
  BY DEF FlowOrder
<1>0. InOrder(Flow(w)) /\ Recorded(Flow(w), sent)
  BY DEF FlowOrder
<1> USE DEF tasks
<1>1. ASSUME NEW s \in Sessions, Record(s)
      PROVE  InOrder(Flow(w))' /\ Recorded(Flow(w), sent)'
  <2> DEFINE e == [session |-> s, seq |-> sent[s] + 1]
             f == Flow(w)
  <2>1. /\ stored' = stored /\ Unwritten(w)' = Unwritten(w) /\ buffer' = buffer
        /\ sent' = [sent EXCEPT ![s] = @ + 1]
    BY <1>1 DEF Record, Unwritten
  <2>2. f \in Seq(Event) /\ InOrder(f) /\ Recorded(f, sent)
    BY <1>0, FlowType
  <2>3. sent \in [Sessions -> 0 .. MaxEvents] /\ sent[s] < MaxEvents
    BY <1>1 DEF Record, TypeOK
  <2>4. InOrder(Append(f, e)) /\ Recorded(Append(f, e), sent') /\ Recorded(f, sent')
    <3> HIDE DEF f
    <3> QED
      BY <2>1, <2>2, <2>3, RecordOrder
  <2>5. CASE Accepts
    <3> DEFINE ahead == stored[w] \o Unwritten(w) \o buffer
    <3>1. queue' = Append(queue, e)
      BY <1>1, <2>5 DEF Record
    <3>2. ahead \in Seq(Event) /\ queue \in Seq(Event)
      BY FlowType
    <3>5. e \in Event
      BY <2>3, ConfigAssumption DEF Event
    <3> HIDE DEF ahead, e
    <3>3. ahead \o Append(queue, e) = Append(ahead \o queue, e)
      BY <3>2, <3>5, AppendToConcat
    <3>4. Flow(w)' = Append(Flow(w), e)
      BY <2>1, <3>1, <3>3 DEF Flow, ahead
    <3> QED
      BY <2>4, <3>4
  <2>6. CASE ~Accepts
    <3>1. Flow(w)' = Flow(w)
      BY <1>1, <2>1, <2>6 DEF Record, Flow
    <3>2. InOrder(f) /\ Recorded(f, sent')
      BY <2>2, <2>4
    <3> HIDE DEF f
    <3>3. InOrder(f)' /\ Recorded(f, sent)'
      BY <3>1, <3>2 DEF f
    <3> QED
      BY <3>3 DEF f
  <2> QED
    BY <2>5, <2>6
<1>2. CASE Receive
  BY <1>0, <1>2, ReceiveFlow DEF Receive
<1>3. CASE TimedFlush
  BY <1>0, <1>3, StartFlushFlow DEF TimedFlush
<1>4. ASSUME Exit, worker # "exited", stored' = stored, buffer' = buffer,
             pending = {}, pending' = {}, sent' = sent
      PROVE  InOrder(Flow(w))' /\ Recorded(Flow(w), sent)'
  <2> DEFINE f == Flow(w)
             g == stored[w] \o Unwritten(w) \o buffer
  <2>1. f = g \o queue /\ g \in Seq(Event) /\ queue \in Seq(Event)
    BY FlowType DEF Flow
  <2>2. Flow(w)' = g
    <3>1. Unwritten(w)' = Unwritten(w) /\ queue' = << >>
      BY <1>4 DEF Unwritten, Exit
    <3>2. Flow(w)' = g \o << >>
      BY <1>4, <3>1 DEF Flow
    <3> HIDE DEF g
    <3> QED
      BY <2>1, <3>2, ConcatEmptySeq
  <2> HIDE DEF g
  <2>3. InOrder(g) /\ Recorded(g, sent)
    BY <1>0, <2>1, OrderOfConcat, RecordedOfConcat
  <2> QED
    BY <1>4, <2>2, <2>3
<1>5. CASE Shutdown
  <2>1. CASE buffer = << >>
    BY <1>4, <1>5, <2>1 DEF Shutdown, Places
  <2>2. CASE buffer # << >>
    BY <1>0, <1>5, <2>2, StartFlushFlow DEF Shutdown
  <2> QED
    BY <2>1, <2>2
<1>6. CASE FlushDone
  <2>1. CASE stopping
    BY <1>4, <1>6, <2>1 DEF FlushDone
  <2>2. CASE ~stopping
    BY <1>0, <1>6, <2>2 DEF FlushDone, Flow, Unwritten
  <2> QED
    BY <2>1, <2>2
<1>7. ASSUME NEW v \in Writers, Write(v)
      PROVE  InOrder(Flow(w))' /\ Recorded(Flow(w), sent)'
  BY <1>0, <1>7, WriteOrder
<1>8. ASSUME NEW c \in Callers, TakeSender(c) \/ AlreadyTaken(c) \/ SendSignal(c) \/ Join(c)
      PROVE  InOrder(Flow(w))' /\ Recorded(Flow(w), sent)'
  BY <1>0, <1>8 DEF TakeSender, AlreadyTaken, SendSignal, Join, Flow, Unwritten
<1>9. CASE Drop
  BY <1>0, <1>9 DEF Drop, Flow, Unwritten
<1>10. CASE UNCHANGED vars
  BY <1>0, <1>10 DEF vars, Flow, Unwritten
<1> QED
  BY <1>1, <1>2, <1>3, <1>5, <1>6, <1>7, <1>8, <1>9, <1>10 DEF Next, WorkerStep

(* No writer, failing or not, stores an event twice or out of the order of *)
(* its session (flush_buffer never writes a batch again).                  *)
THEOREM SessionsStayInOrder == Spec => []SessionOrder
<1>1. Init => FlowOrder
  <2> SUFFICES ASSUME Init, NEW w \in Writers PROVE InOrder(Flow(w)) /\ Recorded(Flow(w), sent)
    BY DEF FlowOrder
  <2>1. Flow(w) = << >>
    BY NoEvents, ConcatEmptySeq DEF Init, Flow, Unwritten
  <2> QED
    BY <2>1, NoEvents DEF InOrder, Recorded
<1>2. TypeOK /\ FlowOrder => SessionOrder
  <2> SUFFICES ASSUME TypeOK, FlowOrder, NEW w \in Writers PROVE InOrder(stored[w])
    BY DEF SessionOrder
  <2> DEFINE s == stored[w]
             u == Unwritten(w)
  <2>1. /\ s \in Seq(Event) /\ u \in Seq(Event) /\ buffer \in Seq(Event)
        /\ queue \in Seq(Event) /\ s \o u \in Seq(Event) /\ (s \o u) \o buffer \in Seq(Event)
    BY FlowType
  <2>2. InOrder(((s \o u) \o buffer) \o queue)
    BY DEF FlowOrder, Flow
  <2> HIDE DEF s, u
  <2>3. InOrder(s)
    BY <2>1, <2>2, OrderOfConcat
  <2> QED
    BY <2>3 DEF s
<1>3. IInv /\ IInv' /\ FlowOrder /\ [Next]_vars => FlowOrder'
  BY FlowOrderStep DEF IInv
<1> QED
  BY <1>1, <1>2, <1>3, Invariance, PTL DEF Spec, IInv

(***************************************************************************)
(* The older recording provider over the file recorder: the values of the  *)
(* variables.                                                              *)
(***************************************************************************)
CallSet == [streams : BOOLEAN, ok : BOOLEAN, items : Seq(Items)]
StreamSet == [polled : Nat, id : BOOLEAN, name : BOOLEAN, usage : BOOLEAN, finish : BOOLEAN, failed : BOOLEAN]
MetaSet == [streams : BOOLEAN, success : BOOLEAN, failed : BOOLEAN, usage : BOOLEAN, finish : BOOLEAN]
LineSet == [of : Seq(Int), cut : BOOLEAN]
LogSet == {NoFile} \cup {Lines(ls, o) : ls \in Seq(LineSet), o \in BOOLEAN}
MetaFiles == {NoFile, Half} \cup {Full(m) : m \in MetaSet}
FolderSet == [there : BOOLEAN, metadata : MetaFiles, log : LogSet]
Starts == {"new", "metadata", "metadata_text", "log", "request", "request_newline", "ask"}
Stages == Starts \cup {"response", "response_newline", "closing", "streaming", "ended", "gone"}

CallTypes ==
  /\ exchange \in CallSet /\ at \in Stages /\ stream \in StreamSet
  /\ channel \in Seq(Nat \ {0}) /\ writer \in {"none", "line"}
  /\ closing \in [step : {"none", "spawned", "written"}, meta : MetaSet]
FolderTypes ==
  /\ folder \in FolderSet
  /\ folder.log.is = "lines" /\ folder.log.open => folder.log.lines # << >>
ReaderTypes ==
  reader \in [is : {"idle", "metadata", "session", "listed", "not_listed", "none", "error", "deleting", "deleted"},
              meta : MetaSet, response : BOOLEAN, events : Seq(Int)]
RecordingTypes == CallTypes /\ FolderTypes /\ ReaderTypes /\ errors \in Nat

LEMMA LogIs ==
  ASSUME NEW log \in LogSet
  PROVE  \/ log = NoFile /\ log.is = "absent"
         \/ log.is = "lines" /\ log.lines \in Seq(LineSet) /\ log.open \in BOOLEAN /\ log = Lines(log.lines, log.open)
<1>1. CASE log = NoFile
  BY <1>1 DEF NoFile
<1>2. ASSUME NEW ls \in Seq(LineSet), NEW o \in BOOLEAN, log = Lines(ls, o)
      PROVE  log.is = "lines" /\ log.lines \in Seq(LineSet) /\ log.open \in BOOLEAN /\ log = Lines(log.lines, log.open)
  BY <1>2 DEF Lines
<1> QED
  BY <1>1, <1>2 DEF LogSet

LEMMA MetaIs ==
  ASSUME NEW f \in MetaFiles
  PROVE  f.is \in {"absent", "torn"} \/ (f.is = "full" /\ f.meta \in MetaSet /\ f = Full(f.meta))
BY DEF MetaFiles, NoFile, Half, Full

LEMMA LinesIn ==
  ASSUME NEW ls \in Seq(LineSet), NEW o \in BOOLEAN, NEW l, l = Lines(ls, o)
  PROVE  l \in LogSet /\ l.is = "lines" /\ l.lines = ls /\ l.open = o
BY DEF Lines, LogSet

LEMMA NewMeta ==
  ASSUME NEW s \in BOOLEAN
  PROVE  /\ NewMetadata(s) \in MetaSet /\ ~NewMetadata(s).success /\ ~NewMetadata(s).failed /\ NewMetadata(s).streams = s
         /\ \A u, f \in BOOLEAN : LET m == WithSuccess(NewMetadata(s), u, f) IN
              m \in MetaSet /\ m.success /\ ~m.failed /\ m.streams = s
         /\ LET m == WithError(NewMetadata(s)) IN m \in MetaSet /\ ~m.success /\ m.failed /\ m.streams = s
<1> DEFINE n == NewMetadata(s)
<1>1. n \in MetaSet /\ ~n.success /\ ~n.failed /\ n.streams = s
  BY DEF NewMetadata, MetaSet
<1> HIDE DEF n
<1>2. ASSUME NEW u \in BOOLEAN, NEW f \in BOOLEAN, NEW m, m = WithSuccess(n, u, f)
      PROVE  m \in MetaSet /\ m.success /\ ~m.failed /\ m.streams = s
  BY <1>1, <1>2 DEF WithSuccess, MetaSet
<1>3. ASSUME NEW m, m = WithError(n)
      PROVE  m \in MetaSet /\ ~m.success /\ m.failed /\ m.streams = s
  BY <1>1, <1>3 DEF WithError, MetaSet
<1> QED
  BY <1>1, <1>2, <1>3 DEF n

LEMMA AppendIs ==
  ASSUME NEW S, NEW f \in Seq(S), NEW x \in S, NEW g, g = Append(f, x)
  PROVE  /\ g \in Seq(S) /\ Len(f) \in Nat /\ Len(g) = Len(f) + 1 /\ g # << >> /\ g # f
         /\ DOMAIN f = 1 .. Len(f) /\ DOMAIN g = 1 .. Len(f) + 1
         /\ g[Len(f) + 1] = x /\ \A i \in 1 .. Len(f) : g[i] = f[i]
BY AppendsDiffer

Has(ls, j, y) == j \in DOMAIN ls /\ \E k \in DOMAIN ls[j].of : ls[j].of[k] = y

(* Of the lines that are new, x is the only thing in the last one. *)
Adds(new, old, x) ==
  Len(old) <= Len(new) /\ \A j, y \in Int : Has(new, j, y) => Has(old, j, y) \/ (j = Len(new) /\ y = x)

LEMMA BehindFacts ==
  ASSUME NEW log \in LogSet, log.is = "lines", log.open # TRUE \/ log.lines # << >>, NEW x \in Int, NEW whole \in BOOLEAN,
         NEW b, b = Behind(log, x, whole)
  PROVE  /\ b \in LogSet /\ b.is = "lines" /\ b.open = TRUE /\ b.lines # << >> /\ b # log
         /\ b.lines \in Seq(LineSet) /\ log.lines \in Seq(LineSet)
         /\ Len(log.lines) \in Nat /\ Len(b.lines) \in Nat /\ Len(log.lines) <= Len(b.lines)
         /\ DOMAIN b.lines = 1 .. Len(b.lines) /\ DOMAIN log.lines = 1 .. Len(log.lines)
         /\ Adds(b.lines, log.lines, x)
<1>1. PICK ls \in Seq(LineSet), n \in Nat : ls = log.lines /\ n = Len(ls) /\ log.open \in BOOLEAN
  BY LogIs
<1>2. CASE ~log.open
  <2> DEFINE new == [of |-> <<x>>, cut |-> ~whole]
  <2>1. new \in LineSet /\ new.of = <<x>> /\ (whole = TRUE => new.cut = FALSE)
    <3> DEFINE z == ~whole
    <3>1. z \in BOOLEAN /\ (whole = TRUE => z = FALSE)
      OBVIOUS
    <3>2. <<x>> \in Seq(Int) /\ new = [of |-> <<x>>, cut |-> z]
      OBVIOUS
    <3> HIDE DEF z, new
    <3> QED
      BY <3>1, <3>2 DEF LineSet
  <2> HIDE DEF new
  <2>2. PICK rs : rs = Append(ls, new)
    OBVIOUS
  <2>3. /\ rs \in Seq(LineSet) /\ Len(rs) = n + 1 /\ rs # << >> /\ rs # ls
        /\ rs[n + 1] = new /\ \A i \in 1 .. n : rs[i] = ls[i]
    BY <1>1, <2>1, <2>2, AppendIs
  <2>4. b = Lines(rs, TRUE)
    BY <1>1, <1>2, <2>2 DEF Behind, new
  <2>5. b \in LogSet /\ b.is = "lines" /\ b.open /\ b.lines = rs
    <3>1. rs \in Seq(LineSet) /\ TRUE \in BOOLEAN
      BY <2>3
    <3> QED
      BY <2>4, <3>1, LinesIn, ZenonT(60)
  <2>6. ASSUME NEW j \in 1 .. n + 1, NEW k \in DOMAIN rs[j].of
        PROVE  \/ j \in 1 .. n /\ k \in DOMAIN ls[j].of /\ rs[j].of[k] = ls[j].of[k]
               \/ j = n + 1 /\ rs[j].of[k] = x
    <3>1. CASE j = n + 1
      BY <2>1, <2>3, <3>1
    <3>2. CASE j # n + 1
      BY <2>3, <3>2
    <3> QED
      BY <3>1, <3>2
  <2>7. b # log
    BY <1>1, <2>3, <2>5
  <2>8. ASSUME NEW j \in Int, NEW y \in Int, Has(rs, j, y) PROVE Has(ls, j, y) \/ (j = n + 1 /\ y = x)
    <3>1. DOMAIN rs = 1 .. n + 1 /\ DOMAIN ls = 1 .. n
      BY <1>1, <2>3
    <3>2. PICK k \in DOMAIN rs[j].of : j \in 1 .. n + 1 /\ rs[j].of[k] = y
      BY <2>8, <3>1 DEF Has
    <3> QED
      BY <2>6, <3>1, <3>2 DEF Has
  <2>9. Adds(rs, ls, x)
    BY <1>1, <2>3, <2>8 DEF Adds
  <2> QED
    BY <1>1, <2>3, <2>5, <2>7, <2>9
<1>3. CASE log.open
  <2>1. ls # << >> /\ n >= 1 /\ ls[n] \in LineSet
    BY <1>1, <1>3
  <2>2. PICK f \in Seq(Int) : f = ls[n].of
    BY <2>1 DEF LineSet
  <2>3. PICK g : g = Append(f, x)
    OBVIOUS
  <2>4. /\ g \in Seq(Int) /\ Len(f) \in Nat /\ g # f /\ DOMAIN f = 1 .. Len(f) /\ DOMAIN g = 1 .. Len(f) + 1
        /\ g[Len(f) + 1] = x /\ \A i \in 1 .. Len(f) : g[i] = f[i]
    BY <2>3, AppendIs
  <2> DEFINE last == [Last(ls) EXCEPT !.of = Append(@, x), !.cut = @ \/ ~whole]
             front == Front(ls)
  <2>5. last \in LineSet /\ last.of = g
    <3>1. Last(ls) = ls[n]
      BY <1>1 DEF Last
    <3>2. PICK l \in LineSet : l = ls[n] /\ l = Last(ls)
      BY <2>1, <3>1
    <3>3. l.of = f /\ l.cut \in BOOLEAN /\ l = [of |-> f, cut |-> l.cut]
      BY <2>2, <3>2 DEF LineSet
    <3> DEFINE z == l.cut \/ ~whole
    <3>4. z \in BOOLEAN
      OBVIOUS
    <3>5. last = [l EXCEPT !.of = Append(l.of, x), !.cut = z]
      BY <3>2
    <3> HIDE DEF last, z
    <3>6. last = [l EXCEPT !.of = g, !.cut = z]
      BY <2>3, <3>3, <3>5
    <3> QED
      BY <2>4, <3>2, <3>4, <3>6 DEF LineSet
  <2>6. front \in Seq(LineSet) /\ Len(front) = n - 1 /\ \A j \in 1 .. n - 1 : front[j] = ls[j]
    BY <1>1, <2>1 DEF Front
  <2>7. b = Lines(Append(front, last), TRUE)
    <3>1. b = Lines(front \o <<last>>, TRUE)
      BY <1>1, <1>3 DEF Behind
    <3> HIDE DEF front, last
    <3>2. front \o <<last>> = Append(front, last)
      BY <2>5, <2>6
    <3> QED
      BY <3>1, <3>2
  <2> HIDE DEF front, last
  <2>8. PICK rs : rs = Append(front, last)
    OBVIOUS
  <2>9. /\ rs \in Seq(LineSet) /\ Len(rs) = n /\ rs # << >>
        /\ rs[n] = last /\ \A i \in 1 .. n - 1 : rs[i] = ls[i]
    <3>1. /\ rs \in Seq(LineSet) /\ Len(rs) = Len(front) + 1 /\ rs # << >> /\ rs[Len(front) + 1] = last
          /\ \A i \in 1 .. Len(front) : rs[i] = front[i]
      BY <2>5, <2>6, <2>8, AppendIs
    <3>2. Len(front) = n - 1 /\ (n - 1) + 1 = n
      BY <1>1, <2>6
    <3>3. \A i \in 1 .. n - 1 : rs[i] = front[i]
      BY <3>1, <3>2
    <3>4. \A i \in 1 .. n - 1 : rs[i] = ls[i]
      BY <2>6, <3>3
    <3> QED
      BY <3>1, <3>2, <3>4
  <2>10. rs # ls
    BY <2>2, <2>4, <2>5, <2>9
  <2>11. b \in LogSet /\ b.is = "lines" /\ b.open /\ b.lines = rs
    <3>1. b = Lines(rs, TRUE) /\ TRUE \in BOOLEAN /\ rs \in Seq(LineSet)
      BY <2>7, <2>8, <2>9
    <3> QED
      BY <3>1, LinesIn, ZenonT(60)
  <2>12. ASSUME NEW j \in 1 .. n, NEW k \in DOMAIN rs[j].of
        PROVE  \/ j \in 1 .. n /\ k \in DOMAIN ls[j].of /\ rs[j].of[k] = ls[j].of[k]
               \/ j = n /\ rs[j].of[k] = x
    <3>1. CASE j = n
      <4>1. rs[j].of = g /\ ls[j].of = f /\ k \in 1 .. Len(f) + 1
        BY <2>2, <2>4, <2>5, <2>9, <3>1
      <4>2. k \in 1 .. Len(f) \/ k = Len(f) + 1
        BY <2>4, <4>1
      <4> QED
        BY <2>4, <3>1, <4>1, <4>2
    <3>2. CASE j # n
      BY <2>9, <3>2
    <3> QED
      BY <3>1, <3>2
  <2>13. b # log
    BY <1>1, <2>10, <2>11
  <2>14. ASSUME NEW j \in Int, NEW y \in Int, Has(rs, j, y) PROVE Has(ls, j, y) \/ (j = n /\ y = x)
    <3>1. DOMAIN rs = 1 .. n /\ DOMAIN ls = 1 .. n
      BY <1>1, <2>9
    <3>2. PICK k \in DOMAIN rs[j].of : j \in 1 .. n /\ rs[j].of[k] = y
      BY <2>14, <3>1 DEF Has
    <3> QED
      BY <2>12, <3>1, <3>2 DEF Has
  <2>15. Adds(rs, ls, x)
    BY <1>1, <2>9, <2>14 DEF Adds
  <2> QED
    BY <1>1, <2>9, <2>11, <2>13, <2>15
<1> QED
  BY <1>1, <1>2, <1>3

LinesNow == IF folder.log.is = "lines" THEN folder.log.lines ELSE << >>

LEMMA LinesNowType ==
  ASSUME FolderTypes
  PROVE  LinesNow \in Seq(LineSet) /\ Len(LinesNow) \in Nat /\ DOMAIN LinesNow = 1 .. Len(LinesNow)
<1>1. folder.log \in LogSet
  BY DEF FolderTypes, FolderSet
<1>2. LinesNow \in Seq(LineSet)
  BY <1>1, LogIs DEF LinesNow
<1> QED
  BY <1>2

(* What writing a text does to the folder. *)
LEMMA WriteTextIs ==
  ASSUME FolderTypes, errors \in Nat, NEW x \in Int, WriteText(x)
  PROVE  /\ FolderTypes' /\ errors' \in Nat /\ errors <= errors'
         /\ folder'.there = folder.there /\ folder'.metadata = folder.metadata /\ folder'.log.is = folder.log.is
         /\ Adds(LinesNow', LinesNow, x)
<1>1. folder \in FolderSet /\ folder.log \in LogSet
  BY DEF FolderTypes, FolderSet
<1>2. CASE UNCHANGED folder
  <2>1. errors' = errors \/ errors' = errors + 1
    BY DEF WriteText, Error, Fine
  <2>2. FolderTypes' /\ LinesNow' = LinesNow
    BY <1>2 DEF FolderTypes, LinesNow
  <2>3. Adds(LinesNow, LinesNow, x)
    <3>1. PICK n \in Nat : n = Len(LinesNow)
      BY LinesNowType
    <3> QED
      BY <3>1 DEF Adds
  <2> QED
    BY <1>2, <2>1, <2>2, <2>3
<1>3. ASSUME NEW whole \in BOOLEAN, folder.log.is = "lines", folder' = [folder EXCEPT !.log = Behind(@, x, whole)],
             errors' = errors \/ errors' = errors + 1
      PROVE  /\ FolderTypes' /\ errors' \in Nat /\ errors <= errors'
             /\ folder'.there = folder.there /\ folder'.metadata = folder.metadata /\ folder'.log.is = folder.log.is
             /\ Adds(LinesNow', LinesNow, x)
  <2>1. PICK b : b = Behind(folder.log, x, whole)
    OBVIOUS
  <2>2. /\ folder'.there = folder.there /\ folder'.metadata = folder.metadata /\ folder'.log = b
        /\ folder' = [folder EXCEPT !.log = b]
    BY <1>1, <1>3, <2>1 DEF FolderSet
  <2>3. folder.log.open # TRUE \/ folder.log.lines # << >>
    BY <1>3 DEF FolderTypes
  <2>4. PICK l \in LogSet : l = folder.log
    BY <1>1
  <2>5. l.is = "lines" /\ (l.open # TRUE \/ l.lines # << >>) /\ b = Behind(l, x, whole)
    BY <1>3, <2>1, <2>3, <2>4
  <2>6. b \in LogSet /\ b.is = "lines" /\ b.lines # << >> /\ Adds(b.lines, l.lines, x)
    BY <2>5, BehindFacts, ZenonT(60)
  <2>7. FolderTypes'
    BY <1>1, <2>2, <2>6 DEF FolderTypes, FolderSet
  <2>8. LinesNow = l.lines /\ LinesNow' = b.lines
    BY <1>3, <2>2, <2>4, <2>6 DEF LinesNow
  <2> QED
    BY <1>3, <2>2, <2>6, <2>7, <2>8
<1>4. \/ UNCHANGED folder
      \/ \E whole \in BOOLEAN : /\ folder.log.is = "lines" /\ folder' = [folder EXCEPT !.log = Behind(@, x, whole)]
                                /\ errors' = errors \/ errors' = errors + 1
  BY DEF WriteText, Error, Fine
<1> QED
  BY <1>2, <1>3, <1>4

(* What it does when nothing fails and the last line is complete. *)
LEMMA WholeTextIs ==
  ASSUME FolderTypes, errors \in Nat, NEW x \in Int, WriteText(x), errors' = 0, folder.log.is = "lines", folder.log.open # TRUE
  PROVE  /\ TextWritten /\ errors = 0 /\ folder'.log.open = TRUE
         /\ LinesNow' = Append(LinesNow, [of |-> <<x>>, cut |-> FALSE])
<1>1. folder \in FolderSet /\ folder.log \in LogSet
  BY DEF FolderTypes, FolderSet
<1>2. errors' # errors + 1
  OBVIOUS
<1>3. folder' = [folder EXCEPT !.log = Behind(@, x, TRUE)] /\ errors' = errors
  BY <1>2 DEF WriteText, Error, Fine
<1>4. folder'.log = Behind(folder.log, x, TRUE)
  BY <1>1, <1>3 DEF FolderSet
<1>5. ~folder.log.open
  BY <1>1, LogIs
<1>6. Behind(folder.log, x, TRUE) = Lines(Append(folder.log.lines, [of |-> <<x>>, cut |-> ~TRUE]), TRUE)
  BY <1>5 DEF Behind
<1>7. [of |-> <<x>>, cut |-> ~TRUE] = [of |-> <<x>>, cut |-> FALSE]
  OBVIOUS
<1>8. folder'.log = Lines(Append(folder.log.lines, [of |-> <<x>>, cut |-> FALSE]), TRUE)
  BY <1>4, <1>6, <1>7, Zenon
<1>9. PICK new : new = Append(folder.log.lines, [of |-> <<x>>, cut |-> FALSE])
  OBVIOUS
<1>10. folder'.log.is = "lines" /\ folder'.log.lines = new /\ folder'.log.open = TRUE
  BY <1>8, <1>9 DEF Lines
<1>11. LinesNow = folder.log.lines /\ LinesNow' = new
  BY <1>10 DEF LinesNow
<1>12. folder'.log # folder.log
  BY <1>5, <1>10
<1> QED
  BY <1>3, <1>9, <1>10, <1>11, <1>12 DEF TextWritten, Fine

LEMMA NoText ==
  ASSUME errors \in Nat, NEW x \in Int, WriteText(x), folder.log.is = "absent"
  PROVE  UNCHANGED folder /\ ~TextWritten /\ errors' = errors
BY DEF WriteText, TextWritten, Fine, Error

LEMMA WriteNewlineIs ==
  ASSUME FolderTypes, errors \in Nat, WriteNewline
  PROVE  /\ FolderTypes' /\ errors' \in Nat /\ errors' >= errors
         /\ folder'.there = folder.there /\ folder'.metadata = folder.metadata
         /\ folder'.log.is = folder.log.is /\ (folder.log.is = "lines" => folder'.log.lines = folder.log.lines)
         /\ errors' = 0 /\ folder.log.is = "lines" => ~folder'.log.open
<1>1. folder \in FolderSet /\ folder.log \in LogSet
  BY DEF FolderTypes, FolderSet
<1>2. CASE UNCHANGED folder /\ Error
  BY <1>2 DEF FolderTypes, Error
<1>3. CASE folder' = [folder EXCEPT !.log = IF @.is = "lines" THEN [@ EXCEPT !.open = FALSE] ELSE @] /\ Fine
  <2> DEFINE b == IF folder.log.is = "lines" THEN [folder.log EXCEPT !.open = FALSE] ELSE folder.log
  <2>1. /\ folder'.there = folder.there /\ folder'.metadata = folder.metadata /\ folder'.log = b
        /\ folder' = [folder EXCEPT !.log = b]
    BY <1>1, <1>3 DEF FolderSet
  <2>2. /\ b \in LogSet /\ b.is = folder.log.is
        /\ folder.log.is = "lines" => b.lines = folder.log.lines /\ b.open = FALSE
    <3>1. CASE folder.log.is = "lines"
      <4>1. folder.log = Lines(folder.log.lines, folder.log.open) /\ folder.log.lines \in Seq(LineSet)
        BY <1>1, <3>1, LogIs
      <4>2. b = Lines(folder.log.lines, FALSE)
        BY <3>1, <4>1 DEF Lines
      <4> HIDE DEF b
      <4>3. PICK ls \in Seq(LineSet) : ls = folder.log.lines
        BY <4>1
      <4>4. b = Lines(ls, FALSE) /\ FALSE \in BOOLEAN
        BY <4>2, <4>3
      <4>5. b \in LogSet /\ b.is = "lines" /\ b.lines = ls /\ b.open = FALSE
        BY <4>4, LinesIn
      <4> QED
        BY <3>1, <4>3, <4>5
    <3>2. CASE folder.log.is # "lines"
      BY <1>1, <3>2
    <3> QED
      BY <3>1, <3>2
  <2> HIDE DEF b
  <2>3. FolderTypes'
    BY <1>1, <2>1, <2>2 DEF FolderTypes, FolderSet
  <2> QED
    BY <1>3, <2>1, <2>2, <2>3 DEF Fine
<1> QED
  BY <1>2, <1>3 DEF WriteNewline

LEMMA FolderKept == ASSUME FolderTypes, UNCHANGED folder PROVE FolderTypes'
BY DEF FolderTypes

LEMMA TruncateIs ==
  ASSUME FolderTypes, Truncate
  PROVE  /\ FolderTypes' /\ folder.there = TRUE /\ folder'.there = folder.there /\ folder'.log = folder.log
         /\ folder'.metadata.is = "torn"
<1>1. folder \in FolderSet /\ folder' = [folder EXCEPT !.metadata = Half] /\ Half \in MetaFiles /\ Half.is = "torn"
  BY DEF FolderTypes, Truncate, MetaFiles, Half
<1>2. PICK h : h = Half
  OBVIOUS
<1>3. /\ folder' \in FolderSet /\ folder'.there = folder.there /\ folder'.log = folder.log /\ folder'.metadata = h
  BY <1>1, <1>2 DEF FolderSet
<1>4. folder.there = TRUE
  BY <1>1 DEF Truncate, FolderSet
<1> QED
  BY <1>1, <1>2, <1>3, <1>4 DEF FolderTypes

LEMMA FillIs ==
  ASSUME FolderTypes, NEW m \in MetaSet, FillMetadata(m)
  PROVE  /\ FolderTypes' /\ folder'.there = folder.there /\ folder'.log = folder.log
         /\ folder'.metadata.is = "full" => folder'.metadata.meta = m
<1>1. PICK h : h = IF folder.metadata.is = "absent" THEN folder.metadata ELSE Full(m)
  OBVIOUS
<1>2. folder \in FolderSet /\ folder' = [folder EXCEPT !.metadata = h] /\ folder.metadata \in MetaFiles
  BY <1>1 DEF FolderTypes, FillMetadata, FolderSet
<1>3. h \in MetaFiles /\ (h.is = "full" => h.meta = m)
  <2>1. CASE folder.metadata.is = "absent"
    BY <1>1, <1>2, <2>1
  <2>2. CASE folder.metadata.is # "absent"
    BY <1>1, <2>2 DEF MetaFiles, Full
  <2> QED
    BY <2>1, <2>2
<1>4. /\ folder' \in FolderSet /\ folder'.there = folder.there /\ folder'.log = folder.log /\ folder'.metadata = h
  BY <1>2, <1>3 DEF FolderSet
<1> QED
  BY <1>3, <1>4 DEF FolderTypes

(***************************************************************************)
(* What the record says is true of the call.                               *)
(***************************************************************************)
FolderThere == folder.there = TRUE
LogThere == folder.log.is = "lines"
LogOpen == folder.log.is = "lines" /\ folder.log.open = TRUE
HasMeta == folder.metadata.is = "full"
FileMeta == folder.metadata.meta

TrueOf(m, ex, s, a) ==
  /\ m.success = TRUE => /\ m.streams = ex.streams /\ ex.ok = TRUE /\ s.failed # TRUE
                         /\ ex.streams = TRUE => a = "ended" /\ s.polled = Len(ex.items)
  /\ m.failed = TRUE => ex.ok # TRUE \/ s.failed = TRUE

Early == at \in Starts

PhaseInv ==
  /\ Early => stream.polled = 0
  /\ stream.polled > 0 \/ at = "streaming" \/ stream.failed = TRUE => exchange.streams = TRUE
  /\ stream.polled = 0 => channel = << >> /\ writer = "none"
  /\ Early => closing = Closed /\ reader.meta.success # TRUE
              /\ (HasMeta => FileMeta.success # TRUE)
  /\ at \in {"response", "response_newline"} => exchange.ok = TRUE /\ exchange.streams # TRUE
  /\ at = "streaming" => exchange.ok = TRUE
  /\ stream.polled <= Len(exchange.items)
  /\ exchange.streams # TRUE /\ closing.step # "none" => at = "closing"

MetaInv ==
  /\ TrueOf(closing.meta, exchange, stream, at) /\ TrueOf(reader.meta, exchange, stream, at)
  /\ HasMeta => TrueOf(FileMeta, exchange, stream, at)

(* Events reach the file in the order in which they were polled. *)
OrderInv ==
  /\ \A i \in DOMAIN channel : channel[i] \in Got /\ \A j \in DOMAIN channel : i < j => channel[i] < channel[j]
  /\ \A j, y \in Int : Has(LinesNow, j, y) /\ y > 0 => y \in Got /\ \A i \in DOMAIN channel : y < channel[i]
  /\ \A i, j, x, y \in Int : Has(LinesNow, i, x) /\ Has(LinesNow, j, y) /\ x > 0 /\ y > 0 /\ i < j => x < y

InLog(x) == \E i \in DOMAIN LinesNow : LinesNow[i].of = <<x>>
Answered(m) == m.success = TRUE /\ exchange.streams # TRUE => InLog(-1)
LeftEarly == at = "gone" /\ stream.polled = 0

(* Without errors, and as long as nobody deletes the files. *)
IntactInv ==
  errors = 0 /\ reader.is \in {"idle", "metadata"} =>
    /\ at = "new" \/ LeftEarly \/ FolderThere
    /\ at \in {"new", "metadata", "metadata_text", "log"} \/ LeftEarly \/ LogThere
    /\ \A i \in DOMAIN LinesNow : Parses(LinesNow[i])
    /\ ~LogOpen \/ writer = "line" \/ at \in {"request_newline", "response_newline"} \/ LeftEarly
    /\ \A i \in Got : (\E k \in DOMAIN channel : channel[k] = i) \/ InLog(i)
    /\ at = "response_newline" => InLog(-1)
    /\ Answered(closing.meta) /\ Answered(reader.meta)
    /\ HasMeta => Answered(FileMeta)

(* What the client has read. *)
EventsTrue ==
  reader.is = "session" =>
    /\ Range(reader.events) \subseteq Got
    /\ \A i \in DOMAIN reader.events : i > 1 => reader.events[i] > reader.events[i - 1]
    /\ errors = 0 => \A i \in Got : i \in Range(reader.events) \/ \A j \in Range(reader.events) : j < i
    /\ errors = 0 /\ reader.meta.success = TRUE /\ reader.meta.streams # TRUE => reader.response = TRUE

RecordingInv == RecordingTypes /\ PhaseInv /\ MetaInv /\ OrderInv /\ IntactInv /\ EventsTrue

LEMMA TruthFollows == RecordingInv => RecordTellsTheTruth
<1> SUFFICES ASSUME RecordingInv PROVE RecordTellsTheTruth
  OBVIOUS
<1>1. reader.meta \in MetaSet /\ exchange \in CallSet /\ stream \in StreamSet /\ reader.response \in BOOLEAN
  BY DEF RecordingInv, RecordingTypes, ReaderTypes, CallTypes
<1>2. /\ reader.meta.success \in BOOLEAN /\ reader.meta.failed \in BOOLEAN /\ reader.meta.streams \in BOOLEAN
      /\ exchange.ok \in BOOLEAN /\ exchange.streams \in BOOLEAN /\ stream.failed \in BOOLEAN
  BY <1>1 DEF MetaSet, CallSet, StreamSet
<1>3. TrueOf(reader.meta, exchange, stream, at) /\ EventsTrue
  BY DEF RecordingInv, MetaInv
<1>4. /\ reader.meta.success => exchange.ok /\ ~stream.failed /\ (exchange.streams => stream.polled = Len(exchange.items))
      /\ reader.meta.failed => ~exchange.ok \/ stream.failed
  BY <1>2, <1>3 DEF TrueOf
<1> QED
  BY <1>1, <1>2, <1>3, <1>4 DEF EventsTrue, RecordTellsTheTruth

(***************************************************************************)
(* Steps before the provider is asked.  Nothing was polled, so a line holds *)
(* the request or nothing.                                                 *)
(***************************************************************************)
LEMMA ClosedIs == /\ Closed.step = "none" /\ Closed.meta \in MetaSet /\ Closed.meta.success # TRUE /\ Closed.meta.failed # TRUE
                  /\ Closed \in [step : {"none", "spawned", "written"}, meta : MetaSet]
<1>1. PICK m : m = NewMetadata(FALSE)
  OBVIOUS
<1>2. m \in MetaSet /\ m.success # TRUE /\ m.failed # TRUE
  BY <1>1, NewMeta
<1> QED
  BY <1>1, <1>2 DEF Closed

LEMMA NothingPolled ==
  ASSUME stream.polled = 0
  PROVE  Got = {}
BY DEF Got

Calm == UNCHANGED <<exchange, stream, channel, writer, closing, reader>>

LEMMA EarlyStep ==
  ASSUME RecordingInv, Early, Calm, FolderTypes', errors' \in Nat, errors <= errors',
         \/ at' \in Starts \cup {"gone"} \/ (at' = "streaming" /\ exchange.ok = TRUE /\ exchange.streams = TRUE)
         \/ (at' = "response" /\ exchange.ok = TRUE /\ exchange.streams # TRUE),
         \A j, y \in Int : Has(LinesNow', j, y) => Has(LinesNow, j, y) \/ y = 0,
         HasMeta' =>
           \/ HasMeta /\ FileMeta' = FileMeta
           \/ FileMeta'.success # TRUE /\ FileMeta'.failed # TRUE,
         errors' = 0 /\ reader.is \in {"idle", "metadata"} =>
           /\ at' = "new" \/ at' = "gone" \/ FolderThere'
           /\ at' \in {"new", "metadata", "metadata_text", "log"} \/ at' = "gone" \/ LogThere'
           /\ \A i \in DOMAIN LinesNow' : Parses(LinesNow'[i])
           /\ ~LogOpen' \/ at' = "request_newline" \/ at' = "gone"
  PROVE  RecordingInv'
<1>1. /\ stream.polled = 0 /\ stream'.polled = 0 /\ channel' = << >> /\ writer' = "none" /\ Got = {} /\ Got' = {}
      /\ closing = Closed /\ closing.meta.success # TRUE /\ reader.meta.success # TRUE
      /\ exchange' = exchange /\ stream' = stream /\ closing' = closing /\ reader' = reader
  <2>1. /\ stream.polled = 0 /\ channel = << >> /\ writer = "none"
        /\ closing = Closed /\ closing.meta.success # TRUE /\ reader.meta.success # TRUE
    BY ClosedIs DEF RecordingInv, PhaseInv
  <2>2. Got = {}
    BY <2>1, NothingPolled
  <2>3. Got' = Got
    BY DEF Calm, Got
  <2> QED
    BY <2>1, <2>2, <2>3 DEF Calm
<1>2. RecordingTypes'
  <2>1. at' \in Stages
    BY DEF Stages, Starts
  <2> QED
    BY <2>1 DEF RecordingInv, RecordingTypes, CallTypes, ReaderTypes, Calm
<1>3. PhaseInv'
  <2>1. HasMeta' => FileMeta'.success # TRUE
    BY DEF RecordingInv, PhaseInv
  <2>2. stream.failed = TRUE => exchange.streams = TRUE
    BY DEF RecordingInv, PhaseInv
  <2>3. stream.polled <= Len(exchange.items)
    BY DEF RecordingInv, PhaseInv
  <2>4. at' \in {"response", "response_newline"} => exchange.ok = TRUE /\ exchange.streams # TRUE
    BY DEF Starts
  <2>5. at' = "streaming" => exchange.streams = TRUE /\ exchange.ok = TRUE
    BY DEF Starts
  <2>6. ~(stream'.polled > 0)
    BY <1>1
  <2> QED
    BY <1>1, <2>1, <2>2, <2>3, <2>4, <2>5, <2>6, ClosedIs DEF PhaseInv, Early
<1>4. MetaInv'
  <2>1. TrueOf(closing.meta, exchange, stream, at) /\ TrueOf(reader.meta, exchange, stream, at)
    BY DEF RecordingInv, MetaInv
  <2>2. HasMeta =>
          TrueOf(FileMeta, exchange, stream, at) /\ FileMeta.success # TRUE
    BY DEF RecordingInv, MetaInv, PhaseInv
  <2>3. HasMeta' => TrueOf(FileMeta', exchange, stream, at')
    BY <2>2 DEF TrueOf
  <2> QED
    BY <1>1, <2>1, <2>3 DEF MetaInv, TrueOf
<1>5. OrderInv'
  <2>1. ASSUME NEW j \in Int, NEW y \in Int, Has(LinesNow', j, y), y > 0 PROVE FALSE
    <3>1. Has(LinesNow, j, y)
      BY <2>1
    <3>2. y \in Got
      BY <2>1, <3>1 DEF RecordingInv, OrderInv
    <3> QED
      BY <1>1, <3>2
  <2>2. DOMAIN channel' = {}
    BY <1>1
  <2> QED
    BY <2>1, <2>2 DEF OrderInv
<1>6. IntactInv'
  <2> SUFFICES ASSUME errors' = 0, reader.is \in {"idle", "metadata"} PROVE IntactInv'
    BY <1>1 DEF IntactInv
  <2>1. at' = "gone" => LeftEarly'
    BY <1>1 DEF LeftEarly
  <2>2. at' # "response_newline"
    BY DEF Starts
  <2>3. Answered(closing.meta)' /\ Answered(reader.meta)'
    BY <1>1 DEF Answered
  <2>4. HasMeta' => Answered(FileMeta)'
    BY <1>3 DEF Answered, RecordingInv, PhaseInv
  <2> QED
    BY <1>1, <2>1, <2>2, <2>3, <2>4 DEF IntactInv
<1>7. EventsTrue'
  <2>1. EventsTrue
    BY DEF RecordingInv
  <2>2. errors \in Nat
    BY DEF RecordingInv, RecordingTypes
  <2>3. errors' = 0 => errors = 0
    BY <2>2
  <2> QED
    BY <1>1, <2>1, <2>3 DEF EventsTrue
<1> QED
  BY <1>2, <1>3, <1>4, <1>5, <1>6, <1>7 DEF RecordingInv

(* What the invariant says at the beginning of such a step. *)
LEMMA EarlyFacts ==
  ASSUME RecordingInv, Early
  PROVE  /\ FolderTypes /\ errors \in Nat /\ folder \in FolderSet /\ folder.log \in LogSet
         /\ errors = 0 /\ reader.is \in {"idle", "metadata"} =>
              /\ at = "new" \/ FolderThere
              /\ at \in {"new", "metadata", "metadata_text", "log"} \/ LogThere
              /\ \A i \in DOMAIN LinesNow : Parses(LinesNow[i])
              /\ ~LogOpen \/ at = "request_newline"
<1>1. at # "gone" /\ at # "response_newline" /\ writer = "none"
  BY DEF RecordingInv, PhaseInv, Early, Starts
<1>2. FolderTypes /\ errors \in Nat /\ folder \in FolderSet /\ folder.log \in LogSet
  BY DEF RecordingInv, RecordingTypes, FolderTypes, FolderSet
<1> QED
  BY <1>1, <1>2 DEF RecordingInv, IntactInv, LeftEarly

LEMMA ErrorsOnlyRise ==
  ASSUME errors \in Nat, Fine \/ Error
  PROVE  errors' \in Nat /\ errors <= errors' /\ (errors' = 0 => Fine /\ errors = 0 /\ ~Error)
BY DEF Fine, Error

LEMMA CreateFolderStep == ASSUME RecordingInv, CreateFolder, UNCHANGED reader PROVE RecordingInv'
<1>1. Calm /\ at = "new" /\ Early
  BY DEF CreateFolder, Calm, Goes, Early, Starts
<1>2. errors' \in Nat /\ errors <= errors' /\ (errors' = 0 => Fine /\ errors = 0 /\ ~Error)
  BY <1>1, EarlyFacts, ErrorsOnlyRise DEF CreateFolder
<1>3. CASE at' = "metadata" /\ folder' = [folder EXCEPT !.there = TRUE]
  <2>1. folder' \in FolderSet /\ folder'.there = TRUE /\ folder'.metadata = folder.metadata /\ folder'.log = folder.log
    BY <1>1, <1>3, EarlyFacts DEF FolderSet
  <2>2. /\ FolderTypes' /\ FolderThere' /\ LinesNow' = LinesNow /\ (LogOpen' <=> LogOpen)
        /\ (HasMeta' <=> HasMeta) /\ FileMeta' = FileMeta
    BY <1>1, <2>1, EarlyFacts DEF FolderTypes, FolderThere, LinesNow, LogOpen, HasMeta, FileMeta
  <2>3. at' \in Starts
    BY <1>3 DEF Starts
  <2> QED
    BY <1>1, <1>2, <1>3, <2>2, <2>3, EarlyFacts, EarlyStep
<1>4. CASE at' = "ask" /\ UNCHANGED folder /\ Error
  <2>1. FolderTypes' /\ LinesNow' = LinesNow /\ (HasMeta' <=> HasMeta) /\ FileMeta' = FileMeta
    BY <1>1, <1>4, EarlyFacts DEF FolderTypes, LinesNow, HasMeta, FileMeta
  <2>2. at' \in Starts /\ errors' # 0
    BY <1>2, <1>4 DEF Starts
  <2> QED
    BY <1>1, <1>2, <2>1, <2>2, EarlyStep
<1> QED
  BY <1>3, <1>4 DEF CreateFolder, Goes

(* A step that gives up and asks the provider. *)
LEMMA GivesUp ==
  ASSUME RecordingInv, Early, Calm, at # "new", at' = "ask", UNCHANGED folder, (~folder.there /\ Fine) \/ Error,
         at # "ask"
  PROVE  RecordingInv'
<1>1. errors' \in Nat /\ errors <= errors' /\ (errors' = 0 => Fine /\ errors = 0 /\ ~Error)
  BY EarlyFacts, ErrorsOnlyRise
<1>2. FolderTypes' /\ LinesNow' = LinesNow /\ (HasMeta' <=> HasMeta) /\ FileMeta' = FileMeta
  BY EarlyFacts DEF FolderTypes, LinesNow, HasMeta, FileMeta
<1>3. at' \in Starts
  BY DEF Starts
<1>4. errors' = 0 => reader.is \notin {"idle", "metadata"}
  <2> SUFFICES ASSUME errors' = 0, reader.is \in {"idle", "metadata"} PROVE FALSE
    OBVIOUS
  <2>1. FolderThere
    BY <1>1, EarlyFacts
  <2> QED
    BY <1>1, <2>1 DEF FolderThere
<1> QED
  BY <1>1, <1>2, <1>3, <1>4, EarlyStep

LEMMA BeginMetadataStep == ASSUME RecordingInv, BeginMetadata, UNCHANGED reader PROVE RecordingInv'
<1>1. Calm /\ at = "metadata" /\ Early
  BY DEF BeginMetadata, Calm, Goes, Early, Starts
<1>2. CASE at' = "metadata_text" /\ Truncate /\ Fine
  <2>1. /\ FolderTypes' /\ folder.there = TRUE /\ folder'.there = folder.there /\ folder'.log = folder.log
        /\ folder'.metadata.is = "torn"
    BY <1>1, <1>2, EarlyFacts, TruncateIs
  <2>2. FolderThere' /\ LinesNow' = LinesNow /\ (LogOpen' <=> LogOpen) /\ ~HasMeta'
    BY <2>1 DEF FolderThere, LinesNow, LogOpen, HasMeta
  <2>3. at' \in Starts /\ errors' = errors
    BY <1>2 DEF Starts, Fine
  <2>4. errors \in Nat /\ errors <= errors
    BY <1>1, EarlyFacts
  <2> QED
    BY <1>1, <1>2, <2>1, <2>2, <2>3, <2>4, EarlyFacts, EarlyStep
<1> QED
  BY <1>1, <1>2, GivesUp DEF BeginMetadata, Goes

LEMMA EndMetadataStep == ASSUME RecordingInv, EndMetadata, UNCHANGED reader PROVE RecordingInv'
<1>1. Calm /\ at = "metadata_text" /\ Early
  BY DEF EndMetadata, Calm, Goes, Early, Starts
<1>2. CASE at' = "log" /\ FillMetadata(NewMetadata(exchange.streams)) /\ Fine
  <2>1. exchange.streams \in BOOLEAN
    BY DEF RecordingInv, RecordingTypes, CallTypes, CallSet
  <2>2. PICK m \in MetaSet : m = NewMetadata(exchange.streams) /\ m.success # TRUE /\ m.failed # TRUE
    BY <2>1, NewMeta
  <2>3. /\ FolderTypes' /\ folder'.there = folder.there /\ folder'.log = folder.log
        /\ folder'.metadata.is = "full" => folder'.metadata.meta = m
    BY <1>1, <1>2, <2>2, EarlyFacts, FillIs
  <2>4. /\ (FolderThere' <=> FolderThere) /\ LinesNow' = LinesNow /\ (LogOpen' <=> LogOpen)
        /\ HasMeta' => FileMeta' = m
    BY <2>3 DEF FolderThere, LinesNow, LogOpen, HasMeta, FileMeta
  <2>5. at' \in Starts /\ errors' = errors
    BY <1>2 DEF Starts, Fine
  <2>6. errors \in Nat /\ errors <= errors
    BY <1>1, EarlyFacts
  <2> QED
    BY <1>1, <1>2, <2>2, <2>3, <2>4, <2>5, <2>6, EarlyFacts, EarlyStep
<1>3. CASE at' = "ask" /\ UNCHANGED folder /\ Error
  BY <1>1, <1>3, GivesUp
<1> QED
  BY <1>2, <1>3 DEF EndMetadata, Goes

LEMMA CreateLogStep == ASSUME RecordingInv, CreateLog, UNCHANGED reader PROVE RecordingInv'
<1>1. Calm /\ at = "log" /\ Early
  BY DEF CreateLog, Calm, Goes, Early, Starts
<1>2. CASE at' = "request" /\ folder.there /\ folder' = [folder EXCEPT !.log = Lines(<< >>, FALSE)] /\ Fine
  <2>1. PICK l : l = Lines(<< >>, FALSE)
    OBVIOUS
  <2>2. << >> \in Seq(LineSet) /\ FALSE \in BOOLEAN
    OBVIOUS
  <2>3. l \in LogSet /\ l.is = "lines" /\ l.lines = << >> /\ l.open = FALSE
    BY <2>1, <2>2, LinesIn
  <2>4. folder' = [folder EXCEPT !.log = l]
    BY <1>2, <2>1
  <2>5. folder' \in FolderSet /\ folder'.there = folder.there /\ folder'.metadata = folder.metadata /\ folder'.log = l
    BY <1>1, <2>3, <2>4, EarlyFacts DEF FolderSet
  <2>6. /\ FolderTypes' /\ (FolderThere' <=> FolderThere) /\ LinesNow' = << >> /\ ~LogOpen' /\ LogThere'
        /\ (HasMeta' <=> HasMeta) /\ FileMeta' = FileMeta
    BY <2>3, <2>5 DEF FolderTypes, FolderThere, LinesNow, LogOpen, LogThere, HasMeta, FileMeta
  <2>7. at' \in Starts /\ errors' = errors
    BY <1>2 DEF Starts, Fine
  <2>8. errors \in Nat /\ errors <= errors
    BY <1>1, EarlyFacts
  <2>9. DOMAIN LinesNow' = {} /\ \A j, y \in Int : ~Has(LinesNow', j, y)
    BY <2>6 DEF Has
  <2> QED
    BY <1>1, <1>2, <2>6, <2>7, <2>8, <2>9, EarlyFacts, EarlyStep
<1> QED
  BY <1>1, <1>2, GivesUp DEF CreateLog, Goes

LEMMA LinesGrow ==
  ASSUME FolderTypes, NEW x, NEW new, new = [of |-> <<x>>, cut |-> FALSE], NEW ls, ls = Append(LinesNow, new)
  PROVE  /\ \A i \in DOMAIN ls : ls[i] = new \/ (i \in DOMAIN LinesNow /\ ls[i] = LinesNow[i])
         /\ \A i \in DOMAIN LinesNow : i \in DOMAIN ls /\ ls[i] = LinesNow[i]
         /\ \E i \in DOMAIN ls : ls[i].of = <<x>>
         /\ Parses(new)
<1>1. PICK n \in Nat : n = Len(LinesNow) /\ DOMAIN LinesNow = 1 .. n /\ LinesNow \in Seq(LineSet)
  BY LinesNowType
<1>2. /\ DOMAIN ls = 1 .. n + 1 /\ ls[n + 1] = new /\ \A i \in 1 .. n : ls[i] = LinesNow[i]
  BY <1>1
<1>3. new.of = <<x>> /\ new.cut = FALSE /\ Len(<<x>>) = 1
  OBVIOUS
<1>4. Parses(new)
  BY <1>3 DEF Parses
<1>5. \A i \in 1 .. n + 1 : i \in 1 .. n \/ i = n + 1
  BY <1>1
<1> HIDE DEF Parses
<1> QED
  BY <1>1, <1>2, <1>3, <1>4, <1>5

LEMMA WriteRequestStep == ASSUME RecordingInv, WriteRequest, UNCHANGED reader PROVE RecordingInv'
<1>1. Calm /\ at = "request" /\ Early /\ WriteText(0) /\ at' = IF TextWritten THEN "request_newline" ELSE "ask"
  BY DEF WriteRequest, Calm, Early, Starts
<1>2. FolderTypes /\ errors \in Nat /\ 0 \in Int
  BY <1>1, EarlyFacts
<1>3. /\ FolderTypes' /\ errors' \in Nat /\ errors <= errors'
      /\ folder'.there = folder.there /\ folder'.metadata = folder.metadata /\ folder'.log.is = folder.log.is
      /\ Adds(LinesNow', LinesNow, 0)
  BY <1>1, <1>2, WriteTextIs
<1>4. /\ (FolderThere' <=> FolderThere) /\ (LogThere' <=> LogThere) /\ (HasMeta' <=> HasMeta) /\ FileMeta' = FileMeta
  BY <1>3 DEF FolderThere, LogThere, HasMeta, FileMeta
<1>5. at' \in Starts /\ at' \in {"request_newline", "ask"}
  BY <1>1 DEF Starts
<1>6. \A j, y \in Int : Has(LinesNow', j, y) => Has(LinesNow, j, y) \/ y = 0
  BY <1>3 DEF Adds
<1>7. ASSUME errors' = 0, reader.is \in {"idle", "metadata"}
      PROVE  /\ FolderThere' /\ LogThere' /\ at' = "request_newline"
             /\ \A i \in DOMAIN LinesNow' : Parses(LinesNow'[i])
  <2>1. errors = 0
    BY <1>2, <1>3, <1>7
  <2>2. FolderThere /\ LogThere /\ (\A i \in DOMAIN LinesNow : Parses(LinesNow[i])) /\ ~LogOpen
    BY <1>1, <1>7, <2>1, EarlyFacts
  <2>3. PICK new : new = [of |-> <<0>>, cut |-> FALSE]
    OBVIOUS
  <2>4. TextWritten /\ LinesNow' = Append(LinesNow, [of |-> <<0>>, cut |-> FALSE])
    BY <1>1, <1>2, <1>7, <2>2, WholeTextIs DEF LogThere, LogOpen
  <2>5. \A i \in DOMAIN LinesNow' : Parses(LinesNow'[i])
    BY <1>2, <2>2, <2>3, <2>4, LinesGrow
  <2> QED
    BY <1>1, <1>4, <2>2, <2>4, <2>5
<1> QED
  BY <1>1, <1>3, <1>4, <1>5, <1>6, <1>7, EarlyStep

(* What a newline leaves as it is. *)
LEMMA NewlineFacts ==
  ASSUME FolderTypes, errors \in Nat, WriteNewline
  PROVE  /\ FolderTypes' /\ errors' \in Nat /\ errors <= errors'
         /\ (FolderThere' <=> FolderThere) /\ (LogThere' <=> LogThere) /\ (HasMeta' <=> HasMeta) /\ FileMeta' = FileMeta
         /\ LinesNow' = LinesNow /\ (errors' = 0 => ~LogOpen')
BY WriteNewlineIs DEF FolderThere, LogThere, HasMeta, FileMeta, LinesNow, LogOpen

LEMMA EndRequestStep == ASSUME RecordingInv, EndRequest, UNCHANGED reader PROVE RecordingInv'
<1>1. Calm /\ at = "request_newline" /\ Early /\ WriteNewline /\ at' = "ask"
  BY DEF EndRequest, Goes, Calm, Early, Starts
<1>2. FolderTypes /\ errors \in Nat
  BY <1>1, EarlyFacts
<1>3. /\ FolderTypes' /\ errors' \in Nat /\ errors <= errors'
      /\ (FolderThere' <=> FolderThere) /\ (LogThere' <=> LogThere) /\ (HasMeta' <=> HasMeta) /\ FileMeta' = FileMeta
      /\ LinesNow' = LinesNow /\ (errors' = 0 => ~LogOpen')
  BY <1>1, <1>2, NewlineFacts
<1>4. at' \in Starts
  BY <1>1 DEF Starts
<1>5. errors' = 0 => errors = 0
  BY <1>2, <1>3
<1> QED
  BY <1>1, <1>3, <1>4, <1>5, EarlyFacts, EarlyStep

(* A step that leaves the files alone and has no error. *)
LEMMA QuietEarlyStep ==
  ASSUME RecordingInv, Early, Calm, UNCHANGED folder, errors' = errors,
         \/ at' = "gone"
         \/ /\ at = "ask"
            /\ \/ at' = "streaming" /\ exchange.ok = TRUE /\ exchange.streams = TRUE
               \/ at' = "response" /\ exchange.ok = TRUE /\ exchange.streams # TRUE
  PROVE  RecordingInv'
<1>1. /\ FolderTypes' /\ (FolderThere' <=> FolderThere) /\ (LogThere' <=> LogThere) /\ (HasMeta' <=> HasMeta)
      /\ FileMeta' = FileMeta /\ LinesNow' = LinesNow /\ (LogOpen' <=> LogOpen)
  BY EarlyFacts DEF FolderTypes, FolderThere, LogThere, HasMeta, FileMeta, LinesNow, LogOpen
<1>2. errors' \in Nat /\ errors <= errors'
  BY EarlyFacts
<1> QED
  BY <1>1, <1>2, EarlyFacts, EarlyStep

LEMMA OpenStreamStep == ASSUME RecordingInv, OpenStream, UNCHANGED reader PROVE RecordingInv'
<1>1. Calm /\ at = "ask" /\ Early /\ UNCHANGED folder /\ errors' = errors
  BY DEF OpenStream, Calm, Early, Starts, Fine
<1>2. exchange.streams = TRUE /\ exchange.ok \in BOOLEAN
  BY DEF OpenStream, RecordingInv, RecordingTypes, CallTypes, CallSet
<1>3. at' = "gone" \/ (at' = "streaming" /\ exchange.ok = TRUE)
  BY <1>2 DEF OpenStream
<1> QED
  BY <1>1, <1>2, <1>3, QuietEarlyStep

LEMMA LeaveEarlyStep == ASSUME RecordingInv, Early, Leave, UNCHANGED reader PROVE RecordingInv'
<1>1. closing = Closed
  BY DEF RecordingInv, PhaseInv
<1>2. Calm /\ UNCHANGED folder /\ errors' = errors /\ at' = "gone"
  BY <1>1 DEF Leave, Calm, Fine
<1> QED
  BY <1>2, QuietEarlyStep

LEMMA AnswerComesStep == ASSUME RecordingInv, Answer, exchange.ok, UNCHANGED reader PROVE RecordingInv'
<1>1. Calm /\ at = "ask" /\ Early /\ UNCHANGED folder /\ errors' = errors /\ at' = "response"
  BY DEF Answer, Calm, Early, Starts, Fine
<1>2. exchange.streams # TRUE /\ exchange.ok = TRUE
  BY DEF Answer, RecordingInv, RecordingTypes, CallTypes, CallSet
<1> QED
  BY <1>1, <1>2, QuietEarlyStep

(***************************************************************************)
(* Later steps.                                                            *)
(***************************************************************************)
LEMMA IntactFacts ==
  ASSUME RecordingInv, errors = 0, reader.is \in {"idle", "metadata"}
  PROVE  /\ at = "new" \/ LeftEarly \/ FolderThere
         /\ at \in {"new", "metadata", "metadata_text", "log"} \/ LeftEarly \/ LogThere
         /\ \A i \in DOMAIN LinesNow : Parses(LinesNow[i])
         /\ ~LogOpen \/ writer = "line" \/ at \in {"request_newline", "response_newline"} \/ LeftEarly
         /\ \A i \in Got : (\E k \in DOMAIN channel : channel[k] = i) \/ InLog(i)
         /\ at = "response_newline" => InLog(-1)
         /\ Answered(closing.meta) /\ Answered(reader.meta)
         /\ HasMeta => Answered(FileMeta)
BY DEF RecordingInv, IntactInv

LEMMA TrueStays ==
  ASSUME RecordingInv, NEW m, TrueOf(m, exchange, stream, at),
         stream' = stream \/ (at = "streaming" /\ (stream'.failed = TRUE \/ stream'.failed = stream.failed)),
         at' = at \/ at # "ended"
  PROVE  TrueOf(m, exchange, stream', at')
<1>1. at = "streaming" => exchange.streams = TRUE
  BY DEF RecordingInv, PhaseInv
<1>2. CASE stream' = stream
  BY <1>2 DEF TrueOf
<1>3. CASE stream' # stream
  BY <1>1, <1>3 DEF TrueOf
<1> QED
  BY <1>2, <1>3

LEMMA MetaStays ==
  ASSUME RecordingInv, exchange' = exchange,
         stream' = stream \/ (at = "streaming" /\ (stream'.failed = TRUE \/ stream'.failed = stream.failed)),
         at' = at \/ at # "ended",
         closing'.meta = closing.meta \/ TrueOf(closing'.meta, exchange, stream', at'),
         reader'.meta = reader.meta \/ (HasMeta /\ reader'.meta = FileMeta),
         HasMeta' => FileMeta' = closing.meta \/ (HasMeta /\ FileMeta' = FileMeta)
  PROVE  MetaInv'
<1>1. /\ TrueOf(closing.meta, exchange, stream, at) /\ TrueOf(reader.meta, exchange, stream, at)
      /\ HasMeta => TrueOf(FileMeta, exchange, stream, at)
  BY DEF RecordingInv, MetaInv
<1>2. PICK c : c = closing.meta
  OBVIOUS
<1>3. PICK r : r = reader.meta
  OBVIOUS
<1>4. PICK f : f = FileMeta
  OBVIOUS
<1>5. TrueOf(c, exchange, stream', at') /\ TrueOf(r, exchange, stream', at')
  BY <1>1, <1>2, <1>3, TrueStays
<1>6. HasMeta => TrueOf(f, exchange, stream', at')
  BY <1>1, <1>4, TrueStays
<1> QED
  BY <1>2, <1>3, <1>4, <1>5, <1>6 DEF MetaInv

(* What was read stays true while more events are polled. *)
LEMMA EventsStay ==
  ASSUME RecordingInv, UNCHANGED reader, errors' \in Nat, errors <= errors',
         Got \subseteq Got', \A i \in Got' \ Got, j \in Got : j < i
  PROVE  EventsTrue'
<1>1. errors \in Nat /\ EventsTrue
  BY DEF RecordingInv, RecordingTypes
<1>2. errors' = 0 => errors = 0
  BY <1>1
<1> SUFFICES ASSUME reader.is = "session"
             PROVE  /\ Range(reader.events) \subseteq Got'
                    /\ \A i \in DOMAIN reader.events : i > 1 => reader.events[i] > reader.events[i - 1]
                    /\ errors' = 0 => \A i \in Got' : i \in Range(reader.events) \/ \A j \in Range(reader.events) : j < i
                    /\ errors' = 0 /\ reader.meta.success = TRUE /\ reader.meta.streams # TRUE => reader.response = TRUE
  BY DEF EventsTrue
<1>3. /\ Range(reader.events) \subseteq Got
      /\ \A i \in DOMAIN reader.events : i > 1 => reader.events[i] > reader.events[i - 1]
      /\ errors = 0 => \A i \in Got : i \in Range(reader.events) \/ \A j \in Range(reader.events) : j < i
      /\ errors = 0 /\ reader.meta.success = TRUE /\ reader.meta.streams # TRUE => reader.response = TRUE
  BY <1>1 DEF EventsTrue
<1>4. ASSUME errors' = 0, NEW i \in Got', i \notin Got PROVE \A j \in Range(reader.events) : j < i
  BY <1>3, <1>4
<1> QED
  BY <1>2, <1>3, <1>4

LEMMA OrderStays ==
  ASSUME RecordingInv, UNCHANGED channel, Got' = Got,
         \A j, y \in Int : Has(LinesNow', j, y) => Has(LinesNow, j, y) \/ y <= 0
  PROVE  OrderInv'
<1>1. OrderInv
  BY DEF RecordingInv
<1>2. \A j, y \in Int : Has(LinesNow', j, y) /\ y > 0 => Has(LinesNow, j, y)
  OBVIOUS
<1> QED
  BY <1>1, <1>2 DEF OrderInv

(* A step that leaves the lines and the channel alone. *)
LEMMA LateStep ==
  ASSUME RecordingInv, at \notin {"new", "metadata", "metadata_text", "log"}, at' \in Stages, at' \notin Starts,
         UNCHANGED <<exchange, reader, channel>>, LinesNow' = LinesNow,
         FolderTypes', errors' \in Nat, errors <= errors',
         stream' \in StreamSet, Got' = Got, stream.polled <= stream'.polled, stream'.polled <= Len(exchange.items),
         \/ stream' = stream
         \/ at = "streaming" /\ at' = "streaming" /\ (stream'.failed = TRUE \/ stream'.failed = stream.failed),
         at' = at \/ at # "ended", at' # "streaming" \/ at = "streaming", at' # "response",
         at' # "response_newline" \/ at = "response_newline", at = "gone" => at' = "gone",
         writer' = writer \/ writer' = "none",
         closing' \in [step : {"none", "spawned", "written"}, meta : MetaSet],
         closing'.meta = closing.meta \/ TrueOf(closing'.meta, exchange, stream', at'),
         \/ closing'.meta = closing.meta \/ closing'.meta.success # TRUE \/ exchange.streams = TRUE
         \/ at = "response_newline",
         exchange.streams # TRUE /\ closing'.step # "none" => at' = "closing",
         HasMeta' => FileMeta' = closing.meta \/ (HasMeta /\ FileMeta' = FileMeta),
         FolderThere' <=> FolderThere, LogThere' <=> LogThere,
         errors' = 0 /\ reader.is \in {"idle", "metadata"} =>
           ~LogOpen' \/ (LogOpen /\ writer' = writer /\ at' = at) \/ (LogOpen /\ at' = "gone" /\ stream'.polled = 0)
                    \/ (LogOpen /\ writer' = "line")
  PROVE  RecordingInv'
<1>1. RecordingTypes /\ PhaseInv
  BY DEF RecordingInv
<1>2. /\ errors \in Nat /\ stream.polled \in Nat /\ stream'.polled \in Nat
      /\ exchange' = exchange /\ reader' = reader /\ channel' = channel
  BY <1>1 DEF RecordingTypes, CallTypes, StreamSet
<1>3. RecordingTypes'
  <2>1. writer' \in {"none", "line"}
    BY <1>1 DEF RecordingTypes, CallTypes
  <2> QED
    BY <1>1, <2>1 DEF RecordingTypes, CallTypes, ReaderTypes
<1>4. PhaseInv'
  <2>1. ~Early'
    BY DEF Early
  <2>2. stream'.polled > 0 \/ at' = "streaming" \/ stream'.failed = TRUE => exchange.streams = TRUE
    BY <1>1, <1>2 DEF PhaseInv
  <2>3. stream'.polled = 0 => channel = << >> /\ writer' = "none"
    BY <1>1, <1>2 DEF PhaseInv
  <2>4. at' \in {"response", "response_newline"} => exchange.ok = TRUE /\ exchange.streams # TRUE
    BY <1>1 DEF PhaseInv
  <2>5. at' = "streaming" => exchange.ok = TRUE
    BY <1>1 DEF PhaseInv
  <2> QED
    BY <1>2, <2>1, <2>2, <2>3, <2>4, <2>5 DEF PhaseInv
<1>5. MetaInv'
  BY <1>2, MetaStays
<1>6. OrderInv'
  BY OrderStays
<1>7. EventsTrue'
  BY EventsStay
<1>8. IntactInv'
  <2> SUFFICES ASSUME errors' = 0, reader.is \in {"idle", "metadata"} PROVE IntactInv'
    BY <1>2 DEF IntactInv
  <2>1. errors = 0
    BY <1>2
  <2>2. /\ LeftEarly \/ (FolderThere /\ LogThere)
        /\ \A i \in DOMAIN LinesNow : Parses(LinesNow[i])
        /\ ~LogOpen \/ writer = "line" \/ at \in {"request_newline", "response_newline"} \/ LeftEarly
        /\ \A i \in Got : (\E k \in DOMAIN channel : channel[k] = i) \/ InLog(i)
        /\ at = "response_newline" => InLog(-1)
        /\ Answered(closing.meta) /\ Answered(reader.meta)
        /\ HasMeta => Answered(FileMeta)
    BY <2>1, IntactFacts
  <2>3. LeftEarly => LeftEarly'
    BY <1>2 DEF LeftEarly
  <2>4. \A i \in Int : InLog(i)' <=> InLog(i)
    BY DEF InLog
  <2>5. ~LogOpen' \/ writer' = "line" \/ at' \in {"request_newline", "response_newline"} \/ LeftEarly'
    BY <2>2, <2>3 DEF LeftEarly
  <2>10. InLog(-1) <=> InLog(-1)'
    BY <2>4
  <2>6. Answered(closing.meta)'
    <3> SUFFICES ASSUME closing'.meta.success = TRUE, exchange.streams # TRUE PROVE InLog(-1)
      BY <1>2, <2>10 DEF Answered
    <3>1. closing'.meta = closing.meta \/ at = "response_newline"
      OBVIOUS
    <3> QED
      BY <2>2, <2>10, <3>1 DEF Answered
  <2>11. Answered(reader.meta)'
    BY <1>2, <2>2, <2>10 DEF Answered
  <2>7. HasMeta' => Answered(FileMeta)'
    <3> SUFFICES ASSUME HasMeta', FileMeta'.success = TRUE, exchange.streams # TRUE PROVE InLog(-1)
      BY <1>2, <2>10 DEF Answered
    <3>1. FileMeta' = closing.meta \/ (HasMeta /\ FileMeta' = FileMeta)
      OBVIOUS
    <3> QED
      BY <2>2, <2>10, <3>1 DEF Answered
  <2>8. \A i \in Got' : (\E k \in DOMAIN channel' : channel'[k] = i) \/ InLog(i)'
    BY <1>2, <2>2, <2>4 DEF Got
  <2>9. at' = "response_newline" => InLog(-1)'
    BY <2>2, <2>4
  <2> QED
    BY <1>2, <2>2, <2>3, <2>5, <2>6, <2>7, <2>8, <2>9, <2>11 DEF IntactInv
<1> QED
  BY <1>3, <1>4, <1>5, <1>6, <1>7, <1>8 DEF RecordingInv

LEMMA LateFacts ==
  ASSUME RecordingInv
  PROVE  /\ FolderTypes /\ errors \in Nat /\ folder \in FolderSet /\ folder.log \in LogSet
         /\ stream \in StreamSet /\ stream.polled \in Nat /\ stream.polled <= stream.polled
         /\ stream.polled <= Len(exchange.items) /\ at \in Stages /\ exchange.items \in Seq(Items)
         /\ exchange.streams \in BOOLEAN /\ exchange.ok \in BOOLEAN
         /\ closing \in [step : {"none", "spawned", "written"}, meta : MetaSet] /\ closing.meta \in MetaSet
         /\ (~Early => at \notin Starts /\ at \notin {"new", "metadata", "metadata_text", "log"})
<1>1. RecordingTypes /\ PhaseInv
  BY DEF RecordingInv
<1>2. /\ FolderTypes /\ errors \in Nat /\ folder \in FolderSet /\ folder.log \in LogSet
      /\ stream \in StreamSet /\ stream.polled \in Nat /\ at \in Stages /\ exchange.items \in Seq(Items)
      /\ exchange.streams \in BOOLEAN /\ exchange.ok \in BOOLEAN
      /\ closing \in [step : {"none", "spawned", "written"}, meta : MetaSet] /\ closing.meta \in MetaSet
  BY <1>1 DEF RecordingTypes, FolderTypes, FolderSet, CallTypes, StreamSet, CallSet
<1>3. ~Early => at \notin Starts /\ at \notin {"new", "metadata", "metadata_text", "log"}
  BY DEF Early, Starts
<1> QED
  BY <1>1, <1>2, <1>3 DEF PhaseInv

LEMMA FilesStay ==
  ASSUME FolderTypes, UNCHANGED folder
  PROVE  /\ FolderTypes' /\ LinesNow' = LinesNow /\ (HasMeta' <=> HasMeta) /\ FileMeta' = FileMeta
         /\ (FolderThere' <=> FolderThere) /\ (LogThere' <=> LogThere) /\ (LogOpen' <=> LogOpen)
BY DEF FolderTypes, LinesNow, HasMeta, FileMeta, FolderThere, LogThere, LogOpen

LEMMA NothingChanges ==
  ASSUME RecordingInv, UNCHANGED <<exchange, at, stream, channel, writer, closing, folder, reader, errors>>
  PROVE  RecordingInv'
<1>1. RecordingTypes'
  BY DEF RecordingInv, RecordingTypes, CallTypes, FolderTypes, ReaderTypes
<1>2. PhaseInv' /\ MetaInv'
  BY DEF RecordingInv, PhaseInv, MetaInv, Early, HasMeta, FileMeta
<1>3. Got' = Got /\ LinesNow' = LinesNow
  BY DEF Got, LinesNow
<1>4. OrderInv' /\ EventsTrue'
  BY <1>3 DEF RecordingInv, OrderInv, EventsTrue
<1>5. IntactInv'
  BY <1>3 DEF RecordingInv, IntactInv, LeftEarly, FolderThere, LogThere, LogOpen, InLog, Answered, HasMeta, FileMeta
<1> QED
  BY <1>1, <1>2, <1>4, <1>5 DEF RecordingInv

LEMMA NameToolStep == ASSUME RecordingInv, NameTool, UNCHANGED reader PROVE RecordingInv'
BY NothingChanges DEF NameTool, Fine

(* The files are as they were, and there is no error. *)
LEMMA QuietLateStep ==
  ASSUME RecordingInv, at \notin {"new", "metadata", "metadata_text", "log", "request_newline"}, at' \in Stages \ Starts,
         UNCHANGED <<exchange, reader, channel, writer, folder>>, errors' = errors,
         stream' \in StreamSet, Got' = Got, stream.polled <= stream'.polled, stream'.polled <= Len(exchange.items),
         \/ stream' = stream
         \/ at = "streaming" /\ at' = "streaming" /\ (stream'.failed = TRUE \/ stream'.failed = stream.failed),
         at' = at \/ at # "ended", at' # "streaming" \/ at = "streaming", at' # "response",
         at' # "response_newline" \/ at = "response_newline", at = "gone" => at' = "gone",
         at # "response_newline" \/ at' = at \/ at' = "gone",
         closing' \in [step : {"none", "spawned", "written"}, meta : MetaSet],
         closing'.meta = closing.meta \/ TrueOf(closing'.meta, exchange, stream', at'),
         closing'.meta = closing.meta \/ closing'.meta.success # TRUE \/ exchange.streams = TRUE,
         exchange.streams # TRUE /\ closing'.step # "none" => at' = "closing"
  PROVE  RecordingInv'
<1>1. FolderTypes /\ errors \in Nat /\ stream.polled \in Nat
  BY LateFacts
<1>2. /\ FolderTypes' /\ LinesNow' = LinesNow /\ (HasMeta' <=> HasMeta) /\ FileMeta' = FileMeta
      /\ (FolderThere' <=> FolderThere) /\ (LogThere' <=> LogThere) /\ (LogOpen' <=> LogOpen)
  BY <1>1, FilesStay
<1>3. errors' \in Nat /\ errors <= errors'
  BY <1>1
<1>4. ASSUME errors' = 0, LogOpen', reader.is \in {"idle", "metadata"}
      PROVE  (LogOpen /\ at' = at) \/ (LogOpen /\ at' = "gone" /\ stream'.polled = 0) \/ (LogOpen /\ writer' = "line")
  <2>1. writer = "line" \/ at = "response_newline" \/ LeftEarly
    BY <1>2, <1>4, IntactFacts
  <2>2. CASE at = "response_newline"
    <3>1. exchange.streams # TRUE
      BY <2>2 DEF RecordingInv, PhaseInv
    <3>2. stream' = stream
      BY <2>2
    <3>3. ~(stream.polled > 0)
      BY <3>1 DEF RecordingInv, PhaseInv
    <3>4. stream.polled = 0
      BY <1>1, <3>3
    <3> QED
      BY <1>2, <1>4, <2>2, <3>2, <3>4
  <2>3. CASE LeftEarly
    <3>1. at = "gone" /\ stream.polled = 0
      BY <2>3 DEF LeftEarly
    <3> QED
      BY <1>2, <1>4, <3>1
  <2>4. CASE writer = "line"
    BY <1>2, <1>4, <2>4
  <2> QED
    BY <2>1, <2>2, <2>3, <2>4
<1>5. /\ at \notin {"new", "metadata", "metadata_text", "log"} /\ at' \in Stages /\ at' \notin Starts
      /\ UNCHANGED <<exchange, reader, channel>> /\ writer' = writer
  OBVIOUS
<1> QED
  BY <1>1, <1>2, <1>3, <1>4, <1>5, LateStep

LEMMA GotTheSame ==
  ASSUME exchange' = exchange, stream'.polled = stream.polled
  PROVE  Got' = Got
BY DEF Got

LEMMA ProviderFailsStep == ASSUME RecordingInv, Answer, ~exchange.ok, UNCHANGED reader PROVE RecordingInv'
<1>1. PICK m : m = WithError(NewMetadata(FALSE))
  OBVIOUS
<1>2. m \in MetaSet /\ m.success # TRUE /\ m.failed = TRUE
  BY <1>1, NewMeta
<1>3. /\ at = "ask" /\ at' = "closing" /\ closing' = [step |-> "spawned", meta |-> m] /\ errors' = errors
      /\ UNCHANGED <<exchange, stream, reader, channel, writer, folder>>
  BY <1>1 DEF Answer, Fine
<1>4. exchange.ok # TRUE
  OBVIOUS
<1>5. TrueOf(closing'.meta, exchange, stream', at')
  BY <1>2, <1>3, <1>4 DEF TrueOf
<1>6. closing' \in [step : {"none", "spawned", "written"}, meta : MetaSet] /\ closing'.meta.success # TRUE
  BY <1>2, <1>3
<1>7. at' \in Stages \ Starts /\ Got' = Got
  BY <1>3, GotTheSame DEF Stages, Starts
<1> QED
  BY <1>3, <1>5, <1>6, <1>7, LateFacts, QuietLateStep

LEMMA StreamBegun ==
  ASSUME RecordingInv, at = "streaming"
  PROVE  ~Early /\ at \notin Starts /\ exchange.streams = TRUE /\ exchange.ok = TRUE
BY DEF RecordingInv, PhaseInv, Early, Starts

LEMMA PollErrorStep == ASSUME RecordingInv, PollError, UNCHANGED reader PROVE RecordingInv'
<1>1. PICK m : m = WithError(NewMetadata(TRUE))
  OBVIOUS
<1>2. m \in MetaSet /\ m.success # TRUE /\ m.failed = TRUE
  BY <1>1, NewMeta
<1>3. PICK n \in Nat : n = stream.polled /\ n <= Len(exchange.items) /\ exchange.items \in Seq(Items)
  BY LateFacts
<1>4. /\ at = "streaming" /\ at' = at /\ closing' = [step |-> "spawned", meta |-> m] /\ errors' = errors
      /\ UNCHANGED <<exchange, reader, channel, writer, folder>>
      /\ stream' = [stream EXCEPT !.polled = n + 1, !.failed = TRUE]
      /\ Ahead # << >> /\ Head(Ahead) = "error"
  BY <1>1, <1>3 DEF PollError, Fine
<1>5. n + 1 <= Len(exchange.items) /\ exchange.items[n + 1] = "error"
  <2>1. Ahead = SubSeq(exchange.items, n + 1, Len(exchange.items))
    BY <1>3 DEF Ahead
  <2> QED
    BY <1>3, <1>4, <2>1
<1>6. stream' \in StreamSet /\ stream'.polled = n + 1 /\ stream'.failed = TRUE
  <2>1. PICK s \in StreamSet : s = stream
    BY LateFacts
  <2>2. PICK k \in Nat : k = n + 1
    BY <1>3
  <2>3. stream' = [s EXCEPT !.polled = k, !.failed = TRUE]
    BY <1>4, <2>1, <2>2
  <2>4. stream' \in StreamSet /\ stream'.polled = k /\ stream'.failed = TRUE
    BY <2>3 DEF StreamSet
  <2> QED
    BY <2>2, <2>4
<1>7. Got' = Got
  <2>1. Got = {i \in 1 .. n : exchange.items[i] # "error"} /\ Got' = {i \in 1 .. n + 1 : exchange.items[i] # "error"}
    BY <1>3, <1>4, <1>6 DEF Got
  <2> QED
    BY <1>3, <1>5, <2>1
<1>8. exchange.streams = TRUE
  BY <1>4, StreamBegun
<1>9. TrueOf(closing'.meta, exchange, stream', at') /\ closing'.meta.success # TRUE
  BY <1>2, <1>4, <1>6 DEF TrueOf
<1>10. closing' \in [step : {"none", "spawned", "written"}, meta : MetaSet]
  BY <1>2, <1>4
<1>11. at' \in Stages \ Starts /\ n <= n + 1
  BY <1>3, <1>4 DEF Stages, Starts
<1> QED
  BY <1>3, <1>4, <1>5, <1>6, <1>7, <1>8, <1>9, <1>10, <1>11, QuietLateStep

LEMMA PollEndStep == ASSUME RecordingInv, PollEnd, UNCHANGED reader PROVE RecordingInv'
<1>1. /\ at = "streaming" /\ at' = "ended" /\ errors' = errors /\ Ahead = << >>
      /\ UNCHANGED <<exchange, reader, channel, writer, folder, stream>>
      /\ closing' = IF stream.failed THEN closing
                    ELSE [step |-> "spawned", meta |-> WithSuccess(NewMetadata(TRUE), stream.usage, stream.finish)]
  BY DEF PollEnd, Fine
<1>2. stream.usage \in BOOLEAN /\ stream.finish \in BOOLEAN /\ stream.failed \in BOOLEAN
  BY LateFacts DEF StreamSet
<1>3. PICK m : m = WithSuccess(NewMetadata(TRUE), stream.usage, stream.finish)
  OBVIOUS
<1>4. m \in MetaSet /\ m.success = TRUE /\ m.failed # TRUE /\ m.streams = TRUE
  <2>1. PICK u \in BOOLEAN, f \in BOOLEAN : u = stream.usage /\ f = stream.finish
    BY <1>2
  <2>2. m = WithSuccess(NewMetadata(TRUE), u, f)
    BY <1>3, <2>1
  <2> QED
    BY <2>2, NewMeta
<1>5. exchange.streams = TRUE
  BY <1>1, StreamBegun
<1>6. at' \in Stages \ Starts /\ Got' = Got
  BY <1>1, GotTheSame DEF Stages, Starts
<1>7. CASE stream.failed = TRUE
  <2>1. closing' = closing
    BY <1>1, <1>7
  <2> QED
    BY <1>1, <1>5, <1>6, <2>1, LateFacts, QuietLateStep
<1>8. CASE stream.failed # TRUE
  <2>1. closing' = [step |-> "spawned", meta |-> m]
    BY <1>1, <1>2, <1>3, <1>8
  <2>2. closing' \in [step : {"none", "spawned", "written"}, meta : MetaSet] /\ closing'.meta = m
    BY <1>4, <2>1
  <2>3. stream.polled = Len(exchange.items)
    <3>1. PICK n \in Nat : n = stream.polled /\ n <= Len(exchange.items) /\ exchange.items \in Seq(Items)
      BY LateFacts
    <3>2. SubSeq(exchange.items, n + 1, Len(exchange.items)) = << >>
      BY <1>1, <3>1 DEF Ahead
    <3>3. PICK l \in Nat : l = Len(exchange.items)
      BY <3>1
    <3>4. l - n \in Nat /\ Len(SubSeq(exchange.items, n + 1, l)) = l - n
      BY <3>1, <3>3
    <3>5. Len(SubSeq(exchange.items, n + 1, l)) = 0
      BY <3>2, <3>3
    <3> QED
      BY <3>1, <3>3, <3>4, <3>5
  <2>4. exchange.ok = TRUE
    BY <1>1, StreamBegun
  <2>5. TrueOf(m, exchange, stream, "ended")
    BY <1>4, <1>5, <1>8, <2>3, <2>4 DEF TrueOf
  <2> QED
    BY <1>1, <1>5, <1>6, <2>2, <2>5, LateFacts, QuietLateStep
<1> QED
  BY <1>7, <1>8

LEMMA LeaveLateStep == ASSUME RecordingInv, ~Early, Leave, UNCHANGED reader PROVE RecordingInv'
<1>1. /\ at # "ended" /\ at' = "gone" /\ errors' = errors
      /\ closing' = IF exchange.streams THEN closing ELSE Closed
      /\ UNCHANGED <<exchange, stream, reader, channel, writer, folder>>
  BY DEF Leave, Fine
<1>2. exchange.streams \in BOOLEAN /\ at \notin {"new", "metadata", "metadata_text", "log", "request_newline"}
  BY LateFacts DEF Early, Starts
<1>3. at' \in Stages \ Starts /\ Got' = Got
  BY <1>1, GotTheSame DEF Stages, Starts
<1>4. CASE exchange.streams = TRUE
  <2>1. closing' = closing
    BY <1>1, <1>4
  <2> QED
    BY <1>1, <1>2, <1>3, <1>4, <2>1, LateFacts, QuietLateStep
<1>5. CASE exchange.streams # TRUE
  <2>1. closing' = Closed
    BY <1>1, <1>2, <1>5
  <2>2. /\ closing' \in [step : {"none", "spawned", "written"}, meta : MetaSet] /\ closing'.step = "none"
        /\ closing'.meta.success # TRUE /\ closing'.meta.failed # TRUE
    BY <2>1, ClosedIs
  <2>3. TrueOf(closing'.meta, exchange, stream', at')
    BY <2>2 DEF TrueOf
  <2> QED
    BY <1>1, <1>2, <1>3, <2>2, <2>3, LateFacts, QuietLateStep
<1> QED
  BY <1>4, <1>5

LEMMA LeaveStep == ASSUME RecordingInv, Leave, UNCHANGED reader PROVE RecordingInv'
BY LeaveEarlyStep, LeaveLateStep

LEMMA NewlineStep ==
  ASSUME RecordingInv, ~Early, WriteNewline, UNCHANGED <<exchange, stream, channel, reader>>,
         \/ at = "response_newline" /\ at' = "closing" /\ writer' = writer
         \/ at' = at /\ writer' = "none" /\ at # "response",
         closing' \in [step : {"none", "spawned", "written"}, meta : MetaSet],
         closing'.meta = closing.meta \/ TrueOf(closing'.meta, exchange, stream', at'),
         closing'.meta = closing.meta \/ at = "response_newline",
         exchange.streams # TRUE /\ closing'.step # "none" => at' = "closing"
  PROVE  RecordingInv'
<1>1. FolderTypes /\ errors \in Nat
  BY LateFacts
<1>2. /\ FolderTypes' /\ errors' \in Nat /\ errors <= errors'
      /\ (FolderThere' <=> FolderThere) /\ (LogThere' <=> LogThere) /\ (HasMeta' <=> HasMeta) /\ FileMeta' = FileMeta
      /\ LinesNow' = LinesNow /\ (errors' = 0 => ~LogOpen')
  BY <1>1, NewlineFacts
<1>3. at' \in Stages /\ at' \notin Starts /\ Got' = Got
  BY LateFacts, GotTheSame DEF Stages, Starts
<1>4. at \notin {"new", "metadata", "metadata_text", "log"} /\ stream' = stream
  BY LateFacts
<1> QED
  BY <1>2, <1>3, <1>4, LateFacts, LateStep

(* The answer of a send. *)
LEMMA AnswerFacts ==
  ASSUME RecordingInv, at \in {"response", "response_newline"}
  PROVE  /\ ~Early /\ exchange.ok = TRUE /\ exchange.streams = FALSE /\ stream.polled = 0 /\ stream.failed # TRUE
         /\ channel = << >> /\ writer = "none" /\ Got = {} /\ closing.step = "none"
<1>1. ~Early
  BY DEF Early, Starts
<1>2. exchange.ok = TRUE /\ exchange.streams = FALSE
  BY LateFacts DEF RecordingInv, PhaseInv
<1>3. ~(stream.polled > 0) /\ stream.failed # TRUE /\ closing.step = "none"
  BY <1>2 DEF RecordingInv, PhaseInv
<1>4. stream.polled = 0
  BY <1>3, LateFacts
<1> QED
  BY <1>1, <1>2, <1>3, <1>4, NothingPolled DEF RecordingInv, PhaseInv

LEMMA SuccessIsTrue ==
  ASSUME RecordingInv, at \in {"response", "response_newline"}, NEW m, m = WithSuccess(NewMetadata(FALSE), TRUE, TRUE),
         UNCHANGED stream
  PROVE  /\ m \in MetaSet /\ m.success = TRUE
         /\ TrueOf(m, exchange, stream', at')
         /\ [step |-> "spawned", meta |-> m] \in [step : {"none", "spawned", "written"}, meta : MetaSet]
<1>1. m \in MetaSet /\ m.success = TRUE /\ m.failed # TRUE /\ m.streams = FALSE
  BY NewMeta
<1>2. exchange.ok = TRUE /\ exchange.streams = FALSE /\ stream.failed # TRUE
  BY AnswerFacts
<1>3. TrueOf(m, exchange, stream', at')
  BY <1>1, <1>2 DEF TrueOf
<1> QED
  BY <1>1, <1>3

LEMMA EndResponseStep == ASSUME RecordingInv, EndResponse, UNCHANGED reader PROVE RecordingInv'
<1>1. PICK m : m = WithSuccess(NewMetadata(FALSE), TRUE, TRUE)
  OBVIOUS
<1>2. /\ at = "response_newline" /\ at' = "closing" /\ WriteNewline /\ writer' = writer
      /\ closing' = [step |-> "spawned", meta |-> m]
      /\ UNCHANGED <<exchange, stream, channel, reader>>
  BY <1>1 DEF EndResponse, Goes
<1>3. TrueOf(m, exchange, stream', at') /\ closing' \in [step : {"none", "spawned", "written"}, meta : MetaSet]
  BY <1>1, <1>2, SuccessIsTrue
<1>4. closing'.meta = m
  BY <1>2
<1>5. ~Early
  BY <1>2, AnswerFacts
<1> QED
  BY <1>2, <1>3, <1>4, <1>5, NewlineStep

LEMMA EndEventStep == ASSUME RecordingInv, EndEvent, UNCHANGED reader PROVE RecordingInv'
<1>1. /\ writer = "line" /\ writer' = "none" /\ WriteNewline
      /\ UNCHANGED <<exchange, at, stream, channel, closing, reader>>
  BY DEF EndEvent
<1>2. stream.polled # 0
  BY <1>1 DEF RecordingInv, PhaseInv
<1>3. ~Early /\ at # "response"
  BY <1>2, AnswerFacts DEF RecordingInv, PhaseInv
<1>4. exchange.streams # TRUE /\ closing.step # "none" => at = "closing"
  BY DEF RecordingInv, PhaseInv
<1> QED
  BY <1>1, <1>3, <1>4, LateFacts, NewlineStep

(* Of a text that is written, what the invariant needs. *)
LEMMA TextFacts ==
  ASSUME RecordingInv, NEW x \in Int, WriteText(x)
  PROVE  /\ FolderTypes' /\ errors' \in Nat /\ errors <= errors' /\ Adds(LinesNow', LinesNow, x)
         /\ (FolderThere' <=> FolderThere) /\ (LogThere' <=> LogThere) /\ (HasMeta' <=> HasMeta) /\ FileMeta' = FileMeta
         /\ (errors' = 0 => errors = 0)
<1>1. FolderTypes /\ errors \in Nat
  BY LateFacts
<1>2. /\ FolderTypes' /\ errors' \in Nat /\ errors <= errors'
      /\ folder'.there = folder.there /\ folder'.metadata = folder.metadata /\ folder'.log.is = folder.log.is
      /\ Adds(LinesNow', LinesNow, x)
  BY <1>1, WriteTextIs
<1> QED
  BY <1>1, <1>2 DEF FolderThere, LogThere, HasMeta, FileMeta

(* Without errors the text becomes a line of its own. *)
LEMMA WholeTextFacts ==
  ASSUME RecordingInv, NEW x \in Int, WriteText(x), errors' = 0, LogThere, ~LogOpen,
         \A i \in DOMAIN LinesNow : Parses(LinesNow[i])
  PROVE  /\ TextWritten
         /\ \A i \in DOMAIN LinesNow' : Parses(LinesNow'[i])
         /\ \A y \in Int : InLog(y) => InLog(y)'
         /\ InLog(x)'
<1>1. FolderTypes /\ errors \in Nat
  BY LateFacts
<1>2. PICK new : new = [of |-> <<x>>, cut |-> FALSE]
  OBVIOUS
<1>3. PICK ls : ls = LinesNow'
  OBVIOUS
<1>4. TextWritten /\ ls = Append(LinesNow, new)
  BY <1>1, <1>2, <1>3, WholeTextIs DEF LogThere, LogOpen
<1>5. /\ \A i \in DOMAIN ls : ls[i] = new \/ (i \in DOMAIN LinesNow /\ ls[i] = LinesNow[i])
      /\ \A i \in DOMAIN LinesNow : i \in DOMAIN ls /\ ls[i] = LinesNow[i]
      /\ \E i \in DOMAIN ls : ls[i].of = <<x>>
      /\ Parses(new)
  BY <1>1, <1>2, <1>4, LinesGrow
<1>6. \A i \in DOMAIN ls : Parses(ls[i])
  BY <1>5
<1>7. ASSUME NEW y \in Int, InLog(y) PROVE \E i \in DOMAIN ls : ls[i].of = <<y>>
  BY <1>5, <1>7 DEF InLog
<1> QED
  BY <1>3, <1>4, <1>5, <1>6, <1>7 DEF InLog

LEMMA WriteResponseStep == ASSUME RecordingInv, WriteResponse, UNCHANGED reader PROVE RecordingInv'
<1>1. PICK m : m = WithSuccess(NewMetadata(FALSE), TRUE, TRUE)
  OBVIOUS
<1>2. /\ at = "response" /\ WriteText(-1) /\ UNCHANGED <<exchange, stream, channel, writer, reader>>
      /\ at' = IF TextWritten THEN "response_newline" ELSE "closing"
      /\ closing' = IF TextWritten THEN closing ELSE [step |-> "spawned", meta |-> m]
  BY <1>1 DEF WriteResponse
<1>3. /\ ~Early /\ exchange.ok = TRUE /\ exchange.streams = FALSE /\ stream.polled = 0 /\ stream.failed # TRUE
      /\ channel = << >> /\ writer = "none" /\ Got = {} /\ closing.step = "none"
  BY <1>2, AnswerFacts
<1>4. /\ m \in MetaSet /\ m.success = TRUE /\ TrueOf(m, exchange, stream', at')
      /\ [step |-> "spawned", meta |-> m] \in [step : {"none", "spawned", "written"}, meta : MetaSet]
  BY <1>1, <1>2, SuccessIsTrue
<1>5. /\ FolderTypes' /\ errors' \in Nat /\ errors <= errors' /\ Adds(LinesNow', LinesNow, -1)
      /\ (FolderThere' <=> FolderThere) /\ (LogThere' <=> LogThere) /\ (HasMeta' <=> HasMeta) /\ FileMeta' = FileMeta
      /\ (errors' = 0 => errors = 0)
  <2>1. -1 \in Int
    OBVIOUS
  <2> QED
    BY <1>2, <2>1, TextFacts
<1>6. Got' = Got
  BY <1>2, GotTheSame
<1>7. at' \in {"response_newline", "closing"}
  BY <1>2
<1>8. /\ closing' \in [step : {"none", "spawned", "written"}, meta : MetaSet]
      /\ closing'.meta = closing.meta \/ closing'.meta = m
      /\ closing'.step # "none" => at' = "closing"
  <2>1. CASE TextWritten
    BY <1>2, <1>3, <2>1, LateFacts
  <2>2. CASE ~TextWritten
    BY <1>2, <1>4, <2>2
  <2> QED
    BY <2>1, <2>2
<1>9. RecordingTypes'
  <2>1. at' \in Stages
    BY <1>7 DEF Stages
  <2> QED
    BY <1>2, <1>5, <1>8, <2>1 DEF RecordingInv, RecordingTypes, CallTypes, ReaderTypes
<1>10. PhaseInv'
  <2>1. ~Early' /\ at' # "streaming"
    BY <1>7 DEF Early, Starts
  <2>2. stream'.polled <= Len(exchange'.items) /\ ~(stream'.polled > 0)
    BY <1>2, <1>3, LateFacts
  <2> QED
    BY <1>2, <1>3, <1>8, <2>1, <2>2 DEF PhaseInv
<1>11. MetaInv'
  BY <1>2, <1>4, <1>5, <1>8, MetaStays
<1>12. OrderInv'
  <2>1. \A j, y \in Int : Has(LinesNow', j, y) => Has(LinesNow, j, y) \/ y = -1
    BY <1>5 DEF Adds
  <2> QED
    BY <1>2, <1>6, <2>1, OrderStays
<1>13. EventsTrue'
  BY <1>2, <1>5, <1>6, EventsStay
<1>14. IntactInv'
  <2> SUFFICES ASSUME errors' = 0, reader.is \in {"idle", "metadata"} PROVE IntactInv'
    BY <1>2 DEF IntactInv
  <2>1. errors = 0
    BY <1>5
  <2>2. /\ LogThere /\ FolderThere /\ ~LogOpen
        /\ \A i \in DOMAIN LinesNow : Parses(LinesNow[i])
    BY <1>2, <1>3, <2>1, IntactFacts DEF LeftEarly
  <2>3. /\ TextWritten
        /\ \A i \in DOMAIN LinesNow' : Parses(LinesNow'[i])
        /\ InLog(-1)'
    <3>1. -1 \in Int
      OBVIOUS
    <3> QED
      BY <1>2, <2>2, <3>1, WholeTextFacts
  <2>4. at' = "response_newline"
    BY <1>2, <2>3
  <2>5. Answered(closing.meta)' /\ Answered(reader.meta)' /\ (HasMeta' => Answered(FileMeta)')
    BY <2>3 DEF Answered
  <2> QED
    BY <1>3, <1>5, <1>6, <2>2, <2>3, <2>4, <2>5 DEF IntactInv
<1> QED
  BY <1>9, <1>10, <1>11, <1>12, <1>13, <1>14 DEF RecordingInv

(***************************************************************************)
(* complete_session.                                                       *)
(***************************************************************************)
LEMMA FinishFacts ==
  ASSUME RecordingInv, closing.step # "none", NEW to \in {"none", "written"}, Finish(to), UNCHANGED <<exchange, stream>>
  PROVE  /\ at \notin Starts /\ at \notin {"new", "metadata", "metadata_text", "log", "response", "response_newline"}
         /\ at' \in Stages \ Starts /\ at' \notin {"response", "response_newline"} /\ Got' = Got
         /\ at' = at \/ (at = "closing" /\ at' = "ended")
         /\ closing' \in [step : {"none", "spawned", "written"}, meta : MetaSet]
         /\ closing'.meta = closing.meta \/ (closing'.meta.success # TRUE /\ TrueOf(closing'.meta, exchange, stream', at'))
         /\ exchange.streams # TRUE /\ closing'.step # "none" => at' = "closing"
<1>1. /\ at \notin Starts /\ at \notin {"new", "metadata", "metadata_text", "log", "response", "response_newline"}
      /\ exchange.streams # TRUE => at = "closing"
  BY ClosedIs DEF RecordingInv, PhaseInv, Early, Starts
<1>2. at \in Stages /\ exchange.streams \in BOOLEAN /\ closing \in [step : {"none", "spawned", "written"}, meta : MetaSet]
  BY LateFacts
<1>3. /\ at' = at \/ (at = "closing" /\ at' = "ended")
      /\ to = "written" => at' = at
  <2>1. at' = IF to # "written" /\ ~exchange.streams THEN "ended" ELSE at
    BY DEF Finish
  <2>2. exchange.streams = TRUE => at' = at
    BY <2>1
  <2>3. exchange.streams = FALSE => at' = at \/ at' = "ended"
    BY <2>1
  <2>4. to = "written" => at' = at
    BY <2>1
  <2> QED
    BY <1>1, <1>2, <2>2, <2>3, <2>4
<1>4. at' \in Stages \ Starts /\ at' \notin {"response", "response_newline"}
  BY <1>1, <1>2, <1>3 DEF Stages, Starts
<1>5. Got' = Got
  BY GotTheSame
<1>6. CASE to = "written"
  <2>1. closing' = [closing EXCEPT !.step = "written"]
    BY <1>6 DEF Finish
  <2>2. closing' \in [step : {"none", "spawned", "written"}, meta : MetaSet] /\ closing'.meta = closing.meta
    BY <1>2, <2>1
  <2> QED
    BY <1>1, <1>3, <1>4, <1>5, <1>6, <2>2
<1>7. CASE to = "none"
  <2>1. closing' = Closed
    BY <1>7 DEF Finish
  <2>2. /\ closing' \in [step : {"none", "spawned", "written"}, meta : MetaSet] /\ closing'.step = "none"
        /\ closing'.meta.success # TRUE /\ closing'.meta.failed # TRUE
    BY <2>1, ClosedIs
  <2>3. TrueOf(closing'.meta, exchange, stream', at')
    BY <2>2 DEF TrueOf
  <2> QED
    BY <1>1, <1>3, <1>4, <1>5, <2>2, <2>3
<1> QED
  BY <1>6, <1>7

LEMMA FinishStep ==
  ASSUME RecordingInv, closing.step # "none", NEW to \in {"none", "written"}, Finish(to),
         UNCHANGED <<exchange, stream, channel, writer, reader>>, errors' \in Nat, errors <= errors',
         FolderTypes', LinesNow' = LinesNow, FolderThere' <=> FolderThere, LogThere' <=> LogThere, LogOpen' <=> LogOpen,
         HasMeta' => FileMeta' = closing.meta \/ (HasMeta /\ FileMeta' = FileMeta)
  PROVE  RecordingInv'
<1>1. /\ at \notin Starts /\ at \notin {"new", "metadata", "metadata_text", "log", "response", "response_newline"}
      /\ at' \in Stages \ Starts /\ at' \notin {"response", "response_newline"} /\ Got' = Got
      /\ at' = at \/ (at = "closing" /\ at' = "ended")
      /\ closing' \in [step : {"none", "spawned", "written"}, meta : MetaSet]
      /\ closing'.meta = closing.meta \/ (closing'.meta.success # TRUE /\ TrueOf(closing'.meta, exchange, stream', at'))
      /\ exchange.streams # TRUE /\ closing'.step # "none" => at' = "closing"
  BY FinishFacts
<1>2. ASSUME errors' = 0, reader.is \in {"idle", "metadata"}
      PROVE  ~LogOpen' \/ (LogOpen /\ writer' = writer /\ at' = at) \/ (LogOpen /\ writer' = "line")
  <2>1. errors = 0
    BY <1>2, LateFacts
  <2>2. CASE at' = at
    BY <2>2
  <2>3. CASE at = "closing"
    <3>1. ~LogOpen \/ writer = "line"
      BY <1>2, <2>1, <2>3, IntactFacts DEF LeftEarly
    <3> QED
      BY <3>1
  <2> QED
    BY <1>1, <2>2, <2>3
<1>3. stream' = stream /\ stream' \in StreamSet /\ stream'.polled <= Len(exchange.items) /\ stream.polled <= stream'.polled
  BY LateFacts
<1>4. at' # "streaming" \/ at = "streaming"
  BY <1>1
<1> QED
  BY <1>1, <1>2, <1>3, <1>4, LateStep

LEMMA BeginClosingStep == ASSUME RecordingInv, BeginClosing, UNCHANGED reader PROVE RecordingInv'
<1>1. closing.step # "none" /\ UNCHANGED <<exchange, stream, channel, writer, reader>>
  BY DEF BeginClosing
<1>2. FolderTypes /\ errors \in Nat
  BY LateFacts
<1>3. CASE Truncate /\ Finish("written") /\ Fine
  <2>1. /\ FolderTypes' /\ folder.there = TRUE /\ folder'.there = folder.there /\ folder'.log = folder.log
        /\ folder'.metadata.is = "torn"
    BY <1>2, <1>3, TruncateIs
  <2>2. /\ (FolderThere' <=> FolderThere) /\ LinesNow' = LinesNow /\ (LogOpen' <=> LogOpen) /\ ~HasMeta'
        /\ (LogThere' <=> LogThere)
    BY <2>1 DEF FolderThere, LinesNow, LogOpen, HasMeta, LogThere
  <2>3. errors' \in Nat /\ errors <= errors'
    BY <1>2, <1>3 DEF Fine
  <2> QED
    BY <1>1, <1>3, <2>1, <2>2, <2>3, FinishStep
<1>4. CASE UNCHANGED folder /\ Finish("none") /\ (Fine \/ Error)
  <2>1. errors' \in Nat /\ errors <= errors'
    BY <1>2, <1>4, ErrorsOnlyRise
  <2>2. /\ FolderTypes' /\ LinesNow' = LinesNow /\ (HasMeta' <=> HasMeta) /\ FileMeta' = FileMeta
        /\ (FolderThere' <=> FolderThere) /\ (LogThere' <=> LogThere) /\ (LogOpen' <=> LogOpen)
    BY <1>2, <1>4, FilesStay
  <2> QED
    BY <1>1, <1>4, <2>1, <2>2, FinishStep
<1> QED
  BY <1>3, <1>4 DEF BeginClosing

LEMMA EndClosingStep == ASSUME RecordingInv, EndClosing, UNCHANGED reader PROVE RecordingInv'
<1>1. closing.step # "none" /\ Finish("none") /\ UNCHANGED <<exchange, stream, channel, writer, reader>>
  BY DEF EndClosing
<1>2. FolderTypes /\ errors \in Nat /\ closing.meta \in MetaSet
  BY LateFacts
<1>3. errors' \in Nat /\ errors <= errors'
  BY <1>2, ErrorsOnlyRise DEF EndClosing
<1>4. CASE FillMetadata(closing.meta)
  <2>1. PICK m \in MetaSet : m = closing.meta
    BY <1>2
  <2>2. /\ FolderTypes' /\ folder'.there = folder.there /\ folder'.log = folder.log
        /\ folder'.metadata.is = "full" => folder'.metadata.meta = m
    BY <1>2, <1>4, <2>1, FillIs
  <2>3. /\ (FolderThere' <=> FolderThere) /\ LinesNow' = LinesNow /\ (LogOpen' <=> LogOpen)
        /\ (LogThere' <=> LogThere) /\ (HasMeta' => FileMeta' = closing.meta)
    BY <2>1, <2>2 DEF FolderThere, LinesNow, LogOpen, HasMeta, FileMeta, LogThere
  <2> QED
    BY <1>1, <1>3, <2>2, <2>3, FinishStep
<1>5. CASE UNCHANGED folder
  <2>1. /\ FolderTypes' /\ LinesNow' = LinesNow /\ (HasMeta' <=> HasMeta) /\ FileMeta' = FileMeta
        /\ (FolderThere' <=> FolderThere) /\ (LogThere' <=> LogThere) /\ (LogOpen' <=> LogOpen)
    BY <1>2, <1>5, FilesStay
  <2> QED
    BY <1>1, <1>3, <2>1, FinishStep
<1> QED
  BY <1>4, <1>5 DEF EndClosing

(***************************************************************************)
(* The events of a stream.                                                 *)
(***************************************************************************)
LEMMA OrderFacts ==
  ASSUME RecordingInv
  PROVE  /\ channel \in Seq(Nat \ {0})
         /\ \A i \in DOMAIN channel : channel[i] \in Got /\ \A j \in DOMAIN channel : i < j => channel[i] < channel[j]
         /\ \A j, y \in Int : Has(LinesNow, j, y) /\ y > 0 => y \in Got /\ \A i \in DOMAIN channel : y < channel[i]
         /\ \A i, j, x, y \in Int : Has(LinesNow, i, x) /\ Has(LinesNow, j, y) /\ x > 0 /\ y > 0 /\ i < j => x < y
BY DEF RecordingInv, OrderInv, RecordingTypes, CallTypes

LEMMA PollEventStep == ASSUME RecordingInv, PollEvent, UNCHANGED reader PROVE RecordingInv'
<1>1. PICK n \in Nat : n = stream.polled /\ n <= Len(exchange.items) /\ exchange.items \in Seq(Items)
  BY LateFacts
<1>2. PICK s \in StreamSet : s = stream
  BY LateFacts
<1>3. PICK item : item = Head(Ahead)
  OBVIOUS
<1>4. PICK id \in BOOLEAN : id = (s.id \/ item = "id")
  OBVIOUS
<1>5. PICK name \in BOOLEAN : name = (s.name \/ item = "name")
  OBVIOUS
<1>6. PICK usage \in BOOLEAN : usage = (s.usage \/ item = "usage")
  OBVIOUS
<1>7. PICK finish \in BOOLEAN : finish = (s.finish \/ item = "end")
  OBVIOUS
<1>8. PICK k \in Nat : k = n + 1
  OBVIOUS
<1>9. /\ at = "streaming" /\ Ahead # << >> /\ item # "error" /\ errors' = errors
      /\ channel' = Append(channel, k)
      /\ UNCHANGED <<exchange, at, writer, closing, folder, reader>>
  BY <1>1, <1>3, <1>8 DEF PollEvent, Fine
<1>10. stream' = [s EXCEPT !.polled = k, !.id = id, !.name = name, !.usage = usage, !.finish = finish]
  BY <1>1, <1>2, <1>3, <1>4, <1>5, <1>6, <1>7, <1>8 DEF PollEvent
<1>11. stream' \in StreamSet /\ stream'.polled = k /\ stream'.failed = stream.failed
  BY <1>2, <1>10 DEF StreamSet
<1>12. n + 1 <= Len(exchange.items) /\ exchange.items[n + 1] # "error"
  <2>1. Ahead = SubSeq(exchange.items, n + 1, Len(exchange.items))
    BY <1>1 DEF Ahead
  <2> QED
    BY <1>1, <1>3, <1>9, <2>1
<1>13. Got' = Got \cup {n + 1} /\ \A i \in Got : i \in Int /\ i < n + 1
  <2>1. Got = {i \in 1 .. n : exchange.items[i] # "error"} /\ Got' = {i \in 1 .. n + 1 : exchange.items[i] # "error"}
    BY <1>1, <1>8, <1>9, <1>11 DEF Got
  <2> QED
    BY <1>1, <1>12, <2>1
<1>14. exchange.streams = TRUE /\ exchange.ok = TRUE /\ ~Early
  BY <1>9, StreamBegun
<1>15. PICK c \in Seq(Nat \ {0}) : c = channel
  BY OrderFacts
<1>16. PICK l \in Nat : l = Len(c) /\ DOMAIN c = 1 .. l
  OBVIOUS
<1>17. /\ channel' \in Seq(Nat \ {0}) /\ DOMAIN channel' = 1 .. l + 1 /\ channel'[l + 1] = n + 1
       /\ \A i \in 1 .. l : channel'[i] = channel[i]
  <2>1. n + 1 \in Nat \ {0} /\ channel' = Append(c, n + 1)
    BY <1>1, <1>8, <1>9, <1>15
  <2> QED
    BY <1>15, <1>16, <2>1, AppendIs
<1>18. FolderTypes /\ errors \in Nat /\ errors <= errors
  BY LateFacts
<1>19. /\ FolderTypes' /\ LinesNow' = LinesNow /\ (HasMeta' <=> HasMeta) /\ FileMeta' = FileMeta
       /\ (FolderThere' <=> FolderThere) /\ (LogThere' <=> LogThere) /\ (LogOpen' <=> LogOpen)
  BY <1>9, <1>18, FilesStay
<1>20. RecordingTypes'
  BY <1>9, <1>11, <1>17, <1>19 DEF RecordingInv, RecordingTypes, CallTypes, ReaderTypes
<1>21. PhaseInv'
  <2>1. ~Early' /\ at' \notin {"response", "response_newline"} /\ at' = "streaming"
    BY <1>9, <1>14 DEF Early, Starts
  <2>2. stream'.polled <= Len(exchange'.items) /\ stream'.polled # 0
    BY <1>1, <1>8, <1>9, <1>11, <1>12
  <2> QED
    BY <1>9, <1>14, <2>1, <2>2 DEF PhaseInv
<1>22. MetaInv'
  BY <1>9, <1>11, <1>19, MetaStays
<1>23. OrderInv'
  <2>1. ASSUME NEW i \in DOMAIN channel'
        PROVE  channel'[i] \in Got' /\ \A j \in DOMAIN channel' : i < j => channel'[i] < channel'[j]
    <3>1. CASE i \in 1 .. l
      <4>1. i \in DOMAIN channel /\ channel'[i] = channel[i] /\ channel[i] \in Got
        BY <1>15, <1>16, <1>17, <3>1, OrderFacts
      <4>2. ASSUME NEW j \in DOMAIN channel', i < j PROVE channel'[i] < channel'[j]
        <5>1. CASE j \in 1 .. l
          BY <1>15, <1>16, <1>17, <3>1, <4>2, <5>1, OrderFacts
        <5>2. CASE j = l + 1
          BY <1>13, <1>17, <4>1, <5>2
        <5> QED
          BY <1>17, <5>1, <5>2
      <4> QED
        BY <1>13, <4>1, <4>2
    <3>2. CASE i = l + 1
      BY <1>13, <1>17, <3>2
    <3> QED
      BY <1>17, <2>1, <3>1, <3>2
  <2>2. ASSUME NEW j \in Int, NEW y \in Int, Has(LinesNow', j, y), y > 0
        PROVE  y \in Got' /\ \A i \in DOMAIN channel' : y < channel'[i]
    <3>1. y \in Got /\ \A i \in DOMAIN channel : y < channel[i]
      BY <1>19, <2>2, OrderFacts
    <3>2. ASSUME NEW i \in DOMAIN channel' PROVE y < channel'[i]
      <4>1. CASE i \in 1 .. l
        BY <1>15, <1>16, <1>17, <3>1, <4>1
      <4>2. CASE i = l + 1
        BY <1>13, <1>17, <3>1, <4>2
      <4> QED
        BY <1>17, <4>1, <4>2
    <3> QED
      BY <1>13, <3>1, <3>2
  <2>3. \A i, j, x, y \in Int : Has(LinesNow', i, x) /\ Has(LinesNow', j, y) /\ x > 0 /\ y > 0 /\ i < j => x < y
    BY <1>19, OrderFacts
  <2> QED
    BY <2>1, <2>2, <2>3 DEF OrderInv
<1>24. EventsTrue'
  <2>1. Got \subseteq Got' /\ \A i \in Got' \ Got, j \in Got : j < i
    BY <1>13
  <2> QED
    BY <1>9, <1>18, <2>1, EventsStay
<1>25. IntactInv'
  <2> SUFFICES ASSUME errors' = 0, reader.is \in {"idle", "metadata"} PROVE IntactInv'
    BY <1>9 DEF IntactInv
  <2>1. errors = 0
    BY <1>9
  <2>2. /\ FolderThere /\ LogThere
        /\ \A i \in DOMAIN LinesNow : Parses(LinesNow[i])
        /\ ~LogOpen \/ writer = "line"
        /\ \A i \in Got : (\E j \in DOMAIN channel : channel[j] = i) \/ InLog(i)
        /\ Answered(closing.meta) /\ Answered(reader.meta)
        /\ HasMeta => Answered(FileMeta)
    BY <1>9, <2>1, IntactFacts DEF LeftEarly
  <2>3. ASSUME NEW i \in Got' PROVE (\E j \in DOMAIN channel' : channel'[j] = i) \/ InLog(i)'
    <3>1. CASE i \in Got
      <4>1. CASE InLog(i)
        BY <1>19, <4>1 DEF InLog
      <4>2. CASE \E j \in DOMAIN channel : channel[j] = i
        BY <1>15, <1>16, <1>17, <4>2
      <4> QED
        BY <2>2, <3>1, <4>1, <4>2
    <3>2. CASE i = n + 1
      BY <1>17, <3>2
    <3> QED
      BY <1>13, <3>1, <3>2
  <2>4. Answered(closing.meta)' /\ Answered(reader.meta)' /\ (HasMeta' => Answered(FileMeta)')
    BY <1>9, <1>14 DEF Answered
  <2> QED
    BY <1>9, <1>19, <2>2, <2>3, <2>4 DEF IntactInv
<1> QED
  BY <1>20, <1>21, <1>22, <1>23, <1>24, <1>25 DEF RecordingInv

LEMMA RecordEventStep == ASSUME RecordingInv, RecordEvent, UNCHANGED reader PROVE RecordingInv'
<1>1. PICK c \in Seq(Nat \ {0}) : c = channel
  BY OrderFacts
<1>2. PICK l \in Nat : l = Len(c) /\ DOMAIN c = 1 .. l /\ l > 0
  BY <1>1 DEF RecordEvent
<1>3. PICK x \in Nat \ {0} : x = c[1] /\ x = Head(c)
  BY <1>2
<1>4. /\ writer = "none" /\ WriteText(x) /\ channel' = Tail(c)
      /\ writer' = IF TextWritten THEN "line" ELSE "none"
      /\ UNCHANGED <<exchange, at, stream, closing, reader>>
  BY <1>1, <1>3 DEF RecordEvent
<1>5. /\ channel' \in Seq(Nat \ {0}) /\ DOMAIN channel' = 1 .. l - 1
      /\ \A i \in 1 .. l - 1 : i \in 1 .. l /\ i + 1 \in 1 .. l /\ channel'[i] = c[i + 1]
  BY <1>2, <1>4
<1>6. /\ FolderTypes' /\ errors' \in Nat /\ errors <= errors' /\ Adds(LinesNow', LinesNow, x)
      /\ (FolderThere' <=> FolderThere) /\ (LogThere' <=> LogThere) /\ (HasMeta' <=> HasMeta) /\ FileMeta' = FileMeta
      /\ (errors' = 0 => errors = 0)
  BY <1>3, <1>4, TextFacts
<1>7. x \in Got /\ \A i \in 2 .. l : x < c[i]
  BY <1>1, <1>2, <1>3, OrderFacts
<1>8. stream.polled # 0 /\ ~Early
  BY <1>1, <1>2 DEF RecordingInv, PhaseInv
<1>9. at \notin {"request_newline", "response_newline", "new", "metadata", "metadata_text", "log"}
  BY <1>8, AnswerFacts DEF Early, Starts
<1>10. Got' = Got
  BY <1>4, GotTheSame
<1>11. RecordingTypes'
  BY <1>4, <1>5, <1>6 DEF RecordingInv, RecordingTypes, CallTypes, ReaderTypes
<1>12. PhaseInv'
  BY <1>4, <1>8 DEF RecordingInv, PhaseInv, Early
<1>13. MetaInv'
  BY <1>4, <1>6, MetaStays
<1>14. Len(LinesNow) \in Nat /\ DOMAIN LinesNow = 1 .. Len(LinesNow) /\ Len(LinesNow') \in Nat
       /\ DOMAIN LinesNow' = 1 .. Len(LinesNow')
  <2>1. FolderTypes
    BY LateFacts
  <2>2. ASSUME FolderTypes PROVE Len(LinesNow) \in Nat /\ DOMAIN LinesNow = 1 .. Len(LinesNow)
    BY <2>2, LinesNowType
  <2>3. folder'.log \in LogSet
    BY <1>6 DEF FolderTypes, FolderSet
  <2>4. LinesNow' \in Seq(LineSet)
    BY <2>3, LogIs DEF LinesNow
  <2> QED
    BY <2>1, <2>2, <2>4
<1>15. \A j, y \in Int : Has(LinesNow', j, y) => Has(LinesNow, j, y) \/ (j = Len(LinesNow') /\ y = x)
  BY <1>6 DEF Adds
<1>16. OrderInv'
  <2>1. ASSUME NEW i \in DOMAIN channel'
        PROVE  channel'[i] \in Got' /\ \A j \in DOMAIN channel' : i < j => channel'[i] < channel'[j]
    <3>1. channel'[i] \in Got
      BY <1>1, <1>2, <1>5, OrderFacts
    <3>2. ASSUME NEW j \in DOMAIN channel', i < j PROVE channel'[i] < channel'[j]
      <4>1. i + 1 \in DOMAIN channel /\ j + 1 \in DOMAIN channel /\ i + 1 < j + 1
        BY <1>1, <1>2, <1>5, <3>2, SMTT(30)
      <4>2. channel[i + 1] < channel[j + 1]
        BY <4>1, OrderFacts
      <4> QED
        BY <1>1, <1>5, <4>2
    <3> QED
      BY <1>10, <3>1, <3>2
  <2>2. ASSUME NEW j \in Int, NEW y \in Int, Has(LinesNow', j, y), y > 0
        PROVE  y \in Got' /\ \A i \in DOMAIN channel' : y < channel'[i]
    <3>1. CASE Has(LinesNow, j, y)
      <4>1. y \in Got /\ \A i \in DOMAIN channel : y < channel[i]
        BY <2>2, <3>1, OrderFacts
      <4> QED
        BY <1>1, <1>2, <1>5, <1>10, <4>1
    <3>2. CASE y = x
      <4>1. \A i \in 1 .. l - 1 : i + 1 \in 2 .. l
        BY <1>2
      <4> QED
        BY <1>5, <1>7, <1>10, <3>2, <4>1
    <3> QED
      BY <1>15, <2>2, <3>1, <3>2
  <2>3. ASSUME NEW i \in Int, NEW j \in Int, NEW y \in Int, NEW z \in Int,
               Has(LinesNow', i, y), Has(LinesNow', j, z), y > 0, z > 0, i < j
        PROVE  y < z
    <3>1. i \in 1 .. Len(LinesNow') /\ j \in 1 .. Len(LinesNow')
      BY <1>14, <2>3 DEF Has
    <3>2. i # Len(LinesNow')
      <4>1. PICK n \in Nat : n = Len(LinesNow')
        BY <1>14
      <4>2. i < j /\ j <= n
        BY <2>3, <3>1, <4>1
      <4> QED
        BY <4>1, <4>2
    <3>3. Has(LinesNow, i, y)
      BY <1>15, <2>3, <3>2
    <3>4. CASE Has(LinesNow, j, z)
      BY <2>3, <3>3, <3>4, OrderFacts
    <3>5. CASE z = x
      BY <1>1, <1>2, <1>3, <2>3, <3>3, <3>5, OrderFacts
    <3> QED
      BY <1>15, <2>3, <3>4, <3>5
  <2> QED
    BY <2>1, <2>2, <2>3 DEF OrderInv
<1>17. EventsTrue'
  BY <1>4, <1>6, <1>10, EventsStay
<1>18. IntactInv'
  <2> SUFFICES ASSUME errors' = 0, reader.is \in {"idle", "metadata"} PROVE IntactInv'
    BY <1>4 DEF IntactInv
  <2>1. errors = 0 /\ ~LeftEarly
    BY <1>6, <1>8 DEF LeftEarly
  <2>2. /\ FolderThere /\ LogThere /\ ~LogOpen
        /\ \A i \in DOMAIN LinesNow : Parses(LinesNow[i])
        /\ \A i \in Got : (\E k \in DOMAIN channel : channel[k] = i) \/ InLog(i)
        /\ Answered(closing.meta) /\ Answered(reader.meta)
        /\ HasMeta => Answered(FileMeta)
    BY <1>4, <1>9, <2>1, IntactFacts
  <2>3. /\ TextWritten
        /\ \A i \in DOMAIN LinesNow' : Parses(LinesNow'[i])
        /\ \A y \in Int : InLog(y) => InLog(y)'
        /\ InLog(x)'
    BY <1>3, <1>4, <2>2, WholeTextFacts
  <2>4. writer' = "line"
    BY <1>4, <2>3
  <2>5. ASSUME NEW i \in Got' PROVE (\E k \in DOMAIN channel' : channel'[k] = i) \/ InLog(i)'
    <3>1. i \in Int /\ i \in Got
      BY <1>10 DEF Got
    <3>2. CASE InLog(i)
      BY <2>3, <3>1, <3>2
    <3>3. ASSUME NEW k \in DOMAIN channel, channel[k] = i
          PROVE  (\E m \in DOMAIN channel' : channel'[m] = i) \/ InLog(i)'
      <4>1. CASE k = 1
        BY <1>1, <1>3, <2>3, <3>3, <4>1
      <4>2. CASE k # 1
        <5>1. k - 1 \in 1 .. l - 1 /\ (k - 1) + 1 = k
          BY <1>1, <1>2, <3>3, <4>2
        <5>2. channel'[k - 1] = i
          BY <1>1, <1>5, <3>3, <5>1
        <5> QED
          BY <1>5, <5>1, <5>2
      <4> QED
        BY <4>1, <4>2
    <3> QED
      BY <2>2, <3>1, <3>2, <3>3
  <2>6. Answered(closing.meta)' /\ Answered(reader.meta)' /\ (HasMeta' => Answered(FileMeta)')
    <3>1. -1 \in Int
      OBVIOUS
    <3>2. InLog(-1) => InLog(-1)'
      BY <2>3, <3>1
    <3> QED
      BY <1>4, <1>6, <2>2, <3>2 DEF Answered
  <2> QED
    BY <1>4, <1>6, <1>9, <2>2, <2>3, <2>4, <2>5, <2>6 DEF IntactInv
<1> QED
  BY <1>11, <1>12, <1>13, <1>16, <1>17, <1>18 DEF RecordingInv

(***************************************************************************)
(* The other client.                                                       *)
(***************************************************************************)
LEMMA ReaderStep ==
  ASSUME RecordingInv, UNCHANGED callVars, Fine, ReaderTypes', FolderTypes', EventsTrue',
         reader'.meta = reader.meta \/ (HasMeta /\ reader'.meta = FileMeta),
         \/ UNCHANGED folder
         \/ LinesNow' = << >> /\ ~HasMeta' /\ reader'.is \notin {"idle", "metadata"},
         reader'.is \in {"idle", "metadata"} => reader.is \in {"idle", "metadata"}
  PROVE  RecordingInv'
<1>1. UNCHANGED <<exchange, at, stream, channel, writer, closing>> /\ errors' = errors
  BY DEF callVars, Fine
<1>2. UNCHANGED folder => /\ LinesNow' = LinesNow /\ (HasMeta' <=> HasMeta) /\ FileMeta' = FileMeta
                          /\ (FolderThere' <=> FolderThere) /\ (LogThere' <=> LogThere) /\ (LogOpen' <=> LogOpen)
  BY DEF LinesNow, HasMeta, FileMeta, FolderThere, LogThere, LogOpen
<1>3. RecordingTypes'
  BY <1>1 DEF RecordingInv, RecordingTypes, CallTypes
<1>4. PhaseInv'
  <2>1. Early' <=> Early
    BY <1>1 DEF Early
  <2>2. HasMeta' => HasMeta /\ FileMeta' = FileMeta
    BY <1>2
  <2>3. PhaseInv
    BY DEF RecordingInv
  <2>4. Early => closing = Closed /\ reader'.meta.success # TRUE /\ (HasMeta' => FileMeta'.success # TRUE)
    BY <2>2, <2>3 DEF PhaseInv
  <2> QED
    BY <1>1, <2>1, <2>3, <2>4 DEF PhaseInv
<1>5. MetaInv'
  <2>1. HasMeta' => HasMeta /\ FileMeta' = FileMeta
    BY <1>2
  <2> QED
    BY <1>1, <2>1 DEF RecordingInv, MetaInv
<1>6. Got' = Got
  BY <1>1, GotTheSame
<1>7. OrderInv'
  <2>1. \A j, y \in Int : Has(LinesNow', j, y) => Has(LinesNow, j, y)
    <3>1. CASE LinesNow' = << >>
      BY <3>1 DEF Has
    <3>2. CASE LinesNow' = LinesNow
      BY <3>2
    <3> QED
      BY <1>2, <3>1, <3>2
  <2> QED
    BY <1>1, <1>6, <2>1 DEF RecordingInv, OrderInv
<1>8. IntactInv'
  <2> SUFFICES ASSUME errors' = 0, reader'.is \in {"idle", "metadata"} PROVE IntactInv'
    BY DEF IntactInv
  <2>1. errors = 0 /\ reader.is \in {"idle", "metadata"} /\ UNCHANGED folder
    BY <1>1
  <2>2. LeftEarly' <=> LeftEarly
    BY <1>1 DEF LeftEarly
  <2>3. \A y \in Int : InLog(y)' <=> InLog(y)
    BY <1>2, <2>1 DEF InLog
  <2>4. -1 \in Int /\ Got \subseteq Int
    BY DEF Got
  <2>5. InLog(-1)' <=> InLog(-1)
    BY <2>3, <2>4
  <2>6. Answered(closing.meta) /\ Answered(reader.meta) /\ (HasMeta => Answered(FileMeta))
    BY <2>1, IntactFacts
  <2>7. Answered(closing.meta)' /\ Answered(reader.meta)' /\ (HasMeta' => Answered(FileMeta)')
    BY <1>1, <1>2, <2>1, <2>5, <2>6 DEF Answered
  <2>8. \A i \in Got' : (\E k \in DOMAIN channel' : channel'[k] = i) \/ InLog(i)'
    BY <1>1, <1>6, <2>1, <2>3, <2>4, IntactFacts
  <2>9. /\ at = "new" \/ LeftEarly \/ FolderThere
        /\ at \in {"new", "metadata", "metadata_text", "log"} \/ LeftEarly \/ LogThere
        /\ \A i \in DOMAIN LinesNow : Parses(LinesNow[i])
        /\ ~LogOpen \/ writer = "line" \/ at \in {"request_newline", "response_newline"} \/ LeftEarly
        /\ at = "response_newline" => InLog(-1)
    BY <2>1, IntactFacts
  <2> QED
    BY <1>1, <1>2, <2>1, <2>2, <2>5, <2>7, <2>8, <2>9 DEF IntactInv
<1> QED
  BY <1>3, <1>4, <1>5, <1>7, <1>8 DEF RecordingInv

ReaderSet == [is : {"idle", "metadata", "session", "listed", "not_listed", "none", "error", "deleting", "deleted"},
              meta : MetaSet, response : BOOLEAN, events : Seq(Int)]

LEMMA ReaderFacts ==
  ASSUME RecordingInv
  PROVE  /\ reader \in ReaderSet /\ FolderTypes /\ folder \in FolderSet
         /\ HasMeta => FileMeta \in MetaSet
<1>1. reader \in ReaderSet /\ FolderTypes
  BY DEF RecordingInv, RecordingTypes, ReaderTypes, ReaderSet
<1>2. folder \in FolderSet /\ folder.metadata \in MetaFiles
  BY <1>1 DEF FolderTypes, FolderSet
<1> QED
  BY <1>1, <1>2, MetaIs DEF HasMeta, FileMeta

(* One word changes. *)
LEMMA WordChanges ==
  ASSUME RecordingInv, NEW w \in {"not_listed", "none", "error", "deleting", "deleted"}, reader' = [reader EXCEPT !.is = w]
  PROVE  ReaderTypes' /\ EventsTrue' /\ reader'.meta = reader.meta /\ reader'.is = w
<1>1. reader \in ReaderSet
  BY ReaderFacts
<1>2. reader' \in ReaderSet /\ reader'.meta = reader.meta /\ reader'.is = w
  BY <1>1 DEF ReaderSet
<1> QED
  BY <1>2 DEF ReaderTypes, ReaderSet, EventsTrue

LEMMA WordStep ==
  ASSUME RecordingInv, UNCHANGED callVars, Fine, UNCHANGED folder,
         NEW w \in {"not_listed", "none", "error", "deleting", "deleted"}, reader' = [reader EXCEPT !.is = w]
  PROVE  RecordingInv'
<1>1. ReaderTypes' /\ EventsTrue' /\ reader'.meta = reader.meta /\ reader'.is = w
  BY WordChanges
<1>2. FolderTypes'
  BY ReaderFacts DEF FolderTypes
<1> QED
  BY <1>1, <1>2, ReaderStep

(* The metadata is read. *)
LEMMA MetaStep ==
  ASSUME RecordingInv, UNCHANGED callVars, Fine, UNCHANGED folder, HasMeta, reader.is = "idle",
         NEW w \in {"metadata", "listed"}, reader' = Reads(w, FileMeta)
  PROVE  RecordingInv'
<1>1. PICK m \in MetaSet : m = FileMeta
  BY ReaderFacts
<1>2. reader' = Reads(w, m)
  BY <1>1
<1>3. reader' \in ReaderSet /\ reader'.meta = m /\ reader'.is = w
  <2>1. << >> \in Seq(Int)
    OBVIOUS
  <2> QED
    BY <1>2, <2>1 DEF Reads, ReaderSet
<1>4. ReaderTypes' /\ EventsTrue'
  BY <1>3 DEF ReaderTypes, ReaderSet, EventsTrue
<1>5. FolderTypes'
  BY ReaderFacts DEF FolderTypes
<1> QED
  BY <1>1, <1>3, <1>4, <1>5, ReaderStep

LEMMA ReadMetadataStep == ASSUME RecordingInv, ReadMetadata, UNCHANGED callVars, Fine PROVE RecordingInv'
<1>1. folder.metadata \in MetaFiles
  BY ReaderFacts DEF FolderSet
<1>2. folder.metadata.is \in {"absent", "torn", "full"}
  BY <1>1, MetaIs
<1>3. CASE folder.metadata.is = "absent"
  <2>1. reader' = [reader EXCEPT !.is = "none"] /\ UNCHANGED folder
    BY <1>3 DEF ReadMetadata
  <2> QED
    BY <2>1, WordStep
<1>4. CASE folder.metadata.is = "torn"
  <2>1. reader' = [reader EXCEPT !.is = "error"] /\ UNCHANGED folder
    BY <1>4 DEF ReadMetadata, Refuse
  <2> QED
    BY <2>1, WordStep
<1>5. CASE folder.metadata.is = "full"
  <2>1. reader' = Reads("metadata", FileMeta) /\ UNCHANGED folder /\ HasMeta /\ reader.is = "idle"
    BY <1>5 DEF ReadMetadata, FileMeta, HasMeta
  <2> QED
    BY <2>1, MetaStep
<1> QED
  BY <1>2, <1>3, <1>4, <1>5

LEMMA QueryStep == ASSUME RecordingInv, Query, UNCHANGED callVars, Fine PROVE RecordingInv'
<1>1. UNCHANGED folder /\ reader.is = "idle"
  BY DEF Query
<1>2. \/ reader' = [reader EXCEPT !.is = "not_listed"]
      \/ reader' = Reads("listed", FileMeta) /\ HasMeta
  BY DEF Query, FileMeta, HasMeta
<1> QED
  BY <1>1, <1>2, WordStep, MetaStep

LEMMA NoFileIs == NoFile.is = "absent" /\ NoFile \in MetaFiles /\ NoFile \in LogSet
BY DEF NoFile, MetaFiles, LogSet

LEMMA DeleteFilesStep == ASSUME RecordingInv, DeleteFiles, UNCHANGED callVars, Fine PROVE RecordingInv'
<1>1. reader' = [reader EXCEPT !.is = "deleting"] /\ folder' = [folder EXCEPT !.metadata = NoFile, !.log = NoFile]
  BY DEF DeleteFiles
<1>2. ReaderTypes' /\ EventsTrue' /\ reader'.meta = reader.meta /\ reader'.is = "deleting"
  BY <1>1, WordChanges
<1>3. PICK no : no = NoFile /\ no.is = "absent" /\ no \in MetaFiles /\ no \in LogSet
  BY NoFileIs
<1>4. folder' = [folder EXCEPT !.metadata = no, !.log = no]
  BY <1>1, <1>3
<1>5. folder' \in FolderSet /\ folder'.metadata = no /\ folder'.log = no
  BY <1>3, <1>4, ReaderFacts DEF FolderSet
<1>6. FolderTypes' /\ LinesNow' = << >> /\ ~HasMeta'
  BY <1>3, <1>5 DEF FolderTypes, LinesNow, HasMeta
<1> QED
  BY <1>2, <1>6, ReaderStep

LEMMA DeleteFolderStep == ASSUME RecordingInv, DeleteFolder, UNCHANGED callVars, Fine PROVE RecordingInv'
<1>1. CASE folder' = NoFolder /\ reader' = [reader EXCEPT !.is = "deleted"]
  <2>1. ReaderTypes' /\ EventsTrue' /\ reader'.meta = reader.meta /\ reader'.is = "deleted"
    BY <1>1, WordChanges
  <2>2. PICK no : no = NoFile /\ no.is = "absent" /\ no \in MetaFiles /\ no \in LogSet
    BY NoFileIs
  <2>3. folder' = [there |-> FALSE, metadata |-> no, log |-> no]
    BY <1>1, <2>2 DEF NoFolder
  <2>4. folder' \in FolderSet /\ folder'.metadata = no /\ folder'.log = no
    BY <2>2, <2>3 DEF FolderSet
  <2>5. FolderTypes' /\ LinesNow' = << >> /\ ~HasMeta'
    BY <2>2, <2>4 DEF FolderTypes, LinesNow, HasMeta
  <2> QED
    BY <2>1, <2>5, ReaderStep
<1>2. CASE UNCHANGED folder /\ Refuse
  BY <1>2, WordStep DEF Refuse
<1> QED
  BY <1>1, <1>2 DEF DeleteFolder

(* get_session keeps the events that parse, in the order of their lines. *)
Shows(l) == Parses(l) /\ l.of[1] > 0
Showing(ls, f) ==
  /\ f \in [0 .. Len(ls) -> Seq(Int)] /\ f[0] = << >>
  /\ \A i \in 1 .. Len(ls) : f[i] = IF Shows(ls[i]) THEN Append(f[i - 1], ls[i].of[1]) ELSE f[i - 1]

LEMMA ShownIs ==
  ASSUME NEW l \in LineSet
  PROVE  /\ Shows(l) => l.of[1] \in Int /\ l.of[1] > 0 /\ l.of = <<l.of[1]>> /\ 1 \in DOMAIN l.of
         /\ \A y \in Int : Parses(l) /\ l.of = <<y>> /\ y > 0 => Shows(l) /\ l.of[1] = y
BY DEF Shows, Parses, LineSet

LEMMA EventsOfIs ==
  ASSUME NEW ls \in Seq(LineSet)
  PROVE  \E f : Showing(ls, f) /\ EventsOf(ls) = f[Len(ls)]
<1> DEFINE n == Len(ls)
           Value(f, i) == IF i = 0 THEN << >>
                          ELSE IF Parses(ls[i]) /\ ls[i].of[1] > 0 THEN Append(f[i - 1], ls[i].of[1]) ELSE f[i - 1]
           Equation(f) == f = [i \in 0 .. Len(ls) |-> Value(f, i)]
           Begun(f, m) == /\ f \in [0 .. m -> Seq(Int)] /\ f[0] = << >>
                            /\ \A i \in 1 .. m : f[i] = IF Shows(ls[i]) THEN Append(f[i - 1], ls[i].of[1]) ELSE f[i - 1]
           G == {m \in 0 .. n : \E f : Begun(f, m)}
<1>1. n \in Nat /\ \A i \in 1 .. n : ls[i] \in LineSet
  OBVIOUS
<1>2. 0 \in G
  <2>1. [i \in 0 .. 0 |-> << >>] \in [0 .. 0 -> Seq(Int)] /\ [i \in 0 .. 0 |-> << >>][0] = << >> /\ 1 .. 0 = {}
    OBVIOUS
  <2>2. Begun([i \in 0 .. 0 |-> << >>], 0)
    BY <2>1
  <2> HIDE DEF Begun
  <2> QED
    BY <1>1, <2>2
<1>3. ASSUME NEW m \in 0 .. n - 1, m \in G PROVE m + 1 \in G
  <2>1. PICK f : Begun(f, m)
    BY <1>3
  <2>2. m \in Nat /\ m + 1 \in 1 .. n /\ m \in 0 .. m /\ ls[m + 1] \in LineSet
    BY <1>1
  <2>3. PICK v : v = IF Shows(ls[m + 1]) THEN Append(f[m], ls[m + 1].of[1]) ELSE f[m]
    OBVIOUS
  <2>4. v \in Seq(Int)
    <3>1. PICK g \in Seq(Int) : g = f[m]
      BY <2>1, <2>2
    <3>2. Shows(ls[m + 1]) => ls[m + 1].of[1] \in Int
      BY <2>2, ShownIs
    <3> QED
      BY <2>3, <3>1, <3>2
  <2> DEFINE h == [i \in 0 .. m + 1 |-> IF i = m + 1 THEN v ELSE f[i]]
  <2> HIDE DEF n
  <2>5. h \in [0 .. m + 1 -> Seq(Int)]
    BY <2>1, <2>2, <2>4
  <2>6. h[0] = << >>
    BY <2>1, <2>2
  <2>7. ASSUME NEW i \in 1 .. m + 1
        PROVE  h[i] = IF Shows(ls[i]) THEN Append(h[i - 1], ls[i].of[1]) ELSE h[i - 1]
    <3>1. h[i - 1] = f[i - 1]
      BY <2>2
    <3> HIDE DEF h
    <3>2. CASE i = m + 1
      BY <2>2, <2>3, <3>1, <3>2 DEF h
    <3>3. CASE i \in 1 .. m
      <4>1. h[i] = f[i]
        BY <2>2, <3>3 DEF h
      <4> QED
        BY <2>1, <3>1, <3>3, <4>1
    <3> QED
      BY <2>2, <3>2, <3>3
  <2>8. Begun(h, m + 1)
    BY <2>5, <2>6, <2>7
  <2> HIDE DEF Begun
  <2> QED
    BY <2>2, <2>8
<1>4. n \in G
  <2> HIDE DEF G, n
  <2>1. 0 .. n \subseteq G
    BY <1>1, <1>2, <1>3, UpTo
  <2> QED
    BY <1>1, <2>1
<1>5. PICK f : Showing(ls, f)
  BY <1>4 DEF Showing
<1>6. Equation(f)
  <2>1. ASSUME NEW i \in 0 .. n PROVE f[i] = Value(f, i)
    <3>1. CASE i = 0
      BY <1>5, <3>1 DEF Showing
    <3>2. CASE i \in 1 .. n
      BY <1>1, <1>5, <3>2 DEF Showing, Shows
    <3> QED
      BY <1>1, <3>1, <3>2
  <2>2. DOMAIN f = 0 .. n /\ f = [i \in DOMAIN f |-> f[i]]
    BY <1>5 DEF Showing
  <2> HIDE DEF Value
  <2> QED
    BY <2>1, <2>2
<1>7. PICK g : Equation(g) /\ g = CHOOSE h : Equation(h)
  <2> HIDE DEF Equation
  <2> QED
    BY <1>6, Zenon
<1>8. EventsOf(ls) = g[n]
  BY <1>7, Zenon DEF EventsOf
<1>9. g = f
  <2> DEFINE Same == {i \in 0 .. n : g[i] = f[i]}
  <2>1. 0 \in Same
    BY <1>1, <1>6, <1>7
  <2>2. ASSUME NEW m \in 0 .. n - 1, m \in Same PROVE m + 1 \in Same
    <3>1. m + 1 \in 0 .. n /\ (m + 1) - 1 = m /\ m + 1 # 0
      BY <1>1
    <3>2. g[m + 1] = Value(g, m + 1) /\ f[m + 1] = Value(f, m + 1)
      BY <1>6, <1>7, <3>1
    <3>3. Value(g, m + 1) = Value(f, m + 1)
      BY <2>2, <3>1
    <3> HIDE DEF Value
    <3> QED
      BY <3>1, <3>2, <3>3
  <2>3. 0 .. n \subseteq Same
    <3> HIDE DEF Same, n
    <3> QED
      BY <1>1, <2>1, <2>2, UpTo
  <2> HIDE DEF Value
  <2> QED
    BY <1>6, <1>7, <2>3
<1> QED
  BY <1>5, <1>8, <1>9

Rises(ls) == \A i, j \in DOMAIN ls : Shows(ls[i]) /\ Shows(ls[j]) /\ i < j => ls[i].of[1] < ls[j].of[1]
ShownOf(ls, e) ==
  /\ e \in Seq(Int)
  /\ \A k \in DOMAIN e : \E j \in DOMAIN ls : Shows(ls[j]) /\ e[k] = ls[j].of[1]
  /\ \A j \in DOMAIN ls : Shows(ls[j]) => \E k \in DOMAIN e : e[k] = ls[j].of[1]
  /\ \A k \in DOMAIN e : k > 1 => e[k] > e[k - 1]

LEMMA EventsShown ==
  ASSUME NEW ls \in Seq(LineSet), Rises(ls)
  PROVE  ShownOf(ls, EventsOf(ls))
<1> DEFINE e == EventsOf(ls)
<1> HIDE DEF e
<1>1. PICK n \in Nat : n = Len(ls) /\ DOMAIN ls = 1 .. n
  OBVIOUS
<1>2. PICK f : Showing(ls, f) /\ e = f[n]
  BY <1>1, EventsOfIs DEF e
<1>3. /\ f \in [0 .. n -> Seq(Int)] /\ f[0] = << >>
      /\ \A i \in 1 .. n : f[i] = IF Shows(ls[i]) THEN Append(f[i - 1], ls[i].of[1]) ELSE f[i - 1]
  BY <1>1, <1>2 DEF Showing
<1> DEFINE Good(g, i) ==
             /\ \A k \in DOMAIN g : \E j \in 1 .. i : Shows(ls[j]) /\ g[k] = ls[j].of[1]
             /\ \A j \in 1 .. i : Shows(ls[j]) => \E k \in DOMAIN g : g[k] = ls[j].of[1]
             /\ \A k \in DOMAIN g : k > 1 => g[k] > g[k - 1]
           G == {i \in 0 .. n : Good(f[i], i)}
<1>4. 0 \in G
  BY <1>3
<1>5. ASSUME NEW m \in 0 .. n - 1, m \in G PROVE m + 1 \in G
  <2>1. PICK g \in Seq(Int) : g = f[m]
    BY <1>3
  <2>2. Good(g, m) /\ m + 1 \in 1 .. n /\ (m + 1) - 1 = m /\ m \in Nat
    <3>1. m + 1 \in 1 .. n /\ (m + 1) - 1 = m /\ m \in Nat
      BY <1>1
    <3> HIDE DEF Good
    <3>2. Good(f[m], m)
      BY <1>5
    <3> QED
      BY <2>1, <3>1, <3>2
  <2>3. CASE ~Shows(ls[m + 1])
    <3>1. f[m + 1] = g
      BY <1>3, <2>1, <2>2, <2>3
    <3>2. 1 .. m + 1 = (1 .. m) \cup {m + 1}
      BY <2>2
    <3>3. Good(g, m + 1)
      BY <2>2, <2>3, <3>2
    <3> HIDE DEF Good
    <3> QED
      BY <2>2, <3>1, <3>3
  <2>4. CASE Shows(ls[m + 1])
    <3>1. PICK y \in Int : y = ls[m + 1].of[1]
      <4>1. ls[m + 1] \in LineSet
        BY <1>1, <2>2
      <4> QED
        BY <2>4, <4>1, ShownIs
    <3>2. PICK h : h = f[m + 1]
      OBVIOUS
    <3>3. h = Append(g, y)
      BY <1>3, <2>1, <2>2, <2>4, <3>1, <3>2
    <3>4. PICK l \in Nat : l = Len(g) /\ DOMAIN g = 1 .. l
      OBVIOUS
    <3>5. h \in Seq(Int) /\ DOMAIN h = 1 .. l + 1 /\ h[l + 1] = y /\ \A i \in 1 .. l : h[i] = g[i]
      BY <3>3, <3>4, AppendIs
    <3>6. \A k \in DOMAIN g : g[k] < y
      <4> SUFFICES ASSUME NEW k \in DOMAIN g PROVE g[k] < y
        OBVIOUS
      <4>1. PICK j \in 1 .. m : Shows(ls[j]) /\ g[k] = ls[j].of[1]
        BY <2>2
      <4>2. j \in DOMAIN ls /\ m + 1 \in DOMAIN ls /\ j < m + 1
        BY <1>1, <2>2
      <4> QED
        BY <2>4, <3>1, <4>1, <4>2 DEF Rises
    <3>7. ASSUME NEW k \in DOMAIN h
          PROVE  (\E j \in 1 .. m + 1 : Shows(ls[j]) /\ h[k] = ls[j].of[1]) /\ (k > 1 => h[k] > h[k - 1])
      <4>1. CASE k \in 1 .. l
        <5>1. PICK j \in 1 .. m : Shows(ls[j]) /\ g[k] = ls[j].of[1]
          BY <2>2, <3>4, <4>1
        <5>2. j \in 1 .. m + 1 /\ h[k] = g[k]
          BY <2>2, <3>5, <4>1
        <5>3. k > 1 => k - 1 \in 1 .. l /\ h[k - 1] = g[k - 1] /\ g[k] > g[k - 1]
          <6>1. k > 1 => k - 1 \in 1 .. l
            BY <4>1
          <6>2. k > 1 => g[k] > g[k - 1]
            BY <2>2, <3>4, <4>1
          <6> QED
            BY <3>5, <6>1, <6>2
        <5> QED
          BY <5>1, <5>2, <5>3
      <4>2. CASE k = l + 1
        <5>1. m + 1 \in 1 .. m + 1 /\ h[k] = y
          BY <2>2, <3>5, <4>2
        <5>2. k > 1 => k - 1 \in DOMAIN g /\ h[k - 1] = g[k - 1]
          BY <3>4, <3>5, <4>2
        <5>3. k > 1 => h[k] > h[k - 1]
          <6>1. k > 1 => h[k - 1] < y
            BY <3>6, <5>2
          <6>2. k > 1 => h[k - 1] \in Int
            BY <3>4, <5>2
          <6> QED
            BY <5>1, <6>1, <6>2
        <5> QED
          BY <2>4, <3>1, <5>1, <5>3
      <4> QED
        BY <3>4, <3>5, <4>1, <4>2
    <3>8. ASSUME NEW j \in 1 .. m + 1, Shows(ls[j]) PROVE \E k \in DOMAIN h : h[k] = ls[j].of[1]
      <4>1. CASE j \in 1 .. m
        <5>1. PICK k \in DOMAIN g : g[k] = ls[j].of[1]
          BY <2>2, <3>8, <4>1
        <5>2. k \in DOMAIN h /\ h[k] = g[k]
          BY <3>4, <3>5
        <5> QED
          BY <5>1, <5>2
      <4>2. CASE j = m + 1
        <5>1. l + 1 \in DOMAIN h /\ h[l + 1] = ls[j].of[1]
          BY <3>1, <3>4, <3>5, <4>2
        <5> QED
          BY <5>1
      <4> QED
        BY <2>2, <4>1, <4>2
    <3>9. Good(h, m + 1)
      BY <3>7, <3>8
    <3> HIDE DEF Good
    <3> QED
      BY <2>2, <3>2, <3>9
  <2> QED
    BY <2>3, <2>4
<1>6. n \in G
  <2> HIDE DEF G
  <2>1. 0 .. n \subseteq G
    BY <1>1, <1>4, <1>5, UpTo
  <2> QED
    BY <1>1, <2>1
<1>7. Good(e, n)
  <2> HIDE DEF Good
  <2> QED
    BY <1>2, <1>6
<1>8. e \in Seq(Int)
  BY <1>2, <1>3
<1>9. ShownOf(ls, e)
  BY <1>1, <1>7, <1>8 DEF ShownOf
<1> QED
  BY <1>9 DEF e

LEMMA ReadEventsStep == ASSUME RecordingInv, ReadEvents, UNCHANGED callVars, Fine PROVE RecordingInv'
<1>1. UNCHANGED folder /\ reader.is = "metadata"
  BY DEF ReadEvents
<1>2. CASE Refuse
  BY <1>1, <1>2, WordStep DEF Refuse
<1>3. ASSUME folder.log.is # "absent", NEW r, r = (\E i \in DOMAIN folder.log.lines : Parses(folder.log.lines[i]) /\ folder.log.lines[i].of = <<-1>>),
             reader' = [Reads("session", reader.meta) EXCEPT !.response = r, !.events = EventsOf(folder.log.lines)]
      PROVE  RecordingInv'
  <2>1. folder.log \in LogSet
    BY ReaderFacts DEF FolderSet
  <2>2. PICK ls \in Seq(LineSet) : ls = LinesNow /\ ls = folder.log.lines
    BY <1>3, <2>1, LogIs DEF LinesNow
  <2>3. PICK e : e = EventsOf(ls)
    OBVIOUS
  <2>4. PICK b \in BOOLEAN : b = r
    BY <1>3
  <2>5. PICK m \in MetaSet : m = reader.meta
    BY ReaderFacts DEF ReaderSet
  <2>6. PICK v : v = [is |-> "session", meta |-> m, response |-> FALSE, events |-> << >>]
    OBVIOUS
  <2>7. reader' = [v EXCEPT !.response = b, !.events = e]
    BY <1>3, <2>2, <2>3, <2>4, <2>5, <2>6 DEF Reads
  <2>8. reader' = [is |-> "session", meta |-> m, response |-> b, events |-> e]
    BY <2>6, <2>7
  <2>9. ASSUME NEW j \in DOMAIN ls, Shows(ls[j])
        PROVE  ls[j].of[1] \in Int /\ ls[j].of[1] > 0 /\ Has(LinesNow, j, ls[j].of[1]) /\ j \in Int
    <3>1. ls[j] \in LineSet /\ j \in Int
      OBVIOUS
    <3>2. ls[j].of[1] \in Int /\ ls[j].of[1] > 0 /\ 1 \in DOMAIN ls[j].of
      BY <2>9, <3>1, ShownIs
    <3>3. PICK y : y = ls[j].of[1]
      OBVIOUS
    <3>4. Has(LinesNow, j, y)
      BY <2>2, <3>2, <3>3 DEF Has
    <3> QED
      BY <3>1, <3>2, <3>3, <3>4
  <2>10. Rises(ls)
    BY <2>9, OrderFacts DEF Rises
  <2>11. /\ e \in Seq(Int)
         /\ \A k \in DOMAIN e : \E j \in DOMAIN ls : Shows(ls[j]) /\ e[k] = ls[j].of[1]
         /\ \A j \in DOMAIN ls : Shows(ls[j]) => \E k \in DOMAIN e : e[k] = ls[j].of[1]
         /\ \A k \in DOMAIN e : k > 1 => e[k] > e[k - 1]
    <3>1. ShownOf(ls, e)
      BY <2>3, <2>10, EventsShown
    <3> QED
      BY <3>1 DEF ShownOf
  <2>12. ASSUME NEW k \in DOMAIN e PROVE e[k] \in Got /\ \A i \in DOMAIN channel : e[k] < channel[i]
    <3>1. PICK j \in DOMAIN ls : Shows(ls[j]) /\ e[k] = ls[j].of[1]
      BY <2>11
    <3> QED
      BY <2>9, <3>1, OrderFacts
  <2>13. ASSUME NEW i \in Int, errors = 0, InLog(i) PROVE \E j \in DOMAIN ls : Parses(ls[j]) /\ ls[j].of = <<i>>
    <3>1. \A j \in DOMAIN LinesNow : Parses(LinesNow[j])
      BY <1>1, <2>13, IntactFacts
    <3> QED
      BY <2>2, <2>13, <3>1 DEF InLog
  <2>14. ASSUME errors = 0, NEW i \in Got
         PROVE  i \in Range(e) \/ \A j \in Range(e) : j < i
    <3>1. (\E k \in DOMAIN channel : channel[k] = i) \/ InLog(i)
      BY <1>1, <2>14, IntactFacts
    <3>2. CASE \E k \in DOMAIN channel : channel[k] = i
      BY <2>12, <3>2 DEF Range
    <3>3. CASE InLog(i)
      <4>1. i \in Int /\ i > 0
        BY LateFacts DEF Got
      <4>2. PICK j \in DOMAIN ls : Parses(ls[j]) /\ ls[j].of = <<i>>
        BY <2>13, <2>14, <3>3, <4>1
      <4>3. Shows(ls[j]) /\ ls[j].of[1] = i
        BY <4>1, <4>2, ShownIs
      <4> QED
        BY <2>11, <4>3 DEF Range
    <3> QED
      BY <3>1, <3>2, <3>3
  <2>15. ASSUME errors = 0, m.success = TRUE, m.streams # TRUE PROVE b = TRUE
    <3>1. TrueOf(m, exchange, stream, at)
      BY <2>5 DEF RecordingInv, MetaInv
    <3>2. exchange.streams # TRUE
      BY <2>15, <3>1 DEF TrueOf
    <3>3. Answered(reader.meta)
      BY <1>1, <2>15, IntactFacts
    <3>4. InLog(-1) /\ -1 \in Int
      <4>1. Answered(m)
        BY <2>5, <3>3
      <4>2. InLog(-1)
        BY <2>15, <3>2, <4>1 DEF Answered
      <4> QED
        BY <4>2
    <3>5. \E j \in DOMAIN ls : Parses(ls[j]) /\ ls[j].of = <<-1>>
      BY <2>13, <2>15, <3>4
    <3> QED
      BY <1>3, <2>2, <2>4, <3>5
  <2>16. errors' = errors /\ Got' = Got
    BY GotTheSame DEF Fine, callVars
  <2>17. reader'.is = "session" /\ reader'.meta = m /\ reader'.response = b /\ reader'.events = e
    BY <2>8
  <2>18. Range(e) \subseteq Got
    BY <2>12 DEF Range
  <2>19. EventsTrue'
    BY <2>11, <2>14, <2>15, <2>16, <2>17, <2>18 DEF EventsTrue
  <2>20. ReaderTypes'
    BY <2>8, <2>11 DEF ReaderTypes
  <2>21. FolderTypes'
    BY <1>1, ReaderFacts DEF FolderTypes
  <2> QED
    BY <1>1, <2>5, <2>17, <2>19, <2>20, <2>21, ReaderStep
<1>4. PICK r : r = (\E i \in DOMAIN folder.log.lines : Parses(folder.log.lines[i]) /\ folder.log.lines[i].of = <<-1>>)
  OBVIOUS
<1>5. \/ Refuse
      \/ /\ folder.log.is # "absent"
         /\ reader' = [Reads("session", reader.meta) EXCEPT !.response = r, !.events = EventsOf(folder.log.lines)]
  BY <1>4 DEF ReadEvents
<1> QED
  BY <1>2, <1>3, <1>4, <1>5

(***************************************************************************)
(* All together.                                                           *)
(***************************************************************************)
LEMMA RecordingStarts == RecordingInit => RecordingInv
<1> SUFFICES ASSUME RecordingInit PROVE RecordingInv
  OBVIOUS
<1>1. /\ exchange \in CallSet /\ at = "new" /\ channel = << >> /\ writer = "none" /\ closing = Closed
      /\ folder = NoFolder /\ reader = NoReader /\ errors = 0
      /\ stream = [polled |-> 0, id |-> FALSE, name |-> FALSE, usage |-> FALSE, finish |-> FALSE, failed |-> FALSE]
  BY RecordingAssumption DEF RecordingInit, CallSet
<1>2. stream \in StreamSet /\ stream.polled = 0 /\ stream.failed # TRUE
  BY <1>1 DEF StreamSet
<1>3. /\ closing \in [step : {"none", "spawned", "written"}, meta : MetaSet] /\ closing.step = "none"
      /\ closing.meta.success # TRUE /\ closing.meta.failed # TRUE
  BY <1>1, ClosedIs
<1>4. PICK m \in MetaSet : m = NewMetadata(FALSE) /\ m.success # TRUE /\ m.failed # TRUE
  BY NewMeta
<1>5. reader = [is |-> "idle", meta |-> m, response |-> FALSE, events |-> << >>]
  BY <1>1, <1>4 DEF NoReader, Reads
<1>6. ReaderTypes /\ reader.is = "idle" /\ reader.meta = m
  BY <1>5 DEF ReaderTypes
<1>7. PICK no : no = NoFile /\ no.is = "absent" /\ no \in MetaFiles /\ no \in LogSet
  BY NoFileIs
<1>8. folder = [there |-> FALSE, metadata |-> no, log |-> no]
  BY <1>1, <1>7 DEF NoFolder
<1>9. folder \in FolderSet /\ folder.metadata = no /\ folder.log = no
  BY <1>7, <1>8 DEF FolderSet
<1>10. FolderTypes /\ LinesNow = << >> /\ ~HasMeta /\ ~LogOpen
  BY <1>7, <1>9 DEF FolderTypes, LinesNow, HasMeta, LogOpen
<1>11. RecordingTypes
  BY <1>1, <1>2, <1>3, <1>6, <1>10 DEF RecordingTypes, CallTypes, Stages, Starts
<1>12. PhaseInv
  <2>1. stream.polled <= Len(exchange.items)
    BY <1>1, <1>2 DEF CallSet
  <2>2. closing = Closed /\ reader.meta.success # TRUE /\ ~HasMeta
    BY <1>1, <1>4, <1>6, <1>10
  <2>3. stream.polled = 0 /\ ~(stream.polled > 0) /\ at = "new"
    BY <1>1, <1>2
  <2> QED
    BY <1>1, <1>2, <1>3, <2>1, <2>2, <2>3 DEF PhaseInv
<1>13. MetaInv
  BY <1>3, <1>4, <1>6, <1>10 DEF MetaInv, TrueOf
<1>14. OrderInv /\ Got = {}
  <2>1. Got = {}
    BY <1>2, NothingPolled
  <2>2. DOMAIN channel = {} /\ \A j, y \in Int : ~Has(LinesNow, j, y)
    BY <1>1, <1>10 DEF Has
  <2> QED
    BY <2>1, <2>2 DEF OrderInv
<1>15. IntactInv
  <2>1. DOMAIN LinesNow = {}
    BY <1>10
  <2>2. Answered(closing.meta) /\ Answered(reader.meta)
    BY <1>3, <1>4, <1>6 DEF Answered
  <2> QED
    BY <1>1, <1>10, <1>14, <2>1, <2>2 DEF IntactInv
<1>16. EventsTrue
  BY <1>6 DEF EventsTrue
<1> QED
  BY <1>11, <1>12, <1>13, <1>14, <1>15, <1>16 DEF RecordingInv

LEMMA RecordingGoesOn == RecordingInv /\ [RecordingNext]_recordingVars => RecordingInv'
<1> SUFFICES ASSUME RecordingInv, [RecordingNext]_recordingVars PROVE RecordingInv'
  OBVIOUS
<1>1. CASE UNCHANGED recordingVars
  BY <1>1, NothingChanges DEF recordingVars, callVars
<1>2. CASE Starting /\ UNCHANGED reader
  BY <1>2, CreateFolderStep, BeginMetadataStep, EndMetadataStep, CreateLogStep, WriteRequestStep, EndRequestStep DEF Starting
<1>3. CASE Sending /\ UNCHANGED reader
  <2>1. CASE Answer
    BY <1>3, <2>1, AnswerComesStep, ProviderFailsStep
  <2> QED
    BY <1>3, <2>1, WriteResponseStep, EndResponseStep DEF Sending
<1>4. CASE Polling /\ UNCHANGED reader
  BY <1>4, OpenStreamStep, PollEventStep, PollErrorStep, PollEndStep DEF Polling
<1>5. CASE Leave /\ UNCHANGED reader
  BY <1>5, LeaveStep
<1>6. CASE Spawned /\ UNCHANGED reader
  BY <1>6, RecordEventStep, EndEventStep, BeginClosingStep, EndClosingStep, NameToolStep DEF Spawned
<1>7. CASE Reading /\ UNCHANGED callVars /\ Fine
  BY <1>7, ReadMetadataStep, ReadEventsStep, QueryStep, DeleteFilesStep, DeleteFolderStep DEF Reading
<1> QED
  BY <1>1, <1>2, <1>3, <1>4, <1>5, <1>6, <1>7 DEF RecordingNext

(* What get_session and query_sessions say of a call that the older provider  *)
(* recorded is what happened, whatever the provider answers, however far the   *)
(* caller goes, and however often the file system fails (RecordingProvider,    *)
(* poll_next, record_stream_event, complete_session, get_session).             *)
THEOREM RecordsAreTrue == RecordingSpec => []RecordTellsTheTruth
<1>1. RecordingSpec => []RecordingInv
  BY RecordingStarts, RecordingGoesOn, PTL DEF RecordingSpec
<1> QED
  BY <1>1, TruthFollows, PTL
=============================================================================
