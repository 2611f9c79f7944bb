---------------------------- MODULE SessionFiles ----------------------------
(***************************************************************************)
(* The session files of lunaroute-session: the JSONL writer with its cache *)
(* of open files (jsonl_writer.rs) and the cleanup that deletes and        *)
(* compresses the same files (cleanup.rs).                                 *)
(*                                                                         *)
(* The tasks of `crew' write concurrently, step by step between the two    *)
(* locks (`file_cache', `pending_ops').  A crew of one is the worker of    *)
(* module Recorder, which flushes after each batch; a larger one calls the *)
(* writer directly, as its interface and its bookkeeping of files that are *)
(* being opened admit.  A file belongs to a session and a day; an event is *)
(* its number in the session.  The age of a file counts full days since its   *)
(* last change, here the midnights since then: the code may see it a day   *)
(* later.                                                                  *)
(***************************************************************************)
EXTENDS Integers, SequencesExt

CONSTANTS
  Tasks, Sessions,
  CacheSize,      \* handles the cache holds
  BufferSize,     \* events a handle buffers before it writes them
  MaxAge,         \* RetentionPolicy.max_age_days
  CompressAfter,  \* RetentionPolicy.compress_after_days
  SizeLimit,      \* RetentionPolicy.max_total_size_gb, in events
  Crews,          \* the sets of tasks that may use the writer
  MaxDay, MaxEvents, MaxSweeps, MaxFaults   \* bounds of the instance

\* RetentionPolicy::validate.
ValidPolicy ==
  /\ {MaxAge, SizeLimit, CompressAfter} \subseteq Nat \ {0}
  /\ CompressAfter < MaxAge

\* JsonlWriter::with_config demands room for a handle; BufferSize is the
\* capacity of its BufWriter.
ASSUME ConfigAssumption ==
  /\ IsFiniteSet(Tasks)
  /\ ValidPolicy
  /\ {CacheSize, BufferSize} \subseteq Nat \ {0}
  /\ Crews \subseteq (SUBSET Tasks) \ {{}}
  /\ {MaxDay, MaxEvents, MaxSweeps, MaxFaults} \subseteq Nat

VARIABLES
  now,      \* today
  crew,     \* the tasks that use the writer
  pc, work, \* per task: where it is in write_event, and its local variables
  cache,    \* the LRU cache of handles, most recently used first
  pending,  \* the cache keys whose file is being opened
  files,    \* the session files: path -> text and time of the last change
  sweep,    \* the cleanup task
  next,     \* per session: the number of its next event
  acked,    \* events whose write returned Ok and that a crash did not take
  exempt,   \* acknowledged events that no file has to hold: see below
  faults    \* I/O errors and crashes so far

vars == <<now, crew, pc, work, cache, pending, files, sweep, next, acked, exempt, faults>>

Path(s, d) == [session |-> s, day |-> d, zst |-> FALSE]
Packed(p) == [p EXCEPT !.zst = TRUE]
Alone == Cardinality(crew) = 1
\* Direct users are checked with two events, one midnight and no cleanup.
Sweeps == IF Alone THEN MaxSweeps ELSE 0
LastEvent == IF Alone THEN MaxEvents ELSE 2
LastDay == IF Alone THEN MaxDay ELSE 1
Fault == faults < MaxFaults /\ faults' = faults + 1
Key(s) == [session |-> s, day |-> now]
NoHandle == [key |-> [session |-> "", day |-> 0], path |-> Path("", 0), buffer |-> <<>>, linked |-> FALSE]
NoWork == [session |-> "", key |-> NoHandle.key, handle |-> NoHandle, ok |-> TRUE, since |-> 0]
Asleep == [pc |-> "asleep", list |-> <<>>, todo |-> <<>>, old |-> {}, text |-> <<>>, excess |-> 0, count |-> 0]

Init ==
  /\ now = 0 /\ crew \in Crews
  /\ pc = [t \in Tasks |-> "idle"] /\ work = [t \in Tasks |-> NoWork]
  /\ cache = <<>> /\ pending = {} /\ files = <<>> /\ sweep = Asleep
  /\ next = [s \in Sessions |-> 1] /\ acked = {} /\ exempt = {} /\ faults = 0

(***************************************************************************)
(* Files.  A handle whose file was deleted writes to an unlinked inode.    *)
(***************************************************************************)
Text(p) == IF p \in DOMAIN files THEN files[p].text ELSE <<>>
Appended(fs, h) ==
  IF h.linked /\ h.buffer # <<>>
  THEN [fs EXCEPT ![h.path] = [text |-> @.text \o h.buffer, time |-> now]]
  ELSE fs
Emptied(h) == [h EXCEPT !.buffer = <<>>]
Having(fs, p, text) ==
  [q \in DOMAIN fs \cup {p} |-> IF q = p THEN [text |-> text, time |-> now] ELSE fs[q]]
Without(fs, p) == [q \in DOMAIN fs \ {p} |-> fs[q]]
Cut(h, p) == IF h.path = p THEN [h EXCEPT !.linked = FALSE] ELSE h
Of(p, text) == {p.session} \X ToSet(text)
Cached(k) == \E i \in DOMAIN cache : cache[i].key = k
Position(k) == CHOOSE i \in DOMAIN cache : cache[i].key = k

(***************************************************************************)
(* write_event.                                                            *)
(***************************************************************************)
Goto(t, from, to) == pc[t] = from /\ pc' = [pc EXCEPT ![t] = to]

StartWrite(t) ==
  /\ t \in crew /\ Goto(t, "idle", "check")
  /\ SumFunction(next) < LastEvent + Cardinality(Sessions)
  /\ \E s \in Sessions :
       /\ work' = [work EXCEPT ![t] = [NoWork EXCEPT !.session = s, !.key = Key(s), !.since = now]]
  /\ UNCHANGED <<now, crew, cache, pending, files, sweep, next, acked, exempt, faults>>

CheckCache(t) ==
  /\ Goto(t, "check", IF Cached(work[t].key) THEN "write" ELSE "claim")
  /\ UNCHANGED <<now, crew, work, cache, pending, files, sweep, next, acked, exempt, faults>>

(* Under the lock of pending_ops: either this task opens the file, or it
   clones the notifier of the task that does. *)
Claim(t) ==
  /\ Goto(t, "claim", IF work[t].key \in pending THEN "listen" ELSE "open")
  /\ pending' = pending \cup {work[t].key}
  /\ UNCHANGED <<now, crew, work, cache, files, sweep, next, acked, exempt, faults>>

(* notify.notified(): only from here on does a notification reach the task. *)
Listen(t) ==
  /\ Goto(t, "listen", "wait")
  /\ UNCHANGED <<now, crew, work, cache, pending, files, sweep, next, acked, exempt, faults>>

(* The path is that of the day on which the file is opened, which need not be
   the day of the cache key. *)
OpenFile(t) ==
  LET p == Path(work[t].session, now) IN
  /\ Goto(t, "open", "push")
  /\ work' = [work EXCEPT ![t].handle = [key |-> work[t].key, path |-> p, buffer |-> <<>>, linked |-> TRUE]]
  /\ files' = IF p \in DOMAIN files THEN files ELSE Having(files, p, <<>>)
  /\ UNCHANGED <<now, crew, cache, pending, sweep, next, acked, exempt, faults>>

OpenFails(t) ==
  /\ Goto(t, "open", "unmark") /\ Fault
  /\ work' = [work EXCEPT ![t].ok = FALSE]
  /\ UNCHANGED <<now, crew, cache, pending, files, sweep, next, acked, exempt>>

(* The new handle goes to the front; a full cache gives up its last one. *)
Push(t) ==
  LET h == work[t].handle
      fits == Len(cache) < CacheSize IN
  /\ pc[t] = "push"
  /\ IF Cached(h.key)
     THEN /\ pc' = [pc EXCEPT ![t] = "unmark"]
          /\ work' = [work EXCEPT ![t].handle = NoHandle]
          /\ cache' = cache
     ELSE /\ pc' = [pc EXCEPT ![t] = IF fits THEN "unmark" ELSE "evict"]
          /\ work' = [work EXCEPT ![t].handle = IF fits THEN NoHandle ELSE Last(cache)]
          /\ cache' = <<h>> \o (IF fits THEN cache ELSE Front(cache))
  /\ UNCHANGED <<now, crew, pending, files, sweep, next, acked, exempt, faults>>

WrongFlushEvicted(t) ==
  /\ Goto(t, "evict", "unmark")
  /\ work' = [work EXCEPT ![t].handle = NoHandle]
  /\ UNCHANGED <<files, exempt>>
  /\ UNCHANGED <<now, crew, cache, pending, sweep, next, acked, faults>>

(* The evicted handle is flushed after the lock of the cache is released;
   an error of this flush is ignored and its events are lost. *)
FlushEvicted(t) ==
  LET h == work[t].handle IN
  /\ Goto(t, "evict", "unmark")
  /\ work' = [work EXCEPT ![t].handle = NoHandle]
  /\ \/ files' = Appended(files, h) /\ exempt' = exempt \cup (IF h.linked THEN {} ELSE Of(h.path, h.buffer))
        /\ faults' = faults
     \/ Fault /\ files' = files /\ exempt' = exempt \cup Of(h.path, h.buffer)
  /\ UNCHANGED <<now, crew, cache, pending, sweep, next, acked>>

(* notify_waiters reaches the tasks that listen by now and no other one: a
   task that has only cloned the notifier will wait for ever. *)
Unmark(t) ==
  LET k == work[t].key IN
  /\ pc[t] = "unmark"
  /\ pending' = pending \ {k}
  /\ pc' = [u \in Tasks |->
              IF u = t THEN IF work[t].ok THEN "write" ELSE "idle"
              ELSE IF pc[u] \in {"listen", "wait"} /\ work[u].key = k
              THEN IF pc[u] = "wait" THEN "check" ELSE "deaf" ELSE pc[u]]
  /\ work' = [work EXCEPT ![t] = IF work[t].ok THEN @ ELSE NoWork]
  /\ UNCHANGED <<now, crew, cache, files, sweep, next, acked, exempt, faults>>

(* write_all on a BufWriter: what does not fit is written through first. *)
Buffered(h, e) ==
  IF Len(h.buffer) < BufferSize
  THEN [handle |-> [h EXCEPT !.buffer = Append(@, e)], files |-> files]
  ELSE [handle |-> [h EXCEPT !.buffer = <<e>>], files |-> Appended(files, h)]

(* The key is computed again, and an entry that is gone is no error: after
   midnight, or after an eviction, the event is acknowledged and not written. *)
Write(t) ==
  LET s == work[t].session
      e == next[s]
      k == Key(s)
      i == Position(k)
      new == Buffered(cache[i], e) IN
  /\ Goto(t, "write", "idle")
  /\ next' = [next EXCEPT ![s] = @ + 1]
  /\ work' = [work EXCEPT ![t] = NoWork]
  /\ acked' = acked \cup {<<s, e>>}
  /\ IF Cached(k)
     THEN /\ cache' = <<new.handle>> \o RemoveAt(cache, i)
          /\ files' = new.files
          /\ exempt' = exempt \cup (IF cache[i].linked THEN {} ELSE {<<s, e>>})
     ELSE /\ UNCHANGED <<cache, files>>
          /\ exempt' = exempt \cup (IF k = work[t].key THEN {} ELSE {<<s, e>>})
  /\ UNCHANGED <<now, crew, pending, sweep, faults>>

WriteFails(t) ==
  /\ Goto(t, "write", "idle") /\ Cached(Key(work[t].session)) /\ Fault
  /\ next' = [next EXCEPT ![work[t].session] = @ + 1]
  /\ work' = [work EXCEPT ![t] = NoWork]
  /\ UNCHANGED <<now, crew, cache, pending, files, sweep, acked, exempt>>

\* The files when the first n handles of the cache are flushed.
Flushed(n) ==
  LET flushed[i \in 0..n] == IF i = 0 THEN files ELSE Appended(flushed[i-1], cache[i])
  IN flushed[n]

(* flush() under the lock of the cache.  It stops at the first error, and what
   the error leaves in the buffers is reported as not written. *)
Flush(t) ==
  /\ t \in crew /\ pc[t] = "idle"
  /\ \E i \in DOMAIN cache : cache[i].buffer # <<>>
  /\ \E n \in 0..Len(cache) :
       /\ cache' = [i \in DOMAIN cache |-> IF i <= n THEN Emptied(cache[i]) ELSE cache[i]]
       /\ files' = Flushed(n)
       /\ exempt' = exempt \cup UNION {Of(cache[i].path, cache[i].buffer) : i \in n+1..Len(cache)}
       /\ IF n < Len(cache) THEN Fault ELSE faults' = faults
  /\ UNCHANGED <<now, crew, pc, work, pending, sweep, next, acked>>

(***************************************************************************)
(* execute_cleanup, called by the task of spawn_cleanup_task.              *)
(***************************************************************************)
Age(p) == now - files[p].time
Size(p) == IF p.zst THEN (Len(files[p].text) + 1) \div 2 ELSE Len(files[p].text)
TotalSize == FoldSet(LAMBDA p, n : n + Size(p), 0, DOMAIN files)
Handles == ToSet(cache) \cup {work[t].handle : t \in Tasks}

\* The members of S in the order of the list, as a recursive function: the
\* proofs reason about it.
Among(list, S) ==
  LET kept[n \in 0..Len(list)] ==
        IF n = 0 THEN <<>>
        ELSE IF list[n] \in S THEN Append(kept[n-1], list[n]) ELSE kept[n-1]
  IN kept[Len(list)]
Older(days) == {p \in DOMAIN files : Age(p) > days}

(* Files of one age come in the order of the directory. *)
Listings ==
  {l \in SetToSeqs(DOMAIN files) : \A i, j \in DOMAIN l : i < j => Age(l[i]) >= Age(l[j])}

Unlink(p) ==
  /\ files' = Without(files, p)
  /\ cache' = [i \in DOMAIN cache |-> Cut(cache[i], p)]
  /\ work' = [t \in Tasks |-> [work[t] EXCEPT !.handle = Cut(@, p)]]

(* What retention deletes, and what a handle would still have written to it. *)
Retire(p) ==
  /\ Unlink(p)
  /\ exempt' = exempt \cup Of(p, Text(p)) \cup UNION {Of(p, h.buffer) : h \in {h \in Handles : h.path = p}}

SweepOnly == UNCHANGED <<now, crew, pc, work, cache, pending, files, next, acked, exempt, faults>>
SweepRest == UNCHANGED <<now, crew, pc, pending, next, acked, faults>>

(* The ages are those of the beginning. *)
StartSweep ==
  /\ sweep.pc = "asleep" /\ sweep.count < Sweeps /\ files # <<>>
  /\ \E l \in Listings :
       sweep' = [sweep EXCEPT !.pc = "delete", !.list = l, !.count = @ + 1,
                              !.todo = Among(l, Older(MaxAge)),
                              !.old = {p \in Older(CompressAfter) : ~p.zst}]
  /\ SweepOnly

DeleteOld ==
  /\ sweep.pc = "delete" /\ sweep.todo # <<>>
  /\ Retire(Head(sweep.todo))
  /\ sweep' = [sweep EXCEPT !.todo = Tail(@)]
  /\ SweepRest

StartCompressing ==
  /\ sweep.pc = "delete" /\ sweep.todo = <<>>
  /\ sweep' = [sweep EXCEPT !.pc = "compress", !.list = Among(@, DOMAIN files),
                 !.todo = Among(sweep.list, sweep.old \cap DOMAIN files), !.old = {}]
  /\ SweepOnly

(* compress_session_file reads the file, writes the other one and removes the
   first; the list keeps the name of the first. *)
ReadPlain ==
  /\ sweep.pc = "compress" /\ sweep.todo # <<>>
  /\ sweep' = [sweep EXCEPT !.pc = "pack", !.text = Text(Head(sweep.todo))]
  /\ SweepOnly

WritePacked ==
  /\ sweep.pc = "pack"
  /\ files' = Having(files, Packed(Head(sweep.todo)), sweep.text)
  /\ sweep' = [sweep EXCEPT !.pc = "unlink", !.text = <<>>]
  /\ UNCHANGED <<work, cache, exempt>> /\ SweepRest

UnlinkPlain ==
  /\ sweep.pc = "unlink"
  /\ Unlink(Head(sweep.todo))
  /\ sweep' = [sweep EXCEPT !.pc = "compress", !.todo = Tail(@)]
  /\ UNCHANGED exempt /\ SweepRest

(* An error of any of these file operations ends the sweep. *)
SweepFails ==
  /\ sweep.pc \in {"delete", "compress", "pack", "unlink", "trim"} /\ sweep.todo # <<>>
  /\ sweep' = [Asleep EXCEPT !.count = sweep.count] /\ Fault
  /\ UNCHANGED <<now, crew, pc, work, cache, pending, files, next, acked, exempt>>

(* The list is walked from its end. *)
Measure ==
  /\ sweep.pc = "compress" /\ sweep.todo = <<>>
  /\ sweep' = IF TotalSize > SizeLimit
              THEN [sweep EXCEPT !.pc = "trim", !.todo = Reverse(sweep.list), !.list = <<>>,
                                 !.excess = TotalSize - SizeLimit]
              ELSE [Asleep EXCEPT !.count = sweep.count]
  /\ SweepOnly

Trim ==
  /\ sweep.pc = "trim" /\ sweep.todo # <<>> /\ sweep.excess > 0
  /\ LET p == Head(sweep.todo) IN
       /\ IF p \in DOMAIN files
          THEN Retire(p) /\ sweep' = [sweep EXCEPT !.todo = Tail(@), !.excess = @ - Size(p)]
          ELSE sweep' = [sweep EXCEPT !.todo = Tail(@)] /\ UNCHANGED <<files, cache, work, exempt>>
  /\ SweepRest

EndSweep ==
  /\ sweep.pc = "trim" /\ (sweep.todo = <<>> \/ sweep.excess <= 0)
  /\ sweep' = [Asleep EXCEPT !.count = sweep.count]
  /\ SweepOnly

(***************************************************************************)
(* Time and failure.  A batch takes less than a day from its first write   *)
(* to its flush.                                                           *)
(***************************************************************************)
Tick ==
  /\ now < LastDay /\ now' = now + 1
  /\ \A t \in Tasks : pc[t] \notin {"idle", "deaf"} => work[t].since = now
  /\ \A h \in Handles : h.buffer # <<>> => h.path.day = now
  /\ UNCHANGED <<crew, pc, work, cache, pending, files, sweep, next, acked, exempt, faults>>

(* The process dies with its buffers, and starts again. *)
Crash ==
  /\ Fault
  /\ pc' = [t \in Tasks |-> "idle"] /\ work' = [t \in Tasks |-> NoWork]
  /\ acked' = acked \ UNION {Of(h.path, h.buffer) : h \in Handles}
  /\ cache' = <<>> /\ pending' = {}
  /\ sweep' = [Asleep EXCEPT !.count = sweep.count]
  /\ UNCHANGED <<now, crew, files, next, exempt>>

WriteStep(t) ==
  \/ CheckCache(t) \/ Claim(t) \/ Listen(t) \/ OpenFile(t) \/ OpenFails(t) \/ Push(t)
  \/ FlushEvicted(t) \/ Unmark(t) \/ Write(t) \/ WriteFails(t)
SweepStep ==
  \/ StartSweep \/ DeleteOld \/ StartCompressing \/ ReadPlain \/ WritePacked \/ UnlinkPlain
  \/ SweepFails \/ Measure \/ Trim \/ EndSweep
Next ==
  \/ \E t \in Tasks : StartWrite(t) \/ WriteStep(t) \/ Flush(t)
  \/ SweepStep \/ Tick \/ Crash

Spec == Init /\ [][Next]_vars

(***************************************************************************)
(* Properties.                                                             *)
(***************************************************************************)
(* What can be read back of a session, now or after the next flush. *)
Readable(p) ==
  LET held == IF p \in DOMAIN files THEN {h \in Handles : h.path = p /\ h.linked} ELSE {} IN
  Text(IF p \in DOMAIN files THEN p ELSE Packed(p))
    \o FlattenSeq(SetToSeq({h.buffer : h \in held} \ {<<>>}))

(* With one worker, every event whose write returned Ok is in a file or in the
   buffer that a flush will append to it, and each file holds its events in
   order - through evictions, reopened files, midnight, compression and
   crashes.  Excepted are events of files that retention deleted, losses that
   were reported, and writes that ran over midnight (jsonl_writer.rs 455-479,
   cleanup.rs 173-213). *)
AcknowledgedIsKept ==
  Alone =>
    LET paths == {Path(s, d) : s \in Sessions, d \in 0..now} IN
    /\ acked \ exempt \subseteq UNION {Of(p, Readable(p)) : p \in paths}
    /\ \A p \in paths : \A i, j \in DOMAIN Readable(p) : i < j => Readable(p)[i] < Readable(p)[j]

(* A cache key is marked as pending exactly while one task opens its file, and
   never two tasks open one file (jsonl_writer.rs 371-444). *)
OneOpener ==
  \A k \in pending \cup {work[t].key : t \in Tasks} :
    LET openers == {t \in Tasks : pc[t] \in {"open", "push", "evict", "unmark"} /\ work[t].key = k} IN
    IF k \in pending THEN Cardinality(openers) = 1 ELSE openers = {}

(* "Remove from pending and notify waiters" (jsonl_writer.rs:431): no task is
   left waiting for a notification that was already sent. *)
WaitersAreNotified == \A t \in Tasks : pc[t] # "deaf"

(* "Delete oldest files until under the limit" (cleanup.rs:330): the file that
   the size limit deletes is the oldest that is left. *)
OldestGoesFirst ==
  [][\A p \in DOMAIN files : Trim /\ p \notin DOMAIN files' =>
       \A q \in DOMAIN files \cap ToSet(sweep.todo) : Age(q) <= Age(p)]_vars
=============================================================================
