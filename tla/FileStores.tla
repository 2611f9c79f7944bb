----------------------------- MODULE FileStores -----------------------------
(***************************************************************************)
(* lunaroute-storage: the stores that keep a map in memory and a copy of   *)
(* it in one file (FileStateStore, and the SessionIndex of a               *)
(* FileSessionStore), both through AtomicWriter; and the directories of a  *)
(* FileSessionStore with the rolling files of their stream events.         *)
(*                                                                         *)
(* Calls run on several threads of one process, a step is one system call  *)
(* or one section under the map's lock; the process may die between any    *)
(* two.  FileLock locks a file beside the one it protects.  A map is the   *)
(* set of its keys: sessions, or keys of the state, each of size 1.  Left  *)
(* out: what listings filter, compression, and the temporary files of      *)
(* metadata and bodies, which are written like the map.                    *)
(***************************************************************************)
EXTENDS Integers, FiniteSets, FiniteSetsExt, SequencesExt

CONSTANTS
  Threads,      \* threads that call the store
  Keys,       \* session ids, or keys of the state
  Kinds,      \* what the instance has
  MaxFile,    \* max_stream_file_size
  EventSizes, \* sizes of stream events
  Limit,      \* max_state_size
  MaxCalls, MaxFailures   \* bounds of the instance

ASSUME StoreAssumption ==
  /\ IsFiniteSet(Threads)
  /\ Kinds \subseteq {"sessions", "state", "lock", "none"}
  /\ MaxFile \in Nat \ {0} /\ EventSizes \subseteq Nat \ {0}
  /\ {Limit, MaxCalls, MaxFailures} \subseteq Nat

VARIABLES
  kind,
  mem,      \* the keys in memory
  readers,  \* tasks that hold the read lock of the index
  task,     \* what each task does next
  tmp,      \* the inode named <path>.tmp, or 0
  file,     \* the inode named <path>, or 0
  content,  \* of every inode
  lockFile, \* the inode named <path>.lock, or 0
  dirs,     \* of each session, the parts written and the rolling files
  appended, \* auxiliary: number of stream events of each session
  mixed,    \* auxiliary: sessions with appends that overlapped or broke off
  calls, failures

index == <<mem, readers>>
copy == <<tmp, file, content>>
streams == <<dirs, appended, mixed>>
storeVars == <<kind, index, task, copy, lockFile, streams, calls, failures>>

Inodes == 1 .. Cardinality(Threads) + 2
NewInode == Min(Inodes \ ({tmp, file, lockFile} \cup {task[t].fd : t \in Threads}))
Torn == [whole |-> FALSE, keys |-> {}]
Whole(keys) == [whole |-> TRUE, keys |-> keys]

Idle == [pc |-> "idle", key |-> "none", todo |-> {}, snap |-> {}, fd |-> 0,
         at |-> 0, size |-> 0, gone |-> FALSE]
NoDir == [parts |-> {}, files |-> <<>>]

StoreInit ==
  /\ kind \in Kinds
  /\ mem = {} /\ readers = {} /\ task = [t \in Threads |-> Idle]
  /\ tmp = 0 /\ file = 0 /\ lockFile = 0 /\ content = [i \in Inodes |-> Torn]
  /\ dirs = [s \in Keys |-> NoDir]
  /\ appended = [s \in Keys |-> 0] /\ mixed = {}
  /\ calls = 0 /\ failures = 0

At(t, pc) == task[t].pc = pc
Proceeds(t, pc) == task' = [task EXCEPT ![t].pc = pc]
Done(t) == task' = [task EXCEPT ![t] = Idle]
Called == calls < MaxCalls /\ calls' = calls + 1
Calls(t, k) == At(t, "idle") /\ kind = k /\ Called

-----------------------------------------------------------------------------
(* persist(), the same in both stores but for the lock.                    *)

(* Mutant of Snapshot: the index is unlocked before its copy is written. *)
WrongSnapshot(t) ==
  /\ At(t, "snapshot")
  /\ task' = [task EXCEPT ![t].pc = "create", ![t].snap = mem]
  /\ UNCHANGED <<kind, lockFile, index, copy, streams, calls, failures>>

(* SessionIndex::persist keeps the read lock to its end, serialize_state   *)
(* gives it back.                                                          *)
Snapshot(t) ==
  /\ At(t, "snapshot")
  /\ task' = [task EXCEPT ![t].pc = "create", ![t].snap = mem]
  /\ readers' = IF kind = "sessions" THEN readers \cup {t} ELSE readers
  /\ UNCHANGED <<kind, lockFile, mem, copy, streams, calls, failures>>

(* AtomicWriter::new creates the temporary file or empties it.             *)
CreateTemp(t) ==
  /\ At(t, "create")
  /\ LET i == IF tmp # 0 THEN tmp ELSE NewInode IN
     /\ tmp' = i /\ content' = [content EXCEPT ![i] = Torn]
     /\ task' = [task EXCEPT ![t].pc = "fill", ![t].fd = i]
  /\ UNCHANGED <<kind, lockFile, index, file, streams, calls, failures>>

(* Each writer writes from its own offset: over what another one has       *)
(* written meanwhile, which is longer or not.                              *)
Fill(t) ==
  /\ At(t, "fill")
  /\ LET i == task[t].fd IN
     \E c \in {Whole(task[t].snap), Torn} :
       /\ c = Torn => content[i].whole /\ content[i] # Whole(task[t].snap)
       /\ content' = [content EXCEPT ![i] = c]
  /\ Proceeds(t, "rename")
  /\ UNCHANGED <<kind, lockFile, index, tmp, file, streams, calls, failures>>

(* The call returns; prune goes on with the next session.                  *)
Persisted(t, ok) ==
  /\ readers' = readers \ {t}
  /\ task' = [task EXCEPT ![t] =
       IF ok /\ task[t].todo # {} THEN [Idle EXCEPT !.pc = "delete", !.todo = task[t].todo] ELSE Idle]

(* A write fails; dropping the writer removes the temporary file, whoever  *)
(* created it.                                                             *)
FillFails(t) ==
  /\ At(t, "fill") /\ failures < MaxFailures /\ failures' = failures + 1
  /\ tmp' = 0 /\ Persisted(t, FALSE)
  /\ UNCHANGED <<kind, lockFile, mem, file, content, streams, calls>>

(* commit() fails when another writer has renamed the file.                *)
Rename(t) ==
  /\ At(t, "rename")
  /\ IF tmp # 0 THEN file' = tmp /\ tmp' = 0 ELSE UNCHANGED <<tmp, file>>
  /\ Persisted(t, tmp # 0)
  /\ UNCHANGED <<kind, lockFile, mem, content, streams, calls, failures>>

-----------------------------------------------------------------------------
(* FileStateStore *)

Change(keys) == mem' = keys /\ UNCHANGED <<kind, lockFile, readers, task, copy, streams, failures>>

Set(t) == Calls(t, "state") /\ \E k \in Keys : Cardinality(mem \cup {k}) <= Limit /\ Change(mem \cup {k})
SetMany(t) ==
  /\ Calls(t, "state")
  /\ \E ks \in SUBSET Keys : Cardinality(mem) + Cardinality(ks \ mem) <= Limit /\ Change(mem \cup ks)
Delete(t) == Calls(t, "state") /\ \E k \in mem : Change(mem \ {k})
(* A new counter is not counted against the limit. *)
Increment(t) == Calls(t, "state") /\ \E k \in Keys : Change(mem \cup {k})

(* By the caller or by the task of start_auto_persist. *)
Persist(t) ==
  /\ Calls(t, "state") /\ Proceeds(t, "snapshot")
  /\ UNCHANGED <<kind, lockFile, index, copy, streams, failures>>

-----------------------------------------------------------------------------
(* FileSessionStore *)

Written(s, part) == [dirs EXCEPT ![s].parts = @ \cup {part}]

CreateSession(t) ==
  /\ Calls(t, "sessions")
  /\ \E s \in Keys :
       /\ dirs' = Written(s, "metadata")
       /\ task' = [task EXCEPT ![t].pc = "upsert", ![t].key = s]
  /\ UNCHANGED <<kind, lockFile, index, copy, appended, mixed, failures>>

(* append_request and append_response; the directory is created if need be. *)
AppendBody(t) ==
  /\ Calls(t, "sessions")
  /\ \E s \in Keys, part \in {"request", "response"} : dirs' = Written(s, part)
  /\ UNCHANGED <<kind, lockFile, index, task, copy, appended, mixed, failures>>

(* get_metadata, also by read_session: a session that is on disk only is   *)
(* added to the index.                                                     *)
GetMetadata(t) ==
  /\ Calls(t, "sessions")
  /\ \E s \in Keys :
       task' = IF s \in mem \/ "metadata" \notin dirs[s].parts THEN task
               ELSE [task EXCEPT ![t].pc = "upsert", ![t].key = s]
  /\ UNCHANGED <<kind, lockFile, index, copy, streams, failures>>

(* SessionIndex::upsert and remove wait for the tasks that persist.        *)
Upsert(t) ==
  /\ At(t, "upsert") /\ readers = {}
  /\ mem' = mem \cup {task[t].key} /\ Proceeds(t, "snapshot")
  /\ UNCHANGED <<kind, lockFile, readers, copy, streams, calls, failures>>

DropEntry(t) ==
  /\ At(t, "remove") /\ readers = {}
  /\ mem' = mem \ {task[t].key} /\ Proceeds(t, "snapshot")
  /\ UNCHANGED <<kind, lockFile, readers, copy, streams, calls, failures>>

(* delete_session, or prune with the sessions that are old enough. *)
DeleteSessions(t) ==
  /\ Calls(t, "sessions")
  /\ \E old \in {{s} : s \in Keys} \cup (SUBSET mem \ {{}}) :
       task' = [task EXCEPT ![t].pc = "delete", ![t].todo = old]
  /\ UNCHANGED <<kind, lockFile, index, copy, streams, failures>>

(* Who has a file of the directory open writes into nothing. *)
RemoveDir(t) ==
  /\ At(t, "delete")
  /\ \E s \in task[t].todo :
       /\ dirs' = [dirs EXCEPT ![s] = NoDir]
       /\ appended' = [appended EXCEPT ![s] = 0] /\ mixed' = mixed \ {s}
       /\ task' = [u \in Threads |->
            IF u = t THEN [task[t] EXCEPT !.pc = "remove", !.key = s, !.todo = @ \ {s}]
            ELSE IF task[u].pc = "newline" /\ task[u].key = s THEN [task[u] EXCEPT !.gone = TRUE]
            ELSE task[u]]
  /\ UNCHANGED <<kind, lockFile, index, copy, calls, failures>>

-----------------------------------------------------------------------------
(* append_stream_event: a RollingWriter for each event.                    *)

Item(event, size) == [event |-> event, size |-> size]
Bytes(f) ==
  LET sum[i \in 0 .. Len(f)] == IF i = 0 THEN 0 ELSE sum[i - 1] + f[i].size IN sum[Len(f)]
File(files, k) == IF k \in DOMAIN files THEN files[k] ELSE <<>>

(* Mutant of Rotated: a file the event does not fit into is skipped. *)
WrongRotated(files, from, size) ==
  Min({k \in from .. from + Len(files) : Bytes(File(files, k)) + size <= MaxFile \/ File(files, k) = <<>>})

(* rotate(): the first file from there on that is not full, whether or not *)
(* there is room for what comes.                                           *)
Rotated(files, from, size) == Min({k \in from .. from + Len(files) : Bytes(File(files, k)) < MaxFile})

Put(s, k, item) ==
  [dirs EXCEPT ![s].files =
     [j \in 1 .. Max({Len(@), k}) |-> IF j = k THEN Append(File(@, j), item) ELSE File(@, j)]]

AppendEvent(t) ==
  /\ Calls(t, "sessions")
  /\ \E s \in Keys, size \in EventSizes :
       LET k == Rotated(dirs[s].files, 1, size) IN
       /\ dirs' = Put(s, k, Item(appended[s] + 1, size))
       /\ task' = [task EXCEPT ![t] = [Idle EXCEPT !.pc = "newline", !.key = s, !.at = k,
                                         !.size = Bytes(File(dirs[s].files, k)) + size]]
       /\ appended' = [appended EXCEPT ![s] = @ + 1]
       /\ mixed' = IF \E u \in Threads : task[u].pc = "newline" /\ task[u].key = s THEN mixed \cup {s} ELSE mixed
  /\ UNCHANGED <<kind, lockFile, index, copy, failures>>

(* The newline may go to the next file.  The writer knows the size it has  *)
(* seen and what it has written itself.                                    *)
EndLine(t) ==
  /\ At(t, "newline")
  /\ LET s == task[t].key
         k == task[t].at IN
     dirs' = IF task[t].size + 1 > MaxFile THEN Put(s, Rotated(dirs[s].files, k, 1), Item(0, 1))
             ELSE IF task[t].gone THEN dirs
             ELSE Put(s, k, Item(0, 1))
  /\ Done(t)
  /\ UNCHANGED <<kind, lockFile, index, copy, appended, mixed, calls, failures>>

-----------------------------------------------------------------------------
(* FileLock *)

(* acquire and try_acquire open the lock file or create it. *)
OpenLock(t) ==
  /\ Calls(t, "lock")
  /\ LET i == IF lockFile # 0 THEN lockFile ELSE NewInode IN
     lockFile' = i /\ task' = [task EXCEPT ![t].pc = "flock", ![t].fd = i]
  /\ UNCHANGED <<kind, index, copy, streams, failures>>

Holders(i) == {t \in Threads : At(t, "locked") /\ task[t].fd = i}

(* flock(2): acquire waits for the holder of the inode, try_acquire does not. *)
Flock(t) ==
  /\ At(t, "flock")
  /\ IF Holders(task[t].fd) = {} THEN Proceeds(t, "locked") ELSE Done(t)
  /\ UNCHANGED <<kind, lockFile, index, copy, streams, calls, failures>>

(* Drop unlocks, then removes the file by its name. *)
Unlock(t) ==
  /\ At(t, "locked") /\ Proceeds(t, "unlocked")
  /\ UNCHANGED <<kind, lockFile, index, copy, streams, calls, failures>>

RemoveLockFile(t) ==
  /\ At(t, "unlocked") /\ Done(t) /\ lockFile' = 0
  /\ UNCHANGED <<kind, index, copy, streams, calls, failures>>

-----------------------------------------------------------------------------
(* The process dies and opens the stores again; a map that does not parse  *)
(* is an error.                                                            *)
StoreCrash ==
  /\ failures < MaxFailures /\ failures' = failures + 1
  /\ file # 0 => content[file].whole
  /\ mem' = IF file = 0 THEN {} ELSE content[file].keys
  /\ readers' = {} /\ task' = [t \in Threads |-> Idle]
  /\ mixed' = mixed \cup {task[t].key : t \in {u \in Threads : At(u, "newline")}}
  /\ UNCHANGED <<kind, lockFile, copy, dirs, appended, calls>>

Step(t) ==
  \/ Snapshot(t) \/ CreateTemp(t) \/ Fill(t) \/ FillFails(t) \/ Rename(t)
  \/ Set(t) \/ SetMany(t) \/ Delete(t) \/ Increment(t) \/ Persist(t)
  \/ CreateSession(t) \/ AppendBody(t) \/ GetMetadata(t) \/ Upsert(t) \/ DropEntry(t)
  \/ DeleteSessions(t) \/ RemoveDir(t) \/ AppendEvent(t) \/ EndLine(t)
  \/ OpenLock(t) \/ Flock(t) \/ Unlock(t) \/ RemoveLockFile(t)

StoreNext == StoreCrash \/ \E t \in Threads : Step(t)

StoreSpec == StoreInit /\ [][StoreNext]_storeVars

-----------------------------------------------------------------------------
Persisting(t) == task[t].pc \in {"snapshot", "create", "fill", "rename"}

IndexFileFollows ==
  kind = "sessions" /\ failures = 0 /\ (\A t \in Threads : ~Persisting(t)) =>
    IF file = 0 THEN mem = {} ELSE content[file] = Whole(mem)

(* Where the events stand, file and place, and which is read first. *)
Spots(files) == UNION {{<<k, i>> : i \in {j \in DOMAIN files[k] : files[k][j].event # 0}} : k \in DOMAIN files}
EventAt(files, p) == files[p[1]][p[2]].event
Before(p, q) == p[1] < q[1] \/ (p[1] = q[1] /\ p[2] < q[2])

InOrder(files, n) ==
  /\ {EventAt(files, p) : p \in Spots(files)} = 1 .. n
  /\ \A p, q \in Spots(files) : Before(p, q) => EventAt(files, p) < EventAt(files, q)
OnOwnLines(f) == \A i \in 1 .. Len(f) - 1 : f[i].event = 0 \/ f[i + 1].event = 0

EventsReadBack ==
  \A s \in Keys \ mixed :
    /\ InOrder(dirs[s].files, appended[s])
    /\ \A k \in DOMAIN dirs[s].files : OnOwnLines(dirs[s].files[k])

(* The files of the session store hold what it was told.  Whenever nobody  *)
(* is writing it, the index file is what the index is in memory, although  *)
(* all writers share one temporary file, may rename what another one has   *)
(* just emptied, and fail when they come second: it is the lock held over  *)
(* the write that makes it so (session_index.rs persist,                   *)
(* atomic_writer.rs); a write error or a crash in between may leave the    *)
(* file empty.  And stream events that were appended one after the other   *)
(* are read back one by one and in order, whatever their sizes and         *)
(* wherever files roll over, be it between an event and its newline        *)
(* (rolling_writer.rs, session.rs append_stream_event).                    *)
StoreReadsBack == IndexFileFollows /\ EventsReadBack

(* "Atomic file writer to ensure safe file operations": when the calls are *)
(* over, the state file is a map that can be loaded.                       *)
StateFileIsWhole ==
  kind = "state" /\ failures = 0 /\ task = [t \in Threads |-> Idle] /\ file # 0 => content[file].whole

(* "Acquire an exclusive lock on a file": at most one task holds it. *)
LockIsExclusive == Cardinality({t \in Threads : At(t, "locked")}) <= 1
=============================================================================
