------------------------------- MODULE Import -------------------------------
(***************************************************************************)
(* Filling the sqlite tables from session files: the import-sessions       *)
(* command (import.rs of lunaroute-session) and the older script           *)
(* tools/backfill-sqlite.  They run one after the other, again and again;  *)
(* each may be killed, and the server's cleanup may delete a file          *)
(* meanwhile.                                                              *)
(*                                                                         *)
(* A file is the events of its lines; of a torn one the last line cannot   *)
(* be parsed.                                                              *)
(***************************************************************************)
EXTENDS Integers, SequencesExt

CONSTANTS
  SessionIds,   \* those in the files
  ImportableIds,\* those that validate_session_id accepts
  RequestIds,
  Directories,  \* session files, by name
  Settings,     \* ImportConfig
  MaxRuns       \* programs that are started

VARIABLES
  directory,    \* the files that are there
  database,
  program,      \* the one that runs, and what it has still to do
  results,      \* of the files, in the import that runs or ran last
  runs

Sqlite == INSTANCE SqliteTables
            WITH Sessions <- SessionIds, ValidIds <- ImportableIds, Requests <- RequestIds, Tool <- "tool", Unknown <- "unknown"

importVars == <<directory, database, program, results, runs>>

Resting == [is |-> "none", set |-> [skip |-> TRUE, goOn |-> TRUE, dry |-> FALSE], todo |-> <<>>, events |-> <<>>, at |-> 0]

(* Files that were compressed before have another ending, and are not looked at. *)
Jsonl == {f \in DOMAIN directory : ~directory[f].packed}
Parsed(f) == LET es == directory[f].events IN IF directory[f].torn THEN Front(es) ELSE es
SessionOf(f) == Head(directory[f].events).session

(* extract_session_metadata: the first line has to be a Started event. *)
Importable == {f \in Jsonl : Parsed(f) # <<>> /\ Head(Parsed(f)).kind = "started"}

(* By the time of that event; files of one time in the order of the directory. *)
Scans ==
  {[i \in DOMAIN l |-> [name |-> l[i], session |-> SessionOf(l[i])]] :
     l \in {k \in SetToSeqs(Importable) : \A i, j \in DOMAIN k : i < j => directory[k[i]].time <= directory[k[j]].time}}

StartImport ==
  /\ program = Resting /\ runs < MaxRuns
  /\ \E s \in Settings, l \in Scans :
       program' = IF l = <<>> THEN Resting ELSE [Resting EXCEPT !.is = "import", !.set = s, !.todo = l]
  /\ runs' = runs + 1 /\ results' = <<>>
  /\ UNCHANGED <<directory, database>>

Following(p) == IF Len(p.todo) = 1 THEN Resting ELSE [p EXCEPT !.todo = Tail(@), !.events = <<>>, !.at = 0]

Result(r) ==
  /\ results' = (Head(program.todo).name :> r) @@ results
  /\ program' = IF r = "failed" /\ ~program.set.goOn THEN Resting ELSE Following(program)

(* Mutant: what is there already is imported again. *)
WrongImportFile ==
  LET f == Head(program.todo).name IN
  /\ program.is = "import" /\ program.events = <<>>
  /\ IF f \notin DOMAIN directory \/ directory[f].torn THEN Result("failed")
     ELSE IF program.set.dry THEN Result("imported")
     ELSE program' = [program EXCEPT !.events = Parsed(f), !.at = 1] /\ UNCHANGED results
  /\ UNCHANGED <<directory, database, runs>>

(* import_session: all of the file is parsed before anything is written. *)
ImportFile ==
  LET f == Head(program.todo).name IN
  /\ program.is = "import" /\ program.events = <<>>
  /\ IF program.set.skip /\ database.rows[Head(program.todo).session].there THEN Result("skipped")
     ELSE IF f \notin DOMAIN directory \/ directory[f].torn THEN Result("failed")
     ELSE IF program.set.dry THEN Result("imported")
     ELSE program' = [program EXCEPT !.events = Parsed(f), !.at = 1] /\ UNCHANGED results
  /\ UNCHANGED <<directory, database, runs>>

(* write_event: a transaction of its own. *)
ImportEvent ==
  LET tx == Sqlite!WriteBatch(database, <<program.events[program.at]>>) IN
  /\ program.events # <<>>
  /\ IF tx.failed THEN Result("failed") /\ UNCHANGED database
     ELSE /\ database' = tx.db
          /\ IF program.at = Len(program.events) THEN Result("imported")
             ELSE program' = [program EXCEPT !.at = @ + 1] /\ UNCHANGED results
  /\ UNCHANGED <<directory, runs>>

(* Ctrl-C, or an error of the database that ends the program. *)
Kill ==
  /\ program # Resting
  /\ program' = Resting
  /\ UNCHANGED <<directory, database, results, runs>>

-----------------------------------------------------------------------------
(* The script.  It takes all files, in the order of their names, and stops  *)
(* at the first line that is no JSON.  The types tool_call_executed and     *)
(* stream_metrics_recorded that it also looks for are none of SessionEvent. *)

StartBackfill ==
  /\ program = Resting /\ runs < MaxRuns
  /\ \E l \in SetToSeqs(Jsonl) :
       program' = IF l = <<>> THEN Resting ELSE [Resting EXCEPT !.is = "backfill", !.todo = l]
  /\ runs' = runs + 1 /\ results' = <<>>
  /\ UNCHANGED <<directory, database>>

(* The tokens are set, to 0 where the event has none, and no row is made. *)
BackfillStats(db, e) ==
  IF db.rows[e.session].there THEN [db EXCEPT !.rows[e.session].tokens = e.tokens] ELSE db

BackfillCompleted(db, e) ==
  IF db.rows[e.session].there
  THEN [db EXCEPT !.rows[e.session].outcome = IF e.ok THEN "success" ELSE "error"] ELSE db

Backfilled(db, e) ==
  CASE e.kind = "started"   -> Sqlite!Started(db, e)
    [] e.kind = "stats"     -> BackfillStats(db, e)
    [] e.kind = "request"   -> Sqlite!RequestRecorded(db, e)
    [] e.kind = "completed" -> BackfillCompleted(db, e)
    [] OTHER                -> db

(* Every statement commits by itself; a kill between two of them leaves a
   prefix of the file. *)
BackfillFile ==
  LET f == Head(program.todo) IN
  /\ program.is = "backfill"
  /\ IF f \in DOMAIN directory
     THEN \E n \in 0..Len(Parsed(f)) :
            /\ database' = FoldLeft(Backfilled, database, SubSeq(Parsed(f), 1, n))
            /\ program' = IF n < Len(Parsed(f)) \/ directory[f].torn
                          THEN Resting ELSE Following(program)
     ELSE program' = Resting /\ UNCHANGED database
  /\ UNCHANGED <<directory, results, runs>>

(* Cleanup deletes a file, or compresses it, which is the same to both programs. *)
Vanish ==
  /\ \E f \in DOMAIN directory : directory' = [g \in DOMAIN directory \ {f} |-> directory[g]]
  /\ UNCHANGED <<database, program, results, runs>>

ImportInit ==
  /\ directory \in Directories /\ database = Sqlite!EmptyTables
  /\ program = Resting /\ results = <<>> /\ runs = 0

ImportNext ==
  \/ StartImport \/ ImportFile \/ ImportEvent \/ Kill
  \/ StartBackfill \/ BackfillFile \/ Vanish

-----------------------------------------------------------------------------
(* What a file says of its session and its requests. *)
Said(events) == FoldLeft(Sqlite!Applied, Sqlite!EmptyTables, events)
RequestsOf(events) == {e.request : e \in Range(events)}

(* A file that is reported as imported, by an import that skips what is     *)
(* there, has left in the tables exactly what it says: nothing is missing,  *)
(* and nothing counted twice, whatever was imported, filled in or broken    *)
(* off before (session_exists, import_session).                             *)
ImportIsWhole ==
  [][(program.events # <<>> /\ program.set.skip
       /\ Head(program.todo).name \in DOMAIN results' /\ results'[Head(program.todo).name] = "imported") =>
       LET said == Said(program.events)
           s    == Head(program.todo).session IN
       /\ database'.rows[s] = said.rows[s]
       /\ \A r \in RequestsOf(program.events) :
            /\ database'.stats[r] = said.stats[r] /\ database'.streams[r] = said.streams[r]
            /\ \A t \in {"tool", "unknown"} : database'.counts[<<r, t>>] = said.counts[<<r, t>>]
            /\ \A q \in RequestIds : database'.execs[<<r, q>>] = said.execs[<<r, q>>]]_importVars
=============================================================================
