--------------------------- MODULE SqliteMigration ---------------------------
(***************************************************************************)
(* lunaroute-session/src/sqlite_writer.rs: how a process opens the session *)
(* database.  initialize_schema creates what is missing and run_migrations *)
(* brings an older database up to date, statement by statement and outside *)
(* any transaction: a process may die between two statements and start     *)
(* again, and two processes may open the same file at once.                *)
(*                                                                         *)
(* Left out: the indexes (all of them IF NOT EXISTS or IF EXISTS) and the  *)
(* branch of migration 2 -> 3 that rebuilds the sessions table.            *)
(* OpenMeansCurrent shows that it is out of reach - and with it all that   *)
(* this migration is for: see TotalsAsFound and TotalsIncludeAll.          *)
(***************************************************************************)
EXTENDS Integers, Sequences, FiniteSets, SequencesExt, FiniteSetsExt

CONSTANTS
    Procs,       \* processes that may open the database
    Starts,      \* the instances: who runs, and the database they find
    Columns,     \* the token columns of sessions, in the order they are added
    Tool,        \* a tool name
    Unknown      \* 'unknown', the name whose statistics are removed

ASSUME MigrationAssumption ==
    /\ Tool # Unknown
    /\ Columns \in Seq(ToSet(Columns)) /\ Columns # << >>

VARIABLES
    disk,        \* the database; disk.totals: the generated column total_tokens
                 \* adds up all token columns (since version 3), not only the first
    pc,          \* the next statement of each process
    todo,        \* tables or columns it has still to create
    start        \* auxiliary: the instance

vars == <<disk, pc, todo, start>>

Current == 5

BaseTables == <<"sessions", "session_stats">>
ToolTables == <<"tool_stats", "tool_call_executions">>
AllColumns == ToSet(Columns)

Init ==
    /\ start \in Starts
    /\ disk = start.disk
    /\ pc = [p \in Procs |-> "off"]
    /\ todo = [p \in Procs |-> << >>]

Goto(p, l) == pc' = [pc EXCEPT ![p] = l]
At(p, l) == pc[p] = l
Has(table) == table \in disk.tables

(* UPDATE schema_version SET version = v.  The version is the primary key: *)
(* with two rows the statement fails.                                      *)
SetVersion(p, v, next) ==
    /\ IF Cardinality(disk.versions) = 1
       THEN disk' = [disk EXCEPT !.versions = {v}] /\ Goto(p, next)
       ELSE Goto(p, "failed") /\ UNCHANGED disk

-----------------------------------------------------------------------------
(* initialize_schema *)

(* INSERT OR IGNORE: a version 1 row is there after every start.           *)
Open(p) ==
    /\ At(p, "off") /\ p \in start.who
    /\ disk' = [disk EXCEPT !.versions = @ \cup {1}]
    /\ todo' = [todo EXCEPT ![p] = BaseTables]
    /\ Goto(p, "base")
    /\ UNCHANGED start

(* CREATE TABLE IF NOT EXISTS: a new sessions table has all columns and    *)
(* the formula of version 3.                                               *)
WithTable(t) ==
    IF Has(t) THEN disk
    ELSE [disk EXCEPT !.tables = @ \cup {t},
                      !.columns = IF t = "sessions" THEN AllColumns ELSE @,
                      !.totals = IF t = "sessions" THEN TRUE ELSE @]

CreateTable(p) ==
    /\ pc[p] \in {"base", "rest"} /\ todo[p] # << >>
    /\ disk' = WithTable(Head(todo[p]))
    /\ todo' = [todo EXCEPT ![p] = Tail(@)]
    /\ UNCHANGED <<pc, start>>

(* Mutant of CheckToolCalls: the new tables are always created. *)
WrongCheckToolCalls(p) ==
    /\ At(p, "base") /\ todo[p] = << >>
    /\ todo' = [todo EXCEPT ![p] = ToolTables \o <<"stream_metrics">>]
    /\ Goto(p, "rest")
    /\ UNCHANGED <<disk, start>>

(* The new tool tables are not created while the old one is there.         *)
CheckToolCalls(p) ==
    /\ At(p, "base") /\ todo[p] = << >>
    /\ todo' = [todo EXCEPT ![p] =
                   (IF Has("tool_calls") THEN << >> ELSE ToolTables) \o <<"stream_metrics">>]
    /\ Goto(p, "rest")
    /\ UNCHANGED <<disk, start>>

-----------------------------------------------------------------------------
(* run_migrations *)

(* Only the smallest version stays. *)
CleanVersions(p) ==
    /\ At(p, "rest") /\ todo[p] = << >>
    /\ disk' = [disk EXCEPT !.versions = {Min(@)}]
    /\ Goto(p, "version")
    /\ UNCHANGED <<todo, start>>

First(v) ==
    CASE v = 1 -> "columns"
      [] v = 2 -> "m23"
      [] v = 3 -> "m34"
      [] v = 4 -> "m45"
      [] v = Current -> "open"
      [] OTHER -> "failed"

ReadVersion(p) ==
    /\ At(p, "version")
    /\ Goto(p, First(Min(disk.versions)))
    /\ todo' = [todo EXCEPT ![p] = Columns]
    /\ UNCHANGED <<disk, start>>

(* Mutant of CheckColumn: the columns are added without looking. *)
WrongCheckColumn(p) ==
    /\ At(p, "columns") /\ todo[p] # << >>
    /\ Goto(p, "add")
    /\ UNCHANGED <<disk, todo, start>>

(* 1 -> 2: every column is looked up before it is added. *)
CheckColumn(p) ==
    /\ At(p, "columns") /\ todo[p] # << >>
    /\ IF Head(todo[p]) \in disk.columns
       THEN todo' = [todo EXCEPT ![p] = Tail(@)] /\ UNCHANGED pc
       ELSE Goto(p, "add") /\ UNCHANGED todo
    /\ UNCHANGED <<disk, start>>

(* ALTER TABLE fails when another process was faster. *)
AddColumn(p) ==
    /\ At(p, "add")
    /\ IF Head(todo[p]) \in disk.columns
       THEN Goto(p, "failed") /\ UNCHANGED <<disk, todo>>
       ELSE /\ disk' = [disk EXCEPT !.columns = @ \cup {Head(todo[p])}]
            /\ todo' = [todo EXCEPT ![p] = Tail(@)]
            /\ Goto(p, "columns")
    /\ UNCHANGED start

Version2(p) ==
    /\ At(p, "columns") /\ todo[p] = << >>
    /\ SetVersion(p, 2, "m23")
    /\ UNCHANGED <<todo, start>>

(* 2 -> 3: is_migration_2_to_3_applied wants to know whether total_tokens  *)
(* has the new formula, and looks for the names of two columns in the text *)
(* of the whole table; they are there since 1 -> 2, outside the formula.   *)
Applied23 == AllColumns \subseteq disk.columns

Version3(p) ==
    /\ At(p, "m23") /\ Applied23
    /\ SetVersion(p, 3, "m34")
    /\ UNCHANGED <<todo, start>>

(* 3 -> 4 *)
CheckArguments(p) ==
    /\ At(p, "m34")
    /\ Goto(p, IF Has("tool_calls") /\ ~disk.arguments THEN "arguments" ELSE "v4")
    /\ UNCHANGED <<disk, todo, start>>

AddArguments(p) ==
    /\ At(p, "arguments")
    /\ IF Has("tool_calls") /\ ~disk.arguments
       THEN disk' = [disk EXCEPT !.arguments = TRUE] /\ Goto(p, "v4")
       ELSE Goto(p, "failed") /\ UNCHANGED disk
    /\ UNCHANGED <<todo, start>>

Version4(p) ==
    /\ At(p, "v4")
    /\ SetVersion(p, 4, "m45")
    /\ UNCHANGED <<todo, start>>

(* 4 -> 5: tool_calls becomes tool_stats. *)
CheckOldTable(p) ==
    /\ At(p, "m45")
    /\ Goto(p, IF Has("tool_calls") THEN "newtable" ELSE "executions")
    /\ UNCHANGED <<disk, todo, start>>

CheckNewTable(p) ==
    /\ At(p, "newtable")
    /\ Goto(p, IF Has("tool_stats") THEN "count" ELSE "rename")
    /\ UNCHANGED <<disk, todo, start>>

(* A table with rows is a conflict. *)
CountNewTable(p) ==
    /\ At(p, "count")
    /\ Goto(p, IF disk.stats = {} THEN "drop" ELSE "failed")
    /\ UNCHANGED <<disk, todo, start>>

DropNewTable(p) ==
    /\ At(p, "drop")
    /\ disk' = [disk EXCEPT !.tables = @ \ {"tool_stats"}, !.stats = {}]
    /\ Goto(p, "rename")
    /\ UNCHANGED <<todo, start>>

(* Mutant of Rename: a new table is created and the old one dropped. *)
WrongRename(p) ==
    /\ At(p, "rename")
    /\ disk' = [disk EXCEPT !.tables = (@ \ {"tool_calls"}) \cup {"tool_stats"}, !.calls = {}]
    /\ Goto(p, "executions")
    /\ UNCHANGED <<todo, start>>

Rename(p) ==
    /\ At(p, "rename")
    /\ IF Has("tool_calls") /\ ~Has("tool_stats")
       THEN /\ disk' = [disk EXCEPT !.tables = (@ \ {"tool_calls"}) \cup {"tool_stats"},
                                    !.stats = disk.calls, !.calls = {}]
            /\ Goto(p, "executions")
       ELSE Goto(p, "failed") /\ UNCHANGED disk
    /\ UNCHANGED <<todo, start>>

CreateExecutions(p) ==
    /\ At(p, "executions")
    /\ disk' = WithTable("tool_call_executions")
    /\ Goto(p, "cleanup")
    /\ UNCHANGED <<todo, start>>

(* On every start, whatever was counted under 'unknown' goes. *)
DeleteUnknown(p) ==
    /\ At(p, "cleanup")
    /\ IF Has("tool_stats")
       THEN disk' = [disk EXCEPT !.stats = @ \ {Unknown}] /\ Goto(p, "v5")
       ELSE Goto(p, "failed") /\ UNCHANGED disk
    /\ UNCHANGED <<todo, start>>

Version5(p) ==
    /\ At(p, "v5")
    /\ SetVersion(p, 5, "open")
    /\ UNCHANGED <<todo, start>>

-----------------------------------------------------------------------------
(* An open store counts tool calls. *)
CountTool(p) ==
    /\ At(p, "open")
    /\ \E t \in {Tool, Unknown} : disk' = [disk EXCEPT !.stats = @ \cup {t}]
    /\ UNCHANGED <<pc, todo, start>>

(* The process ends, between any two statements, or after an error. *)
Stop(p) ==
    /\ ~At(p, "off")
    /\ Goto(p, "off")
    /\ todo' = [todo EXCEPT ![p] = << >>]
    /\ UNCHANGED <<disk, start>>

Schema(p) == Open(p) \/ CreateTable(p) \/ CheckToolCalls(p)

Migrate(p) ==
    \/ CleanVersions(p) \/ ReadVersion(p)
    \/ CheckColumn(p) \/ AddColumn(p) \/ Version2(p) \/ Version3(p)
    \/ CheckArguments(p) \/ AddArguments(p) \/ Version4(p)
    \/ CheckOldTable(p) \/ CheckNewTable(p) \/ CountNewTable(p) \/ DropNewTable(p)
    \/ Rename(p) \/ CreateExecutions(p) \/ DeleteUnknown(p) \/ Version5(p)

Next == \E p \in Procs : Schema(p) \/ Migrate(p) \/ CountTool(p) \/ Stop(p)

Spec == Init /\ [][Next]_vars

-----------------------------------------------------------------------------
OpenMeansCurrent ==
    \A p \in Procs :
        /\ At(p, "open") =>
              /\ ToSet(BaseTables) \cup ToSet(ToolTables) \cup {"stream_metrics"} \subseteq disk.tables
              /\ ~Has("tool_calls")
              /\ AllColumns \subseteq disk.columns
        /\ At(p, "m23") => Applied23

(* Only a new table gets the formula of version 3; total_tokens of a table *)
(* that was there stays what it was.                                       *)
TotalsAsFound ==
    \A p \in Procs : At(p, "open") =>
        (disk.totals <=> ("sessions" \in start.disk.tables => start.disk.totals))

AloneSucceeds ==
    \A p \in Procs : At(p, "failed") => Cardinality(start.who) > 1 \/ start.disk.stats # {}

(* A store that opens finds the tables and columns of the current schema,  *)
(* whatever version the file had, wherever earlier attempts died and       *)
(* whoever opens it meanwhile - unless two processes find a tool_calls     *)
(* table without rows, see DropIsSafe - and that stays so while it is      *)
(* open.  Of what the schema says beyond that, the formula of total_tokens *)
(* is current only in files that had it or had no sessions table: on the   *)
(* way, migration 2 -> 3 always finds the columns that it takes for the    *)
(* new formula, so that it never enters the rebuild of the sessions table. *)
(* And a process that is alone opens the database after any number of      *)
(* crashes, unless somebody left both tool tables with rows                *)
(* (sqlite_writer.rs run_migrations).                                      *)
OpensCurrent == OpenMeansCurrent /\ TotalsAsFound /\ AloneSucceeds

(* No statistics of a known tool are lost on the way from one schema to    *)
(* the next, with the same exception.                                      *)
Known == {Tool} \cap (disk.calls \cup disk.stats)

RowsKept == [][Known \subseteq Known']_vars

(* "Empty table from failed migration - safe to drop" (sqlite_writer.rs:   *)
(* 928): the tool_stats that a process is about to drop is empty, and the  *)
(* tool_calls that takes its place is there.                               *)
DropIsSafe == \A p \in Procs : At(p, "drop") => Has("tool_calls") /\ disk.stats = {}

(* "Migration 2 -> 3: Update total_tokens GENERATED column to include      *)
(* cache and audio tokens" (sqlite_writer.rs:604): a store that opens has  *)
(* the formula of version 3.                                               *)
TotalsIncludeAll == \A p \in Procs : At(p, "open") => disk.totals

(* A database written by a newer release is refused: the error message of  *)
(* run_migrations says so.                                                 *)
NewerIsRefused ==
    \A p \in Procs : At(p, "open") => \A v \in start.disk.versions : v <= Current
=============================================================================
