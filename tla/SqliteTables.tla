---------------------------- MODULE SqliteTables ----------------------------
(***************************************************************************)
(* lunaroute-session/src/sqlite_writer.rs: what one batch of session       *)
(* events does to the tables.  A batch is one transaction: an event that   *)
(* fails rolls back all of it.                                             *)
(*                                                                         *)
(* Only the columns that several events write, or that a foreign key or a  *)
(* unique index is about, are kept: the outcome and the tokens of a        *)
(* session (all eight token columns are updated in the same way), the      *)
(* count of a tool, the name of an execution, the number of stats rows.    *)
(***************************************************************************)
EXTENDS Integers, Sequences, SequencesExt

CONSTANTS
    Sessions,      \* session ids
    ValidIds,      \* those validate_session_id accepts
    Requests,      \* request ids; a tool call is named by the request it answers
    Tool,          \* the name of the tool that is called
    Unknown        \* the name recorded for a call nobody knows

NoExecution == "none"

ASSUME TablesAssumption ==
    /\ ValidIds \subseteq Sessions
    /\ Tool # Unknown /\ NoExecution \notin {Tool, Unknown}

(* Events carry only the fields some statement reads. *)
Blank(kind, s, r) ==
    [kind |-> kind, session |-> s, request |-> r, call |-> r, tool |-> Unknown,
     result |-> FALSE, tokens |-> 0, calls |-> 0, ok |-> TRUE, streamed |-> FALSE]

NoRow == [there |-> FALSE, outcome |-> "none", tokens |-> 0]
NewRow == [NoRow EXCEPT !.there = TRUE]

EmptyTables ==
    [rows    |-> [s \in Sessions |-> NoRow],
     counts  |-> [k \in Requests \X {Tool, Unknown} |-> 0],     \* tool_stats.call_count
     execs   |-> [k \in Requests \X Requests |-> NoExecution],  \* tool_call_executions
     stats   |-> [r \in Requests |-> 0],                        \* rows of session_stats
     streams |-> [r \in Requests |-> 0]]                        \* rows of stream_metrics

Larger(a, b) == IF a >= b THEN a ELSE b

-----------------------------------------------------------------------------
(* A child row needs the session's row: foreign keys are enforced.         *)
Inserts(e) ==
    \/ e.kind \in {"response", "tool", "stats"}
    \/ e.kind = "completed" /\ (e.streamed \/ e.calls > 0)

Fails(db, e) == Inserts(e) /\ ~db.rows[e.session].there

(* Started: ON CONFLICT(session_id) DO NOTHING. *)
Started(db, e) ==
    IF db.rows[e.session].there THEN db
    ELSE [db EXCEPT !.rows[e.session] = NewRow]

(* Columns no other event writes: an UPDATE, which is no error when the    *)
(* row is missing.                                                         *)
StreamStarted(db, e) == db
RequestRecorded(db, e) == db

(* The tokens are set, not raised; the emitters send no tool calls here.   *)
ResponseRecorded(db, e) ==
    [db EXCEPT !.rows[e.session].tokens = e.tokens, !.stats[e.request] = @ + 1]

(* Both tables at once: the count of the tool goes up, the execution keeps *)
(* the name it was inserted with.                                          *)
ToolCallRecorded(db, e) ==
    [db EXCEPT
        !.counts[<<e.request, e.tool>>] = @ + 1,
        !.execs[<<e.request, e.call>>] = IF @ = NoExecution THEN e.tool ELSE @]

(* Mutant of RaisedTokens: the tokens of the last event win. *)
WrongRaisedTokens(db, e) == [db EXCEPT !.rows[e.session].tokens = e.tokens]

(* MAX(COALESCE(tokens, 0), ?) *)
RaisedTokens(db, e) == [db EXCEPT !.rows[e.session].tokens = Larger(@, e.tokens)]

(* handle_session_completed, with insert_tool_calls (the count is replaced)*)
(* and insert_streaming_metrics (a plain INSERT).                          *)
Completed(db, e) ==
    LET closed == IF db.rows[e.session].there
                  THEN [RaisedTokens(db, e) EXCEPT
                           !.rows[e.session].outcome = IF e.ok THEN "success" ELSE "error"]
                  ELSE db
        counted == IF e.calls > 0
                   THEN [closed EXCEPT !.counts[<<e.request, Tool>>] = e.calls] ELSE closed
    IN  IF e.streamed THEN [counted EXCEPT !.streams[e.request] = @ + 1] ELSE counted

(* Mutant of StatsUpdated: the count is replaced, as insert_tool_calls does.*)
WrongStatsUpdated(db, e) ==
    [RaisedTokens(db, e) EXCEPT
        !.counts[<<e.request, Tool>>] = IF e.calls > 0 THEN e.calls ELSE @,
        !.stats[e.request] = @ + 1]

(* handle_stats_updated: the count of a tool is raised to the summary's.   *)
StatsUpdated(db, e) ==
    [RaisedTokens(db, e) EXCEPT
        !.counts[<<e.request, Tool>>] = Larger(@, e.calls), !.stats[e.request] = @ + 1]

Applied(db, e) ==
    CASE e.kind = "started"   -> Started(db, e)
      [] e.kind = "first"     -> StreamStarted(db, e)
      [] e.kind = "request"   -> RequestRecorded(db, e)
      [] e.kind = "response"  -> ResponseRecorded(db, e)
      [] e.kind = "tool"      -> ToolCallRecorded(db, e)
      [] e.kind = "stats"     -> StatsUpdated(db, e)
      [] e.kind = "completed" -> Completed(db, e)

(* write_batch: all ids are validated before the transaction begins; the   *)
(* first statement that fails ends it.                                     *)
Refused == [failed |-> TRUE]

Statement(tx, e) ==
    IF tx.failed \/ Fails(tx.db, e) THEN Refused
    ELSE [failed |-> FALSE, db |-> Applied(tx.db, e)]

Transaction(db, batch) ==
    LET tx[i \in 0 .. Len(batch)] ==
            IF i = 0 THEN [failed |-> FALSE, db |-> db] ELSE Statement(tx[i - 1], batch[i])
    IN  tx[Len(batch)]

WriteBatch(db, batch) ==
    IF \E i \in 1 .. Len(batch) : batch[i].session \notin ValidIds THEN Refused
    ELSE Transaction(db, batch)
=============================================================================
