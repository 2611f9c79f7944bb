------------------------------ MODULE MCDatabase ------------------------------
(* Deployments whose session store is sqlite or postgres.  With sqlite: a  *)
(* new file, one of every released schema, one of a later release, and     *)
(* what a broken 4 -> 5 leaves behind.  With postgres: a server with a     *)
(* default tenant and one without.  Or nothing of these, and a client that *)
(* reads what a sqlite database has been filled with.                      *)
EXTENDS SqliteMigration, PgTenants, SessionQueries

CONSTANTS p1, p2, s1, s2, t1, t2

MCColumns == <<"cache_read_tokens", "audio_input_tokens">>

Empty == [versions |-> {}, tables |-> {}, columns |-> {}, totals |-> FALSE,
          arguments |-> FALSE, calls |-> {}, stats |-> {}]

Old(v) ==
    [Empty EXCEPT !.versions = {v}, !.tables = {"sessions", "session_stats", "tool_calls"},
                  !.columns = IF v = 1 THEN {} ELSE AllColumns, !.totals = v >= 3,
                  !.arguments = v >= 4, !.calls = {Tool, Unknown}]

New(v) ==
    [Empty EXCEPT !.versions = {v},
                  !.tables = {"sessions", "session_stats", "tool_stats",
                              "tool_call_executions", "stream_metrics"},
                  !.columns = AllColumns, !.totals = TRUE, !.stats = {Tool}]

(* tool_stats next to tool_calls *)
Broken(left) == [Old(4) EXCEPT !.tables = @ \cup {"tool_stats"}, !.stats = left]

Both(d) == [who |-> {p1, p2}, disk |-> d]
Alone(d) == [who |-> {p1}, disk |-> d]

MCStarts ==
    {Both(Empty), Both(Old(1)), Both(Old(2)), Both(Old(4)), Both(New(5)),
     Alone(Old(3)), Alone([Old(4) EXCEPT !.versions = {1, 4}]), Alone(Old(1)),
     Alone(Broken({})), Alone(Broken({Tool})), Alone(New(6)),
     [who |-> {}, disk |-> Empty]}

(* Nobody used a tool before two processes bring the file up to date.      *)
ToollessStarts == {Both([Old(4) EXCEPT !.calls = {}])}

MCDefault == [s \in {s1, s2} |-> IF s = s1 THEN t1 ELSE NoTenant]
MCTables == <<"sessions", "tool_stats">>

World(k, S, t) == [kind |-> k, ids |-> S, now |-> t]
MCWorlds ==
    {World("none", {}, 1), World("list", Ids, 3)}
    \cup {World(k, S, 3) : k \in {"search", "timeline"}, S \in kSubset(2, Ids)}
    \cup {World("raw", S, 1) : S \in kSubset(1, Ids)}

Symmetry == Permutations(Ids) \cup Permutations(Agents)

Queried == kind # "none"
UsesPostgres == start.who = {} /\ ~Queried

MCInit == Init /\ PgInit /\ QueryInit /\ (Queried => start.who = {})
MCNext ==
    \/ Next /\ UNCHANGED <<pgVars, queryVars>>
    \/ UsesPostgres /\ PgNext /\ UNCHANGED <<vars, queryVars>>
    \/ Queried /\ QueryNext /\ UNCHANGED <<vars, pgVars>>
MCSpec == MCInit /\ [][MCNext]_<<vars, pgVars, queryVars>>
=============================================================================
