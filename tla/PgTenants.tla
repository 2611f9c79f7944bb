----------------------------- MODULE PgTenants -----------------------------
(***************************************************************************)
(* The two PostgreSQL stores that several servers share:                   *)
(* lunaroute-session-postgres (migrations and session events of many       *)
(* tenants), behind lunaroute-session's TenantScopedStore, and             *)
(* lunaroute-config-postgres (a configuration per tenant with its history  *)
(* and its change notifications).                                          *)
(*                                                                         *)
(* Every SQL statement is a step; a server may stop between any two.       *)
(***************************************************************************)
EXTENDS Integers, Sequences, FiniteSets, SequencesExt

CONSTANTS
    Servers,        \* processes that open the stores
    Tenants,        \* tenant ids
    NoTenant,       \* None
    DefaultTenant,  \* TenantScopedStore.default_tenant of each server
    Times,          \* started_at of the requests of a session
    Values,         \* configurations
    Migrations,     \* number of entries of MIGRATIONS
    Tables,         \* tables that become hypertables, sessions first
    MaxVersion      \* bound on updates of one configuration

ASSUME PgAssumption ==
    /\ NoTenant \notin Tenants
    /\ DefaultTenant \in [Servers -> Tenants \cup {NoTenant}]
    /\ Migrations \in Nat \ {0} /\ MaxVersion \in Nat

VARIABLES
    phase,         \* what each server does next
    seen,       \* applied_versions it has read
    remaining,       \* migrations, then tables, it has still to go through
    applied,    \* schema_migrations
    objects,    \* migrations whose tables or indexes exist
    rows,       \* sessions: a row per tenant and start (the session id is the same)
    configs,    \* tenant_configs: version and value
    history,    \* tenant_config_history of each tenant
    last        \* auxiliary: tenant and result of the last call

dbs == <<applied, objects>>
data == <<rows, configs, history, last>>
pgVars == <<phase, seen, remaining, dbs, data>>

NoConfig == [version |-> 0]

PgInit ==
    /\ phase = [s \in Servers |-> "off"]
    /\ seen = [s \in Servers |-> {}]
    /\ remaining = [s \in Servers |-> << >>]
    /\ applied = {} /\ objects = {}
    /\ rows = [t \in Tenants |-> [k \in Times |-> "none"]]
    /\ configs = [t \in Tenants |-> NoConfig]
    /\ history = [t \in Tenants |-> << >>]
    /\ last = [tenant |-> NoTenant, read |-> {}]

Enter(s, l) == phase' = [phase EXCEPT ![s] = l]
Proceed(s) == remaining' = [remaining EXCEPT ![s] = Tail(@)]

-----------------------------------------------------------------------------
(* Opening the session store *)

(* run_migrations reads the applied versions once. *)
ReadApplied(s) ==
    /\ phase[s] = "off"
    /\ seen' = [seen EXCEPT ![s] = applied]
    /\ remaining' = [remaining EXCEPT ![s] = [i \in 1 .. Migrations |-> i]]
    /\ Enter(s, "apply")
    /\ UNCHANGED <<dbs, data>>

SkipMigration(s) ==
    /\ phase[s] = "apply" /\ remaining[s] # << >> /\ Head(remaining[s]) \in seen[s]
    /\ Proceed(s)
    /\ UNCHANGED <<phase, seen, dbs, data>>

(* Mutant of ApplyMigration: the version is recorded before its SQL runs. *)
WrongApplyMigration(s) ==
    /\ phase[s] = "apply" /\ remaining[s] # << >> /\ Head(remaining[s]) \notin seen[s]
    /\ applied' = applied \cup {Head(remaining[s])}
    /\ Enter(s, "record")
    /\ UNCHANGED <<seen, remaining, objects, data>>

(* up_sql is IF NOT EXISTS and needs what the migrations before it made.   *)
ApplyMigration(s) ==
    /\ phase[s] = "apply" /\ remaining[s] # << >> /\ Head(remaining[s]) \notin seen[s]
    /\ LET m == Head(remaining[s]) IN
       IF 1 .. m - 1 \subseteq objects
       THEN objects' = objects \cup {m} /\ Enter(s, "record")
       ELSE Enter(s, "failed") /\ UNCHANGED objects
    /\ UNCHANGED <<seen, remaining, applied, data>>

(* ON CONFLICT DO NOTHING *)
RecordMigration(s) ==
    /\ phase[s] = "record"
    /\ applied' = applied \cup {Head(remaining[s])}
    /\ Proceed(s)
    /\ Enter(s, "apply")
    /\ UNCHANGED <<seen, objects, data>>

(* With TimescaleDB the tables are converted. *)
Migrated(s) ==
    /\ phase[s] = "apply" /\ remaining[s] = << >>
    /\ \E timescale \in BOOLEAN :
          /\ remaining' = [remaining EXCEPT ![s] = IF timescale THEN Tables ELSE << >>]
          /\ Enter(s, IF timescale THEN "hyper" ELSE "open")
    /\ UNCHANGED <<seen, dbs, data>>

(* create_hypertable may fail; only for the sessions table that is an error. *)
ConvertTable(s) ==
    /\ phase[s] = "hyper" /\ remaining[s] # << >>
    /\ \/ Proceed(s) /\ UNCHANGED phase
       \/ Head(remaining[s]) = Tables[1] /\ Enter(s, "failed") /\ UNCHANGED remaining
    /\ UNCHANGED <<seen, dbs, data>>

Converted(s) ==
    /\ phase[s] = "hyper" /\ remaining[s] = << >>
    /\ Enter(s, "open")
    /\ UNCHANGED <<seen, remaining, dbs, data>>

StopServer(s) ==
    /\ phase[s] # "off"
    /\ Enter(s, "off")
    /\ remaining' = [remaining EXCEPT ![s] = << >>]
    /\ seen' = [seen EXCEPT ![s] = {}]
    /\ UNCHANGED <<dbs, data>>

-----------------------------------------------------------------------------
(* Session events *)

(* TenantScopedStore: an explicit tenant wins over the default; the store  *)
(* refuses a call without one.                                             *)
Resolve(s, arg) == IF arg # NoTenant THEN arg ELSE DefaultTenant[s]

Call(s, t, read) ==
    /\ phase[s] = "open"
    /\ last' = [tenant |-> t, read |-> read]
    /\ UNCHANGED <<phase, seen, remaining, dbs>>

(* Started: ON CONFLICT DO NOTHING.  The time of the start is part of the  *)
(* key, so a later request of the session gets a row of its own.           *)
Inserted(t, k) == [rows EXCEPT ![t][k] = IF @ = "none" THEN "started" ELSE @]

Touched(row) == IF row = "started" THEN "updated" ELSE row

(* Mutant of Updated: the WHERE clause without the tenant. *)
WrongUpdated(t) == [u \in Tenants |-> [k \in Times |-> Touched(rows[u][k])]]

(* The UPDATEs reach all rows of the session. *)
Updated(t) == [rows EXCEPT ![t] = [k \in Times |-> Touched(@[k])]]

RequestRecorded(t) == Updated(t)
ResponseRecorded(t) == Updated(t)
StatsUpdated(t) == Updated(t)

(* Tool calls go into a table without a key of their own; StreamStarted    *)
(* and StatsSnapshot are not stored.                                       *)
ToolCallRecorded(t) == rows

Completed(t) ==
    [rows EXCEPT ![t] = [k \in Times |-> IF @[k] = "none" THEN "none" ELSE "completed"]]

WriteEvent(s) ==
    \E arg \in Tenants \cup {NoTenant} :
        LET t == Resolve(s, arg) IN
        /\ t # NoTenant
        /\ Call(s, t, {})
        /\ rows' \in {Inserted(t, k) : k \in Times}
                    \cup {RequestRecorded(t), ResponseRecorded(t), StatsUpdated(t),
                          ToolCallRecorded(t), Completed(t)}
        /\ UNCHANGED <<configs, history>>

(* The rows of one tenant: session_id is no key, get_session takes any.    *)
Selected(t) == {<<t, k>> : k \in {x \in Times : rows[t][x] # "none"}}

Read(s, t, found) == Call(s, t, found) /\ UNCHANGED <<rows, configs, history>>

Search(s) ==
    \E arg \in Tenants \cup {NoTenant} :
        LET t == Resolve(s, arg) IN t # NoTenant /\ Read(s, t, Selected(t))

GetSession(s) ==
    \E arg \in Tenants \cup {NoTenant} :
        LET t == Resolve(s, arg) IN t # NoTenant /\ \E x \in Selected(t) : Read(s, t, {x})

(* LIMIT and OFFSET *)
ListSessions(s) ==
    \E arg \in Tenants \cup {NoTenant} :
        LET t == Resolve(s, arg) IN
        t # NoTenant /\ \E page \in SUBSET Selected(t) : Read(s, t, page)

-----------------------------------------------------------------------------
(* Configurations.  The NOTIFY that follows a commit changes no table and  *)
(* is left out.                                                            *)

(* Mutant of UpdateConfig: the history is not part of the transaction. *)
WrongUpdateConfig(s, t) ==
    /\ configs[t].version < MaxVersion
    /\ \E v \in Values, both \in BOOLEAN :
          LET new == [version |-> configs[t].version + 1, value |-> v] IN
          /\ configs' = [configs EXCEPT ![t] = new]
          /\ history' = IF both THEN [history EXCEPT ![t] = Append(@, new)] ELSE history
    /\ Call(s, t, {})
    /\ UNCHANGED rows

(* The transaction of update_config: the upsert locks the row, so versions *)
(* and history entries are written in the same order.                      *)
UpdateConfig(s, t) ==
    /\ configs[t].version < MaxVersion
    /\ \E v \in Values :
          LET new == [version |-> configs[t].version + 1, value |-> v] IN
          /\ configs' = [configs EXCEPT ![t] = new]
          /\ history' = [history EXCEPT ![t] = Append(@, new)]
    /\ Call(s, t, {})
    /\ UNCHANGED rows

(* The history goes with the configuration (ON DELETE CASCADE).            *)
DeleteConfig(s, t) ==
    /\ configs[t] # NoConfig
    /\ configs' = [configs EXCEPT ![t] = NoConfig]
    /\ history' = [history EXCEPT ![t] = << >>]
    /\ Call(s, t, {})
    /\ UNCHANGED rows

-----------------------------------------------------------------------------
OpenStore(s) ==
    \/ ReadApplied(s) \/ SkipMigration(s) \/ ApplyMigration(s) \/ RecordMigration(s)
    \/ Migrated(s) \/ ConvertTable(s) \/ Converted(s)

PgNext ==
    \E s \in Servers :
        \/ OpenStore(s) \/ StopServer(s)
        \/ WriteEvent(s) \/ Search(s) \/ GetSession(s) \/ ListSessions(s)
        \/ \E t \in Tenants : UpdateConfig(s, t) \/ DeleteConfig(s, t)

PgSpec == PgInit /\ [][PgNext]_pgVars

-----------------------------------------------------------------------------
(* A recorded migration has been executed, and a store that opens has the  *)
(* whole schema, also when servers migrate side by side and die between a  *)
(* migration and its record: a restart skips what is recorded.             *)
RecordedMeansApplied ==
    /\ applied \subseteq objects
    /\ \A s \in Servers : phase[s] = "open" => 1 .. Migrations \subseteq objects

(* A call made for one tenant changes and returns nothing of another.      *)
TenantsApart ==
    [][/\ \A t \in Tenants \ {last'.tenant} :
              rows'[t] = rows[t] /\ configs'[t] = configs[t] /\ history'[t] = history[t]
       /\ \A x \in last'.read : x[1] = last'.tenant]_pgVars

(* The audit history of a tenant holds every version of its configuration, *)
(* in order, and ends with the current one, whichever servers wrote them.  *)
HistoryIsComplete ==
    \A t \in Tenants :
        /\ Len(history[t]) = configs[t].version
        /\ \A i \in DOMAIN history[t] : history[t][i].version = i
        /\ history[t] # << >> => Last(history[t]) = configs[t]
=============================================================================
