# A formal model of LunaRoute

LunaRoute is a proxy for language-model APIs: it takes OpenAI- and
Anthropic-style requests, routes them to providers, translates between the
dialects, streams the answers back and records the sessions. This directory
holds TLA+ modules for the parts of it whose correctness depends on
concurrency, failure and order, TLC configurations that check them on small
instances, and TLAPS proofs, for instances of any size, of what matters most
about seven of the parts. All source paths below are relative to `crates/`.

## The system

| component | state | operations | interacts with |
|---|---|---|---|
| circuit breaker (`lunaroute-routing/src/circuit_breaker.rs`) | four atomics: state, failure and success counter; a mutex with the time of the last change | `allow_request`, `record_success`, `record_failure`, `force_open`, `force_close` | called by the router, by many tasks at once |
| strategy (`strategy.rs`) | rotation counters, map provider → rate limit | `select_provider`, `record_rate_limit`, `clear_expired_rate_limits` | called by the router |
| router (`provider_router.rs`) | one breaker per provider, one strategy state per rule | `send`, `stream`, `try_provider` | calls strategy, breaker, health monitor, provider |
| route table (`router.rs`), notification (`notification.rs`), health (`health.rs`) | rules; nothing; success and failure counters | `find_route`; message building; `record_*`, `get_status` | used by the router |
| ingress handlers (`lunaroute-ingress/src/openai.rs`, `anthropic.rs`, `responses_ws.rs`) | a stream and its parser per request, the map of tool calls | one handler per endpoint and dialect, streams, background parsers, frames of a WebSocket | router, connectors, session store |
| connectors (`lunaroute-egress`) | an HTTP client, the cached token of a Codex login | retry loop, headers and credentials, request and answer translation, stream translation | providers |
| recording provider (`lunaroute-session/src/session_store_recording_provider.rs`) | the stream being recorded | `send`, `stream`, poll, drop | wraps a provider, calls the session store |
| multi-writer recorder (`writer.rs`) | bounded channel, worker buffer, shutdown signal, worker handle | `record_event`, worker loop, `flush`, `shutdown`, drop | session store above, writers below |
| sqlite writer (`sqlite_writer.rs`) | the session database | `write_batch`, the handlers of the events, schema and migrations | called by the worker |
| JSONL writer (`jsonl_writer.rs`) | cache of open files, map of files being opened | `write_event`, `flush`, eviction | called by the worker |
| file session recorder (`recorder.rs`), its recording provider (`recording_provider.rs`) | a directory per session | start, record, complete, get, query, delete | wraps a provider |
| import (`import.rs`, `tools/backfill-sqlite`) | nothing | reads the JSONL files, fills the tables | after the sqlite writer |
| cleanup (`cleanup.rs`) | nothing between two sweeps | delete, compress, trim | the JSONL writer's files |
| session stores (`lunaroute-session-sqlite`, `lunaroute-session-postgres`, `TenantScopedStore`) | a recorder; a connection pool | `write_event`, `search`, `list_sessions`, migrations | ingress and UI |
| configuration stores (`lunaroute-config-postgres`, `lunaroute-config-file`) | a row and a history per tenant; a file | update, delete, notify | server |
| storage (`lunaroute-storage`) | a map with a copy in a file, directories of sessions, lock files | atomic replace, rolling write, lock | a library for the stores of sessions and state |
| server (`lunaroute-server`), markers, bypass (`lunaroute-ingress/src/marker.rs`, `bypass.rs`) | configuration; registry of providers | load, merge, set up; choose and strip; forward | everything above |
| pii (`lunaroute-pii`, `pii_redaction.rs`) | patterns, a key | detect, merge, redact | session library |
| observability, UI, core | counters; nothing | export; queries | everything |

Where it is hard:

* **breaker**: state, counters and time are separate atomics, so calls
  interleave access by access and act on a state read earlier;
* **router**: a request awaits its provider while others open breakers, record
  rate limits and rotate the strategy; limits expire meanwhile; callers cancel;
* **recorder**: bounded queue, a `select!` that takes any ready branch, writers
  that fail, a shutdown that races with events and with other flushes;
* **recording**: events of a request are written by spawned tasks, in any
  order, or never when the call is dropped; one transaction holds events of
  many sessions, and one that fails takes the others with it;
* **database files**: a migration of many statements without a transaction may
  stop anywhere, or run in two processes at once;
* **session files**: tasks wait for another task that opens a file, handles are
  evicted with data in them, midnight changes the key, cleanup removes files
  that are open;
* **file stores**: writers of one file share the name of its temporary file, a
  directory is removed while others write in it, a lock is a file that can be
  removed;
* **import**: a program that may be killed, or run again, fills tables that
  count what they are told;
* **credentials**: the client's, a key, and a login that is cached and read
  again, in six copies of the code that sends a request;
* **translation**: a stream of one dialect becomes a well-formed stream of the
  other, also when it breaks; identifiers and roles survive a round trip;
* **server**: settings from four sources decide which providers exist; rules,
  markers and bypass name providers again, each on its own, and a conversation
  must find the provider of its beginning in every later request.

What makes each component correct, in a sentence: a breaker shields an open
provider, always recovers, and loses no decision; the router tries everything
its rule names, once, and says truthfully what it did; the recorder stores what
it accepted, in order, or says it did not; recorded rows agree with each other
whatever order their events came in; a database that opens has the tables and
columns it needs, and its rows survive; an acknowledged event is in a file; an
index file is what the index is in memory; a tenant sees and changes
only its own; a client gets what the provider said, in its own dialect, from a
provider that is there and, during a chain of tool calls, the same one.

## Modules

| module | models | role |
|---|---|---|
| `CircuitBreaker` | every atomic access of `circuit_breaker.rs` by any number of threads | component |
| `BreakerOps` | the same calls as functions on one record | pure operators |
| `AtomicBreaker` | one step per call: the breaker as its module comment describes it | abstract specification |
| `SerialBreaker` | `CircuitBreaker` with calls that do not overlap, and the mapping to `AtomicBreaker` | refinement |
| `ProviderRouter` | `send`, `stream` and `try_provider` of concurrent requests of one rule, with strategy, rate limits, breakers (`BreakerOps`) and fallbacks | composition |
| `Recorder` | `record_event`, the worker, `flush`, `shutdown`, drop | component |
| `EventLog` | a log of which every reader has a prefix, until it is closed | abstract specification |
| `SqliteTables` | what a batch of session events does to the tables of the sqlite writer | pure operators |
| `SessionRecording` | the handlers of both dialects, the recording provider, their spawned tasks and parsers, the channel, and the writer (`SqliteTables`) | composition |
| `SqliteMigration` | `initialize_schema` and `run_migrations`, statement by statement, with crashes and a second process | component |
| `PgTenants` | the two postgres stores behind `TenantScopedStore`, with their migrations, shared by servers and tenants | component |
| `SessionFiles` | the JSONL writer's cache and the cleanup sweep over the same files | composition |
| `FileStores` | the stores of `lunaroute-storage` and their files, system call by system call | component |
| `SessionQueries` | the pages of the web UI with their scripts and queries, search and aggregates of the sqlite writer, the lookup of a session's file | component |
| `FileRecording` | a call through the older recording provider into the directory of its session, beside a client that reads or deletes it | composition |
| `Import` | `import_sessions` and the backfill script over a directory of session files | component |
| `StreamTranslation` | the stream readers of both connectors and the stream writers of the handlers | composition |
| `Conversation` | requests and answers of a conversation through both translations, with retries | composition |
| `Redaction` | detection, merging and redaction of one text | pure operators with two steps |
| `Connector` | the headers and credentials of every path to a provider, with the token of a Codex login | composition |
| `BodyChanges` | what a connector makes of the body of a request | pure operators |
| `ResponsesSocket` | one WebSocket connection of the Responses API, its client, and the streams that answer it | component |
| `StreamMetrics` | a passthrough stream: its tracker, the events kept of it, and the parser that reads them | pure operators with a stream around them |
| `Server` | where the configuration comes from, what `main()` sets up from it, and where requests go, with markers and bypass | composition |
| `RecorderProofs` | theorems about `Recorder` and `FileRecording` | proofs |
| `ProviderRouterProofs`, `SessionRecordingProofs` | theorems about the module they are named after | proofs |
| `FilesProofs` | theorems about `SessionFiles` and `FileStores` | proofs |
| `DatabaseProofs` | theorems about `SqliteMigration` and `PgTenants` | proofs |
| `RequestProofs` | theorems about `Connector`, `Server` and `ResponsesSocket` | proofs |
| `CircuitBreakerProofs` | theorems about `CircuitBreaker`; `SerialBreaker` implements `AtomicBreaker` | proofs |
| `DataLemmas` | induction up to a number, the least element, sequences with one more element | proofs |
| `MC*` | constants of the instances | TLC |

Operators whose name starts with `Wrong` are mutants of the definition that
follows them: a plausible mistake in that piece of code. They are not part of
any specification; each shows that a property would notice the mistake.
`PROJECT.json` names for every definition the lines of code it stands for.

### CircuitBreaker

A thread is `idle`, has a request `inflight`, or is inside one of the calls; its
program counter is named after what it does next. `seen` is the local variable
that holds a counter's new value, `goal` the state a pending transition stores.
`allow_request` is `AllowAtOnce`, `SeeOpen`, `Reject`, `TimeoutExpired`,
`WinProbe` and `LoseProbe`; `record_success` is `CallSucceeds`,
`ClearFailures`, `CountSuccess`, `CheckSuccess`; `record_failure` is
`CallFails`, `CountFailure`, `CheckFailure`, `Reopen`, `TrackFailure`; the
transitions are `StoreState`, `Stamp`, `ZeroFailures`, `ZeroSuccesses`.
`Abandon` is an admitted call whose result is never recorded. Time is the age
of the timestamp, counted up to the timeout. Memory is sequentially
consistent; the code uses Acquire/Release on single locations, and weaker
orders are not modelled.

`CheckSuccess` and `CheckFailure` clear the other counter and decide in one
step: the decision reads only the thread's own variable, so no other thread can
tell the order. The breaker that the router keeps is the record of
`BreakerOps`; `SerialBreaker` shows that this record is what the atomics
implement when calls do not overlap, forced transitions included in
`AtomicBreaker` and in the proof.

### ProviderRouter

A request goes `new` → `try` → `await` → (`reselect` | `fallback`) → … →
`done`. It is at rest only while it awaits; every other location is there to let
other requests run in between, as the runtime may. `rule` is the rule of the
instance and never changes. `limits` is the rate-limit map with the ticks left
of each entry, `position` the rotation counter, wrapped at `MaxUsize`.
`contacted`, `refused`, `streak` and `owed` are auxiliary: they record history
for the properties and influence nothing. The health monitor is left out: the
router writes it and never reads it. All requests match the same rule.
A notice is `reason` only for requests that may get one (`IsTold`): the router has
notifications on (`rule.notifies`), and the client's first message does not begin
like a notice itself (`rule.marked`). Every attempt starts from a copy of the
client's request, so an earlier attempt's notice is not in the way of a later one.

### Recorder

An event is its session and its number there. `queue` is the channel, `buffer`
the worker's vector, `batch` and `pending` a flush that is under way, with the
writers that have not finished. `select!` picks any ready branch: `Receive`,
`TimedFlush` and `Shutdown` are all enabled together; `Exit` drops the channel.
The `else` branch of `select!` cannot run, because the timer branch is never
disabled, and is left out. A writer of `Faulty` may get part of a batch done:
a prefix (event by event), some sessions (the JSONL writer groups by session),
or nothing (one transaction); the worker only logs that. `lost`, `accepted`,
`before` and `sent` (as far as numbering goes) are auxiliary. A `flush()` that
is dropped while it waits, and a runtime that is torn down, are not modelled.

### SessionRecording and SqliteTables

A request has a handler and a session: `send` and `stream` are the recording
provider, `messages*` and `chat*` the passthrough handlers, `responses*` and
`socket` the Responses API over HTTP and over a WebSocket, `messages_cross` a
messages request that goes to an OpenAI provider. `tasks[r]` are the tasks the
handler has spawned, each a sequence of events still to be written; any of them
may write next (`WriteEvent`), which is how events overtake one another. The
channel and worker are the abstract log: `Commit` hands a prefix of the queue
to `WriteBatch`, which validates all ids, then applies the events in order, and
is undone as a whole by the first statement that fails. `spoiled` records that
an event was dropped or a batch rolled back. The requests of a mix are finitely
many, and a routed request shares its session with no other: the recording
provider makes up the id (a UUID,
`lunaroute-session/src/session_store_recording_provider.rs:190`, `:248`); the
other handlers take whatever session the client names.

What the module shows besides its properties, each of it visible in its
definitions: the OpenAI handlers do not validate the client's session id
(`lunaroute-ingress/src/openai.rs:945`, `:984`), while `write_batch` refuses a
batch for one bad id (`sqlite_writer.rs:1537`), so such a client costs others
their events; a task may overtake the task that writes `Started`, and the
foreign key then rolls the batch back - only the recording provider is safe
from that (`StartedLeads`); the body of a `messages` answer does not teach the
tool mapper (`anthropic.rs:2081`), so its results are recorded under
`unknown`; a result is recorded again with every later request; a request
answered across dialects is not recorded at all (`anthropic.rs:1505`, a TODO);
a passthrough stream whose client leaves has no `Completed`.

### SqliteMigration

One step per SQL statement of `initialize_schema` and `run_migrations`; `Stop`
ends the process between any two. `disk` is the database: version rows, tables,
token columns, tools with statistics. Indexes are left out. The branch of
migration 2 → 3 that rebuilds the sessions table is left out because it cannot
be reached, which is a conjunct of `OpensCurrent`. It is not to the good: the test
in front of it (`sqlite_writer.rs:488`) looks for two column names that migration
1 → 2 has just added, so the formula of `total_tokens`, for which the branch is
there, stays what it was. `disk.totals` says whether the formula is the new one;
`TotalsAsFound`, another conjunct, says that only a new table gets it, and
`TotalsIncludeAll`, among the disagreements below, that every store should. Two processes migrate a file
at once only where no attempt has left a `tool_stats` beside `tool_calls` and
the latter counts a known tool; elsewhere one may drop the table that the other
has just renamed (run `migration_race`).

### PgTenants

Opening a store is `ReadApplied` … `Converted`, statement by statement; the
events and queries of an open store carry a tenant that `Resolve` (the
`TenantScopedStore`) completes. `UpdateConfig` and `DeleteConfig` are
transactions of the configuration store. NOTIFY and the watcher change no table
and are left out, as are the cleanup and statistics stubs and the state of a
hypertable.

### SessionFiles

A task is in `write_event` between the locks `file_cache` and `pending_ops`:
`CheckCache`, `Claim`, `Listen`, `OpenFile`, `Push`, `FlushEvicted`, `Unmark`,
`Write`. A crew of one task is the recorder's worker, which flushes after each
batch; a crew of two calls the writer directly, with two events, one midnight
and no cleanup. The sweep goes through its list file by file (`DeleteOld`,
`ReadPlain`, `WritePacked`, `UnlinkPlain`, `Trim`), while the writer runs; it
goes by the ages that the files had when it listed them (`sweep.old`), also when
a later step of it falls on the next day. A batch takes less than a day, and the age of a file is the midnights since its
last change; `validate()` demands `1 <= CompressAfter < MaxAge`. `exempt` are
the acknowledged events that no file has to hold: what retention deletes, what
the writer reported as lost, what a failing flush of an evicted handle loses
(its error is ignored), what is written over midnight, and what is written to a
file that was deleted while its handle was open. `MaxFaults` bounds I/O errors
and crashes together.

### FileStores

An instance is a session store, a state store or a lock. The first two keep a
map in memory and write it to one file: `Snapshot`, `CreateTemp`, `Fill`,
`Rename` are `persist()` through `AtomicWriter`, whose temporary file has one
name for all writers; inodes are numbers, so a name can be renamed or removed
under an open handle. `SessionIndex` holds its read lock over all four steps,
`FileStateStore` only over the first. `AppendEvent` and `EndLine` are one
`append_stream_event`, which opens a `RollingWriter` of its own and writes the
event and its newline separately; `DeleteSessions`, `RemoveDir`, `DropEntry`
are `delete_session` and `prune`. `OpenLock`, `Flock`, `Unlock` and
`RemoveLockFile` are a `FileLock`. `StoreCrash` restarts the process with what the
file holds. `mixed` are the sessions of which two appends overlapped or one
broke off; of the others the events are read back in order.

### FileRecording

One call, `send` or `stream`, step by step (`at` is where the caller is), the
tasks a stream spawns (`RecordEvent` … `NameTool`, `BeginClosing`,
`EndClosing`), and `reader`, another client of the same recorder. `fs::write` is
`Truncate`, then `FillMetadata`, and may stop between; a text and its newline
are two writes; each may fail (`MaxErrors`). The caller may leave at any await
(`Leave`). What is recorded is a number: request 0, response -1, a stream event
its place. The directory of the session is the only one.

### Import

`program` is the one that runs, with the files it has still to do: `StartImport`,
`ImportFile`, `ImportEvent` (one transaction per event, through
`SqliteTables`), `StartBackfill`, `BackfillFile`; `Kill` ends it between any two
transactions, and `Vanish` is the server's cleanup that deletes or compresses a
file meanwhile. Progress and reports are left out.

What the definitions show besides: a session that was imported in part is
skipped by every later import that skips; so are the files of later days of a
session of which the first is there; compressed files are never looked at; one
line that does not parse fails its whole file; and the script looks for two
kinds of events (`tool_call_executed`, `stream_metrics_recorded`) that no
`SessionEvent` has.

### SessionQueries

`records`, `answers`, `usage` and `lines` are the tables `sessions`,
`session_stats`, `tool_stats` and the JSONL files, which the writers of the other
modules fill; `reader` is a client. The list of sessions is `OpenList`,
`LoadSessions` (also the automatic refresh), `NextPage`, `PreviousPage`; the
search counts and reads in two statements (`CountMatches`, `SearchPage`), so
sessions may come in between; a timeline is scrolled (`LoadTimeline`). Every
time limit compares a text with a `T` to one with a space, which makes the whole
day of the limit count: `InWindow` is by day. The statistics are operators over
the rows. Sums of tokens and costs follow the rows that are counted and are left
out; the sort orders by duration are like the one by tokens.

What the definitions show besides: `list_sessions` rounds the offset down to a
multiple of the limit and divides by it (`session_store.rs:145` of
`lunaroute-core` calls it the "Number of sessions to skip"); a search in the
order of tokens or by outcome may miss a session that changes between two
pages; the models that the list offers include requested ones, of which its
filter may find no session; a timeline in descending order is ascending within
a page; of a session that goes on for days only one file is read.

### StreamTranslation

The streams are pulled, so one wire event goes all the way in one step: what
`create_openai_stream` or `create_anthropic_stream` makes of it, and what
`chat_completions`, `messages` or the cross-dialect branch of
`messages_passthrough` sends for that. A fragment of text or of a call's
arguments is its position in the answer. The provider may say anything its
interface allows, stop early, send an event that does not parse, and an
Anthropic provider blocks of a kind the code does not know. Pings and unknown
events are left out; providers say their calls one after another, as the
interfaces do.

### Conversation

A turn is the client's whole history in its dialect, normalized by the handler,
turned into the provider's request, answered, and turned back. `Retry` is the
loop of `with_retry`: an attempt may have been answered by the provider without
the client ever seeing it. Validation of parameters and sizes, hash collisions
of tool identifiers and identifiers without any valid character are left out.

### Redaction

A text is its length and the intervals that the regular expressions find in it;
`Detect` applies the validation and the thresholds, `MergeOverlapping` is the
fold of the sorted detections, `Redact` the pieces of the output: a position of
the text, or what stands for a detection. `GiveText` and `RedactRequest`,
`RedactResponse`, `RedactStreamEvent`, `PassOver` put a text in a place of a
message and say which places the service looks at. `service` is what it made of
its settings. No path of the server uses the service, although
`README.md:108` of the repository has redaction among its features.

### Connector

`setup` is a connector or the bypass with its settings, `file` the Codex login
on disk, `token` the cached one, `calls` the requests of the callers. A path is
named for the handler behind it. A request arrives with the headers that its
handler lets pass (`Arrive`), gets its credential (`FallBack`, `ReadToken`,
`FillCache`: the lock is free between the look at the cache, the file and the
filling), the account of the login (`GetAccount`, read for each attempt), and
is sent; each copy of the sender in the code is an action (`SendChat` …
`Bypassed`). `Answered` is the answer or the next attempt, `LogIn` another
login or a file that cannot be read. A header is a name and the source of its
value. A body is a tree and its changes a constant operator, `WithChanges`: the
recursive ones of `BodyChanges` are given to it by the runs, and `Connector` stays
free of recursion for the proofs.

What the definitions show besides: a token once read is kept for good, although
`codex_auth.rs:4` speaks of "file watching and automatic token refresh"; the
connector is made with `tokens.access_token` whatever field is configured; a
translated request carries no account; configured changes of headers, body and
answer apply to translated requests only, because
`send_passthrough_with_context` is called by no handler; the list of models
forwards the client's `host`; streams report a 429 as an error of the provider;
the bypass to Anthropic adds its key beside the client's `Authorization`; a
configured header "Authorization" may stand beside another one.

### ResponsesSocket

`client` is what the other side waits for and the response it would continue
from, `frames` what it has sent, `served` how many of them `run_ws_session` has
received, `loop` whether it is in `recv`, opening a stream or forwarding one,
`outbox` what it has sent, `upstream` the requests to the provider. A frame is
refused (`Refuse`), a ping, a close, a warm-up that is answered at once, or a
request (`Create`, `OpenStream`); `Forward` passes one event on, `StreamOver` is a
stream that breaks or ends without a terminal event. The client may wait for
answers or not, and may disappear at any time.

### StreamMetrics

`provider` is what was said, `tracker` and `collected` what the handlers keep of
it on the way, `report` what `finalize` and the parser make of that. One action
per kind of event (`MessageStart` … `SayOther`) goes through `Says`, which is the
closure that the handlers put around the stream; `StreamEnds` is the future
chained to it. Arguments of calls come in numbered parts, so the order in which
the parser puts them together shows.

### Server

A launch is a command line, an environment and the files it finds; the first
step (`Configure`) loads and merges the configuration, the second (`SetUp`)
starts or fails. `config` keeps the settings on which the way of a request
depends; one extra provider stands for all. `Connectors`, `Registry`, `Rules`,
`Passthrough`, `Served` and `BypassProvider` are what `main()` makes of it. A
conversation (`Begin`, `Converse`) goes on with the whole history each time, so
the marker is looked for anew; a message has blocks, of which a text has
markers and maybe words. `RequestAside` is every other path. `last` and `aside`
say what became of the requests: sent or routed to whom, in which order, with
which history.

What the definitions show besides: rules in the configuration file are not read
(`main.rs:997` builds its own); with both providers enabled requests are never
routed, so the fallbacks and breakers that `main.rs:6` announces are not in
their way; the bypass forwards the path without its query (`bypass.rs:127`); a
wrong `LUNAROUTE_DIALECT` is warned about as ignored (`config.rs:570`) and then
ends the program, because the command line takes its default from it.

## Runs

| run | instance | properties |
|---|---|---|
| `breaker` | 2 threads, thresholds 2, timeout 1, counters up to 3, forced transitions; or 3 threads one at a time, thresholds 3 and 2 | `NoLostClose`, `Recovery`; `ImplementsDocumented` |
| `router` | LimitsAlternative with 2 providers and a fallback, 2 sends, 429s with and without header, map of 2 entries; or WeightedRoundRobin 2:1, counter wrapping at 2, with a fallback that is not registered, notifications off, 2 sends and a stream; or with a second fallback that is registered, before it, a send and a stream. In the first, one client's message looks like a notice | `EachProviderOnce`, `NoticeTellsTheTruth`, `WeightedShares`, `ProvidersMayRecover`, `EveryRequestEnds` |
| `recorder` | 2 sessions with 2 events, channel 2, batch 2, a healthy and a failing writer, 2 flushes, drop | `Conservation`, `SessionOrder`, `ImplementsLog`, `EventuallyStored`, `FlushReturns` |
| `recording` | 7 mixes of two requests, channel 2, batch 2 | `CountsCoverExecutions`, `OneRowPerRequest`, `StartedLeads`, `TokensNeverShrink`, `RoutedEnds` |
| `database` | a sqlite file, or postgres, or a client that reads. Sqlite, 11 starts: an empty file, each released schema, a newer one, what a broken 4 → 5 leaves; one or two processes. Postgres: 2 servers, 2 tenants, 3 migrations, 2 versions of a configuration. Reading: 3 sessions in the list, 2 in the search and the timeline, 1 in files; pages of one row, 3 times on 2 days, 2 rows of each kind | `OpensCurrent`, `RecordedMeansApplied`, `HistoryIsComplete`, `PagesTellAll`, `RawDataFound`, `RowsKept`, `TenantsApart` |
| `files` | session files, file stores, a recorded call, an import, or the report of a stream. Session files: a worker with 3 events of 2 sessions, 3 midnights, a sweep and a fault (both only with 2 events); two direct users; a cache and a buffer of one. File stores: 2 threads, 2 keys, rolling files of size 3 with events of size 1 and 2, 4 calls, 1 write error or crash. Recorded calls: 7 answers, 6 filters, 1 error. Imports: 3 directories of 2 to 4 files, 6 settings, 2 runs. Streams: 5 events, of which 4 are kept, 2 tools | `AcknowledgedIsKept`, `StoreReadsBack`, `RecordTellsTheTruth`, `ImportIsWhole`, `ReportIsTrue` |
| `translation` | a streamed request, a conversation, a server, a text to be redacted, calls to a provider, or a WebSocket. Streams: every pair of provider and handler, 8 wire events, 4 fragments, 3 calls. Conversations: every pair of dialects with and without configured messages, 2 retries, 9 texts, 3 calls. Servers: some 300 launches, 3 messages of 7 kinds (the third with one model). Texts: 4 positions, 3 kinds of finds (several at once in messages only), 6 settings. Calls: some 100 setups, 2 callers (both with a login only), 2 logins, 1 further attempt. WebSocket: 2 frames of 5 kinds, 2 events of 3 kinds per stream, a client that waits or not | `WellFormed`, `AllArrives`, `DialogueArrives`, `NoRouteToNowhere`, `MarkersStayHere`, `ChainStaysTogether`, `OnlyDetectionsChange`, `OneIdentity`, `BodyArrives`, `TurnsStayApart` |

`database`, `files` and `translation` instantiate several modules, `breaker` one
module twice, of which a behaviour runs one: a deployment has one of the
databases, a request is streamed or not. The largest runs are `database`
(918 872 distinct states), `files` (849 197), `translation` (854 907),
`breaker` (805 663), `recording` (534 754) and `router` (283 494); symmetry of
sessions, agents, threads and keys is used where there is no liveness property.

What the properties of the newer modules say, in a line each:
`CountsCoverExecutions` - a tool's count is never below the number of its
recorded executions, though five kinds of events write either;
`OneRowPerRequest` - a request is not counted twice, however it ends;
`TokensNeverShrink` - in any order of a session's events;
`RoutedEnds` - a stream handed out gets an outcome, also when it is dropped;
`OpensCurrent` - an opened database has all tables and columns after any crashes
and beside another process, a `total_tokens` as old as its table, and a crash never leaves a file that a lone process
cannot open; `RowsKept` - no migration loses statistics (both but for the race of
`migration_race`);
`RecordedMeansApplied`, `HistoryIsComplete`, `TenantsApart` - for servers that
migrate side by side and tenants that share tables;
`AcknowledgedIsKept` - through eviction, midnight, compression and crashes;
`StoreReadsBack` - the index file is never behind, though writers share a
temporary file, and events are read back wherever files roll over;
`RecordTellsTheTruth` - of a session whose files are written by several tasks,
whoever reads it meanwhile; `ImportIsWhole` - in any order of imports, scripts,
kills and deletions;
`WellFormed` - the client's stream nests its blocks, as long as the
provider's did not break; `AllArrives` - nothing said before the end is missing,
twice, or out of order, and arguments of two calls never mix;
`PagesTellAll` - though sessions are inserted between two pages, and whatever a
page joins, groups and filters; `RawDataFound` -
across a midnight;
`DialogueArrives` - questions, answers and results of tools, over several turns; `NoRouteToNowhere` - wherever the settings come from; `MarkersStayHere`
- of the message that was followed, whatever else is in it;
`ChainStaysTogether` - though every request is decided anew;
`OnlyDetectionsChange` - however detections overlap; `OneIdentity` - through
logins, retries and other calls; `BodyArrives` - through defaults, overrides and
prepended messages; `TurnsStayApart` - the answers to the frames of a WebSocket
come in order, each ends once and none is missing, however streams end;
`ReportIsTrue` - tokens, calls and arguments are those of the stream, though parts
of calls alternate and have neither name nor id, and its times agree.

### Bounds

Two threads are the fewest that interleave; the safety properties are
proved for any number. A counter limit of 3 with thresholds of 2 makes
counters saturate. A timeout of one tick already separates "just now" from
"long ago", the only question the breaker asks. Two requests and a rate limit of length zero make
limits expire between any two steps of the other request; a map of two entries
makes the cleanup and the refusal of `record_rate_limit` happen. A channel
and a batch of 2 under 4 events make the channel full, the batch full, and a
remainder that only the timer or the shutdown writes. Two requests of one or
two sessions let every event of one fall between any two of the other; the
channel of 2 overflows, and a batch of 2 mixes sessions. Every released
schema is a start of the migration, and crashes are not bounded at all. Three
migrations let a server be ahead of and behind another one in the middle. A
cache of one handle under two sessions evicts at every change of session; three
midnights let a file be written, compressed and deleted. Two threads and four
calls of the file stores let one writer rename what another one has emptied. Three calls and four
fragments let text and two calls alternate; eight wire events let the provider
say all of it and end, or less and end twice. Nine texts are three turns with tools and two
lost answers. Four positions let three finds overlap in a chain, nest
and touch. Two logins are an older and a newer one, between which another call
fills the cache. Two runs of an import let the second meet what the first left.

The bounds (`MaxEvents`, `MaxFaults`, `MaxWire`, ... and the one-shot requests)
are in the guards, so liveness is checked without a state constraint.
`router`, `breaker` and `database` check deadlock; in the
others the instance comes to rest once its events, its answer or its
conversation is over, so theirs do not.

### Runs that refute a sentence of the repository

| run | sentence | what happens |
|---|---|---|
| `recorder_flush_pending` | "Flush all pending events" (`lunaroute-session/src/writer.rs:198`) | the shutdown branch drops what the channel holds |
| `stream_after_error` | "Send JSON only if the matching tool block is active" (`lunaroute-ingress/src/anthropic.rs:942`) | after an error the block has no index any more but still its call; the next arguments unwrap the missing index and the stream's task panics |
| `key_override` | "configured API key will override" (`lunaroute-egress/src/openai.rs:426`) | the client's header is skipped, and because it was there the key is not added: the request has no credential |
| `migration_race` | "Empty table from failed migration - safe to drop" (`lunaroute-session/src/sqlite_writer.rs:928`) | another process renames an empty `tool_calls` to `tool_stats` between the two checks that look for these tables: what is dropped is the only one, under a store that is open |
| `timeline` | "Timeline of all events (requests, responses, tool calls)" (`docs/CLAUDE_CODE_GUIDE.md:427`) | the page moves one offset by the events of two tables, and the query applies it to each: events are skipped |

### Known disagreements without a run

These are definitions too; naming one in the cfg of its module shows the
counterexample. They are left out of the list above for lack of anything to add.

| definition (module) | sentence | what happens |
|---|---|---|
| `ClosesOnlyFromHalfOpen` (`CircuitBreaker`) | "HalfOpen → Closed" is the only way to Closed (`circuit_breaker.rs:12`) | a success counted in HalfOpen closes a circuit that another call opened meanwhile |
| `HalfOpenAfterTimeout` (`CircuitBreaker`) | Open → HalfOpen "after timeout duration expires" (`:11`) | the state is stored before its time, a caller in between uses the old one |
| `AlternativesExhausted` (`ProviderRouter`) | "Tries all alternatives sequentially" (`lunaroute-routing/README.md:107`) | the loop stops at a provider it tried, whose limit expired, before a later alternative |
| `CountsConsecutiveLimits` (`ProviderRouter`) | "consecutive rate limits" (`strategy.rs:86`), 60s, 120s, 240s | expired entries are dropped with their count at every selection |
| `FallbacksBackTheStrategy` (`ProviderRouter`) | fallbacks are "tried in order if primary/strategy providers fail" (`router.rs:94`) | no selectable provider is an error before the fallbacks |
| `EveryFlushWaits` (`Recorder`) | "can be called multiple times" (`writer.rs:199`) | the second call returns while the worker is writing |
| `NewerIsRefused` (`SqliteMigration`) | "Database schema version {} is newer than supported version {}" (`sqlite_writer.rs:520`) | every start inserts a row of version 1 (`:129`) and keeps the smallest (`:502`) before it compares |
| `TotalsIncludeAll` (`SqliteMigration`) | "Update total_tokens GENERATED column to include cache and audio tokens" (`sqlite_writer.rs:604`) | the check for an applied migration (`:488`) finds the names of the columns that 1 → 2 has added, and the rebuild is never entered: a file of schema 1 or 2 reaches version 5 with the old formula |
| `OldestGoesFirst` (`SessionFiles`) | "Delete oldest files until under the limit" (`cleanup.rs:330`) | the list is sorted oldest first and walked from its end |
| `WaitersAreNotified` (`SessionFiles`) | "Remove from pending and notify waiters" (`jsonl_writer.rs:431`) | a task that has cloned the notifier but does not listen yet misses the notification and waits for ever |
| `StateFileIsWhole` (`FileStores`) | "// Write atomically" (`lunaroute-storage/src/state.rs:228`) | two `persist` calls share one temporary file: one renames what the other has just emptied |
| `HighestConfidenceWins` (`Redaction`) | "Single redaction using highest confidence detection" (`lunaroute-pii/README.md:78`) | a surer detection inside of a longer one is dropped |
| `ToolResultsAreRedacted` (`Redaction`) | "Redact PII from tool results if present" (`pii_redaction.rs:142`) | the arguments and the id are redacted, `tool_results` are not |
| `LockIsExclusive` (`FileStores`) | "Acquire an exclusive lock on a file" (`lunaroute-storage/src/file_lock.rs:15`) | the lock file is removed after it is unlocked: one task holds the removed file, another a new one |
| `Unmixed` (`StreamTranslation`) | "Process ALL tool calls, not just the first" (`lunaroute-egress/src/openai.rs:1762`) | a chunk becomes one event: usage, else end, else text, else its first call; an Anthropic provider's calls all have index 0 and two in a row become one |
| `SystemArrives` (`Conversation`) | `NormalizedRequest.system` is the system prompt | an Anthropic client's prompt is in that field, and no connector reads it |
| `ConfigFileIsRead` (`Server`) | "Default: ~/.lunaroute/config.yaml" (`lunaroute-server/src/bootstrap.rs:50`) | the path is opened with its tilde (`config.rs:539`), the open fails, and the server runs on its defaults |
| `OwnAnswers` (`ResponsesSocket`) | an error frame ends the answer (`docs/superpowers/specs/2026-04-16-codex-websocket-responses-design.md:45`) | an `error` event of the provider is passed on and is no terminal event: a second error follows when the stream ends, and a client that has sent its next frame takes it for the answer |
| `OneSession` (`ResponsesSocket`) | "subsequent frames reuse it" (line 131 there) | without a session of the client's every frame is recorded as a session of its own |
| `LimitHitOnce` (`StreamMetrics`) | "Log once when limit is first reached" (`streaming_metrics.rs:82`) | the list of latencies stays at its limit, and every further event is such a time, in the log and in the counter |
| `ReportIsTrue` with `Variants = {1, 2}` (`StreamMetrics`) | "prevent counting the same tool call multiple times" (`async_stream_parser.rs:204`) | calls are told apart by their index, which begins again in every choice of an answer: with `n` = 2 arguments go to the wrong call |
| `ResultsArrive` (`Conversation`) | a tool result is a result for the provider | an Anthropic provider gets it as plain text; of several in one Anthropic message the last id wins |

Smaller ones that the modules follow without a property: a 429 is not retried,
though `with_retry` says "Retry on 429"; an Anthropic answer with a block of an
unknown kind does not parse; `messages` sends no `message_start` for an OpenAI
provider; an Anthropic provider whose body ends early leaves the client without
`message_stop`; a call without any argument fragment is never announced; blocks of text have no id
and are not counted among the `content_blocks` of a Messages stream.

### Fairness

* breaker (`SteadyTraffic`): threads inside the breaker run on (weak), the clock
  ticks (weak), requests keep arriving (weak), and a call that can be answered
  well again and again is (strong) - `Recovery` says that, if calls stop
  failing, the circuit closes for good; it says nothing about an idle provider.
* router: a request that can go on does, and a provider's answer comes or the
  HTTP client's timeout makes it an error (`Answered`, weak).
* recorder: `select!` chooses at random among ready branches, so a branch that
  is ready again and again is taken (strong for the three branches); writes
  end and a `flush()` that can continue does (weak). Nobody has to call `flush`.
* recording: spawned tasks run and the worker commits (weak), as the runtime
  and the recorder's flush interval see to; whoever holds a stream drops it some
  time (weak), as the server does with a finished or broken connection.

## Proofs

Each proof module EXTENDS its component, and its theorems hold for all sets of
threads, sessions, servers, requests and writers and for all sizes. What a module
assumes of its constants is its own ASSUME, which TLC evaluates in every run:
what `validate()` and `mpsc::channel` demand (`ConfigAssumption`), what a rule
looks like (`RuleAssumption`), that names are not each other (`TablesAssumption`,
`MigrationAssumption`, `PgAssumption`), that a Codex login belongs to an OpenAI
connector (`ConnectorAssumption`), that a file has one of the dialects and a
message blocks (`ServerAssumption`: serde admits nothing else), that a routed request makes up its
session (`RecordingAssumption`), that the server's error frames are not the
provider's (`SocketAssumption`). A theorem that needs more says so in an ASSUME
of its own; these hypotheses are listed below.

`CircuitBreakerProofs`. The invariant is `TypeOK`, `NoLostClose`,
`StaleStampHasOwner` and `StoresOpenOrClosed` (a thread about to store a state
stores Open or Closed). The last is what makes the rest inductive for
transitions: `HalfOpen` is only stored by the winning compare-and-exchange.
`NoLostClose` is inductive because each step that clears the counter or raises
it past the threshold leaves a thread in `Closing`, and that thread's last step
clears the counter. Theorems: `TypeCorrect`, `CloseNeverLost`,
`StaleStampIsOwned`, `HalfOpenFromOpen` (an action property).

The second part of the module is the refinement, `SerialIsDocumented`
(`SerialSpec => ImplementsDocumented`): as long as one thread at a time is
inside, the four atomics are the one record of `AtomicBreaker`. The invariant
`SerialInv` says that only one is inside, what that one has read is still so
(`Knows`), and that a breaker in which nobody is making a transition is settled:
no counter is at its threshold and its timestamp is that of its state. Each step
is then of one of five kinds with a lemma each: silent (`SilentStep`), inside of
a transition that the mapping already shows as done (`TransitionStep`), one that
takes effect (`VisibleStep`), outside (`OutsideStep`), or the clock
(`TickStep`).

`RecorderProofs`. The invariant is `TypeOK`, `Places` (what buffer, batch, queue
and `lost` hold in each state of the worker) and `Conservation`. `Flow(w)` is
what writer `w` has and what is on its way; one lemma per worker step shows that
the step only moves events along it (`ReceiveFlow`, `StartFlushFlow`,
`WriteFlow`, `ExitFlow`). From it follow `TypeCorrect`, `NothingLostOnTheWay`,
`FlushLeavesNothingBuffered`, and the refinement `RecorderIsALog`: a healthy
writer's `Write` is a `Persist`, because by `Conservation` what it has after the
write is a prefix of the accepted events. `SessionsStayInOrder` needs a second
invariant, `FlowOrder`: along the whole flow of every writer, failing or not,
events of a session rise and stay below the session's next number; a failing
writer takes a `Selection` of its batch, which keeps the order
(`SelectionOrder`).

`RecorderProofs`, second part. `RecordsAreTrue` is `RecordTellsTheTruth` of
`FileRecording`, for any answers of the provider (of any length, with errors
anywhere), any filters and any number of file system errors. What a reader is told
depends on what the directory held when it read, and that on which of three tasks
wrote how much of what; `RecordingInv` says so. `MetaInv`: the metadata in the
file, the metadata about to be written and the metadata that was read all say true
things of the call (`TrueOf`), and stay true: a success is written only after the
end was polled, and nothing is polled after that. `OrderInv`: the events in the
file and then those in the channel rise, and are events the caller got - also in
lines that hold parts of two texts, because a write failed and the file was opened
again. `IntactInv` is what holds as long as there was no error and nobody deletes
anything: every line parses, a line is without its newline only while the task that
writes it is between its two writes, every event the caller got is in the channel
or in a line of its own, and a success of a send has the line of its answer.
`PhaseInv` says where the caller can be meanwhile. `EventsTrue` is the property
itself. The proof has a lemma for each action; steps before the provider is asked
share `EarlyStep`, later ones `LateStep`, those of `complete_session`
`FinishStep`, the client's `ReaderStep`. `EventsShown` is what reading back does:
the events of the lines that parse, in their order, and no others.

`SessionRecordingProofs`. One invariant, `RecordingInv`, carries four theorems
about requests whose events are written in any order, are dropped, or are rolled
back with others. Its parts: `OnceInv` - of each row without a unique index
there is one source at a time, the handler that may still spawn the event
(`MayYet`), one spawned task, one queued event, or the row; `LeadInv` - while the
two first events of a routed request are under way nothing else of it is in the
channel, and afterwards `Started` is stored or ahead of everything else, unless
something was lost; `ResponseInv` - whatever reports tokens of a session of
`send()` comes after the response that sets them; `TablesInv` - rows that are not
there have no tokens, requests of `send()` no executions, and counts cover
executions. Every action of a handler or a parser is a `HandlerStep`: it spawns
some tasks and leaves channel and tables alone, and what it spawns is shown once
per action; the invariant is then preserved by any `HandlerStep`. `Commit` is
cut into runs of single statements (`TransactionRuns`, by induction over the
batch), and one lemma per kind of event says what its statement does to the
tables (`StartedEffect` … `CompletedEffect`). From this: `RequestsCountOnce`
(`OneRowPerRequest`), `RoutedStartedFirst` (`StartedLeads`), `CountsNeverBehind`
(`CountsCoverExecutions`), `TokensOnlyRise` (`TokensNeverShrink`).

`DatabaseProofs`, second part. `PgMigrationInv` has for every server that migrates the list of
what it has left: the last migrations, in order, of which all before have been
executed by somebody. That gives `MigrationsAreApplied`, although servers read
what is recorded at different times. `ConfigInv` and `ApartInv` are little more
than types, and `HistoryStaysComplete` and `TenantsStayApart` follow call by call:
`Apart` says of each call which tenant's rows, configurations and histories it
leaves alone.

`ProviderRouterProofs`. `RequestInv` says for a request of `send()` where its
providers come from: what it has contacted is part of what it tried and of the
fallbacks it has used up, each once, and the first is the selected one
(`Complete`, `Truthful`); of a stream, that it contacts one provider at a time.
From it: `ProviderOnce` and `NoticesAreTrue` (a request that is contacted carries a
notice exactly if it may get one, `IsTold`, and the provider is not the selected
one, and the reason in it is what happened to that one). Their hypothesis `ListsApart` is that
a rule names a fallback once and not among its primaries and alternatives. The
code checks nothing of the kind, and with such a rule the router does offer a
request to a provider again: the theorems say what a sensible rule gets.
`SharesAreKept` is `WeightedShares` for every rule and wherever a turn of the
rotation begins, without hypotheses: `select_provider` refuses weights whose sum
does not fit, so of the others the intervals between cumulative weights are apart
and cover the turn, and the counter's next `total` values have each remainder once
(a bijection of the interval on the counter with the interval of weights, counted by
`SharesOfOneTurn`).
`ProvidersRecover` is for all rules. It needs `LimitsInv`: an entry of the
map lasts at least as long as the wait that the provider's last 429 asked for.
Its hypothesis `FewProviders` is that there are fewer providers than
`MAX_RATE_LIMIT_ENTRIES` (1000, `strategy.rs:77`), because a full map refuses an
entry; `PowersCount` (`2 ^ n` is a positive number) is true of the backoff, but
the provers know no powers. `CumulativeWeight` is a recursive function, of which
the lemma `Weights` proves that it is one, so that selection is proved, too, to
give a provider of the rule.

`DatabaseProofs`, first part. `MigrationsArrive` and `MigrationsKeepRows` are for any
number of processes that start and stop anywhere. `MigrationInv` is `DiskInv`
(what the versions in the file stand for; where several processes migrate, the
known tools are counted in `tool_calls` or in `tool_stats`, and only one of
them exists), `Created` (what a process at a place has seen to, whatever
the others do) and, for a process that is alone, what each of its tests will
find (`Expected`). `TotalsInv`, an invariant beside it, says that nothing but the
creation of the sessions table touches the formula of `total_tokens`
(`TotalsStep`), so `MigrationsArrive` claims tables and columns of the current
schema and a formula as found. The hypothesis `FilesAreReleased` is about the file that is
found: its versions are true, and if several processes start on a file with a
`tool_calls`, there is no `tool_stats` beside it and a known tool is counted. It
holds of every start of the run `database`. The last part was not there at first: the
proof that nobody drops a table in use failed for an empty `tool_calls`, and the
counterexample is the run `migration_race`.

`RequestProofs`, first and second part. `IdentityIsOne` is `OneIdentity` for any setups, callers and
logins. What an attempt shows is a matter of the call alone (`CallInv`), so the
other calls only matter through the cache and the file: a token is that of a login
there was, wherever it was cached or read (`CredentialInv`, `LoginInv`), and an
account that goes out is not older than the token beside it, because it is read
after it (`AccountInv`). One lemma per kind of sender shows that its headers are
proper (`RawIsProper`, `TranslatedIsProper`, `MessagesAreProper`,
`BypassIsProper`); what was sent stays proper, since `ShowsOne` looks at the path
and the request only, which never change. `RoutesLeadSomewhere` is
`NoRouteToNowhere`: a handler that passes requests through is there only with its
provider (`HandlerHasItsProvider`), and the rules that `main()` makes name
providers that are there (`RoutesAreOfTheServer`). `ChainsStayTogether` rests on
`LastInv` - the last outcome is that of the whole history - and on
`ResultsDoNotSpeak`: a message of results alone does not change which message
speaks.

`RequestProofs`, third part. `TurnsKeptApart` is `TurnsStayApart` for any number of
frames. `AnswersInv`: what was said answers frames that were received, and the
answer of the frame that is served has no end yet - so the next thing said for it
may be an end. `IdsInv`: an id above 0 in the outbox is that of the frame it
answers, a request of the provider's, and wherever else such an id stands (with
the client, in its frames, in the requests upstream) it was delivered before.
`NobodyHangs` is inductive: each step of the server turns a frame that is still to
be received into a stream, and a stream into an end to read, one for one
(`Prospect`).

`FilesProofs`, first part. `WritesAreKept` is `AcknowledgedIsKept` for one writing task
and any number of sessions, days, events, sweeps, faults and crashes. What the
property says of the texts that can be read back is not inductive: it does not say
which of the files and buffers holds an event, nor what the sweep is about to do to
them. `FilesInv` adds that. `StoreOK`: a file holds events of its own session, in
order, and is at least as young as its day; what a handle holds back comes after
all that is in its file, and a handle of an older day than yesterday holds nothing
back - a batch, which is flushed at its end, takes less than a day. `CacheOK`: no
key has two handles, so no two buffers of one file. `TaskOK`: where the task is,
and that the handle it has just evicted is in the cache no more. `SweepOK`: what the
sweep still has to compress is there, plain, and of a day before yesterday, hence
nobody writes to it; the text it has read is the text of the file; the packed
copy it has written is whole before the plain file goes. `Held`: every
acknowledged event is in a file, though not only in a packed copy whose plain file
is still there (that copy is overwritten when a crash made the sweep start again),
or in the buffer of a handle whose file is linked. The proof has one lemma per
action; those that change files or handles share what keeps `StoreOK` and `Held`
(`HeldStays`, `RetiredHeld`, `UnlinkedHeld`, and two lemmas on what a flush does).
`CompressAfter >= 1`, which the proof needs where it says that nobody writes to a
file that is compressed, is demanded by `validate()`; that tasks are finitely many
is part of the module's ASSUME. For a crew of two the property promises nothing,
and the theorem neither: writers that share the cache directly may lose events.
`FilesHaveOneOpener` is for crews of any size, and about what lies between them:
`OneOpener`, of those who open files at the same time no two open one file, so
that no handle in the cache takes the place of another, with its buffer. The
cache is not locked while a file is opened; what keeps
others out is the mark in `pending_opens`, and that works only because
`OpenersInv` holds: an opener has marked its key, it is the only one for that key,
and each mark has its opener, also when an open fails or the process crashes.
No run lists `OneOpener`: naming it in `MCFiles.cfg` checks it for two tasks.

`FilesProofs`, second part. `StoreReads` is `StoreReadsBack` for any number of tasks,
sessions and stream events of any sizes; that tasks are finitely many is an
assumption of `FileStores`. It has two halves that share only the types.
`IndexInv` is about the index and its one temporary file. While a task holds the
read lock the index stays what it was when the first of them copied it; so every
inode that may still become the file is empty or holds just that, and one that is
empty has a task that will fill it. Hence a file that is behind the index has a
task that mends it: the one that property calls `Persisting`. That the inode a
task creates is nobody else's is a count: there are more inodes than tasks
(`FreshInode`). `EventsInv` is about the events files. Files fill up in turn
(`FilledInTurn`: an event is in a later file only if all before it are full), so a
new event comes behind all others wherever it goes; and a file that has room and
ends in the middle of a line has the task that is about to end that line
(`LineOpen`), so the next event begins a line of its own - unless a session is
`mixed`, of which two tasks write at a time, or one crashed. `BytesAdd` (the sum of
a file's sizes with one more item) and `RotatedFacts` (which file is taken) are
what the proof needs to know of the folds.

`DataLemmas`: induction up to a number as a fact about sets (`UpTo`; the library's
induction theorems take an operator, which the provers cannot instantiate), least
elements (`Least`, `MinIsLeast`), and sequences with one more element.

Only model-checked are:

* all liveness (`Recovery`, `EveryRequestEnds`, `EventuallyStored`,
  `FlushReturns`, `RoutedEnds`): fairness is a matter of ENABLED, which the prover
  does not expand;
* `WellFormed`, `AllArrives`, `DialogueArrives`, `OnlyDetectionsChange`,
  `BodyArrives`, `MarkersStayHere`, `ImportIsWhole`, `PagesTellAll`,
  `RawDataFound`, `ReportIsTrue`: properties of what folds, filters and sorts over sequences compute, for every
  sequence - induction over data;

Of the invariants and action properties that runs check, these are all that no
theorem states: each that is about state rather than about data is proved.

## Plan

All that was planned is built. What would add most now is a search of the older
recorder's directories (`search.rs`), and the shutdown of the server as one
sequence.

## Not modelled

Many of the repository's lines are tests, in files of their own and at the end
of most source files; the modules translate code, so those lines are read
but stand behind no definition. Of the code itself these parts have no module:

* **health monitor** - the router writes its counters and never reads them, so
  nothing depends on them. Its `success_rate` reads two counters one after the
  other, so a rate above 1 may be shown.
* **matching of rules by regular expression, parsing of configuration files,
  the settings of the server that change no way of a request, its `env`
  command, its statistics and its shutdown**. `ProviderConfig`, listeners
  and overrides of the routing crate are used by no program.
* **middleware of the server** - headers of answers, size limits; no state.
* **storage configuration, buffer pool, encryption, compression, observability,
  prices of the web UI** - conversions of bytes and counters nobody reads back.
* **memory weaker than sequential consistency, steps of the clock** - the code
  uses Acquire/Release on single locations and wall time; `Instant` never goes
  back, and dates of session files only go forward here.
