--------------------------- MODULE SessionQueries ---------------------------
(***************************************************************************)
(* What is read back of recorded sessions: the pages of the web interface  *)
(* (lunaroute-ui, queries.rs and handlers/api.rs, with the scripts of its  *)
(* templates), and the search of the sqlite writer and store.  Every query *)
(* is a statement of its own, between any two of which sessions are        *)
(* recorded.                                                               *)
(*                                                                         *)
(* A time is a moment of some day, PerDay moments a day.  The time limits  *)
(* of the queries compare texts of two formats, so that the whole day of   *)
(* the limit counts.  Costs are left out: they are sums over the rows that *)
(* are counted here.                                                       *)
(***************************************************************************)
EXTENDS Integers, FiniteSets, FiniteSetsExt, SequencesExt

CONSTANTS
  Ids,         \* sessions
  Worlds,      \* the instances: what is read, by which sessions, from when on
  Models, Agents, Every, NoModel,
  PageSize,    \* rows of a page of the list and of the search
  EventLimit,  \* timelineLimit of session_detail.html
  PerDay, MaxTime, MaxRows   \* bounds

ASSUME QueriesAssumption ==
  /\ Worlds \subseteq [kind : {"list", "search", "timeline", "raw", "none"}, ids : SUBSET Ids, now : 1 .. MaxTime]
  /\ {PageSize, EventLimit, PerDay, MaxTime} \subseteq Nat \ {0} /\ MaxRows \in Nat
  /\ Every \notin Models \cup Agents /\ NoModel \notin Models

VARIABLES
  kind, ids, \* auxiliary: the instance
  now,
  records,   \* the sessions table
  answers,   \* session_stats, in the order of created_at
  usage,     \* tool_stats, likewise
  lines,     \* of each session, the lines of its JSONL files
  reader     \* the client that pages

tables == <<records, answers, usage, lines>>
queryVars == <<kind, ids, now, tables, reader>>

NoRecord == [there |-> FALSE, start |-> 0, agent |-> Every, tokens |-> 0, outcome |-> "none"]
Closed == [pc |-> "closed", filter |-> <<>>, order |-> "newest", at |-> 0, pages |-> 0, had |-> {}, seen |-> {}]

QueryInit ==
  /\ \E w \in Worlds : kind = w.kind /\ ids = w.ids /\ now = w.now
  /\ records = [s \in Ids |-> NoRecord]
  /\ answers = <<>> /\ usage = <<>>
  /\ lines = [s \in Ids |-> <<>>]
  /\ reader = Closed

Day(t) == (t - 1) \div PerDay
Hour(t) == (t - 1) % PerDay
Present == {s \in Ids : records[s].there}
RowsOf(table, s) == {i \in DOMAIN table : table[i].session = s}

-----------------------------------------------------------------------------
(* Recording.  A session is stamped when it starts and inserted later.     *)

RowInserted(s) ==
  /\ ~records[s].there
  /\ \E t \in 1 .. now, a \in Agents :
       /\ \A r \in Present : records[r].start # t
       /\ \A i \in DOMAIN lines[s] : lines[s][i].day >= Day(t)
       /\ records' = [records EXCEPT ![s] = [NoRecord EXCEPT !.there = TRUE, !.start = t, !.agent = a]]
  /\ UNCHANGED <<kind, ids, now, answers, usage, lines, reader>>

(* A completion; another request of the session may change the outcome.    *)
RowUpdated(s) ==
  /\ kind = "search" /\ records[s].there
  /\ \E o \in {"success", "error"}, n \in 0 .. 2 :
       records' = [records EXCEPT ![s].outcome = o, ![s].tokens = Max({@, n})]
  /\ UNCHANGED <<kind, ids, now, answers, usage, lines, reader>>

(* Child rows need the row of their session.                               *)
AnswerInserted(s) ==
  /\ kind \in {"list", "timeline"} /\ records[s].there /\ Len(answers) < MaxRows
  /\ \E m \in Models \cup {NoModel} : answers' = Append(answers, [session |-> s, model |-> m])
  /\ UNCHANGED <<kind, ids, now, records, usage, lines, reader>>

UsageInserted(s) ==
  /\ kind = "timeline" /\ records[s].there /\ Len(usage) < MaxRows
  /\ \E n \in 1 .. 2 : usage' = Append(usage, [session |-> s, calls |-> n])
  /\ UNCHANGED <<kind, ids, now, records, answers, lines, reader>>

(* The JSONL writer uses the file of the day it writes on.                 *)
LineWritten(s) ==
  /\ kind = "raw" /\ Len(lines[s]) < MaxRows
  /\ \E r \in 1 .. 2, part \in {"request", "response"} :
       LET line == [day |-> Day(now), request |-> r, part |-> part] IN
       /\ \A i \in DOMAIN lines[s] : lines[s][i].request = r => lines[s][i].part # part
       /\ lines' = [lines EXCEPT ![s] = Append(@, line)]
  /\ UNCHANGED <<kind, ids, now, records, answers, usage, reader>>

Tick ==
  /\ now < MaxTime /\ now' = now + 1
  /\ UNCHANGED <<kind, ids, tables, reader>>

-----------------------------------------------------------------------------
(* The list of sessions *)

(* A filter names an agent, a model or an outcome, or does not care.  The  *)
(* list looks for the model among the answers.                             *)
Filter(agent, model, outcome) == [agent |-> agent, model |-> model, outcome |-> outcome]
NoFilter == Filter(Every, Every, Every)

HasModel(s, m) == \E i \in RowsOf(answers, s) : answers[i].model = m

Matching(f) ==
  {s \in Present :
     /\ f.agent \in {Every, records[s].agent}
     /\ f.model = Every \/ HasModel(s, f.model)
     /\ f.outcome \in {Every, records[s].outcome}}

(* Mutant of Before: the newest are those with most tokens. *)
WrongBefore(order, a, b) ==
  IF order = "oldest" \/ records[a].tokens = records[b].tokens
  THEN records[a].start < records[b].start
  ELSE records[a].tokens > records[b].tokens

(* The other orders of the search sort by the duration, as by the tokens.  *)
Before(order, a, b) ==
  CASE order = "newest" -> records[a].start > records[b].start
    [] order = "oldest" -> records[a].start < records[b].start
    [] order = "tokens" ->
         \/ records[a].tokens > records[b].tokens
         \/ records[a].tokens = records[b].tokens /\ records[a].start < records[b].start

Sorted(f, order) == SetToSortSeq(Matching(f), LAMBDA a, b : Before(order, a, b))
Page(seq, offset, limit) == SubSeq(seq, offset + 1, Min({offset + limit, Len(seq)}))

OpenReader(f, order, pc) ==
  /\ reader.pc = "closed"
  /\ reader' = [Closed EXCEPT !.pc = pc, !.filter = f, !.order = order, !.had = Matching(f)]
  /\ UNCHANGED <<kind, ids, now, tables>>

(* changeUserAgentFilter, changeModelFilter *)
OpenList ==
  /\ kind = "list"
  /\ \E a \in Agents \cup {Every}, m \in Models \cup {Every} : OpenReader(Filter(a, m, Every), "newest", "page")

(* The next page is offered when this one is full. *)
Load(at) ==
  LET page == Page(Sorted(reader.filter, reader.order), at * PageSize, PageSize) IN
  /\ reader' = [reader EXCEPT !.at = at, !.seen = @ \cup ToSet(page),
                              !.pc = IF Len(page) < PageSize THEN "end" ELSE "next"]
  /\ UNCHANGED <<kind, ids, now, tables>>

LoadSessions == kind = "list" /\ reader.pc # "closed" /\ Load(reader.at)
NextPage == kind = "list" /\ reader.pc = "next" /\ Load(reader.at + 1)
PreviousPage == kind = "list" /\ reader.pc \in {"next", "end"} /\ reader.at > 0 /\ Load(reader.at - 1)

(* The client leaves the page. *)
Close ==
  /\ reader.pc = "end" /\ reader' = Closed
  /\ UNCHANGED <<kind, ids, now, tables>>

-----------------------------------------------------------------------------
(* search_sessions: the matches are counted, then a page of them is read.  *)
(* The client reads on until a page is not full.                           *)

OpenSearch ==
  /\ kind = "search"
  /\ \E a \in Agents \cup {Every}, o \in {Every, "success"}, order \in {"newest", "oldest", "tokens"} :
       OpenReader(Filter(a, Every, o), order, "count")

SearchPages(count) == Max({(count + PageSize - 1) \div PageSize, 1})

CountMatches ==
  /\ kind = "search" /\ reader.pc = "count"
  /\ reader' = [reader EXCEPT !.pc = "page", !.pages = SearchPages(Cardinality(Matching(reader.filter)))]
  /\ UNCHANGED <<kind, ids, now, tables>>

SearchPage ==
  LET page == Page(Sorted(reader.filter, reader.order), reader.at * PageSize, PageSize) IN
  /\ kind = "search" /\ reader.pc = "page"
  /\ reader' = [reader EXCEPT !.at = @ + 1, !.seen = @ \cup ToSet(page),
                              !.pc = IF Len(page) < PageSize THEN "end" ELSE "count"]
  /\ UNCHANGED <<kind, ids, now, tables>>

(* The store's list_sessions goes through the same search. *)
ListedSessions(limit, offset) ==
  Page(Sorted(NoFilter, "newest"), (offset \div limit) * limit, limit)

-----------------------------------------------------------------------------
(* The events of a session's page: its answers and its tools, each a query *)
(* with the same limit and offset.                                         *)
Ascending(S) == SetToSortSeq(S, <)
Tagged(tag, seq) == {<<tag, seq[i]>> : i \in DOMAIN seq}

TimelineEvents(s) ==
  Tagged("answer", Ascending(RowsOf(answers, s))) \cup Tagged("tool", Ascending(RowsOf(usage, s)))

Timeline(s, offset, limit) ==
  Tagged("answer", Page(Ascending(RowsOf(answers, s)), offset, limit))
    \cup Tagged("tool", Page(Ascending(RowsOf(usage, s)), offset, limit))

OpenTimeline ==
  /\ kind = "timeline" /\ reader.pc = "closed"
  /\ \E s \in Present :
       reader' = [Closed EXCEPT !.pc = "page", !.filter = s, !.had = TimelineEvents(s)]
  /\ UNCHANGED <<kind, ids, now, tables>>

(* The offset is moved by the number of events that came, of both kinds.   *)
LoadTimeline ==
  LET events == Timeline(reader.filter, reader.at, EventLimit)
      n == Cardinality(events) IN
  /\ kind = "timeline" /\ reader.pc = "page"
  /\ reader' = [reader EXCEPT !.at = @ + n, !.seen = @ \cup events,
                              !.pc = IF n < EventLimit THEN "end" ELSE "page"]
  /\ UNCHANGED <<kind, ids, now, tables>>

-----------------------------------------------------------------------------
(* session_raw_data: the file of the day the session started on, or of the *)
(* day before or after; the first one that exists is read.                 *)
FileOf(s, day) == SelectSeq(lines[s], LAMBDA x : x.day = day)
Days(s) == LET d == Day(records[s].start) IN <<d, d - 1, d + 1>>

(* Mutant of RawFile: only the day of the start. *)
WrongRawFile(s) == FileOf(s, Days(s)[1])

RawFile(s) ==
  LET found == SelectSeq(Days(s), LAMBDA d : FileOf(s, d) # <<>>) IN
  IF found = <<>> THEN <<>> ELSE FileOf(s, found[1])

PartsIn(file, r) == {x.part : x \in {y \in ToSet(file) : y.request = r}}

ReadRawData ==
  /\ kind = "raw"
  /\ \E s \in Present, r \in 1 .. 2 :
       reader' = [Closed EXCEPT !.pc = "raw", !.filter = s,
                                !.had = PartsIn(lines[s], r), !.seen = PartsIn(RawFile(s), r)]
  /\ UNCHANGED <<kind, ids, now, tables>>

-----------------------------------------------------------------------------
(* What the pages count.  Each is a LEFT or INNER JOIN of the sessions with*)
(* their answers, a group of either, or of both.                           *)

(* Sessions that are not finished are always in. *)
InWindow(day) == {s \in Present : Day(records[s].start) >= day \/ records[s].outcome = "none"}

(* A row for each answer, or one with none.                                *)
LeftJoin(S) == UNION {{<<s, i>> : i \in IF RowsOf(answers, s) = {} THEN {0} ELSE RowsOf(answers, s)} : s \in S}

(* Mutant of OverviewSessions: the rows of the join. *)
WrongOverviewSessions(day) == Cardinality(LeftJoin(InWindow(day)))

(* COUNT(DISTINCT s.session_id) *)
OverviewSessions(day) == Cardinality({row[1] : row \in LeftJoin(InWindow(day))})

SessionsByHour(day) == [h \in 0 .. PerDay - 1 |-> Cardinality({s \in InWindow(day) : Hour(records[s].start) = h})]

Answers(m) == {i \in DOMAIN answers : answers[i].model = m}

(* get_spending_stats groups the answers, get_model_usage those whose      *)
(* session is there.                                                       *)
Spending(m) ==
  [requests |-> Cardinality(Answers(m)), sessions |-> Cardinality({answers[i].session : i \in Answers(m)})]
ModelUsage(m) == Cardinality({i \in Answers(m) : answers[i].session \in Present})

(* The list and the page of a session; a session has one request at least. *)
RequestCount(s) == Max({1, Cardinality(RowsOf(answers, s))})

SessionTools(s) == MapThenSumSet(LAMBDA i : usage[i].calls, RowsOf(usage, s))
ToolUsage == MapThenSumSet(LAMBDA i : usage[i].calls, DOMAIN usage)

(* get_aggregates, without the durations: three statements. *)
Aggregates(f) ==
  LET with(o) == Cardinality({s \in Matching(f) : records[s].outcome = o}) IN
  [total |-> Cardinality(Matching(f)), successful |-> with("success"), failed |-> with("error"),
   by |-> [a \in Agents |-> Cardinality({s \in Matching(f) : records[s].agent = a})]]

-----------------------------------------------------------------------------
Record(s) == RowInserted(s) \/ RowUpdated(s) \/ AnswerInserted(s) \/ UsageInserted(s) \/ LineWritten(s)

QueryNext ==
  \/ Tick \/ \E s \in ids : Record(s)
  \/ OpenList \/ LoadSessions \/ NextPage \/ PreviousPage
  \/ OpenSearch \/ CountMatches \/ SearchPage
  \/ OpenTimeline \/ LoadTimeline \/ ReadRawData \/ Close

QuerySpec == QueryInit /\ [][QueryNext]_queryVars

-----------------------------------------------------------------------------
(* Sessions that match and an order that stay as they are. *)
Steady == reader.filter.outcome = Every /\ reader.order # "tokens"

(* Whoever pages through the sessions by offset, back and forth, reloading *)
(* pages, until one is not full, has seen every session that was there at  *)
(* first: sessions that are inserted meanwhile, in whatever place of the   *)
(* order, or begin to match, only push others to later pages.  It takes an *)
(* order and a filter by columns that do not change (queries.rs            *)
(* get_sessions_paginated, sqlite_writer.rs search_sessions).              *)
PagingMissesNothing ==
  kind \in {"list", "search"} /\ reader.pc = "end" /\ Steady => reader.had \subseteq reader.seen

(* The pages of the interface join, group and filter in their own ways and *)
(* agree: on the sessions of a window, on the sessions and the requests of *)
(* a model, on the requests of a session, on the calls of tools and on the *)
(* outcomes; list_sessions gives the pages of the list when the offset is  *)
(* a multiple of the limit.                                                *)
PagesAgree ==
  /\ \A day \in 0 .. Day(now) :
       OverviewSessions(day) = MapThenSumSet(LAMBDA h : SessionsByHour(day)[h], 0 .. PerDay - 1)
  /\ \A m \in Models :
       /\ Cardinality(Matching(Filter(Every, m, Every))) = Spending(m).sessions
       /\ ModelUsage(m) = Spending(m).requests
  /\ MapThenSumSet(RequestCount, Present) = Cardinality(LeftJoin(Present))
  /\ MapThenSumSet(SessionTools, Present) = ToolUsage
  /\ LET all == Aggregates(NoFilter) IN
     /\ all.total = MapThenSumSet(LAMBDA a : all.by[a], Agents)
     /\ all.successful = Aggregates(Filter(Every, Every, "success")).total
     /\ all.total - all.successful - all.failed = Cardinality(InWindow(Day(MaxTime) + 1))
  /\ \A limit \in 1 .. 2, k \in 0 .. 1 :
       ListedSessions(limit, k * limit) = Page(Sorted(NoFilter, "newest"), k * limit, limit)

(* What the pages show is complete and fits together. *)
PagesTellAll == PagingMissesNothing /\ PagesAgree

(* A session that was recorded in one file, be it only after midnight that *)
(* the first line was written, shows both parts of a request as soon as    *)
(* they are there (api.rs session_raw_data: "check current date and        *)
(* neighboring dates").  A session that goes on for days is read from one  *)
(* of its files only.                                                      *)
RawDataFound ==
  reader.pc = "raw" =>
    LET s == reader.filter
        days == {x.day : x \in ToSet(lines[s])} IN
    Cardinality(days) = 1 /\ days \subseteq 0 .. Day(records[s].start) + 1
      => reader.had \subseteq reader.seen

(* "Timeline of all events (requests, responses, tool calls)": whoever     *)
(* scrolls to the end has seen every event that was there at first.        *)
TimelineShowsAll ==
  kind = "timeline" /\ reader.pc = "end" => reader.had \subseteq reader.seen
=============================================================================
