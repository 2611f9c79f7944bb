------------------------------ MODULE MCFiles ------------------------------
(* Small instances: the session files of lunaroute-session with one writer *)
(* or two direct users; or else a session store, a state store or a lock   *)
(* of lunaroute-storage; or else a call recorded by the file recorder, or  *)
(* session files that are imported, or the report of a stream.             *)
EXTENDS SessionFiles, FileStores, FileRecording, Import, StreamMetrics, TLC

CONSTANTS t1, t2
VARIABLE part

OneOrTwo == {{t1}, {t1, t2}}
Symmetry == Permutations(Sessions) \cup Permutations(Threads) \cup Permutations(Keys)

Stores == kind # "none"

(* A third event only where there is no fault or no sweep. *)
Few ==
  faults = 0 \/ sweep.count = 0 \/ SumFunction(next) + Cardinality({t \in Tasks : pc[t] # "idle"}) < 3 + Cardinality(Sessions)

(* Answers in which a call comes in two parts, an error before the end or after
   it, or nothing at all. *)
Call(s, ok, items) == [streams |-> s, ok |-> ok, items |-> items]
AllAnswers ==
  {Call(FALSE, TRUE, <<"name">>), Call(FALSE, FALSE, <<>>), Call(TRUE, FALSE, <<>>), Call(TRUE, TRUE, <<>>),
   Call(TRUE, TRUE, <<"id", "name", "usage", "end">>), Call(TRUE, TRUE, <<"text", "error">>),
   Call(TRUE, TRUE, <<"text", "error", "end">>)}
AllFilters ==
  {[success |-> s, streams |-> BOOLEAN, limit |-> l] : s \in {{TRUE}, {FALSE}, BOOLEAN}, l \in {0, 1}}
NoCall == Call(FALSE, FALSE, <<>>)

(* A session of two days with a result that comes on the second; a torn file
   beside one that has all kinds of events; a file whose id is refused, beside
   one that begins in the middle and one that is compressed. *)
Event(k, s, r) == Sqlite!Blank(k, s, r)
Used(s, r) == [Event("tool", s, r) EXCEPT !.tool = "tool"]
Stat(s, r, n) == [Event("stats", s, r) EXCEPT !.tokens = n, !.calls = 1]
Last3(s, r, n) == <<Used(s, r), Stat(s, r, n), [Event("completed", s, r) EXCEPT !.tokens = n]>>
Log(t, torn, es) == [time |-> t, torn |-> torn, packed |-> FALSE, events |-> es]
AllDirectories ==
  {[f \in {"a", "b"} |->
    IF f = "a" THEN Log(1, FALSE, <<Event("started", "one", "q1")>> \o Last3("one", "q1", 2))
    ELSE Log(2, FALSE, <<Event("started", "one", "q2"), [Used("one", "q2") EXCEPT !.call = "q1", !.result = TRUE]>>)],
   [f \in {"a", "b"} |->
    IF f = "a" THEN Log(1, TRUE, <<Event("started", "one", "q1"), Used("one", "q1")>>)
    ELSE Log(1, FALSE, <<Event("started", "two", "q2"), Event("request", "two", "q2"),
                [Event("response", "two", "q2") EXCEPT !.tokens = 1],
                [Event("completed", "two", "q2") EXCEPT !.streamed = TRUE, !.ok = FALSE]>>)],
   [f \in {"a", "b", "c", "d"} |->
    CASE f = "a" -> Log(1, FALSE, <<Event("started", "odd", "q1"), Event("request", "odd", "q1")>>)
      [] f = "b" -> Log(1, FALSE, Last3("one", "q1", 1))
      [] f = "c" -> Log(2, FALSE, <<Event("started", "two", "q2"), Used("two", "q2")>>)
      [] f = "d" -> [Log(1, FALSE, <<Event("started", "one", "q1")>>) EXCEPT !.packed = TRUE]]}
AllSettings ==
  {[skip |-> s, goOn |-> g, dry |-> d] : s \in BOOLEAN, g \in BOOLEAN, d \in BOOLEAN}
    \ {[skip |-> FALSE, goOn |-> FALSE, dry |-> d] : d \in BOOLEAN}

(* Two calls in streams of more than three events; times differ only in
   streams that say nothing. *)
OneText == {<<2, 1>>}
Talked == provider.calls # <<>> \/ tracker.text # <<>> \/ provider.output > 0 \/ provider.input > 0
Telling ==
  Talked =>
    /\ \A i \in DOMAIN tracker.latencies : tracker.latencies[i] = 1
    /\ report # NoReport => report.duration = tracker.now + 2
    /\ tracker.chunks > 2 => provider.calls # <<>> /\ tracker.text = <<>> /\ provider.output = 0
    /\ tracker.chunks > 3 => Len(provider.calls) = 2

(* As little as possible stands for tables that are not looked at. *)
NoImport == directory = <<>> /\ database = <<>> /\ program = Resting /\ results = <<>> /\ runs = 0

MCInit ==
  /\ Init /\ StoreInit /\ RecordingInit /\ MetricsInit
  /\ part \in {"files", "call", "import", "metrics"}
  /\ (Stores \/ part # "files") => crew = {t1}
  /\ part # "files" => ~Stores
  /\ part # "call" => exchange = NoCall
  /\ part # "metrics" => dialect = "openai"
  /\ IF part = "import" THEN ImportInit ELSE NoImport
MCNext ==
  \/ /\ part = "files" /\ ~Stores /\ Next /\ Few'
     /\ UNCHANGED <<part, storeVars, recordingVars, importVars, metricsVars>>
  \/ /\ part = "files" /\ Stores /\ StoreNext
     /\ UNCHANGED <<part, vars, recordingVars, importVars, metricsVars>>
  \/ /\ part = "call" /\ RecordingNext
     /\ UNCHANGED <<part, vars, storeVars, importVars, metricsVars>>
  \/ /\ part = "import" /\ ImportNext
     /\ UNCHANGED <<part, vars, storeVars, recordingVars, metricsVars>>
  \/ /\ part = "metrics" /\ MetricsNext /\ Telling'
     /\ UNCHANGED <<part, vars, storeVars, recordingVars, importVars>>
MCSpec == MCInit /\ [][MCNext]_<<part, vars, storeVars, recordingVars, importVars, metricsVars>>
=============================================================================
