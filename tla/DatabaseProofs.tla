--------------------------- MODULE DatabaseProofs ---------------------------
(***************************************************************************)
(* Proofs about the databases: SqliteMigration, for any number of          *)
(* processes and any file that a release may have left behind, and         *)
(* PgTenants, for any number of servers, tenants, migrations and updates.  *)
(***************************************************************************)
EXTENDS SqliteMigration, PgTenants, DataLemmas

NewTables == {"sessions", "session_stats", "stream_metrics", "tool_stats", "tool_call_executions"}

Disk == [versions : SUBSET (Nat \ {0}), tables : SUBSET (NewTables \cup {"tool_calls"}),
         columns : SUBSET AllColumns, totals : BOOLEAN, arguments : BOOLEAN,
         calls : SUBSET {Tool, Unknown}, stats : SUBSET {Tool, Unknown}]

(* What a version in the file stands for.                                  *)
VersionsTrue(d) ==
    \A v \in d.versions :
        /\ v >= 2 => AllColumns \subseteq d.columns
        /\ v >= 5 => {"tool_stats", "tool_call_executions"} \subseteq d.tables /\ "tool_calls" \notin d.tables

(* The files that a release, or an attempt to leave it, left behind.  Two  *)
(* processes may bring the file up to date at once only if no attempt left *)
(* a table behind and the old table counts something to keep: an empty one *)
(* is taken for what a failed attempt left and dropped (DropIsSafe).       *)
Released(s) ==
    /\ s.disk \in Disk /\ VersionsTrue(s.disk)
    /\ s.disk.stats # {} => "tool_stats" \in s.disk.tables
    /\ s.who \subseteq Procs /\ IsFiniteSet(s.who)
    /\ Cardinality(s.who) > 1 /\ "tool_calls" \in s.disk.tables =>
          "tool_stats" \notin s.disk.tables /\ Tool \in s.disk.calls

FilesAreReleased == \A s \in Starts : Released(s)

Alone == Cardinality(start.who) <= 1

Beyond == {"columns", "add", "m23", "m34", "arguments", "v4", "m45", "newtable", "count", "drop",
           "rename", "executions", "cleanup", "v5", "open"}
Places == {"off", "failed", "base", "rest", "version"} \cup Beyond

TypeInv ==
    /\ start \in Starts
    /\ disk \in Disk
    /\ pc \in [Procs -> Places]
    /\ DOMAIN todo = Procs
    /\ \A p \in Procs :
          /\ pc[p] # "off" => p \in start.who
          /\ pc[p] \in {"base", "rest"} => todo[p] \in Seq(NewTables)
          /\ pc[p] \in {"columns", "add"} => todo[p] \in Seq(AllColumns)
          /\ pc[p] = "add" => todo[p] # << >>

(* The file. *)
DiskInv ==
    /\ VersionsTrue(disk)
    /\ disk.stats # {} => Has("tool_stats")
    /\ ~Alone /\ "tool_calls" \in start.disk.tables =>
          \/ Has("tool_calls") /\ ~Has("tool_stats") /\ Tool \in disk.calls
          \/ ~Has("tool_calls") /\ Has("tool_stats") /\ Tool \in disk.stats
    /\ "tool_calls" \notin start.disk.tables => ~Has("tool_calls")
    /\ Alone /\ Has("tool_calls") => disk.stats = start.disk.stats

(* Where total_tokens got its formula from.                                *)
TotalsInv ==
    /\ "sessions" \in start.disk.tables => Has("sessions") /\ disk.totals = start.disk.totals
    /\ "sessions" \notin start.disk.tables /\ Has("sessions") => disk.totals = TRUE

Base == ToSet(BaseTables)

(* What a process has seen to, wherever it is. *)
Created(p) ==
    /\ pc[p] # "off" => disk.versions # {}
    /\ pc[p] = "base" => Base \subseteq disk.tables \cup ToSet(todo[p]) /\ ToSet(todo[p]) \subseteq Base
    /\ pc[p] = "rest" =>
          /\ Base \subseteq disk.tables
          /\ "stream_metrics" \in disk.tables \cup ToSet(todo[p])
          /\ Has("tool_calls") \/ "tool_stats" \in disk.tables \cup ToSet(todo[p])
          /\ "tool_stats" \in ToSet(todo[p]) => ~Has("tool_calls")
    /\ pc[p] \in Beyond \cup {"version"} =>
          /\ Base \cup {"stream_metrics"} \subseteq disk.tables
          /\ Has("tool_calls") \/ Has("tool_stats")
    /\ pc[p] \in {"columns", "add"} => AllColumns \subseteq disk.columns \cup ToSet(todo[p])
    /\ pc[p] \in Beyond \ {"columns", "add"} => AllColumns \subseteq disk.columns
    /\ pc[p] \in {"newtable", "count", "drop", "rename"} => "tool_calls" \in start.disk.tables
    /\ pc[p] = "count" /\ ~Alone => Has("tool_stats")
    /\ pc[p] = "drop" => Alone /\ Has("tool_calls") /\ disk.stats = {}
    /\ pc[p] \in {"executions", "cleanup", "v5", "open"} => ~Has("tool_calls") /\ Has("tool_stats")
    /\ pc[p] \in {"cleanup", "v5", "open"} => Has("tool_call_executions")

(* A process that is alone knows the version, and every check still holds  *)
(* when the statement after it is executed.                                *)
Expected(p) ==
    /\ pc[p] \in {"base", "rest"} => 1 \in disk.versions
    /\ pc[p] \in {"version", "columns", "add"} => disk.versions = {1}
    /\ pc[p] = "m23" => disk.versions = {2}
    /\ pc[p] \in {"m34", "arguments", "v4"} => disk.versions = {3}
    /\ pc[p] \in {"m45", "newtable", "count", "drop", "rename", "executions", "cleanup", "v5"} =>
          disk.versions = {4}
    /\ pc[p] = "add" => Head(todo[p]) \notin disk.columns
    /\ pc[p] = "arguments" => Has("tool_calls") /\ ~disk.arguments
    /\ pc[p] \in {"newtable", "count", "rename"} => Has("tool_calls")
    /\ pc[p] = "rename" => ~Has("tool_stats")
    /\ pc[p] = "failed" => start.disk.stats # {}

MigrationInv ==
    /\ TypeInv
    /\ DiskInv
    /\ \A p \in Procs : Created(p)
    /\ Alone => \A p \in Procs : Expected(p)

-----------------------------------------------------------------------------
(* Sequences of tables and columns *)

LEMMA Walked ==
  ASSUME NEW S, NEW s \in Seq(S), s # << >>
  PROVE  /\ Head(s) \in S /\ Tail(s) \in Seq(S)
         /\ ToSet(s) = {Head(s)} \cup ToSet(Tail(s))
<1>1. /\ Head(s) \in S /\ Tail(s) \in Seq(S) /\ Len(s) \in Nat \ {0}
      /\ Head(s) = s[1] /\ Len(Tail(s)) = Len(s) - 1
      /\ \A i \in 1 .. Len(s) - 1 : Tail(s)[i] = s[i + 1]
      /\ DOMAIN s = 1 .. Len(s) /\ DOMAIN Tail(s) = 1 .. Len(s) - 1
  OBVIOUS
<1>2. ToSet(s) \subseteq {Head(s)} \cup ToSet(Tail(s))
  <2>1. ASSUME NEW i \in 1 .. Len(s) PROVE s[i] \in {Head(s)} \cup ToSet(Tail(s))
    <3>1. CASE i = 1
      BY <1>1, <3>1
    <3>2. CASE i # 1
      <4>1. i - 1 \in 1 .. Len(s) - 1 /\ Tail(s)[i - 1] = s[i]
        BY <1>1, <3>2
      <4> QED
        BY <1>1, <4>1 DEF ToSet
    <3> QED
      BY <3>1, <3>2
  <2> QED
    BY <1>1, <2>1 DEF ToSet
<1>3. {Head(s)} \cup ToSet(Tail(s)) \subseteq ToSet(s)
  <2>1. 1 \in 1 .. Len(s) /\ \A i \in 1 .. Len(s) - 1 : i + 1 \in 1 .. Len(s)
    BY <1>1
  <2> QED
    BY <1>1, <2>1 DEF ToSet
<1> QED
  BY <1>1, <1>2, <1>3

LEMMA Lists ==
  /\ BaseTables \in Seq(NewTables) /\ Base = {"sessions", "session_stats"}
  /\ ToolTables \o <<"stream_metrics">> \in Seq(NewTables)
  /\ ToSet(ToolTables \o <<"stream_metrics">>) = {"tool_stats", "tool_call_executions", "stream_metrics"}
  /\ << >> \o <<"stream_metrics">> \in Seq(NewTables) /\ ToSet(<< >> \o <<"stream_metrics">>) = {"stream_metrics"}
  /\ ToSet(ToolTables) = {"tool_stats", "tool_call_executions"}
  /\ ToSet(<< >>) = {}
<1>1. ASSUME NEW a \in NewTables, NEW b \in NewTables, NEW c \in NewTables
      PROVE  /\ <<a, b>> \o <<c>> \in Seq(NewTables) /\ ToSet(<<a, b>> \o <<c>>) = {a, b, c}
             /\ << >> \o <<c>> \in Seq(NewTables) /\ ToSet(<< >> \o <<c>>) = {c}
             /\ <<a, b>> \in Seq(NewTables) /\ ToSet(<<a, b>>) = {a, b}
  <2>1. <<a, b>> \in Seq(NewTables) /\ <<c>> \in Seq(NewTables) /\ << >> \in Seq(NewTables)
    OBVIOUS
  <2>2. /\ <<a, b>> \o <<c>> \in Seq(NewTables) /\ Len(<<a, b>> \o <<c>>) = 3
        /\ (<<a, b>> \o <<c>>)[1] = a /\ (<<a, b>> \o <<c>>)[2] = b /\ (<<a, b>> \o <<c>>)[3] = c
    BY <2>1, ConcatProperties
  <2>3. << >> \o <<c>> = <<c>>
    BY <2>1
  <2>4. PICK s : s = <<a, b>> \o <<c>>
    OBVIOUS
  <2>5. ToSet(s) = {a, b, c}
    <3>1. DOMAIN s = {1, 2, 3} /\ s[1] = a /\ s[2] = b /\ s[3] = c
      BY <2>2, <2>4
    <3> QED
      BY <3>1 DEF ToSet
  <2>6. ToSet(<<a, b>>) = {a, b} /\ ToSet(<<c>>) = {c}
    BY DEF ToSet
  <2> QED
    BY <2>1, <2>2, <2>3, <2>4, <2>5, <2>6, Zenon
<1>2. ToSet(<< >>) = {}
  BY DEF ToSet
<1>3. {"sessions", "session_stats", "stream_metrics", "tool_stats", "tool_call_executions"} \subseteq NewTables
  BY DEF NewTables
<1>4. BaseTables = <<"sessions", "session_stats">> /\ ToolTables = <<"tool_stats", "tool_call_executions">>
  BY DEF BaseTables, ToolTables
<1>5. BaseTables \in Seq(NewTables) /\ Base = {"sessions", "session_stats"}
  BY <1>1, <1>3, <1>4 DEF Base
<1>6. /\ ToolTables \o <<"stream_metrics">> \in Seq(NewTables)
      /\ ToSet(ToolTables \o <<"stream_metrics">>) = {"tool_stats", "tool_call_executions", "stream_metrics"}
      /\ ToSet(ToolTables) = {"tool_stats", "tool_call_executions"}
  <2>1. "stream_metrics" \in NewTables /\ "tool_stats" \in NewTables /\ "tool_call_executions" \in NewTables
    BY <1>3
  <2> HIDE DEF NewTables
  <2>2. /\ ToolTables \o <<"stream_metrics">> \in Seq(NewTables)
        /\ ToSet(ToolTables \o <<"stream_metrics">>) = {"tool_stats", "tool_call_executions", "stream_metrics"}
    <3> DEFINE l == <<"tool_stats", "tool_call_executions">> \o <<"stream_metrics">>
    <3>1. l \in Seq(NewTables) /\ ToSet(l) = {"tool_stats", "tool_call_executions", "stream_metrics"}
      BY <1>1, <2>1
    <3>2. ToolTables \o <<"stream_metrics">> = l
      BY DEF ToolTables
    <3> QED
      BY <3>1, <3>2
  <2>3. ToSet(ToolTables) = {"tool_stats", "tool_call_executions"}
    BY DEF ToSet, ToolTables
  <2> QED
    BY <2>2, <2>3
<1>7. << >> \o <<"stream_metrics">> \in Seq(NewTables) /\ ToSet(<< >> \o <<"stream_metrics">>) = {"stream_metrics"}
  <2>1. "stream_metrics" \in NewTables
    BY <1>3
  <2> QED
    BY <1>1, <2>1, Zenon
<1> QED
  BY <1>2, <1>5, <1>6, <1>7, Zenon

-----------------------------------------------------------------------------
(* A step of one process *)

(* What no statement undoes. *)
Evolves ==
    /\ start' = start
    /\ disk.tables \ {"tool_calls", "tool_stats"} \subseteq disk'.tables
    /\ disk.columns \subseteq disk'.columns
    /\ disk.versions # {} => disk'.versions # {}
    /\ "tool_calls" \in disk'.tables => Has("tool_calls")
    /\ Has("tool_calls") => {"tool_calls", "tool_stats"} \cap disk'.tables # {}
    /\ ~Alone \/ ~Has("tool_calls") => (Has("tool_stats") => "tool_stats" \in disk'.tables)

Good(p) ==
    /\ TypeInv' /\ DiskInv' /\ Evolves
    /\ \A q \in Procs \ {p} : pc'[q] = pc[q] /\ todo'[q] = todo[q]
    /\ Created(p)'
    /\ Alone => Expected(p)'

LEMMA AloneIsOne ==
  ASSUME TypeInv, FilesAreReleased, Alone, NEW p \in start.who, NEW q \in Procs \ {p}
  PROVE  pc[q] = "off"
<1>1. IsFiniteSet(start.who) /\ Cardinality(start.who) <= 1
  BY DEF TypeInv, FilesAreReleased, Released, Alone
<1>2. SUFFICES ASSUME q \in start.who PROVE FALSE
  BY DEF TypeInv
<1>3. {p, q} \subseteq start.who /\ IsFiniteSet({p, q}) /\ Cardinality({p, q}) = 2
  <2>1. IsFiniteSet({p}) /\ Cardinality({p}) = 1 /\ q \notin {p}
    BY FS_Singleton
  <2>2. /\ IsFiniteSet({p} \cup {q})
        /\ Cardinality({p} \cup {q}) = IF q \in {p} THEN Cardinality({p}) ELSE Cardinality({p}) + 1
    BY <2>1, FS_AddElement, Zenon
  <2>3. {p} \cup {q} = {p, q}
    OBVIOUS
  <2>4. IsFiniteSet({p, q}) /\ Cardinality({p, q}) = 2
    BY <2>1, <2>2, <2>3
  <2> QED
    BY <1>2, <2>4
<1> QED
  BY <1>1, <1>3, FS_Subset, FS_CardinalityType

LEMMA OneProcess ==
  ASSUME FilesAreReleased, MigrationInv, NEW p \in start.who, Good(p)
  PROVE  MigrationInv'
<1>1. Alone' = Alone /\ start' = start
  BY DEF Good, Evolves, Alone
<1>2. ASSUME NEW q \in Procs \ {p} PROVE Created(q)'
  <2>1. Created(q) /\ pc'[q] = pc[q] /\ todo'[q] = todo[q] /\ Evolves
    BY DEF MigrationInv, Good
  <2>2. CASE pc[q] = "off"
    BY <2>1, <2>2 DEF Created, Beyond
  <2>3. CASE ~Alone
    <3> USE <2>1, <2>3 DEF Has, Evolves
    <3>1. pc[q] = "base" => Base \subseteq disk'.tables \cup ToSet(todo[q]) /\ ToSet(todo[q]) \subseteq Base
      BY Lists DEF Created
    <3>2. pc[q] = "rest" =>
             /\ Base \subseteq disk'.tables
             /\ "stream_metrics" \in disk'.tables \cup ToSet(todo[q])
             /\ "tool_calls" \in disk'.tables \/ "tool_stats" \in disk'.tables \cup ToSet(todo[q])
             /\ "tool_stats" \in ToSet(todo[q]) => "tool_calls" \notin disk'.tables
      BY Lists DEF Created
    <3>3. pc[q] \in Beyond \cup {"version"} =>
             /\ Base \cup {"stream_metrics"} \subseteq disk'.tables
             /\ "tool_calls" \in disk'.tables \/ "tool_stats" \in disk'.tables
      BY Lists DEF Created
    <3>4. /\ pc[q] \in {"columns", "add"} => AllColumns \subseteq disk'.columns \cup ToSet(todo[q])
          /\ pc[q] \in Beyond \ {"columns", "add"} => AllColumns \subseteq disk'.columns
      BY DEF Created
    <3>5. /\ pc[q] \in {"newtable", "count", "drop", "rename"} => "tool_calls" \in start'.disk.tables
          /\ pc[q] = "count" => "tool_stats" \in disk'.tables
          /\ pc[q] # "drop"
          /\ pc[q] \in {"executions", "cleanup", "v5", "open"} => "tool_calls" \notin disk'.tables /\ "tool_stats" \in disk'.tables
          /\ pc[q] \in {"cleanup", "v5", "open"} => "tool_call_executions" \in disk'.tables
      BY DEF Created
    <3>6. pc[q] # "off" => disk'.versions # {}
      BY DEF Created
    <3> QED
      BY <1>1, <3>1, <3>2, <3>3, <3>4, <3>5, <3>6 DEF Created
  <2> QED
    BY <2>2, <2>3, AloneIsOne DEF MigrationInv
<1>3. ASSUME Alone, NEW q \in Procs \ {p} PROVE Expected(q)'
  <2>1. pc'[q] = "off"
    BY <1>3, AloneIsOne DEF MigrationInv, Good
  <2> QED
    BY <2>1 DEF Expected
<1> QED
  BY <1>1, <1>2, <1>3 DEF MigrationInv, Good

-----------------------------------------------------------------------------
(* The statements, one by one *)

(* Process p is at l, with the list t to walk through. *)
Moves(p, l, t) ==
    /\ pc' = [pc EXCEPT ![p] = l] /\ start' = start
    /\ DOMAIN todo' = Procs /\ todo'[p] = t /\ \A q \in Procs \ {p} : todo'[q] = todo[q]

LEMMA Stepped ==
  ASSUME FilesAreReleased, MigrationInv, NEW p \in start.who, NEW l \in Places, NEW t, Moves(p, l, t),
         l \in {"base", "rest"} => t \in Seq(NewTables),
         l \in {"columns", "add"} => t \in Seq(AllColumns),
         l = "add" => t # << >>,
         disk' \in Disk, DiskInv', Evolves, Created(p)', Alone => Expected(p)'
  PROVE  Good(p)
<1>1. p \in Procs /\ start \in Starts
  BY DEF FilesAreReleased, Released, MigrationInv, TypeInv
<1>2. pc'[p] = l /\ \A q \in Procs \ {p} : pc'[q] = pc[q]
  BY <1>1 DEF Moves, MigrationInv, TypeInv
<1>3. TypeInv'
  BY <1>1, <1>2 DEF Moves, MigrationInv, TypeInv
<1> QED
  BY <1>2, <1>3 DEF Good, Moves

LEMMA SameDisk ==
  ASSUME MigrationInv, disk' = disk, start' = start
  PROVE  disk' \in Disk /\ DiskInv' /\ Evolves
<1>1. Alone' = Alone /\ \A t : Has(t)' = Has(t)
  BY DEF Alone, Has
<1>2. DiskInv'
  BY <1>1 DEF MigrationInv, DiskInv
<1> QED
  BY <1>2 DEF MigrationInv, TypeInv, Evolves, Has

(* Another process was faster, or somebody left what is in the way. *)
LEMMA Fails ==
  ASSUME FilesAreReleased, MigrationInv, NEW p \in start.who, NEW l \in {"failed", "off"}, NEW t, Moves(p, l, t),
         pc[p] # "off", disk' = disk, l = "failed" /\ Alone => start.disk.stats # {}
  PROVE  Good(p)
<1>1. p \in Procs
  BY DEF FilesAreReleased, Released, MigrationInv, TypeInv
<1>2. pc'[p] = l /\ start' = start
  BY <1>1 DEF Moves, MigrationInv, TypeInv
<1>3. Created(p)' /\ (Alone => Expected(p)')
  <2>1. Created(p)
    BY <1>1 DEF MigrationInv
  <2> QED
    BY <1>2, <2>1 DEF Created, Expected, Beyond
<1>4. l \in Places
  BY DEF Places
<1> QED
  BY <1>2, <1>3, <1>4, Stepped, SameDisk

LEMMA Acts ==
  ASSUME MigrationInv, FilesAreReleased, NEW p \in Procs, pc[p] # "off"
  PROVE  p \in start.who /\ start \in Starts /\ Released(start) /\ Created(p) /\ (Alone => Expected(p))
BY DEF MigrationInv, TypeInv, FilesAreReleased

LEMMA OpenGood ==
  ASSUME FilesAreReleased, MigrationInv, NEW p \in Procs, Open(p)
  PROVE  p \in start.who /\ Good(p)
<1>1. p \in start.who /\ disk' = [disk EXCEPT !.versions = @ \cup {1}] /\ start' = start
  BY DEF Open
<1>2. Moves(p, "base", BaseTables) /\ pc'[p] = "base" /\ todo'[p] = BaseTables
  BY <1>1 DEF Open, Goto, Moves, MigrationInv, TypeInv
<1>3. disk \in Disk
  BY DEF MigrationInv, TypeInv
<1>4. disk' \in Disk /\ Evolves /\ DiskInv'
  <2>1. disk' \in Disk
    BY <1>1, <1>3 DEF Disk
  <2>2. Evolves
    BY <1>1, <1>3 DEF Evolves, Has, Disk
  <2>3. VersionsTrue(disk')
    BY <1>1, <1>3 DEF MigrationInv, DiskInv, VersionsTrue, Disk
  <2>4. DiskInv'
    BY <1>1, <1>3, <2>3 DEF MigrationInv, DiskInv, Has, Alone, Disk
  <2> QED
    BY <2>1, <2>2, <2>4
<1>5. Created(p)' /\ Expected(p)'
  BY <1>1, <1>2, <1>3 DEF Created, Expected, Beyond, Base, Disk
<1> QED
  BY <1>1, <1>2, <1>4, <1>5, Stepped, Lists DEF Places

LEMMA CreateTableGood ==
  ASSUME FilesAreReleased, MigrationInv, NEW p \in Procs, CreateTable(p)
  PROVE  p \in start.who /\ Good(p)
<1> DEFINE h == Head(todo[p])
           t == Tail(todo[p])
<1>1. /\ pc[p] \in {"base", "rest"} /\ todo[p] # << >> /\ todo[p] \in Seq(NewTables)
      /\ disk' = WithTable(h) /\ start' = start /\ pc' = pc
  BY DEF CreateTable, MigrationInv, TypeInv
<1>2. p \in start.who /\ Created(p) /\ (Alone => Expected(p)) /\ disk \in Disk
  BY <1>1, Acts DEF MigrationInv, TypeInv
<1>3. h \in NewTables /\ t \in Seq(NewTables) /\ ToSet(todo[p]) = {h} \cup ToSet(t)
  BY <1>1, Walked
<1>4. Moves(p, pc[p], t) /\ todo'[p] = t
  BY DEF CreateTable, Moves, MigrationInv, TypeInv
<1> HIDE DEF h, t
<1>5. /\ disk'.tables = disk.tables \cup {h} /\ disk'.versions = disk.versions /\ disk'.arguments = disk.arguments
      /\ disk'.calls = disk.calls /\ disk'.stats = disk.stats /\ disk.columns \subseteq disk'.columns
      /\ disk' \in Disk
  BY <1>1, <1>2, <1>3 DEF WithTable, Has, Disk
<1>6. Evolves
  BY <1>1, <1>3, <1>5 DEF Evolves, Has, NewTables
<1>7. DiskInv'
  <2>1. h = "tool_stats" => ~Has("tool_calls")
    BY <1>1, <1>2, <1>3, Lists DEF Created
  <2>2. VersionsTrue(disk')
    BY <1>3, <1>5 DEF MigrationInv, DiskInv, VersionsTrue, NewTables
  <2>3. "tool_calls" \in disk'.tables <=> Has("tool_calls")
    BY <1>3, <1>5 DEF Has, NewTables
  <2> QED
    BY <1>1, <1>5, <2>1, <2>2, <2>3 DEF MigrationInv, DiskInv, Has, Alone
<1>8. Created(p)'
  BY <1>1, <1>2, <1>3, <1>4, <1>5 DEF Created, Beyond, Has, NewTables
<1>9. Alone => Expected(p)'
  BY <1>1, <1>2, <1>5 DEF Expected
<1> QED
  BY <1>1, <1>2, <1>3, <1>4, <1>5, <1>6, <1>7, <1>8, <1>9, Stepped DEF Places

LEMMA CheckToolCallsGood ==
  ASSUME FilesAreReleased, MigrationInv, NEW p \in Procs, CheckToolCalls(p)
  PROVE  p \in start.who /\ Good(p)
<1> DEFINE t == (IF Has("tool_calls") THEN << >> ELSE ToolTables) \o <<"stream_metrics">>
<1>1. pc[p] = "base" /\ todo[p] = << >> /\ disk' = disk /\ start' = start
  BY DEF CheckToolCalls, At
<1>2. p \in start.who /\ Created(p) /\ (Alone => Expected(p))
  BY <1>1, Acts
<1>3. Moves(p, "rest", t) /\ todo'[p] = t /\ pc'[p] = "rest"
  BY DEF CheckToolCalls, Goto, Moves, MigrationInv, TypeInv
<1>4. /\ t \in Seq(NewTables) /\ "stream_metrics" \in ToSet(t)
      /\ "tool_stats" \in ToSet(t) <=> ~Has("tool_calls")
  BY Lists, Zenon
<1> HIDE DEF t
<1>5. Created(p)' /\ (Alone => Expected(p)')
  BY <1>1, <1>2, <1>3, <1>4, Lists DEF Created, Expected, Beyond, Has
<1> QED
  BY <1>1, <1>2, <1>3, <1>4, <1>5, SameDisk, Stepped DEF Places

LEMMA CleanVersionsGood ==
  ASSUME FilesAreReleased, MigrationInv, NEW p \in Procs, CleanVersions(p)
  PROVE  p \in start.who /\ Good(p)
<1>1. /\ pc[p] = "rest" /\ todo[p] = << >> /\ disk' = [disk EXCEPT !.versions = {Min(@)}] /\ start' = start
  BY DEF CleanVersions, At
<1>2. p \in start.who /\ Created(p) /\ (Alone => Expected(p)) /\ disk \in Disk
  BY <1>1, Acts DEF MigrationInv, TypeInv
<1>3. Moves(p, "version", << >>) /\ pc'[p] = "version"
  BY <1>1 DEF CleanVersions, Goto, Moves, MigrationInv, TypeInv
<1>4. disk.versions # {} /\ disk.versions \subseteq Nat \ {0} /\ Min(disk.versions) \in disk.versions
      /\ \A k \in disk.versions : Min(disk.versions) <= k
  <2>1. disk.versions # {} /\ disk.versions \subseteq Nat \ {0}
    BY <1>1, <1>2 DEF Created, Disk
  <2> QED
    BY <2>1, MinIsLeast
<1>5. PICK m : m = Min(disk.versions)
  OBVIOUS
<1>6. /\ disk' = [disk EXCEPT !.versions = {m}] /\ m \in disk.versions
      /\ disk' \in Disk
  BY <1>1, <1>2, <1>4, <1>5 DEF Disk
<1>7. Evolves /\ DiskInv'
  <2>1. VersionsTrue(disk')
    BY <1>2, <1>6 DEF MigrationInv, DiskInv, VersionsTrue, Disk
  <2> QED
    BY <1>1, <1>2, <1>6, <2>1 DEF MigrationInv, DiskInv, Evolves, Has, Alone, Disk
<1>8. Created(p)'
  BY <1>1, <1>2, <1>3, <1>6, Lists DEF Created, Beyond, Has, Disk
<1>9. Alone => Expected(p)'
  <2>1. Alone => m = 1
    BY <1>1, <1>2, <1>4, <1>5 DEF Expected
  <2> QED
    BY <1>2, <1>3, <1>6, <2>1 DEF Expected, Disk
<1> QED
  BY <1>2, <1>3, <1>6, <1>7, <1>8, <1>9, Stepped DEF Places

LEMMA ReadVersionGood ==
  ASSUME FilesAreReleased, MigrationInv, NEW p \in Procs, ReadVersion(p)
  PROVE  p \in start.who /\ Good(p)
<1>1. pc[p] = "version" /\ disk' = disk /\ start' = start
  BY DEF ReadVersion, At
<1>2. p \in start.who /\ Created(p) /\ (Alone => Expected(p)) /\ disk \in Disk
  BY <1>1, Acts DEF MigrationInv, TypeInv
<1> DEFINE v == Min(disk.versions)
<1>3. v \in disk.versions /\ v \in Nat \ {0}
  <2>1. disk.versions # {} /\ disk.versions \subseteq Nat \ {0}
    BY <1>1, <1>2 DEF Created, Disk
  <2>2. v \in disk.versions
    BY <2>1, MinIsLeast
  <2> QED
    BY <2>1, <2>2
<1> DEFINE l == First(v)
<1>4. l \in Places /\ Moves(p, l, Columns) /\ pc'[p] = l /\ todo'[p] = Columns
  <2>1. l \in Places
    BY <1>3 DEF First, Current, Places, Beyond
  <2> QED
    BY <1>1, <2>1 DEF ReadVersion, Goto, Moves, MigrationInv, TypeInv
<1> HIDE DEF v
<1>5. \/ (l = "columns" /\ v = 1) \/ (l = "m23" /\ v = 2) \/ (l = "m34" /\ v = 3) \/ (l = "m45" /\ v = 4)
      \/ (l = "open" /\ v = 5) \/ (l = "failed" /\ v # 1)
  <2>1. First(1) = "columns" /\ First(2) = "m23" /\ First(3) = "m34" /\ First(4) = "m45" /\ First(5) = "open"
    BY DEF First, Current
  <2>2. v \notin {1, 2, 3, 4, 5} => First(v) = "failed"
    BY DEF First, Current
  <2> QED
    BY <1>3, <2>1, <2>2
<1> HIDE DEF l
<1>6. Columns \in Seq(AllColumns)
  BY MigrationAssumption DEF AllColumns
<1>7. /\ v >= 2 => AllColumns \subseteq disk.columns
      /\ v >= 5 => {"tool_stats", "tool_call_executions"} \subseteq disk.tables /\ "tool_calls" \notin disk.tables
  BY <1>3 DEF MigrationInv, DiskInv, VersionsTrue
<1>8. Created(p)'
  BY <1>1, <1>2, <1>3, <1>4, <1>5, <1>7 DEF Created, Beyond, Has, AllColumns
<1>9. Alone => Expected(p)'
  BY <1>1, <1>2, <1>3, <1>4, <1>5 DEF Expected
<1> QED
  BY <1>1, <1>2, <1>4, <1>5, <1>6, <1>8, <1>9, SameDisk, Stepped

LEMMA CheckColumnGood ==
  ASSUME FilesAreReleased, MigrationInv, NEW p \in Procs, CheckColumn(p)
  PROVE  p \in start.who /\ Good(p)
<1>1. pc[p] = "columns" /\ todo[p] # << >> /\ disk' = disk /\ start' = start /\ todo[p] \in Seq(AllColumns)
  BY DEF CheckColumn, At, MigrationInv, TypeInv
<1>2. p \in start.who /\ Created(p) /\ (Alone => Expected(p))
  BY <1>1, Acts
<1>3. /\ Tail(todo[p]) \in Seq(AllColumns)
      /\ ToSet(todo[p]) = {Head(todo[p])} \cup ToSet(Tail(todo[p]))
  BY <1>1, Walked
<1>4. CASE Head(todo[p]) \in disk.columns
  <2> DEFINE t == Tail(todo[p])
  <2>1. Moves(p, "columns", t) /\ pc'[p] = "columns" /\ todo'[p] = t
    BY <1>1, <1>4 DEF CheckColumn, Moves, MigrationInv, TypeInv
  <2> HIDE DEF t
  <2>2. Created(p)' /\ (Alone => Expected(p)')
    BY <1>1, <1>2, <1>3, <1>4, <2>1 DEF Created, Expected, Beyond, Has, t
  <2> QED
    BY <1>1, <1>2, <1>3, <2>1, <2>2, SameDisk, Stepped DEF Places, Beyond, t
<1>5. CASE Head(todo[p]) \notin disk.columns
  <2>1. Moves(p, "add", todo[p]) /\ pc'[p] = "add" /\ todo'[p] = todo[p]
    BY <1>1, <1>5 DEF CheckColumn, Goto, Moves, MigrationInv, TypeInv
  <2>2. Created(p)' /\ (Alone => Expected(p)')
    BY <1>1, <1>2, <1>3, <1>5, <2>1 DEF Created, Expected, Beyond, Has
  <2> QED
    BY <1>1, <1>2, <1>3, <2>1, <2>2, SameDisk, Stepped DEF Places, Beyond
<1> QED
  BY <1>4, <1>5

LEMMA AddColumnGood ==
  ASSUME FilesAreReleased, MigrationInv, NEW p \in Procs, AddColumn(p)
  PROVE  p \in start.who /\ Good(p)
<1>1. pc[p] = "add" /\ todo[p] # << >> /\ start' = start /\ todo[p] \in Seq(AllColumns)
  BY DEF AddColumn, At, MigrationInv, TypeInv
<1>2. p \in start.who /\ Created(p) /\ (Alone => Expected(p)) /\ disk \in Disk
  BY <1>1, Acts DEF MigrationInv, TypeInv
<1> DEFINE h == Head(todo[p])
           t == Tail(todo[p])
<1>3. h \in AllColumns /\ t \in Seq(AllColumns) /\ ToSet(todo[p]) = {h} \cup ToSet(t)
  BY <1>1, Walked
<1>4. CASE h \in disk.columns
  <2>1. Moves(p, "failed", todo[p]) /\ disk' = disk
    BY <1>1, <1>4 DEF AddColumn, Goto, Moves, MigrationInv, TypeInv
  <2>2. ~Alone
    BY <1>1, <1>2, <1>4 DEF Expected
  <2> QED
    BY <1>1, <1>2, <2>1, <2>2, Fails
<1>5. CASE h \notin disk.columns
  <2>1. /\ disk' = [disk EXCEPT !.columns = @ \cup {h}]
        /\ Moves(p, "columns", t) /\ pc'[p] = "columns" /\ todo'[p] = t
    BY <1>1, <1>5 DEF AddColumn, Goto, Moves, MigrationInv, TypeInv
  <2> HIDE DEF h, t
  <2>2. disk' \in Disk /\ Evolves
    BY <1>1, <1>2, <1>3, <2>1 DEF Evolves, Has, Disk
  <2>3. DiskInv'
    <3>1. VersionsTrue(disk')
      BY <1>2, <2>1 DEF MigrationInv, DiskInv, VersionsTrue, Disk
    <3> QED
      BY <1>1, <1>2, <2>1, <3>1 DEF MigrationInv, DiskInv, Has, Alone, Disk
  <2>4. Created(p)' /\ (Alone => Expected(p)')
    BY <1>1, <1>2, <1>3, <2>1 DEF Created, Expected, Beyond, Has, Disk
  <2> QED
    BY <1>2, <1>3, <2>1, <2>2, <2>3, <2>4, Stepped DEF Places, Beyond
<1> QED
  BY <1>4, <1>5

(* UPDATE schema_version, where the file is what the version says.         *)
LEMMA SetVersionGood ==
  ASSUME FilesAreReleased, MigrationInv, NEW p \in Procs, NEW v \in Nat \ {0}, NEW l \in Beyond \ {"columns", "add"},
         NEW from \in Beyond, pc[p] = from, SetVersion(p, v, l), UNCHANGED <<todo, start>>,
         AllColumns \subseteq disk.columns,
         v >= 5 => {"tool_stats", "tool_call_executions"} \subseteq disk.tables /\ ~Has("tool_calls"),
         \/ l \in {"m23", "m34", "m45"}
         \/ l = "open" /\ from = "v5",
         Alone => /\ Cardinality(disk.versions) = 1
                  /\ (l = "m23" => v = 2) /\ (l = "m34" => v = 3) /\ (l = "m45" => v = 4)
  PROVE  p \in start.who /\ Good(p)
<1>1. p \in start.who /\ Created(p) /\ disk \in Disk /\ start' = start
  BY Acts DEF MigrationInv, TypeInv, Beyond
<1>2. CASE Cardinality(disk.versions) # 1
  <2>1. Moves(p, "failed", todo[p]) /\ disk' = disk
    BY <1>1, <1>2 DEF SetVersion, Goto, Moves, MigrationInv, TypeInv
  <2> QED
    BY <1>1, <1>2, <2>1, Fails DEF Beyond
<1>3. CASE Cardinality(disk.versions) = 1
  <2>1. disk' = [disk EXCEPT !.versions = {v}] /\ Moves(p, l, todo[p]) /\ pc'[p] = l
    BY <1>1, <1>3 DEF SetVersion, Goto, Moves, MigrationInv, TypeInv
  <2>2. disk' \in Disk /\ Evolves
    BY <1>1, <2>1 DEF Evolves, Has, Disk
  <2>3. DiskInv'
    <3>1. VersionsTrue(disk')
      BY <1>1, <2>1 DEF VersionsTrue, Disk, Has
    <3> QED
      BY <1>1, <2>1, <3>1 DEF MigrationInv, DiskInv, Has, Alone, Disk
  <2>4. Created(p)'
    BY <1>1, <2>1 DEF Created, Beyond, Has, Disk
  <2>5. Alone => Expected(p)'
    BY <1>1, <2>1 DEF Expected, Disk
  <2> QED
    BY <1>1, <2>1, <2>2, <2>3, <2>4, <2>5, Stepped DEF Places, Beyond
<1> QED
  BY <1>2, <1>3

LEMMA VersionsGood ==
  ASSUME FilesAreReleased, MigrationInv, NEW p \in Procs,
         Version2(p) \/ Version3(p) \/ Version4(p) \/ Version5(p)
  PROVE  p \in start.who /\ Good(p)
<1>1. \A v : Cardinality({v}) = 1
  BY FS_Singleton
<1>2. pc[p] # "off"
  BY DEF Version2, Version3, Version4, Version5, At
<1>3. Created(p) /\ (Alone => Expected(p))
  BY <1>2, Acts
<1>4. CASE Version2(p)
  <2>1. pc[p] = "columns" /\ todo[p] = << >> /\ SetVersion(p, 2, "m23") /\ UNCHANGED <<todo, start>>
    BY <1>4 DEF Version2, At
  <2>2. AllColumns \subseteq disk.columns
    BY <1>3, <2>1, Lists DEF Created
  <2>3. Alone => Cardinality(disk.versions) = 1
    BY <1>1, <1>3, <2>1 DEF Expected
  <2> QED
    BY <2>1, <2>2, <2>3, SetVersionGood DEF Beyond
<1>5. CASE Version3(p)
  <2>1. pc[p] = "m23" /\ SetVersion(p, 3, "m34") /\ UNCHANGED <<todo, start>>
    BY <1>5 DEF Version3, At
  <2>2. AllColumns \subseteq disk.columns
    BY <1>3, <2>1 DEF Created, Beyond
  <2>3. Alone => Cardinality(disk.versions) = 1
    BY <1>1, <1>3, <2>1 DEF Expected
  <2> QED
    BY <2>1, <2>2, <2>3, SetVersionGood DEF Beyond
<1>6. CASE Version4(p)
  <2>1. pc[p] = "v4" /\ SetVersion(p, 4, "m45") /\ UNCHANGED <<todo, start>>
    BY <1>6 DEF Version4, At
  <2>2. AllColumns \subseteq disk.columns
    BY <1>3, <2>1 DEF Created, Beyond
  <2>3. Alone => Cardinality(disk.versions) = 1
    BY <1>1, <1>3, <2>1 DEF Expected
  <2> QED
    BY <2>1, <2>2, <2>3, SetVersionGood DEF Beyond
<1>7. CASE Version5(p)
  <2>1. pc[p] = "v5" /\ SetVersion(p, 5, "open") /\ UNCHANGED <<todo, start>>
    BY <1>7 DEF Version5, At
  <2>2. AllColumns \subseteq disk.columns /\ {"tool_stats", "tool_call_executions"} \subseteq disk.tables /\ ~Has("tool_calls")
    BY <1>3, <2>1 DEF Created, Beyond, Has
  <2>3. Alone => Cardinality(disk.versions) = 1
    BY <1>1, <1>3, <2>1 DEF Expected
  <2> QED
    BY <2>1, <2>2, <2>3, SetVersionGood DEF Beyond
<1> QED
  BY <1>4, <1>5, <1>6, <1>7

(* The statements that only look. *)
LEMMA LooksGood ==
  ASSUME FilesAreReleased, MigrationInv, NEW p \in Procs,
         CheckArguments(p) \/ CheckOldTable(p) \/ CheckNewTable(p) \/ CountNewTable(p)
  PROVE  p \in start.who /\ Good(p)
<1>1. /\ pc[p] \in {"m34", "m45", "newtable", "count"} /\ disk' = disk /\ start' = start /\ todo' = todo
  BY DEF CheckArguments, CheckOldTable, CheckNewTable, CountNewTable, At
<1>2. p \in start.who /\ Created(p) /\ (Alone => Expected(p)) /\ DiskInv /\ disk \in Disk
  BY <1>1, Acts DEF MigrationInv, TypeInv
<1> DEFINE l == pc'[p]
<1>3. pc' = [pc EXCEPT ![p] = l] /\ Moves(p, l, todo[p]) /\ todo'[p] = todo[p]
  BY <1>1 DEF CheckArguments, CheckOldTable, CheckNewTable, CountNewTable, Goto, Moves, MigrationInv, TypeInv
<1>4. \/ pc[p] = "m34" /\ l = IF Has("tool_calls") /\ ~disk.arguments THEN "arguments" ELSE "v4"
      \/ pc[p] = "m45" /\ l = IF Has("tool_calls") THEN "newtable" ELSE "executions"
      \/ pc[p] = "newtable" /\ l = IF Has("tool_stats") THEN "count" ELSE "rename"
      \/ pc[p] = "count" /\ l = IF disk.stats = {} THEN "drop" ELSE "failed"
  BY DEF CheckArguments, CheckOldTable, CheckNewTable, CountNewTable, Goto, At, MigrationInv, TypeInv
<1> HIDE DEF l
<1>5. CASE l = "failed"
  <2>1. Alone => start.disk.stats # {}
    BY <1>2, <1>4, <1>5 DEF Expected, DiskInv
  <2> QED
    BY <1>1, <1>2, <1>3, <1>5, <2>1, Fails
<1>6. CASE l # "failed"
  <2>1. l \in Beyond \ {"columns", "add"} /\ pc'[p] = l
    BY <1>4, <1>6 DEF Beyond, l
  <2>2. l = "drop" => Alone /\ Has("tool_calls")
    <3>1. l = "drop" => pc[p] = "count" /\ disk.stats = {}
      BY <1>4
    <3>2. l = "drop" => Alone
      BY <1>2, <3>1 DEF Created, DiskInv
    <3> QED
      BY <1>2, <3>1, <3>2 DEF Expected
  <2>3. l \in {"newtable", "count", "drop", "rename"} => "tool_calls" \in start.disk.tables
    BY <1>2, <1>4 DEF Created, DiskInv
  <2>4. Created(p)'
    BY <1>1, <1>2, <1>4, <2>1, <2>2, <2>3 DEF Created, Beyond, Has, Alone
  <2>5. Alone => Expected(p)'
    BY <1>1, <1>2, <1>4, <2>1, <2>2 DEF Expected, Has, Beyond
  <2> QED
    BY <1>1, <1>2, <1>3, <2>1, <2>4, <2>5, SameDisk, Stepped DEF Places, Beyond
<1> QED
  BY <1>5, <1>6

LEMMA AddArgumentsGood ==
  ASSUME FilesAreReleased, MigrationInv, NEW p \in Procs, AddArguments(p)
  PROVE  p \in start.who /\ Good(p)
<1>1. pc[p] = "arguments" /\ start' = start /\ todo' = todo
  BY DEF AddArguments, At
<1>2. p \in start.who /\ Created(p) /\ (Alone => Expected(p)) /\ disk \in Disk
  BY <1>1, Acts DEF MigrationInv, TypeInv
<1>3. CASE Has("tool_calls") /\ ~disk.arguments
  <2>1. disk' = [disk EXCEPT !.arguments = TRUE] /\ Moves(p, "v4", todo[p]) /\ pc'[p] = "v4"
    BY <1>1, <1>3 DEF AddArguments, Goto, Moves, MigrationInv, TypeInv
  <2>2. disk' \in Disk /\ Evolves
    BY <1>1, <1>2, <2>1 DEF Evolves, Has, Disk
  <2>3. DiskInv'
    <3>1. VersionsTrue(disk')
      BY <1>2, <2>1 DEF MigrationInv, DiskInv, VersionsTrue, Disk
    <3> QED
      BY <1>1, <1>2, <2>1, <3>1 DEF MigrationInv, DiskInv, Has, Alone, Disk
  <2>4. Created(p)' /\ (Alone => Expected(p)')
    BY <1>1, <1>2, <2>1 DEF Created, Expected, Beyond, Has, Disk
  <2> QED
    BY <1>2, <2>1, <2>2, <2>3, <2>4, Stepped DEF Places, Beyond
<1>4. CASE ~(Has("tool_calls") /\ ~disk.arguments)
  <2>1. disk' = disk /\ Moves(p, "failed", todo[p])
    BY <1>1, <1>4 DEF AddArguments, Goto, Moves, MigrationInv, TypeInv
  <2>2. ~Alone
    BY <1>1, <1>2, <1>4 DEF Expected
  <2> QED
    BY <1>1, <1>2, <2>1, <2>2, Fails
<1> QED
  BY <1>3, <1>4

LEMMA DropGood ==
  ASSUME FilesAreReleased, MigrationInv, NEW p \in Procs, DropNewTable(p)
  PROVE  p \in start.who /\ Good(p)
<1>1. /\ pc[p] = "drop" /\ start' = start /\ todo' = todo
      /\ disk' = [disk EXCEPT !.tables = @ \ {"tool_stats"}, !.stats = {}]
  BY DEF DropNewTable, At
<1>2. p \in start.who /\ Created(p) /\ (Alone => Expected(p)) /\ disk \in Disk
  BY <1>1, Acts DEF MigrationInv, TypeInv
<1>3. Alone /\ Has("tool_calls") /\ disk.stats = {}
  BY <1>1, <1>2 DEF Created
<1>4. Moves(p, "rename", todo[p]) /\ pc'[p] = "rename"
  BY <1>1 DEF DropNewTable, Goto, Moves, MigrationInv, TypeInv
<1>5. disk' \in Disk /\ Evolves
  BY <1>1, <1>2, <1>3 DEF Evolves, Has, Disk
<1>6. DiskInv'
  <2>1. VersionsTrue(disk')
    BY <1>1, <1>2, <1>3 DEF MigrationInv, DiskInv, VersionsTrue, Disk, Has
  <2> QED
    BY <1>1, <1>2, <1>3, <2>1 DEF MigrationInv, DiskInv, Has, Alone, Disk
<1>7. Created(p)' /\ Expected(p)'
  BY <1>1, <1>2, <1>3, <1>4, Lists DEF Created, Expected, Beyond, Has, Disk
<1> QED
  BY <1>2, <1>4, <1>5, <1>6, <1>7, Stepped DEF Places, Beyond

LEMMA RenameGood ==
  ASSUME FilesAreReleased, MigrationInv, NEW p \in Procs, Rename(p)
  PROVE  p \in start.who /\ Good(p)
<1>1. pc[p] = "rename" /\ start' = start /\ todo' = todo
  BY DEF Rename, At
<1>2. p \in start.who /\ Created(p) /\ (Alone => Expected(p)) /\ disk \in Disk
  BY <1>1, Acts DEF MigrationInv, TypeInv
<1>3. CASE Has("tool_calls") /\ ~Has("tool_stats")
  <2>1. /\ disk' = [disk EXCEPT !.tables = (@ \ {"tool_calls"}) \cup {"tool_stats"},
                                !.stats = disk.calls, !.calls = {}]
        /\ Moves(p, "executions", todo[p]) /\ pc'[p] = "executions"
    BY <1>1, <1>3 DEF Rename, Goto, Moves, MigrationInv, TypeInv
  <2>2. /\ disk'.tables = (disk.tables \ {"tool_calls"}) \cup {"tool_stats"}
        /\ disk'.stats = disk.calls /\ disk'.calls = {} /\ disk'.columns = disk.columns
        /\ disk'.versions = disk.versions /\ disk' \in Disk
    BY <1>2, <2>1 DEF Disk, NewTables
  <2>3. Evolves
    BY <1>1, <2>2 DEF Evolves, Has
  <2>4. DiskInv'
    <3>1. VersionsTrue(disk')
      BY <1>3, <2>2 DEF MigrationInv, DiskInv, VersionsTrue, Has
    <3> QED
      BY <1>1, <1>2, <1>3, <2>2, <3>1 DEF MigrationInv, DiskInv, Has, Alone, Created
  <2>5. Created(p)' /\ (Alone => Expected(p)')
    BY <1>1, <1>2, <2>1, <2>2, Lists DEF Created, Expected, Beyond, Has
  <2> QED
    BY <1>2, <2>1, <2>2, <2>3, <2>4, <2>5, Stepped DEF Places, Beyond
<1>4. CASE ~(Has("tool_calls") /\ ~Has("tool_stats"))
  <2>1. disk' = disk /\ Moves(p, "failed", todo[p])
    BY <1>1, <1>4 DEF Rename, Goto, Moves, MigrationInv, TypeInv
  <2>2. ~Alone
    BY <1>1, <1>2, <1>4 DEF Expected
  <2> QED
    BY <1>1, <1>2, <2>1, <2>2, Fails
<1> QED
  BY <1>3, <1>4

LEMMA CreateExecutionsGood ==
  ASSUME FilesAreReleased, MigrationInv, NEW p \in Procs, CreateExecutions(p)
  PROVE  p \in start.who /\ Good(p)
<1>1. pc[p] = "executions" /\ start' = start /\ todo' = todo /\ disk' = WithTable("tool_call_executions")
  BY DEF CreateExecutions, At
<1>2. p \in start.who /\ Created(p) /\ (Alone => Expected(p)) /\ disk \in Disk
  BY <1>1, Acts DEF MigrationInv, TypeInv
<1>3. Moves(p, "cleanup", todo[p]) /\ pc'[p] = "cleanup"
  BY <1>1 DEF CreateExecutions, Goto, Moves, MigrationInv, TypeInv
<1>4. /\ disk'.tables = disk.tables \cup {"tool_call_executions"} /\ disk'.versions = disk.versions
      /\ disk'.calls = disk.calls /\ disk'.stats = disk.stats /\ disk'.columns = disk.columns /\ disk' \in Disk
  BY <1>1, <1>2 DEF WithTable, Has, Disk, NewTables
<1>5. Evolves
  BY <1>1, <1>4 DEF Evolves, Has
<1>6. DiskInv'
  <2>1. VersionsTrue(disk')
    BY <1>4 DEF MigrationInv, DiskInv, VersionsTrue
  <2> QED
    BY <1>1, <1>4, <2>1 DEF MigrationInv, DiskInv, Has, Alone
<1>7. Created(p)' /\ (Alone => Expected(p)')
  BY <1>1, <1>2, <1>3, <1>4 DEF Created, Expected, Beyond, Has
<1> QED
  BY <1>2, <1>3, <1>4, <1>5, <1>6, <1>7, Stepped DEF Places, Beyond

LEMMA DeleteUnknownGood ==
  ASSUME FilesAreReleased, MigrationInv, NEW p \in Procs, DeleteUnknown(p)
  PROVE  p \in start.who /\ Good(p)
<1>1. pc[p] = "cleanup" /\ start' = start /\ todo' = todo
  BY DEF DeleteUnknown, At
<1>2. p \in start.who /\ Created(p) /\ (Alone => Expected(p)) /\ disk \in Disk
  BY <1>1, Acts DEF MigrationInv, TypeInv
<1>3. Has("tool_stats") /\ ~Has("tool_calls") /\ Tool # Unknown
  BY <1>1, <1>2, MigrationAssumption DEF Created
<1>4. disk' = [disk EXCEPT !.stats = @ \ {Unknown}] /\ Moves(p, "v5", todo[p]) /\ pc'[p] = "v5"
  BY <1>1, <1>3 DEF DeleteUnknown, Goto, Moves, MigrationInv, TypeInv
<1>5. disk' \in Disk /\ Evolves
  BY <1>1, <1>2, <1>4 DEF Evolves, Has, Disk
<1>6. DiskInv'
  <2>1. VersionsTrue(disk')
    BY <1>2, <1>4 DEF MigrationInv, DiskInv, VersionsTrue, Disk
  <2> QED
    BY <1>1, <1>2, <1>3, <1>4, <2>1 DEF MigrationInv, DiskInv, Has, Alone, Disk
<1>7. Created(p)' /\ (Alone => Expected(p)')
  BY <1>1, <1>2, <1>4 DEF Created, Expected, Beyond, Has, Disk
<1> QED
  BY <1>2, <1>4, <1>5, <1>6, <1>7, Stepped DEF Places, Beyond

LEMMA CountToolGood ==
  ASSUME FilesAreReleased, MigrationInv, NEW p \in Procs, CountTool(p)
  PROVE  p \in start.who /\ Good(p)
<1>1. pc[p] = "open" /\ start' = start /\ todo' = todo /\ pc' = pc
  BY DEF CountTool, At
<1>2. p \in start.who /\ Created(p) /\ (Alone => Expected(p)) /\ disk \in Disk
  BY <1>1, Acts DEF MigrationInv, TypeInv
<1>3. PICK t \in {Tool, Unknown} : disk' = [disk EXCEPT !.stats = @ \cup {t}]
  BY DEF CountTool
<1>4. Has("tool_stats") /\ ~Has("tool_calls")
  BY <1>1, <1>2 DEF Created
<1>5. Moves(p, "open", todo[p]) /\ pc'[p] = "open"
  BY <1>1 DEF Moves, MigrationInv, TypeInv
<1>6. disk' \in Disk /\ Evolves
  BY <1>1, <1>2, <1>3 DEF Evolves, Has, Disk
<1>7. DiskInv'
  <2>1. VersionsTrue(disk')
    BY <1>2, <1>3 DEF MigrationInv, DiskInv, VersionsTrue, Disk
  <2> QED
    BY <1>1, <1>2, <1>3, <1>4, <2>1 DEF MigrationInv, DiskInv, Has, Alone, Disk
<1>8. Created(p)' /\ (Alone => Expected(p)')
  BY <1>1, <1>2, <1>3, <1>5 DEF Created, Expected, Beyond, Has, Disk
<1> QED
  BY <1>2, <1>5, <1>6, <1>7, <1>8, Stepped DEF Places, Beyond

LEMMA StopGood ==
  ASSUME FilesAreReleased, MigrationInv, NEW p \in Procs, Stop(p)
  PROVE  p \in start.who /\ Good(p)
<1>1. pc[p] # "off" /\ disk' = disk /\ Moves(p, "off", << >>)
  BY DEF Stop, At, Goto, Moves, MigrationInv, TypeInv
<1> QED
  BY <1>1, Acts, Fails

-----------------------------------------------------------------------------
LEMMA StepGood ==
  ASSUME FilesAreReleased, MigrationInv, NEW p \in Procs,
         Schema(p) \/ Migrate(p) \/ CountTool(p) \/ Stop(p)
  PROVE  p \in start.who /\ Good(p)
<1>1. CASE Schema(p)
  BY <1>1, OpenGood, CreateTableGood, CheckToolCallsGood DEF Schema
<1>2. CASE Migrate(p)
  BY <1>2, CleanVersionsGood, ReadVersionGood, CheckColumnGood, AddColumnGood, VersionsGood, LooksGood,
     AddArgumentsGood, DropGood, RenameGood, CreateExecutionsGood, DeleteUnknownGood
  DEF Migrate
<1> QED
  BY <1>1, <1>2, CountToolGood, StopGood

LEMMA MigrationInit == FilesAreReleased /\ Init => MigrationInv
<1> SUFFICES ASSUME FilesAreReleased, Init PROVE MigrationInv
  OBVIOUS
<1>1. /\ start \in Starts /\ Released(start) /\ disk = start.disk
      /\ \A p \in Procs : pc[p] = "off"
  BY DEF Init, FilesAreReleased
<1>2. TypeInv
  BY <1>1 DEF Init, TypeInv, Released, Places
<1>3. DiskInv
  <2>1. ~Alone => Cardinality(start.who) > 1
    BY <1>1, FS_CardinalityType DEF Released, Alone
  <2> QED
    BY <1>1, <2>1 DEF DiskInv, Released, Has
<1>4. \A p \in Procs : Created(p) /\ Expected(p)
  BY <1>1 DEF Created, Expected, Beyond
<1> QED
  BY <1>2, <1>3, <1>4 DEF MigrationInv

LEMMA MigrationStep == FilesAreReleased /\ MigrationInv /\ [Next]_vars => MigrationInv'
<1> SUFFICES ASSUME FilesAreReleased, MigrationInv, [Next]_vars PROVE MigrationInv'
  OBVIOUS
<1>1. CASE UNCHANGED vars
  BY <1>1 DEF vars, MigrationInv, TypeInv, DiskInv, Created, Expected, Has, Alone
<1>2. ASSUME NEW p \in Procs, Schema(p) \/ Migrate(p) \/ CountTool(p) \/ Stop(p) PROVE MigrationInv'
  BY <1>2, StepGood, OneProcess
<1> QED
  BY <1>1, <1>2 DEF Next

(* Nothing but the creation of the sessions table touches the formula of   *)
(* total_tokens.                                                           *)
KeepsTotals == disk'.totals = disk.totals /\ ("sessions" \in disk'.tables <=> Has("sessions"))

LEMMA TotalsStep ==
  ASSUME MigrationInv, TotalsInv, NEW p \in Procs, Schema(p) \/ Migrate(p) \/ CountTool(p) \/ Stop(p)
  PROVE  TotalsInv'
<1>1. disk \in Disk
  BY DEF MigrationInv, TypeInv
<1>2. start' = start
  BY DEF Schema, Open, CreateTable, CheckToolCalls, Migrate, CleanVersions, ReadVersion, CheckColumn, AddColumn,
         Version2, Version3, CheckArguments, AddArguments, Version4, CheckOldTable, CheckNewTable, CountNewTable,
         DropNewTable, Rename, CreateExecutions, DeleteUnknown, Version5, CountTool, Stop
<1>3. KeepsTotals => TotalsInv'
  BY <1>2 DEF KeepsTotals, TotalsInv, Has
<1>4. disk' = disk => KeepsTotals
  BY DEF KeepsTotals, Has
<1>5. ASSUME NEW t, disk' = WithTable(t) PROVE TotalsInv'
  <2>1. CASE Has(t)
    BY <1>3, <1>4, <1>5, <2>1 DEF WithTable
  <2>2. CASE ~Has(t) /\ t = "sessions"
    <3>1. disk'.totals = TRUE /\ "sessions" \in disk'.tables
      BY <1>1, <1>5, <2>2 DEF WithTable, Disk
    <3> QED
      BY <1>2, <2>2, <3>1 DEF TotalsInv, Has
  <2>3. CASE ~Has(t) /\ t # "sessions"
    <3>1. disk'.totals = disk.totals /\ disk'.tables = disk.tables \cup {t}
      BY <1>1, <1>5, <2>3 DEF WithTable, Disk
    <3> QED
      BY <1>3, <2>3, <3>1 DEF KeepsTotals, Has
  <2> QED
    BY <2>1, <2>2, <2>3
<1>6. \A S : disk' = [disk EXCEPT !.versions = S] => KeepsTotals
  BY <1>1 DEF KeepsTotals, Has, Disk
<1>7. \A v, l : SetVersion(p, v, l) => KeepsTotals
  BY <1>4, <1>6 DEF SetVersion
<1>8. CASE Schema(p)
  BY <1>3, <1>4, <1>5, <1>6, <1>8 DEF Schema, Open, CreateTable, CheckToolCalls
<1>9. CASE \/ CleanVersions(p) \/ ReadVersion(p) \/ CheckColumn(p) \/ Version2(p) \/ Version3(p)
           \/ CheckArguments(p) \/ Version4(p) \/ CheckOldTable(p) \/ CheckNewTable(p)
           \/ CountNewTable(p) \/ Version5(p) \/ Stop(p)
  BY <1>3, <1>4, <1>6, <1>7, <1>9
  DEF CleanVersions, ReadVersion, CheckColumn, Version2, Version3, CheckArguments, Version4, CheckOldTable,
      CheckNewTable, CountNewTable, Version5, Stop
<1>10. CASE AddColumn(p)
  <2>1. CASE disk' = disk
    BY <1>3, <1>4, <2>1
  <2>2. CASE disk' # disk
    <3>1. PICK S : disk' = [disk EXCEPT !.columns = S]
      BY <1>10, <2>2 DEF AddColumn
    <3> QED
      BY <1>1, <1>3, <3>1 DEF KeepsTotals, Has, Disk
  <2> QED
    BY <2>1, <2>2
<1>11. CASE AddArguments(p)
  BY <1>1, <1>3, <1>11 DEF AddArguments, KeepsTotals, Has, Disk
<1>12. CASE DropNewTable(p)
  BY <1>1, <1>3, <1>12 DEF DropNewTable, KeepsTotals, Has, Disk
<1>13. CASE Rename(p)
  <2>1. CASE disk' = disk
    BY <1>3, <1>4, <2>1
  <2>2. CASE disk' # disk
    <3>1. disk' = [disk EXCEPT !.tables = (@ \ {"tool_calls"}) \cup {"tool_stats"},
                               !.stats = disk.calls, !.calls = {}]
      BY <1>13, <2>2 DEF Rename
    <3>2. /\ disk'.totals = disk.totals
          /\ disk'.tables = (disk.tables \ {"tool_calls"}) \cup {"tool_stats"}
      BY <1>1, <3>1 DEF Disk
    <3> QED
      BY <1>3, <3>2 DEF KeepsTotals, Has
  <2> QED
    BY <2>1, <2>2
<1>14. CASE CreateExecutions(p)
  BY <1>5, <1>14 DEF CreateExecutions
<1>15. CASE DeleteUnknown(p) \/ CountTool(p)
  <2>1. CASE disk' = disk
    BY <1>3, <1>4, <2>1
  <2>2. CASE disk' # disk
    <3>1. PICK S : disk' = [disk EXCEPT !.stats = S]
      BY <1>15, <2>2 DEF DeleteUnknown, CountTool
    <3> QED
      BY <1>1, <1>3, <3>1 DEF KeepsTotals, Has, Disk
  <2> QED
    BY <2>1, <2>2
<1> QED
  BY <1>8, <1>9, <1>10, <1>11, <1>12, <1>13, <1>14, <1>15 DEF Migrate

(* OpensCurrent for any file of a release and any number of processes that *)
(* open it at once and stop anywhere: an open store has the tables and     *)
(* columns of the current schema, migration 2 -> 3 always finds its        *)
(* columns and leaves the formula of total_tokens as it was in the file,   *)
(* and a process that is alone gets through.                               *)
THEOREM MigrationsArrive == ASSUME FilesAreReleased PROVE Spec => []OpensCurrent
<1>1. MigrationInv /\ TotalsInv => OpensCurrent
  <2> SUFFICES ASSUME MigrationInv, TotalsInv PROVE OpensCurrent
    OBVIOUS
  <2>1. OpenMeansCurrent
    BY Lists DEF OpenMeansCurrent, At, Has, Applied23, MigrationInv, Created, Beyond, Base
  <2>2. AloneSucceeds
    <3>1. ~Alone => Cardinality(start.who) > 1
      BY FS_CardinalityType DEF MigrationInv, TypeInv, FilesAreReleased, Released, Alone
    <3> QED
      BY <3>1 DEF AloneSucceeds, At, MigrationInv, Expected
  <2>3. TotalsAsFound
    <3>1. ASSUME NEW p \in Procs, At(p, "open") PROVE Has("sessions")
      BY <3>1, Lists DEF MigrationInv, Created, Beyond, At, Has, Base
    <3>2. disk.totals \in BOOLEAN /\ start.disk.totals \in BOOLEAN
      BY DEF MigrationInv, TypeInv, FilesAreReleased, Released, Disk
    <3> QED
      BY <3>1, <3>2 DEF TotalsAsFound, TotalsInv
  <2> QED
    BY <2>1, <2>2, <2>3 DEF OpensCurrent
<1>2. Init => TotalsInv
  BY DEF Init, TotalsInv, Has
<1>3. MigrationInv /\ TotalsInv /\ [Next]_vars => TotalsInv'
  <2>1. TotalsInv /\ UNCHANGED vars => TotalsInv'
    BY DEF vars, TotalsInv, Has
  <2> QED
    BY <2>1, TotalsStep DEF Next
<1> QED
  BY <1>1, <1>2, <1>3, MigrationInit, MigrationStep, PTL DEF Spec

(* RowsKept, likewise: no statement of a migration, and no interleaving of *)
(* two of them, loses the statistics of a known tool.                      *)
THEOREM MigrationsKeepRows == ASSUME FilesAreReleased PROVE Spec => RowsKept
<1>1. MigrationInv /\ [Next]_vars => [Known \subseteq Known']_vars
  <2> SUFFICES ASSUME MigrationInv, NEW p \in Procs, Schema(p) \/ Migrate(p) \/ CountTool(p) \/ Stop(p)
               PROVE  Known \subseteq Known'
    BY DEF Next
  <2>1. disk \in Disk /\ DiskInv /\ Created(p)
    BY DEF MigrationInv, TypeInv
  <2>2. disk.calls \subseteq disk'.calls /\ disk.stats \subseteq disk'.stats => Known \subseteq Known'
    BY DEF Known
  <2>3. disk' = disk => Known \subseteq Known'
    BY <2>2
  <2>4. CASE DropNewTable(p)
    BY <2>1, <2>2, <2>4 DEF DropNewTable, At, Created, Disk
  <2>5. CASE Rename(p)
    <3>1. CASE disk' = disk
      BY <2>3, <3>1
    <3>2. CASE disk' # disk
      <4>1. disk.stats = {} /\ disk'.stats = disk.calls
        BY <2>1, <2>5, <3>2 DEF Rename, DiskInv, Disk
      <4> QED
        BY <4>1 DEF Known
    <3> QED
      BY <3>1, <3>2
  <2>6. CASE DeleteUnknown(p)
    <3>1. /\ disk'.calls = disk.calls
          /\ disk'.stats = disk.stats \/ disk'.stats = disk.stats \ {Unknown}
      BY <2>1, <2>6 DEF DeleteUnknown, Disk
    <3> QED
      BY <3>1, MigrationAssumption DEF Known
  <2>7. CASE ~(DropNewTable(p) \/ Rename(p) \/ DeleteUnknown(p))
    <3>1. disk.calls \subseteq disk'.calls /\ disk.stats \subseteq disk'.stats
      BY <2>1, <2>7
      DEF Schema, Migrate, Open, CreateTable, WithTable, CheckToolCalls, CleanVersions, ReadVersion,
          CheckColumn, AddColumn, SetVersion, Version2, Version3, Version4, Version5, CheckArguments,
          AddArguments, CheckOldTable, CheckNewTable, CountNewTable, CreateExecutions, CountTool, Stop, Disk
    <3> QED
      BY <2>2, <3>1
  <2> QED
    BY <2>4, <2>5, <2>6, <2>7
<1> QED
  BY <1>1, MigrationInit, MigrationStep, PTL DEF Spec, RowsKept

-----------------------------------------------------------------------------
(* The PostgreSQL stores.                                                 *)
-----------------------------------------------------------------------------
(* Migrations *)

(* A server that migrates has the last of them before it, in order, and    *)
(* whatever comes before those has been executed, by whomever.             *)
Underway(s) ==
    LET n == Len(remaining[s]) IN
    /\ remaining[s] \in Seq(1 .. Migrations) /\ n <= Migrations
    /\ \A i \in 1 .. n : remaining[s][i] = Migrations - n + i
    /\ 1 .. Migrations - n \subseteq objects

PgMigrationInv ==
    /\ phase \in [Servers -> {"off", "apply", "record", "hyper", "failed", "open"}]
    /\ seen \in [Servers -> SUBSET applied]
    /\ DOMAIN remaining = Servers
    /\ applied \subseteq objects
    /\ \A s \in Servers :
        /\ phase[s] \in {"apply", "record"} => Underway(s)
        /\ phase[s] = "record" => remaining[s] # << >> /\ Head(remaining[s]) \in objects
        /\ phase[s] \in {"hyper", "open"} => 1 .. Migrations \subseteq objects

(* The first of the migrations left is done: the rest is as it should be.  *)
LEMMA OneLess ==
    ASSUME NEW s \in Servers, Underway(s), remaining[s] # << >>
    PROVE  LET rest == Tail(remaining[s])
               m == Head(remaining[s]) IN
           /\ m \in 1 .. Migrations /\ rest \in Seq(1 .. Migrations) /\ Len(rest) <= Migrations
           /\ m = Migrations - Len(rest)
           /\ \A i \in 1 .. Len(rest) : rest[i] = Migrations - Len(rest) + i
           /\ m \in objects => 1 .. Migrations - Len(rest) \subseteq objects
<1> DEFINE r == remaining[s]
<1>1. /\ r \in Seq(1 .. Migrations) /\ r # << >> /\ Len(r) \in Nat \ {0} /\ Len(r) <= Migrations
      /\ \A i \in 1 .. Len(r) : r[i] = Migrations - Len(r) + i
      /\ 1 .. Migrations - Len(r) \subseteq objects
  BY DEF Underway
<1> HIDE DEF r
<1>2. /\ Len(Tail(r)) = Len(r) - 1 /\ Tail(r) \in Seq(1 .. Migrations)
      /\ Head(r) = r[1] /\ Head(r) \in 1 .. Migrations
      /\ \A i \in 1 .. Len(Tail(r)) : Tail(r)[i] = r[i + 1]
  <2>1. /\ Head(r) \in 1 .. Migrations /\ Tail(r) \in Seq(1 .. Migrations)
        /\ Len(Tail(r)) = Len(r) - 1
        /\ \A i \in 1 .. Len(Tail(r)) : Tail(r)[i] = r[i + 1]
    BY <1>1, HeadTailProperties
  <2>2. Head(r) = r[1]
    BY <1>1
  <2> QED
    BY <2>1, <2>2
<1>3. Migrations \in Nat
  BY PgAssumption
<1>4. Head(r) = Migrations - Len(Tail(r))
  BY <1>1, <1>2, <1>3
<1>5. \A i \in 1 .. Len(Tail(r)) : Tail(r)[i] = Migrations - Len(Tail(r)) + i
  BY <1>1, <1>2, <1>3
<1>6. 1 .. Migrations - Len(Tail(r)) \subseteq (1 .. Migrations - Len(r)) \cup {Head(r)}
  BY <1>1, <1>2, <1>3, <1>4
<1>7. Len(Tail(r)) <= Migrations
  BY <1>1, <1>2, <1>3
<1>8. Head(r) \in objects => 1 .. Migrations - Len(Tail(r)) \subseteq objects
  BY <1>1, <1>6
<1> QED
  BY <1>2, <1>4, <1>5, <1>7, <1>8 DEF r

LEMMA PgMigrationInit == PgInit => PgMigrationInv
BY DEF PgInit, PgMigrationInv

(* What the steps of the stores themselves leave alone. *)
LEMMA CallsKeepSchema ==
    ASSUME NEW s \in Servers,
           \/ WriteEvent(s) \/ Search(s) \/ GetSession(s) \/ ListSessions(s)
           \/ \E t \in Tenants : UpdateConfig(s, t) \/ DeleteConfig(s, t)
    PROVE  UNCHANGED <<phase, seen, remaining, applied, objects>>
BY DEF WriteEvent, Search, GetSession, ListSessions, UpdateConfig, DeleteConfig, Read, Call, dbs

LEMMA PgMigrationStep == PgMigrationInv /\ [PgNext]_pgVars => PgMigrationInv'
<1> SUFFICES ASSUME PgMigrationInv, [PgNext]_pgVars PROVE PgMigrationInv'
  OBVIOUS
<1>0. Migrations \in Nat \ {0}
  BY PgAssumption
<1>1. ASSUME NEW s \in Servers, ReadApplied(s) PROVE PgMigrationInv'
  <2> DEFINE all == [i \in 1 .. Migrations |-> i]
  <2>1. all \in Seq(1 .. Migrations) /\ Len(all) = Migrations
    BY <1>0
  <2>2. remaining' = [remaining EXCEPT ![s] = all]
    BY <1>1 DEF ReadApplied
  <2> HIDE DEF all
  <2> QED
    BY <1>0, <1>1, <2>1, <2>2 DEF ReadApplied, PgMigrationInv, Underway, Enter, dbs, all
<1>2. ASSUME NEW s \in Servers, SkipMigration(s) PROVE PgMigrationInv'
  <2>1. Underway(s) /\ Head(remaining[s]) \in objects
    BY <1>2 DEF SkipMigration, PgMigrationInv
  <2>2. Underway(s)'
    BY <1>0, <1>2, <2>1, OneLess DEF SkipMigration, PgMigrationInv, Underway, Proceed, dbs
  <2> QED
    BY <1>2, <2>2 DEF SkipMigration, PgMigrationInv, Underway, Proceed, dbs
<1>3. ASSUME NEW s \in Servers, ApplyMigration(s) PROVE PgMigrationInv'
  <2>1. Underway(s) /\ remaining[s] # << >>
    BY <1>3 DEF ApplyMigration, PgMigrationInv
  <2>2. Head(remaining[s]) \in 1 .. Migrations
    BY <2>1, OneLess
  <2>3. /\ objects \subseteq objects' /\ UNCHANGED <<seen, remaining, applied>>
        /\ phase' = [phase EXCEPT ![s] = IF Head(remaining[s]) \in objects' THEN "record" ELSE "failed"]
           \/ phase' = [phase EXCEPT ![s] = "failed"]
    BY <1>3 DEF ApplyMigration, Enter
  <2>4. \A q \in Servers : Underway(q) => Underway(q)'
    BY <2>3 DEF Underway
  <2> QED
    BY <2>1, <2>3, <2>4 DEF PgMigrationInv
<1>4. ASSUME NEW s \in Servers, RecordMigration(s) PROVE PgMigrationInv'
  <2>1. Underway(s) /\ remaining[s] # << >> /\ Head(remaining[s]) \in objects
    BY <1>4 DEF RecordMigration, PgMigrationInv
  <2>2. Underway(s)'
    BY <1>0, <1>4, <2>1, OneLess DEF RecordMigration, PgMigrationInv, Underway, Proceed
  <2> QED
    BY <1>4, <2>1, <2>2 DEF RecordMigration, PgMigrationInv, Underway, Proceed, Enter
<1>5. ASSUME NEW s \in Servers, Migrated(s) PROVE PgMigrationInv'
  <2>1. Underway(s) /\ remaining[s] = << >>
    BY <1>5 DEF Migrated, PgMigrationInv
  <2>2. 1 .. Migrations \subseteq objects
    BY <1>0, <2>1 DEF Underway
  <2> QED
    BY <1>5, <2>2 DEF Migrated, PgMigrationInv, Underway, Enter, dbs
<1>6. ASSUME NEW s \in Servers, ConvertTable(s) \/ Converted(s) \/ StopServer(s) PROVE PgMigrationInv'
  BY <1>6 DEF ConvertTable, Converted, StopServer, PgMigrationInv, Underway, Enter, Proceed, dbs
<1>7. ASSUME NEW s \in Servers,
             \/ WriteEvent(s) \/ Search(s) \/ GetSession(s) \/ ListSessions(s)
             \/ \E t \in Tenants : UpdateConfig(s, t) \/ DeleteConfig(s, t)
      PROVE PgMigrationInv'
  BY <1>7, CallsKeepSchema DEF PgMigrationInv, Underway
<1>8. CASE UNCHANGED pgVars
  BY <1>8 DEF pgVars, dbs, PgMigrationInv, Underway
<1> QED
  BY <1>1, <1>2, <1>3, <1>4, <1>5, <1>6, <1>7, <1>8 DEF PgNext, OpenStore

(* A recorded migration has been executed, and an open store has them all, *)
(* however many servers migrate side by side and stop at whatever point    *)
(* (run_migrations of lunaroute-session-postgres).                         *)
THEOREM MigrationsAreApplied == PgSpec => []RecordedMeansApplied
<1>1. PgMigrationInv => RecordedMeansApplied
  BY DEF PgMigrationInv, RecordedMeansApplied
<1> QED
  BY <1>1, PgMigrationInit, PgMigrationStep, PTL DEF PgSpec

-----------------------------------------------------------------------------
(* Configurations *)

Config == [version : Nat \ {0}, value : Values]

ConfigInv ==
    /\ configs \in [Tenants -> Config \cup {NoConfig}]
    /\ history \in [Tenants -> Seq(Config)]
    /\ HistoryIsComplete

LEMMA ConfigInit == PgInit => ConfigInv
BY DEF PgInit, ConfigInv, HistoryIsComplete, NoConfig

LEMMA ConfigStep == ConfigInv /\ [PgNext]_pgVars => ConfigInv'
<1> SUFFICES ASSUME ConfigInv, [PgNext]_pgVars PROVE ConfigInv'
  OBVIOUS
<1>1. ASSUME NEW s \in Servers, NEW t \in Tenants, UpdateConfig(s, t) PROVE ConfigInv'
  <2>1. PICK v \in Values :
          LET new == [version |-> configs[t].version + 1, value |-> v] IN
          /\ configs' = [configs EXCEPT ![t] = new]
          /\ history' = [history EXCEPT ![t] = Append(@, new)]
    BY <1>1 DEF UpdateConfig
  <2> DEFINE new == [version |-> configs[t].version + 1, value |-> v]
  <2>2. configs[t].version \in Nat
    BY DEF ConfigInv, Config, NoConfig
  <2>3. new \in Config /\ new.version = configs[t].version + 1
    BY <2>2 DEF Config
  <2> HIDE DEF new
  <2>4. /\ configs' = [configs EXCEPT ![t] = new]
        /\ history' = [history EXCEPT ![t] = Append(@, new)]
    BY <2>1 DEF new
  <2>5. /\ configs' \in [Tenants -> Config \cup {NoConfig}]
        /\ history' \in [Tenants -> Seq(Config)]
    BY <2>3, <2>4 DEF ConfigInv
  <2>6. /\ Len(history[t]) = configs[t].version
        /\ \A i \in DOMAIN history[t] : history[t][i].version = i
        /\ history[t] \in Seq(Config)
    BY DEF ConfigInv, HistoryIsComplete
  <2>7. /\ configs'[t] = new /\ history'[t] = Append(history[t], new)
        /\ \A u \in Tenants \ {t} : configs'[u] = configs[u] /\ history'[u] = history[u]
    BY <2>4 DEF ConfigInv
  <2>8. /\ Len(Append(history[t], new)) = new.version
        /\ \A i \in DOMAIN Append(history[t], new) : Append(history[t], new)[i].version = i
        /\ Last(Append(history[t], new)) = new
    BY <2>2, <2>3, <2>6 DEF Last
  <2>9. HistoryIsComplete'
    BY <2>7, <2>8 DEF ConfigInv, HistoryIsComplete
  <2> QED
    BY <2>5, <2>9 DEF ConfigInv
<1>2. ASSUME NEW s \in Servers, NEW t \in Tenants, DeleteConfig(s, t) PROVE ConfigInv'
  BY <1>2 DEF DeleteConfig, ConfigInv, HistoryIsComplete, NoConfig
<1>3. ASSUME NEW s \in Servers,
             OpenStore(s) \/ StopServer(s) \/ WriteEvent(s) \/ Search(s) \/ GetSession(s) \/ ListSessions(s)
      PROVE ConfigInv'
  <2>1. UNCHANGED <<configs, history>>
    BY <1>3 DEF OpenStore, ReadApplied, SkipMigration, ApplyMigration, RecordMigration, Migrated,
                ConvertTable, Converted, StopServer, WriteEvent, Search, GetSession, ListSessions, Read, data
  <2> QED
    BY <2>1 DEF ConfigInv, HistoryIsComplete
<1>4. CASE UNCHANGED pgVars
  BY <1>4 DEF pgVars, data, ConfigInv, HistoryIsComplete
<1> QED
  BY <1>1, <1>2, <1>3, <1>4 DEF PgNext

(* No version of a configuration is missing from its history, twice in it, *)
(* or out of order, whichever servers update and delete it                 *)
(* (update_config of lunaroute-config-postgres).                           *)
THEOREM HistoryStaysComplete == PgSpec => []HistoryIsComplete
<1>1. ConfigInv => HistoryIsComplete
  BY DEF ConfigInv
<1> QED
  BY <1>1, ConfigInit, ConfigStep, PTL DEF PgSpec

-----------------------------------------------------------------------------
(* Tenants *)

ApartInv ==
    /\ configs \in [Tenants -> Config \cup {NoConfig}]
    /\ DOMAIN history = Tenants
    /\ DOMAIN rows = Tenants
    /\ \A x \in last.read : x[1] = last.tenant

Apart ==
    /\ \A t \in Tenants \ {last'.tenant} :
          rows'[t] = rows[t] /\ configs'[t] = configs[t] /\ history'[t] = history[t]
    /\ \A x \in last'.read : x[1] = last'.tenant

LEMMA ApartInit == PgInit => ApartInv
BY DEF PgInit, ApartInv, NoConfig

LEMMA ApartStep == ApartInv /\ [PgNext]_pgVars => ApartInv' /\ Apart
<1> SUFFICES ASSUME ApartInv, [PgNext]_pgVars PROVE ApartInv' /\ Apart
  OBVIOUS
<1>1. ASSUME NEW s \in Servers, WriteEvent(s) PROVE ApartInv' /\ Apart
  <2>1. PICK t \in Tenants \cup {NoTenant} :
          /\ t # NoTenant /\ Call(s, t, {})
          /\ rows' \in {Inserted(t, k) : k \in Times}
                      \cup {RequestRecorded(t), ResponseRecorded(t), StatsUpdated(t), ToolCallRecorded(t), Completed(t)}
          /\ UNCHANGED <<configs, history>>
    BY <1>1, PgAssumption DEF WriteEvent, Resolve
  <2>2. DOMAIN rows' = Tenants /\ \A u \in Tenants \ {t} : rows'[u] = rows[u]
    BY <2>1 DEF ApartInv, Inserted, RequestRecorded, ResponseRecorded, StatsUpdated, ToolCallRecorded, Completed, Updated
  <2>3. last' = [tenant |-> t, read |-> {}] /\ UNCHANGED <<configs, history>>
    BY <2>1 DEF Call
  <2> QED
    BY <2>2, <2>3 DEF ApartInv, Apart
<1>2. ASSUME NEW s \in Servers, Search(s) \/ GetSession(s) \/ ListSessions(s) PROVE ApartInv' /\ Apart
  <2>1. PICK t : \E found \in SUBSET Selected(t) : Read(s, t, found)
    BY <1>2 DEF Search, GetSession, ListSessions
  <2>2. PICK found \in SUBSET Selected(t) : Read(s, t, found)
    BY <2>1
  <2>3. last' = [tenant |-> t, read |-> found] /\ UNCHANGED <<rows, configs, history>>
    BY <2>2 DEF Read, Call
  <2>4. \A x \in found : x[1] = t
    BY <2>2 DEF Selected
  <2> QED
    BY <2>3, <2>4 DEF ApartInv, Apart
<1>3. ASSUME NEW s \in Servers, NEW t \in Tenants, UpdateConfig(s, t) \/ DeleteConfig(s, t)
      PROVE ApartInv' /\ Apart
  <2>1. last' = [tenant |-> t, read |-> {}] /\ UNCHANGED rows
    BY <1>3 DEF UpdateConfig, DeleteConfig, Call
  <2>2. configs[t].version \in Nat
    BY DEF ApartInv, Config, NoConfig
  <2>3. CASE UpdateConfig(s, t)
    <3>1. PICK v \in Values :
            LET new == [version |-> configs[t].version + 1, value |-> v] IN
            /\ configs' = [configs EXCEPT ![t] = new]
            /\ history' = [history EXCEPT ![t] = Append(@, new)]
      BY <2>3 DEF UpdateConfig
    <3>2. [version |-> configs[t].version + 1, value |-> v] \in Config
      BY <2>2 DEF Config
    <3> QED
      BY <2>1, <3>1, <3>2 DEF ApartInv, Apart
  <2>4. CASE DeleteConfig(s, t)
    BY <2>1, <2>4 DEF DeleteConfig, ApartInv, Apart
  <2> QED
    BY <1>3, <2>3, <2>4
<1>4. ASSUME NEW s \in Servers, OpenStore(s) \/ StopServer(s) PROVE ApartInv' /\ Apart
  <2>1. UNCHANGED data
    BY <1>4 DEF OpenStore, ReadApplied, SkipMigration, ApplyMigration, RecordMigration, Migrated,
                ConvertTable, Converted, StopServer
  <2> QED
    BY <2>1 DEF data, ApartInv, Apart
<1>5. CASE UNCHANGED pgVars
  BY <1>5 DEF pgVars, data, ApartInv, Apart
<1> QED
  BY <1>1, <1>2, <1>3, <1>4, <1>5 DEF PgNext

(* Every call leaves the rows, configurations and histories of all other   *)
(* tenants as they are and returns rows of its own tenant only, by the     *)
(* tenant of the caller or by the default one (TenantScopedStore and the   *)
(* WHERE clauses of postgres_session_store.rs).                            *)
THEOREM TenantsStayApart == PgSpec => TenantsApart
<1>1. ApartInv /\ [PgNext]_pgVars => ApartInv' /\ Apart
  BY ApartStep
<1>2. PgSpec => [][Apart]_pgVars
  BY <1>1, ApartInit, PTL DEF PgSpec
<1> QED
  BY <1>2, PTL DEF TenantsApart, Apart
=============================================================================
