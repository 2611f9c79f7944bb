---------------------------- MODULE FilesProofs ----------------------------
(***************************************************************************)
(* Proofs about SessionFiles, for all sessions, sizes, ages and limits,    *)
(* and about FileStores, for all threads, sessions and sizes.              *)
(***************************************************************************)
EXTENDS SessionFiles, FileStores, DataLemmas, FunctionTheorems

(* The values of the variables. *)
PathSet == [session : Sessions \cup {""}, day : Nat, zst : BOOLEAN]
KeySet == [session : Sessions \cup {""}, day : Nat]
HandleSet == [key : KeySet, path : PathSet, buffer : Seq(Nat), linked : BOOLEAN]
FileSet == [text : Seq(Nat), time : Nat]
WorkSet == [session : Sessions \cup {""}, key : KeySet, handle : HandleSet, ok : BOOLEAN, since : Nat]

Increasing(s) == \A i, j \in DOMAIN s : i < j => s[i] < s[j]
Below(s, n) == \A i \in DOMAIN s : s[i] < n

(* A file is not older than its day, and holds in order what its session has
   written; a compressed one is of a day before yesterday. *)
FileOK(p, f, nx, d) ==
  /\ p \in PathSet /\ f \in FileSet
  /\ p.session \in Sessions
  /\ p.day <= f.time /\ p.day <= d
  /\ Increasing(f.text) /\ Below(f.text, nx[p.session])
  /\ p.zst => p.day + 1 < d

(* What a handle of today or yesterday holds back follows what is in its file;
   older ones, and those opened after midnight, hold nothing back. *)
HandleOK(h, fs, nx, d) ==
  /\ h \in HandleSet
  /\ h.path.session = h.key.session /\ h.path.zst = FALSE
  /\ h.key.day <= h.path.day /\ h.path.day <= d
  /\ h.linked => h.path \in DOMAIN fs
  /\ h.buffer # <<>> =>
       /\ h.path.session \in Sessions
       /\ h.key.day = h.path.day /\ d <= h.path.day + 1
       /\ Increasing(h.buffer) /\ Below(h.buffer, nx[h.path.session])
       /\ h.linked => \A j \in DOMAIN h.buffer : Below(fs[h.path].text, h.buffer[j])

StoreOK(fs, hs, nx, d) ==
  /\ \A p \in DOMAIN fs : FileOK(p, fs[p], nx, d)
  /\ \A h \in hs : HandleOK(h, fs, nx, d)

CacheOK(ca) ==
  /\ ca \in Seq(HandleSet)
  /\ \A i \in DOMAIN ca : ca[i].key.session \in Sessions
  /\ \A i, j \in DOMAIN ca : ca[i].key = ca[j].key => i = j

HasKey(ca, k) == \E i \in DOMAIN ca : ca[i].key = k

(* The task l, w: where it is and its local variables. *)
TaskOK(l, w, ca, d) ==
  /\ w \in WorkSet
  /\ l # "idle" => w.session \in Sessions /\ w.key.session = w.session /\ w.key.day <= d
  /\ l = "push" => w.handle.key = w.key /\ w.handle.buffer = <<>>
  /\ l \in {"evict", "write"} \/ (l = "unmark" /\ w.ok) => HasKey(ca, w.key)
  /\ w.handle.buffer # <<>> => l = "evict" /\ ~HasKey(ca, w.handle.key)

(* The files that are still to be compressed are there, plain and old. *)
SweepFields == {"pc", "list", "todo", "old", "text", "excess", "count"}
SweepOK(sw, fs, d) ==
  /\ DOMAIN sw = SweepFields
  /\ sw.pc = "delete" => /\ sw.list \in Seq(PathSet) /\ IsInjective(sw.list)
                         /\ \A p \in sw.old : p.zst = FALSE /\ p.day \in Nat /\ p.day + 1 < d
  /\ sw.pc \in {"compress", "pack", "unlink"} =>
       /\ sw.todo \in Seq(PathSet) /\ IsInjective(sw.todo)
       /\ \A i \in DOMAIN sw.todo :
            sw.todo[i] \in DOMAIN fs /\ sw.todo[i].zst = FALSE /\ sw.todo[i].day + 1 < d
  /\ sw.pc \in {"pack", "unlink"} => sw.todo # <<>>
  /\ sw.pc = "pack" => sw.text = fs[sw.todo[1]].text
  /\ sw.pc = "unlink" =>
       /\ Packed(sw.todo[1]) \in DOMAIN fs
       /\ fs[Packed(sw.todo[1])].text = fs[sw.todo[1]].text

(* Event a of a session is in one of its files, but not only in a packed copy
   that is not yet in use, or in a buffer that will be appended to one. *)
Held(a, fs, hs) ==
  \/ \E p \in DOMAIN fs :
       /\ p.session = a[1] /\ a[2] \in ToSet(fs[p].text)
       /\ p.zst => Path(p.session, p.day) \notin DOMAIN fs
  \/ \E h \in hs : h.linked /\ h.path.session = a[1] /\ a[2] \in ToSet(h.buffer)

HandlesOf(ca, wk) == ToSet(ca) \cup {wk[t].handle : t \in Tasks}

(* What holds while one task writes.  The other tasks have nothing to do. *)
LoneInv ==
  /\ now \in Nat /\ next \in [Sessions -> Nat]
  /\ DOMAIN pc = Tasks /\ DOMAIN work = Tasks
  /\ IsFiniteSet(DOMAIN files)
  /\ acked \subseteq Sessions \X Nat
  /\ StoreOK(files, HandlesOf(cache, work), next, now)
  /\ CacheOK(cache)
  /\ \A t \in crew : TaskOK(pc[t], work[t], cache, now)
  /\ \A t \in Tasks \ crew : pc[t] = "idle" /\ work[t] = NoWork
  /\ SweepOK(sweep, files, now)
  /\ \A a \in acked \ exempt : Held(a, files, HandlesOf(cache, work))

FilesInv == crew \in Crews /\ (Alone => LoneInv)

(***************************************************************************)
(* Sequences of event numbers.                                             *)
(***************************************************************************)
LEMMA Joined ==
  ASSUME NEW s \in Seq(Nat), NEW t \in Seq(Nat)
  PROVE  /\ s \o t \in Seq(Nat)
         /\ ToSet(s \o t) = ToSet(s) \cup ToSet(t)
         /\ Increasing(s) /\ Increasing(t) /\ (\A j \in DOMAIN t : Below(s, t[j])) => Increasing(s \o t)
         /\ \A n : Below(s, n) /\ Below(t, n) => Below(s \o t, n)
<1>1. /\ s \o t \in Seq(Nat) /\ Len(s \o t) = Len(s) + Len(t) /\ Len(s) \in Nat /\ Len(t) \in Nat
      /\ DOMAIN s = 1 .. Len(s) /\ DOMAIN t = 1 .. Len(t) /\ DOMAIN (s \o t) = 1 .. Len(s) + Len(t)
      /\ \A i \in 1 .. Len(s) : (s \o t)[i] = s[i] /\ s[i] \in Nat
      /\ \A i \in Len(s) + 1 .. Len(s) + Len(t) :
           (s \o t)[i] = t[i - Len(s)] /\ t[i - Len(s)] \in Nat /\ i - Len(s) \in DOMAIN t
  OBVIOUS
<1>2. \A i \in 1 .. Len(t) : (s \o t)[Len(s) + i] = t[i] /\ Len(s) + i \in 1 .. Len(s) + Len(t)
  BY <1>1
<1> DEFINE u == s \o t
<1>3. /\ \A i \in DOMAIN s : i \in DOMAIN u /\ u[i] = s[i]
      /\ \A i \in DOMAIN t : Len(s) + i \in DOMAIN u /\ u[Len(s) + i] = t[i]
      /\ \A i \in DOMAIN u : i \in DOMAIN s \/ (i - Len(s) \in DOMAIN t /\ u[i] = t[i - Len(s)] /\ i > Len(s))
  BY <1>1, <1>2
<1> HIDE DEF u
<1>4. ToSet(u) = ToSet(s) \cup ToSet(t)
  BY <1>3 DEF ToSet
<1>5. ASSUME Increasing(s), Increasing(t), \A j \in DOMAIN t : Below(s, t[j]) PROVE Increasing(u)
  <2> SUFFICES ASSUME NEW i \in DOMAIN u, NEW j \in DOMAIN u, i < j PROVE u[i] < u[j]
    BY DEF Increasing
  <2>1. i \in Nat /\ j \in Nat
    BY <1>1 DEF u
  <2>2. CASE j \in DOMAIN s
    BY <1>1, <1>3, <1>5, <2>1, <2>2 DEF Increasing
  <2>3. CASE i \in DOMAIN s /\ j \notin DOMAIN s
    BY <1>3, <1>5, <2>3 DEF Below
  <2>4. CASE i \notin DOMAIN s /\ j \notin DOMAIN s
    <3>1. i - Len(s) \in DOMAIN t /\ j - Len(s) \in DOMAIN t /\ i - Len(s) < j - Len(s)
      BY <1>1, <1>3, <2>1, <2>4
    <3> QED
      BY <1>3, <1>5, <2>4, <3>1 DEF Increasing
  <2>5. CASE i \notin DOMAIN s /\ j \in DOMAIN s
    BY <1>1, <1>3, <2>1, <2>5
  <2> QED
    BY <2>2, <2>3, <2>4, <2>5
<1>6. ASSUME NEW n, Below(s, n), Below(t, n) PROVE Below(u, n)
  BY <1>3, <1>6 DEF Below
<1> QED
  BY <1>1, <1>4, <1>5, <1>6 DEF u

LEMMA Alone1 ==
  ASSUME NEW e \in Nat
  PROVE  /\ <<e>> \in Seq(Nat) /\ <<e>> # << >> /\ ToSet(<<e>>) = {e} /\ Increasing(<<e>>)
         /\ DOMAIN <<e>> = {1} /\ <<e>>[1] = e
         /\ \A n : e < n => Below(<<e>>, n)
<1>1. <<e>> \in Seq(Nat) /\ Len(<<e>>) = 1 /\ DOMAIN <<e>> = {1} /\ <<e>>[1] = e /\ <<e>> # << >>
  OBVIOUS
<1> QED
  BY <1>1 DEF ToSet, Increasing, Below

LEMMA Nothing ==
  /\ << >> \in Seq(Nat) /\ ToSet(<< >>) = {} /\ Increasing(<< >>)
  /\ DOMAIN << >> = {} /\ \A n : Below(<< >>, n)
BY DEF ToSet, Increasing, Below

(* Buffering one event more. *)
LEMMA OneMore ==
  ASSUME NEW s \in Seq(Nat), NEW e \in Nat
  PROVE  /\ Append(s, e) \in Seq(Nat) /\ Append(s, e) # << >>
         /\ ToSet(Append(s, e)) = ToSet(s) \cup {e}
         /\ Increasing(s) /\ Below(s, e) => Increasing(Append(s, e))
         /\ \A n : Below(s, n) /\ e < n => Below(Append(s, e), n)
         /\ \A r : (\A j \in DOMAIN s : Below(r, s[j])) /\ Below(r, e)
                     => \A j \in DOMAIN Append(s, e) : Below(r, Append(s, e)[j])
<1> DEFINE u == Append(s, e)
<1>1. /\ u \in Seq(Nat) /\ Len(u) = Len(s) + 1 /\ Len(s) \in Nat /\ u # << >>
      /\ DOMAIN s = 1 .. Len(s) /\ DOMAIN u = 1 .. Len(s) + 1
      /\ u[Len(s) + 1] = e
      /\ \A i \in 1 .. Len(s) : u[i] = s[i]
  OBVIOUS
<1> HIDE DEF u
<1>2. /\ \A i \in DOMAIN s : i \in DOMAIN u /\ u[i] = s[i] /\ i \in Nat /\ i < Len(s) + 1
      /\ Len(s) + 1 \in DOMAIN u /\ u[Len(s) + 1] = e
      /\ \A i \in DOMAIN u : i \in DOMAIN s \/ i = Len(s) + 1
  BY <1>1
<1>3. ToSet(u) = ToSet(s) \cup {e}
  BY <1>2 DEF ToSet
<1>4. Increasing(s) /\ Below(s, e) => Increasing(u)
  <2> SUFFICES ASSUME Increasing(s), Below(s, e), NEW i \in DOMAIN u, NEW j \in DOMAIN u, i < j PROVE u[i] < u[j]
    BY DEF Increasing
  <2>1. i \in DOMAIN s
    BY <1>1
  <2>2. CASE j \in DOMAIN s
    BY <1>2, <2>1, <2>2 DEF Increasing
  <2>3. CASE j = Len(s) + 1
    BY <1>2, <2>1, <2>3 DEF Below
  <2> QED
    BY <1>2, <2>2, <2>3
<1>5. \A n : Below(s, n) /\ e < n => Below(u, n)
  BY <1>2 DEF Below
<1>6. \A r : (\A j \in DOMAIN s : Below(r, s[j])) /\ Below(r, e) => \A j \in DOMAIN u : Below(r, u[j])
  BY <1>2
<1> QED
  BY <1>1, <1>3, <1>4, <1>5, <1>6 DEF u

LEMMA BelowMore ==
  ASSUME NEW s \in Seq(Nat), NEW m \in Nat, NEW n \in Nat, m <= n, Below(s, m)
  PROVE  Below(s, n)
<1>1. \A i \in DOMAIN s : s[i] \in Nat
  OBVIOUS
<1> QED
  BY <1>1 DEF Below

(* The sweep takes its files from the front of a list without repetitions. *)
LEMMA FromTheFront ==
  ASSUME NEW S, NEW s \in Seq(S), IsInjective(s), s # << >>
  PROVE  /\ Head(s) = s[1] /\ 1 \in DOMAIN s /\ Tail(s) \in Seq(S) /\ IsInjective(Tail(s))
         /\ \A i \in DOMAIN Tail(s) : Tail(s)[i] # s[1] /\ \E j \in DOMAIN s : Tail(s)[i] = s[j]
<1> DEFINE t == Tail(s)
<1>1. /\ t \in Seq(S) /\ DOMAIN s = 1 .. Len(s) /\ DOMAIN t = 1 .. Len(s) - 1 /\ Head(s) = s[1]
      /\ Len(s) \in Nat /\ Len(s) >= 1
      /\ \A i \in 1 .. Len(s) - 1 : t[i] = s[i + 1]
  OBVIOUS
<1> HIDE DEF t
<1>2. 1 \in DOMAIN s /\ \A i \in DOMAIN t : t[i] = s[i + 1] /\ i + 1 \in DOMAIN s /\ i + 1 # 1 /\ i \in Nat
  BY <1>1
<1>3. IsInjective(t) /\ \A i \in DOMAIN t : t[i] # s[1]
  BY <1>1, <1>2 DEF IsInjective
<1> QED
  BY <1>1, <1>2, <1>3 DEF t

(* What is selected from a list without repetitions has none either. *)
LEMMA AmongIsSelection ==
  ASSUME NEW P, NEW list \in Seq(P), IsInjective(list), NEW S
  PROVE  /\ Among(list, S) \in Seq(P) /\ IsInjective(Among(list, S))
         /\ \A i \in DOMAIN Among(list, S) : Among(list, S)[i] \in S
<1> DEFINE n == Len(list)
           Sifted(f, i) == IF i = 0 THEN << >>
                         ELSE IF list[i] \in S THEN Append(f[i - 1], list[i]) ELSE f[i - 1]
           Selects(f, m) == f = [i \in 0 .. m |-> Sifted(f, i)]
           G == {m \in 0 .. n : \E f : Selects(f, m)}
<1>1. n \in Nat /\ DOMAIN list = 1 .. n /\ \A i \in 1 .. n : list[i] \in P
  OBVIOUS
<1>2. 0 \in G
  <2>1. [i \in 0 .. 0 |-> << >>] = [i \in 0 .. 0 |-> Sifted([j \in 0 .. 0 |-> << >>], i)]
    OBVIOUS
  <2>2. Selects([i \in 0 .. 0 |-> << >>], 0)
    BY <2>1
  <2> HIDE DEF Selects
  <2> QED
    BY <1>1, <2>2
<1>3. ASSUME NEW m \in 0 .. n - 1, m \in G PROVE m + 1 \in G
  <2>1. PICK f : Selects(f, m)
    BY <1>3
  <2> DEFINE g == [i \in 0 .. m + 1 |-> IF i = m + 1 THEN Sifted(f, i) ELSE f[i]]
  <2>2. m \in Nat /\ m + 1 \in 0 .. n
    BY <1>1
  <2>3. ASSUME NEW i \in 0 .. m + 1 PROVE Sifted(g, i) = g[i]
    <3>1. CASE i = 0
      BY <2>1, <2>2, <3>1
    <3>2. CASE i \in 1 .. m + 1
      <4>1. i - 1 \in 0 .. m /\ g[i - 1] = f[i - 1]
        BY <2>2, <3>2
      <4> HIDE DEF g
      <4>2. Sifted(g, i) = Sifted(f, i)
        BY <3>2, <4>1
      <4>3. g[i] = Sifted(f, i)
        <5>1. CASE i = m + 1
          BY <2>2, <5>1 DEF g
        <5>2. CASE i \in 0 .. m
          BY <2>1, <2>2, <5>2 DEF g
        <5> QED
          BY <2>2, <5>1, <5>2
      <4> QED
        BY <4>2, <4>3
    <3> QED
      BY <2>2, <3>1, <3>2
  <2>4. Selects(g, m + 1)
    <3> HIDE DEF Sifted
    <3> QED
      BY <2>3
  <2> HIDE DEF Selects
  <2> QED
    BY <2>2, <2>4
<1>4. \E f : Selects(f, n)
  <2>1. 0 .. n \subseteq G
    <3> HIDE DEF G, n
    <3> QED
      BY <1>1, <1>2, <1>3, UpTo
  <2> QED
    BY <1>1, <2>1
<1> DEFINE kept == CHOOSE f : Selects(f, n)
<1>5. Selects(kept, n)
  <2> HIDE DEF Selects
  <2> QED
    BY <1>4
<1>6. Among(list, S) = kept[n]
  BY DEF Among
<1> HIDE DEF kept
<1>7. /\ kept[0] = << >>
      /\ \A i \in 1 .. n : /\ list[i] \in S => kept[i] = Append(kept[i - 1], list[i])
                           /\ list[i] \notin S => kept[i] = kept[i - 1]
  <2>1. \A i \in 0 .. n : kept[i] = Sifted(kept, i)
    <3> HIDE DEF Sifted
    <3> QED
      BY <1>5
  <2>2. 0 \in 0 .. n /\ \A i \in 1 .. n : i \in 0 .. n /\ i # 0
    BY <1>1
  <2> HIDE DEF n
  <2> QED
    BY <2>1, <2>2
<1> DEFINE Fine(s, m) == /\ s \in Seq(P) /\ IsInjective(s)
                         /\ \A x \in ToSet(s) : x \in S /\ \E j \in 1 .. m : x = list[j]
           T == {m \in 0 .. n : Fine(kept[m], m)}
<1>8. 0 \in T
  <2>1. << >> \in Seq(P) /\ IsInjective(<< >>) /\ ToSet(<< >>) = {}
    BY DEF IsInjective, ToSet
  <2>2. Fine(kept[0], 0)
    BY <1>7, <2>1
  <2> HIDE DEF Fine
  <2> QED
    BY <1>1, <2>2
<1>9. ASSUME NEW m \in 0 .. n - 1, m \in T PROVE m + 1 \in T
  <2>1. /\ m + 1 \in 1 .. n /\ m + 1 \in 0 .. n /\ Fine(kept[m], m) /\ list[m + 1] \in P /\ m + 1 - 1 = m
        /\ \A j \in 1 .. m : j \in 1 .. m + 1 /\ list[j] # list[m + 1]
    <3>1. m + 1 \in 1 .. n /\ m + 1 \in 0 .. n /\ Fine(kept[m], m) /\ m + 1 - 1 = m /\ m \in Nat
      BY <1>1, <1>9
    <3>2. ASSUME NEW j \in 1 .. m PROVE j \in DOMAIN list /\ m + 1 \in DOMAIN list /\ j # m + 1
      BY <1>1, <3>1
    <3>3. \A j \in 1 .. m : list[j] # list[m + 1]
      BY <3>2 DEF IsInjective
    <3> QED
      BY <1>1, <3>1, <3>3
  <2>2. CASE list[m + 1] \in S
    <3>1. kept[m + 1] = Append(kept[m], list[m + 1])
      BY <1>7, <2>1, <2>2
    <3>2. list[m + 1] \notin ToSet(kept[m])
      BY <2>1
    <3>3. /\ Append(kept[m], list[m + 1]) \in Seq(P)
          /\ ToSet(Append(kept[m], list[m + 1])) = ToSet(kept[m]) \cup {list[m + 1]}
          /\ IsInjective(Append(kept[m], list[m + 1]))
      BY <2>1, <3>2, AppendFacts
    <3>4. Fine(kept[m + 1], m + 1)
      <4>1. kept[m + 1] \in Seq(P) /\ IsInjective(kept[m + 1])
        BY <3>1, <3>3
      <4>2. ASSUME NEW x \in ToSet(kept[m + 1]) PROVE x \in S /\ \E j \in 1 .. m + 1 : x = list[j]
        <5>1. CASE x = list[m + 1]
          BY <2>1, <2>2, <5>1
        <5>2. CASE x \in ToSet(kept[m])
          BY <2>1, <5>2
        <5> QED
          BY <3>1, <3>3, <4>2, <5>1, <5>2
      <4> QED
        BY <4>1, <4>2
    <3> HIDE DEF Fine
    <3> QED
      BY <2>1, <3>4
  <2>3. CASE list[m + 1] \notin S
    <3>1. kept[m + 1] = kept[m]
      BY <1>7, <2>1, <2>3
    <3>2. Fine(kept[m + 1], m + 1)
      BY <2>1, <3>1
    <3> HIDE DEF Fine
    <3> QED
      BY <2>1, <3>2
  <2> QED
    BY <2>2, <2>3
<1>10. Fine(kept[n], n)
  <2>1. 0 .. n \subseteq T
    <3> HIDE DEF T, n
    <3> QED
      BY <1>1, <1>8, <1>9, UpTo
  <2> HIDE DEF Fine
  <2> QED
    BY <1>1, <2>1
<1> QED
  BY <1>6, <1>10 DEF ToSet

(***************************************************************************)
(* Files and handles.                                                      *)
(***************************************************************************)
LEMMA NoHandleOK ==
  ASSUME NEW fs, NEW nx, NEW d \in Nat
  PROVE  HandleOK(NoHandle, fs, nx, d) /\ NoHandle.buffer = << >> /\ NoHandle.linked = FALSE
<1>1. NoHandle \in HandleSet
  BY Nothing DEF NoHandle, HandleSet, KeySet, PathSet, Path
<1>2. /\ NoHandle.path.session = NoHandle.key.session /\ NoHandle.path.zst = FALSE
      /\ NoHandle.key.day = 0 /\ NoHandle.path.day = 0 /\ NoHandle.buffer = << >> /\ NoHandle.linked = FALSE
  BY DEF NoHandle, Path
<1> QED
  BY <1>1, <1>2 DEF HandleOK

LEMMA NothingHeld == NoWork.handle = NoHandle /\ NoHandle.buffer = << >> /\ NoHandle.linked = FALSE
BY DEF NoWork, NoHandle

(* A handle stays as it is where its file does, or where it holds nothing. *)
LEMMA HandleStays ==
  ASSUME NEW fs, NEW fs2, NEW nx, NEW d, NEW h, HandleOK(h, fs, nx, d),
         h.linked => h.path \in DOMAIN fs2,
         h.linked /\ h.buffer # << >> => fs2[h.path].text = fs[h.path].text
  PROVE  HandleOK(h, fs2, nx, d)
BY DEF HandleOK

LEMMA EmptiedOK ==
  ASSUME NEW fs, NEW nx, NEW d, NEW h, HandleOK(h, fs, nx, d)
  PROVE  /\ HandleOK(Emptied(h), fs, nx, d)
         /\ Emptied(h) \in HandleSet /\ Emptied(h).buffer = << >>
         /\ Emptied(h).key = h.key /\ Emptied(h).path = h.path /\ Emptied(h).linked = h.linked
<1>1. /\ Emptied(h) \in HandleSet /\ Emptied(h).buffer = << >>
      /\ Emptied(h).key = h.key /\ Emptied(h).path = h.path /\ Emptied(h).linked = h.linked
  BY Nothing DEF HandleOK, HandleSet, Emptied
<1> QED
  BY <1>1 DEF HandleOK

LEMMA CutOK ==
  ASSUME NEW h \in HandleSet, NEW p
  PROVE  /\ Cut(h, p) \in HandleSet /\ Cut(h, p).buffer = h.buffer
         /\ Cut(h, p).key = h.key /\ Cut(h, p).path = h.path
         /\ Cut(h, p).linked <=> h.linked /\ h.path # p
BY DEF HandleSet, Cut

(* An event stays where the files keep what they have, and what was in a
   buffer is there or in the file. *)
LEMMA HeldStays ==
  ASSUME NEW a, NEW fs, NEW fs2, NEW hs, NEW hs2, Held(a, fs, hs),
         \A p \in DOMAIN fs : p \in DOMAIN fs2 /\ ToSet(fs[p].text) \subseteq ToSet(fs2[p].text),
         \A p \in DOMAIN fs : p.zst /\ Path(p.session, p.day) \notin DOMAIN fs => Path(p.session, p.day) \notin DOMAIN fs2,
         \A h \in hs : h.linked /\ h.buffer # << >> =>
           \/ \E g \in hs2 : g.linked /\ g.path = h.path /\ ToSet(h.buffer) \subseteq ToSet(g.buffer)
           \/ h.path \in DOMAIN fs2 /\ h.path.zst = FALSE /\ ToSet(h.buffer) \subseteq ToSet(fs2[h.path].text)
  PROVE  Held(a, fs2, hs2)
<1>1. CASE \E p \in DOMAIN fs : /\ p.session = a[1] /\ a[2] \in ToSet(fs[p].text)
                                /\ p.zst => Path(p.session, p.day) \notin DOMAIN fs
  BY <1>1, Zenon DEF Held
<1>2. CASE \E h \in hs : h.linked /\ h.path.session = a[1] /\ a[2] \in ToSet(h.buffer)
  <2>1. PICK h \in hs : h.linked /\ h.path.session = a[1] /\ a[2] \in ToSet(h.buffer)
    BY <1>2
  <2>2. h.buffer # << >>
    BY <2>1, Nothing
  <2>3. CASE \E g \in hs2 : g.linked /\ g.path = h.path /\ ToSet(h.buffer) \subseteq ToSet(g.buffer)
    BY <2>1, <2>3 DEF Held
  <2>4. CASE h.path \in DOMAIN fs2 /\ h.path.zst = FALSE /\ ToSet(h.buffer) \subseteq ToSet(fs2[h.path].text)
    BY <2>1, <2>4 DEF Held
  <2> QED
    BY <2>1, <2>2, <2>3, <2>4
<1> QED
  BY <1>1, <1>2 DEF Held

LEMMA HeldTheSame ==
  ASSUME NEW a, NEW fs, NEW hs, NEW hs2, Held(a, fs, hs),
         \A h \in hs : h \in hs2 \/ h.buffer = << >>
  PROVE  Held(a, fs, hs2)
<1>1. \A h \in hs : h.buffer = << >> => ToSet(h.buffer) = {}
  BY Nothing
<1> QED
  BY <1>1 DEF Held

(* The files fs2 have grown out of fs by the buffers of handles of hs. *)
Grown(fs, fs2, hs, d) ==
  /\ DOMAIN fs2 = DOMAIN fs
  /\ \A p \in DOMAIN fs :
       \/ fs2[p] = fs[p]
       \/ \E h \in hs : /\ h.linked /\ h.buffer # << >> /\ h.path = p
                        /\ fs2[p] = [text |-> fs[p].text \o h.buffer, time |-> d]

LEMMA GrownOK ==
  ASSUME NEW fs, NEW fs2, NEW hs, NEW nx, NEW d \in Nat, StoreOK(fs, hs, nx, d), Grown(fs, fs2, hs, d)
  PROVE  /\ \A p \in DOMAIN fs2 : FileOK(p, fs2[p], nx, d)
         /\ \A p \in DOMAIN fs : p \in DOMAIN fs2 /\ ToSet(fs[p].text) \subseteq ToSet(fs2[p].text)
         /\ \A p \in DOMAIN fs : p.day + 1 < d => fs2[p] = fs[p]
<1> SUFFICES ASSUME NEW p \in DOMAIN fs
             PROVE  /\ p \in DOMAIN fs2
                    /\ FileOK(p, fs2[p], nx, d)
                    /\ ToSet(fs[p].text) \subseteq ToSet(fs2[p].text)
                    /\ p.day + 1 < d => fs2[p] = fs[p]
  BY DEF Grown
<1>1. p \in DOMAIN fs2 /\ FileOK(p, fs[p], nx, d)
  BY DEF Grown, StoreOK
<1>2. CASE fs2[p] = fs[p]
  BY <1>1, <1>2
<1>3. ASSUME NEW h \in hs, h.linked, h.buffer # << >>, h.path = p,
             fs2[p] = [text |-> fs[p].text \o h.buffer, time |-> d]
      PROVE  /\ FileOK(p, fs2[p], nx, d)
             /\ ToSet(fs[p].text) \subseteq ToSet(fs2[p].text)
             /\ p.day + 1 < d => fs2[p] = fs[p]
  <2>1. HandleOK(h, fs, nx, d)
    BY DEF StoreOK
  <2> DEFINE x == fs[p].text
             b == h.buffer
  <2>2. b \in Seq(Nat) /\ x \in Seq(Nat) /\ p.day \in Nat
    BY <1>1, <2>1 DEF HandleOK, HandleSet, FileOK, FileSet, PathSet
  <2>3. /\ Increasing(x) /\ Increasing(b) /\ Below(x, nx[p.session]) /\ Below(b, nx[p.session])
        /\ \A j \in DOMAIN b : Below(x, b[j])
        /\ p.zst = FALSE /\ d <= p.day + 1
    BY <1>1, <1>3, <2>1 DEF HandleOK, FileOK
  <2>4. fs2[p].text = x \o b /\ fs2[p].time = d
    <3>1. fs2[p] = [text |-> x \o b, time |-> d]
      BY <1>3
    <3> HIDE DEF x, b
    <3> QED
      BY <3>1
  <2> HIDE DEF x, b
  <2>5. /\ x \o b \in Seq(Nat) /\ ToSet(x) \subseteq ToSet(x \o b)
        /\ Increasing(x \o b) /\ Below(x \o b, nx[p.session])
    BY <2>2, <2>3, Joined
  <2>6. fs2[p] \in FileSet
    BY <1>3, <2>2, <2>5 DEF FileSet, x, b
  <2>7. FileOK(p, fs2[p], nx, d)
    BY <1>1, <2>3, <2>4, <2>5, <2>6 DEF FileOK
  <2> QED
    BY <2>2, <2>3, <2>4, <2>5, <2>7 DEF x
<1> QED
  BY <1>1, <1>2, <1>3 DEF Grown

(* A midnight, before which all that is held back is of today. *)
LEMMA AgingOK ==
  ASSUME NEW fs, NEW hs, NEW nx, NEW d \in Nat, StoreOK(fs, hs, nx, d),
         \A h \in hs : h.buffer # << >> => h.path.day = d
  PROVE  StoreOK(fs, hs, nx, d + 1)
<1>1. ASSUME NEW p \in DOMAIN fs PROVE FileOK(p, fs[p], nx, d + 1)
  <2>1. FileOK(p, fs[p], nx, d) /\ p.day \in Nat
    BY DEF StoreOK, FileOK, PathSet
  <2> QED
    BY <2>1 DEF FileOK
<1>2. ASSUME NEW h \in hs PROVE HandleOK(h, fs, nx, d + 1)
  <2>1. HandleOK(h, fs, nx, d) /\ h.path.day \in Nat
    BY DEF StoreOK, HandleOK, HandleSet, PathSet
  <2> QED
    BY <2>1 DEF HandleOK
<1> QED
  BY <1>1, <1>2 DEF StoreOK

(* Numbers of events that are not used any more. *)
LEMMA NumberingOK ==
  ASSUME NEW fs, NEW hs, NEW nx \in [Sessions -> Nat], NEW nx2 \in [Sessions -> Nat], NEW d, StoreOK(fs, hs, nx, d),
         \A s \in Sessions : nx[s] <= nx2[s]
  PROVE  StoreOK(fs, hs, nx2, d)
<1>1. ASSUME NEW p \in DOMAIN fs PROVE FileOK(p, fs[p], nx2, d)
  <2>1. FileOK(p, fs[p], nx, d) /\ fs[p].text \in Seq(Nat) /\ p.session \in Sessions
    BY DEF StoreOK, FileOK, FileSet
  <2> QED
    BY <2>1, BelowMore DEF FileOK
<1>2. ASSUME NEW h \in hs PROVE HandleOK(h, fs, nx2, d)
  <2>1. HandleOK(h, fs, nx, d) /\ h.buffer \in Seq(Nat)
    BY DEF StoreOK, HandleOK, HandleSet
  <2> QED
    BY <2>1, BelowMore DEF HandleOK
<1> QED
  BY <1>1, <1>2 DEF StoreOK

(* The sweep goes on while the old files stay as they are. *)
LEMMA SweepStays ==
  ASSUME NEW fs, NEW fs2, NEW sw, NEW d, SweepOK(sw, fs, d),
         \A p \in DOMAIN fs : p.day + 1 < d => p \in DOMAIN fs2 /\ fs2[p] = fs[p]
  PROVE  SweepOK(sw, fs2, d)
<1>1. ASSUME sw.pc \in {"compress", "pack", "unlink"}, NEW i \in DOMAIN sw.todo
      PROVE  sw.todo[i] \in DOMAIN fs2 /\ fs2[sw.todo[i]] = fs[sw.todo[i]]
  BY <1>1 DEF SweepOK
<1>2. ASSUME sw.pc \in {"pack", "unlink"}
      PROVE 1 \in DOMAIN sw.todo /\ sw.todo[1].day + 1 < d /\ Packed(sw.todo[1]).day = sw.todo[1].day
  <2>1. sw.todo \in Seq(PathSet) /\ sw.todo # << >> /\ \A i \in DOMAIN sw.todo : sw.todo[i].day + 1 < d
    BY <1>2 DEF SweepOK
  <2>2. 1 \in DOMAIN sw.todo /\ sw.todo[1] \in PathSet
    BY <2>1
  <2> QED
    BY <2>1, <2>2 DEF Packed, PathSet
<1>3. ASSUME sw.pc = "unlink"
      PROVE /\ Packed(sw.todo[1]) \in DOMAIN fs /\ Packed(sw.todo[1]) \in DOMAIN fs2
            /\ fs2[Packed(sw.todo[1])] = fs[Packed(sw.todo[1])]
  BY <1>2, <1>3 DEF SweepOK
<1> QED
  BY <1>1, <1>2, <1>3 DEF SweepOK

(* A file goes, and the handles that wrote to it are cut off. *)
LEMMA UnlinkOK ==
  ASSUME NEW fs, NEW hs, NEW hs2, NEW nx, NEW d, NEW p, StoreOK(fs, hs, nx, d),
         \A g \in hs2 : \E h \in hs : g = Cut(h, p)
  PROVE  StoreOK(Without(fs, p), hs2, nx, d)
<1>1. DOMAIN Without(fs, p) = DOMAIN fs \ {p} /\ \A q \in DOMAIN fs \ {p} : Without(fs, p)[q] = fs[q]
  BY DEF Without
<1>2. ASSUME NEW g \in hs2 PROVE HandleOK(g, Without(fs, p), nx, d)
  <2>1. PICK h \in hs : g = Cut(h, p)
    OBVIOUS
  <2>2. HandleOK(h, fs, nx, d) /\ h \in HandleSet
    BY DEF StoreOK, HandleOK
  <2>3. /\ g \in HandleSet /\ g.buffer = h.buffer /\ g.key = h.key /\ g.path = h.path
        /\ g.linked <=> h.linked /\ h.path # p
    BY <2>1, <2>2, CutOK
  <2> QED
    BY <1>1, <2>2, <2>3 DEF HandleOK
<1> QED
  BY <1>1, <1>2 DEF StoreOK

LEMMA RetiredHeld ==
  ASSUME NEW fs, NEW hs, NEW hs2, NEW p, NEW a \in Sessions \X Nat, Held(a, fs, hs), hs \subseteq HandleSet,
         \A h \in hs : Cut(h, p) \in hs2,
         p \in DOMAIN fs => a \notin Of(p, fs[p].text),
         \A h \in hs : h.path = p => a \notin Of(p, h.buffer)
  PROVE  Held(a, Without(fs, p), hs2)
<1>1. DOMAIN Without(fs, p) = DOMAIN fs \ {p} /\ \A q \in DOMAIN fs \ {p} : Without(fs, p)[q] = fs[q]
  BY DEF Without
<1>2. a = <<a[1], a[2]>>
  OBVIOUS
<1>3. ASSUME NEW s, p.session = a[1], a[2] \in ToSet(s) PROVE a \in Of(p, s)
  BY <1>2, <1>3 DEF Of
<1>4. CASE \E q \in DOMAIN fs : /\ q.session = a[1] /\ a[2] \in ToSet(fs[q].text)
                                /\ q.zst => Path(q.session, q.day) \notin DOMAIN fs
  <2>1. PICK q \in DOMAIN fs : /\ q.session = a[1] /\ a[2] \in ToSet(fs[q].text)
                               /\ q.zst => Path(q.session, q.day) \notin DOMAIN fs
    BY <1>4
  <2>2. q # p
    BY <1>3, <2>1
  <2> QED
    BY <1>1, <2>1, <2>2 DEF Held
<1>5. CASE \E h \in hs : h.linked /\ h.path.session = a[1] /\ a[2] \in ToSet(h.buffer)
  <2>1. PICK h \in hs : h.linked /\ h.path.session = a[1] /\ a[2] \in ToSet(h.buffer)
    BY <1>5
  <2>2. h.path # p
    BY <1>3, <2>1
  <2>3. Cut(h, p) \in hs2 /\ Cut(h, p).linked /\ Cut(h, p).path = h.path /\ Cut(h, p).buffer = h.buffer
    BY <2>1, <2>2, CutOK
  <2> QED
    BY <2>1, <2>3 DEF Held
<1> QED
  BY <1>4, <1>5 DEF Held

LEMMA Names ==
  ASSUME NEW p \in PathSet, p.zst = FALSE
  PROVE  /\ Packed(p) \in PathSet /\ Packed(p).zst = TRUE /\ Packed(p).session = p.session /\ Packed(p).day = p.day
         /\ Path(p.session, p.day) = p
         /\ \A s, d : Path(s, d).zst = FALSE /\ Path(s, d) # Packed(p)
<1>1. /\ Packed(p) \in PathSet /\ Packed(p).zst = TRUE /\ Packed(p).session = p.session /\ Packed(p).day = p.day
      /\ Path(p.session, p.day) = p
  BY DEF PathSet, Packed, Path
<1>2. \A s, d : Path(s, d).zst = FALSE
  BY DEF Path
<1> QED
  BY <1>1, <1>2

(* The plain file goes when its copy is complete and no handle holds anything
   back for it. *)
LEMMA UnlinkedHeld ==
  ASSUME NEW fs, NEW hs, NEW hs2, NEW p \in PathSet, NEW a, Held(a, fs, hs), hs \subseteq HandleSet,
         \A h \in hs : Cut(h, p) \in hs2,
         p.zst = FALSE, p \in DOMAIN fs, Packed(p) \in DOMAIN fs, fs[Packed(p)].text = fs[p].text,
         \A h \in hs : h.path = p => h.buffer = << >>
  PROVE  Held(a, Without(fs, p), hs2)
<1>1. DOMAIN Without(fs, p) = DOMAIN fs \ {p} /\ \A q \in DOMAIN fs \ {p} : Without(fs, p)[q] = fs[q]
  BY DEF Without
<1>2. CASE \E q \in DOMAIN fs : /\ q.session = a[1] /\ a[2] \in ToSet(fs[q].text)
                                /\ q.zst => Path(q.session, q.day) \notin DOMAIN fs
  <2>1. PICK q \in DOMAIN fs : /\ q.session = a[1] /\ a[2] \in ToSet(fs[q].text)
                               /\ q.zst => Path(q.session, q.day) \notin DOMAIN fs
    BY <1>2
  <2>2. CASE q # p
    BY <1>1, <2>1, <2>2 DEF Held
  <2>3. CASE q = p
    <3>1. /\ Packed(p) \in DOMAIN Without(fs, p) /\ Without(fs, p)[Packed(p)].text = fs[p].text
          /\ Packed(p).session = p.session /\ Path(Packed(p).session, Packed(p).day) \notin DOMAIN Without(fs, p)
      BY <1>1, Names
    <3> QED
      BY <2>1, <2>3, <3>1 DEF Held
  <2> QED
    BY <2>2, <2>3
<1>3. CASE \E h \in hs : h.linked /\ h.path.session = a[1] /\ a[2] \in ToSet(h.buffer)
  <2>1. PICK h \in hs : h.linked /\ h.path.session = a[1] /\ a[2] \in ToSet(h.buffer)
    BY <1>3
  <2>2. h.path # p
    BY <2>1, Nothing
  <2>3. Cut(h, p) \in hs2 /\ Cut(h, p).linked /\ Cut(h, p).path = h.path /\ Cut(h, p).buffer = h.buffer
    BY <2>1, <2>2, CutOK
  <2> QED
    BY <2>1, <2>3 DEF Held
<1> QED
  BY <1>2, <1>3 DEF Held

(* The copy takes the place of another one that is not in use. *)
LEMMA PackedOK ==
  ASSUME NEW fs, NEW fs2, NEW hs, NEW nx, NEW d \in Nat, NEW p \in PathSet, StoreOK(fs, hs, nx, d),
         p.zst = FALSE, p \in DOMAIN fs, p.day + 1 < d,
         DOMAIN fs2 = DOMAIN fs \cup {Packed(p)},
         fs2[Packed(p)] = [text |-> fs[p].text, time |-> d],
         \A q \in DOMAIN fs : q # Packed(p) => fs2[q] = fs[q]
  PROVE  /\ fs2[Packed(p)].text = fs[p].text
         /\ StoreOK(fs2, hs, nx, d)
         /\ \A a : Held(a, fs, hs) => Held(a, fs2, hs)
<1>1. /\ DOMAIN fs2 = DOMAIN fs \cup {Packed(p)}
      /\ fs2[Packed(p)] = [text |-> fs[p].text, time |-> d]
      /\ \A q \in DOMAIN fs : q # Packed(p) => fs2[q] = fs[q]
  OBVIOUS
<1>2. fs2[Packed(p)].text = fs[p].text /\ fs2[Packed(p)].time = d
  BY <1>1
<1>3. /\ Packed(p) \in PathSet /\ Packed(p).zst = TRUE /\ Packed(p).session = p.session /\ Packed(p).day = p.day
      /\ Path(p.session, p.day) = p
      /\ \A s, e : Path(s, e) # Packed(p)
  <2>1. \A s, e : Path(s, e).zst = FALSE
    BY DEF Path
  <2>2. /\ Packed(p) \in PathSet /\ Packed(p).zst = TRUE /\ Packed(p).session = p.session
        /\ Packed(p).day = p.day /\ Path(p.session, p.day) = p
    BY Names
  <2> QED
    BY <2>1, <2>2
<1>4. FileOK(Packed(p), fs2[Packed(p)], nx, d)
  <2>1. FileOK(p, fs[p], nx, d) /\ p.day \in Nat /\ fs[p].text \in Seq(Nat)
    BY DEF StoreOK, FileOK, FileSet, PathSet
  <2>2. fs2[Packed(p)] \in FileSet
    BY <1>1, <2>1 DEF FileSet
  <2> QED
    BY <1>2, <1>3, <2>1, <2>2 DEF FileOK
<1>5. ASSUME NEW h \in hs PROVE HandleOK(h, fs2, nx, d)
  <2>1. HandleOK(h, fs, nx, d)
    BY DEF StoreOK
  <2>2. h.path # Packed(p)
    BY <1>3, <2>1 DEF HandleOK
  <2> QED
    BY <1>1, <2>1, <2>2, HandleStays DEF HandleOK
<1>6. ASSUME NEW a, Held(a, fs, hs) PROVE Held(a, fs2, hs)
  <2>1. CASE \E q \in DOMAIN fs : /\ q.session = a[1] /\ a[2] \in ToSet(fs[q].text)
                                  /\ q.zst => Path(q.session, q.day) \notin DOMAIN fs
    <3>1. PICK q \in DOMAIN fs : /\ q.session = a[1] /\ a[2] \in ToSet(fs[q].text)
                                 /\ q.zst => Path(q.session, q.day) \notin DOMAIN fs
      BY <2>1
    <3>2. q # Packed(p)
      BY <1>3, <3>1
    <3> QED
      BY <1>1, <1>3, <3>1, <3>2 DEF Held
  <2>2. CASE \E h \in hs : h.linked /\ h.path.session = a[1] /\ a[2] \in ToSet(h.buffer)
    BY <2>2 DEF Held
  <2> QED
    BY <1>6, <2>1, <2>2 DEF Held
<1>7. StoreOK(fs2, hs, nx, d)
  BY <1>1, <1>4, <1>5 DEF StoreOK
<1> QED
  BY <1>1, <1>2, <1>6, <1>7

(* A file of today is new. *)
LEMMA OpenedOK ==
  ASSUME NEW fs, NEW fs2, NEW hs, NEW nx, NEW d \in Nat, NEW s \in Sessions, StoreOK(fs, hs, nx, d),
         Path(s, d) \notin DOMAIN fs,
         fs2 = [q \in DOMAIN fs \cup {Path(s, d)} |->
                  IF q = Path(s, d) THEN [text |-> << >>, time |-> d] ELSE fs[q]]
  PROVE  /\ DOMAIN fs2 = DOMAIN fs \cup {Path(s, d)}
         /\ \A q \in DOMAIN fs : fs2[q] = fs[q]
         /\ StoreOK(fs2, hs, nx, d)
         /\ \A a : Held(a, fs, hs) => Held(a, fs2, hs)
<1> DEFINE p == Path(s, d)
<1>1. /\ DOMAIN fs2 = DOMAIN fs \cup {p}
      /\ \A q \in DOMAIN fs : fs2[q] = fs[q]
      /\ p \notin DOMAIN fs /\ fs2[p] = [text |-> << >>, time |-> d]
  OBVIOUS
<1>2. p \in PathSet /\ p.session = s /\ p.day = d /\ p.zst = FALSE
  BY DEF Path, PathSet
<1> HIDE DEF p
<1>3. FileOK(p, fs2[p], nx, d)
  <2>1. fs2[p].text = << >> /\ fs2[p].time = d /\ fs2[p] \in FileSet
    BY <1>1, Nothing DEF FileSet
  <2> QED
    BY <1>2, <2>1, Nothing DEF FileOK
<1>4. ASSUME NEW h \in hs PROVE HandleOK(h, fs2, nx, d)
  <2>1. HandleOK(h, fs, nx, d)
    BY DEF StoreOK
  <2> QED
    BY <1>1, <2>1, HandleStays DEF HandleOK
<1>5. ASSUME NEW q \in DOMAIN fs, q.zst PROVE Path(q.session, q.day) # p
  <2>1. q.day + 1 < d /\ q.day \in Nat
    BY <1>5 DEF StoreOK, FileOK, PathSet
  <2>2. Path(q.session, q.day).day = q.day
    BY DEF Path
  <2> QED
    BY <1>2, <2>1, <2>2
<1>6. ASSUME NEW a, Held(a, fs, hs) PROVE Held(a, fs2, hs)
  <2>1. CASE \E q \in DOMAIN fs : /\ q.session = a[1] /\ a[2] \in ToSet(fs[q].text)
                                  /\ q.zst => Path(q.session, q.day) \notin DOMAIN fs
    BY <1>1, <1>5, <2>1 DEF Held
  <2>2. CASE \E h \in hs : h.linked /\ h.path.session = a[1] /\ a[2] \in ToSet(h.buffer)
    BY <2>2 DEF Held
  <2> QED
    BY <1>6, <2>1, <2>2 DEF Held
<1>7. StoreOK(fs2, hs, nx, d)
  BY <1>1, <1>3, <1>4 DEF StoreOK
<1> QED
  BY <1>1, <1>6, <1>7 DEF p

(***************************************************************************)
(* flush(): each file has got what its handle held back.                   *)
(***************************************************************************)
Pours(h) == h.linked /\ h.buffer # << >>
Flow(fs, h, d) == [text |-> fs[h.path].text \o h.buffer, time |-> d]

LEMMA AppendedFiles ==
  ASSUME NEW fs, NEW h
  PROVE  /\ Pours(h) => /\ DOMAIN Appended(fs, h) = DOMAIN fs
                        /\ h.path \in DOMAIN fs => Appended(fs, h)[h.path] = Flow(fs, h, now)
                        /\ \A p \in DOMAIN fs : p # h.path => Appended(fs, h)[p] = fs[p]
         /\ ~Pours(h) => Appended(fs, h) = fs
BY DEF Appended, Pours, Flow

LEMMA FlushedFiles ==
  ASSUME cache \in Seq(HandleSet), NEW n \in 0 .. Len(cache),
         \A i \in DOMAIN cache : cache[i].linked => cache[i].path \in DOMAIN files,
         \A i, j \in DOMAIN cache : Pours(cache[i]) /\ Pours(cache[j]) /\ cache[i].path = cache[j].path => i = j
  PROVE  /\ DOMAIN Flushed(n) = DOMAIN files
         /\ \A p \in DOMAIN files : (\A i \in 1 .. n : Pours(cache[i]) => cache[i].path # p) => Flushed(n)[p] = files[p]
         /\ \A i \in 1 .. n : Pours(cache[i]) => Flushed(n)[cache[i].path] = Flow(files, cache[i], now)
<1> DEFINE Sifted(f, i) == IF i = 0 THEN files ELSE Appended(f[i - 1], cache[i])
           Flushes(f, m) == f = [i \in 0 .. m |-> Sifted(f, i)]
           G == {m \in 0 .. n : \E f : Flushes(f, m)}
<1>1. n \in Nat /\ Len(cache) \in Nat /\ \A i \in 1 .. n : i \in DOMAIN cache
  OBVIOUS
<1>2. 0 \in G
  <2>1. [i \in 0 .. 0 |-> files] = [i \in 0 .. 0 |-> Sifted([j \in 0 .. 0 |-> files], i)]
    OBVIOUS
  <2>2. Flushes([i \in 0 .. 0 |-> files], 0)
    BY <2>1
  <2> HIDE DEF Flushes
  <2> QED
    BY <1>1, <2>2
<1>3. ASSUME NEW m \in 0 .. n - 1, m \in G PROVE m + 1 \in G
  <2>1. PICK f : Flushes(f, m)
    BY <1>3
  <2> DEFINE g == [i \in 0 .. m + 1 |-> IF i = m + 1 THEN Sifted(f, i) ELSE f[i]]
  <2>2. m \in Nat /\ m + 1 \in 0 .. n
    BY <1>1
  <2>3. ASSUME NEW i \in 0 .. m + 1 PROVE Sifted(g, i) = g[i]
    <3>1. CASE i = 0
      BY <2>1, <2>2, <3>1
    <3>2. CASE i \in 1 .. m + 1
      <4>1. i - 1 \in 0 .. m /\ g[i - 1] = f[i - 1]
        BY <2>2, <3>2
      <4> HIDE DEF g
      <4>2. Sifted(g, i) = Sifted(f, i)
        BY <3>2, <4>1
      <4>3. g[i] = Sifted(f, i)
        <5>1. CASE i = m + 1
          BY <2>2, <5>1 DEF g
        <5>2. CASE i \in 0 .. m
          BY <2>1, <2>2, <5>2 DEF g
        <5> QED
          BY <2>2, <5>1, <5>2
      <4> QED
        BY <4>2, <4>3
    <3> QED
      BY <2>2, <3>1, <3>2
  <2>4. Flushes(g, m + 1)
    <3> HIDE DEF Sifted
    <3> QED
      BY <2>3
  <2> HIDE DEF Flushes
  <2> QED
    BY <2>2, <2>4
<1>4. \E f : Flushes(f, n)
  <2>1. 0 .. n \subseteq G
    <3> HIDE DEF G
    <3> QED
      BY <1>1, <1>2, <1>3, UpTo
  <2> QED
    BY <1>1, <2>1
<1> DEFINE flushed == CHOOSE f : Flushes(f, n)
<1>5. Flushes(flushed, n)
  <2> HIDE DEF Flushes
  <2> QED
    BY <1>4
<1>6. Flushed(n) = flushed[n]
  BY DEF Flushed
<1> HIDE DEF flushed
<1>7. flushed[0] = files /\ \A i \in 1 .. n : flushed[i] = Appended(flushed[i - 1], cache[i])
  <2>1. \A i \in 0 .. n : flushed[i] = Sifted(flushed, i)
    <3> HIDE DEF Sifted
    <3> QED
      BY <1>5
  <2>2. 0 \in 0 .. n /\ \A i \in 1 .. n : i \in 0 .. n /\ i # 0
    BY <1>1
  <2> QED
    BY <2>1, <2>2
<1> DEFINE Fine(fs, m) ==
             /\ DOMAIN fs = DOMAIN files
             /\ \A p \in DOMAIN files : (\A i \in 1 .. m : Pours(cache[i]) => cache[i].path # p) => fs[p] = files[p]
             /\ \A i \in 1 .. m : Pours(cache[i]) => fs[cache[i].path] = Flow(files, cache[i], now)
           T == {m \in 0 .. n : Fine(flushed[m], m)}
<1>8. 0 \in T
  <2>1. Fine(flushed[0], 0)
    BY <1>7
  <2> HIDE DEF Fine
  <2> QED
    BY <1>1, <2>1
<1>9. ASSUME NEW m \in 0 .. n - 1, m \in T PROVE m + 1 \in T
  <2> DEFINE h == cache[m + 1]
             fs == flushed[m]
             fs2 == flushed[m + 1]
  <2>1. /\ m + 1 \in 1 .. n /\ m + 1 \in 0 .. n /\ m \in Nat /\ m + 1 \in DOMAIN cache /\ m + 1 - 1 = m
        /\ \A i \in 1 .. m + 1 : i \in 1 .. m \/ i = m + 1
        /\ \A i \in 1 .. m : i \in 1 .. m + 1 /\ i # m + 1 /\ i \in DOMAIN cache
    BY <1>1
  <2>2. Fine(fs, m) /\ fs2 = Appended(fs, h)
    BY <1>7, <1>9, <2>1
  <2>3. h.linked => h.path \in DOMAIN files
    BY <2>1
  <2>4. \A i \in 1 .. m : Pours(cache[i]) /\ Pours(h) => cache[i].path # h.path
    BY <2>1
  <2>5. Fine(fs2, m + 1)
    <3> HIDE DEF fs, fs2, h
    <3>1. CASE ~Pours(h)
      <4>1. fs2 = fs
        BY <2>2, <3>1, AppendedFiles
      <4> QED
        BY <2>1, <2>2, <3>1, <4>1 DEF h
    <3>2. CASE Pours(h)
      <4>1. /\ DOMAIN fs2 = DOMAIN files /\ h.path \in DOMAIN files
            /\ fs2[h.path] = Flow(fs, h, now)
            /\ \A p \in DOMAIN files : p # h.path => fs2[p] = fs[p]
        BY <2>2, <2>3, <3>2, AppendedFiles DEF Pours
      <4>2. fs[h.path] = files[h.path]
        BY <2>2, <2>4, <3>2, <4>1
      <4>3. fs2[h.path] = Flow(files, h, now)
        BY <4>1, <4>2 DEF Flow
      <4>4. ASSUME NEW i \in 1 .. m, Pours(cache[i]) PROVE fs2[cache[i].path] = Flow(files, cache[i], now)
        <5>1. cache[i].path \in DOMAIN files /\ cache[i].path # h.path
          BY <2>1, <2>4, <3>2, <4>4 DEF Pours
        <5> QED
          BY <2>2, <4>1, <4>4, <5>1
      <4>5. ASSUME NEW p \in DOMAIN files, \A i \in 1 .. m + 1 : Pours(cache[i]) => cache[i].path # p
            PROVE fs2[p] = files[p]
        <5>1. p # h.path /\ \A i \in 1 .. m : Pours(cache[i]) => cache[i].path # p
          BY <2>1, <3>2, <4>5 DEF h
        <5> QED
          BY <2>2, <4>1, <5>1
      <4> QED
        BY <2>1, <4>1, <4>3, <4>4, <4>5 DEF h
    <3> QED
      BY <3>1, <3>2
  <2> HIDE DEF Fine
  <2> QED
    BY <2>1, <2>5
<1>10. Fine(flushed[n], n)
  <2>1. 0 .. n \subseteq T
    <3> HIDE DEF T
    <3> QED
      BY <1>1, <1>8, <1>9, UpTo
  <2> HIDE DEF Fine
  <2> QED
    BY <1>1, <2>1
<1> QED
  BY <1>6, <1>10

(***************************************************************************)
(* The steps of a writer that is alone.                                    *)
(***************************************************************************)
LEMMA HandlesAre ==
  ASSUME NEW ca, NEW wk
  PROVE  \A h : h \in HandlesOf(ca, wk) <=> (\E i \in DOMAIN ca : h = ca[i]) \/ (\E t \in Tasks : h = wk[t].handle)
BY DEF HandlesOf, ToSet

LEMMA HandlesNow == Handles = HandlesOf(cache, work)
BY DEF Handles, HandlesOf

LEMMA SameKey ==
  ASSUME NEW k \in KeySet, NEW l \in KeySet, k.session = l.session, k.day = l.day
  PROVE  k = l
<1>1. k = [session |-> k.session, day |-> k.day]
  BY DEF KeySet
<1>2. l = [session |-> l.session, day |-> l.day]
  BY DEF KeySet
<1> QED
  BY <1>1, <1>2

(* Two handles with something in their buffers write to different files: they
   have different keys, and are of the day of their keys. *)
LEMMA OneBuffer ==
  ASSUME NEW u \in Tasks, crew = {u}, LoneInv,
         NEW g \in HandlesOf(cache, work), NEW h \in HandlesOf(cache, work),
         g.buffer # << >>, h.key.day = h.path.day, g.path = h.path,
         h.buffer # << >> \/ h \in ToSet(cache)
  PROVE  g = h
<1>1. HandleOK(g, files, next, now) /\ HandleOK(h, files, next, now)
  BY DEF LoneInv, StoreOK
<1>2. g.key = h.key
  <2>1. g.key.day = h.key.day /\ g.key.session = h.key.session
    BY <1>1 DEF HandleOK
  <2>2. g.key \in KeySet /\ h.key \in KeySet
    BY <1>1 DEF HandleOK, HandleSet
  <2> QED
    BY <2>1, <2>2, SameKey
<1>3. ASSUME NEW t \in Tasks, work[t].handle.buffer # << >>
      PROVE  t = u /\ \A i \in DOMAIN cache : cache[i].key # work[t].handle.key
  <2>1. t = u
    BY <1>3, NothingHeld DEF LoneInv
  <2> QED
    BY <1>3, <2>1 DEF LoneInv, TaskOK, HasKey
<1>4. CASE \E i \in DOMAIN cache : g = cache[i]
  <2>1. PICK i \in DOMAIN cache : g = cache[i]
    BY <1>4
  <2>2. \E j \in DOMAIN cache : h = cache[j]
    BY <1>2, <1>3, <2>1, HandlesAre DEF ToSet
  <2> QED
    BY <1>2, <2>1, <2>2 DEF LoneInv, CacheOK
<1>5. CASE \E t \in Tasks : g = work[t].handle
  <2>1. g = work[u].handle /\ \A i \in DOMAIN cache : cache[i].key # g.key
    BY <1>3, <1>5
  <2>2. h \notin ToSet(cache)
    BY <1>2, <2>1 DEF ToSet
  <2>3. \E t \in Tasks : h = work[t].handle
    BY <2>2, HandlesAre DEF ToSet
  <2> QED
    BY <1>3, <2>1, <2>2, <2>3
<1> QED
  BY <1>4, <1>5, HandlesAre

LEMMA WorkFields ==
  ASSUME NEW w \in WorkSet, NEW h \in HandleSet
  PROVE  /\ [w EXCEPT !.handle = h] \in WorkSet
         /\ [w EXCEPT !.handle = h].session = w.session
         /\ [w EXCEPT !.handle = h].key = w.key
         /\ [w EXCEPT !.handle = h].handle = h
         /\ [w EXCEPT !.handle = h].ok = w.ok
BY DEF WorkSet

LEMMA FailFields ==
  ASSUME NEW w \in WorkSet
  PROVE  /\ [w EXCEPT !.ok = FALSE] \in WorkSet
         /\ [w EXCEPT !.ok = FALSE].session = w.session
         /\ [w EXCEPT !.ok = FALSE].key = w.key
         /\ [w EXCEPT !.ok = FALSE].handle = w.handle
         /\ [w EXCEPT !.ok = FALSE].ok = FALSE
BY DEF WorkSet

LEMMA NoHandleType == NoHandle \in HandleSet
BY Nothing DEF NoHandle, HandleSet, KeySet, PathSet, Path

LEMMA NoWorkType == NoWork \in WorkSet
<1>1. NoHandle.key \in KeySet
  BY NoHandleType DEF HandleSet
<1> QED
  BY <1>1, NoHandleType DEF NoWork, WorkSet

LEMMA StartFields ==
  ASSUME NEW s \in Sessions, NEW d \in Nat
  PROVE  LET w == [NoWork EXCEPT !.session = s, !.key = [session |-> s, day |-> d], !.since = d]
         IN  w \in WorkSet /\ w.session = s /\ w.key.session = s /\ w.key.day = d /\ w.handle = NoHandle
<1>1. [session |-> s, day |-> d] \in KeySet
  BY DEF KeySet
<1> QED
  BY <1>1, NoWorkType, NothingHeld DEF WorkSet

LEMMA IdleOK ==
  ASSUME NEW ca, NEW d
  PROVE  TaskOK("idle", NoWork, ca, d)
BY NoWorkType, NothingHeld DEF TaskOK

(* Only the task of the crew has anything to do. *)
LEMMA Actor ==
  ASSUME NEW u \in Tasks, crew = {u}, LoneInv, NEW t \in Tasks, StartWrite(t) \/ WriteStep(t) \/ Flush(t)
  PROVE  t = u
<1>1. CASE pc[t] # "idle"
  BY <1>1 DEF LoneInv
<1>2. CASE StartWrite(t) \/ Flush(t)
  BY <1>2 DEF StartWrite, Flush
<1>3. CASE WriteStep(t)
  BY <1>1, <1>3 DEF WriteStep, CheckCache, Claim, Listen, OpenFile, OpenFails, Push, FlushEvicted, Unmark,
                    Write, WriteFails, Goto
<1> QED
  BY <1>2, <1>3

(* A step that leaves files and numbers alone. *)
LEMMA QuietStep ==
  ASSUME NEW u \in Tasks, crew = {u}, LoneInv,
         UNCHANGED <<now, crew, files, next, acked, exempt>>,
         DOMAIN pc' = Tasks, DOMAIN work' = Tasks,
         \A t \in Tasks \ {u} : pc'[t] = pc[t] /\ work'[t] = work[t],
         TaskOK(pc'[u], work'[u], cache', now), CacheOK(cache'), SweepOK(sweep', files, now),
         \A h \in HandlesOf(cache', work') : h \in HandlesOf(cache, work) \/ h = NoHandle,
         \A h \in HandlesOf(cache, work) : h \in HandlesOf(cache', work') \/ h.buffer = << >>
  PROVE  LoneInv'
<1>1. StoreOK(files, HandlesOf(cache', work'), next, now)
  <2>1. HandleOK(NoHandle, files, next, now)
    BY NoHandleOK DEF LoneInv
  <2>2. StoreOK(files, HandlesOf(cache, work), next, now)
    BY DEF LoneInv
  <2> QED
    BY <2>1, <2>2 DEF StoreOK
<1>2. \A a \in acked \ exempt : Held(a, files, HandlesOf(cache', work'))
  BY HeldTheSame DEF LoneInv
<1> QED
  BY <1>1, <1>2 DEF LoneInv

(* The same of a step that moves only the task, and changes none of its
   handles. *)
LEMMA TaskStep ==
  ASSUME NEW u \in Tasks, crew = {u}, LoneInv,
         UNCHANGED <<now, crew, files, cache, sweep, next, acked, exempt>>,
         DOMAIN pc' = Tasks, DOMAIN work' = Tasks,
         \A t \in Tasks \ {u} : pc'[t] = pc[t] /\ work'[t] = work[t],
         TaskOK(pc'[u], work'[u], cache, now),
         work'[u].handle = work[u].handle \/ (work'[u].handle = NoHandle /\ work[u].handle.buffer = << >>)
  PROVE  LoneInv'
<1>1. \A h \in HandlesOf(cache', work') : h \in HandlesOf(cache, work) \/ h = NoHandle
  BY HandlesAre
<1>2. \A h \in HandlesOf(cache, work) : h \in HandlesOf(cache', work') \/ h.buffer = << >>
  BY HandlesAre
<1>3. CacheOK(cache') /\ SweepOK(sweep', files, now) /\ TaskOK(pc'[u], work'[u], cache', now)
  BY DEF LoneInv
<1> QED
  BY <1>1, <1>2, <1>3, QuietStep

LEMMA StartWriteStep ==
  ASSUME NEW u \in Tasks, crew = {u}, LoneInv, StartWrite(u)
  PROVE  LoneInv'
<1>1. PICK s \in Sessions : work' = [work EXCEPT ![u] = [NoWork EXCEPT !.session = s, !.key = Key(s), !.since = now]]
  BY DEF StartWrite
<1>2. pc[u] = "idle" /\ pc' = [pc EXCEPT ![u] = "check"] /\ UNCHANGED <<now, crew, files, cache, sweep, next, acked, exempt>>
  BY DEF StartWrite, Goto
<1>3. DOMAIN pc = Tasks /\ DOMAIN work = Tasks /\ now \in Nat /\ TaskOK(pc[u], work[u], cache, now)
  BY DEF LoneInv
<1>4. /\ work'[u] \in WorkSet /\ work'[u].session = s /\ work'[u].key.session = s /\ work'[u].key.day = now
      /\ work'[u].handle = NoHandle
  BY <1>1, <1>3, StartFields DEF Key
<1>5. /\ DOMAIN pc' = Tasks /\ DOMAIN work' = Tasks /\ pc'[u] = "check"
      /\ \A t \in Tasks \ {u} : pc'[t] = pc[t] /\ work'[t] = work[t]
  BY <1>1, <1>2, <1>3
<1>6. work[u].handle.buffer = << >>
  BY <1>2, <1>3 DEF TaskOK
<1>7. TaskOK(pc'[u], work'[u], cache, now)
  BY <1>3, <1>4, <1>5, NothingHeld DEF TaskOK
<1> QED
  BY <1>2, <1>4, <1>5, <1>6, <1>7, TaskStep

LEMMA MoveSteps ==
  ASSUME NEW u \in Tasks, crew = {u}, LoneInv, CheckCache(u) \/ Claim(u) \/ Listen(u)
  PROVE  LoneInv'
<1>1. /\ UNCHANGED <<now, crew, files, cache, sweep, next, acked, exempt, work>>
      /\ pc[u] \in {"check", "claim", "listen"}
      /\ \/ pc' = [pc EXCEPT ![u] = "write"] /\ HasKey(cache, work[u].key)
         \/ \E l \in {"claim", "listen", "open", "wait"} : pc' = [pc EXCEPT ![u] = l]
  BY DEF CheckCache, Claim, Listen, Goto, Cached, HasKey
<1>2. DOMAIN pc = Tasks /\ DOMAIN work = Tasks /\ TaskOK(pc[u], work[u], cache, now)
  BY DEF LoneInv
<1>3. /\ DOMAIN pc' = Tasks /\ \A t \in Tasks \ {u} : pc'[t] = pc[t] /\ work'[t] = work[t]
      /\ \/ pc'[u] = "write" /\ HasKey(cache, work[u].key)
         \/ pc'[u] \in {"claim", "listen", "open", "wait"}
  BY <1>1, <1>2
<1>4. TaskOK(pc'[u], work[u], cache, now)
  BY <1>1, <1>2, <1>3 DEF TaskOK
<1> QED
  BY <1>1, <1>2, <1>3, <1>4, TaskStep

LEMMA OpenFailsStep ==
  ASSUME NEW u \in Tasks, crew = {u}, LoneInv, OpenFails(u)
  PROVE  LoneInv'
<1>1. /\ UNCHANGED <<now, crew, files, cache, sweep, next, acked, exempt>>
      /\ pc[u] = "open" /\ pc' = [pc EXCEPT ![u] = "unmark"]
      /\ work' = [work EXCEPT ![u].ok = FALSE]
  BY DEF OpenFails, Goto
<1>2. DOMAIN pc = Tasks /\ DOMAIN work = Tasks /\ TaskOK(pc[u], work[u], cache, now) /\ work[u] \in WorkSet
  BY DEF LoneInv, TaskOK
<1>3. /\ DOMAIN pc' = Tasks /\ DOMAIN work' = Tasks /\ pc'[u] = "unmark" /\ work'[u] = [work[u] EXCEPT !.ok = FALSE]
      /\ \A t \in Tasks \ {u} : pc'[t] = pc[t] /\ work'[t] = work[t]
  BY <1>1, <1>2
<1>4. /\ work'[u] \in WorkSet /\ work'[u].session = work[u].session /\ work'[u].key = work[u].key
      /\ work'[u].handle = work[u].handle /\ work'[u].ok = FALSE
  BY <1>2, <1>3, FailFields
<1>5. TaskOK(pc'[u], work'[u], cache, now)
  BY <1>1, <1>2, <1>3, <1>4 DEF TaskOK
<1> QED
  BY <1>1, <1>3, <1>4, <1>5, TaskStep

LEMMA UnmarkStep ==
  ASSUME NEW u \in Tasks, crew = {u}, LoneInv, Unmark(u)
  PROVE  LoneInv'
<1>1. /\ UNCHANGED <<now, crew, files, cache, sweep, next, acked, exempt>>
      /\ pc[u] = "unmark"
      /\ work' = [work EXCEPT ![u] = IF work[u].ok THEN @ ELSE NoWork]
      /\ DOMAIN pc' = Tasks
      /\ pc'[u] = IF work[u].ok THEN "write" ELSE "idle"
      /\ \A t \in Tasks \ {u} : pc[t] = "idle" => pc'[t] = pc[t]
  BY DEF Unmark
<1>2. /\ DOMAIN work = Tasks /\ TaskOK(pc[u], work[u], cache, now) /\ work[u] \in WorkSet
      /\ \A t \in Tasks \ {u} : pc[t] = "idle"
  BY DEF LoneInv, TaskOK
<1>3. /\ DOMAIN work' = Tasks /\ work'[u] = IF work[u].ok THEN work[u] ELSE NoWork
      /\ \A t \in Tasks \ {u} : pc'[t] = pc[t] /\ work'[t] = work[t]
  BY <1>1, <1>2
<1>4. TaskOK(pc'[u], work'[u], cache, now)
  <2>1. CASE work[u].ok
    BY <1>1, <1>2, <1>3, <2>1 DEF TaskOK
  <2>2. CASE ~work[u].ok
    BY <1>1, <1>3, <2>2, IdleOK
  <2> QED
    BY <2>1, <2>2
<1>5. work[u].handle.buffer = << >>
  BY <1>1, <1>2 DEF TaskOK
<1> QED
  BY <1>1, <1>3, <1>4, <1>5, NothingHeld, TaskStep

(* Before the flush the handle of the task holds nothing. *)
LEMMA OpenFileStep ==
  ASSUME NEW u \in Tasks, crew = {u}, LoneInv, OpenFile(u)
  PROVE  LoneInv'
<1> DEFINE w == work[u]
           s == w.session
           p == Path(s, now)
           h == [key |-> w.key, path |-> p, buffer |-> << >>, linked |-> TRUE]
<1>1. /\ UNCHANGED <<now, crew, cache, sweep, next, acked, exempt>>
      /\ pc[u] = "open" /\ pc' = [pc EXCEPT ![u] = "push"]
      /\ work' = [work EXCEPT ![u].handle = h]
      /\ files' = IF p \in DOMAIN files THEN files ELSE Having(files, p, << >>)
  BY DEF OpenFile, Goto
<1>2. /\ DOMAIN pc = Tasks /\ DOMAIN work = Tasks /\ TaskOK(pc[u], w, cache, now) /\ w \in WorkSet
      /\ now \in Nat /\ StoreOK(files, HandlesOf(cache, work), next, now) /\ IsFiniteSet(DOMAIN files)
  BY DEF LoneInv, TaskOK
<1>3. s \in Sessions /\ w.key.session = s /\ w.key \in KeySet /\ w.key.day <= now /\ w.handle.buffer = << >>
  BY <1>1, <1>2 DEF TaskOK, WorkSet
<1>4. p \in PathSet /\ p.session = s /\ p.zst = FALSE /\ p.day = now
  BY <1>2, <1>3 DEF Path, PathSet
<1>5. /\ h \in HandleSet /\ h.key = w.key /\ h.path = p /\ h.buffer = << >> /\ h.linked = TRUE
  <2> HIDE DEF p
  <2> QED
    BY <1>3, <1>4, Nothing DEF HandleSet
<1> HIDE DEF h
<1>6. /\ DOMAIN pc' = Tasks /\ DOMAIN work' = Tasks /\ pc'[u] = "push" /\ work'[u] = [w EXCEPT !.handle = h]
      /\ \A t \in Tasks \ {u} : pc'[t] = pc[t] /\ work'[t] = work[t]
  BY <1>1, <1>2
<1>7. /\ work'[u] \in WorkSet /\ work'[u].session = s /\ work'[u].key = w.key
      /\ work'[u].handle = h /\ work'[u].ok = w.ok
  BY <1>2, <1>5, <1>6, WorkFields
<1>8. TaskOK(pc'[u], work'[u], cache, now)
  BY <1>3, <1>5, <1>6, <1>7 DEF TaskOK
<1>9. /\ p \in DOMAIN files' /\ IsFiniteSet(DOMAIN files')
      /\ \A q \in DOMAIN files : q \in DOMAIN files' /\ files'[q] = files[q]
      /\ StoreOK(files', HandlesOf(cache, work), next, now)
      /\ \A a : Held(a, files, HandlesOf(cache, work)) => Held(a, files', HandlesOf(cache, work))
  <2>1. CASE p \in DOMAIN files
    BY <1>1, <1>2, <2>1
  <2>2. CASE p \notin DOMAIN files
    <3>1. files' = [q \in DOMAIN files \cup {Path(s, now)} |->
                      IF q = Path(s, now) THEN [text |-> << >>, time |-> now] ELSE files[q]]
      BY <1>1, <2>2 DEF Having
    <3>2. /\ DOMAIN files' = DOMAIN files \cup {p}
          /\ \A q \in DOMAIN files : files'[q] = files[q]
          /\ StoreOK(files', HandlesOf(cache, work), next, now)
          /\ \A a : Held(a, files, HandlesOf(cache, work)) => Held(a, files', HandlesOf(cache, work))
      <4> HIDE DEF s
      <4> QED
        BY <1>2, <1>3, <2>2, <3>1, OpenedOK
    <3>3. IsFiniteSet(DOMAIN files')
      BY <1>2, <3>2, FS_AddElement
    <3> QED
      BY <3>2, <3>3
  <2> QED
    BY <2>1, <2>2
<1>10. \A g \in HandlesOf(cache, work') : g \in HandlesOf(cache, work) \/ g = h
  <2> SUFFICES ASSUME NEW g \in HandlesOf(cache, work') PROVE g \in HandlesOf(cache, work) \/ g = h
    OBVIOUS
  <2>1. (\E i \in DOMAIN cache : g = cache[i]) \/ (\E t \in Tasks : g = work'[t].handle)
    BY HandlesAre
  <2>2. \A t \in Tasks : work'[t].handle = h \/ work'[t] = work[t]
    BY <1>6, <1>7
  <2> HIDE DEF w
  <2> QED
    BY <2>1, <2>2, HandlesAre
<1>11. \A g \in HandlesOf(cache, work) : g \in HandlesOf(cache, work') \/ g.buffer = << >>
  BY <1>3, <1>6, HandlesAre
<1>12. HandleOK(h, files', next, now)
  BY <1>2, <1>3, <1>4, <1>5, <1>9 DEF HandleOK
<1>13. StoreOK(files', HandlesOf(cache, work'), next, now)
  BY <1>9, <1>10, <1>12 DEF StoreOK
<1>14. \A a \in acked \ exempt : Held(a, files', HandlesOf(cache, work'))
  BY <1>9, <1>11, HeldTheSame DEF LoneInv
<1>15. SweepOK(sweep, files', now)
  BY <1>9, SweepStays DEF LoneInv
<1> HIDE DEF w, s, p
<1> QED
  BY <1>1, <1>6, <1>8, <1>9, <1>13, <1>14, <1>15 DEF LoneInv

LEMMA HandlesIn ==
  ASSUME NEW ca, NEW wk
  PROVE  \A h : h \in HandlesOf(ca, wk) <=> h \in ToSet(ca) \/ (\E t \in Tasks : h = wk[t].handle)
BY DEF HandlesOf

LEMMA PushedCache ==
  ASSUME NEW ca, CacheOK(ca), NEW h \in HandleSet, h.key.session \in Sessions, ~HasKey(ca, h.key)
  PROVE  /\ CacheOK(<<h>> \o ca)
         /\ ToSet(<<h>> \o ca) = {h} \cup ToSet(ca)
         /\ \A k : HasKey(<<h>> \o ca, k) <=> k = h.key \/ HasKey(ca, k)
<1> DEFINE c == <<h>> \o ca
<1>1. /\ c \in Seq(HandleSet) /\ Len(ca) \in Nat /\ DOMAIN ca = 1 .. Len(ca) /\ DOMAIN c = 1 .. Len(ca) + 1
      /\ c[1] = h /\ \A i \in 1 .. Len(ca) : c[i + 1] = ca[i]
  <2>1. ca \in Seq(HandleSet) /\ <<h>> \in Seq(HandleSet) /\ Len(<<h>>) = 1 /\ <<h>>[1] = h
    BY DEF CacheOK
  <2> QED
    BY <2>1
<1> HIDE DEF c
<1>2. /\ 1 \in DOMAIN c /\ \A i \in DOMAIN ca : i + 1 \in DOMAIN c /\ c[i + 1] = ca[i]
      /\ \A i \in DOMAIN c : i = 1 \/ (i - 1 \in DOMAIN ca /\ c[i] = ca[i - 1])
  <2>1. \A i \in DOMAIN c : i = 1 \/ (i - 1 \in 1 .. Len(ca) /\ i - 1 + 1 = i)
    BY <1>1
  <2> QED
    BY <1>1, <2>1
<1>3. ToSet(c) = {h} \cup ToSet(ca)
  <2>1. \A x \in ToSet(c) : x = h \/ x \in ToSet(ca)
    BY <1>1, <1>2 DEF ToSet
  <2>2. h \in ToSet(c) /\ \A x \in ToSet(ca) : x \in ToSet(c)
    BY <1>1, <1>2 DEF ToSet
  <2> QED
    BY <2>1, <2>2
<1>4. \A k : HasKey(c, k) <=> k = h.key \/ HasKey(ca, k)
  BY <1>1, <1>2 DEF HasKey
<1>5. CacheOK(c)
  <2>1. \A i \in DOMAIN c : c[i].key.session \in Sessions
    BY <1>1, <1>2 DEF CacheOK
  <2>2. ASSUME NEW i \in DOMAIN c, NEW j \in DOMAIN c, c[i].key = c[j].key PROVE i = j
    <3>1. i \in Int /\ j \in Int
      BY <1>1
    <3>2. CASE i = 1 \/ j = 1
      BY <1>1, <1>2, <2>2, <3>2 DEF HasKey
    <3>3. CASE i # 1 /\ j # 1
      <4>1. i - 1 = j - 1
        BY <1>2, <2>2, <3>3 DEF CacheOK
      <4> QED
        BY <3>1, <4>1
    <3> QED
      BY <3>2, <3>3
  <2> QED
    BY <1>1, <2>1, <2>2 DEF CacheOK
<1> QED
  BY <1>3, <1>4, <1>5 DEF c

(* Part of a cache. *)
LEMMA PartOfCache ==
  ASSUME NEW ca, CacheOK(ca), NEW c \in Seq(HandleSet), NEW f \in [DOMAIN c -> DOMAIN ca], IsInjective(f),
         \A i \in DOMAIN c : c[i] = ca[f[i]]
  PROVE  CacheOK(c) /\ \A k : HasKey(c, k) => HasKey(ca, k)
BY DEF CacheOK, HasKey, IsInjective

LEMMA FrontCache ==
  ASSUME NEW ca, CacheOK(ca), ca # << >>
  PROVE  /\ CacheOK(Front(ca))
         /\ Last(ca) \in ToSet(ca) /\ ToSet(ca) = ToSet(Front(ca)) \cup {Last(ca)}
         /\ ~HasKey(Front(ca), Last(ca).key)
         /\ \A k : HasKey(Front(ca), k) => HasKey(ca, k)
<1> DEFINE c == Front(ca)
           n == Len(ca)
           f == [i \in DOMAIN c |-> i]
<1>1. /\ ca \in Seq(HandleSet) /\ n \in Nat /\ n >= 1 /\ DOMAIN ca = 1 .. n
      /\ c \in Seq(HandleSet) /\ DOMAIN c = 1 .. n - 1 /\ \A i \in 1 .. n - 1 : c[i] = ca[i]
      /\ Last(ca) = ca[n] /\ n \in DOMAIN ca
  BY DEF CacheOK, Front, Last
<1> HIDE DEF c, n
<1>2. f \in [DOMAIN c -> DOMAIN ca] /\ IsInjective(f) /\ \A i \in DOMAIN c : c[i] = ca[f[i]]
  BY <1>1 DEF IsInjective
<1> HIDE DEF f
<1>3. CacheOK(c) /\ \A k : HasKey(c, k) => HasKey(ca, k)
  BY <1>1, <1>2, PartOfCache
<1>4. ~HasKey(c, Last(ca).key)
  <2>1. ASSUME NEW i \in 1 .. n - 1 PROVE i \in DOMAIN ca /\ i # n
    BY <1>1
  <2> QED
    BY <1>1, <2>1 DEF HasKey, CacheOK
<1>5. ToSet(ca) = ToSet(c) \cup {Last(ca)} /\ Last(ca) \in ToSet(ca)
  <2>1. \A i \in DOMAIN ca : i \in DOMAIN c \/ i = n
    BY <1>1
  <2>2. \A i \in DOMAIN c : i \in DOMAIN ca
    BY <1>1
  <2> QED
    BY <1>1, <2>1, <2>2 DEF ToSet
<1> QED
  BY <1>3, <1>4, <1>5 DEF c

LEMMA RemovedCache ==
  ASSUME NEW ca, CacheOK(ca), NEW i \in DOMAIN ca
  PROVE  /\ CacheOK(RemoveAt(ca, i))
         /\ ToSet(RemoveAt(ca, i)) = ToSet(ca) \ {ca[i]}
         /\ ~HasKey(RemoveAt(ca, i), ca[i].key)
         /\ \A k : HasKey(RemoveAt(ca, i), k) <=> HasKey(ca, k) /\ k # ca[i].key
<1> DEFINE c == RemoveAt(ca, i)
           n == Len(ca)
           f == [j \in DOMAIN c |-> IF j < i THEN j ELSE j + 1]
<1>1. /\ ca \in Seq(HandleSet) /\ n \in Nat /\ DOMAIN ca = 1 .. n /\ i \in 1 .. n
  BY DEF CacheOK
<1>2. /\ c \in Seq(HandleSet) /\ DOMAIN c = 1 .. n - 1
      /\ \A j \in 1 .. n - 1 : c[j] = IF j < i THEN ca[j] ELSE ca[j + 1]
  <2> DEFINE a == SubSeq(ca, 1, i - 1)
             b == SubSeq(ca, i + 1, n)
  <2>1. /\ a \in Seq(HandleSet) /\ Len(a) = i - 1 /\ \A j \in 1 .. i - 1 : a[j] = ca[j]
    BY <1>1
  <2>2. /\ b \in Seq(HandleSet) /\ Len(b) = n - i /\ \A j \in 1 .. n - i : b[j] = ca[i + j]
    BY <1>1
  <2>3. c = a \o b
    BY DEF RemoveAt
  <2> HIDE DEF a, b, c, n
  <2>4. c \in Seq(HandleSet) /\ Len(c) = n - 1 /\ DOMAIN c = 1 .. n - 1
    BY <1>1, <2>1, <2>2, <2>3
  <2>5. ASSUME NEW j \in 1 .. n - 1 PROVE c[j] = IF j < i THEN ca[j] ELSE ca[j + 1]
    <3>1. CASE j < i
      BY <1>1, <2>1, <2>2, <2>3, <3>1
    <3>2. CASE ~(j < i)
      <4>1. j - (i - 1) \in 1 .. n - i /\ i + (j - (i - 1)) = j + 1
        BY <1>1, <3>2
      <4>2. c[j] = b[j - (i - 1)]
        <5>1. Len(a) = i - 1 /\ Len(b) = n - i /\ j \in Len(a) + 1 .. Len(a) + Len(b)
          BY <1>1, <2>1, <2>2, <3>2
        <5>2. c[j] = b[j - Len(a)]
          BY <2>1, <2>2, <2>3, <5>1
        <5> QED
          BY <5>1, <5>2
      <4> QED
        BY <2>2, <3>2, <4>1, <4>2
    <3> QED
      BY <3>1, <3>2
  <2> QED
    BY <2>4, <2>5
<1> HIDE DEF c, n
<1>3. f \in [DOMAIN c -> DOMAIN ca] /\ IsInjective(f) /\ \A j \in DOMAIN c : c[j] = ca[f[j]] /\ f[j] # i
  <2>1. f \in [DOMAIN c -> DOMAIN ca]
    BY <1>1, <1>2
  <2>2. IsInjective(f)
    BY <1>1, <1>2 DEF IsInjective
  <2> QED
    BY <1>1, <1>2, <2>1, <2>2
<1>4. \A j \in DOMAIN ca : j # i => \E l \in DOMAIN c : f[l] = j
  <2> SUFFICES ASSUME NEW j \in DOMAIN ca, j # i PROVE \E l \in DOMAIN c : f[l] = j
    OBVIOUS
  <2>1. CASE j < i
    <3>1. j \in DOMAIN c /\ f[j] = j
      BY <1>1, <1>2, <2>1
    <3> QED
      BY <3>1
  <2>2. CASE j > i
    <3>1. j - 1 \in DOMAIN c /\ f[j - 1] = j
      BY <1>1, <1>2, <2>2
    <3> QED
      BY <3>1
  <2> QED
    BY <1>1, <2>1, <2>2
<1> HIDE DEF f
<1>5. CacheOK(c)
  <2>1. \A j \in DOMAIN c : c[j] = ca[f[j]]
    BY <1>3
  <2>2. c \in Seq(HandleSet) /\ f \in [DOMAIN c -> DOMAIN ca] /\ IsInjective(f)
    BY <1>2, <1>3
  <2> QED
    BY <2>1, <2>2, PartOfCache
<1>6. /\ \A l \in DOMAIN c : f[l] \in DOMAIN ca /\ c[l] = ca[f[l]] /\ f[l] # i
      /\ \A j, l \in DOMAIN ca : ca[j].key = ca[l].key => j = l
  BY <1>3 DEF CacheOK
<1>7. ToSet(c) = ToSet(ca) \ {ca[i]}
  <2>1. \A l \in DOMAIN c : ca[f[l]] # ca[i]
    BY <1>6
  <2> QED
    BY <1>4, <1>6, <2>1 DEF ToSet
<1>8. \A k : HasKey(c, k) <=> HasKey(ca, k) /\ k # ca[i].key
  BY <1>4, <1>6 DEF HasKey
<1> QED
  BY <1>5, <1>7, <1>8 DEF c

LEMMA PushStep ==
  ASSUME NEW u \in Tasks, crew = {u}, LoneInv, Push(u)
  PROVE  LoneInv'
<1> DEFINE w == work[u]
           h == w.handle
           fits == Len(cache) < CacheSize
<1>1. /\ DOMAIN pc = Tasks /\ DOMAIN work = Tasks /\ TaskOK(pc[u], w, cache, now) /\ w \in WorkSet
      /\ CacheOK(cache) /\ cache \in Seq(HandleSet) /\ SweepOK(sweep, files, now)
      /\ HandleOK(NoHandle, files, next, now)
  BY NoHandleOK DEF LoneInv, TaskOK, CacheOK
<1>2. UNCHANGED <<now, crew, files, sweep, next, acked, exempt>> /\ pc[u] = "push"
  BY DEF Push
<1>3. /\ w.session \in Sessions /\ w.key.session = w.session /\ w.key.day <= now /\ w.key \in KeySet
      /\ h.key = w.key /\ h.buffer = << >> /\ h \in HandleSet
  BY <1>1, <1>2 DEF TaskOK, WorkSet
<1>4. CASE HasKey(cache, h.key)
  <2>1. /\ pc' = [pc EXCEPT ![u] = "unmark"] /\ cache' = cache
        /\ work' = [work EXCEPT ![u].handle = NoHandle]
    BY <1>4 DEF Push, Cached, HasKey
  <2>2. /\ DOMAIN pc' = Tasks /\ DOMAIN work' = Tasks /\ pc'[u] = "unmark" /\ work'[u] = [w EXCEPT !.handle = NoHandle]
        /\ \A t \in Tasks \ {u} : pc'[t] = pc[t] /\ work'[t] = work[t]
    BY <1>1, <2>1
  <2>3. /\ work'[u] \in WorkSet /\ work'[u].session = w.session /\ work'[u].key = w.key
        /\ work'[u].handle = NoHandle /\ work'[u].ok = w.ok
    BY <1>1, <2>2, NoHandleType, WorkFields
  <2>4. TaskOK(pc'[u], work'[u], cache, now)
    BY <1>3, <1>4, <2>2, <2>3, NothingHeld DEF TaskOK
  <2> QED
    BY <1>2, <1>3, <2>1, <2>2, <2>3, <2>4, TaskStep
<1>5. CASE ~HasKey(cache, h.key)
  <2> DEFINE out == IF fits THEN NoHandle ELSE Last(cache)
             rest == IF fits THEN cache ELSE Front(cache)
             l == IF fits THEN "unmark" ELSE "evict"
  <2>1. /\ pc' = [pc EXCEPT ![u] = l] /\ cache' = <<h>> \o rest
        /\ work' = [work EXCEPT ![u].handle = out]
    BY <1>5 DEF Push, Cached, HasKey
  <2>2. /\ CacheOK(rest) /\ ~HasKey(rest, h.key)
        /\ out \in HandleSet /\ (out.buffer # << >> => l = "evict" /\ ~HasKey(rest, out.key) /\ out.key # h.key)
        /\ ToSet(cache) \subseteq ToSet(rest) \cup {out}
        /\ ToSet(rest) \subseteq ToSet(cache)
        /\ out \in ToSet(cache) \/ out = NoHandle
    <3>1. CASE fits
      BY <1>1, <1>5, <3>1, NoHandleType, NothingHeld
    <3>2. CASE ~fits
      <4>1. cache # << >>
        <5>1. CacheSize \in Nat \ {0}
          BY ConfigAssumption
        <5> QED
          BY <1>1, <3>2, <5>1
      <4>2. /\ CacheOK(Front(cache)) /\ Last(cache) \in ToSet(cache)
            /\ ToSet(cache) = ToSet(Front(cache)) \cup {Last(cache)}
            /\ ~HasKey(Front(cache), Last(cache).key)
            /\ \A k : HasKey(Front(cache), k) => HasKey(cache, k)
        BY <1>1, <4>1, FrontCache
      <4>3. HasKey(cache, Last(cache).key) /\ Last(cache) \in HandleSet
        BY <1>1, <4>2 DEF HasKey, ToSet
      <4> QED
        BY <1>5, <3>2, <4>2, <4>3
    <3> QED
      BY <3>1, <3>2
  <2> HIDE DEF rest, out
  <2>3. /\ DOMAIN pc' = Tasks /\ DOMAIN work' = Tasks /\ pc'[u] = l /\ work'[u] = [w EXCEPT !.handle = out]
        /\ \A t \in Tasks \ {u} : pc'[t] = pc[t] /\ work'[t] = work[t]
    BY <1>1, <2>1
  <2>4. /\ work'[u] \in WorkSet /\ work'[u].session = w.session /\ work'[u].key = w.key
        /\ work'[u].handle = out /\ work'[u].ok = w.ok
    BY <1>1, <2>2, <2>3, WorkFields
  <2>5. /\ CacheOK(cache') /\ ToSet(cache') = {h} \cup ToSet(rest)
        /\ \A k : HasKey(cache', k) <=> k = h.key \/ HasKey(rest, k)
    <3> HIDE DEF h
    <3>1. h.key.session \in Sessions
      BY <1>3
    <3> QED
      BY <1>3, <2>1, <2>2, <3>1, PushedCache
  <2>6. TaskOK(pc'[u], work'[u], cache', now)
    BY <1>3, <2>2, <2>3, <2>4, <2>5 DEF TaskOK
  <2>7. \A g \in HandlesOf(cache', work') : g \in HandlesOf(cache, work) \/ g = NoHandle
    <3>1. \A t \in Tasks : work'[t].handle = out \/ work'[t] = work[t]
      BY <2>3, <2>4
    <3>2. \E t \in Tasks : h = work[t].handle
      OBVIOUS
    <3> HIDE DEF h
    <3> QED
      BY <2>2, <2>5, <3>1, <3>2, HandlesIn
  <2>8. \A g \in HandlesOf(cache, work) : g \in HandlesOf(cache', work') \/ g.buffer = << >>
    <3> SUFFICES ASSUME NEW g \in HandlesOf(cache, work) PROVE g \in HandlesOf(cache', work') \/ g.buffer = << >>
      OBVIOUS
    <3>1. CASE g \in ToSet(cache)
      BY <2>2, <2>4, <2>5, <3>1, HandlesIn
    <3>2. ASSUME NEW t \in Tasks, g = work[t].handle PROVE g \in HandlesOf(cache', work') \/ g.buffer = << >>
      <4>1. CASE t = u
        BY <1>3, <3>2, <4>1
      <4>2. CASE t # u
        <5>1. g = work'[t].handle
          BY <2>3, <3>2, <4>2
        <5> QED
          BY <5>1, HandlesIn
      <4> QED
        BY <4>1, <4>2
    <3> QED
      BY <3>1, <3>2, HandlesIn
  <2> QED
    BY <1>1, <1>2, <2>3, <2>5, <2>6, <2>7, <2>8, QuietStep
<1> QED
  BY <1>4, <1>5

(* Appending one buffer. *)
LEMMA PourOne ==
  ASSUME NEW hs, NEW h \in hs, StoreOK(files, hs, next, now), now \in Nat
  PROVE  /\ Grown(files, Appended(files, h), hs, now)
         /\ \A p \in DOMAIN files : p # h.path \/ h.buffer = << >> => Appended(files, h)[p] = files[p]
         /\ h.linked => /\ h.path \in DOMAIN files /\ h.path.zst = FALSE
                        /\ ToSet(h.buffer) \subseteq ToSet(Appended(files, h)[h.path].text)
<1> DEFINE fs == Appended(files, h)
<1>1. HandleOK(h, files, next, now)
  BY DEF StoreOK
<1>2. CASE ~Pours(h)
  <2>1. fs = files
    BY <1>2, AppendedFiles
  <2>2. h.linked => ToSet(h.buffer) = {}
    BY <1>2, Nothing DEF Pours
  <2> QED
    BY <1>1, <2>1, <2>2 DEF Grown, HandleOK
<1>3. CASE Pours(h)
  <2>1. h.linked /\ h.buffer # << >> /\ h.path \in DOMAIN files /\ h.path.zst = FALSE
    BY <1>1, <1>3 DEF HandleOK, Pours
  <2>2. /\ DOMAIN fs = DOMAIN files
        /\ fs[h.path] = [text |-> files[h.path].text \o h.buffer, time |-> now]
        /\ \A p \in DOMAIN files : p # h.path => fs[p] = files[p]
    BY <1>3, <2>1, AppendedFiles DEF Flow
  <2> HIDE DEF fs
  <2>3. fs[h.path].text = files[h.path].text \o h.buffer
    <3> DEFINE x == files[h.path].text \o h.buffer
    <3>1. fs[h.path] = [text |-> x, time |-> now]
      BY <2>2
    <3> HIDE DEF x
    <3>2. fs[h.path].text = x
      BY <3>1
    <3> QED
      BY <3>2 DEF x
  <2>4. Grown(files, fs, hs, now)
    BY <2>1, <2>2 DEF Grown
  <2>5. files[h.path].text \in Seq(Nat) /\ h.buffer \in Seq(Nat)
    BY <1>1, <2>1 DEF StoreOK, FileOK, FileSet, HandleOK, HandleSet
  <2>6. ToSet(h.buffer) \subseteq ToSet(fs[h.path].text)
    BY <2>3, <2>5, Joined
  <2> QED
    BY <2>1, <2>2, <2>4, <2>6 DEF fs
<1> QED
  BY <1>2, <1>3

(* Handles that hold nothing, or whose file has not changed. *)
LEMMA GrownStore ==
  ASSUME NEW fs, NEW fs2, NEW hs, NEW hs2, NEW nx, NEW d \in Nat, StoreOK(fs, hs, nx, d), Grown(fs, fs2, hs, d),
         \A g \in hs2 : \/ g \in hs /\ (g.buffer # << >> /\ g.linked => fs2[g.path].text = fs[g.path].text)
                        \/ HandleOK(g, fs, nx, d) /\ g.buffer = << >>
  PROVE  StoreOK(fs2, hs2, nx, d)
<1>1. DOMAIN fs2 = DOMAIN fs
  BY DEF Grown
<1>2. ASSUME NEW g \in hs2 PROVE HandleOK(g, fs2, nx, d)
  <2>1. HandleOK(g, fs, nx, d) /\ (g.linked => g.path \in DOMAIN fs)
    BY DEF StoreOK, HandleOK
  <2> QED
    BY <1>1, <2>1, HandleStays
<1> QED
  BY <1>2, GrownOK DEF StoreOK

LEMMA FlushEvictedStep ==
  ASSUME NEW u \in Tasks, crew = {u}, LoneInv, FlushEvicted(u)
  PROVE  LoneInv'
<1> DEFINE w == work[u]
           h == w.handle
           hs == HandlesOf(cache, work)
           hs2 == HandlesOf(cache', work')
<1>1. /\ DOMAIN pc = Tasks /\ DOMAIN work = Tasks /\ TaskOK(pc[u], w, cache, now) /\ w \in WorkSet
      /\ now \in Nat /\ StoreOK(files, hs, next, now) /\ HandleOK(NoHandle, files, next, now)
  BY NoHandleOK DEF LoneInv, TaskOK
<1>2. /\ UNCHANGED <<now, crew, cache, pending, sweep, next, acked>>
      /\ pc[u] = "evict" /\ pc' = [pc EXCEPT ![u] = "unmark"]
      /\ work' = [work EXCEPT ![u].handle = NoHandle]
      /\ \/ files' = Appended(files, h) /\ exempt \subseteq exempt'
         \/ files' = files /\ exempt' = exempt \cup Of(h.path, h.buffer)
  BY DEF FlushEvicted, Goto
<1>3. /\ DOMAIN pc' = Tasks /\ DOMAIN work' = Tasks /\ pc'[u] = "unmark" /\ work'[u] = [w EXCEPT !.handle = NoHandle]
      /\ \A t \in Tasks \ {u} : pc'[t] = pc[t] /\ work'[t] = work[t]
  BY <1>1, <1>2
<1>4. /\ work'[u] \in WorkSet /\ work'[u].session = w.session /\ work'[u].key = w.key
      /\ work'[u].handle = NoHandle /\ work'[u].ok = w.ok
  BY <1>1, <1>3, NoHandleType, WorkFields
<1>5. TaskOK(pc'[u], work'[u], cache, now)
  BY <1>1, <1>2, <1>3, <1>4, NothingHeld DEF TaskOK
<1>6. h \in hs
  BY HandlesIn
<1> HIDE DEF h
<1>7. \A g \in hs2 : g = NoHandle \/ (g \in hs /\ (g.buffer # << >> /\ h.buffer # << >> => g.path # h.path))
  <2>1. \A t \in Tasks : work'[t].handle = NoHandle \/ (work'[t] = work[t] /\ work[t].handle = NoHandle)
    BY <1>3, <1>4, NothingHeld DEF LoneInv
  <2>2. ASSUME NEW g \in ToSet(cache), g.buffer # << >>, h.buffer # << >> PROVE g.path # h.path
    <3>1. ~HasKey(cache, h.key)
      BY <1>1, <2>2 DEF TaskOK, h
    <3>2. h.key.day = h.path.day
      BY <1>1, <1>6, <2>2 DEF StoreOK, HandleOK
    <3>3. g \in hs
      BY HandlesIn
    <3>4. g # h
      BY <3>1 DEF HasKey, ToSet
    <3> QED
      BY <1>6, <2>2, <3>2, <3>3, <3>4, OneBuffer
  <2> SUFFICES ASSUME NEW g \in hs2, g # NoHandle
               PROVE  g \in hs /\ (g.buffer # << >> /\ h.buffer # << >> => g.path # h.path)
    OBVIOUS
  <2>3. CASE g \in ToSet(cache)
    BY <2>2, <2>3, HandlesIn
  <2>4. CASE g \notin ToSet(cache)
    <3>1. cache' = cache /\ (g \in ToSet(cache') \/ \E t \in Tasks : g = work'[t].handle)
      <4>1. cache' = cache
        BY <1>2
      <4>2. g \in HandlesOf(cache', work')
        OBVIOUS
      <4> HIDE DEF hs2
      <4> QED
        BY <4>1, <4>2, HandlesIn
    <3>2. \E t \in Tasks : g = work'[t].handle
      BY <2>4, <3>1
    <3>3. PICK t \in Tasks : g = work'[t].handle /\ work'[t] = work[t]
      BY <2>1, <3>2
    <3> QED
      BY <2>1, <3>3, HandlesIn, NothingHeld
  <2> QED
    BY <2>3, <2>4
<1>8. \A g \in hs : g \in hs2 \/ g = h
  <2>1. \A t \in Tasks : work[t].handle = h \/ work'[t] = work[t]
    BY <1>3 DEF h
  <2> SUFFICES ASSUME NEW g \in hs, g # h PROVE g \in hs2
    OBVIOUS
  <2>2. CASE g \in ToSet(cache)
    BY <1>2, <2>2, HandlesIn
  <2>3. CASE g \notin ToSet(cache)
    <3>1. \E t \in Tasks : g = work'[t].handle
      BY <2>1, <2>3, HandlesIn
    <3> QED
      BY <3>1, HandlesIn
  <2> QED
    BY <2>2, <2>3
<1>9. IsFiniteSet(DOMAIN files) /\ SweepOK(sweep, files, now) /\ acked \subseteq Sessions \X Nat
  BY DEF LoneInv
<1> HIDE DEF hs, hs2
<1>10. CASE files' = Appended(files, h) /\ exempt \subseteq exempt'
  <2>1. /\ Grown(files, files', hs, now)
        /\ \A p \in DOMAIN files : p # h.path \/ h.buffer = << >> => files'[p] = files[p]
        /\ h.linked => /\ h.path \in DOMAIN files /\ h.path.zst = FALSE
                       /\ ToSet(h.buffer) \subseteq ToSet(files'[h.path].text)
    BY <1>1, <1>6, <1>10, PourOne
  <2>2. /\ \A p \in DOMAIN files : p \in DOMAIN files' /\ ToSet(files[p].text) \subseteq ToSet(files'[p].text)
        /\ \A p \in DOMAIN files : p.day + 1 < now => files'[p] = files[p]
        /\ DOMAIN files' = DOMAIN files
    <3>1. DOMAIN files' = DOMAIN files
      BY <2>1 DEF Grown
    <3> QED
      BY <1>1, <2>1, <3>1, GrownOK
  <2>3. ASSUME NEW g \in hs2 PROVE \/ g \in hs /\ (g.buffer # << >> /\ g.linked => files'[g.path].text = files[g.path].text)
                                   \/ HandleOK(g, files, next, now) /\ g.buffer = << >>
    <3>1. CASE g = NoHandle
      BY <1>1, <3>1, NothingHeld
    <3>2. CASE g # NoHandle
      <4>1. g \in hs /\ (g.buffer # << >> /\ h.buffer # << >> => g.path # h.path)
        BY <1>7, <3>2
      <4>2. g.linked => g.path \in DOMAIN files
        BY <1>1, <4>1 DEF StoreOK, HandleOK
      <4> QED
        BY <2>1, <4>1, <4>2
    <3> QED
      BY <3>1, <3>2
  <2>4. StoreOK(files', hs2, next, now)
    BY <1>1, <2>1, <2>3, GrownStore
  <2>5. \A g \in hs : g.linked /\ g.buffer # << >> =>
           \/ \E k \in hs2 : k.linked /\ k.path = g.path /\ ToSet(g.buffer) \subseteq ToSet(k.buffer)
           \/ g.path \in DOMAIN files' /\ g.path.zst = FALSE /\ ToSet(g.buffer) \subseteq ToSet(files'[g.path].text)
    BY <1>8, <2>1, <2>2
  <2>6. ASSUME NEW a \in acked \ exempt' PROVE Held(a, files', hs2)
    <3>1. Held(a, files, hs)
      BY <1>10 DEF LoneInv, hs
    <3> QED
      BY <2>2, <2>5, <3>1, HeldStays
  <2>7. SweepOK(sweep, files', now)
    BY <1>9, <2>2, SweepStays
  <2> QED
    BY <1>2, <1>3, <1>5, <1>9, <2>2, <2>4, <2>6, <2>7 DEF LoneInv, hs2
<1>11. CASE files' = files /\ exempt' = exempt \cup Of(h.path, h.buffer)
  <2>1. StoreOK(files, hs2, next, now)
    BY <1>1, <1>7 DEF StoreOK
  <2>2. ASSUME NEW a \in acked \ exempt' PROVE Held(a, files, hs2)
    <3>1. Held(a, files, hs) /\ a \notin Of(h.path, h.buffer) /\ a = <<a[1], a[2]>>
      BY <1>9, <1>11 DEF LoneInv, hs
    <3>2. ~(h.path.session = a[1] /\ a[2] \in ToSet(h.buffer))
      BY <3>1 DEF Of
    <3> QED
      BY <1>8, <3>1, <3>2 DEF Held
  <2> QED
    BY <1>2, <1>3, <1>5, <1>9, <1>11, <2>1, <2>2 DEF LoneInv, hs2
<1> QED
  BY <1>2, <1>10, <1>11

(* One event more in the buffer, or the buffer in the file and the event in
   the empty buffer. *)
Buffers(hs, h, s, e, nx) ==
  LET h2 == Buffered(h, e).handle
      fs == Buffered(h, e).files
  IN  /\ h2 \in HandleSet /\ h2.key = h.key /\ h2.path = h.path /\ h2.linked = h.linked
      /\ h2.path.session = s /\ e \in ToSet(h2.buffer)
      /\ HandleOK(h2, fs, nx, now)
      /\ Grown(files, fs, hs, now)
      /\ \A p \in DOMAIN files : p # h.path \/ h.buffer = << >> => fs[p] = files[p]
      /\ h.linked => \/ ToSet(h.buffer) \subseteq ToSet(h2.buffer)
                     \/ /\ h.path \in DOMAIN fs /\ h.path.zst = FALSE
                        /\ ToSet(h.buffer) \subseteq ToSet(fs[h.path].text)

LEMMA BufferedOK ==
  ASSUME NEW hs, NEW h \in hs, StoreOK(files, hs, next, now), now \in Nat, next \in [Sessions -> Nat],
         NEW s \in Sessions, h.key = Key(s), NEW e, e = next[s],
         NEW nx, nx = [next EXCEPT ![s] = @ + 1]
  PROVE  Buffers(hs, h, s, e, nx)
<1> DEFINE h2 == Buffered(h, e).handle
           fs == Buffered(h, e).files
           b == h.buffer
<1>1. HandleOK(h, files, next, now) /\ h \in HandleSet /\ b \in Seq(Nat) /\ e \in Nat
  BY DEF StoreOK, HandleOK, HandleSet
<1>2. h.path.session = s /\ h.key.day = now /\ h.path.day = now /\ h.path.zst = FALSE
  <2>1. h.key.session = s /\ h.key.day = now
    BY DEF Key
  <2>2. h.path.day \in Nat
    BY <1>1 DEF HandleSet, PathSet
  <2> QED
    BY <1>1, <2>1, <2>2 DEF HandleOK
<1>3. nx[s] = e + 1 /\ nx \in [Sessions -> Nat]
  OBVIOUS
<1>4. ASSUME h.linked PROVE h.path \in DOMAIN files /\ Below(files[h.path].text, e)
  BY <1>1, <1>2, <1>4 DEF HandleOK, StoreOK, FileOK
<1>5. CASE Len(b) < BufferSize
  <2>1. h2 = [h EXCEPT !.buffer = Append(b, e)] /\ fs = files
    BY <1>5 DEF Buffered
  <2>2. /\ Append(b, e) \in Seq(Nat) /\ Append(b, e) # << >>
        /\ ToSet(Append(b, e)) = ToSet(b) \cup {e}
        /\ Increasing(b) /\ Below(b, e) => Increasing(Append(b, e))
        /\ Below(b, e + 1) => Below(Append(b, e), e + 1)
        /\ \A r : (\A j \in DOMAIN b : Below(r, b[j])) /\ Below(r, e)
                    => \A j \in DOMAIN Append(b, e) : Below(r, Append(b, e)[j])
    BY <1>1, OneMore
  <2>3. /\ h2 \in HandleSet /\ h2.key = h.key /\ h2.path = h.path /\ h2.linked = h.linked
        /\ h2.buffer = Append(b, e)
    BY <1>1, <2>1, <2>2 DEF HandleSet
  <2>4. Increasing(b) /\ Below(b, e) /\ (h.linked => \A j \in DOMAIN b : Below(files[h.path].text, b[j]))
    <3>1. CASE b = << >>
      BY <3>1, Nothing
    <3>2. CASE b # << >>
      BY <1>1, <1>2, <3>2 DEF HandleOK
    <3> QED
      BY <3>1, <3>2
  <2>5. Below(b, e + 1)
    BY <1>1, <2>4, BelowMore
  <2>6. HandleOK(h2, files, nx, now)
    <3> HIDE DEF h2, b, fs, Buffers
    <3>1. h2.linked => \A j \in DOMAIN h2.buffer : Below(files[h2.path].text, h2.buffer[j])
      BY <1>4, <2>2, <2>3, <2>4
    <3>2. /\ h2.path.session = h2.key.session /\ h2.path.zst = FALSE
          /\ h2.key.day = now /\ h2.path.day = now
          /\ h2.linked => h2.path \in DOMAIN files
      BY <1>1, <1>2, <1>4, <2>3 DEF HandleOK
    <3>3. Increasing(h2.buffer) /\ Below(h2.buffer, nx[h2.path.session])
      BY <1>2, <1>3, <2>2, <2>3, <2>4, <2>5
    <3> QED
      BY <1>2, <2>3, <3>1, <3>2, <3>3 DEF HandleOK
  <2>7. Grown(files, files, hs, now)
    BY DEF Grown
  <2> HIDE DEF h2, b, fs, Buffers
  <2> QED
    BY <1>2, <2>1, <2>2, <2>3, <2>6, <2>7 DEF h2, b, fs, Buffers
<1>6. CASE ~(Len(b) < BufferSize)
  <2>1. h2 = [h EXCEPT !.buffer = <<e>>] /\ fs = Appended(files, h)
    BY <1>6 DEF Buffered
  <2>2. /\ <<e>> \in Seq(Nat) /\ ToSet(<<e>>) = {e} /\ Increasing(<<e>>) /\ <<e>> # << >>
        /\ DOMAIN <<e>> = {1} /\ <<e>>[1] = e /\ Below(<<e>>, e + 1)
    BY <1>1, Alone1
  <2>3. /\ h2 \in HandleSet /\ h2.key = h.key /\ h2.path = h.path /\ h2.linked = h.linked
        /\ h2.buffer = <<e>>
    BY <1>1, <2>1, <2>2 DEF HandleSet
  <2> HIDE DEF h2, fs, b
  <2>4. /\ Grown(files, fs, hs, now)
        /\ \A p \in DOMAIN files : p # h.path \/ h.buffer = << >> => fs[p] = files[p]
        /\ h.linked => /\ h.path \in DOMAIN files /\ h.path.zst = FALSE
                       /\ ToSet(h.buffer) \subseteq ToSet(fs[h.path].text)
    BY <2>1, PourOne
  <2>5. DOMAIN fs = DOMAIN files /\ \A p \in DOMAIN fs : FileOK(p, fs[p], next, now)
    <3>1. DOMAIN fs = DOMAIN files
      BY <2>4 DEF Grown
    <3> QED
      BY <2>4, <3>1, GrownOK
  <2>6. HandleOK(h2, fs, nx, now)
    <3>1. h2.linked => h2.path \in DOMAIN fs /\ Below(fs[h2.path].text, e)
      BY <1>2, <2>3, <2>4, <2>5 DEF FileOK
    <3>2. h2.linked => \A j \in DOMAIN h2.buffer : Below(fs[h2.path].text, h2.buffer[j])
      BY <2>2, <2>3, <3>1
    <3>3. /\ h2.path.session = h2.key.session /\ h2.path.zst = FALSE
          /\ h2.key.day = now /\ h2.path.day = now
      BY <1>1, <1>2, <2>3 DEF HandleOK
    <3>4. Increasing(h2.buffer) /\ Below(h2.buffer, nx[h2.path.session])
      BY <1>2, <1>3, <2>2, <2>3
    <3> QED
      BY <1>2, <2>3, <3>1, <3>2, <3>3, <3>4 DEF HandleOK
  <2> QED
    BY <1>2, <2>2, <2>3, <2>4, <2>5, <2>6 DEF h2, fs, b, Buffers
<1> QED
  BY <1>5, <1>6

LEMMA WriteStepOK ==
  ASSUME NEW u \in Tasks, crew = {u}, LoneInv, Write(u)
  PROVE  LoneInv'
<1> DEFINE w == work[u]
           s == w.session
           e == next[s]
           k == Key(s)
           hs == HandlesOf(cache, work)
           hs2 == HandlesOf(cache', work')
           nx == [next EXCEPT ![s] = @ + 1]
<1>1. /\ DOMAIN pc = Tasks /\ DOMAIN work = Tasks /\ TaskOK(pc[u], w, cache, now) /\ w \in WorkSet
      /\ now \in Nat /\ next \in [Sessions -> Nat] /\ StoreOK(files, hs, next, now)
      /\ HandleOK(NoHandle, files, next, now)
      /\ IsFiniteSet(DOMAIN files) /\ CacheOK(cache) /\ SweepOK(sweep, files, now) /\ acked \subseteq Sessions \X Nat
      /\ \A a \in acked \ exempt : Held(a, files, hs)
  BY NoHandleOK DEF LoneInv, TaskOK
<1>2. /\ UNCHANGED <<now, crew, pending, sweep, faults>>
      /\ pc[u] = "write" /\ pc' = [pc EXCEPT ![u] = "idle"]
      /\ work' = [work EXCEPT ![u] = NoWork]
      /\ next' = nx /\ acked' = acked \cup {<<s, e>>}
  BY DEF Write, Goto
<1>3. /\ DOMAIN pc' = Tasks /\ DOMAIN work' = Tasks /\ pc'[u] = "idle" /\ work'[u] = NoWork
      /\ \A t \in Tasks \ {u} : pc'[t] = pc[t] /\ work'[t] = work[t]
  BY <1>1, <1>2
<1>4. s \in Sessions /\ HasKey(cache, w.key) /\ w.handle.buffer = << >>
  BY <1>1, <1>2 DEF TaskOK
<1>5. /\ nx \in [Sessions -> Nat] /\ e \in Nat /\ \A r \in Sessions : next[r] <= nx[r]
  BY <1>1, <1>4
<1>6. StoreOK(files, hs, nx, now)
  <2> HIDE DEF hs, nx
  <2> QED
    BY <1>1, <1>5, NumberingOK
<1>7. HandleOK(NoHandle, files, nx, now) /\ acked' \subseteq Sessions \X Nat
  <2>1. HandleOK(NoHandle, files, nx, now)
    BY <1>1, NoHandleOK
  <2>2. <<s, e>> \in Sessions \X Nat
    BY <1>4, <1>5
  <2> QED
    BY <1>1, <1>2, <2>1, <2>2
<1>8. TaskOK(pc'[u], work'[u], cache', now)
  BY <1>3, IdleOK
<1>9. \A t \in Tasks : work'[t].handle = NoHandle /\ work[t].handle.buffer = << >>
  BY <1>3, <1>4, NothingHeld DEF LoneInv
<1>10. CASE ~HasKey(cache, k)
  <2>1. cache' = cache /\ files' = files /\ exempt' = exempt \cup {<<s, e>>}
    <3>1. k # w.key
      BY <1>4, <1>10
    <3> QED
      BY <1>10, <3>1 DEF Write, Cached, HasKey
  <2>2. \A g \in hs2 : g \in hs \/ g = NoHandle
    BY <1>9, <2>1, HandlesIn
  <2>3. \A g \in hs : g \in hs2 \/ g.buffer = << >>
    <3> SUFFICES ASSUME NEW g \in hs, g.buffer # << >> PROVE g \in hs2
      OBVIOUS
    <3>1. g \in ToSet(cache)
      BY <1>9, HandlesIn
    <3> QED
      BY <2>1, <3>1, HandlesIn
  <2> HIDE DEF hs, hs2, nx
  <2>4. StoreOK(files, hs2, nx, now)
    BY <1>6, <1>7, <2>2 DEF StoreOK
  <2>5. \A a \in acked' \ exempt' : Held(a, files, hs2)
    BY <1>1, <1>2, <2>1, <2>3, HeldTheSame
  <2> QED
    BY <1>1, <1>2, <1>3, <1>5, <1>7, <1>8, <2>1, <2>4, <2>5 DEF LoneInv, hs2
<1>11. CASE HasKey(cache, k)
  <2> DEFINE i == Position(k)
             h == cache[i]
             h2 == Buffered(h, e).handle
             fs == Buffered(h, e).files
             rest == RemoveAt(cache, i)
  <2>1. i \in DOMAIN cache /\ h.key = k
    BY <1>11 DEF HasKey, Position
  <2>2. /\ cache' = <<h2>> \o rest /\ files' = fs
        /\ exempt' = exempt \cup (IF h.linked THEN {} ELSE {<<s, e>>})
    <3>1. Cached(Key(s))
      BY <1>11 DEF Cached, HasKey
    <3> QED
      BY <3>1 DEF Write
  <2>3. h \in hs /\ h \in ToSet(cache) /\ h.key.session = s /\ h.key.day = now
    BY <2>1, HandlesIn DEF ToSet, Key
  <2> HIDE DEF i, h, hs, hs2, nx
  <2>4. /\ h2 \in HandleSet /\ h2.key = h.key /\ h2.path = h.path /\ h2.linked = h.linked
        /\ h2.path.session = s /\ e \in ToSet(h2.buffer)
        /\ HandleOK(h2, fs, nx, now)
        /\ Grown(files, fs, hs, now)
        /\ \A p \in DOMAIN files : p # h.path \/ h.buffer = << >> => fs[p] = files[p]
        /\ h.linked => \/ ToSet(h.buffer) \subseteq ToSet(h2.buffer)
                       \/ /\ h.path \in DOMAIN fs /\ h.path.zst = FALSE
                          /\ ToSet(h.buffer) \subseteq ToSet(fs[h.path].text)
    <3>1. /\ h \in hs /\ StoreOK(files, hs, next, now) /\ now \in Nat /\ next \in [Sessions -> Nat]
          /\ s \in Sessions /\ h.key = Key(s) /\ e = next[s] /\ nx = [next EXCEPT ![s] = @ + 1]
      BY <1>1, <1>4, <2>1, <2>3 DEF nx
    <3>2. Buffers(hs, h, s, e, nx)
      <4> HIDE DEF s, e, k, w
      <4> QED
        BY <3>1, BufferedOK
    <3> QED
      BY <3>2 DEF Buffers
  <2> HIDE DEF h2, fs
  <2>5. CacheOK(rest) /\ ToSet(rest) = ToSet(cache) \ {h} /\ ~HasKey(rest, h.key)
    BY <1>1, <2>1, RemovedCache DEF h
  <2> HIDE DEF rest
  <2>6. CacheOK(cache') /\ ToSet(cache') = {h2} \cup (ToSet(cache) \ {h})
    <3>1. h2.key.session \in Sessions /\ ~HasKey(rest, h2.key)
      BY <1>4, <2>3, <2>4, <2>5
    <3>2. CacheOK(<<h2>> \o rest) /\ ToSet(<<h2>> \o rest) = {h2} \cup ToSet(rest)
      BY <2>4, <2>5, <3>1, PushedCache
    <3> QED
      BY <2>2, <2>5, <3>2
  <2>7. \A g \in hs2 : g = NoHandle \/ g = h2 \/ (g \in hs /\ g \in ToSet(cache) /\ g # h)
    <3> SUFFICES ASSUME NEW g \in hs2, g # NoHandle, g # h2 PROVE g \in hs /\ g \in ToSet(cache) /\ g # h
      OBVIOUS
    <3>1. g \in ToSet(cache')
      BY <1>9, HandlesIn DEF hs2
    <3>2. g \in ToSet(cache) /\ g # h
      BY <2>6, <3>1
    <3> QED
      BY <3>2, HandlesIn DEF hs
  <2>8. \A g \in hs : g.buffer # << >> => g = h \/ g \in hs2
    <3> SUFFICES ASSUME NEW g \in hs, g.buffer # << >>, g # h PROVE g \in hs2
      OBVIOUS
    <3>1. g \in ToSet(cache)
      BY <1>9, HandlesIn DEF hs
    <3>2. g \in ToSet(cache')
      BY <2>6, <3>1
    <3> QED
      BY <3>2, HandlesIn DEF hs2
  <2>9. h2 \in hs2
    <3>1. h2 \in ToSet(cache')
      BY <2>6
    <3> QED
      BY <3>1, HandlesIn DEF hs2
  <2>10. h.key.day = h.path.day
    <3>1. HandleOK(h, files, next, now) /\ h.path.day \in Nat
      BY <1>1, <2>3 DEF StoreOK, HandleOK, HandleSet, PathSet
    <3> QED
      BY <1>1, <2>3, <3>1 DEF HandleOK
  <2>11. ASSUME NEW g \in hs, g # h, g.buffer # << >> PROVE g.path # h.path
    <3>1. g \in HandlesOf(cache, work) /\ h \in HandlesOf(cache, work)
      BY <2>3 DEF hs
    <3> QED
      BY <2>3, <2>10, <2>11, <3>1, OneBuffer
  <2>12. /\ \A p \in DOMAIN files : p \in DOMAIN fs /\ ToSet(files[p].text) \subseteq ToSet(fs[p].text)
         /\ \A p \in DOMAIN files : p.day + 1 < now => fs[p] = files[p]
         /\ DOMAIN fs = DOMAIN files
         /\ \A p \in DOMAIN fs : FileOK(p, fs[p], nx, now)
    <3>1. DOMAIN fs = DOMAIN files
      BY <2>4 DEF Grown
    <3>2. now \in Nat /\ StoreOK(files, hs, nx, now) /\ Grown(files, fs, hs, now)
      BY <1>1, <1>6, <2>4
    <3> HIDE DEF hs, nx
    <3>3. /\ \A p \in DOMAIN fs : FileOK(p, fs[p], nx, now)
          /\ \A p \in DOMAIN files : p \in DOMAIN fs /\ ToSet(files[p].text) \subseteq ToSet(fs[p].text)
          /\ \A p \in DOMAIN files : p.day + 1 < now => fs[p] = files[p]
      BY <3>2, GrownOK
    <3> QED
      BY <3>1, <3>3
  <2>13. ASSUME NEW g \in hs2 PROVE HandleOK(g, fs, nx, now)
    <3>1. CASE g = NoHandle
      BY <1>1, <3>1, NoHandleOK
    <3>2. CASE g = h2
      BY <2>4, <3>2
    <3>3. CASE g \in hs /\ g # h
      <4>1. HandleOK(g, files, nx, now)
        BY <1>6, <3>3 DEF StoreOK
      <4>2. (g.linked => g.path \in DOMAIN files) /\ (g.linked /\ g.buffer # << >> => fs[g.path] = files[g.path])
        BY <2>4, <2>11, <3>3, <4>1 DEF HandleOK
      <4> QED
        BY <2>12, <4>1, <4>2, HandleStays
    <3> QED
      BY <2>7, <3>1, <3>2, <3>3
  <2>14. StoreOK(fs, hs2, nx, now)
    BY <2>12, <2>13 DEF StoreOK
  <2>15. \A g \in hs : g.linked /\ g.buffer # << >> =>
           \/ \E g2 \in hs2 : g2.linked /\ g2.path = g.path /\ ToSet(g.buffer) \subseteq ToSet(g2.buffer)
           \/ g.path \in DOMAIN fs /\ g.path.zst = FALSE /\ ToSet(g.buffer) \subseteq ToSet(fs[g.path].text)
    <3> SUFFICES ASSUME NEW g \in hs, g.linked, g.buffer # << >>
                 PROVE  \/ \E g2 \in hs2 : g2.linked /\ g2.path = g.path /\ ToSet(g.buffer) \subseteq ToSet(g2.buffer)
                        \/ g.path \in DOMAIN fs /\ g.path.zst = FALSE /\ ToSet(g.buffer) \subseteq ToSet(fs[g.path].text)
      OBVIOUS
    <3>1. CASE g = h
      BY <2>4, <2>9, <3>1
    <3>2. CASE g # h
      BY <2>8, <3>2
    <3> QED
      BY <3>1, <3>2
  <2>16. ASSUME NEW a \in acked' \ exempt' PROVE Held(a, fs, hs2)
    <3>1. CASE a \in acked \ exempt
      <4>1. Held(a, files, hs)
        BY <1>1, <3>1
      <4> QED
        BY <2>12, <2>15, <4>1, HeldStays
    <3>2. CASE a = <<s, e>>
      <4>1. h.linked
        BY <2>2, <2>16, <3>2
      <4>2. a[1] = s /\ a[2] = e
        BY <3>2
      <4> QED
        BY <2>4, <2>9, <4>1, <4>2 DEF Held
    <3> QED
      BY <1>2, <2>2, <2>16, <3>1, <3>2
  <2>17. SweepOK(sweep, fs, now)
    BY <1>1, <2>12, SweepStays
  <2> QED
    BY <1>1, <1>2, <1>3, <1>5, <1>7, <1>8, <2>2, <2>6, <2>12, <2>14, <2>16, <2>17 DEF LoneInv, hs2
<1> QED
  BY <1>10, <1>11

LEMMA WriteFailsStep ==
  ASSUME NEW u \in Tasks, crew = {u}, LoneInv, WriteFails(u)
  PROVE  LoneInv'
<1> DEFINE w == work[u]
           s == w.session
           hs == HandlesOf(cache, work)
           hs2 == HandlesOf(cache', work')
           nx == [next EXCEPT ![s] = @ + 1]
<1>1. /\ DOMAIN pc = Tasks /\ DOMAIN work = Tasks /\ TaskOK(pc[u], w, cache, now) /\ w \in WorkSet
      /\ now \in Nat /\ next \in [Sessions -> Nat] /\ StoreOK(files, hs, next, now)
      /\ CacheOK(cache) /\ SweepOK(sweep, files, now)
      /\ \A a \in acked \ exempt : Held(a, files, hs)
  BY DEF LoneInv, TaskOK
<1>2. /\ UNCHANGED <<now, crew, cache, pending, files, sweep, acked, exempt>>
      /\ pc[u] = "write" /\ pc' = [pc EXCEPT ![u] = "idle"]
      /\ work' = [work EXCEPT ![u] = NoWork]
      /\ next' = nx
  BY DEF WriteFails, Goto
<1>3. /\ DOMAIN pc' = Tasks /\ DOMAIN work' = Tasks /\ pc'[u] = "idle" /\ work'[u] = NoWork
      /\ \A t \in Tasks \ {u} : pc'[t] = pc[t] /\ work'[t] = work[t]
  BY <1>1, <1>2
<1>4. s \in Sessions /\ w.handle.buffer = << >>
  BY <1>1, <1>2 DEF TaskOK
<1>5. /\ nx \in [Sessions -> Nat] /\ \A r \in Sessions : next[r] <= nx[r]
  BY <1>1, <1>4
<1>6. StoreOK(files, hs, nx, now)
  <2> HIDE DEF hs, nx
  <2> QED
    BY <1>1, <1>5, NumberingOK
<1>7. HandleOK(NoHandle, files, nx, now)
  BY <1>1, NoHandleOK
<1>8. TaskOK(pc'[u], work'[u], cache', now)
  BY <1>3, IdleOK
<1>9. \A t \in Tasks : work'[t].handle = NoHandle /\ work[t].handle.buffer = << >>
  BY <1>3, <1>4, NothingHeld DEF LoneInv
<1>10. \A g \in hs2 : g \in hs \/ g = NoHandle
  <2> SUFFICES ASSUME NEW g \in hs2, g # NoHandle PROVE g \in hs
    OBVIOUS
  <2>1. g \in ToSet(cache')
    BY <1>9, HandlesIn
  <2>2. cache' = cache
    BY <1>2
  <2> QED
    BY <2>1, <2>2, HandlesIn
<1>11. \A g \in hs : g \in hs2 \/ g.buffer = << >>
  <2> SUFFICES ASSUME NEW g \in hs, g.buffer # << >> PROVE g \in hs2
    OBVIOUS
  <2>1. g \in ToSet(cache)
    BY <1>9, HandlesIn
  <2>2. cache' = cache
    BY <1>2
  <2> QED
    BY <2>1, <2>2, HandlesIn
<1> HIDE DEF hs, hs2, nx
<1>12. StoreOK(files, hs2, nx, now)
  BY <1>6, <1>7, <1>10 DEF StoreOK
<1>13. \A a \in acked \ exempt : Held(a, files, hs2)
  BY <1>1, <1>11, HeldTheSame
<1> QED
  BY <1>1, <1>2, <1>3, <1>5, <1>8, <1>12, <1>13 DEF LoneInv, hs2

LEMMA FlushStepOK ==
  ASSUME NEW u \in Tasks, crew = {u}, LoneInv, Flush(u)
  PROVE  LoneInv'
<1> DEFINE hs == HandlesOf(cache, work)
           hs2 == HandlesOf(cache', work')
<1>1. PICK n \in 0 .. Len(cache) :
        /\ cache' = [i \in DOMAIN cache |-> IF i <= n THEN Emptied(cache[i]) ELSE cache[i]]
        /\ files' = Flushed(n)
        /\ exempt \subseteq exempt'
  BY DEF Flush
<1>2. pc[u] = "idle" /\ UNCHANGED <<now, crew, pc, work, pending, sweep, next, acked>>
  BY DEF Flush
<1>3. /\ now \in Nat /\ StoreOK(files, hs, next, now) /\ HandleOK(NoHandle, files, next, now)
      /\ CacheOK(cache) /\ cache \in Seq(HandleSet) /\ SweepOK(sweep, files, now)
      /\ TaskOK(pc[u], work[u], cache, now)
      /\ \A a \in acked \ exempt : Held(a, files, hs)
  BY NoHandleOK DEF LoneInv, CacheOK
<1>4. DOMAIN cache = 1 .. Len(cache) /\ Len(cache) \in Nat /\ n \in Nat /\ \A i \in 1 .. n : i \in DOMAIN cache /\ i <= n
  BY <1>3
<1>5. \A t \in Tasks : work[t].handle.buffer = << >>
  <2>1. work[u].handle.buffer = << >>
    BY <1>2, <1>3 DEF TaskOK
  <2> QED
    BY <2>1, NothingHeld DEF LoneInv
<1>6. \A i \in DOMAIN cache : cache[i] \in hs /\ cache[i] \in ToSet(cache) /\ HandleOK(cache[i], files, next, now)
  <2>1. \A i \in DOMAIN cache : cache[i] \in hs /\ cache[i] \in ToSet(cache)
    BY HandlesIn DEF ToSet
  <2> QED
    BY <1>3, <2>1 DEF StoreOK
<1>7. \A i, j \in DOMAIN cache :
         cache[i].buffer # << >> /\ cache[j].buffer # << >> /\ cache[i].path = cache[j].path => i = j
  <2> SUFFICES ASSUME NEW i \in DOMAIN cache, NEW j \in DOMAIN cache,
                      cache[i].buffer # << >>, cache[j].buffer # << >>, cache[i].path = cache[j].path
               PROVE  i = j
    OBVIOUS
  <2>1. cache[j].key.day = cache[j].path.day
    BY <1>6 DEF HandleOK
  <2>2. cache[i] = cache[j]
    BY <1>6, <2>1, OneBuffer
  <2> QED
    BY <1>3, <2>2 DEF CacheOK
<1>8. /\ DOMAIN files' = DOMAIN files
      /\ \A p \in DOMAIN files : (\A i \in 1 .. n : Pours(cache[i]) => cache[i].path # p) => files'[p] = files[p]
      /\ \A i \in 1 .. n : Pours(cache[i]) => files'[cache[i].path] = Flow(files, cache[i], now)
  <2>1. \A i \in DOMAIN cache : cache[i].linked => cache[i].path \in DOMAIN files
    BY <1>6 DEF HandleOK
  <2>2. \A i, j \in DOMAIN cache : Pours(cache[i]) /\ Pours(cache[j]) /\ cache[i].path = cache[j].path => i = j
    BY <1>7 DEF Pours
  <2> QED
    BY <1>1, <1>3, <2>1, <2>2, FlushedFiles
<1> HIDE DEF hs, hs2
<1>9. Grown(files, files', hs, now)
  <2> SUFFICES ASSUME NEW p \in DOMAIN files
               PROVE \/ files'[p] = files[p]
                     \/ \E h \in hs : /\ h.linked /\ h.buffer # << >> /\ h.path = p
                                      /\ files'[p] = [text |-> files[p].text \o h.buffer, time |-> now]
    BY <1>8 DEF Grown
  <2>1. CASE \A i \in 1 .. n : Pours(cache[i]) => cache[i].path # p
    BY <1>8, <2>1
  <2>2. ASSUME NEW i \in 1 .. n, Pours(cache[i]), cache[i].path = p
        PROVE \E h \in hs : /\ h.linked /\ h.buffer # << >> /\ h.path = p
                            /\ files'[p] = [text |-> files[p].text \o h.buffer, time |-> now]
    BY <1>4, <1>6, <1>8, <2>2 DEF Pours, Flow
  <2> QED
    BY <2>1, <2>2
<1>10. /\ \A p \in DOMAIN files : p \in DOMAIN files' /\ ToSet(files[p].text) \subseteq ToSet(files'[p].text)
       /\ \A p \in DOMAIN files : p.day + 1 < now => files'[p] = files[p]
  <2>1. now \in Nat /\ StoreOK(files, hs, next, now)
    BY <1>3
  <2> QED
    BY <1>9, <2>1, GrownOK
<1>11. /\ DOMAIN cache' = DOMAIN cache
       /\ \A i \in DOMAIN cache : cache'[i] = IF i <= n THEN Emptied(cache[i]) ELSE cache[i]
       /\ \A i \in DOMAIN cache : cache'[i] \in HandleSet /\ cache'[i].key = cache[i].key
  <2>1. /\ DOMAIN cache' = DOMAIN cache
        /\ \A i \in DOMAIN cache : cache'[i] = IF i <= n THEN Emptied(cache[i]) ELSE cache[i]
    BY <1>1
  <2>2. \A i \in DOMAIN cache : Emptied(cache[i]) \in HandleSet /\ Emptied(cache[i]).key = cache[i].key
    BY <1>6, EmptiedOK
  <2>3. \A i \in DOMAIN cache : cache[i] \in HandleSet
    BY <1>3
  <2> QED
    BY <2>1, <2>2, <2>3
<1>12. CacheOK(cache') /\ \A k : HasKey(cache', k) <=> HasKey(cache, k)
  <2>1. cache' \in Seq(HandleSet)
    <3>1. cache' = [i \in 1 .. Len(cache) |-> cache'[i]]
      BY <1>1, <1>4
    <3>2. \A i \in 1 .. Len(cache) : cache'[i] \in HandleSet
      BY <1>4, <1>11
    <3>3. [i \in 1 .. Len(cache) |-> cache'[i]] \in Seq(HandleSet)
      BY <1>4, <3>2
    <3> QED
      BY <3>1, <3>3
  <2> QED
    BY <1>3, <1>11, <2>1 DEF CacheOK, HasKey
<1>13. ASSUME NEW g \in hs2
       PROVE \/ g \in hs /\ (g.buffer # << >> /\ g.linked => files'[g.path].text = files[g.path].text)
             \/ HandleOK(g, files, next, now) /\ g.buffer = << >>
  <2>1. CASE g \in ToSet(cache')
    <3>1. PICK i \in DOMAIN cache : g = cache'[i]
      BY <1>11, <2>1 DEF ToSet
    <3>2. CASE i <= n
      <4>1. g = Emptied(cache[i]) /\ HandleOK(cache[i], files, next, now)
        BY <1>6, <1>11, <3>1, <3>2
      <4>2. HandleOK(Emptied(cache[i]), files, next, now) /\ Emptied(cache[i]).buffer = << >>
        BY <4>1, EmptiedOK
      <4> QED
        BY <4>1, <4>2
    <3>3. CASE ~(i <= n)
      <4>1. g = cache[i] /\ g \in hs
        BY <1>6, <1>11, <3>1, <3>3
      <4>2. ASSUME g.buffer # << >>, g.linked PROVE files'[g.path] = files[g.path]
        <5>1. g.path \in DOMAIN files
          BY <1>6, <4>1, <4>2 DEF HandleOK
        <5>2. ASSUME NEW j \in 1 .. n, Pours(cache[j]) PROVE cache[j].path # g.path
          <6>1. j \in DOMAIN cache /\ j # i
            BY <1>4, <3>3
          <6> QED
            BY <1>7, <4>1, <4>2, <5>2, <6>1 DEF Pours
        <5> QED
          BY <1>8, <5>1, <5>2
      <4> QED
        BY <4>1, <4>2
    <3> QED
      BY <3>2, <3>3
  <2>2. CASE \E t \in Tasks : g = work[t].handle
    <3>1. g \in hs /\ g.buffer = << >>
      BY <1>5, <2>2, HandlesIn DEF hs
    <3> QED
      BY <3>1
  <2>3. g \in ToSet(cache') \/ \E t \in Tasks : g = work[t].handle
    <3>1. work' = work
      BY <1>2
    <3> QED
      BY <3>1, HandlesIn DEF hs2
  <2> QED
    BY <2>1, <2>2, <2>3
<1>14. StoreOK(files', hs2, next, now)
  BY <1>3, <1>9, <1>13, GrownStore
<1>15. \A g \in hs : g.linked /\ g.buffer # << >> =>
         \/ \E k \in hs2 : k.linked /\ k.path = g.path /\ ToSet(g.buffer) \subseteq ToSet(k.buffer)
         \/ g.path \in DOMAIN files' /\ g.path.zst = FALSE /\ ToSet(g.buffer) \subseteq ToSet(files'[g.path].text)
  <2> SUFFICES ASSUME NEW g \in hs, g.linked, g.buffer # << >>
               PROVE \/ g \in hs2
                     \/ g.path \in DOMAIN files' /\ g.path.zst = FALSE /\ ToSet(g.buffer) \subseteq ToSet(files'[g.path].text)
    OBVIOUS
  <2>1. PICK i \in DOMAIN cache : g = cache[i]
    BY <1>5, HandlesAre DEF hs
  <2>2. CASE i <= n
    <3>1. i \in 1 .. n /\ Pours(g)
      BY <1>4, <2>2 DEF Pours
    <3>2. g.path \in DOMAIN files /\ g.path.zst = FALSE /\ g.buffer \in Seq(Nat) /\ files[g.path].text \in Seq(Nat)
      BY <1>3, <1>6, <2>1 DEF HandleOK, HandleSet, StoreOK, FileOK, FileSet
    <3> DEFINE x == files[g.path].text
               y == x \o g.buffer
    <3>3. files'[g.path] = [text |-> y, time |-> now]
      BY <1>8, <2>1, <3>1 DEF Flow
    <3> HIDE DEF x
    <3>4. ToSet(g.buffer) \subseteq ToSet(y)
      BY <3>2, Joined DEF x
    <3> HIDE DEF y
    <3> QED
      BY <1>8, <3>2, <3>3, <3>4
  <2>3. CASE ~(i <= n)
    <3>1. g \in ToSet(cache')
      BY <1>11, <2>1, <2>3 DEF ToSet
    <3> QED
      BY <3>1, HandlesIn DEF hs2
  <2> QED
    BY <2>2, <2>3
<1>16. ASSUME NEW a \in acked \ exempt' PROVE Held(a, files', hs2)
  <2>1. Held(a, files, hs)
    BY <1>1, <1>3
  <2>2. \A p \in DOMAIN files : p.zst /\ Path(p.session, p.day) \notin DOMAIN files => Path(p.session, p.day) \notin DOMAIN files'
    BY <1>8
  <2> QED
    BY <1>10, <1>15, <2>1, <2>2, HeldStays
<1>17. SweepOK(sweep, files', now)
  BY <1>3, <1>10, SweepStays
<1>18. TaskOK(pc[u], work[u], cache', now)
  BY <1>3, <1>12 DEF TaskOK
<1> QED
  BY <1>2, <1>8, <1>12, <1>14, <1>16, <1>17, <1>18 DEF LoneInv, hs2

(***************************************************************************)
(* The sweep.                                                              *)
(***************************************************************************)
LEMMA SweepQuiet ==
  ASSUME LoneInv, SweepOnly, SweepOK(sweep', files, now)
  PROVE  LoneInv'
BY DEF LoneInv, SweepOnly

(* A plain file that is older than CompressAfter is of a day before yesterday. *)
LEMMA OldFiles ==
  ASSUME LoneInv, NEW p \in {p \in Older(CompressAfter) : ~p.zst}
  PROVE  p.zst = FALSE /\ p.day \in Nat /\ p.day + 1 < now
<1>1. p \in DOMAIN files /\ now - files[p].time > CompressAfter /\ ~p.zst
  BY DEF Older, Age
<1>2. /\ p.day \in Nat /\ p.zst \in BOOLEAN /\ files[p].time \in Nat /\ p.day <= files[p].time /\ now \in Nat
  BY <1>1 DEF LoneInv, StoreOK, FileOK, PathSet, FileSet
<1>3. CompressAfter \in Nat /\ CompressAfter # 0
  BY ConfigAssumption DEF ValidPolicy
<1> QED
  BY <1>1, <1>2, <1>3

LEMMA StartSweepStep ==
  ASSUME LoneInv, StartSweep
  PROVE  LoneInv'
<1>1. PICK l \in Listings :
        sweep' = [sweep EXCEPT !.pc = "delete", !.list = l, !.count = @ + 1, !.todo = Among(l, Older(MaxAge)),
                               !.old = {p \in Older(CompressAfter) : ~p.zst}]
  BY DEF StartSweep
<1>2. DOMAIN sweep = SweepFields /\ IsFiniteSet(DOMAIN files)
  BY DEF LoneInv, SweepOK
<1>3. DOMAIN files \subseteq PathSet
  BY DEF LoneInv, StoreOK, FileOK
<1>4. l \in Seq(PathSet) /\ IsInjective(l)
  <2>1. Cardinality(DOMAIN files) \in Nat
    BY <1>2, FS_CardinalityType
  <2>2. /\ l \in [1 .. Cardinality(DOMAIN files) -> DOMAIN files]
        /\ \A i, j \in 1 .. Cardinality(DOMAIN files) : i # j => l[i] # l[j]
    BY DEF Listings, SetToSeqs
  <2> QED
    BY <1>3, <2>1, <2>2 DEF IsInjective
<1>5. /\ DOMAIN sweep' = SweepFields
      /\ sweep'.pc = "delete" /\ sweep'.list = l /\ sweep'.old = {p \in Older(CompressAfter) : ~p.zst}
  BY <1>1, <1>2 DEF SweepFields
<1>6. SweepOK(sweep', files, now)
  BY <1>4, <1>5, OldFiles DEF SweepOK
<1>7. SweepOnly
  BY DEF StartSweep
<1> QED
  BY <1>6, <1>7, SweepQuiet

LEMMA StartCompressingStep ==
  ASSUME LoneInv, StartCompressing
  PROVE  LoneInv'
<1> DEFINE S == sweep.old \cap DOMAIN files
<1>1. /\ sweep.pc = "delete" /\ SweepOnly
      /\ sweep' = [sweep EXCEPT !.pc = "compress", !.list = Among(@, DOMAIN files), !.todo = Among(sweep.list, S),
                                !.old = {}]
  BY DEF StartCompressing
<1>2. /\ DOMAIN sweep = SweepFields
      /\ sweep.list \in Seq(PathSet) /\ IsInjective(sweep.list)
      /\ \A p \in S : p \in DOMAIN files /\ p.zst = FALSE /\ p.day + 1 < now
  BY <1>1 DEF LoneInv, SweepOK
<1>3. /\ DOMAIN sweep' = SweepFields
      /\ sweep'.pc = "compress" /\ sweep'.todo = Among(sweep.list, S)
  BY <1>1, <1>2 DEF SweepFields
<1> HIDE DEF S
<1>4. /\ sweep'.todo \in Seq(PathSet) /\ IsInjective(sweep'.todo)
      /\ \A i \in DOMAIN sweep'.todo : sweep'.todo[i] \in S
  BY <1>2, <1>3, AmongIsSelection
<1>5. SweepOK(sweep', files, now)
  BY <1>2, <1>3, <1>4 DEF SweepOK
<1> QED
  BY <1>1, <1>5, SweepQuiet

LEMMA ReadPlainStep ==
  ASSUME LoneInv, ReadPlain
  PROVE  LoneInv'
<1>1. /\ sweep.pc = "compress" /\ sweep.todo # << >> /\ SweepOnly
      /\ sweep' = [sweep EXCEPT !.pc = "pack", !.text = Text(Head(sweep.todo))]
  BY DEF ReadPlain
<1>2. /\ DOMAIN sweep = SweepFields
      /\ sweep.todo \in Seq(PathSet) /\ IsInjective(sweep.todo)
      /\ \A i \in DOMAIN sweep.todo :
           sweep.todo[i] \in DOMAIN files /\ sweep.todo[i].zst = FALSE /\ sweep.todo[i].day + 1 < now
  BY <1>1 DEF LoneInv, SweepOK
<1>3. /\ DOMAIN sweep' = SweepFields
      /\ sweep'.pc = "pack" /\ sweep'.todo = sweep.todo /\ sweep'.text = Text(Head(sweep.todo))
  BY <1>1, <1>2 DEF SweepFields
<1>4. Head(sweep.todo) = sweep.todo[1] /\ 1 \in DOMAIN sweep.todo
  BY <1>1, <1>2, FromTheFront
<1>5. Text(Head(sweep.todo)) = files[sweep.todo[1]].text
  BY <1>2, <1>4 DEF Text
<1>6. SweepOK(sweep', files, now)
  BY <1>1, <1>2, <1>3, <1>5 DEF SweepOK
<1> QED
  BY <1>1, <1>6, SweepQuiet

LEMMA RestingOK ==
  ASSUME NEW fs, NEW d, NEW c
  PROVE  SweepOK([Asleep EXCEPT !.count = c], fs, d)
<1>1. /\ DOMAIN [Asleep EXCEPT !.count = c] = SweepFields
      /\ [Asleep EXCEPT !.count = c].pc = "asleep"
  BY DEF Asleep, SweepFields
<1> QED
  BY <1>1 DEF SweepOK

LEMMA MeasureStep ==
  ASSUME LoneInv, Measure \/ EndSweep \/ SweepFails
  PROVE  LoneInv'
<1>1. DOMAIN sweep = SweepFields
  BY DEF LoneInv, SweepOK
<1>2. SweepOK(sweep', files, now)
  <2>1. CASE sweep' = [Asleep EXCEPT !.count = sweep.count]
    BY <2>1, RestingOK
  <2>2. CASE sweep' = [sweep EXCEPT !.pc = "trim", !.todo = Reverse(sweep.list), !.list = << >>,
                                    !.excess = TotalSize - SizeLimit]
    <3>1. DOMAIN sweep' = SweepFields /\ sweep'.pc = "trim"
      BY <1>1, <2>2 DEF SweepFields
    <3> QED
      BY <3>1 DEF SweepOK
  <2> QED
    BY <2>1, <2>2 DEF Measure, EndSweep, SweepFails
<1>3. CASE Measure \/ EndSweep
  <2>1. SweepOnly
    BY <1>3 DEF Measure, EndSweep
  <2> QED
    BY <1>2, <2>1, SweepQuiet
<1>4. CASE SweepFails
  BY <1>2, <1>4 DEF SweepFails, LoneInv
<1> QED
  BY <1>3, <1>4

LEMMA CutOff ==
  ASSUME NEW p
  PROVE  Cut(NoHandle, p) = NoHandle
BY DEF Cut, NoHandle

LEMMA CutCache ==
  ASSUME NEW ca, NEW ca2, CacheOK(ca), NEW p, ca2 = [i \in DOMAIN ca |-> Cut(ca[i], p)]
  PROVE  CacheOK(ca2) /\ \A k : HasKey(ca2, k) <=> HasKey(ca, k)
<1>1. ca \in Seq(HandleSet) /\ DOMAIN ca = 1 .. Len(ca) /\ Len(ca) \in Nat /\ \A i \in 1 .. Len(ca) : ca[i] \in HandleSet
  BY DEF CacheOK
<1>2. \A i \in DOMAIN ca : Cut(ca[i], p) \in HandleSet /\ Cut(ca[i], p).key = ca[i].key
  BY <1>1, CutOK
<1>3. ca2 \in Seq(HandleSet) /\ DOMAIN ca2 = DOMAIN ca /\ \A i \in DOMAIN ca : ca2[i].key = ca[i].key
  <2>1. ca2 = [i \in 1 .. Len(ca) |-> Cut(ca[i], p)]
    BY <1>1
  <2>2. [i \in 1 .. Len(ca) |-> Cut(ca[i], p)] \in Seq(HandleSet)
    BY <1>1, <1>2
  <2> QED
    BY <1>2, <2>1, <2>2
<1> QED
  BY <1>3 DEF CacheOK, HasKey

(* A file goes: what the parts of the invariant about the writer say stays. *)
LEMMA UnlinkStep ==
  ASSUME NEW u \in Tasks, crew = {u}, LoneInv, NEW p, Unlink(p),
         UNCHANGED <<now, crew, pc, next, acked>>, SweepOK(sweep', files', now),
         \A hs2 : (\A h \in HandlesOf(cache, work) : Cut(h, p) \in hs2)
                    => \A a \in acked \ exempt' : Held(a, Without(files, p), hs2)
  PROVE  LoneInv'
<1> DEFINE hs == HandlesOf(cache, work)
           hs2 == HandlesOf(cache', work')
<1>1. /\ DOMAIN pc = Tasks /\ DOMAIN work = Tasks /\ TaskOK(pc[u], work[u], cache, now) /\ work[u] \in WorkSet
      /\ IsFiniteSet(DOMAIN files) /\ CacheOK(cache) /\ StoreOK(files, hs, next, now)
      /\ \A t \in Tasks \ {u} : pc[t] = "idle" /\ work[t] = NoWork
  BY DEF LoneInv, TaskOK
<1>2. /\ files' = Without(files, p)
      /\ cache' = [i \in DOMAIN cache |-> Cut(cache[i], p)]
      /\ work' = [t \in Tasks |-> [work[t] EXCEPT !.handle = Cut(@, p)]]
  BY DEF Unlink
<1>3. /\ DOMAIN work' = Tasks
      /\ \A t \in Tasks : /\ work[t] \in WorkSet /\ work[t].handle \in HandleSet
                          /\ work'[t] = [work[t] EXCEPT !.handle = Cut(work[t].handle, p)]
  <2>1. \A t \in Tasks : work[t] \in WorkSet
    BY <1>1, NoWorkType
  <2>2. \A t \in Tasks : work[t].handle \in HandleSet
    BY <2>1 DEF WorkSet
  <2> QED
    BY <1>2, <2>1, <2>2
<1>4. \A t \in Tasks : Cut(work[t].handle, p) \in HandleSet /\ work'[t].handle = Cut(work[t].handle, p)
  <2> SUFFICES ASSUME NEW t \in Tasks
               PROVE  Cut(work[t].handle, p) \in HandleSet /\ work'[t].handle = Cut(work[t].handle, p)
    OBVIOUS
  <2> DEFINE h == Cut(work[t].handle, p)
  <2>1. work[t] \in WorkSet /\ h \in HandleSet /\ work'[t] = [work[t] EXCEPT !.handle = h]
    BY <1>3, CutOK
  <2> HIDE DEF h
  <2>2. work'[t].handle = h
    BY <2>1, WorkFields
  <2> QED
    BY <2>1, <2>2 DEF h
<1>5. CacheOK(cache') /\ \A k : HasKey(cache', k) <=> HasKey(cache, k)
  BY <1>1, <1>2, CutCache
<1>6. /\ work'[u] \in WorkSet /\ work'[u].session = work[u].session /\ work'[u].key = work[u].key
      /\ work'[u].ok = work[u].ok
  <2> DEFINE h == Cut(work[u].handle, p)
  <2>1. work[u] \in WorkSet /\ h \in HandleSet /\ work'[u] = [work[u] EXCEPT !.handle = h]
    BY <1>3, <1>4
  <2> HIDE DEF h
  <2> QED
    BY <2>1, WorkFields
<1>7. work'[u].handle.buffer = work[u].handle.buffer /\ work'[u].handle.key = work[u].handle.key
  BY <1>3, <1>4, CutOK
<1>8. TaskOK(pc[u], work'[u], cache', now)
  BY <1>1, <1>5, <1>6, <1>7 DEF TaskOK
<1>9. ASSUME NEW t \in Tasks \ {u} PROVE work'[t] = NoWork
  <2>1. work'[t] = [NoWork EXCEPT !.handle = NoHandle]
    BY <1>1, <1>3, CutOff, NothingHeld
  <2> QED
    BY <2>1 DEF NoWork
<1>10. /\ DOMAIN cache' = DOMAIN cache /\ \A i \in DOMAIN cache : cache'[i] = Cut(cache[i], p)
  BY <1>2
<1>11. \A g \in hs2 : \E h \in hs : g = Cut(h, p)
  <2> SUFFICES ASSUME NEW g \in hs2 PROVE \E h \in hs : g = Cut(h, p)
    OBVIOUS
  <2>1. CASE \E i \in DOMAIN cache' : g = cache'[i]
    BY <1>10, <2>1, HandlesAre
  <2>2. CASE \E t \in Tasks : g = work'[t].handle
    BY <1>4, <2>2, HandlesAre
  <2> QED
    BY <2>1, <2>2, HandlesAre
<1>12. \A h \in hs : Cut(h, p) \in hs2
  <2> SUFFICES ASSUME NEW h \in hs PROVE Cut(h, p) \in hs2
    OBVIOUS
  <2>1. CASE \E i \in DOMAIN cache : h = cache[i]
    BY <1>10, <2>1, HandlesAre
  <2>2. CASE \E t \in Tasks : h = work[t].handle
    BY <1>4, <2>2, HandlesAre
  <2> QED
    BY <2>1, <2>2, HandlesAre
<1> HIDE DEF hs, hs2
<1>13. StoreOK(files', hs2, next, now)
  BY <1>1, <1>2, <1>11, UnlinkOK
<1>14. \A a \in acked \ exempt' : Held(a, files', hs2)
  BY <1>2, <1>12 DEF hs
<1>15. IsFiniteSet(DOMAIN files')
  <2>1. DOMAIN files' = DOMAIN files \ {p}
    BY <1>2 DEF Without
  <2> QED
    BY <1>1, <2>1, FS_RemoveElement
<1> QED
  BY <1>1, <1>3, <1>5, <1>8, <1>9, <1>13, <1>14, <1>15 DEF LoneInv, hs2

(* Retention: what is lost with the file is exempt. *)
LEMMA RetireStep ==
  ASSUME NEW u \in Tasks, crew = {u}, LoneInv, NEW p, Retire(p),
         UNCHANGED <<now, crew, pc, next, acked>>, SweepOK(sweep', files', now)
  PROVE  LoneInv'
<1>1. Unlink(p)
  BY DEF Retire
<1>2. /\ exempt \subseteq exempt'
      /\ Of(p, Text(p)) \subseteq exempt'
      /\ \A h \in HandlesOf(cache, work) : h.path = p => Of(p, h.buffer) \subseteq exempt'
  BY HandlesNow DEF Retire
<1>3. /\ acked \subseteq Sessions \X Nat /\ HandlesOf(cache, work) \subseteq HandleSet
      /\ \A a \in acked \ exempt : Held(a, files, HandlesOf(cache, work))
  BY DEF LoneInv, StoreOK, HandleOK
<1>4. ASSUME NEW hs2, \A h \in HandlesOf(cache, work) : Cut(h, p) \in hs2, NEW a \in acked \ exempt'
      PROVE  Held(a, Without(files, p), hs2)
  <2>1. a \in Sessions \X Nat /\ Held(a, files, HandlesOf(cache, work))
    BY <1>2, <1>3
  <2>2. p \in DOMAIN files => a \notin Of(p, files[p].text)
    BY <1>2 DEF Text
  <2>3. \A h \in HandlesOf(cache, work) : h.path = p => a \notin Of(p, h.buffer)
    BY <1>2
  <2> QED
    BY <1>3, <1>4, <2>1, <2>2, <2>3, RetiredHeld
<1> QED
  BY <1>1, <1>4, UnlinkStep

LEMMA DeleteOldStep ==
  ASSUME NEW u \in Tasks, crew = {u}, LoneInv, DeleteOld
  PROVE  LoneInv'
<1>1. /\ sweep.pc = "delete" /\ Retire(Head(sweep.todo))
      /\ sweep' = [sweep EXCEPT !.todo = Tail(@)] /\ UNCHANGED <<now, crew, pc, next, acked>>
  BY DEF DeleteOld, SweepRest
<1>2. /\ DOMAIN sweep = SweepFields
      /\ sweep.list \in Seq(PathSet) /\ IsInjective(sweep.list)
      /\ \A p \in sweep.old : p.zst = FALSE /\ p.day \in Nat /\ p.day + 1 < now
  BY <1>1 DEF LoneInv, SweepOK
<1>3. /\ DOMAIN sweep' = SweepFields
      /\ sweep'.pc = "delete" /\ sweep'.list = sweep.list /\ sweep'.old = sweep.old
  BY <1>1, <1>2 DEF SweepFields
<1>4. SweepOK(sweep', files', now)
  BY <1>2, <1>3 DEF SweepOK
<1> QED
  BY <1>1, <1>4, RetireStep

LEMMA TrimStep ==
  ASSUME NEW u \in Tasks, crew = {u}, LoneInv, Trim
  PROVE  LoneInv'
<1> DEFINE p == Head(sweep.todo)
<1>1. /\ sweep.pc = "trim" /\ UNCHANGED <<now, crew, pc, next, acked>>
      /\ sweep' = [sweep EXCEPT !.todo = Tail(@), !.excess = @ - Size(p)] \/ sweep' = [sweep EXCEPT !.todo = Tail(@)]
      /\ Retire(p) \/ UNCHANGED <<files, cache, work, exempt>>
  BY DEF Trim, SweepRest
<1>2. DOMAIN sweep = SweepFields
  BY DEF LoneInv, SweepOK
<1>3. DOMAIN sweep' = SweepFields /\ sweep'.pc = "trim"
  BY <1>1, <1>2 DEF SweepFields
<1>4. \A fs : SweepOK(sweep', fs, now)
  BY <1>3 DEF SweepOK
<1>5. CASE Retire(p)
  BY <1>1, <1>4, <1>5, RetireStep
<1>6. CASE UNCHANGED <<files, cache, work, exempt>>
  BY <1>1, <1>4, <1>6 DEF LoneInv
<1> QED
  BY <1>1, <1>5, <1>6

LEMMA WritePackedStep ==
  ASSUME LoneInv, WritePacked
  PROVE  LoneInv'
<1> DEFINE p == sweep.todo[1]
           hs == HandlesOf(cache, work)
<1>1. /\ sweep.pc = "pack"
      /\ files' = Having(files, Packed(Head(sweep.todo)), sweep.text)
      /\ sweep' = [sweep EXCEPT !.pc = "unlink", !.text = << >>]
      /\ UNCHANGED <<work, cache, exempt, now, crew, pc, next, acked>>
  BY DEF WritePacked, SweepRest
<1>2. /\ DOMAIN sweep = SweepFields
      /\ sweep.todo \in Seq(PathSet) /\ IsInjective(sweep.todo) /\ sweep.todo # << >>
      /\ \A i \in DOMAIN sweep.todo :
           sweep.todo[i] \in DOMAIN files /\ sweep.todo[i].zst = FALSE /\ sweep.todo[i].day + 1 < now
      /\ sweep.text = files[p].text
  BY <1>1 DEF LoneInv, SweepOK
<1>3. /\ now \in Nat /\ StoreOK(files, hs, next, now) /\ IsFiniteSet(DOMAIN files)
      /\ \A a \in acked \ exempt : Held(a, files, hs)
  BY DEF LoneInv
<1>4. Head(sweep.todo) = p /\ 1 \in DOMAIN sweep.todo
  BY <1>2, FromTheFront
<1>5. p \in PathSet /\ p \in DOMAIN files /\ p.zst = FALSE /\ p.day + 1 < now
  BY <1>2, <1>4
<1>6. /\ DOMAIN sweep' = SweepFields
      /\ sweep'.pc = "unlink" /\ sweep'.todo = sweep.todo
  BY <1>1, <1>2 DEF SweepFields
<1> HIDE DEF p, hs
<1>7. /\ DOMAIN files' = DOMAIN files \cup {Packed(p)}
      /\ files'[Packed(p)] = [text |-> files[p].text, time |-> now]
      /\ \A q \in DOMAIN files : q # Packed(p) => files'[q] = files[q]
  BY <1>1, <1>2, <1>4 DEF Having, p
<1>8. /\ files'[Packed(p)].text = files[p].text
      /\ StoreOK(files', hs, next, now)
      /\ \A a : Held(a, files, hs) => Held(a, files', hs)
  BY <1>3, <1>5, <1>7, PackedOK
<1>9. p # Packed(p)
  BY <1>5, Names
<1>10. SweepOK(sweep', files', now)
  <2>1. \A i \in DOMAIN sweep.todo : sweep.todo[i] \in DOMAIN files'
    BY <1>2, <1>7
  <2>2. files'[Packed(p)].text = files'[p].text /\ Packed(p) \in DOMAIN files'
    BY <1>5, <1>7, <1>8, <1>9
  <2> QED
    BY <1>2, <1>6, <2>1, <2>2 DEF SweepOK, p
<1>11. IsFiniteSet(DOMAIN files')
  BY <1>3, <1>7, FS_AddElement
<1> QED
  BY <1>1, <1>3, <1>8, <1>10, <1>11 DEF LoneInv, hs

(* The plain file is old: no handle holds anything back for it. *)
LEMMA UnlinkPlainStep ==
  ASSUME NEW u \in Tasks, crew = {u}, LoneInv, UnlinkPlain
  PROVE  LoneInv'
<1> DEFINE p == sweep.todo[1]
           hs == HandlesOf(cache, work)
<1>1. /\ sweep.pc = "unlink" /\ Unlink(Head(sweep.todo))
      /\ sweep' = [sweep EXCEPT !.pc = "compress", !.todo = Tail(@)]
      /\ UNCHANGED <<exempt, now, crew, pc, next, acked>>
  BY DEF UnlinkPlain, SweepRest
<1>2. /\ DOMAIN sweep = SweepFields
      /\ sweep.todo \in Seq(PathSet) /\ IsInjective(sweep.todo) /\ sweep.todo # << >>
      /\ \A i \in DOMAIN sweep.todo :
           sweep.todo[i] \in DOMAIN files /\ sweep.todo[i].zst = FALSE /\ sweep.todo[i].day + 1 < now
      /\ Packed(p) \in DOMAIN files /\ files[Packed(p)].text = files[p].text
  BY <1>1 DEF LoneInv, SweepOK
<1>3. /\ now \in Nat /\ StoreOK(files, hs, next, now) /\ hs \subseteq HandleSet
      /\ \A a \in acked \ exempt : Held(a, files, hs)
  BY DEF LoneInv, StoreOK, HandleOK
<1>4. /\ Head(sweep.todo) = p /\ 1 \in DOMAIN sweep.todo
      /\ Tail(sweep.todo) \in Seq(PathSet) /\ IsInjective(Tail(sweep.todo))
      /\ \A i \in DOMAIN Tail(sweep.todo) :
           Tail(sweep.todo)[i] # p /\ \E j \in DOMAIN sweep.todo : Tail(sweep.todo)[i] = sweep.todo[j]
  BY <1>2, FromTheFront
<1>5. p \in PathSet /\ p \in DOMAIN files /\ p.zst = FALSE /\ p.day + 1 < now /\ p.day \in Nat
  <2>1. p \in PathSet
    BY <1>2, <1>4
  <2> QED
    BY <1>2, <1>4, <2>1 DEF PathSet
<1>6. /\ DOMAIN sweep' = SweepFields
      /\ sweep'.pc = "compress" /\ sweep'.todo = Tail(sweep.todo)
  BY <1>1, <1>2 DEF SweepFields
<1> HIDE DEF p, hs
<1>7. DOMAIN files' = DOMAIN files \ {p}
  BY <1>1, <1>4 DEF Unlink, Without
<1>8. SweepOK(sweep', files', now)
  BY <1>2, <1>4, <1>6, <1>7 DEF SweepOK
<1>9. \A h \in hs : h.path = p => h.buffer = << >>
  BY <1>3, <1>5 DEF StoreOK, HandleOK
<1>10. ASSUME NEW hs2, \A h \in hs : Cut(h, p) \in hs2, NEW a \in acked \ exempt
       PROVE  Held(a, Without(files, p), hs2)
  <2>1. Held(a, files, hs)
    BY <1>3
  <2> QED
    BY <1>2, <1>3, <1>5, <1>9, <1>10, <2>1, UnlinkedHeld DEF p
<1>11. Unlink(p) /\ UNCHANGED <<exempt, now, crew, pc, next, acked>>
  BY <1>1, <1>4
<1> QED
  BY <1>8, <1>10, <1>11, UnlinkStep DEF hs

(***************************************************************************)
(* Time, failure and the invariant.                                        *)
(***************************************************************************)
LEMMA TickStep ==
  ASSUME NEW u \in Tasks, crew = {u}, LoneInv, Tick
  PROVE  LoneInv'
<1> DEFINE hs == HandlesOf(cache, work)
<1>1. /\ now' = now + 1 /\ \A h \in hs : h.buffer # << >> => h.path.day = now
      /\ UNCHANGED <<crew, pc, work, cache, files, sweep, next, acked, exempt>>
  BY HandlesNow DEF Tick
<1>2. /\ now \in Nat /\ StoreOK(files, hs, next, now) /\ SweepOK(sweep, files, now)
      /\ TaskOK(pc[u], work[u], cache, now)
  BY DEF LoneInv
<1>3. StoreOK(files, hs, next, now + 1)
  <2> HIDE DEF hs
  <2> QED
    BY <1>1, <1>2, AgingOK
<1>4. TaskOK(pc[u], work[u], cache, now + 1)
  <2>1. work[u].key.day \in Nat
    BY <1>2 DEF TaskOK, WorkSet, KeySet
  <2>2. work[u].key.day <= now => work[u].key.day <= now + 1
    BY <1>2, <2>1
  <2> QED
    BY <1>2, <2>2 DEF TaskOK
<1>5. SweepOK(sweep, files, now + 1)
  <2>1. ASSUME sweep.pc \in {"compress", "pack", "unlink"}, NEW i \in DOMAIN sweep.todo
        PROVE sweep.todo[i].day + 1 < now + 1
    <3>1. sweep.todo \in Seq(PathSet) /\ sweep.todo[i].day + 1 < now
      BY <1>2, <2>1 DEF SweepOK
    <3>2. sweep.todo[i] \in PathSet
      BY <2>1, <3>1
    <3>3. sweep.todo[i].day \in Nat
      BY <3>2 DEF PathSet
    <3> QED
      BY <1>2, <3>1, <3>3
  <2>2. ASSUME sweep.pc = "delete", NEW p \in sweep.old
        PROVE p.zst = FALSE /\ p.day \in Nat /\ p.day + 1 < now + 1
    <3>1. p.zst = FALSE /\ p.day \in Nat /\ p.day + 1 < now
      BY <1>2, <2>2 DEF SweepOK
    <3> QED
      BY <1>2, <3>1
  <2> QED
    BY <1>2, <2>1, <2>2 DEF SweepOK
<1> QED
  BY <1>1, <1>2, <1>3, <1>4, <1>5 DEF LoneInv

LEMMA NoHandles ==
  \A h \in HandlesOf(<< >>, [t \in Tasks |-> NoWork]) : h = NoHandle
BY NothingHeld, HandlesAre

LEMMA CrashStep ==
  ASSUME NEW u \in Tasks, crew = {u}, LoneInv, Crash
  PROVE  LoneInv'
<1> DEFINE hs == HandlesOf(cache, work)
           hs2 == HandlesOf(cache', work')
<1>1. /\ pc' = [t \in Tasks |-> "idle"] /\ work' = [t \in Tasks |-> NoWork] /\ cache' = << >>
      /\ acked' = acked \ UNION {Of(h.path, h.buffer) : h \in hs}
      /\ sweep' = [Asleep EXCEPT !.count = sweep.count]
      /\ UNCHANGED <<now, crew, files, next, exempt>>
  BY HandlesNow DEF Crash
<1>2. \A h \in hs2 : h = NoHandle
  BY <1>1, NoHandles
<1>3. /\ now \in Nat /\ StoreOK(files, hs, next, now) /\ acked \subseteq Sessions \X Nat
      /\ \A a \in acked \ exempt : Held(a, files, hs)
  BY DEF LoneInv
<1>4. StoreOK(files, hs2, next, now)
  <2>1. HandleOK(NoHandle, files, next, now)
    BY <1>3, NoHandleOK
  <2> QED
    BY <1>2, <1>3, <2>1 DEF StoreOK
<1>5. ASSUME NEW a \in acked' \ exempt PROVE Held(a, files, hs2)
  <2>1. Held(a, files, hs) /\ a = <<a[1], a[2]>> /\ \A h \in hs : a \notin Of(h.path, h.buffer)
    BY <1>1, <1>3
  <2>2. ASSUME NEW h \in hs, h.linked, h.path.session = a[1], a[2] \in ToSet(h.buffer) PROVE FALSE
    BY <2>1, <2>2 DEF Of
  <2> QED
    BY <2>1, <2>2 DEF Held
<1>6. CacheOK(cache')
  <2>1. << >> \in Seq(HandleSet) /\ DOMAIN << >> = {}
    OBVIOUS
  <2> QED
    BY <1>1, <2>1 DEF CacheOK
<1>7. SweepOK(sweep', files, now)
  BY <1>1, RestingOK
<1>8. /\ DOMAIN pc' = Tasks /\ DOMAIN work' = Tasks
      /\ \A t \in Tasks : pc'[t] = "idle" /\ work'[t] = NoWork
  BY <1>1
<1>9. TaskOK(pc'[u], work'[u], cache', now)
  BY <1>8, IdleOK
<1> HIDE DEF hs, hs2
<1> QED
  BY <1>1, <1>4, <1>5, <1>6, <1>7, <1>8, <1>9 DEF LoneInv, hs2

LEMMA OneTask ==
  ASSUME crew \in Crews, Alone
  PROVE  \E u \in Tasks : crew = {u}
<1>1. IsFiniteSet(Tasks) /\ crew \in SUBSET Tasks
  BY ConfigAssumption
<1>2. IsFiniteSet(crew)
  BY <1>1, FS_Subset
<1>3. \E u : crew = {u}
  BY <1>2, FS_Singleton DEF Alone
<1> QED
  BY <1>1, <1>3

LEMMA CrewStays ==
  ASSUME [Next]_vars
  PROVE  crew' = crew
BY DEF Next, vars, StartWrite, WriteStep, CheckCache, Claim, Listen, OpenFile, OpenFails, Push, FlushEvicted,
       Unmark, Write, WriteFails, Flush, SweepStep, StartSweep, DeleteOld, StartCompressing, ReadPlain,
       WritePacked, UnlinkPlain, SweepFails, Measure, Trim, EndSweep, SweepOnly, SweepRest, Tick, Crash

LEMMA LoneInitially ==
  ASSUME Init
  PROVE  LoneInv
<1>1. /\ now = 0 /\ pc = [t \in Tasks |-> "idle"] /\ work = [t \in Tasks |-> NoWork]
      /\ cache = << >> /\ files = << >> /\ sweep = Asleep
      /\ next = [s \in Sessions |-> 1] /\ acked = {} /\ exempt = {}
  BY DEF Init
<1>2. DOMAIN files = {} /\ IsFiniteSet(DOMAIN files)
  BY <1>1, FS_EmptySet
<1>3. StoreOK(files, HandlesOf(cache, work), next, now)
  <2>1. HandleOK(NoHandle, files, next, now)
    BY <1>1, NoHandleOK
  <2> QED
    BY <1>1, <1>2, <2>1, NoHandles DEF StoreOK
<1>4. CacheOK(cache)
  <2>1. << >> \in Seq(HandleSet) /\ DOMAIN << >> = {}
    OBVIOUS
  <2> QED
    BY <1>1, <2>1 DEF CacheOK
<1>5. SweepOK(sweep, files, now)
  <2>1. DOMAIN Asleep = SweepFields /\ Asleep.pc = "asleep"
    BY DEF Asleep, SweepFields
  <2> QED
    BY <1>1, <2>1 DEF SweepOK
<1>6. \A t \in Tasks : pc[t] = "idle" /\ work[t] = NoWork
  BY <1>1
<1>7. crew \subseteq Tasks
  BY ConfigAssumption DEF Init
<1>8. \A t \in crew : TaskOK(pc[t], work[t], cache, now)
  BY <1>6, <1>7, IdleOK
<1> QED
  BY <1>1, <1>2, <1>3, <1>4, <1>5, <1>6, <1>8 DEF LoneInv

LEMMA LoneStep ==
  ASSUME NEW u \in Tasks, crew = {u}, LoneInv, [Next]_vars
  PROVE  LoneInv'
<1>1. ASSUME NEW t \in Tasks, StartWrite(t) \/ WriteStep(t) \/ Flush(t) PROVE LoneInv'
  <2>1. t = u
    BY <1>1, Actor
  <2>2. CASE StartWrite(u)
    BY <2>2, StartWriteStep
  <2>3. CASE WriteStep(u)
    BY <2>3, MoveSteps, OpenFileStep, OpenFailsStep, PushStep, FlushEvictedStep, UnmarkStep, WriteStepOK,
       WriteFailsStep DEF WriteStep
  <2>4. CASE Flush(u)
    BY <2>4, FlushStepOK
  <2> QED
    BY <1>1, <2>1, <2>2, <2>3, <2>4
<1>2. CASE SweepStep
  BY <1>2, StartSweepStep, DeleteOldStep, StartCompressingStep, ReadPlainStep, WritePackedStep, UnlinkPlainStep,
     MeasureStep, TrimStep DEF SweepStep
<1>3. CASE Tick
  BY <1>3, TickStep
<1>4. CASE Crash
  BY <1>4, CrashStep
<1>5. CASE UNCHANGED vars
  BY <1>5 DEF vars, LoneInv
<1> QED
  BY <1>1, <1>2, <1>3, <1>4, <1>5 DEF Next

LEMMA FilesInvariance == Spec => []FilesInv
<1>1. Init => FilesInv
  BY LoneInitially DEF FilesInv, Init
<1>2. FilesInv /\ [Next]_vars => FilesInv'
  <2> SUFFICES ASSUME FilesInv, [Next]_vars PROVE FilesInv'
    OBVIOUS
  <2>1. crew' = crew /\ crew \in Crews
    BY CrewStays DEF FilesInv
  <2>2. ASSUME Alone PROVE LoneInv'
    <3>1. \E u \in Tasks : crew = {u}
      BY <2>1, <2>2, OneTask
    <3> QED
      BY <2>2, <3>1, LoneStep DEF FilesInv
  <2>3. Alone' => Alone
    BY <2>1 DEF Alone
  <2> QED
    BY <2>1, <2>2, <2>3 DEF FilesInv
<1> QED
  BY <1>1, <1>2, PTL DEF Spec

(***************************************************************************)
(* What can be read back.                                                  *)
(***************************************************************************)
LEMMA FlattenNone == FlattenSeq(SetToSeq({})) = << >>
<1>1. Cardinality({}) = 0
  BY FS_EmptySet
<1>2. << >> \in [1 .. 0 -> {}] /\ IsInjective(<< >>)
  BY DEF IsInjective
<1>3. SetToSeq({}) \in [1 .. 0 -> {}]
  BY <1>1, <1>2 DEF SetToSeq
<1> HIDE DEF SetToSeq
<1>4. SetToSeq({}) = << >> /\ Len(SetToSeq({})) = 0
  BY <1>3
<1> QED
  BY <1>4 DEF FlattenSeq

LEMMA FlattenOne ==
  ASSUME NEW b
  PROVE  FlattenSeq(SetToSeq({b})) = b
<1>1. Cardinality({b}) = 1
  BY FS_Singleton
<1>2. <<b>> \in [1 .. 1 -> {b}] /\ IsInjective(<<b>>)
  BY DEF IsInjective
<1> DEFINE s == SetToSeq({b})
<1>3. s \in [1 .. 1 -> {b}]
  BY <1>1, <1>2 DEF SetToSeq
<1> HIDE DEF s
<1>4. s[1] = b /\ Len(s) = 1
  BY <1>3
<1> DEFINE Sifted(f, i) == IF i = 1 THEN s[i] ELSE f[i - 1] \o s[i]
           flatten == CHOOSE f : f = [i \in 1 .. Len(s) |-> Sifted(f, i)]
<1>5. FlattenSeq(s) = flatten[Len(s)]
  BY <1>4 DEF FlattenSeq
<1>6. \E f : f = [i \in 1 .. Len(s) |-> Sifted(f, i)]
  <2>1. [i \in 1 .. 1 |-> b] = [i \in 1 .. 1 |-> Sifted([j \in 1 .. 1 |-> b], i)]
    BY <1>4
  <2> HIDE DEF Sifted
  <2> QED
    BY <1>4, <2>1
<1>7. flatten = [i \in 1 .. Len(s) |-> Sifted(flatten, i)]
  <2> HIDE DEF Sifted
  <2> QED
    BY <1>6
<1> HIDE DEF flatten
<1>8. flatten[1] = Sifted(flatten, 1)
  <2> HIDE DEF Sifted
  <2> QED
    BY <1>4, <1>7
<1> QED
  BY <1>4, <1>5, <1>8 DEF s

(* What follows the text of a plain file: the one buffer that will be appended
   to it, or nothing. *)
Rest(p) ==
  LET held == IF p \in DOMAIN files THEN {h \in Handles : h.path = p /\ h.linked} ELSE {} IN
  FlattenSeq(SetToSeq({h.buffer : h \in held} \ {<< >>}))

LEMMA RestIs ==
  ASSUME NEW u \in Tasks, crew = {u}, LoneInv, NEW p
  PROVE  /\ \A h \in HandlesOf(cache, work) : h.path = p /\ h.linked /\ h.buffer # << >> => Rest(p) = h.buffer
         /\ (\A h \in HandlesOf(cache, work) : h.path = p /\ h.linked => h.buffer = << >>) => Rest(p) = << >>
<1> DEFINE hs == HandlesOf(cache, work)
           held == IF p \in DOMAIN files THEN {h \in hs : h.path = p /\ h.linked} ELSE {}
           buffers == {h.buffer : h \in held} \ {<< >>}
<1>1. Rest(p) = FlattenSeq(SetToSeq(buffers))
  BY HandlesNow DEF Rest
<1>2. ASSUME NEW h \in hs, h.path = p, h.linked, h.buffer # << >> PROVE Rest(p) = h.buffer
  <2>1. HandleOK(h, files, next, now)
    BY DEF LoneInv, StoreOK
  <2>2. h \in held
    BY <1>2, <2>1 DEF HandleOK
  <2>3. \A g \in held : g.buffer # << >> => g = h
    <3> SUFFICES ASSUME NEW g \in held, g.buffer # << >> PROVE g = h
      OBVIOUS
    <3>1. g \in hs /\ g.path = h.path
      BY <1>2
    <3>2. h.key.day = h.path.day
      BY <1>2, <2>1 DEF HandleOK
    <3> HIDE DEF held
    <3> QED
      BY <1>2, <3>1, <3>2, OneBuffer
  <2> HIDE DEF held
  <2>4. buffers = {h.buffer}
    BY <1>2, <2>2, <2>3
  <2> QED
    BY <1>1, <2>4, FlattenOne
<1>3. ASSUME \A h \in hs : h.path = p /\ h.linked => h.buffer = << >> PROVE Rest(p) = << >>
  <2>1. buffers = {}
    BY <1>3
  <2> QED
    BY <1>1, <2>1, FlattenNone
<1> QED
  BY <1>2, <1>3

(* A file is read in order, with all that its handle holds back. *)
LEMMA ReadableIs ==
  ASSUME NEW u \in Tasks, crew = {u}, LoneInv, NEW s \in Sessions, NEW d \in Nat
  PROVE  LET p == Path(s, d)
             q == IF p \in DOMAIN files THEN p ELSE Packed(p)
         IN  /\ Increasing(Readable(p))
             /\ ToSet(Text(q)) \subseteq ToSet(Readable(p))
             /\ \A h \in HandlesOf(cache, work) :
                  h.path = p /\ h.linked => ToSet(h.buffer) \subseteq ToSet(Readable(p))
<1> DEFINE p == Path(s, d)
           q == IF p \in DOMAIN files THEN p ELSE Packed(p)
           x == Text(q)
           hs == HandlesOf(cache, work)
<1>1. Readable(p) = x \o Rest(p)
  BY DEF Readable, Rest
<1>2. x \in Seq(Nat) /\ Increasing(x)
  <2>1. CASE q \in DOMAIN files
    <3>1. FileOK(q, files[q], next, now)
      BY <2>1 DEF LoneInv, StoreOK
    <3> QED
      BY <2>1, <3>1 DEF FileOK, FileSet, Text
  <2>2. CASE q \notin DOMAIN files
    BY <2>2, Nothing DEF Text
  <2> QED
    BY <2>1, <2>2
<1>3. p \in DOMAIN files => x = files[p].text
  BY DEF Text
<1> HIDE DEF p, x, q
<1>4. CASE \E h \in hs : h.path = p /\ h.linked /\ h.buffer # << >>
  <2>1. PICK h \in hs : h.path = p /\ h.linked /\ h.buffer # << >>
    BY <1>4
  <2>2. Rest(p) = h.buffer
    BY <2>1, RestIs
  <2>3. HandleOK(h, files, next, now)
    BY DEF LoneInv, StoreOK
  <2>4. /\ h.buffer \in Seq(Nat) /\ Increasing(h.buffer) /\ h.key.day = h.path.day
        /\ \A j \in DOMAIN h.buffer : Below(x, h.buffer[j])
    BY <1>3, <2>1, <2>3 DEF HandleOK, HandleSet
  <2>5. Increasing(x \o h.buffer) /\ ToSet(x \o h.buffer) = ToSet(x) \cup ToSet(h.buffer)
    BY <1>2, <2>4, Joined
  <2>6. ASSUME NEW g \in hs, g.path = p, g.linked PROVE ToSet(g.buffer) \subseteq ToSet(h.buffer)
    <3>1. CASE g.buffer = << >>
      BY <3>1, Nothing
    <3>2. CASE g.buffer # << >>
      <4>1. Rest(p) = g.buffer
        BY <2>6, <3>2, RestIs
      <4> QED
        BY <2>2, <4>1
    <3> QED
      BY <3>1, <3>2
  <2> QED
    BY <1>1, <2>2, <2>5, <2>6 DEF p, q, x
<1>5. CASE \A h \in hs : h.path = p /\ h.linked => h.buffer = << >>
  <2>1. Rest(p) = << >>
    BY <1>5, RestIs
  <2>2. Increasing(x \o << >>) /\ ToSet(x \o << >>) = ToSet(x) \cup {}
    <3>1. x \o << >> = x
      BY <1>2
    <3> QED
      BY <1>2, <3>1
  <2>3. \A h \in hs : h.path = p /\ h.linked => ToSet(h.buffer) = {}
    BY <1>5, Nothing
  <2> QED
    BY <1>1, <2>1, <2>2, <2>3 DEF p, q, x
<1> QED
  BY <1>4, <1>5

LEMMA KeptWhileAlone ==
  ASSUME NEW u \in Tasks, crew = {u}, LoneInv
  PROVE  AcknowledgedIsKept
<1> DEFINE paths == {Path(s, d) : s \in Sessions, d \in 0 .. now}
           hs == HandlesOf(cache, work)
<1>1. now \in Nat /\ acked \subseteq Sessions \X Nat /\ \A a \in acked \ exempt : Held(a, files, hs)
  BY DEF LoneInv
<1>2. \A d \in 0 .. now : d \in Nat
  BY <1>1
<1>3. ASSUME NEW a \in acked \ exempt PROVE \E p \in paths : a \in Of(p, Readable(p))
  <2>1. a = <<a[1], a[2]>> /\ a[1] \in Sessions
    BY <1>1, <1>3
  <2> SUFFICES \E d \in 0 .. now : a[2] \in ToSet(Readable(Path(a[1], d)))
    BY <2>1 DEF Of, Path
  <2>2. ASSUME NEW p \in DOMAIN files, p.session = a[1], a[2] \in ToSet(files[p].text),
               p.zst => Path(p.session, p.day) \notin DOMAIN files
        PROVE  \E d \in 0 .. now : a[2] \in ToSet(Readable(Path(a[1], d)))
    <3>1. FileOK(p, files[p], next, now)
      BY DEF LoneInv, StoreOK
    <3>2. p \in PathSet /\ p.day \in 0 .. now
      <4>1. p \in PathSet /\ p.day <= now
        BY <3>1 DEF FileOK
      <4>2. p.day \in Nat
        BY <4>1 DEF PathSet
      <4> QED
        BY <1>1, <4>1, <4>2
    <3> DEFINE r == Path(a[1], p.day)
    <3>3. ToSet(Text(IF r \in DOMAIN files THEN r ELSE Packed(r))) \subseteq ToSet(Readable(r))
      BY <1>2, <2>1, <3>2, ReadableIs
    <3>4. p = IF r \in DOMAIN files THEN r ELSE Packed(r)
      <4>1. p = [session |-> p.session, day |-> p.day, zst |-> p.zst] /\ p.zst \in BOOLEAN
        BY <3>2 DEF PathSet
      <4>2. CASE p.zst = FALSE
        BY <2>2, <4>1, <4>2 DEF Path
      <4>3. CASE p.zst = TRUE
        <5>1. r \notin DOMAIN files
          BY <2>2, <4>3
        <5>2. Packed(r) = [session |-> p.session, day |-> p.day, zst |-> TRUE]
          <6>1. r \in PathSet /\ r.zst = FALSE /\ r.session = p.session /\ r.day = p.day
            BY <2>2, <3>2 DEF Path, PathSet
          <6> HIDE DEF r
          <6>2. /\ Packed(r) \in PathSet /\ Packed(r).zst = TRUE
                /\ Packed(r).session = p.session /\ Packed(r).day = p.day
            BY <6>1, Names
          <6>3. Packed(r) = [session |-> Packed(r).session, day |-> Packed(r).day, zst |-> Packed(r).zst]
            BY <6>2 DEF PathSet
          <6> QED
            BY <6>2, <6>3
        <5> QED
          BY <4>1, <4>3, <5>1, <5>2
      <4> QED
        BY <4>1, <4>2, <4>3
    <3>5. ToSet(files[p].text) \subseteq ToSet(Readable(r))
      <4> HIDE DEF r
      <4> QED
        BY <3>3, <3>4 DEF Text
    <3> QED
      BY <2>2, <3>2, <3>5
  <2>3. ASSUME NEW h \in hs, h.linked, h.path.session = a[1], a[2] \in ToSet(h.buffer)
        PROVE  \E d \in 0 .. now : a[2] \in ToSet(Readable(Path(a[1], d)))
    <3>1. HandleOK(h, files, next, now)
      BY DEF LoneInv, StoreOK
    <3>2. h.path \in PathSet /\ h.path.zst = FALSE /\ h.path.day \in 0 .. now /\ h.path.day \in Nat
      <4>1. h.path \in PathSet /\ h.path.zst = FALSE /\ h.path.day <= now
        BY <3>1 DEF HandleOK, HandleSet
      <4>2. h.path.day \in Nat
        BY <4>1 DEF PathSet
      <4> QED
        BY <1>1, <4>1, <4>2
    <3>3. Path(a[1], h.path.day) = h.path
      BY <2>3, <3>2, Names
    <3>4. ToSet(h.buffer) \subseteq ToSet(Readable(Path(a[1], h.path.day)))
      BY <2>1, <2>3, <3>2, <3>3, ReadableIs
    <3> QED
      BY <2>3, <3>2, <3>4
  <2> QED
    BY <1>1, <2>2, <2>3 DEF Held
<1>4. ASSUME NEW p \in paths PROVE Increasing(Readable(p))
  BY <1>2, <1>4, ReadableIs
<1>5. acked \ exempt \subseteq UNION {Of(p, Readable(p)) : p \in paths}
  <2> HIDE DEF paths
  <2> QED
    BY <1>3
<1>6. \A p \in paths : \A i, j \in DOMAIN Readable(p) : i < j => Readable(p)[i] < Readable(p)[j]
  <2> HIDE DEF paths
  <2> QED
    BY <1>4 DEF Increasing
<1> QED
  BY <1>5, <1>6 DEF AcknowledgedIsKept

(* What a write acknowledged stays readable and in order while one task
   writes, over any number of sessions, days, sweeps and crashes
   (jsonl_writer.rs 455-479, cleanup.rs 173-213). *)
THEOREM WritesAreKept == Spec => []AcknowledgedIsKept
<1>1. FilesInv => AcknowledgedIsKept
  <2> SUFFICES ASSUME FilesInv, Alone PROVE AcknowledgedIsKept
    BY DEF AcknowledgedIsKept
  <2>1. \E u \in Tasks : crew = {u}
    BY OneTask DEF FilesInv
  <2> QED
    BY <2>1, KeptWhileAlone DEF FilesInv
<1> QED
  BY <1>1, FilesInvariance, PTL

(***************************************************************************)
(* A crew of any size: who opens a file.                                   *)
(***************************************************************************)
Opens(t) == pc[t] \in {"open", "push", "evict", "unmark"}

Shaped(w) == w = [session |-> w.session, key |-> w.key, handle |-> w.handle, ok |-> w.ok, since |-> w.since]

(* A task that opens a file has marked its key, and is the only one; and each
   mark is that of such a task. *)
OpenersInv ==
  /\ DOMAIN pc = Tasks /\ DOMAIN work = Tasks /\ \A t \in Tasks : Shaped(work[t])
  /\ \A t \in Tasks : Opens(t) => work[t].key \in pending
  /\ \A k \in pending : \E t \in Tasks : Opens(t) /\ work[t].key = k
  /\ \A t, u \in Tasks : Opens(t) /\ Opens(u) /\ work[t].key = work[u].key => t = u

LEMMA ShapesKept ==
  ASSUME NEW w, Shaped(w), NEW h
  PROVE  Shaped([w EXCEPT !.handle = h]) /\ [w EXCEPT !.handle = h].key = w.key
<1>1. PICK s, k, g, p, c : w = [session |-> s, key |-> k, handle |-> g, ok |-> p, since |-> c]
  BY DEF Shaped
<1>2. [w EXCEPT !.handle = h] = [session |-> s, key |-> k, handle |-> h, ok |-> p, since |-> c] /\ w.key = k
  BY <1>1
<1> QED
  BY <1>2 DEF Shaped

LEMMA ShapeFails ==
  ASSUME NEW w, Shaped(w), NEW o
  PROVE  Shaped([w EXCEPT !.ok = o]) /\ [w EXCEPT !.ok = o].key = w.key
<1>1. PICK s, k, g, p, c : w = [session |-> s, key |-> k, handle |-> g, ok |-> p, since |-> c]
  BY DEF Shaped
<1>2. [w EXCEPT !.ok = o] = [session |-> s, key |-> k, handle |-> g, ok |-> o, since |-> c] /\ w.key = k
  BY <1>1
<1> QED
  BY <1>2 DEF Shaped

(* A step after which the same tasks open the same files. *)
LEMMA SameOpeners ==
  ASSUME OpenersInv, DOMAIN pc' = Tasks, DOMAIN work' = Tasks, UNCHANGED pending,
         \A t \in Tasks : Shaped(work'[t]) /\ (Opens(t)' <=> Opens(t)) /\ (Opens(t) => work'[t].key = work[t].key)
  PROVE  OpenersInv'
BY DEF OpenersInv

LEMMA OpenersAtFirst == Init => OpenersInv
<1>1. Shaped(NoWork)
  BY DEF Shaped, NoWork
<1> QED
  BY <1>1 DEF Init, OpenersInv, Opens

(* Where a step of one task leads it. *)
LEMMA OneTaskMoves ==
  ASSUME OpenersInv, UNCHANGED pending, NEW t \in Tasks, NEW p, NEW q, pc[t] = p, pc' = [pc EXCEPT ![t] = q],
         NEW w, work' = [work EXCEPT ![t] = w] \/ (work' = work /\ w = work[t]),
         Shaped(w), w.key = work[t].key \/ ~Opens(t),
         (q \in {"open", "push", "evict", "unmark"}) <=> (p \in {"open", "push", "evict", "unmark"})
  PROVE  OpenersInv'
<1>1. /\ DOMAIN pc' = Tasks /\ DOMAIN work' = Tasks /\ pc'[t] = q /\ work'[t] = w
      /\ \A u \in Tasks \ {t} : pc'[u] = pc[u] /\ work'[u] = work[u]
  BY DEF OpenersInv
<1>2. ASSUME NEW u \in Tasks
      PROVE  Shaped(work'[u]) /\ (Opens(u)' <=> Opens(u)) /\ (Opens(u) => work'[u].key = work[u].key)
  <2>1. CASE u = t
    BY <1>1, <2>1 DEF Opens
  <2>2. CASE u # t
    BY <1>1, <2>2 DEF Opens, OpenersInv
  <2> QED
    BY <2>1, <2>2
<1> QED
  BY <1>1, <1>2, SameOpeners

LEMMA ClaimOpens ==
  ASSUME OpenersInv, NEW t \in Tasks, Claim(t)
  PROVE  OpenersInv'
<1>1. /\ pc[t] = "claim" /\ UNCHANGED work /\ pending' = pending \cup {work[t].key}
      /\ pc' = [pc EXCEPT ![t] = IF work[t].key \in pending THEN "listen" ELSE "open"]
  BY DEF Claim, Goto
<1>2. CASE work[t].key \in pending
  <2>1. PICK p, q, w : p = "claim" /\ q = "listen" /\ w = work[t]
    OBVIOUS
  <2>2. UNCHANGED pending /\ pc[t] = p /\ pc' = [pc EXCEPT ![t] = q] /\ work' = work /\ Shaped(w) /\ w.key = work[t].key
    BY <1>1, <1>2, <2>1 DEF OpenersInv
  <2> QED
    BY <2>1, <2>2, OneTaskMoves
<1>3. CASE work[t].key \notin pending
  <2>1. /\ DOMAIN pc' = Tasks /\ DOMAIN work' = Tasks /\ pc'[t] = "open"
        /\ \A u \in Tasks \ {t} : pc'[u] = pc[u]
    BY <1>1, <1>3 DEF OpenersInv
  <2>2. Opens(t)' /\ \A u \in Tasks \ {t} : Opens(u)' <=> Opens(u)
    BY <2>1 DEF Opens
  <2>3. \A u \in Tasks : Opens(u) => work[u].key # work[t].key
    BY <1>3 DEF OpenersInv
  <2> QED
    BY <1>1, <2>1, <2>2, <2>3 DEF OpenersInv
<1> QED
  BY <1>2, <1>3

LEMMA UnmarkOpens ==
  ASSUME OpenersInv, NEW t \in Tasks, Unmark(t)
  PROVE  OpenersInv'
<1> DEFINE k == work[t].key
<1>1. /\ pc[t] = "unmark" /\ pending' = pending \ {k}
      /\ work' = [work EXCEPT ![t] = IF work[t].ok THEN @ ELSE NoWork]
      /\ pc' = [u \in Tasks |->
                  IF u = t THEN IF work[t].ok THEN "write" ELSE "idle"
                  ELSE IF pc[u] \in {"listen", "wait"} /\ work[u].key = k
                  THEN IF pc[u] = "wait" THEN "check" ELSE "deaf" ELSE pc[u]]
  BY DEF Unmark
<1>2. Opens(t) /\ Shaped(NoWork)
  BY <1>1 DEF Opens, Shaped, NoWork
<1>3. DOMAIN pc' = Tasks /\ DOMAIN work' = Tasks /\ \A u \in Tasks : Shaped(work'[u])
  BY <1>1, <1>2 DEF OpenersInv
<1>4. ~Opens(t)' /\ \A u \in Tasks \ {t} : (Opens(u)' <=> Opens(u)) /\ work'[u] = work[u]
  <2>1. pc'[t] \in {"write", "idle"}
    BY <1>1
  <2>2. ASSUME NEW u \in Tasks \ {t}
        PROVE  (Opens(u)' <=> Opens(u)) /\ work'[u] = work[u]
    <3>1. pc'[u] = IF pc[u] \in {"listen", "wait"} /\ work[u].key = k
                   THEN IF pc[u] = "wait" THEN "check" ELSE "deaf" ELSE pc[u]
      BY <1>1
    <3>2. Opens(u)' <=> Opens(u)
      BY <3>1 DEF Opens
    <3> QED
      BY <1>1, <3>2 DEF OpenersInv
  <2> QED
    BY <2>1, <2>2 DEF Opens
<1>5. \A u \in Tasks \ {t} : Opens(u) => work[u].key # k
  BY <1>2 DEF OpenersInv
<1> HIDE DEF k
<1>6. \A u \in Tasks : Opens(u)' => u # t /\ Opens(u) /\ work'[u] = work[u] /\ work[u].key # k
  BY <1>4, <1>5
<1>7. \A l \in pending' : \E u \in Tasks : Opens(u)' /\ work'[u].key = l
  <2> TAKE l \in pending'
  <2>1. l \in pending /\ l # k
    BY <1>1
  <2>2. PICK u \in Tasks : Opens(u) /\ work[u].key = l
    BY <2>1 DEF OpenersInv
  <2>3. u # t
    BY <2>1, <2>2 DEF k
  <2> QED
    BY <1>4, <2>2, <2>3
<1>8. \A u \in Tasks : Opens(u)' => work'[u].key \in pending'
  BY <1>1, <1>6 DEF OpenersInv
<1>9. \A u, v \in Tasks : Opens(u)' /\ Opens(v)' /\ work'[u].key = work'[v].key => u = v
  BY <1>6 DEF OpenersInv
<1> QED
  BY <1>3, <1>7, <1>8, <1>9 DEF OpenersInv

LEMMA TaskOpens ==
  ASSUME OpenersInv, NEW t \in Tasks, StartWrite(t) \/ WriteStep(t) \/ Flush(t)
  PROVE  OpenersInv'
<1>1. Shaped(work[t]) /\ Shaped(NoWork)
  BY DEF OpenersInv, Shaped, NoWork
<1>2. ASSUME StartWrite(t) PROVE OpenersInv'
  <2>1. PICK s \in Sessions : work' = [work EXCEPT ![t] = [NoWork EXCEPT !.session = s, !.key = Key(s), !.since = now]]
    BY <1>2 DEF StartWrite
  <2>2. PICK w : w = [NoWork EXCEPT !.session = s, !.key = Key(s), !.since = now]
    OBVIOUS
  <2>3. Shaped(w)
    BY <2>2 DEF Shaped, NoWork
  <2>4. PICK p, q : p = "idle" /\ q = "check"
    OBVIOUS
  <2>5. UNCHANGED pending /\ pc[t] = p /\ pc' = [pc EXCEPT ![t] = q] /\ work' = [work EXCEPT ![t] = w] /\ ~Opens(t)
    BY <1>2, <2>1, <2>2, <2>4 DEF StartWrite, Goto, Opens
  <2>6. (q \in {"open", "push", "evict", "unmark"}) <=> (p \in {"open", "push", "evict", "unmark"})
    BY <2>4
  <2> QED
    BY <2>3, <2>5, <2>6, OneTaskMoves
<1>3. ASSUME CheckCache(t) \/ Listen(t) PROVE OpenersInv'
  <2>1. PICK p, q \in {"check", "listen", "write", "claim", "wait"} :
          UNCHANGED <<pending, work>> /\ pc[t] = p /\ pc' = [pc EXCEPT ![t] = q]
    BY <1>3 DEF CheckCache, Listen, Goto
  <2>2. ~Opens(t)
    BY <2>1 DEF Opens
  <2> QED
    BY <1>1, <2>1, <2>2, OneTaskMoves
<1>4. ASSUME OpenFile(t) \/ Push(t) \/ FlushEvicted(t) PROVE OpenersInv'
  <2>1. PICK p, q, h :
          /\ {p, q} \subseteq {"open", "push", "evict", "unmark"}
          /\ UNCHANGED pending /\ pc[t] = p /\ pc' = [pc EXCEPT ![t] = q] /\ work' = [work EXCEPT ![t].handle = h]
    <3>1. CASE OpenFile(t)
      BY <3>1 DEF OpenFile, Goto
    <3>2. CASE Push(t)
      <4> DEFINE fits == Len(cache) < CacheSize
      <4>1. CASE Cached(work[t].handle.key)
        BY <3>2, <4>1 DEF Push
      <4>2. CASE ~Cached(work[t].handle.key)
        <5>1. PICK q, h : q = (IF fits THEN "unmark" ELSE "evict") /\ h = (IF fits THEN NoHandle ELSE Last(cache))
          OBVIOUS
        <5>2. q \in {"open", "push", "evict", "unmark"}
          BY <5>1
        <5>3. UNCHANGED pending /\ pc[t] = "push" /\ pc' = [pc EXCEPT ![t] = q] /\ work' = [work EXCEPT ![t].handle = h]
          BY <3>2, <4>2, <5>1 DEF Push
        <5> QED
          BY <5>2, <5>3
      <4> QED
        BY <4>1, <4>2
    <3>3. CASE FlushEvicted(t)
      BY <3>3 DEF FlushEvicted, Goto
    <3> QED
      BY <1>4, <3>1, <3>2, <3>3
  <2>2. PICK w : w = [work[t] EXCEPT !.handle = h]
    OBVIOUS
  <2>3. work' = [work EXCEPT ![t] = w] /\ Shaped(w) /\ w.key = work[t].key
    BY <1>1, <2>1, <2>2, ShapesKept
  <2> QED
    BY <2>1, <2>3, OneTaskMoves
<1>5. ASSUME OpenFails(t) PROVE OpenersInv'
  <2>1. UNCHANGED pending /\ pc[t] = "open" /\ pc' = [pc EXCEPT ![t] = "unmark"] /\ work' = [work EXCEPT ![t].ok = FALSE]
    BY <1>5 DEF OpenFails, Goto
  <2>2. PICK w, o : w = [work[t] EXCEPT !.ok = o] /\ o = FALSE
    OBVIOUS
  <2>3. work' = [work EXCEPT ![t] = w] /\ Shaped(w) /\ w.key = work[t].key
    BY <1>1, <2>1, <2>2, ShapeFails
  <2> QED
    BY <2>1, <2>3, OneTaskMoves
<1>6. ASSUME Write(t) \/ WriteFails(t) PROVE OpenersInv'
  <2>1. PICK p, q : p = "write" /\ q = "idle"
    OBVIOUS
  <2>2. UNCHANGED pending /\ pc[t] = p /\ pc' = [pc EXCEPT ![t] = q] /\ work' = [work EXCEPT ![t] = NoWork] /\ ~Opens(t)
    BY <1>6, <2>1 DEF Write, WriteFails, Goto, Opens
  <2>3. (q \in {"open", "push", "evict", "unmark"}) <=> (p \in {"open", "push", "evict", "unmark"})
    BY <2>1
  <2> QED
    BY <1>1, <2>2, <2>3, OneTaskMoves
<1>7. ASSUME Flush(t) PROVE OpenersInv'
  BY <1>7 DEF Flush, OpenersInv, Opens
<1> QED
  BY <1>2, <1>3, <1>4, <1>5, <1>6, <1>7, ClaimOpens, UnmarkOpens DEF WriteStep

LEMMA OthersOpen ==
  ASSUME OpenersInv, SweepStep \/ Tick \/ Crash \/ UNCHANGED vars
  PROVE  OpenersInv'
<1>1. ASSUME UNCHANGED <<pc, work, pending>> PROVE OpenersInv'
  BY <1>1 DEF OpenersInv, Opens
<1>2. ASSUME NEW p, Unlink(p), UNCHANGED <<pc, pending>> PROVE OpenersInv'
  <2>1. work' = [t \in Tasks |-> [work[t] EXCEPT !.handle = Cut(work[t].handle, p)]]
    BY <1>2 DEF Unlink
  <2>2. ASSUME NEW t \in Tasks PROVE Shaped(work'[t]) /\ work'[t].key = work[t].key
    <3>1. PICK h : h = Cut(work[t].handle, p)
      OBVIOUS
    <3>2. work'[t] = [work[t] EXCEPT !.handle = h] /\ Shaped(work[t])
      BY <2>1, <3>1 DEF OpenersInv
    <3> QED
      BY <3>2, ShapesKept
  <2>3. \A t \in Tasks : Opens(t)' <=> Opens(t)
    BY <1>2 DEF Opens
  <2> QED
    BY <1>2, <2>1, <2>2, <2>3, SameOpeners DEF OpenersInv
<1>3. ASSUME SweepStep PROVE OpenersInv'
  <2>1. UNCHANGED <<pc, pending>> /\ (UNCHANGED work \/ \E p : Unlink(p))
    BY <1>3 DEF SweepStep, StartSweep, DeleteOld, StartCompressing, ReadPlain, WritePacked, UnlinkPlain, SweepFails,
                Measure, Trim, EndSweep, SweepOnly, SweepRest, Retire
  <2> QED
    BY <1>1, <1>2, <2>1
<1>4. ASSUME Crash PROVE OpenersInv'
  <2>1. pc' = [t \in Tasks |-> "idle"] /\ work' = [t \in Tasks |-> NoWork] /\ pending' = {} /\ Shaped(NoWork)
    BY <1>4 DEF Crash, Shaped, NoWork
  <2>2. DOMAIN pc' = Tasks /\ DOMAIN work' = Tasks /\ \A t \in Tasks : pc'[t] = "idle" /\ work'[t] = NoWork
    BY <2>1
  <2>3. \A t \in Tasks : ~Opens(t)'
    BY <2>2 DEF Opens
  <2> QED
    BY <2>1, <2>2, <2>3 DEF OpenersInv
<1> QED
  BY <1>1, <1>3, <1>4 DEF Tick, vars

(* No two tasks ever open one file, and a key is marked as pending exactly  *)
(* while a task opens its file - for any crew, through failures of the     *)
(* open, evictions, sweeps and crashes.                                    *)
THEOREM FilesHaveOneOpener == Spec => []OneOpener
<1>1. OpenersInv /\ [Next]_vars => OpenersInv'
  BY TaskOpens, OthersOpen DEF Next
<1>2. ASSUME OpenersInv PROVE OneOpener
  <2> SUFFICES ASSUME NEW k
               PROVE  LET openers == {t \in Tasks : Opens(t) /\ work[t].key = k} IN
                      IF k \in pending THEN Cardinality(openers) = 1 ELSE openers = {}
    BY DEF OneOpener, Opens
  <2> DEFINE openers == {t \in Tasks : Opens(t) /\ work[t].key = k}
  <2>1. CASE k \in pending
    <3>1. PICK t \in openers : TRUE
      BY <1>2, <2>1 DEF OpenersInv
    <3>2. openers = {t}
      BY <1>2, <3>1 DEF OpenersInv
    <3>3. Cardinality({t}) = 1
      BY FS_Singleton
    <3> QED
      BY <2>1, <3>2, <3>3
  <2>2. CASE k \notin pending
    BY <1>2, <2>2 DEF OpenersInv
  <2> QED
    BY <2>1, <2>2
<1> QED
  BY <1>1, <1>2, OpenersAtFirst, PTL DEF Spec

(***************************************************************************)
(* The stores of lunaroute-storage: the values of the variables.           *)
(***************************************************************************)
Places == {"idle", "snapshot", "create", "fill", "rename", "upsert", "remove", "delete", "newline",
           "flock", "locked", "unlocked"}
TaskSet == [pc : Places, key : Keys \cup {"none"}, todo : SUBSET Keys, snap : SUBSET Keys,
            fd : Inodes \cup {0}, at : Nat, size : Nat, gone : BOOLEAN]
ItemSet == [event : Nat, size : Nat]
DirSet == [parts : SUBSET {"metadata", "request", "response"}, files : Seq(Seq(ItemSet))]
CopySet == [whole : BOOLEAN, keys : SUBSET Keys]

StoreTypes ==
  /\ mem \in SUBSET Keys /\ failures \in Nat
  /\ task \in [Threads -> TaskSet]
  /\ \A t \in Threads :
       /\ task[t].pc \in {"idle", "snapshot", "create", "upsert", "remove", "delete"} => task[t].fd = 0
       /\ task[t].pc = "fill" => task[t].fd # 0
       /\ task[t].pc \in {"upsert", "remove", "newline"} => task[t].key \in Keys
       /\ task[t].pc = "newline" => task[t].at # 0
  /\ {tmp, file, lockFile} \subseteq Inodes \cup {0}
  /\ content \in [Inodes -> CopySet]
  /\ dirs \in [Keys -> DirSet] /\ appended \in [Keys -> Nat]

(* The index file lags behind the index. *)
Behind == IF file = 0 THEN mem # {} ELSE content[file] # Whole(mem)

(* Task t will make the file what the index is now. *)
Mends(t) ==
  \/ task[t].pc \in {"snapshot", "create"}
  \/ task[t].pc = "fill" /\ task[t].fd = file
  \/ task[t].pc \in {"fill", "rename"} /\ tmp # 0

(* As long as a task holds the read lock the index stays as it is, and every
   inode that may become the file is empty or has just that in it; an empty
   one has a task that fills it. *)
IndexInv ==
  kind = "sessions" /\ failures = 0 =>
    /\ readers = {t \in Threads : task[t].pc \in {"create", "fill", "rename"}}
    /\ \A t \in readers : task[t].snap = mem
    /\ readers = {} => tmp = 0
    /\ tmp # 0 => tmp # file /\ content[tmp] \in {Torn, Whole(mem)}
    /\ tmp # 0 /\ content[tmp] = Torn => \E t \in Threads : task[t].pc = "fill" /\ task[t].fd = tmp
    /\ \A t \in Threads : task[t].pc = "fill" => content[task[t].fd] \in {Torn, Whole(mem)}
    /\ Behind => \E t \in Threads : Mends(t)

Full(f) == Bytes(f) >= MaxFile
HasEvents(f) == \E i \in DOMAIN f : f[i].event # 0

(* The file has room and ends in the middle of a line. *)
Hanging(f) == f # <<>> /\ ~Full(f) /\ f[Len(f)].event # 0

(* The task that wrote this last event is about to end its line. *)
LineOpen(s, k) ==
  \E t \in Threads : task[t].pc = "newline" /\ task[t].key = s /\ ~task[t].gone /\ task[t].at = k

(* Files fill up in turn. *)
FilledInTurn(fs) == \A k \in DOMAIN fs : HasEvents(fs[k]) => \A j \in 1 .. k - 1 : Full(fs[j])

EventsInv ==
  \A s \in Keys :
    /\ InOrder(dirs[s].files, appended[s]) /\ FilledInTurn(dirs[s].files)
    /\ s \notin mixed => \A k \in DOMAIN dirs[s].files :
         OnOwnLines(dirs[s].files[k]) /\ (Hanging(dirs[s].files[k]) => LineOpen(s, k))

StoreInv == StoreTypes /\ IndexInv /\ EventsInv

(***************************************************************************)
(* Inodes.                                                                 *)
(***************************************************************************)
LEMMA ThreadCount == IsFiniteSet(Threads) /\ Cardinality(Threads) \in Nat /\ Inodes \subseteq Nat /\ 0 \notin Inodes
<1>1. IsFiniteSet(Threads)
  BY StoreAssumption
<1>2. Cardinality(Threads) \in Nat
  BY <1>1, FS_CardinalityType
<1> QED
  BY <1>1, <1>2 DEF Inodes

(* An inode is free: a task that has none open, and a name that stands for
   none, leave one. *)
LEMMA FreshInode ==
  ASSUME StoreTypes, NEW t \in Threads, task[t].fd = 0, tmp = 0 \/ lockFile = 0
  PROVE  /\ NewInode \in Inodes /\ NewInode # 0 /\ NewInode \notin {tmp, file, lockFile}
         /\ \A u \in Threads : task[u].fd # NewInode
<1> DEFINE n == Cardinality(Threads)
           others == Threads \ {t}
           f == [u \in others |-> task[u].fd]
           U == {task[u].fd : u \in others}
           x == IF tmp = 0 THEN lockFile ELSE tmp
           V == (U \cup {file}) \cup {x}
<1>1. IsFiniteSet(Threads) /\ n \in Nat /\ Inodes \subseteq Nat /\ 0 \notin Inodes /\ Inodes = 1 .. n + 2
  BY ThreadCount DEF Inodes
<1>2. IsFiniteSet(others) /\ Cardinality(others) = n - 1
  BY <1>1, FS_RemoveElement
<1>3. IsFiniteSet(U) /\ Cardinality(U) <= n - 1 /\ Cardinality(U) \in Nat
  <2>1. f \in Surjection(others, U)
    <3>1. f \in [others -> U] /\ \A y \in U : \E u \in others : f[u] = y
      OBVIOUS
    <3> HIDE DEF f, U, others
    <3> QED
      BY <3>1, Fun_IsSurj
  <2> HIDE DEF f, U, others, n
  <2>2. IsFiniteSet(U) /\ Cardinality(U) <= Cardinality(others)
    BY <1>2, <2>1, FS_Surjection
  <2> QED
    BY <1>2, <2>2, FS_CardinalityType
<1>4. IsFiniteSet(V) /\ Cardinality(V) \in Nat /\ Cardinality(V) <= n + 1
  <2> DEFINE W == U \cup {file}
  <2> HIDE DEF U, x, n
  <2>1. IsFiniteSet(W) /\ Cardinality(W) <= Cardinality(U) + 1
    <3>1. IsFiniteSet(W) /\ Cardinality(W) = IF file \in U THEN Cardinality(U) ELSE Cardinality(U) + 1
      BY <1>3, FS_AddElement
    <3> HIDE DEF W
    <3> QED
      BY <1>3, <3>1
  <2>2. Cardinality(W) \in Nat
    BY <2>1, FS_CardinalityType
  <2> HIDE DEF W
  <2>3. IsFiniteSet(W \cup {x}) /\ Cardinality(W \cup {x}) = IF x \in W THEN Cardinality(W) ELSE Cardinality(W) + 1
    BY <2>1, FS_AddElement
  <2>4. V = W \cup {x}
    BY DEF W
  <2> HIDE DEF V
  <2> QED
    BY <1>1, <1>3, <2>1, <2>2, <2>3, <2>4
<1>5. IsFiniteSet(Inodes) /\ Cardinality(Inodes) = n + 2
  <2> HIDE DEF n
  <2>1. PICK m \in Int : m = n + 2
    BY <1>1
  <2>2. IsFiniteSet(1 .. m) /\ Cardinality(1 .. m) = IF 1 > m THEN 0 ELSE m - 1 + 1
    BY FS_Interval
  <2> QED
    BY <1>1, <2>1, <2>2
<1>6. \E i \in Inodes : i \notin V
  <2> HIDE DEF V, n
  <2>1. SUFFICES ASSUME Inodes \subseteq V PROVE FALSE
    OBVIOUS
  <2>2. Cardinality(Inodes) <= Cardinality(V)
    BY <1>4, <2>1, FS_Subset
  <2> QED
    BY <1>1, <1>4, <1>5, <2>2
<1> DEFINE free == Inodes \ ({tmp, file, lockFile} \cup {task[u].fd : u \in Threads})
<1>7. free # {}
  <2>1. PICK i \in Inodes : i \notin V
    BY <1>6
  <2>2. i # 0 /\ i # file /\ i # tmp /\ i # lockFile
    BY <1>1, <2>1
  <2>3. \A u \in Threads : task[u].fd # i
    BY <2>1, <2>2
  <2> QED
    BY <2>1, <2>2, <2>3
<1>8. NewInode \in free
  <2>1. free \subseteq Nat /\ NewInode = Min(free)
    BY <1>1 DEF NewInode
  <2> HIDE DEF free
  <2> QED
    BY <1>7, <2>1, MinIsLeast
<1> QED
  BY <1>1, <1>8

(***************************************************************************)
(* The variables keep their types.                                         *)
(***************************************************************************)
LEMMA TypesAtFirst == StoreInit => StoreTypes
<1> SUFFICES ASSUME StoreInit PROVE StoreTypes
  OBVIOUS
<1>1. \A s \in Keys : dirs[s] \in DirSet
  <2>1. << >> \in Seq(Seq(ItemSet))
    OBVIOUS
  <2> QED
    BY <2>1 DEF StoreInit, NoDir, DirSet
<1> QED
  BY <1>1, StoreAssumption DEF StoreInit, StoreTypes, Idle, TaskSet, Places, Torn, CopySet

(* What a task may be when it stops at a place. *)
Placed(x) ==
  /\ x \in TaskSet
  /\ x.pc \in {"idle", "snapshot", "create", "upsert", "remove", "delete"} => x.fd = 0
  /\ x.pc = "fill" => x.fd # 0
  /\ x.pc \in {"upsert", "remove", "newline"} => x.key \in Keys
  /\ x.pc = "newline" => x.at # 0

OtherTypes ==
  /\ mem \in SUBSET Keys /\ failures \in Nat
  /\ {tmp, file, lockFile} \subseteq Inodes \cup {0}
  /\ content \in [Inodes -> CopySet]
  /\ dirs \in [Keys -> DirSet] /\ appended \in [Keys -> Nat]

LEMMA TypesApart ==
  StoreTypes <=> OtherTypes /\ task \in [Threads -> TaskSet] /\ \A t \in Threads : Placed(task[t])
BY DEF StoreTypes, OtherTypes, Placed

LEMMA IdleIsPlaced == Placed(Idle)
BY DEF Placed, Idle, TaskSet, Places

LEMMA OneMoves ==
  ASSUME StoreTypes, NEW t \in Threads, NEW x, Placed(x), task' = [task EXCEPT ![t] = x], OtherTypes'
  PROVE  StoreTypes'
<1>1. x \in TaskSet
  BY DEF Placed
<1>2. task' \in [Threads -> TaskSet] /\ \A u \in Threads : task'[u] = IF u = t THEN x ELSE task[u]
  BY <1>1 DEF StoreTypes
<1>3. \A u \in Threads : Placed(task'[u])
  BY <1>2, TypesApart
<1> HIDE DEF Placed
<1> QED
  BY <1>2, <1>3 DEF StoreTypes, OtherTypes, Placed

LEMMA FillFailsTyped == ASSUME StoreTypes, NEW t \in Threads, FillFails(t) PROVE StoreTypes'
BY DEF StoreTypes, FillFails, At, Persisted, Idle, index, copy, streams, TaskSet, Places

LEMMA RenameTyped == ASSUME StoreTypes, NEW t \in Threads, Rename(t) PROVE StoreTypes'
BY DEF StoreTypes, Rename, At, Persisted, Idle, index, copy, streams, TaskSet, Places

LEMMA SetTyped == ASSUME StoreTypes, NEW t \in Threads, Set(t) PROVE StoreTypes'
BY DEF StoreTypes, Set, Change, Calls, Called, index, copy, streams, TaskSet, Places

LEMMA SetManyTyped == ASSUME StoreTypes, NEW t \in Threads, SetMany(t) PROVE StoreTypes'
BY DEF StoreTypes, SetMany, Change, Calls, Called, index, copy, streams, TaskSet, Places

LEMMA DeleteTyped == ASSUME StoreTypes, NEW t \in Threads, Delete(t) PROVE StoreTypes'
BY DEF StoreTypes, Delete, Change, Calls, Called, index, copy, streams, TaskSet, Places

LEMMA IncrementTyped == ASSUME StoreTypes, NEW t \in Threads, Increment(t) PROVE StoreTypes'
BY DEF StoreTypes, Increment, Change, Calls, Called, index, copy, streams, TaskSet, Places

LEMMA PersistTyped == ASSUME StoreTypes, NEW t \in Threads, Persist(t) PROVE StoreTypes'
BY DEF StoreTypes, Persist, Calls, Called, At, Proceeds, index, copy, streams, TaskSet, Places

LEMMA UpsertTyped == ASSUME StoreTypes, NEW t \in Threads, Upsert(t) PROVE StoreTypes'
BY DEF StoreTypes, Upsert, At, Proceeds, index, copy, streams, TaskSet, Places

LEMMA DropEntryTyped == ASSUME StoreTypes, NEW t \in Threads, DropEntry(t) PROVE StoreTypes'
BY DEF StoreTypes, DropEntry, At, Proceeds, index, copy, streams, TaskSet, Places

LEMMA UnlockTyped == ASSUME StoreTypes, NEW t \in Threads, Unlock(t) PROVE StoreTypes'
BY DEF StoreTypes, Unlock, At, Proceeds, index, copy, streams, TaskSet, Places

LEMMA RemoveLockFileTyped == ASSUME StoreTypes, NEW t \in Threads, RemoveLockFile(t) PROVE StoreTypes'
BY DEF StoreTypes, RemoveLockFile, At, Done, Idle, index, copy, streams, TaskSet, Places

LEMMA SnapshotTyped == ASSUME StoreTypes, NEW t \in Threads, Snapshot(t) PROVE StoreTypes'
<1> DEFINE x == [task[t] EXCEPT !.pc = "create", !.snap = mem]
<1>1. task' = [task EXCEPT ![t] = x]
  BY DEF StoreTypes, Snapshot, At
<1>2. Placed(x)
  BY DEF StoreTypes, Placed, TaskSet, Places, Snapshot, At
<1>3. OtherTypes'
  BY DEF StoreTypes, OtherTypes, Snapshot, At, index, copy, streams
<1> HIDE DEF x
<1> QED
  BY <1>1, <1>2, <1>3, OneMoves

LEMMA FillTyped == ASSUME StoreTypes, NEW t \in Threads, Fill(t) PROVE StoreTypes'
<1>0. /\ At(t, "fill") /\ Proceeds(t, "rename") /\ UNCHANGED <<kind, lockFile, index, tmp, file, streams, calls, failures>>
      /\ \E c \in {Whole(task[t].snap), Torn} : content' = [content EXCEPT ![task[t].fd] = c]
  BY DEF Fill
<1> DEFINE x == [task[t] EXCEPT !.pc = "rename"]
<1>1. task' = [task EXCEPT ![t] = x]
  BY <1>0 DEF StoreTypes, At, Proceeds
<1>2. Placed(x)
  BY <1>0 DEF StoreTypes, Placed, TaskSet, Places, At, Proceeds
<1>3. OtherTypes'
  <2>1. Whole(task[t].snap) \in CopySet /\ Torn \in CopySet
    BY DEF StoreTypes, Whole, Torn, CopySet, TaskSet
  <2>2. content' \in [Inodes -> CopySet]
    BY <1>0, <2>1 DEF StoreTypes
  <2> QED
    BY <1>0, <2>2 DEF StoreTypes, OtherTypes, index, streams
<1> HIDE DEF x
<1> QED
  BY <1>1, <1>2, <1>3, OneMoves

LEMMA DeleteSessionsTyped == ASSUME StoreTypes, NEW t \in Threads, DeleteSessions(t) PROVE StoreTypes'
<1>0. PICK old \in {{s} : s \in Keys} \cup (SUBSET mem \ {{}}) :
        /\ task' = [task EXCEPT ![t].pc = "delete", ![t].todo = old]
        /\ Calls(t, "sessions") /\ UNCHANGED <<kind, lockFile, index, copy, streams, failures>>
  BY DEF DeleteSessions
<1> old \in SUBSET Keys
  BY DEF StoreTypes
<1> DEFINE x == [task[t] EXCEPT !.pc = "delete", !.todo = old]
<1>1. task' = [task EXCEPT ![t] = x]
  BY <1>0 DEF StoreTypes, Calls, Called, At
<1>2. Placed(x)
  <2>1. PICK y : y = task[t]
    OBVIOUS
  <2>2. y \in TaskSet /\ y.fd = 0
    BY <1>0, <2>1 DEF StoreTypes, Calls, At
  <2>3. x = [y EXCEPT !.pc = "delete", !.todo = old]
    BY <2>1
  <2> HIDE DEF x
  <2> QED
    BY <2>2, <2>3 DEF Placed, TaskSet, Places
<1>3. OtherTypes'
  BY <1>0 DEF StoreTypes, OtherTypes, Calls, Called, At, index, copy, streams
<1> HIDE DEF x
<1> QED
  BY <1>1, <1>2, <1>3, OneMoves

LEMMA FlockTyped == ASSUME StoreTypes, NEW t \in Threads, Flock(t) PROVE StoreTypes'
<1> DEFINE x == IF Holders(task[t].fd) = {} THEN [task[t] EXCEPT !.pc = "locked"] ELSE Idle
<1>1. task' = [task EXCEPT ![t] = x]
  BY DEF StoreTypes, Flock, At, Proceeds, Done, Idle
<1>2. Placed(x)
  BY DEF StoreTypes, Placed, TaskSet, Places, Flock, At, Proceeds, Done, Idle
<1>3. OtherTypes'
  BY DEF StoreTypes, OtherTypes, Flock, At, Proceeds, Done, Idle, index, copy, streams
<1> HIDE DEF x
<1> QED
  BY <1>1, <1>2, <1>3, OneMoves

(***************************************************************************)
(* Files of a session.                                                     *)
(***************************************************************************)
LEMMA ItemFacts ==
  ASSUME NEW f \in Seq(ItemSet)
  PROVE  /\ Len(f) \in Nat /\ DOMAIN f = 1 .. Len(f)
         /\ \A i \in 1 .. Len(f) : f[i] \in ItemSet /\ f[i].size \in Nat /\ f[i].event \in Nat
<1>1. \A i \in 1 .. Len(f) : f[i] \in ItemSet
  OBVIOUS
<1> QED
  BY <1>1 DEF ItemSet

LEMMA BytesAdd ==
  /\ Bytes(<< >>) = 0
  /\ \A f \in Seq(ItemSet) : Bytes(f) \in Nat /\ \A x \in ItemSet : Bytes(Append(f, x)) = Bytes(f) + x.size
<1> DEFINE Sum(f, g, i) == IF i = 0 THEN 0 ELSE g[i - 1] + f[i].size
           Adds(f, g, m) == g = [i \in 0 .. m |-> Sum(f, g, i)]
           Sums(f, g, m) == g \in [0 .. m -> Nat] /\ g[0] = 0 /\ \A i \in 1 .. m : g[i] = g[i - 1] + f[i].size
<1>1. ASSUME NEW f \in Seq(ItemSet) PROVE \E g : Sums(f, g, Len(f))
  <2> DEFINE n == Len(f)
             G == {m \in 0 .. n : \E g : Sums(f, g, m)}
  <2>1. n \in Nat /\ \A i \in 1 .. n : f[i].size \in Nat
    BY ItemFacts
  <2>2. 0 \in G
    <3>1. [i \in 0 .. 0 |-> 0] \in [0 .. 0 -> Nat] /\ [i \in 0 .. 0 |-> 0][0] = 0 /\ 1 .. 0 = {}
      OBVIOUS
    <3>2. Sums(f, [i \in 0 .. 0 |-> 0], 0)
      BY <3>1
    <3> HIDE DEF Sums
    <3> QED
      BY <2>1, <3>2
  <2>3. ASSUME NEW m \in 0 .. n - 1, m \in G PROVE m + 1 \in G
    <3>1. PICK g : Sums(f, g, m)
      BY <2>3
    <3> DEFINE h == [i \in 0 .. m + 1 |-> IF i = m + 1 THEN g[m] + f[m + 1].size ELSE g[i]]
    <3>2. m \in Nat /\ m + 1 \in 1 .. n /\ f[m + 1].size \in Nat /\ g[m] \in Nat
      BY <2>1, <3>1
    <3> HIDE DEF n
    <3>3. h \in [0 .. m + 1 -> Nat]
      BY <3>1, <3>2
    <3>4. h[0] = 0
      BY <3>1, <3>2
    <3>5. ASSUME NEW i \in 1 .. m + 1 PROVE h[i] = h[i - 1] + f[i].size
      <4>1. CASE i = m + 1
        BY <3>2, <4>1
      <4>2. CASE i \in 1 .. m
        BY <3>1, <3>2, <4>2
      <4> QED
        BY <3>2, <4>1, <4>2
    <3>6. Sums(f, h, m + 1)
      BY <3>3, <3>4, <3>5
    <3> HIDE DEF Sums
    <3> QED
      BY <3>2, <3>6
  <2>4. n \in G
    <3> HIDE DEF G, n
    <3>1. 0 .. n \subseteq G
      BY <2>1, <2>2, <2>3, UpTo
    <3> QED
      BY <2>1, <3>1
  <2> QED
    BY <2>4
<1>2. ASSUME NEW f \in Seq(ItemSet), NEW g, Adds(f, g, Len(f)) PROVE Sums(f, g, Len(f))
  <2> DEFINE n == Len(f)
             T == {i \in 0 .. n : g[i] \in Nat}
  <2>1. /\ n \in Nat /\ (\A i \in 1 .. n : f[i].size \in Nat) /\ DOMAIN g = 0 .. n
        /\ g = [i \in 0 .. n |-> g[i]] /\ g[0] = 0 /\ \A i \in 1 .. n : g[i] = g[i - 1] + f[i].size
    <3>1. n \in Nat /\ \A i \in 1 .. n : f[i].size \in Nat
      BY ItemFacts
    <3>2. /\ DOMAIN g = 0 .. n /\ g = [i \in 0 .. n |-> g[i]]
          /\ \A i \in 0 .. n : g[i] = Sum(f, g, i)
      <4> HIDE DEF Sum
      <4> QED
        BY <1>2
    <3>3. 0 \in 0 .. n /\ \A i \in 1 .. n : i \in 0 .. n /\ i # 0
      BY <3>1
    <3> HIDE DEF n
    <3> QED
      BY <3>1, <3>2, <3>3
  <2>2. 0 .. n \subseteq T
    <3> HIDE DEF n
    <3>1. 0 \in T
      BY <2>1
    <3>2. ASSUME NEW m \in 0 .. n - 1, m \in T PROVE m + 1 \in T
      <4>1. m + 1 \in 1 .. n /\ m + 1 \in 0 .. n /\ m + 1 - 1 = m /\ m \in Nat
        BY <2>1
      <4>2. PICK i \in 1 .. n : i = m + 1 /\ i - 1 = m
        BY <4>1
      <4>3. g[i] = g[i - 1] + f[i].size /\ f[i].size \in Nat
        BY <2>1
      <4> QED
        BY <3>2, <4>1, <4>2, <4>3
    <3> HIDE DEF T
    <3> QED
      BY <2>1, <3>1, <3>2, UpTo
  <2> QED
    BY <2>1, <2>2
<1>3. ASSUME NEW f \in Seq(ItemSet) PROVE \E g : Sums(f, g, Len(f)) /\ Bytes(f) = g[Len(f)]
  <2>1. PICK h : Sums(f, h, Len(f))
    BY <1>1
  <2>2. Adds(f, h, Len(f))
    BY <2>1
  <2> DEFINE c == CHOOSE g : Adds(f, g, Len(f))
  <2>3. Adds(f, c, Len(f))
    <3> HIDE DEF Adds
    <3> QED
      BY <2>2
  <2>4. Bytes(f) = c[Len(f)]
    BY DEF Bytes
  <2> HIDE DEF c
  <2>5. Sums(f, c, Len(f))
    BY <1>2, <2>3
  <2> HIDE DEF Sums
  <2> QED
    BY <2>4, <2>5
<1>4. Bytes(<< >>) = 0
  <2>1. << >> \in Seq(ItemSet) /\ Len(<< >>) = 0
    OBVIOUS
  <2> QED
    BY <1>3, <2>1
<1>5. ASSUME NEW f \in Seq(ItemSet), NEW x \in ItemSet PROVE Bytes(Append(f, x)) = Bytes(f) + x.size
  <2> DEFINE u == Append(f, x)
             n == Len(f)
  <2>1. /\ n \in Nat /\ u \in Seq(ItemSet) /\ Len(u) = n + 1 /\ u[n + 1] = x /\ x.size \in Nat
        /\ \A i \in 1 .. n : u[i] = f[i] /\ f[i].size \in Nat
    BY ItemFacts DEF ItemSet
  <2> HIDE DEF u
  <2>2. PICK g : Sums(f, g, n) /\ Bytes(f) = g[n]
    BY <1>3
  <2>3. PICK h : Sums(u, h, n + 1) /\ Bytes(u) = h[n + 1]
    BY <1>3, <2>1
  <2> HIDE DEF n
  <2> DEFINE T == {i \in 0 .. n : g[i] = h[i]}
  <2>4. 0 \in T
    BY <2>1, <2>2, <2>3
  <2>5. ASSUME NEW m \in 0 .. n - 1, m \in T PROVE m + 1 \in T
    <3>1. m + 1 \in 1 .. n /\ m + 1 \in 1 .. n + 1 /\ m + 1 \in 0 .. n /\ m + 1 - 1 = m
      BY <2>1
    <3>2. g[m + 1] = g[m] + f[m + 1].size /\ h[m + 1] = h[m] + u[m + 1].size
      BY <2>2, <2>3, <3>1
    <3> QED
      BY <2>1, <2>5, <3>1, <3>2
  <2>6. n \in T
    <3> HIDE DEF T
    <3>1. 0 .. n \subseteq T
      BY <2>1, <2>4, <2>5, UpTo
    <3> QED
      BY <2>1, <3>1
  <2>7. h[n + 1] = h[n] + x.size
    BY <2>1, <2>3
  <2> QED
    BY <2>2, <2>3, <2>6, <2>7 DEF u
<1>6. \A f \in Seq(ItemSet) : Bytes(f) \in Nat
  <2> SUFFICES ASSUME NEW f \in Seq(ItemSet) PROVE Bytes(f) \in Nat
    OBVIOUS
  <2>1. PICK g : Sums(f, g, Len(f)) /\ Bytes(f) = g[Len(f)]
    BY <1>3
  <2>2. Len(f) \in 0 .. Len(f)
    OBVIOUS
  <2> QED
    BY <2>1, <2>2
<1> QED
  BY <1>4, <1>5, <1>6

LEMMA FilesAt ==
  ASSUME NEW fs \in Seq(Seq(ItemSet)), NEW k
  PROVE  File(fs, k) \in Seq(ItemSet)
<1>1. << >> \in Seq(ItemSet)
  OBVIOUS
<1> QED
  BY <1>1 DEF File

(* rotate() finds the first file from there on that is not full. *)
LEMMA RotatedFacts ==
  ASSUME NEW fs \in Seq(Seq(ItemSet)), NEW from \in Nat \ {0}, NEW size
  PROVE  /\ Rotated(fs, from, size) \in Nat \ {0} /\ Rotated(fs, from, size) >= from
         /\ ~Full(File(fs, Rotated(fs, from, size)))
         /\ \A j \in from .. Rotated(fs, from, size) - 1 : j \in DOMAIN fs /\ Full(fs[j])
<1> DEFINE S == {k \in from .. from + Len(fs) : Bytes(File(fs, k)) < MaxFile}
<1>1. /\ Len(fs) \in Nat /\ DOMAIN fs = 1 .. Len(fs) /\ MaxFile \in Nat \ {0} /\ Bytes(<< >>) = 0
      /\ \A k : Bytes(File(fs, k)) \in Nat
  BY BytesAdd, FilesAt, StoreAssumption
<1>2. from + Len(fs) \in S
  BY <1>1 DEF File
<1>3. S \subseteq Nat /\ S # {}
  BY <1>2
<1>4. Min(S) \in S /\ \A k \in S : Min(S) <= k
  BY <1>3, MinIsLeast
<1>5. Rotated(fs, from, size) = Min(S)
  BY DEF Rotated
<1>6. PICK m : m = Min(S)
  OBVIOUS
<1>7. ASSUME NEW j \in from .. m - 1 PROVE j \in DOMAIN fs /\ Full(fs[j])
  <2>1. m \in from .. from + Len(fs) /\ m \in S /\ \A k \in S : m <= k
    BY <1>4, <1>6
  <2>2. j \in from .. from + Len(fs) /\ j < m
    BY <1>1, <2>1
  <2>3. j \notin S
    BY <2>1, <2>2
  <2>4. ~(Bytes(File(fs, j)) < MaxFile)
    BY <2>2, <2>3
  <2>5. j \in DOMAIN fs
    BY <1>1, <2>4 DEF File
  <2> QED
    BY <1>1, <2>4, <2>5 DEF File, Full
<1> QED
  BY <1>1, <1>4, <1>5, <1>6, <1>7 DEF Full

LEMMA PutFacts ==
  ASSUME dirs \in [Keys -> DirSet], NEW s \in Keys, NEW k \in Nat \ {0}, NEW item \in ItemSet
  PROVE  /\ Put(s, k, item) \in [Keys -> DirSet]
         /\ \A r \in Keys : r # s => Put(s, k, item)[r] = dirs[r]
         /\ \E m \in Nat : DOMAIN Put(s, k, item)[s].files = 1 .. m /\ m >= Len(dirs[s].files) /\ m >= k
         /\ \A j \in DOMAIN Put(s, k, item)[s].files :
              Put(s, k, item)[s].files[j] = IF j = k THEN Append(File(dirs[s].files, k), item) ELSE File(dirs[s].files, j)
<1> DEFINE fs == dirs[s].files
           m == Max({Len(fs), k})
           gs == [j \in 1 .. m |-> IF j = k THEN Append(File(fs, j), item) ELSE File(fs, j)]
<1>1. fs \in Seq(Seq(ItemSet)) /\ Len(fs) \in Nat
  BY DEF DirSet
<1>2. m \in Nat /\ m >= Len(fs) /\ m >= k
  <2>1. m = IF Len(fs) >= k THEN Len(fs) ELSE k
    BY <1>1 DEF Max
  <2> HIDE DEF m, fs
  <2> QED
    BY <1>1, <2>1
<1>3. Put(s, k, item) = [dirs EXCEPT ![s].files = gs]
  BY DEF Put
<1> HIDE DEF m, fs
<1>4. gs \in Seq(Seq(ItemSet)) /\ DOMAIN gs = 1 .. m
  <2>1. \A j \in 1 .. m : gs[j] \in Seq(ItemSet)
    BY <1>1, FilesAt
  <2> QED
    BY <1>2, <2>1
<1> DEFINE P == Put(s, k, item)
<1>5. P[s] = [dirs[s] EXCEPT !.files = gs] /\ \A r \in Keys : r # s => P[r] = dirs[r]
  BY <1>3
<1> HIDE DEF gs
<1>6. P[s] \in DirSet /\ P[s].files = gs
  BY <1>4, <1>5 DEF DirSet
<1>7. P \in [Keys -> DirSet]
  <2>1. P = [r \in Keys |-> P[r]]
    BY <1>3
  <2> HIDE DEF P
  <2> QED
    BY <1>5, <1>6, <2>1
<1> QED
  BY <1>2, <1>4, <1>5, <1>6, <1>7 DEF gs, fs

(***************************************************************************)
(* The variables keep their types, continued.                              *)
(***************************************************************************)
LEMMA CreateTempTyped == ASSUME StoreTypes, NEW t \in Threads, CreateTemp(t) PROVE StoreTypes'
<1> DEFINE i == IF tmp # 0 THEN tmp ELSE NewInode
<1>0. /\ At(t, "create") /\ tmp' = i /\ content' = [content EXCEPT ![i] = Torn]
      /\ task' = [task EXCEPT ![t].pc = "fill", ![t].fd = i]
      /\ UNCHANGED <<kind, lockFile, index, file, streams, calls, failures>>
  BY DEF CreateTemp
<1>a. i \in Inodes /\ i # 0
  BY <1>0, FreshInode, ThreadCount DEF StoreTypes, At
<1> HIDE DEF i
<1> DEFINE x == [task[t] EXCEPT !.pc = "fill", !.fd = i]
<1>1. task' = [task EXCEPT ![t] = x]
  BY <1>0 DEF StoreTypes, At
<1>2. Placed(x)
  BY <1>0, <1>a DEF StoreTypes, Placed, TaskSet, Places, At
<1>3. OtherTypes'
  BY <1>0, <1>a DEF StoreTypes, OtherTypes, Torn, CopySet, index, streams
<1> HIDE DEF x
<1> QED
  BY <1>1, <1>2, <1>3, OneMoves

LEMMA OpenLockTyped == ASSUME StoreTypes, NEW t \in Threads, OpenLock(t) PROVE StoreTypes'
<1> DEFINE i == IF lockFile # 0 THEN lockFile ELSE NewInode
<1>0. /\ Calls(t, "lock") /\ lockFile' = i /\ task' = [task EXCEPT ![t].pc = "flock", ![t].fd = i]
      /\ UNCHANGED <<kind, index, copy, streams, failures>>
  BY DEF OpenLock
<1>a. i \in Inodes /\ i # 0
  BY <1>0, FreshInode, ThreadCount DEF StoreTypes, At, Calls
<1> HIDE DEF i
<1> DEFINE x == [task[t] EXCEPT !.pc = "flock", !.fd = i]
<1>1. task' = [task EXCEPT ![t] = x]
  BY <1>0 DEF StoreTypes, At, Calls, Called
<1>2. Placed(x)
  BY <1>0, <1>a DEF StoreTypes, Placed, TaskSet, Places, At, Calls, Called
<1>3. OtherTypes'
  BY <1>0, <1>a DEF StoreTypes, OtherTypes, index, copy, streams
<1> HIDE DEF x
<1> QED
  BY <1>1, <1>2, <1>3, OneMoves

LEMMA WrittenTyped ==
  ASSUME StoreTypes, NEW s \in Keys, NEW part \in {"metadata", "request", "response"}
  PROVE  /\ Written(s, part) \in [Keys -> DirSet]
         /\ \A r \in Keys : Written(s, part)[r].files = dirs[r].files
<1> DEFINE d == [dirs[s] EXCEPT !.parts = @ \cup {part}]
<1>1. dirs[s] \in DirSet /\ dirs \in [Keys -> DirSet]
  BY DEF StoreTypes
<1>2. d \in DirSet /\ d.files = dirs[s].files
  BY <1>1 DEF DirSet
<1>3. Written(s, part) = [dirs EXCEPT ![s] = d]
  BY <1>1 DEF Written
<1> HIDE DEF d
<1> QED
  BY <1>1, <1>2, <1>3

LEMMA CreateSessionTyped == ASSUME StoreTypes, NEW t \in Threads, CreateSession(t) PROVE StoreTypes'
<1>0. PICK s \in Keys :
        /\ Calls(t, "sessions") /\ dirs' = Written(s, "metadata")
        /\ task' = [task EXCEPT ![t].pc = "upsert", ![t].key = s]
        /\ UNCHANGED <<kind, lockFile, index, copy, appended, mixed, failures>>
  BY DEF CreateSession
<1> DEFINE x == [task[t] EXCEPT !.pc = "upsert", !.key = s]
<1>1. task' = [task EXCEPT ![t] = x]
  BY <1>0 DEF StoreTypes, At, Calls, Called
<1>2. Placed(x)
  BY <1>0 DEF StoreTypes, Placed, TaskSet, Places, At, Calls, Called
<1>3. OtherTypes'
  BY <1>0, WrittenTyped DEF StoreTypes, OtherTypes, index, copy
<1> HIDE DEF x
<1> QED
  BY <1>1, <1>2, <1>3, OneMoves

LEMMA AppendBodyTyped == ASSUME StoreTypes, NEW t \in Threads, AppendBody(t) PROVE StoreTypes'
<1>0. PICK s \in Keys, part \in {"request", "response"} :
        dirs' = Written(s, part) /\ UNCHANGED <<kind, lockFile, index, task, copy, appended, mixed, failures>>
  BY DEF AppendBody
<1>1. dirs' \in [Keys -> DirSet]
  BY <1>0, WrittenTyped
<1> QED
  BY <1>0, <1>1 DEF StoreTypes, index, copy

LEMMA GetMetadataTyped == ASSUME StoreTypes, NEW t \in Threads, GetMetadata(t) PROVE StoreTypes'
<1>0. PICK s \in Keys :
        /\ Calls(t, "sessions")
        /\ task' = IF s \in mem \/ "metadata" \notin dirs[s].parts THEN task
                   ELSE [task EXCEPT ![t].pc = "upsert", ![t].key = s]
        /\ UNCHANGED <<kind, lockFile, index, copy, streams, failures>>
  BY DEF GetMetadata
<1> DEFINE x == IF s \in mem \/ "metadata" \notin dirs[s].parts THEN task[t] ELSE [task[t] EXCEPT !.pc = "upsert", !.key = s]
<1>1. task' = [task EXCEPT ![t] = x]
  BY <1>0 DEF StoreTypes, At, Calls, Called
<1>2. Placed(x)
  <2>1. PICK y : y = task[t]
    OBVIOUS
  <2>2. y \in TaskSet /\ Placed(y) /\ y.fd = 0
    BY <1>0, <2>1, TypesApart DEF StoreTypes, Calls, At
  <2>3. x = y \/ x = [y EXCEPT !.pc = "upsert", !.key = s]
    BY <2>1
  <2> HIDE DEF x
  <2> QED
    BY <2>2, <2>3 DEF Placed, TaskSet, Places
<1>3. OtherTypes'
  BY <1>0 DEF StoreTypes, OtherTypes, index, copy, streams
<1> HIDE DEF x
<1> QED
  BY <1>1, <1>2, <1>3, OneMoves

LEMMA AppendEventIs ==
  ASSUME StoreTypes, NEW t \in Threads, AppendEvent(t)
  PROVE  \E s \in Keys, k \in Nat \ {0}, item \in ItemSet :
           /\ item.event = appended[s] + 1 /\ k = Rotated(dirs[s].files, 1, item.size)
           /\ dirs' = Put(s, k, item) /\ appended' = [appended EXCEPT ![s] = @ + 1]
           /\ task[t].pc = "idle"
           /\ task'[t].pc = "newline" /\ task'[t].key = s /\ task'[t].at = k /\ ~task'[t].gone
           /\ \A u \in Threads : u # t => task'[u] = task[u]
           /\ Placed(task'[t]) /\ task' = [task EXCEPT ![t] = task'[t]]
           /\ mixed' = IF \E u \in Threads : task[u].pc = "newline" /\ task[u].key = s THEN mixed \cup {s} ELSE mixed
           /\ UNCHANGED <<kind, lockFile, index, copy, failures>>
<1>1. PICK s \in Keys, size \in EventSizes :
        LET k == Rotated(dirs[s].files, 1, size) IN
        /\ dirs' = Put(s, k, Item(appended[s] + 1, size))
        /\ task' = [task EXCEPT ![t] = [Idle EXCEPT !.pc = "newline", !.key = s, !.at = k,
                                          !.size = Bytes(File(dirs[s].files, k)) + size]]
        /\ appended' = [appended EXCEPT ![s] = @ + 1]
        /\ mixed' = IF \E u \in Threads : task[u].pc = "newline" /\ task[u].key = s THEN mixed \cup {s} ELSE mixed
        /\ Calls(t, "sessions") /\ UNCHANGED <<kind, lockFile, index, copy, failures>>
  BY DEF AppendEvent
<1> DEFINE fs == dirs[s].files
           k == Rotated(fs, 1, size)
           item == Item(appended[s] + 1, size)
           b == Bytes(File(fs, k))
           x == [Idle EXCEPT !.pc = "newline", !.key = s, !.at = k, !.size = b + size]
<1>2. size \in Nat /\ appended[s] \in Nat /\ fs \in Seq(Seq(ItemSet)) /\ task \in [Threads -> TaskSet]
  BY StoreAssumption DEF StoreTypes, DirSet
<1>3. k \in Nat \ {0} /\ b \in Nat
  <2> HIDE DEF fs
  <2> QED
    <3>1. 1 \in Nat \ {0} /\ k = Rotated(fs, 1, size) /\ b = Bytes(File(fs, k))
      OBVIOUS
    <3>2. File(fs, k) \in Seq(ItemSet)
      BY <1>2, FilesAt
    <3> HIDE DEF k, b
    <3> QED
      BY <1>2, <3>1, <3>2, RotatedFacts, BytesAdd
<1>4. item \in ItemSet /\ item.event = appended[s] + 1 /\ item.size = size
  BY <1>2 DEF Item, ItemSet
<1> HIDE DEF fs, k, item, b
<1>5. Placed(x) /\ x.pc = "newline" /\ x.key = s /\ x.at = k /\ ~x.gone
  <2>1. PICK z \in Nat : z = b + size
    BY <1>2, <1>3
  <2> DEFINE y == [Idle EXCEPT !.pc = "newline", !.key = s]
  <2>2. y \in TaskSet /\ y.pc = "newline" /\ y.key = s /\ y.gone = FALSE
    BY IdleIsPlaced DEF Placed, Idle, TaskSet, Places
  <2>3. x = [y EXCEPT !.at = k, !.size = z]
    BY <2>1
  <2> HIDE DEF x, y
  <2> QED
    BY <1>3, <2>2, <2>3 DEF Placed, TaskSet, Places
<1>6. task' = [task EXCEPT ![t] = x]
  BY <1>1 DEF k, fs, b
<1> HIDE DEF x
<1>7. task'[t] = x /\ \A u \in Threads : u # t => task'[u] = task[u]
  BY <1>2, <1>6
<1>8. task[t].pc = "idle"
  BY <1>1 DEF Calls, At
<1>9. dirs' = Put(s, k, item) /\ k = Rotated(dirs[s].files, 1, item.size)
  BY <1>1, <1>4 DEF k, item, fs
<1>10. /\ task'[t].pc = "newline" /\ task'[t].key = s /\ task'[t].at = k /\ ~task'[t].gone /\ Placed(task'[t])
       /\ \A u \in Threads : u # t => task'[u] = task[u]
       /\ task' = [task EXCEPT ![t] = task'[t]]
  <2> HIDE DEF Placed
  <2> QED
    BY <1>5, <1>6, <1>7
<1>11. /\ appended' = [appended EXCEPT ![s] = @ + 1]
       /\ mixed' = IF \E u \in Threads : task[u].pc = "newline" /\ task[u].key = s THEN mixed \cup {s} ELSE mixed
       /\ UNCHANGED <<kind, lockFile, index, copy, failures>>
  BY <1>1
<1> HIDE DEF Placed
<1> QED
  BY <1>3, <1>4, <1>8, <1>9, <1>10, <1>11

LEMMA AppendEventTyped == ASSUME StoreTypes, NEW t \in Threads, AppendEvent(t) PROVE StoreTypes'
<1>1. PICK s \in Keys, k \in Nat \ {0}, item \in ItemSet :
        /\ dirs' = Put(s, k, item) /\ appended' = [appended EXCEPT ![s] = @ + 1]
        /\ Placed(task'[t]) /\ task' = [task EXCEPT ![t] = task'[t]]
        /\ UNCHANGED <<kind, lockFile, index, copy, failures>>
  BY AppendEventIs
<1>2. dirs' \in [Keys -> DirSet]
  BY <1>1, PutFacts DEF StoreTypes
<1>3. appended' \in [Keys -> Nat]
  BY <1>1 DEF StoreTypes
<1>4. OtherTypes'
  <2> HIDE DEF Placed
  <2> QED
    BY <1>1, <1>2, <1>3 DEF StoreTypes, OtherTypes, index, copy
<1> QED
  BY <1>1, <1>4, OneMoves

LEMMA EndLineIs ==
  ASSUME StoreTypes, NEW t \in Threads, EndLine(t)
  PROVE  /\ task[t].pc = "newline" /\ task[t].key \in Keys /\ task[t].at \in Nat \ {0}
         /\ task' = [task EXCEPT ![t] = Idle]
         /\ UNCHANGED <<kind, lockFile, index, copy, appended, mixed, calls, failures>>
         /\ \/ dirs' = dirs /\ task[t].gone
            \/ \E k \in Nat \ {0}, item \in ItemSet :
                 /\ item.event = 0 /\ dirs' = Put(task[t].key, k, item)
                 /\ \/ k = task[t].at /\ ~task[t].gone
                    \/ k = Rotated(dirs[task[t].key].files, task[t].at, 1)
<1> DEFINE s == task[t].key
           k == task[t].at
           r == Rotated(dirs[s].files, k, 1)
<1>1. /\ task[t].pc = "newline" /\ s \in Keys /\ k \in Nat \ {0}
      /\ dirs[s].files \in Seq(Seq(ItemSet))
  BY DEF EndLine, At, StoreTypes, TaskSet, DirSet
<1>2. r \in Nat \ {0}
  BY <1>1, RotatedFacts
<1>3. Item(0, 1) \in ItemSet /\ Item(0, 1).event = 0
  BY DEF Item, ItemSet
<1>4. dirs' = IF task[t].size + 1 > MaxFile THEN Put(s, r, Item(0, 1))
              ELSE IF task[t].gone THEN dirs
              ELSE Put(s, k, Item(0, 1))
  BY DEF EndLine
<1>5. task' = [task EXCEPT ![t] = Idle] /\ UNCHANGED <<kind, lockFile, index, copy, appended, mixed, calls, failures>>
  BY DEF EndLine, Done
<1> HIDE DEF r
<1> QED
  BY <1>1, <1>2, <1>3, <1>4, <1>5 DEF r

LEMMA EndLineTyped == ASSUME StoreTypes, NEW t \in Threads, EndLine(t) PROVE StoreTypes'
<1>1. dirs' \in [Keys -> DirSet]
  <2>1. CASE dirs' = dirs
    BY <2>1 DEF StoreTypes
  <2>2. CASE \E k \in Nat \ {0}, item \in ItemSet : dirs' = Put(task[t].key, k, item)
    BY <2>2, EndLineIs, PutFacts DEF StoreTypes
  <2> QED
    BY <2>1, <2>2, EndLineIs
<1>2. OtherTypes'
  BY <1>1, EndLineIs DEF StoreTypes, OtherTypes, index, copy
<1> QED
  BY <1>2, EndLineIs, IdleIsPlaced, OneMoves

LEMMA RemoveDirTyped == ASSUME StoreTypes, NEW t \in Threads, RemoveDir(t) PROVE StoreTypes'
<1>1. PICK s \in task[t].todo :
        /\ dirs' = [dirs EXCEPT ![s] = NoDir]
        /\ appended' = [appended EXCEPT ![s] = 0]
        /\ task' = [u \in Threads |->
             IF u = t THEN [task[t] EXCEPT !.pc = "remove", !.key = s, !.todo = @ \ {s}]
             ELSE IF task[u].pc = "newline" /\ task[u].key = s THEN [task[u] EXCEPT !.gone = TRUE]
             ELSE task[u]]
        /\ At(t, "delete") /\ UNCHANGED <<kind, lockFile, index, copy, calls, failures>>
  BY DEF RemoveDir
<1>2. s \in Keys
  BY DEF StoreTypes, TaskSet
<1>3. NoDir \in DirSet
  <2>1. << >> \in Seq(Seq(ItemSet))
    OBVIOUS
  <2> QED
    BY <2>1 DEF NoDir, DirSet
<1>4. OtherTypes'
  BY <1>1, <1>2, <1>3 DEF StoreTypes, OtherTypes, index, copy
<1>5. ASSUME NEW u \in Threads PROVE Placed(task'[u])
  <2>1. task[u] \in TaskSet /\ Placed(task[u])
    BY TypesApart
  <2>2. CASE u = t
    BY <1>1, <1>2, <2>1, <2>2 DEF Placed, TaskSet, Places, At
  <2>3. CASE u # t /\ task[u].pc = "newline" /\ task[u].key = s
    BY <1>1, <2>1, <2>3 DEF Placed, TaskSet
  <2>4. CASE u # t /\ ~(task[u].pc = "newline" /\ task[u].key = s)
    BY <1>1, <2>1, <2>4
  <2> QED
    BY <2>2, <2>3, <2>4
<1>6. task' \in [Threads -> TaskSet]
  BY <1>1, <1>5 DEF Placed
<1> HIDE DEF Placed
<1> QED
  BY <1>4, <1>5, <1>6 DEF StoreTypes, OtherTypes, Placed

LEMMA StoreCrashTyped == ASSUME StoreTypes, StoreCrash PROVE StoreTypes'
<1>1. task' = [t \in Threads |-> Idle] /\ Idle \in TaskSet
  BY IdleIsPlaced DEF StoreCrash, Placed
<1>2. OtherTypes'
  <2>1. mem' \in SUBSET Keys
    BY DEF StoreTypes, StoreCrash, CopySet
  <2> QED
    BY <2>1 DEF StoreTypes, OtherTypes, StoreCrash, copy
<1> QED
  BY <1>1, <1>2, IdleIsPlaced DEF StoreTypes, OtherTypes, Placed

LEMMA StayTyped == ASSUME StoreTypes, UNCHANGED storeVars PROVE StoreTypes'
BY DEF StoreTypes, storeVars, index, copy, streams

LEMMA TypesStep == StoreTypes /\ [StoreNext]_storeVars => StoreTypes'
<1> SUFFICES ASSUME StoreTypes, [StoreNext]_storeVars PROVE StoreTypes'
  OBVIOUS
<1>1. CASE UNCHANGED storeVars
  BY <1>1, StayTyped
<1>2. CASE StoreCrash
  BY <1>2, StoreCrashTyped
<1>3. ASSUME NEW t \in Threads, Step(t) PROVE StoreTypes'
  BY <1>3, SnapshotTyped, CreateTempTyped, FillTyped, FillFailsTyped, RenameTyped, SetTyped, SetManyTyped,
     DeleteTyped, IncrementTyped, PersistTyped, CreateSessionTyped, AppendBodyTyped, GetMetadataTyped, UpsertTyped,
     DropEntryTyped, DeleteSessionsTyped, RemoveDirTyped, AppendEventTyped, EndLineTyped, OpenLockTyped, FlockTyped,
     UnlockTyped, RemoveLockFileTyped DEF Step
<1> QED
  BY <1>1, <1>2, <1>3 DEF StoreNext

(***************************************************************************)
(* The index and its file.                                                 *)
(***************************************************************************)
Writing == {"snapshot", "create", "fill", "rename"}

LEMMA IndexAtFirst == StoreInit => IndexInv
<1> SUFFICES ASSUME StoreInit PROVE IndexInv
  OBVIOUS
<1>1. \A t \in Threads : task[t].pc = "idle"
  BY DEF StoreInit, Idle
<1> QED
  BY <1>1 DEF StoreInit, IndexInv, Behind

LEMMA IndexElsewhere ==
  ASSUME kind' = kind, kind # "sessions" \/ failures' # 0
  PROVE  IndexInv'
BY DEF IndexInv

LEMMA IndexUntouched ==
  ASSUME IndexInv, UNCHANGED <<kind, mem, readers, tmp, file, content, failures>>,
         \A u \in Threads : task'[u] = task[u] \/ (task[u].pc \notin Writing /\ task'[u].pc \notin Writing)
  PROVE  IndexInv'
<1> SUFFICES ASSUME kind = "sessions", failures = 0 PROVE IndexInv'
  BY DEF IndexInv
<1>1. \A u \in Threads : task[u].pc \in Writing \/ task'[u].pc \in Writing => task'[u] = task[u]
  OBVIOUS
<1>2. {t \in Threads : task'[t].pc \in {"create", "fill", "rename"}} = {t \in Threads : task[t].pc \in {"create", "fill", "rename"}}
  BY <1>1 DEF Writing
<1>3. \A t \in Threads : Mends(t) => Mends(t)'
  BY <1>1 DEF Writing, Mends
<1>4. Behind' <=> Behind
  BY DEF Behind, Whole
<1>5. \A t \in readers : task'[t].snap = mem
  BY <1>1, <1>2 DEF IndexInv, Writing
<1>6. tmp # 0 /\ content[tmp] = Torn => \E t \in Threads : task'[t].pc = "fill" /\ task'[t].fd = tmp
  BY <1>1 DEF IndexInv, Writing
<1>7. \A t \in Threads : task'[t].pc = "fill" => content[task'[t].fd] \in {Torn, Whole(mem)}
  BY <1>1 DEF IndexInv, Writing
<1> QED
  BY <1>2, <1>3, <1>4, <1>5, <1>6, <1>7 DEF IndexInv, Torn, Whole


LEMMA SnapshotIndexed == ASSUME StoreTypes, IndexInv, NEW t \in Threads, Snapshot(t) PROVE IndexInv'
<1> SUFFICES ASSUME kind = "sessions", failures = 0 PROVE IndexInv'
  BY IndexElsewhere DEF Snapshot
<1>1. /\ task[t].pc = "snapshot" /\ task'[t].pc = "create" /\ task'[t].snap = mem /\ task'[t].fd = task[t].fd
      /\ \A u \in Threads : u # t => task'[u] = task[u]
  BY DEF Snapshot, At, StoreTypes, TaskSet
<1>2. readers' = readers \cup {t} /\ UNCHANGED <<kind, mem, tmp, file, content, failures>>
  BY DEF Snapshot, copy
<1>3. \A u \in Threads : Mends(u) => Mends(u)'
  BY <1>1, <1>2 DEF Mends
<1>4. Behind' <=> Behind
  BY <1>2 DEF Behind, Whole
<1>5. readers' = {u \in Threads : task'[u].pc \in {"create", "fill", "rename"}}
  BY <1>1, <1>2 DEF IndexInv
<1>6. \A u \in readers' : task'[u].snap = mem'
  BY <1>1, <1>2 DEF IndexInv
<1>7. /\ tmp # 0 /\ content[tmp] = Torn => \E u \in Threads : task'[u].pc = "fill" /\ task'[u].fd = tmp
      /\ \A u \in Threads : task'[u].pc = "fill" => content[task'[u].fd] \in {Torn, Whole(mem)}
  BY <1>1 DEF IndexInv
<1> QED
  BY <1>2, <1>3, <1>4, <1>5, <1>6, <1>7 DEF IndexInv, Torn, Whole

LEMMA CreateTempIndexed == ASSUME StoreTypes, IndexInv, NEW t \in Threads, CreateTemp(t) PROVE IndexInv'
<1> SUFFICES ASSUME kind = "sessions", failures = 0 PROVE IndexInv'
  BY IndexElsewhere DEF CreateTemp
<1> DEFINE i == IF tmp # 0 THEN tmp ELSE NewInode
<1>1. /\ task[t].pc = "create" /\ tmp' = i /\ content' = [content EXCEPT ![i] = Torn]
      /\ task' = [task EXCEPT ![t].pc = "fill", ![t].fd = i]
      /\ UNCHANGED <<kind, mem, readers, file, failures>>
  BY DEF CreateTemp, At, index
<1>2. /\ i \in Inodes /\ i # 0 /\ i # file
      /\ tmp = 0 => \A u \in Threads : task[u].fd # i
  BY <1>1, FreshInode, ThreadCount DEF StoreTypes, IndexInv
<1> HIDE DEF i
<1>3. /\ task'[t].pc = "fill" /\ task'[t].fd = i /\ task'[t].snap = task[t].snap
      /\ \A u \in Threads : u # t => task'[u] = task[u]
  BY <1>1 DEF StoreTypes, TaskSet
<1>4. content'[i] = Torn /\ \A k \in Inodes : k # i => content'[k] = content[k]
  BY <1>1, <1>2 DEF StoreTypes
<1>5. readers' = {u \in Threads : task'[u].pc \in {"create", "fill", "rename"}} /\ t \in readers'
  BY <1>1, <1>3 DEF IndexInv
<1>6. \A u \in readers' : task'[u].snap = mem'
  BY <1>1, <1>3, <1>5 DEF IndexInv
<1>7. \A u \in Threads : task'[u].pc = "fill" => content'[task'[u].fd] \in {Torn, Whole(mem)'}
  <2>1. ASSUME NEW u \in Threads, u # t, task[u].pc = "fill" PROVE content'[task[u].fd] \in {Torn, Whole(mem)}
    <3>1. task[u].fd \in Inodes /\ content[task[u].fd] \in {Torn, Whole(mem)}
      BY <2>1 DEF StoreTypes, TaskSet, IndexInv
    <3> QED
      BY <1>4, <3>1
  <2>2. Whole(mem)' = Whole(mem)
    BY <1>1 DEF Whole
  <2> QED
    BY <1>3, <1>4, <2>1, <2>2
<1>8. Behind' => \E u \in Threads : Mends(u)'
  BY <1>1, <1>2, <1>3 DEF Mends
<1>9. /\ tmp' # file' /\ content'[tmp'] = Torn
      /\ \E u \in Threads : task'[u].pc = "fill" /\ task'[u].fd = tmp'
  BY <1>1, <1>2, <1>3, <1>4
<1> QED
  BY <1>1, <1>5, <1>6, <1>7, <1>8, <1>9 DEF IndexInv, Torn

LEMMA FillIndexed == ASSUME StoreTypes, IndexInv, NEW t \in Threads, Fill(t) PROVE IndexInv'
<1> SUFFICES ASSUME kind = "sessions", failures = 0 PROVE IndexInv'
  BY IndexElsewhere DEF Fill
<1> DEFINE i == task[t].fd
<1>1. /\ task[t].pc = "fill" /\ i \in Inodes /\ i # 0 /\ t \in readers /\ task[t].snap = mem
      /\ content[i] \in {Torn, Whole(mem)}
  BY DEF Fill, At, StoreTypes, TaskSet, IndexInv
<1>2. UNCHANGED <<kind, mem, readers, tmp, file, failures>>
  BY DEF Fill, index
<1>3. content' = [content EXCEPT ![i] = Whole(mem)]
  <2>1. PICK c \in {Whole(mem), Torn} :
          /\ c = Torn => content[i].whole /\ content[i] # Whole(mem)
          /\ content' = [content EXCEPT ![i] = c]
    BY <1>1 DEF Fill
  <2>2. ~Torn.whole
    BY DEF Torn
  <2> QED
    BY <1>1, <2>1, <2>2
<1> HIDE DEF i
<1>4. content'[i] = Whole(mem) /\ \A k \in Inodes : k # i => content'[k] = content[k]
  BY <1>1, <1>3 DEF StoreTypes
<1>5. /\ task'[t].pc = "rename" /\ task'[t].snap = mem
      /\ \A u \in Threads : u # t => task'[u] = task[u]
  BY <1>1 DEF Fill, Proceeds, StoreTypes, TaskSet
<1>6. readers' = {u \in Threads : task'[u].pc \in {"create", "fill", "rename"}}
  BY <1>1, <1>2, <1>5 DEF IndexInv
<1>7. \A u \in readers' : task'[u].snap = mem'
  BY <1>2, <1>5 DEF IndexInv
<1>8. Whole(mem)' = Whole(mem)
  BY <1>2 DEF Whole
<1>9. ASSUME NEW u \in Threads, task'[u].pc = "fill" PROVE content'[task'[u].fd] \in {Torn, Whole(mem)'}
  <2>1. u # t /\ task'[u] = task[u]
    BY <1>5, <1>9
  <2>2. task[u].fd \in Inodes /\ content[task[u].fd] \in {Torn, Whole(mem)}
    BY <1>9, <2>1 DEF StoreTypes, TaskSet, IndexInv
  <2> QED
    BY <1>4, <1>8, <2>1, <2>2
<1>10. Torn # Whole(mem)
  BY DEF Torn, Whole
<1>11. tmp' # 0 => /\ tmp' # file' /\ content'[tmp'] \in {Torn, Whole(mem)'}
                   /\ content'[tmp'] = Torn => \E u \in Threads : task'[u].pc = "fill" /\ task'[u].fd = tmp'
  <2> SUFFICES ASSUME tmp # 0
               PROVE  /\ tmp # file /\ content'[tmp] \in {Torn, Whole(mem)}
                      /\ content'[tmp] = Torn => \E u \in Threads : task'[u].pc = "fill" /\ task'[u].fd = tmp
    BY <1>2, <1>8
  <2>1. tmp \in Inodes
    BY DEF StoreTypes
  <2>2. CASE tmp = i
    BY <1>4, <1>10, <2>2 DEF IndexInv
  <2>3. CASE tmp # i
    <3>1. content'[tmp] = content[tmp] /\ tmp # file /\ content[tmp] \in {Torn, Whole(mem)}
      BY <1>4, <2>1, <2>3 DEF IndexInv
    <3>2. ASSUME content[tmp] = Torn PROVE \E u \in Threads : task'[u].pc = "fill" /\ task'[u].fd = tmp
      <4>1. PICK u \in Threads : task[u].pc = "fill" /\ task[u].fd = tmp
        BY <3>2 DEF IndexInv
      <4>2. u # t
        BY <2>3, <4>1 DEF i
      <4> QED
        BY <1>5, <4>1, <4>2
    <3> QED
      BY <3>1, <3>2
  <2> QED
    BY <2>2, <2>3
<1>12. Behind' => \E u \in Threads : Mends(u)'
  <2> SUFFICES ASSUME Behind' PROVE \E u \in Threads : Mends(u)'
    OBVIOUS
  <2>1. file # i
    BY <1>1, <1>2, <1>4, <1>8, ThreadCount DEF Behind
  <2>2. Behind
    BY <1>2, <1>4, <1>8, <2>1 DEF Behind, StoreTypes
  <2>3. PICK u \in Threads : Mends(u)
    BY <2>2 DEF IndexInv
  <2>4. CASE u = t
    BY <1>1, <1>2, <1>5, <2>1, <2>3, <2>4 DEF Mends, i
  <2>5. CASE u # t
    BY <1>2, <1>5, <2>3, <2>5 DEF Mends
  <2> QED
    BY <2>4, <2>5
<1>13. readers' # {}
  BY <1>1, <1>2
<1> QED
  BY <1>6, <1>7, <1>9, <1>11, <1>12, <1>13 DEF IndexInv, Torn

LEMMA RenameIndexed == ASSUME StoreTypes, IndexInv, NEW t \in Threads, Rename(t) PROVE IndexInv'
<1> SUFFICES ASSUME kind = "sessions", failures = 0 PROVE IndexInv'
  BY IndexElsewhere DEF Rename
<1>1. /\ task[t].pc = "rename" /\ t \in readers
      /\ file' = (IF tmp # 0 THEN tmp ELSE file) /\ tmp' = 0
      /\ readers' = readers \ {t}
      /\ UNCHANGED <<kind, mem, content, failures>>
  BY DEF Rename, At, Persisted, IndexInv
<1>2. /\ task'[t].pc \in {"idle", "delete"}
      /\ \A u \in Threads : u # t => task'[u] = task[u]
  BY DEF Rename, Persisted, Idle, StoreTypes
<1>3. readers' = {u \in Threads : task'[u].pc \in {"create", "fill", "rename"}}
  BY <1>1, <1>2 DEF IndexInv
<1>4. \A u \in readers' : task'[u].snap = mem'
  BY <1>1, <1>2, <1>3 DEF IndexInv
<1>5. Whole(mem)' = Whole(mem)
  BY <1>1 DEF Whole
<1>6. \A u \in Threads : task'[u].pc = "fill" => content'[task'[u].fd] \in {Torn, Whole(mem)'}
  BY <1>1, <1>2, <1>5 DEF IndexInv
<1>7. Behind' => \E u \in Threads : Mends(u)'
  <2> SUFFICES ASSUME Behind' PROVE \E u \in Threads : Mends(u)'
    OBVIOUS
  <2>1. CASE tmp # 0
    <3>1. file' = tmp /\ content[tmp] # Whole(mem)
      BY <1>1, <1>5, <2>1 DEF Behind
    <3>2. content[tmp] = Torn
      BY <2>1, <3>1 DEF IndexInv
    <3>3. PICK u \in Threads : task[u].pc = "fill" /\ task[u].fd = tmp
      BY <2>1, <3>2 DEF IndexInv
    <3>4. u # t
      BY <1>1, <3>3
    <3> QED
      BY <1>2, <3>1, <3>3, <3>4 DEF Mends
  <2>2. CASE tmp = 0
    <3>1. file' = file /\ Behind
      BY <1>1, <1>5, <2>2 DEF Behind
    <3>2. PICK u \in Threads : Mends(u)
      BY <3>1 DEF IndexInv
    <3>3. u # t
      BY <1>1, <2>2, <3>2 DEF Mends
    <3> QED
      BY <1>2, <2>2, <3>1, <3>2, <3>3 DEF Mends
  <2> QED
    BY <2>1, <2>2
<1> QED
  BY <1>1, <1>3, <1>4, <1>6, <1>7 DEF IndexInv, Torn

(* The index changes only while nobody writes it. *)
LEMMA MemoryIndexed ==
  ASSUME StoreTypes, IndexInv, NEW t \in Threads, Upsert(t) \/ DropEntry(t)
  PROVE  IndexInv'
<1> SUFFICES ASSUME kind = "sessions", failures = 0 PROVE IndexInv'
  BY IndexElsewhere DEF Upsert, DropEntry
<1>1. readers = {} /\ readers' = {} /\ UNCHANGED <<kind, tmp, file, content, failures>>
  BY DEF Upsert, DropEntry, copy
<1>2. task[t].pc \notin {"create", "fill", "rename"} /\ task'[t].pc = "snapshot"
      /\ \A u \in Threads : u # t => task'[u] = task[u]
  BY DEF Upsert, DropEntry, At, Proceeds, StoreTypes, TaskSet
<1>3. {u \in Threads : task[u].pc \in {"create", "fill", "rename"}} = {} /\ tmp = 0
  BY <1>1 DEF IndexInv
<1>4. \A u \in Threads : task'[u].pc \notin {"create", "fill", "rename"}
  BY <1>2, <1>3
<1>5. \E u \in Threads : Mends(u)'
  BY <1>2 DEF Mends
<1> QED
  BY <1>1, <1>3, <1>4, <1>5 DEF IndexInv

LEMMA CreateSessionAside == ASSUME StoreTypes, NEW t \in Threads, CreateSession(t)
  PROVE \A u \in Threads : task'[u] = task[u] \/ (task[u].pc \notin Writing /\ task'[u].pc \notin Writing)
BY DEF StoreTypes, TaskSet, Writing, CreateSession, Calls, At

LEMMA AppendBodyAside == ASSUME StoreTypes, NEW t \in Threads, AppendBody(t)
  PROVE \A u \in Threads : task'[u] = task[u] \/ (task[u].pc \notin Writing /\ task'[u].pc \notin Writing)
BY DEF StoreTypes, TaskSet, Writing, AppendBody

LEMMA GetMetadataAside == ASSUME StoreTypes, NEW t \in Threads, GetMetadata(t)
  PROVE \A u \in Threads : task'[u] = task[u] \/ (task[u].pc \notin Writing /\ task'[u].pc \notin Writing)
BY DEF StoreTypes, TaskSet, Writing, GetMetadata, Calls, At

LEMMA DeleteSessionsAside == ASSUME StoreTypes, NEW t \in Threads, DeleteSessions(t)
  PROVE \A u \in Threads : task'[u] = task[u] \/ (task[u].pc \notin Writing /\ task'[u].pc \notin Writing)
BY DEF StoreTypes, TaskSet, Writing, DeleteSessions, Calls, At

LEMMA FlockAside == ASSUME StoreTypes, NEW t \in Threads, Flock(t)
  PROVE \A u \in Threads : task'[u] = task[u] \/ (task[u].pc \notin Writing /\ task'[u].pc \notin Writing)
BY DEF StoreTypes, TaskSet, Writing, Flock, At, Proceeds, Done, Idle

LEMMA UnlockAside == ASSUME StoreTypes, NEW t \in Threads, Unlock(t)
  PROVE \A u \in Threads : task'[u] = task[u] \/ (task[u].pc \notin Writing /\ task'[u].pc \notin Writing)
BY DEF StoreTypes, TaskSet, Writing, Unlock, At, Proceeds

LEMMA RemoveLockFileAside == ASSUME StoreTypes, NEW t \in Threads, RemoveLockFile(t)
  PROVE \A u \in Threads : task'[u] = task[u] \/ (task[u].pc \notin Writing /\ task'[u].pc \notin Writing)
BY DEF StoreTypes, TaskSet, Writing, RemoveLockFile, At, Done, Idle

LEMMA RemoveDirAside == ASSUME StoreTypes, NEW t \in Threads, RemoveDir(t)
  PROVE \A u \in Threads : task'[u] = task[u] \/ (task[u].pc \notin Writing /\ task'[u].pc \notin Writing)
BY DEF StoreTypes, TaskSet, Writing, RemoveDir, At

LEMMA IndexStep == StoreTypes /\ IndexInv /\ [StoreNext]_storeVars => IndexInv'
<1> SUFFICES ASSUME StoreTypes, IndexInv, [StoreNext]_storeVars PROVE IndexInv'
  OBVIOUS
<1>1. CASE UNCHANGED storeVars
  BY <1>1, IndexUntouched DEF storeVars, index, copy
<1>2. CASE StoreCrash
  <2>1. kind' = kind /\ failures' # 0
    BY <1>2 DEF StoreCrash, StoreTypes
  <2> QED
    BY <2>1, IndexElsewhere
<1>3. ASSUME NEW t \in Threads, Step(t) PROVE IndexInv'
  <2>1. CASE Snapshot(t) \/ CreateTemp(t) \/ Fill(t) \/ Rename(t) \/ Upsert(t) \/ DropEntry(t)
    BY <2>1, SnapshotIndexed, CreateTempIndexed, FillIndexed, RenameIndexed, MemoryIndexed
  <2>2. CASE FillFails(t)
    <3>1. kind' = kind /\ failures' # 0
      BY <2>2 DEF FillFails, StoreTypes
    <3> QED
      BY <3>1, IndexElsewhere
  <2>3. CASE Set(t) \/ SetMany(t) \/ Delete(t) \/ Increment(t) \/ Persist(t) \/ OpenLock(t)
    <3>1. kind' = kind /\ kind # "sessions"
      BY <2>3 DEF Set, SetMany, Delete, Increment, Persist, OpenLock, Calls, Change
    <3> QED
      BY <3>1, IndexElsewhere
  <2>4. CASE \/ CreateSession(t) \/ AppendBody(t) \/ GetMetadata(t) \/ DeleteSessions(t) \/ Flock(t)
             \/ Unlock(t) \/ RemoveLockFile(t) \/ RemoveDir(t)
    <3>1. \A u \in Threads : task'[u] = task[u] \/ (task[u].pc \notin Writing /\ task'[u].pc \notin Writing)
      BY <2>4, CreateSessionAside, AppendBodyAside, GetMetadataAside, DeleteSessionsAside, FlockAside, UnlockAside,
         RemoveLockFileAside, RemoveDirAside
    <3>2. UNCHANGED <<kind, mem, readers, tmp, file, content, failures>>
      BY <2>4 DEF CreateSession, AppendBody, GetMetadata, DeleteSessions, Flock, Unlock, RemoveLockFile, RemoveDir,
         index, copy
    <3> QED
      BY <3>1, <3>2, IndexUntouched
  <2>5. CASE AppendEvent(t)
    <3>1. /\ \A u \in Threads : u # t => task'[u] = task[u]
          /\ task[t].pc = "idle" /\ task'[t].pc = "newline"
          /\ UNCHANGED <<kind, mem, readers, tmp, file, content, failures>>
      BY <2>5, AppendEventIs DEF index, copy
    <3> QED
      BY <3>1, IndexUntouched DEF Writing
  <2>6. CASE EndLine(t)
    <3>1. /\ task[t].pc = "newline" /\ task' = [task EXCEPT ![t] = Idle]
          /\ UNCHANGED <<kind, mem, readers, tmp, file, content, failures>>
      BY <2>6, EndLineIs DEF index, copy
    <3> QED
      BY <3>1, IndexUntouched DEF Writing, Idle, StoreTypes
  <2> QED
    BY <1>3, <2>1, <2>2, <2>3, <2>4, <2>5, <2>6 DEF Step
<1> QED
  BY <1>1, <1>2, <1>3 DEF StoreNext

(***************************************************************************)
(* The stream events.                                                      *)
(***************************************************************************)
(* What has become of the files once an item went to the end of the k-th. *)
Extended(fs, gs, k, item) ==
  \E m \in Nat :
    /\ DOMAIN gs = 1 .. m /\ m >= Len(fs) /\ m >= k
    /\ \A j \in 1 .. m : gs[j] = IF j = k THEN Append(File(fs, k), item) ELSE File(fs, j)

LEMMA GrownFile ==
  ASSUME NEW fs \in Seq(Seq(ItemSet)), NEW gs, NEW k \in Nat \ {0}, NEW item \in ItemSet, Extended(fs, gs, k, item)
  PROVE  /\ k \in DOMAIN gs /\ DOMAIN fs \subseteq DOMAIN gs /\ DOMAIN gs \subseteq Nat \ {0}
         /\ gs[k] = Append(File(fs, k), item)
         /\ \A j \in DOMAIN gs : j # k => gs[j] = File(fs, j)
         /\ \A j \in DOMAIN fs : Full(fs[j]) => Full(gs[j])
<1>1. PICK m \in Nat :
        /\ DOMAIN gs = 1 .. m /\ m >= Len(fs) /\ m >= k
        /\ \A j \in 1 .. m : gs[j] = IF j = k THEN Append(File(fs, k), item) ELSE File(fs, j)
  BY DEF Extended
<1>2. DOMAIN fs = 1 .. Len(fs) /\ Len(fs) \in Nat
  OBVIOUS
<1>3. k \in 1 .. m
  BY <1>1
<1>4. gs[k] = Append(File(fs, k), item)
  BY <1>1, <1>3
<1>5. ASSUME NEW j \in DOMAIN fs, Full(fs[j]) PROVE Full(gs[j])
  <2>1. File(fs, j) = fs[j] /\ fs[j] \in Seq(ItemSet)
    BY DEF File
  <2>2. CASE j = k
    <3>1. gs[j] = Append(fs[j], item)
      BY <1>4, <2>1, <2>2
    <3>2. Bytes(fs[j]) \in Nat /\ Bytes(Append(fs[j], item)) = Bytes(fs[j]) + item.size /\ item.size \in Nat
      BY <2>1, BytesAdd DEF ItemSet
    <3> QED
      BY <1>5, <3>1, <3>2, StoreAssumption DEF Full
  <2>3. CASE j # k
    BY <1>1, <1>2, <1>5, <2>1, <2>3
  <2> QED
    BY <2>2, <2>3
<1> QED
  BY <1>1, <1>2, <1>3, <1>4, <1>5

LEMMA SpotsGrow ==
  ASSUME NEW fs \in Seq(Seq(ItemSet)), NEW gs, NEW k \in Nat \ {0}, NEW item \in ItemSet, Extended(fs, gs, k, item)
  PROVE  /\ item.event = 0 => Spots(gs) = Spots(fs)
         /\ item.event # 0 => Spots(gs) = Spots(fs) \cup {<<k, Len(File(fs, k)) + 1>>}
         /\ \A p \in Spots(fs) : EventAt(gs, p) = EventAt(fs, p)
         /\ EventAt(gs, <<k, Len(File(fs, k)) + 1>>) = item.event
<1> DEFINE f == File(fs, k)
           n == Len(f)
           Here(hs, p) == p[1] \in DOMAIN hs /\ p[2] \in DOMAIN hs[p[1]] /\ hs[p[1]][p[2]].event # 0
<1>1. \A hs : \A p : p \in Spots(hs) <=> p = <<p[1], p[2]>> /\ Here(hs, p)
  BY DEF Spots
<1>2. /\ k \in DOMAIN gs /\ DOMAIN fs \subseteq DOMAIN gs
      /\ gs[k] = Append(f, item)
      /\ \A j \in DOMAIN gs : j # k => gs[j] = File(fs, j)
  BY GrownFile
<1>3. f \in Seq(ItemSet) /\ n \in Nat /\ DOMAIN f = 1 .. n
  BY FilesAt
<1>4. DOMAIN gs[k] = 1 .. n + 1 /\ gs[k][n + 1] = item /\ \A i \in 1 .. n : gs[k][i] = f[i]
  BY <1>2, <1>3
<1>5. ASSUME NEW p, p = <<p[1], p[2]>>, Here(fs, p) PROVE Here(gs, p) /\ gs[p[1]][p[2]] = fs[p[1]][p[2]]
  <2>1. File(fs, p[1]) = fs[p[1]] /\ p[1] \in DOMAIN gs
    BY <1>2, <1>5 DEF File
  <2>2. CASE p[1] = k
    <3>1. p[2] \in 1 .. n /\ f = fs[k]
      BY <1>3, <1>5, <2>1, <2>2
    <3>2. gs[k][p[2]] = f[p[2]] /\ p[2] \in DOMAIN gs[k]
      BY <1>3, <1>4, <3>1
    <3> HIDE DEF f, n
    <3> QED
      BY <1>5, <2>1, <2>2, <3>1, <3>2
  <2>3. CASE p[1] # k
    BY <1>2, <1>5, <2>1, <2>3
  <2> QED
    BY <2>2, <2>3
<1>6. ASSUME NEW p, p = <<p[1], p[2]>>, Here(gs, p), ~Here(fs, p)
      PROVE  p = <<k, n + 1>> /\ item.event # 0
  <2>1. p[1] = k
    <3> SUFFICES ASSUME p[1] # k PROVE FALSE
      OBVIOUS
    <3>1. gs[p[1]] = File(fs, p[1])
      BY <1>2, <1>6
    <3>2. p[1] \in DOMAIN fs
      BY <1>6, <3>1 DEF File
    <3> QED
      BY <1>6, <3>1, <3>2 DEF File
  <2>2. p[2] \in 1 .. n + 1
    BY <1>4, <1>6, <2>1
  <2>3. p[2] \notin 1 .. n
    <3> SUFFICES ASSUME p[2] \in 1 .. n PROVE FALSE
      OBVIOUS
    <3>1. gs[k][p[2]] = f[p[2]] /\ p[2] \in DOMAIN f
      BY <1>3, <1>4
    <3>2. k \in DOMAIN fs /\ f = fs[k]
      BY <3>1 DEF File
    <3> HIDE DEF f, n
    <3> QED
      BY <1>6, <2>1, <3>1, <3>2
  <2>4. p[2] = n + 1
    BY <1>3, <2>2, <2>3
  <2> HIDE DEF n
  <2> QED
    BY <1>4, <1>6, <2>1, <2>4
<1> DEFINE e == <<k, n + 1>>
<1>7. e[1] = k /\ e[2] = n + 1 /\ e = <<e[1], e[2]>>
  OBVIOUS
<1>8. Here(gs, e) <=> item.event # 0
  BY <1>2, <1>3, <1>4, <1>7
<1>9. EventAt(gs, e) = item.event
  BY <1>4, <1>7 DEF EventAt
<1>10. /\ item.event = 0 => Spots(gs) = Spots(fs)
       /\ item.event # 0 => Spots(gs) = Spots(fs) \cup {e}
  <2> HIDE DEF Here, e, n, f
  <2>1. \A p \in Spots(fs) : p \in Spots(gs)
    BY <1>1, <1>5
  <2>2. \A p \in Spots(gs) : p \in Spots(fs) \/ (p = e /\ item.event # 0)
    BY <1>1, <1>6 DEF e
  <2>3. item.event # 0 => e \in Spots(gs)
    BY <1>1, <1>7, <1>8
  <2> QED
    BY <2>1, <2>2, <2>3
<1>11. \A p \in Spots(fs) : EventAt(gs, p) = EventAt(fs, p)
  <2> HIDE DEF Here
  <2> QED
    BY <1>1, <1>5 DEF EventAt
<1> QED
  BY <1>9, <1>10, <1>11

(* A newline changes no event. *)
LEMMA NewlineKeepsOrder ==
  ASSUME NEW fs \in Seq(Seq(ItemSet)), NEW gs, NEW k \in Nat \ {0}, NEW item \in ItemSet, Extended(fs, gs, k, item),
         item.event = 0, NEW n, InOrder(fs, n)
  PROVE  InOrder(gs, n)
<1>1. Spots(gs) = Spots(fs) /\ \A p \in Spots(fs) : EventAt(gs, p) = EventAt(fs, p)
  BY SpotsGrow
<1>2. {EventAt(gs, p) : p \in Spots(gs)} = {EventAt(fs, p) : p \in Spots(fs)}
  BY <1>1
<1> QED
  BY <1>1, <1>2 DEF InOrder

(* The next event comes last, for there is none after the first file that has room. *)
LEMMA EventComesLast ==
  ASSUME NEW fs \in Seq(Seq(ItemSet)), NEW gs, NEW k \in Nat \ {0}, NEW item \in ItemSet, Extended(fs, gs, k, item),
         FilledInTurn(fs), ~Full(File(fs, k)), NEW n \in Nat, item.event = n + 1, InOrder(fs, n)
  PROVE  InOrder(gs, n + 1)
<1> DEFINE e == <<k, Len(File(fs, k)) + 1>>
<1>1. /\ Spots(gs) = Spots(fs) \cup {e} /\ EventAt(gs, e) = n + 1
      /\ \A p \in Spots(fs) : EventAt(gs, p) = EventAt(fs, p)
  <2>1. item.event # 0
    OBVIOUS
  <2> HIDE DEF Extended
  <2> QED
    BY <2>1, SpotsGrow
<1>2. ASSUME NEW p \in Spots(fs) PROVE ~Before(e, p)
  <2>1. p[1] \in DOMAIN fs /\ p[2] \in DOMAIN fs[p[1]] /\ fs[p[1]][p[2]].event # 0
    BY DEF Spots
  <2>2. HasEvents(fs[p[1]]) /\ p[1] \in Nat
    BY <2>1 DEF HasEvents
  <2>3. ~(k < p[1])
    <3> SUFFICES ASSUME k < p[1] PROVE FALSE
      OBVIOUS
    <3>1. k \in 1 .. p[1] - 1
      BY <2>2
    <3>2. Full(fs[k])
      BY <2>1, <2>2, <3>1 DEF FilledInTurn
    <3>3. k \in DOMAIN fs
      BY <2>1, <3>1
    <3> QED
      BY <3>2, <3>3 DEF File
  <2>4. k = p[1] => ~(Len(File(fs, k)) + 1 < p[2])
    <3>1. fs[p[1]] \in Seq(ItemSet)
      BY <2>1
    <3>2. p[2] \in 1 .. Len(fs[p[1]]) /\ Len(fs[p[1]]) \in Nat
      BY <2>1, <3>1, ItemFacts
    <3> QED
      BY <2>1, <3>2 DEF File
  <2> QED
    BY <2>3, <2>4 DEF Before
<1>3. ~Before(e, e)
  <2>1. Len(File(fs, k)) \in Nat
    BY FilesAt, ItemFacts
  <2> QED
    BY <2>1 DEF Before
<1> HIDE DEF e
<1>4. {EventAt(gs, p) : p \in Spots(gs)} = {EventAt(fs, p) : p \in Spots(fs)} \cup {n + 1}
  BY <1>1
<1>5. {EventAt(gs, p) : p \in Spots(gs)} = 1 .. n + 1
  <2>1. {EventAt(fs, p) : p \in Spots(fs)} = 1 .. n
    BY DEF InOrder
  <2>2. 1 .. n + 1 = (1 .. n) \cup {n + 1}
    OBVIOUS
  <2> QED
    BY <1>4, <2>1, <2>2
<1>6. ASSUME NEW p \in Spots(gs), NEW q \in Spots(gs), Before(p, q) PROVE EventAt(gs, p) < EventAt(gs, q)
  <2>1. p \in Spots(fs)
    BY <1>1, <1>2, <1>3, <1>6
  <2>2. CASE q \in Spots(fs)
    BY <1>1, <1>6, <2>1, <2>2 DEF InOrder
  <2>3. CASE q = e
    <3>1. EventAt(fs, p) \in 1 .. n
      BY <2>1 DEF InOrder
    <3> QED
      BY <1>1, <2>1, <2>3, <3>1
  <2> QED
    BY <1>1, <2>2, <2>3
<1> QED
  BY <1>5, <1>6 DEF InOrder

LEMMA StaysFilled ==
  ASSUME NEW fs \in Seq(Seq(ItemSet)), NEW gs, NEW k \in Nat \ {0}, NEW item \in ItemSet, Extended(fs, gs, k, item),
         FilledInTurn(fs), item.event = 0 \/ \A j \in 1 .. k - 1 : j \in DOMAIN fs /\ Full(fs[j])
  PROVE  FilledInTurn(gs)
<1> SUFFICES ASSUME NEW i \in DOMAIN gs, HasEvents(gs[i]), NEW j \in 1 .. i - 1 PROVE Full(gs[j])
  BY DEF FilledInTurn
<1>1. /\ DOMAIN fs \subseteq DOMAIN gs /\ i \in Nat
      /\ gs[k] = Append(File(fs, k), item)
      /\ \A l \in DOMAIN gs : l # k => gs[l] = File(fs, l)
      /\ \A l \in DOMAIN fs : Full(fs[l]) => Full(gs[l])
  BY GrownFile
<1>2. ASSUME HasEvents(File(fs, i)) PROVE Full(gs[j])
  <2>1. i \in DOMAIN fs /\ HasEvents(fs[i])
    BY <1>2 DEF File, HasEvents
  <2>2. j \in DOMAIN fs /\ Full(fs[j])
    BY <1>1, <2>1 DEF FilledInTurn
  <2> QED
    BY <1>1, <2>2
<1>3. CASE i # k
  BY <1>1, <1>2, <1>3
<1>4. CASE i = k /\ ~HasEvents(File(fs, k))
  <2> DEFINE f == File(fs, k)
  <2>1. f \in Seq(ItemSet) /\ DOMAIN f = 1 .. Len(f) /\ Len(f) \in Nat
    BY FilesAt
  <2>2. PICK l \in DOMAIN Append(f, item) : Append(f, item)[l].event # 0
    BY <1>1, <1>4 DEF HasEvents
  <2>3. l = Len(f) + 1 \/ (l \in DOMAIN f /\ Append(f, item)[l] = f[l])
    <3> HIDE DEF f
    <3> DEFINE g == Append(f, item)
    <3>1. DOMAIN g = 1 .. Len(f) + 1 /\ \A h \in 1 .. Len(f) : g[h] = f[h]
      BY <2>1
    <3>2. l \in DOMAIN g
      OBVIOUS
    <3> HIDE DEF g
    <3>3. l = Len(f) + 1 \/ (l \in DOMAIN f /\ g[l] = f[l])
      BY <2>1, <3>1, <3>2
    <3> QED
      BY <3>3 DEF g
  <2>4. item.event # 0
    <3>1. Append(f, item)[Len(f) + 1] = item
      BY <2>1
    <3> HIDE DEF f
    <3> QED
      BY <1>4, <2>2, <2>3, <3>1 DEF HasEvents, f
  <2> QED
    BY <1>1, <1>4, <2>4
<1> QED
  BY <1>2, <1>3, <1>4

(* The item of a line goes to a file that ends with a line. *)
LEMMA StaysOnLines ==
  ASSUME NEW f \in Seq(ItemSet), NEW item \in ItemSet, OnOwnLines(f),
         f = << >> \/ f[Len(f)].event = 0 \/ item.event = 0
  PROVE  OnOwnLines(Append(f, item)) /\ (item.event = 0 => ~Hanging(Append(f, item)))
<1> DEFINE g == Append(f, item)
           n == Len(f)
<1>1. n \in Nat /\ Len(g) = n + 1 /\ g[n + 1] = item /\ \A i \in 1 .. n : g[i] = f[i]
  OBVIOUS
<1>2. f = << >> => n = 0
  OBVIOUS
<1> HIDE DEF g
<1>3. ASSUME NEW i \in 1 .. n PROVE g[i].event = 0 \/ g[i + 1].event = 0
  <2>1. CASE i = n
    BY <1>1, <1>2, <2>1
  <2>2. CASE i \in 1 .. n - 1
    <3>1. i + 1 \in 1 .. n /\ (f[i].event = 0 \/ f[i + 1].event = 0)
      BY <1>1, <2>2 DEF OnOwnLines
    <3> QED
      BY <1>1, <3>1
  <2> QED
    BY <1>1, <2>1, <2>2
<1>4. OnOwnLines(g)
  BY <1>1, <1>3 DEF OnOwnLines
<1>5. item.event = 0 => ~Hanging(g)
  BY <1>1 DEF Hanging
<1> QED
  BY <1>4, <1>5 DEF g

LEMMA NothingThere == OnOwnLines(<< >>) /\ ~Hanging(<< >>) /\ Spots(<< >>) = {} /\ InOrder(<< >>, 0) /\ FilledInTurn(<< >>)
<1>1. Len(<< >>) = 0 /\ DOMAIN << >> = {}
  OBVIOUS
<1>2. Spots(<< >>) = {}
  BY <1>1 DEF Spots
<1> QED
  BY <1>1, <1>2 DEF OnOwnLines, Hanging, InOrder, FilledInTurn

LEMMA PutGrows ==
  ASSUME StoreTypes, NEW s \in Keys, NEW k \in Nat \ {0}, NEW item \in ItemSet, dirs' = Put(s, k, item)
  PROVE  /\ dirs[s].files \in Seq(Seq(ItemSet)) /\ Extended(dirs[s].files, dirs'[s].files, k, item)
         /\ \A r \in Keys : r # s => dirs'[r] = dirs[r]
<1>1. dirs \in [Keys -> DirSet] /\ dirs[s].files \in Seq(Seq(ItemSet))
  BY DEF StoreTypes, DirSet
<1>2. /\ \A r \in Keys : r # s => dirs'[r] = dirs[r]
      /\ \E m \in Nat : DOMAIN dirs'[s].files = 1 .. m /\ m >= Len(dirs[s].files) /\ m >= k
      /\ \A j \in DOMAIN dirs'[s].files :
           dirs'[s].files[j] = IF j = k THEN Append(File(dirs[s].files, k), item) ELSE File(dirs[s].files, j)
  BY <1>1, PutFacts
<1>3. Extended(dirs[s].files, dirs'[s].files, k, item)
  BY <1>2 DEF Extended
<1> QED
  BY <1>1, <1>2, <1>3

LEMMA EventsAtFirst == StoreInit => EventsInv
<1> SUFFICES ASSUME StoreInit, NEW s \in Keys PROVE dirs[s].files = << >> /\ appended[s] = 0
  BY NothingThere DEF EventsInv
<1> QED
  BY DEF StoreInit, NoDir

(* What holds of the events of one session. *)
EventsOk(s) ==
  /\ InOrder(dirs[s].files, appended[s]) /\ FilledInTurn(dirs[s].files)
  /\ s \notin mixed => \A k \in DOMAIN dirs[s].files :
       OnOwnLines(dirs[s].files[k]) /\ (Hanging(dirs[s].files[k]) => LineOpen(s, k))

LEMMA SessionUntouched ==
  ASSUME NEW s \in Keys, EventsOk(s), dirs'[s].files = dirs[s].files, appended'[s] = appended[s],
         s \in mixed => s \in mixed', s \notin mixed' => \A k : LineOpen(s, k) => LineOpen(s, k)'
  PROVE  EventsOk(s)'
<1>1. InOrder(dirs'[s].files, appended'[s]) /\ FilledInTurn(dirs'[s].files)
  BY DEF EventsOk
<1>2. s \notin mixed' => \A k \in DOMAIN dirs'[s].files :
        OnOwnLines(dirs'[s].files[k]) /\ (Hanging(dirs'[s].files[k]) => LineOpen(s, k)')
  BY DEF EventsOk
<1> QED
  BY <1>1, <1>2 DEF EventsOk

LEMMA EventsUntouched ==
  ASSUME StoreTypes, EventsInv, UNCHANGED <<appended, mixed>>, \A s \in Keys : dirs'[s].files = dirs[s].files,
         \A u \in Threads : task[u].pc = "newline" /\ ~task[u].gone => task'[u] = task[u]
  PROVE  EventsInv'
<1> SUFFICES ASSUME NEW s \in Keys PROVE EventsOk(s)'
  BY DEF EventsInv, EventsOk
<1>1. EventsOk(s)
  BY DEF EventsInv, EventsOk
<1>2. \A k : LineOpen(s, k) => LineOpen(s, k)'
  BY DEF LineOpen
<1> QED
  BY <1>1, <1>2, SessionUntouched

LEMMA AppendEventInOrder == ASSUME StoreTypes, EventsInv, NEW t \in Threads, AppendEvent(t) PROVE EventsInv'
<1>1. PICK s \in Keys, k \in Nat \ {0}, item \in ItemSet :
        /\ item.event = appended[s] + 1 /\ k = Rotated(dirs[s].files, 1, item.size)
        /\ dirs' = Put(s, k, item) /\ appended' = [appended EXCEPT ![s] = @ + 1]
        /\ task[t].pc = "idle"
        /\ task'[t].pc = "newline" /\ task'[t].key = s /\ task'[t].at = k /\ ~task'[t].gone
        /\ \A u \in Threads : u # t => task'[u] = task[u]
        /\ mixed' = IF \E u \in Threads : task[u].pc = "newline" /\ task[u].key = s THEN mixed \cup {s} ELSE mixed
  BY AppendEventIs
<1> DEFINE fs == dirs[s].files
           gs == dirs'[s].files
<1>2. /\ fs \in Seq(Seq(ItemSet)) /\ Extended(fs, gs, k, item)
      /\ \A r \in Keys : r # s => dirs'[r] = dirs[r]
  BY <1>1, PutGrows
<1>3. appended[s] \in Nat /\ appended'[s] = appended[s] + 1 /\ \A r \in Keys : r # s => appended'[r] = appended[r]
  BY <1>1 DEF StoreTypes
<1>4. ~Full(File(fs, k)) /\ \A j \in 1 .. k - 1 : j \in DOMAIN fs /\ Full(fs[j])
  <2> HIDE DEF fs
  <2>1. 1 \in Nat \ {0} /\ k = Rotated(fs, 1, item.size)
    BY <1>1 DEF fs
  <2> QED
    BY <1>2, <2>1, RotatedFacts
<1>5. ASSUME NEW r \in Keys, r # s PROVE EventsOk(r)'
  <2>1. \A i : LineOpen(r, i) => LineOpen(r, i)'
    BY <1>1 DEF LineOpen
  <2>2. EventsOk(r) /\ dirs'[r].files = dirs[r].files /\ appended'[r] = appended[r] /\ (r \in mixed <=> r \in mixed')
    BY <1>1, <1>2, <1>3, <1>5 DEF EventsInv, EventsOk
  <2> QED
    BY <2>1, <2>2, SessionUntouched
<1>6. InOrder(fs, appended[s]) /\ FilledInTurn(fs)
  BY DEF EventsInv
<1>7. s \notin mixed' =>
        s \notin mixed /\ \A i \in DOMAIN fs : OnOwnLines(fs[i]) /\ ~Hanging(fs[i])
  BY <1>1 DEF EventsInv, LineOpen
<1> HIDE DEF fs, gs
<1>8. InOrder(gs, appended'[s])
  BY <1>1, <1>2, <1>3, <1>4, <1>6, EventComesLast
<1>9. FilledInTurn(gs)
  BY <1>2, <1>4, <1>6, StaysFilled
<1>10. /\ gs[k] = Append(File(fs, k), item) /\ DOMAIN gs \subseteq Nat \ {0}
       /\ \A j \in DOMAIN gs : j # k => gs[j] = File(fs, j)
  BY <1>2, GrownFile
<1>11. ASSUME s \notin mixed', NEW i \in DOMAIN gs PROVE OnOwnLines(gs[i]) /\ (Hanging(gs[i]) => LineOpen(s, i)')
  <2>1. \A j : OnOwnLines(File(fs, j)) /\ ~Hanging(File(fs, j))
    BY <1>7, <1>11, NothingThere DEF File
  <2>2. CASE i = k
    <3>1. File(fs, k) \in Seq(ItemSet)
      BY <1>2, FilesAt
    <3>2. File(fs, k) = << >> \/ File(fs, k)[Len(File(fs, k))].event = 0
      BY <1>4, <2>1 DEF Hanging
    <3>3. OnOwnLines(gs[i])
      BY <1>10, <2>1, <2>2, <3>1, <3>2, StaysOnLines
    <3>4. LineOpen(s, i)'
      BY <1>1, <2>2 DEF LineOpen
    <3> QED
      BY <3>3, <3>4
  <2>3. CASE i # k
    BY <1>10, <2>1, <2>3
  <2> QED
    BY <2>2, <2>3
<1>12. EventsOk(s)'
  BY <1>8, <1>9, <1>11 DEF EventsOk, gs
<1> QED
  BY <1>5, <1>12 DEF EventsInv, EventsOk

LEMMA EndLineInOrder == ASSUME StoreTypes, EventsInv, NEW t \in Threads, EndLine(t) PROVE EventsInv'
<1>0. PICK s, at : s = task[t].key /\ at = task[t].at
  OBVIOUS
<1>1. /\ task[t].pc = "newline" /\ s \in Keys /\ at \in Nat \ {0}
      /\ UNCHANGED <<appended, mixed>>
      /\ \A u \in Threads : u # t => task'[u] = task[u]
  BY <1>0, EndLineIs DEF StoreTypes
<1>2. CASE dirs' = dirs /\ task[t].gone
  BY <1>1, <1>2, EventsUntouched
<1>3. ASSUME NEW k \in Nat \ {0}, NEW item \in ItemSet, item.event = 0, dirs' = Put(s, k, item),
             (k = at /\ ~task[t].gone) \/ k = Rotated(dirs[s].files, at, 1)
      PROVE  EventsInv'
  <2> DEFINE fs == dirs[s].files
             gs == dirs'[s].files
  <2>1. /\ fs \in Seq(Seq(ItemSet)) /\ Extended(fs, gs, k, item)
        /\ \A r \in Keys : r # s => dirs'[r] = dirs[r]
    BY <1>1, <1>3, PutGrows
  <2>2. ASSUME NEW r \in Keys, r # s PROVE EventsOk(r)'
    <3>1. \A i : LineOpen(r, i) => LineOpen(r, i)'
      BY <1>0, <1>1, <2>2 DEF LineOpen
    <3>2. EventsOk(r) /\ dirs'[r].files = dirs[r].files /\ appended'[r] = appended[r] /\ (r \in mixed => r \in mixed')
      BY <1>1, <2>1, <2>2 DEF EventsInv, EventsOk
    <3> QED
      BY <3>1, <3>2, SessionUntouched
  <2>3. InOrder(fs, appended[s]) /\ FilledInTurn(fs)
    BY <1>1 DEF EventsInv
  <2>4. s \notin mixed => \A i \in DOMAIN fs : OnOwnLines(fs[i]) /\ (Hanging(fs[i]) => LineOpen(s, i))
    BY <1>1 DEF EventsInv
  <2>5. k # at => at \notin DOMAIN fs \/ ~Hanging(fs[at])
    <3> HIDE DEF fs
    <3> SUFFICES ASSUME k # at, at \in DOMAIN fs PROVE Full(fs[at])
      BY DEF Hanging
    <3>1. k = Rotated(fs, at, 1)
      BY <1>3 DEF fs
    <3>2. k >= at /\ \A j \in at .. k - 1 : Full(fs[j])
      BY <1>1, <2>1, <3>1, RotatedFacts
    <3> QED
      BY <1>1, <1>3, <3>2
  <2> HIDE DEF fs, gs
  <2>6. InOrder(gs, appended'[s])
    BY <1>1, <1>3, <2>1, <2>3, NewlineKeepsOrder
  <2>7. FilledInTurn(gs)
    BY <1>3, <2>1, <2>3, StaysFilled
  <2>8. /\ gs[k] = Append(File(fs, k), item) /\ DOMAIN gs \subseteq Nat \ {0}
        /\ \A j \in DOMAIN gs : j # k => gs[j] = File(fs, j)
    BY <2>1, GrownFile
  <2>9. ASSUME s \notin mixed, NEW i \in DOMAIN gs PROVE OnOwnLines(gs[i]) /\ (Hanging(gs[i]) => LineOpen(s, i)')
    <3>1. \A j : OnOwnLines(File(fs, j)) /\ (Hanging(File(fs, j)) => j \in DOMAIN fs /\ LineOpen(s, j))
      BY <2>4, <2>9, NothingThere DEF File
    <3>2. CASE i = k
      <4>1. File(fs, k) \in Seq(ItemSet)
        BY <2>1, FilesAt
      <4>2. OnOwnLines(gs[i]) /\ ~Hanging(gs[i])
        BY <1>3, <2>8, <3>1, <3>2, <4>1, StaysOnLines
      <4> QED
        BY <4>2
    <3>3. CASE i # k
      <4>1. gs[i] = File(fs, i)
        BY <2>8, <3>3
      <4>2. ASSUME Hanging(gs[i]) PROVE LineOpen(s, i)'
        <5>1. i \in DOMAIN fs /\ File(fs, i) = fs[i] /\ Hanging(fs[i]) /\ LineOpen(s, i)
          BY <3>1, <4>1, <4>2 DEF File
        <5>2. PICK u \in Threads : task[u].pc = "newline" /\ task[u].key = s /\ ~task[u].gone /\ task[u].at = i
          BY <5>1 DEF LineOpen
        <5>3. u # t
          BY <1>0, <1>3, <2>5, <3>3, <5>1, <5>2
        <5> QED
          BY <1>1, <5>2, <5>3 DEF LineOpen
      <4> QED
        BY <3>1, <4>1, <4>2
    <3> QED
      BY <3>2, <3>3
  <2>10. EventsOk(s)'
    BY <1>1, <2>6, <2>7, <2>9 DEF EventsOk, gs
  <2> QED
    BY <2>2, <2>10 DEF EventsInv, EventsOk
<1> QED
  BY <1>0, <1>2, <1>3, EndLineIs

LEMMA RemoveDirInOrder == ASSUME StoreTypes, EventsInv, NEW t \in Threads, RemoveDir(t) PROVE EventsInv'
<1>1. PICK s \in task[t].todo :
        /\ dirs' = [dirs EXCEPT ![s] = NoDir]
        /\ appended' = [appended EXCEPT ![s] = 0] /\ mixed' = mixed \ {s}
        /\ task' = [u \in Threads |->
             IF u = t THEN [task[t] EXCEPT !.pc = "remove", !.key = s, !.todo = @ \ {s}]
             ELSE IF task[u].pc = "newline" /\ task[u].key = s THEN [task[u] EXCEPT !.gone = TRUE]
             ELSE task[u]]
        /\ task[t].pc = "delete"
  BY DEF RemoveDir, At
<1>2. s \in Keys
  BY DEF StoreTypes, TaskSet
<1>3. dirs'[s].files = << >> /\ appended'[s] = 0
  BY <1>1, <1>2 DEF StoreTypes, NoDir
<1>4. EventsOk(s)'
  BY <1>3, NothingThere DEF EventsOk
<1>5. ASSUME NEW r \in Keys, r # s PROVE EventsOk(r)'
  <2>1. ASSUME NEW u \in Threads, task[u].pc = "newline", task[u].key = r PROVE task'[u] = task[u]
    BY <1>1, <1>5, <2>1
  <2>2. \A i : LineOpen(r, i) => LineOpen(r, i)'
    BY <2>1 DEF LineOpen
  <2>3. EventsOk(r) /\ dirs'[r].files = dirs[r].files /\ appended'[r] = appended[r] /\ (r \in mixed => r \in mixed')
    BY <1>1, <1>5 DEF EventsInv, EventsOk, StoreTypes
  <2> QED
    BY <2>2, <2>3, SessionUntouched
<1> QED
  BY <1>4, <1>5 DEF EventsInv, EventsOk

LEMMA CrashInOrder == ASSUME StoreTypes, EventsInv, StoreCrash PROVE EventsInv'
<1> SUFFICES ASSUME NEW s \in Keys PROVE EventsOk(s)'
  BY DEF EventsInv, EventsOk
<1>1. /\ mixed' = mixed \cup {task[t].key : t \in {u \in Threads : task[u].pc = "newline"}}
      /\ UNCHANGED <<dirs, appended>>
  BY DEF StoreCrash, At
<1>2. s \notin mixed' => \A i : ~LineOpen(s, i)
  BY <1>1 DEF LineOpen
<1>3. EventsOk(s)
  BY DEF EventsInv, EventsOk
<1> QED
  BY <1>1, <1>2, <1>3, SessionUntouched

Elsewhere(t) ==
  \/ Snapshot(t) \/ CreateTemp(t) \/ Fill(t) \/ FillFails(t) \/ Rename(t)
  \/ Set(t) \/ SetMany(t) \/ Delete(t) \/ Increment(t) \/ Persist(t)
  \/ CreateSession(t) \/ AppendBody(t) \/ GetMetadata(t) \/ Upsert(t) \/ DropEntry(t)
  \/ DeleteSessions(t) \/ OpenLock(t) \/ Flock(t) \/ Unlock(t) \/ RemoveLockFile(t)

LEMMA ElsewhereAside ==
  ASSUME StoreTypes, NEW t \in Threads, Elsewhere(t)
  PROVE  /\ \A u \in Threads : task[u].pc = "newline" => task'[u] = task[u]
         /\ UNCHANGED <<appended, mixed>>
         /\ \A s \in Keys : dirs'[s].files = dirs[s].files
<1>1. task \in [Threads -> TaskSet]
  BY DEF StoreTypes
<1>2. \A u \in Threads : task[u].pc = "newline" => task'[u] = task[u]
  <2>1. CASE Snapshot(t) \/ CreateTemp(t) \/ Fill(t) \/ FillFails(t) \/ Rename(t)
    BY <1>1, <2>1 DEF Snapshot, CreateTemp, Fill, FillFails, Rename, Persisted, At, Proceeds
  <2>2. CASE Set(t) \/ SetMany(t) \/ Delete(t) \/ Increment(t) \/ Persist(t)
    BY <1>1, <2>2 DEF Set, SetMany, Delete, Increment, Persist, Change, Calls, At, Proceeds
  <2>3. CASE CreateSession(t) \/ AppendBody(t) \/ GetMetadata(t) \/ DeleteSessions(t)
    BY <1>1, <2>3 DEF CreateSession, AppendBody, GetMetadata, DeleteSessions, Calls, At
  <2>4. CASE Upsert(t) \/ DropEntry(t)
    BY <1>1, <2>4 DEF Upsert, DropEntry, At, Proceeds
  <2>5. CASE OpenLock(t) \/ Flock(t) \/ Unlock(t) \/ RemoveLockFile(t)
    BY <1>1, <2>5 DEF OpenLock, Flock, Unlock, RemoveLockFile, Calls, At, Proceeds, Done
  <2> QED
    BY <2>1, <2>2, <2>3, <2>4, <2>5 DEF Elsewhere
<1>3. UNCHANGED <<appended, mixed>>
  BY DEF Elsewhere, Snapshot, CreateTemp, Fill, FillFails, Rename, Set, SetMany, Delete, Increment, Persist, Change,
     CreateSession, AppendBody, GetMetadata, Upsert, DropEntry, DeleteSessions, OpenLock, Flock, Unlock, RemoveLockFile,
     streams
<1>4. \A s \in Keys : dirs'[s].files = dirs[s].files
  <2>1. CASE CreateSession(t) \/ AppendBody(t)
    BY <2>1, WrittenTyped DEF CreateSession, AppendBody
  <2>2. CASE ~(CreateSession(t) \/ AppendBody(t))
    BY <2>2 DEF Elsewhere, Snapshot, CreateTemp, Fill, FillFails, Rename, Set, SetMany, Delete, Increment, Persist,
       Change, GetMetadata, Upsert, DropEntry, DeleteSessions, OpenLock, Flock, Unlock, RemoveLockFile, streams
  <2> QED
    BY <2>1, <2>2
<1> QED
  BY <1>2, <1>3, <1>4

LEMMA EventsStep == StoreTypes /\ EventsInv /\ [StoreNext]_storeVars => EventsInv'
<1> SUFFICES ASSUME StoreTypes, EventsInv, [StoreNext]_storeVars PROVE EventsInv'
  OBVIOUS
<1>1. CASE UNCHANGED storeVars
  BY <1>1, EventsUntouched DEF storeVars, streams
<1>2. CASE StoreCrash
  BY <1>2, CrashInOrder
<1>3. ASSUME NEW t \in Threads, Step(t) PROVE EventsInv'
  <2>1. CASE AppendEvent(t) \/ EndLine(t) \/ RemoveDir(t)
    BY <2>1, AppendEventInOrder, EndLineInOrder, RemoveDirInOrder
  <2>2. CASE Elsewhere(t)
    BY <2>2, ElsewhereAside, EventsUntouched
  <2> QED
    BY <1>3, <2>1, <2>2 DEF Step, Elsewhere
<1> QED
  BY <1>1, <1>2, <1>3 DEF StoreNext

LEMMA StoreInvHolds == StoreSpec => []StoreInv
<1>1. StoreInit => StoreInv
  BY TypesAtFirst, IndexAtFirst, EventsAtFirst DEF StoreInv
<1>2. StoreInv /\ [StoreNext]_storeVars => StoreInv'
  BY TypesStep, IndexStep, EventsStep DEF StoreInv
<1> QED
  BY <1>1, <1>2, PTL DEF StoreSpec

(* The index file is what the index is whenever nobody is writing it, for *)
(* any number of tasks that share its temporary file; and the stream      *)
(* events of a session that were appended one after the other are read    *)
(* back in order and line by line, whatever their sizes.                  *)
THEOREM StoreReads == StoreSpec => []StoreReadsBack
<1>1. StoreInv => StoreReadsBack
  <2> SUFFICES ASSUME StoreInv PROVE IndexFileFollows /\ EventsReadBack
    BY DEF StoreReadsBack
  <2>1. \A t \in Threads : Mends(t) => Persisting(t)
    BY DEF Mends, Persisting
  <2>2. IndexFileFollows
    BY <2>1 DEF StoreInv, IndexInv, IndexFileFollows, Behind
  <2>3. EventsReadBack
    BY DEF StoreInv, EventsInv, EventsReadBack
  <2> QED
    BY <2>2, <2>3
<1> QED
  BY <1>1, StoreInvHolds, PTL
=============================================================================
