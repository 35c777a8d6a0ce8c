------------------------- MODULE ScanSchedulerProofs -------------------------
(***************************************************************************)
(* What is proved of the scheduler for every set of sessions and every     *)
(* limit: the watcher's memory is bounded, a file is passed over only when *)
(* it was read to its end, and while nothing goes wrong no file with       *)
(* unread lines is left to a timer.                                        *)
(***************************************************************************)
EXTENDS ScanScheduler, FiniteSetTheorems, TLAPS

-----------------------------------------------------------------------------
(* The invariant.                                                          *)

(* What a pass works on is listed in it, and what the latest pass made     *)
(* active is active.                                                       *)
Kept ==
  /\ pass.pc \in {"off", "idle"} => pass.todo = {}
  /\ pass.pc \in {"stated", "read"} => pass.cur.path \in pass.todo
  /\ pass.pc = "read" /\ ~pass.first => pass.cur.path \in fresh
  /\ fresh \subseteq active

(* A session has one file at a time.  Its checkpoint is inside the whole   *)
(* lines of that file, which exists from the first scan on, and a          *)
(* remembered size was read.                                               *)
Behind ==
  /\ \A p \in Path : file[p] # Gone => offset[p[1]] <= Whole(file[p])
  /\ \A s \in Source :
       offset[s] # NoRow =>
         file[<<s, "sessions">>] # Gone \/ file[<<s, "archived_sessions">>] # Gone
  /\ \A s \in Source :
       file[<<s, "sessions">>] = Gone \/ file[<<s, "archived_sessions">>] = Gone
  /\ \A s \in Source : seen[s].size <= offset[s]

(* A path that has unread lines, or is no longer as it was when its stamp  *)
(* was taken, is where the next pass finds it.                             *)
Late ==
  trouble = 0 /\ pass.pc # "off" =>
    /\ \A p \in Path :
         Unread(p) => p \in watch.pending \cup pass.todo \cup fresh \/ watch.rescan
    /\ pass.pc \in {"stated", "read"} =>
         LET p == pass.cur.path
         IN  file[p] # Gone /\ file[p] # pass.cur.size =>
               p \in watch.pending \/ watch.rescan

Inv == TypeOK /\ Kept /\ Behind /\ Late

-----------------------------------------------------------------------------
(* Whole lines are no longer than the file, and grow with it.              *)
LEMMA WholeMonotone ==
  ASSUME NEW m \in Nat, NEW n \in Nat, m <= n
  PROVE  Whole(m) \in Nat /\ Whole(n) \in Nat /\ Whole(m) <= Whole(n) /\ Whole(m) <= m
BY SMT DEF Whole

(* A session has finitely many paths, and there are finitely many.         *)
LEMMA PathFinite == IsFiniteSet(Path)
<1>1. IsFiniteSet({"sessions", "archived_sessions"})
  <2>1. IsFiniteSet({"sessions"})
    BY FS_Singleton
  <2>2. IsFiniteSet({"sessions"} \cup {"archived_sessions"})
    BY <2>1, FS_AddElement
  <2> QED BY <2>2
<1> QED BY <1>1, FS_Product, SchedulerAssumption DEF Path

(* What a watcher may be.                                                  *)
Fits(w) ==
  /\ w \in [pending : SUBSET Path, rescan : BOOLEAN]
  /\ Cardinality(w.pending) <= MaxPending

(* A path that is noted fits or makes the watcher ask for a rescan, and    *)
(* nothing noted before is lost.                                           *)
LEMMA AddFits ==
  ASSUME NEW w, Fits(w), NEW p \in Path
  PROVE  /\ Fits(Add(w, p))
         /\ w.pending \subseteq Add(w, p).pending
         /\ w.rescan => Add(w, p).rescan
         /\ p \in Add(w, p).pending \/ Add(w, p).rescan
<1>1. IsFiniteSet(w.pending) /\ Cardinality(w.pending) \in Nat
  BY PathFinite, FS_Subset, FS_CardinalityType DEF Fits
<1>2. CASE Cardinality(w.pending) < MaxPending
  <2>1. Add(w, p) = [w EXCEPT !.pending = @ \cup {p}]
    BY <1>2 DEF Add
  <2>2. Add(w, p) \in [pending : SUBSET Path, rescan : BOOLEAN]
    BY <2>1 DEF Fits
  <2>3. Add(w, p).pending = w.pending \cup {p} /\ Add(w, p).rescan = w.rescan
    BY <2>1 DEF Fits
  <2>4. Cardinality(w.pending \cup {p}) <= MaxPending
    <3>1. MaxPending \in Nat
      BY SchedulerAssumption
    <3>2. \/ Cardinality(w.pending \cup {p}) = Cardinality(w.pending)
          \/ Cardinality(w.pending \cup {p}) = Cardinality(w.pending) + 1
      BY <1>1, FS_AddElement
    <3> HIDE DEF Fits
    <3> QED BY <1>1, <1>2, <3>1, <3>2
  <2> QED BY <2>2, <2>3, <2>4 DEF Fits
<1>3. CASE ~(Cardinality(w.pending) < MaxPending)
  BY <1>3 DEF Add, Fits
<1> QED BY <1>2, <1>3

(* Unless a notice is lost, the watcher ends up as it was told.            *)
LEMMA NotedFits ==
  ASSUME TypeOK, NEW w, Fits(w), Notified(w)
  PROVE  Fits(watch') /\ trouble' \in Nat /\ (trouble' = 0 => trouble = 0 /\ watch' = w)
<1>0. trouble \in Nat /\ Fits(watch)
  BY DEF TypeOK, Fits
<1>1. CASE watch' = w /\ UNCHANGED trouble
  BY <1>0, <1>1
<1>2. CASE Goes("lost notification") /\ UNCHANGED watch
  <2>1. Fits(watch')
    BY <1>0, <1>2 DEF Fits
  <2>2. trouble' = trouble + 1
    BY <1>2 DEF Goes
  <2>3. trouble' \in Nat /\ trouble' # 0
    BY <1>0, <2>2
  <2> QED BY <2>1, <2>3
<1> QED BY <1>1, <1>2 DEF Notified

-----------------------------------------------------------------------------
(* The initial state.                                                      *)
LEMMA InitInv == Init => Inv
<1> SUFFICES ASSUME Init
             PROVE  Inv
  OBVIOUS
<1> USE DEF Init, Off, Idle, NoStamp, NoRow, Gone
<1>1. TypeOK
  <2>1. Cardinality(watch.pending) <= MaxPending
    BY FS_EmptySet, SchedulerAssumption
  <2>2. watch \in [pending : SUBSET Path, rescan : BOOLEAN]
    OBVIOUS
  <2>3. /\ file \in [Path -> Nat \cup {Gone}]
        /\ offset \in [Source -> Nat \cup {NoRow}]
        /\ seen \in [Source -> [path : Path, size : Nat] \cup {NoStamp}]
    OBVIOUS
  <2>4. pass \in [pc : {"off", "idle", "next", "stated", "read"}, first : BOOLEAN,
               todo : SUBSET Path, cur : [path : Path, size : Nat] \cup {NoStamp}]
    OBVIOUS
  <2>5. /\ active \subseteq Path /\ fresh \subseteq Path /\ due \subseteq Timers
        /\ trouble \in Nat
    OBVIOUS
  <2> HIDE DEF Init, Off, Idle, NoStamp, NoRow, Gone
  <2> QED BY <2>1, <2>2, <2>3, <2>4, <2>5 DEF TypeOK
<1>2. Kept
  BY DEF Kept
<1>3. Behind
  <2>1. \A s \in Source : <<s, "sessions">> \in Path /\ <<s, "archived_sessions">> \in Path
    BY DEF Path
  <2>2. \A p \in Path : file[p] = Gone /\ p[1] \in Source
    BY DEF Path
  <2>3. \A s \in Source : offset[s] = NoRow /\ seen[s].size <= offset[s]
    OBVIOUS
  <2> HIDE DEF Init, Off, Idle, NoStamp, NoRow, Gone
  <2> QED BY <2>1, <2>2, <2>3 DEF Behind
<1>4. Late
  BY DEF Late
<1> QED BY <1>1, <1>2, <1>3, <1>4 DEF Inv

-----------------------------------------------------------------------------
(* What Codex does: files change, and the watcher is told of every path    *)
(* that does.                                                              *)
LEMMA TouchedNoted ==
  ASSUME Inv, NEW T \in SUBSET Path,
         file' \in [Path -> Nat \cup {Gone}],
         \A q \in Path \ T : file'[q] = file[q],
         Fits(watch'), trouble' \in Nat,
         trouble' = 0 => /\ trouble = 0
                         /\ watch.pending \subseteq watch'.pending
                         /\ watch.rescan => watch'.rescan
                         /\ \A q \in T : q \in watch'.pending \/ watch'.rescan,
         \A q \in T : file'[q] # Gone => offset[q[1]] <= Whole(file'[q]),
         \A s \in Source :
           offset[s] # NoRow => \/ file'[<<s, "sessions">>] # Gone
                                \/ file'[<<s, "archived_sessions">>] # Gone,
         \A s \in Source : \/ file'[<<s, "sessions">>] = Gone
                            \/ file'[<<s, "archived_sessions">>] = Gone,
         UNCHANGED <<offset, seen, active, fresh, due, pass>>
  PROVE  Inv'
<1> USE DEF Inv
<1>1. TypeOK'
  BY DEF TypeOK, Fits
<1>2. Kept'
  BY DEF Kept
<1>3. Behind'
  BY DEF Behind
<1>4. ASSUME trouble' = 0, pass.pc # "off", NEW q \in Path, Unread(q)'
      PROVE  q \in watch'.pending \cup pass.todo \cup fresh \/ watch'.rescan
  <2>1. CASE q \in T
    BY <1>4, <2>1
  <2>2. CASE q \notin T
    BY <1>4, <2>2 DEF Unread, Late
  <2> QED BY <2>1, <2>2
<1>5. ASSUME trouble' = 0, pass.pc \in {"stated", "read"},
             file'[pass.cur.path] # Gone, file'[pass.cur.path] # pass.cur.size
      PROVE  pass.cur.path \in watch'.pending \/ watch'.rescan
  <2>1. pass.cur.path \in Path /\ pass.pc # "off"
    BY <1>5 DEF Kept, TypeOK
  <2>2. CASE pass.cur.path \in T
    BY <1>5, <2>2
  <2>3. CASE pass.cur.path \notin T
    BY <1>5, <2>1, <2>3 DEF Late
  <2> QED BY <2>2, <2>3
<1>6. Late'
  BY <1>4, <1>5 DEF Late
<1> QED BY <1>1, <1>2, <1>3, <1>6

(* A file grows: its path is noted and its checkpoint stays behind.        *)
LEMMA WriteInv ==
  ASSUME Inv, NEW p \in Path, Write(p), file[p] # Gone
  PROVE  Inv'
<1> PICK n \in 1..3 : /\ file' = [file EXCEPT ![p] = @ + n]
                      /\ Notified(Add(watch, p))
                      /\ UNCHANGED <<offset, seen, active, fresh, due, pass>>
  BY DEF Write
<1>0. TypeOK /\ Behind
  BY DEF Inv
<1>1. Fits(watch)
  BY <1>0 DEF TypeOK, Fits
<1>2. /\ Fits(watch') /\ trouble' \in Nat
      /\ trouble' = 0 => /\ trouble = 0
                         /\ watch.pending \subseteq watch'.pending
                         /\ watch.rescan => watch'.rescan
                         /\ p \in watch'.pending \/ watch'.rescan
  BY <1>0, <1>1, AddFits, NotedFits
<1>3. file[p] \in Nat /\ file' \in [Path -> Nat \cup {Gone}] /\ file'[p] = file[p] + n
  BY <1>0 DEF TypeOK, Gone
<1>4. \A q \in Path \ {p} : file'[q] = file[q]
  BY <1>0 DEF TypeOK
<1>5. offset[p[1]] <= Whole(file'[p])
  <2>1. Whole(file[p]) <= Whole(file'[p]) /\ Whole(file[p]) \in Nat /\ Whole(file'[p]) \in Nat
    BY <1>3, WholeMonotone
  <2>2. offset[p[1]] <= Whole(file[p]) /\ offset[p[1]] \in Int
    BY <1>0 DEF Behind, TypeOK, Path, NoRow
  <2> QED BY <2>1, <2>2
<1>6. \A s \in Source :
        /\ offset[s] # NoRow => \/ file'[<<s, "sessions">>] # Gone
                                \/ file'[<<s, "archived_sessions">>] # Gone
        /\ \/ file'[<<s, "sessions">>] = Gone
           \/ file'[<<s, "archived_sessions">>] = Gone
  <2>1. \A q \in Path : file[q] # Gone <=> file'[q] # Gone
    BY <1>3, <1>4 DEF Gone
  <2>2. \A s \in Source : <<s, "sessions">> \in Path /\ <<s, "archived_sessions">> \in Path
    BY DEF Path
  <2> QED BY <1>0, <2>1, <2>2 DEF Behind
<1> DEFINE T == {p}
<1>7. /\ T \in SUBSET Path
      /\ \A q \in Path \ T : file'[q] = file[q]
      /\ \A q \in T : file'[q] # Gone => offset[q[1]] <= Whole(file'[q])
      /\ trouble' = 0 => /\ trouble = 0
                         /\ watch.pending \subseteq watch'.pending
                         /\ watch.rescan => watch'.rescan
                         /\ \A q \in T : q \in watch'.pending \/ watch'.rescan
  BY <1>2, <1>4, <1>5
<1> HIDE DEF T
<1> QED BY <1>2, <1>3, <1>6, <1>7, TouchedNoted

(* A new file is noted, and no scan has met its session yet.               *)
LEMMA CreateInv ==
  ASSUME Inv, NEW s \in Source, Create(s)
  PROVE  Inv'
<1> DEFINE p == <<s, "sessions">>
<1>0. TypeOK /\ Behind /\ p \in Path /\ <<s, "archived_sessions">> \in Path
  BY DEF Inv, Path
<1>1. Fits(watch)
  BY <1>0 DEF TypeOK, Fits
<1>2. /\ Fits(watch') /\ trouble' \in Nat
      /\ trouble' = 0 => /\ trouble = 0
                         /\ watch.pending \subseteq watch'.pending
                         /\ watch.rescan => watch'.rescan
                         /\ p \in watch'.pending \/ watch'.rescan
  BY <1>0, <1>1, AddFits, NotedFits DEF Create
<1>3. file' = [file EXCEPT ![p] = 0] /\ file' \in [Path -> Nat \cup {Gone}] /\ file'[p] = 0
  BY <1>0 DEF TypeOK, Create
<1>4. \A q \in Path \ {p} : file'[q] = file[q]
  BY <1>0, <1>3 DEF TypeOK
<1>5. offset[s] = NoRow /\ file[<<s, "archived_sessions">>] = Gone
  <2>1. file[p] = Gone /\ file[<<s, "archived_sessions">>] = Gone
    BY <1>0 DEF Create, Existing
  <2> QED BY <1>0, <2>1 DEF Behind
<1>6. p[1] = s /\ offset[p[1]] <= Whole(file'[p])
  BY <1>3, <1>5 DEF Whole, NoRow
<1>7. \A z \in Source :
        /\ offset[z] # NoRow => \/ file'[<<z, "sessions">>] # Gone
                                \/ file'[<<z, "archived_sessions">>] # Gone
        /\ \/ file'[<<z, "sessions">>] = Gone
           \/ file'[<<z, "archived_sessions">>] = Gone
  <2> SUFFICES ASSUME NEW z \in Source
               PROVE  /\ offset[z] # NoRow => \/ file'[<<z, "sessions">>] # Gone
                                              \/ file'[<<z, "archived_sessions">>] # Gone
                      /\ \/ file'[<<z, "sessions">>] = Gone
                         \/ file'[<<z, "archived_sessions">>] = Gone
    OBVIOUS
  <2>1. CASE z = s
    <3>1. <<s, "archived_sessions">> \in Path \ {p}
      BY <1>0
    <3> QED BY <1>4, <1>5, <2>1, <3>1
  <2>2. CASE z # s
    <3>1. /\ <<z, "sessions">> \in Path \ {p}
          /\ <<z, "archived_sessions">> \in Path \ {p}
      BY <2>2 DEF Path
    <3> QED BY <1>0, <1>4, <3>1 DEF Behind
  <2> QED BY <2>1, <2>2
<1>8. UNCHANGED <<offset, seen, active, fresh, due, pass>>
  BY DEF Create
<1> HIDE DEF p
<1> DEFINE T == {p}
<1>9. /\ T \in SUBSET Path
      /\ \A q \in Path \ T : file'[q] = file[q]
      /\ \A q \in T : file'[q] # Gone => offset[q[1]] <= Whole(file'[q])
      /\ trouble' = 0 => /\ trouble = 0
                         /\ watch.pending \subseteq watch'.pending
                         /\ watch.rescan => watch'.rescan
                         /\ \A q \in T : q \in watch'.pending \/ watch'.rescan
  BY <1>0, <1>2, <1>4, <1>6
<1> HIDE DEF T
<1> QED BY <1>2, <1>3, <1>7, <1>8, <1>9, TouchedNoted

(* A file is moved: both names are noted, and the checkpoint is inside the *)
(* moved file.                                                             *)
LEMMA ArchiveInv ==
  ASSUME Inv, NEW s \in Source, Archive(s)
  PROVE  Inv'
<1> DEFINE p == <<s, "sessions">>
           q == <<s, "archived_sessions">>
<1>0. TypeOK /\ Behind /\ p \in Path /\ q \in Path /\ p # q /\ p[1] = s /\ q[1] = s
  BY DEF Inv, Path
<1>1. Fits(watch)
  BY <1>0 DEF TypeOK, Fits
<1>2. /\ Fits(watch') /\ trouble' \in Nat
      /\ trouble' = 0 => /\ trouble = 0
                         /\ watch.pending \subseteq watch'.pending
                         /\ watch.rescan => watch'.rescan
                         /\ p \in watch'.pending \/ watch'.rescan
                         /\ q \in watch'.pending \/ watch'.rescan
  <2> DEFINE w == Add(watch, p)
             v == Add(w, q)
  <2>1. /\ Fits(w) /\ watch.pending \subseteq w.pending /\ (watch.rescan => w.rescan)
        /\ p \in w.pending \/ w.rescan
    BY <1>0, <1>1, AddFits
  <2>2. /\ Fits(v) /\ w.pending \subseteq v.pending /\ (w.rescan => v.rescan)
        /\ q \in v.pending \/ v.rescan
    BY <1>0, <2>1, AddFits
  <2>3. Notified(v)
    BY DEF Archive
  <2> HIDE DEF w, v
  <2>4. Fits(watch') /\ trouble' \in Nat /\ (trouble' = 0 => trouble = 0 /\ watch' = v)
    BY <1>0, <2>2, <2>3, NotedFits
  <2> QED BY <2>1, <2>2, <2>4
<1>3. file[p] \in Nat /\ file' = [file EXCEPT ![p] = Gone, ![q] = file[p]]
  BY <1>0 DEF TypeOK, Archive, Gone
<1>4. /\ file' \in [Path -> Nat \cup {Gone}]
      /\ file'[p] = Gone /\ file'[q] = file[p]
      /\ \A r \in Path \ {p, q} : file'[r] = file[r]
  BY <1>0, <1>3 DEF TypeOK
<1>5. offset[s] <= Whole(file'[q])
  BY <1>0, <1>3, <1>4 DEF Behind, Gone
<1>6. \A z \in Source :
        /\ offset[z] # NoRow => \/ file'[<<z, "sessions">>] # Gone
                                \/ file'[<<z, "archived_sessions">>] # Gone
        /\ \/ file'[<<z, "sessions">>] = Gone
           \/ file'[<<z, "archived_sessions">>] = Gone
  <2> SUFFICES ASSUME NEW z \in Source
               PROVE  /\ offset[z] # NoRow => \/ file'[<<z, "sessions">>] # Gone
                                              \/ file'[<<z, "archived_sessions">>] # Gone
                      /\ \/ file'[<<z, "sessions">>] = Gone
                         \/ file'[<<z, "archived_sessions">>] = Gone
    OBVIOUS
  <2>1. CASE z = s
    BY <1>3, <1>4, <2>1 DEF Gone
  <2>2. CASE z # s
    <3>1. /\ <<z, "sessions">> \in Path \ {p, q}
          /\ <<z, "archived_sessions">> \in Path \ {p, q}
      BY <2>2 DEF Path
    <3> QED BY <1>0, <1>4, <3>1 DEF Behind
  <2> QED BY <2>1, <2>2
<1>7. UNCHANGED <<offset, seen, active, fresh, due, pass>>
  BY DEF Archive
<1> HIDE DEF p, q
<1> DEFINE T == {p, q}
<1>8. /\ T \in SUBSET Path
      /\ \A r \in Path \ T : file'[r] = file[r]
      /\ \A r \in T : file'[r] # Gone => offset[r[1]] <= Whole(file'[r])
      /\ trouble' = 0 => /\ trouble = 0
                         /\ watch.pending \subseteq watch'.pending
                         /\ watch.rescan => watch'.rescan
                         /\ \A r \in T : r \in watch'.pending \/ watch'.rescan
  BY <1>0, <1>2, <1>4, <1>5
<1> HIDE DEF T
<1> QED BY <1>2, <1>4, <1>6, <1>7, <1>8, TouchedNoted

-----------------------------------------------------------------------------
(* Trouble is counted: after it nothing is promised of what is noticed.    *)
LEMMA GoesCounts ==
  ASSUME TypeOK, NEW wrong, Goes(wrong)
  PROVE  trouble' \in Nat /\ trouble' # 0
BY DEF TypeOK, Goes

(* The first pass lists every file, unless a directory cannot be walked.   *)
LEMMA StartInv ==
  ASSUME Inv, Start
  PROVE  Inv'
<1> PICK found \in SUBSET Existing :
      /\ \/ found = Existing /\ UNCHANGED trouble
         \/ found # Existing /\ Goes("walk error")
      /\ pass' = [pc |-> "next", first |-> TRUE, todo |-> found, cur |-> NoStamp]
  BY DEF Start
<1>0. TypeOK /\ Kept /\ Behind /\ Late
  BY DEF Inv
<1>1. trouble' \in Nat /\ (trouble' = 0 => trouble = 0 /\ found = Existing)
  BY <1>0, GoesCounts DEF TypeOK
<1>2. UNCHANGED <<file, offset, seen, watch>> /\ due' = {} /\ active' = {} /\ fresh' = {}
  BY DEF Start
<1>3. found \in SUBSET Path
  BY DEF Existing
<1>4. TypeOK'
  BY <1>0, <1>1, <1>2, <1>3 DEF TypeOK
<1>5. Kept'
  BY <1>2 DEF Kept
<1>6. Behind'
  BY <1>0, <1>2 DEF Behind
<1>7. Late'
  BY <1>1, <1>2 DEF Late, Unread, Existing
<1> QED BY <1>4, <1>5, <1>6, <1>7 DEF Inv

(* Whatever a timer or a rescan makes a pass look for is a path.           *)
LEMMA FoundPaths ==
  ASSUME TypeOK, NEW timers
  PROVE  Found(timers) \subseteq Path
BY DEF Found, Known, Unknown, Existing, Path

(* A rescan finds every file.                                              *)
LEMMA RescanFindsAll ==
  ASSUME TypeOK, NEW p \in Path, file[p] # Gone
  PROVE  p \in Found(Timers)
<1>1. p \in Existing /\ p[1] \in Source /\ p[2] \in {"sessions", "archived_sessions"}
      /\ p \in Source \X {p[2]}
  BY DEF Existing, Path
<1>2. CASE seen[p[1]].path = p
  <2>1. p \in Known(p[2])
    BY <1>1, <1>2 DEF Known
  <2> QED BY <1>1, <2>1 DEF Found, Timers
<1>3. CASE seen[p[1]].path # p
  <2>1. p \in Unknown(p[2])
    BY <1>1, <1>3 DEF Unknown
  <2> QED BY <1>1, <2>1 DEF Found, Timers
<1> QED BY <1>2, <1>3

(* A later pass takes what was noted, what is active and what is due; with *)
(* a rescan that is everything.                                            *)
LEMMA CollectInv ==
  ASSUME Inv, Collect
  PROVE  Inv'
<1>0. TypeOK /\ Kept /\ Behind /\ Late
  BY DEF Inv
<1> PICK old \in SUBSET (active \ fresh) : active' = active \ old
  BY DEF Collect, Drain
<1>1. /\ UNCHANGED <<file, offset, seen, trouble>> /\ due' = {} /\ fresh' = {}
      /\ watch' = [pending |-> {}, rescan |-> FALSE]
      /\ pass.pc = "idle"
      /\ pass' = [pc |-> "next", first |-> FALSE, cur |-> NoStamp,
                  todo |-> watch.pending \cup active' \cup Found(Overdue)]
  BY DEF Collect, Drain
<1>2. pass'.todo \in SUBSET Path
  BY <1>0, <1>1, FoundPaths DEF TypeOK
<1>3. Cardinality({}) <= MaxPending
  BY FS_EmptySet, SchedulerAssumption
<1>4. TypeOK'
  BY <1>0, <1>1, <1>2, <1>3 DEF TypeOK
<1>5. Kept'
  BY <1>1 DEF Kept
<1>6. Behind'
  BY <1>0, <1>1 DEF Behind
<1>7. ASSUME trouble = 0, NEW p \in Path, Unread(p)
      PROVE  p \in pass'.todo
  <2>1. p \in watch.pending \cup fresh \/ watch.rescan
    BY <1>0, <1>1, <1>7 DEF Late, Kept
  <2>2. CASE p \in watch.pending
    BY <1>1, <2>2
  <2>3. CASE p \in fresh
    BY <1>0, <1>1, <2>3 DEF Kept
  <2>4. CASE watch.rescan
    BY <1>0, <1>1, <1>7, <2>4, RescanFindsAll DEF Overdue, Unread
  <2> QED BY <2>1, <2>2, <2>3, <2>4
<1>8. Late'
  BY <1>1, <1>7 DEF Late, Unread
<1> QED BY <1>4, <1>5, <1>6, <1>8 DEF Inv

(* A pass that ends with an error has lost what was noted: nothing is      *)
(* promised any more, and nothing else changes.                            *)
LEMMA WalkErrorInv ==
  ASSUME Inv, WalkError
  PROVE  Inv'
<1>0. TypeOK /\ Kept /\ Behind /\ Late
  BY DEF Inv
<1> PICK old \in SUBSET (active \ fresh) : active' = active \ old
  BY DEF WalkError, Drain
<1>1. /\ UNCHANGED <<file, offset, seen, fresh, pass>>
      /\ watch' = [pending |-> {}, rescan |-> FALSE]
      /\ due' \subseteq Timers
  BY <1>0 DEF WalkError, Drain, Overdue, Timers, TypeOK
<1>2. trouble' \in Nat /\ trouble' # 0
  BY <1>0, GoesCounts DEF WalkError
<1>3. Cardinality({}) <= MaxPending
  BY FS_EmptySet, SchedulerAssumption
<1>4. TypeOK'
  BY <1>0, <1>1, <1>2, <1>3 DEF TypeOK
<1>5. Kept'
  BY <1>0, <1>1 DEF Kept
<1>6. Behind'
  BY <1>0, <1>1 DEF Behind
<1>7. Late'
  BY <1>2 DEF Late
<1> QED BY <1>4, <1>5, <1>6, <1>7 DEF Inv

-----------------------------------------------------------------------------
(* A path leaves the list of a pass; files, checkpoints and watcher stay.  *)
LEMMA SkipInv ==
  ASSUME Inv, NEW p \in Path, Skip(p),
         UNCHANGED <<file, offset, watch>>,
         seen' \in [Source -> [path : Path, size : Nat] \cup {NoStamp}],
         \A s \in Source : seen'[s].size <= offset[s],
         due' \subseteq Timers, active' \subseteq Path, fresh' \subseteq active',
         trouble' \in Nat,
         trouble' = 0 => /\ trouble = 0 /\ pass.pc # "off"
                         /\ fresh \subseteq fresh' \cup {p}
                         /\ Unread(p) => p \in watch.pending \cup fresh' \/ watch.rescan
  PROVE  Inv'
<1>0. TypeOK /\ Kept /\ Behind /\ Late
  BY DEF Inv
<1>1. pass' = [pass EXCEPT !.pc = "next", !.todo = @ \ {p}]
  BY DEF Skip
<1>2. pass'.pc = "next" /\ pass'.todo = pass.todo \ {p}
  BY <1>0, <1>1 DEF TypeOK
<1>3. TypeOK'
  BY <1>0, <1>1 DEF TypeOK
<1>4. Kept'
  BY <1>2 DEF Kept
<1>5. Behind'
  BY <1>0 DEF Behind
<1>6. ASSUME trouble' = 0, NEW q \in Path, Unread(q)
      PROVE  q \in watch.pending \cup pass'.todo \cup fresh' \/ watch.rescan
  <2>1. CASE q = p
    BY <1>6, <2>1
  <2>2. CASE q # p
    BY <1>0, <1>2, <1>6, <2>2 DEF Late
  <2> QED BY <2>1, <2>2
<1>7. Late'
  BY <1>2, <1>6 DEF Late, Unread
<1> QED BY <1>3, <1>4, <1>5, <1>7 DEF Inv

(* A file that is as remembered has no unread line.                        *)
LEMMA AsRemembered ==
  ASSUME TypeOK, Behind, NEW p \in Path, file[p] # Gone, seen[p[1]] = Stamp(p)
  PROVE  offset[p[1]] >= file[p] /\ ~Unread(p)
<1>1. p[1] \in Source /\ file[p] \in Nat /\ offset[p[1]] \in Int
  BY DEF TypeOK, Path, Gone, NoRow
<1>2. seen[p[1]].size = file[p]
  BY DEF Stamp
<1>3. file[p] <= offset[p[1]]
  BY <1>1, <1>2 DEF Behind
<1>4. Whole(file[p]) \in Nat /\ Whole(file[p]) <= file[p]
  BY <1>1, WholeMonotone
<1> QED BY <1>1, <1>3, <1>4 DEF Unread

(* A path that is skipped is gone, in trouble, or has no unread line; one  *)
(* that is not stays on the list.                                          *)
LEMMA StatInv ==
  ASSUME Inv, NEW p \in Path, Stat(p)
  PROVE  Inv'
<1>0. TypeOK /\ Kept /\ Behind /\ Late
  BY DEF Inv
<1> /\ seen \in [Source -> [path : Path, size : Nat] \cup {NoStamp}]
    /\ \A s \in Source : seen[s].size <= offset[s]
  BY <1>0 DEF TypeOK, Behind
<1>1. /\ pass.pc = "next" /\ p \in pass.todo
      /\ UNCHANGED <<file, offset, seen, watch, due>>
  BY DEF Stat
<1>2. trouble \in Nat /\ active \subseteq Path /\ fresh \subseteq active /\ due \subseteq Timers
  BY <1>0 DEF TypeOK, Kept
<1>3. CASE /\ file[p] = Gone /\ Skip(p) /\ UNCHANGED trouble
           /\ active' = IF pass.first THEN active ELSE active \ {p}
           /\ fresh' = IF pass.first THEN fresh ELSE fresh \ {p}
  <2>1. active' \subseteq Path /\ fresh' \subseteq active' /\ fresh \subseteq fresh' \cup {p}
    BY <1>2, <1>3
  <2>2. ~Unread(p)
    BY <1>3 DEF Unread
  <2> QED BY <1>1, <1>2, <1>3, <2>1, <2>2, SkipInv
<1>4. CASE Goes("stat error") /\ Skip(p) /\ UNCHANGED <<active, fresh>>
  <2>1. trouble' \in Nat /\ trouble' # 0
    BY <1>0, <1>4, GoesCounts
  <2> QED BY <1>1, <1>2, <1>4, <2>1, SkipInv
<1>5. CASE /\ file[p] # Gone /\ seen[p[1]] = Stamp(p)
           /\ Skip(p) /\ UNCHANGED <<active, fresh, trouble>>
  <2>1. ~Unread(p)
    BY <1>0, <1>5, AsRemembered
  <2> QED BY <1>1, <1>2, <1>5, <2>1, SkipInv
<1>6. CASE /\ file[p] # Gone
           /\ pass' = [pass EXCEPT !.pc = "stated", !.cur = Stamp(p)]
           /\ UNCHANGED <<active, fresh, trouble>>
  <2>1. Stamp(p) \in [path : Path, size : Nat]
    BY <1>0, <1>6 DEF Stamp, TypeOK, Gone
  <2>2. /\ pass'.pc = "stated" /\ pass'.todo = pass.todo /\ pass'.cur = Stamp(p)
        /\ pass'.cur.path = p /\ pass'.cur.size = file[p]
    BY <1>0, <1>6 DEF TypeOK, Stamp
  <2>3. TypeOK'
    BY <1>0, <1>1, <1>6, <2>1 DEF TypeOK
  <2>4. Kept'
    BY <1>0, <1>1, <1>6, <2>2 DEF Kept
  <2>5. Behind'
    BY <1>0, <1>1 DEF Behind
  <2>6. Late'
    BY <1>0, <1>1, <1>6, <2>2 DEF Late, Unread
  <2> QED BY <2>3, <2>4, <2>5, <2>6 DEF Inv
<1> QED BY <1>1, <1>3, <1>4, <1>5, <1>6 DEF Stat

(* A scan takes the checkpoint forward, and not beyond the whole lines.    *)
LEMMA ReadToForward ==
  ASSUME NEW s \in Source, offset[s] \in Nat \cup {NoRow},
         NEW size \in Nat, offset[s] <= Whole(size)
  PROVE  /\ ReadTo(s, size) \in Nat
         /\ offset[s] <= ReadTo(s, size) /\ ReadTo(s, size) <= Whole(size)
<1>1. Whole(size) \in Nat
  BY WholeMonotone
<1>2. ChunkLimit \in Nat \ {0}
  BY SchedulerAssumption
<1>3. CASE offset[s] = NoRow
  BY <1>1, <1>2, <1>3 DEF ReadTo, NoRow
<1>4. CASE offset[s] # NoRow
  BY <1>1, <1>2, <1>4 DEF ReadTo
<1> QED BY <1>3, <1>4

(* Skipping a path reads nothing: the case of an error while reading.      *)
LEMMA ReadErrorInv ==
  ASSUME Inv, ReadError
  PROVE  Inv'
<1>0. TypeOK /\ Kept /\ Behind /\ Late
  BY DEF Inv
<1> /\ seen \in [Source -> [path : Path, size : Nat] \cup {NoStamp}]
    /\ \A s \in Source : seen[s].size <= offset[s]
  BY <1>0 DEF TypeOK, Behind
<1>1. /\ pass.cur.path \in Path
      /\ active \subseteq Path /\ fresh \subseteq active /\ due \subseteq Timers
      /\ trouble' \in Nat /\ trouble' # 0
      /\ UNCHANGED <<file, offset, seen, watch, due, active, fresh>>
  BY <1>0, GoesCounts DEF ReadError, TypeOK, Kept
<1>2. CASE pass' = Off
  <2>1. TypeOK'
    BY <1>0, <1>1, <1>2 DEF TypeOK, Off, Idle
  <2>2. Kept'
    BY <1>0, <1>1, <1>2 DEF Kept, Off, Idle
  <2>3. Behind'
    BY <1>0, <1>1 DEF Behind
  <2>4. Late'
    BY <1>1 DEF Late
  <2> QED BY <2>1, <2>2, <2>3, <2>4 DEF Inv
<1>3. CASE Skip(pass.cur.path)
  BY <1>1, <1>3, SkipInv
<1> QED BY <1>2, <1>3 DEF ReadError, Failed

(* Reading: the checkpoint goes forward, and the path stays on the list.   *)
LEMMA ReadInv ==
  ASSUME Inv, Read
  PROVE  Inv'
<1> DEFINE p == pass.cur.path
<1>0. TypeOK /\ Kept /\ Behind /\ Late
  BY DEF Inv
<1>1. /\ pass.pc = "stated" /\ pass' = [pass EXCEPT !.pc = "read"]
      /\ active' = IF pass.first THEN active ELSE active \cup {p}
      /\ fresh' = IF pass.first THEN fresh ELSE fresh \cup {p}
      /\ offset' = IF file[p] = Gone THEN offset
                   ELSE [offset EXCEPT ![p[1]] = ReadTo(p[1], file[p])]
      /\ UNCHANGED <<file, seen, watch, due, trouble>>
  BY DEF Read
<1>2. p \in pass.todo /\ p \in Path /\ p[1] \in Source
  BY <1>0, <1>1 DEF Kept, TypeOK, Path
<1>3. /\ pass'.pc = "read" /\ pass'.first = pass.first
      /\ pass'.todo = pass.todo /\ pass'.cur = pass.cur
  BY <1>0, <1>1 DEF TypeOK
<1>4. /\ offset' \in [Source -> Nat \cup {NoRow}]
      /\ \A s \in Source : offset[s] <= offset'[s]
      /\ \A q \in Path : file[q] # Gone => offset'[q[1]] <= Whole(file[q])
      /\ file[p] = Gone \/ \A s \in Source \ {p[1]} : offset'[s] = offset[s]
      /\ file[p] = Gone => offset' = offset
  <2>0. offset \in [Source -> Nat \cup {NoRow}]
    BY <1>0 DEF TypeOK
  <2>1. CASE file[p] = Gone
    BY <1>0, <1>1, <2>0, <2>1 DEF Behind, NoRow
  <2>2. CASE file[p] # Gone
    <3>1. file[p] \in Nat /\ offset[p[1]] <= Whole(file[p])
      BY <1>0, <1>2, <2>2 DEF TypeOK, Behind, Gone
    <3>2. /\ ReadTo(p[1], file[p]) \in Nat
          /\ offset[p[1]] <= ReadTo(p[1], file[p])
          /\ ReadTo(p[1], file[p]) <= Whole(file[p])
      BY <1>2, <2>0, <3>1, ReadToForward
    <3>3. offset' = [offset EXCEPT ![p[1]] = ReadTo(p[1], file[p])]
      BY <1>1, <2>2
    <3> HIDE DEF p
    <3>4. /\ offset' \in [Source -> Nat \cup {NoRow}]
          /\ offset'[p[1]] = ReadTo(p[1], file[p])
          /\ \A s \in Source \ {p[1]} : offset'[s] = offset[s]
      BY <1>2, <2>0, <3>2, <3>3
    <3>5. \A s \in Source : offset[s] <= offset'[s]
      BY <2>0, <3>2, <3>4 DEF NoRow
    <3>6. ASSUME NEW q \in Path, file[q] # Gone
          PROVE  offset'[q[1]] <= Whole(file[q])
      <4>1. CASE q[1] = p[1]
        <5>1. q = p
          BY <1>0, <1>2, <2>2, <3>6, <4>1 DEF Behind, Path
        <5> QED BY <3>2, <3>4, <5>1
      <4>2. CASE q[1] # p[1]
        <5>1. q[1] \in Source \ {p[1]}
          BY <4>2 DEF Path
        <5> QED BY <1>0, <3>4, <3>6, <5>1 DEF Behind
      <4> QED BY <4>1, <4>2
    <3> QED BY <2>2, <3>4, <3>5, <3>6
  <2> QED BY <2>1, <2>2
<1> HIDE DEF p
<1>5. TypeOK'
  BY <1>0, <1>1, <1>2, <1>4 DEF TypeOK
<1>6. Kept'
  <2>1. pass.cur.path \in pass.todo /\ fresh' \subseteq active'
    BY <1>0, <1>1, <1>2 DEF Kept, p
  <2>2. ~pass.first => pass.cur.path \in fresh'
    BY <1>1 DEF p
  <2> QED BY <1>3, <2>1, <2>2 DEF Kept
<1>7. Behind'
  <2>1. \A s \in Source : seen[s].size <= offset'[s]
    <3> SUFFICES ASSUME NEW s \in Source
                 PROVE  seen[s].size <= offset'[s]
      OBVIOUS
    <3>1. seen[s].size \in Int /\ offset[s] \in Int /\ offset'[s] \in Int
      BY <1>0, <1>4 DEF TypeOK, NoStamp, NoRow, Gone
    <3>2. seen[s].size <= offset[s] /\ offset[s] <= offset'[s]
      BY <1>0, <1>4 DEF Behind
    <3> QED BY <3>1, <3>2
  <2>2. \A s \in Source :
          offset'[s] # NoRow =>
            file[<<s, "sessions">>] # Gone \/ file[<<s, "archived_sessions">>] # Gone
    <3> SUFFICES ASSUME NEW s \in Source, offset'[s] # NoRow
                 PROVE  file[<<s, "sessions">>] # Gone
                          \/ file[<<s, "archived_sessions">>] # Gone
      OBVIOUS
    <3>1. CASE s = p[1] /\ file[p] # Gone
      BY <1>2, <3>1 DEF Path
    <3>2. CASE s # p[1] \/ file[p] = Gone
      BY <1>0, <1>4, <3>2 DEF Behind
    <3> QED BY <3>1, <3>2
  <2> QED BY <1>0, <1>1, <1>4, <2>1, <2>2 DEF Behind
<1>8. Late'
  <2>1. ASSUME NEW q \in Path, Unread(q)'
        PROVE  Unread(q)
    <3>1. q[1] \in Source
      BY DEF Path
    <3>2. /\ offset[q[1]] <= offset'[q[1]] /\ offset[q[1]] \in Int /\ offset'[q[1]] \in Int
      BY <1>0, <1>4, <3>1 DEF TypeOK, NoRow
    <3>3. file[q] # Gone /\ Whole(file[q]) > offset'[q[1]]
      BY <1>1, <2>1 DEF Unread
    <3>4. file[q] \in Nat /\ Whole(file[q]) \in Nat
      BY <1>0, <3>3, WholeMonotone DEF TypeOK, Gone
    <3> QED BY <3>2, <3>3, <3>4 DEF Unread
  <2>2. fresh \subseteq fresh'
    BY <1>1
  <2> QED BY <1>0, <1>1, <1>3, <2>1, <2>2 DEF Late
<1> QED BY <1>5, <1>6, <1>7, <1>8 DEF Inv

(* Remembering: a file read to its stamp has grown since or has no unread  *)
(* line, and one that was not is made active.                              *)
LEMMA RememberInv ==
  ASSUME Inv, Remember
  PROVE  Inv'
<1> DEFINE p == pass.cur.path
<1>0. TypeOK /\ Kept /\ Behind /\ Late
  BY DEF Inv
<1>1. pass.pc = "read" /\ UNCHANGED <<file, offset, watch, due, trouble>>
  BY DEF Remember
<1>2. /\ p \in pass.todo /\ p \in Path /\ p[1] \in Source
      /\ pass.first \/ p \in fresh
  BY <1>0, <1>1 DEF Kept, TypeOK, Path
<1>3. /\ trouble \in Nat /\ due \subseteq Timers
      /\ active \subseteq Path /\ fresh \subseteq active
      /\ seen \in [Source -> [path : Path, size : Nat] \cup {NoStamp}]
      /\ \A s \in Source : seen[s].size <= offset[s]
      /\ \A s \in Source : offset[s] \in Int /\ offset[s] >= -1
  BY <1>0 DEF TypeOK, Kept, Behind, NoRow
<1>4. CASE offset[p[1]] = NoRow
  <2>1. Failed(p) /\ UNCHANGED <<seen, active, fresh>>
    BY <1>4 DEF Remember
  <2>2. CASE pass' = Off
    <3>1. TypeOK'
      BY <1>0, <1>1, <2>1, <2>2 DEF TypeOK, Off, Idle
    <3>2. Kept'
      BY <1>0, <2>1, <2>2 DEF Kept, Off, Idle
    <3>3. Behind'
      BY <1>0, <1>1, <2>1 DEF Behind
    <3>4. Late'
      BY <2>2 DEF Late, Off, Idle
    <3> QED BY <3>1, <3>2, <3>3, <3>4 DEF Inv
  <2>3. CASE Skip(p) /\ ~pass.first
    <3> HIDE DEF p
    <3> QED BY <1>1, <1>2, <1>3, <2>1, <2>3, SkipInv
  <2> QED BY <2>1, <2>2, <2>3 DEF Failed
<1>5. CASE offset[p[1]] # NoRow /\ ReadWhole(p[1])
  <2>1. /\ Skip(p) /\ seen' = [seen EXCEPT ![p[1]] = pass.cur]
        /\ UNCHANGED <<active, fresh>>
    BY <1>5 DEF Remember
  <2>2. pass.cur \in [path : Path, size : Nat] \cup {NoStamp}
    BY <1>0 DEF TypeOK
  <2>3. pass.cur.size <= offset[p[1]] /\ pass.cur.size \in Int
    BY <1>3, <1>5, <2>2, <1>2 DEF ReadWhole, NoStamp, Gone
  <2>4. /\ seen' \in [Source -> [path : Path, size : Nat] \cup {NoStamp}]
        /\ \A s \in Source : seen'[s].size <= offset[s]
    <3> HIDE DEF p
    <3> QED BY <1>2, <1>3, <2>1, <2>2, <2>3
  <2>5. ASSUME trouble = 0, Unread(p)
        PROVE  p \in watch.pending \/ watch.rescan
    <3>1. file[p] # Gone /\ file[p] \in Nat
      BY <1>0, <1>2, <2>5 DEF Unread, TypeOK, Gone
    <3>2. Whole(file[p]) \in Nat /\ Whole(file[p]) <= file[p]
      BY <3>1, WholeMonotone
    <3>3. file[p] # pass.cur.size
      BY <1>2, <1>3, <2>3, <2>5, <3>1, <3>2 DEF Unread
    <3> QED BY <1>0, <1>1, <2>5, <3>1, <3>3 DEF Late
  <2> HIDE DEF p
  <2> QED BY <1>1, <1>2, <1>3, <2>1, <2>4, <2>5, SkipInv
<1>6. CASE offset[p[1]] # NoRow /\ ~ReadWhole(p[1])
  <2>1. /\ Skip(p) /\ seen' = [seen EXCEPT ![p[1]] = NoStamp]
        /\ active' = active \cup {p} /\ fresh' = fresh \cup {p}
    BY <1>6 DEF Remember
  <2> HIDE DEF p
  <2>2. NoStamp.size <= offset[p[1]]
    BY <1>2, <1>3 DEF NoStamp, Gone
  <2>3. /\ seen' \in [Source -> [path : Path, size : Nat] \cup {NoStamp}]
        /\ \A s \in Source : seen'[s].size <= offset[s]
    BY <1>2, <1>3, <2>1, <2>2
  <2>4. active' \subseteq Path /\ fresh' \subseteq active' /\ fresh \subseteq fresh' /\ p \in fresh'
    BY <1>2, <1>3, <2>1
  <2> QED BY <1>1, <1>2, <1>3, <2>1, <2>3, <2>4, SkipInv
<1> QED BY <1>4, <1>5, <1>6

(* A pass ends with nothing left on its list.                              *)
LEMMA FinishInv ==
  ASSUME Inv, Finish
  PROVE  Inv'
<1>0. TypeOK /\ Kept /\ Behind /\ Late
  BY DEF Inv
<1>1. /\ pass.pc = "next" /\ pass.todo = {} /\ pass' = Idle
      /\ UNCHANGED <<file, offset, seen, watch, due, trouble>>
  BY DEF Finish
<1>2. /\ active' \subseteq Path /\ fresh' \subseteq active' /\ fresh \subseteq fresh'
  BY <1>0 DEF TypeOK, Kept, Finish
<1>3. pass'.pc = "idle" /\ pass'.todo = {}
  BY <1>1 DEF Idle
<1>4. TypeOK'
  BY <1>0, <1>1, <1>2 DEF TypeOK, Idle
<1>5. Kept'
  BY <1>2, <1>3 DEF Kept
<1>6. Behind'
  BY <1>0, <1>1 DEF Behind
<1>7. Late'
  BY <1>0, <1>1, <1>2, <1>3 DEF Late, Unread
<1> QED BY <1>4, <1>5, <1>6, <1>7 DEF Inv

(* A crash leaves the files and the checkpoints.                           *)
LEMMA CrashInv ==
  ASSUME Inv, Crash
  PROVE  Inv'
<1>0. TypeOK /\ Kept /\ Behind /\ Late
  BY DEF Inv
<1> PICK noted \in SUBSET Existing :
      /\ Cardinality(noted) <= MaxPending
      /\ watch' = [pending |-> noted, rescan |-> noted # Existing]
  BY DEF Crash
<1>1. /\ seen' = [s \in Source |-> NoStamp] /\ active' = {} /\ fresh' = {}
      /\ due' = {} /\ pass' = Off /\ UNCHANGED <<file, offset>>
  BY DEF Crash
<1>2. trouble' \in Nat /\ trouble' # 0
  BY <1>0, GoesCounts DEF Crash
<1>3. watch' \in [pending : SUBSET Path, rescan : BOOLEAN]
      /\ Cardinality(watch'.pending) <= MaxPending
  BY DEF Existing
<1>4. TypeOK'
  BY <1>0, <1>1, <1>2, <1>3 DEF TypeOK, Off, Idle
<1>5. Kept'
  BY <1>1 DEF Kept, Off, Idle
<1>6. Behind'
  <2>1. \A s \in Source : NoStamp.size <= offset[s]
    BY <1>0 DEF TypeOK, NoStamp, NoRow, Gone
  <2>2. \A s \in Source : seen'[s].size <= offset[s]
    BY <1>1, <2>1
  <2> QED BY <1>0, <1>1, <2>2 DEF Behind
<1>7. Late'
  BY <1>2 DEF Late
<1> QED BY <1>4, <1>5, <1>6, <1>7 DEF Inv

(* Every step keeps the invariant.                                         *)
LEMMA NextInv == Inv /\ [Next]_vars => Inv'
<1> SUFFICES ASSUME Inv, [Next]_vars
             PROVE  Inv'
  OBVIOUS
<1>1. ASSUME NEW s \in Source, Create(s)
      PROVE  Inv'
  BY <1>1, CreateInv
<1>2. ASSUME NEW s \in Source, Append(s)
      PROVE  Inv'
  <2> PICK p \in Existing : p[1] = s /\ Write(p)
    BY <1>2 DEF Append
  <2> QED BY WriteInv DEF Existing
<1>3. ASSUME NEW s \in Source, Archive(s)
      PROVE  Inv'
  BY <1>3, ArchiveInv
<1>4. ASSUME NEW t \in Timers, Elapse(t)
      PROVE  Inv'
  BY <1>4 DEF Elapse, Inv, TypeOK, Kept, Behind, Late, Unread
<1>5. ASSUME NEW p \in Path, Stat(p)
      PROVE  Inv'
  BY <1>5, StatInv
<1>6. CASE UNCHANGED vars
  BY <1>6 DEF vars, Inv, TypeOK, Kept, Behind, Late, Unread
<1> QED
  BY <1>1, <1>2, <1>3, <1>4, <1>5, <1>6, StartInv, CollectInv, WalkErrorInv,
     ReadInv, ReadErrorInv, RememberInv, FinishInv, CrashInv DEF Next, Step

-----------------------------------------------------------------------------
(* The invariant holds in every behaviour.                                 *)
LEMMA SpecInv == Spec => []Inv
<1>1. Init => Inv
  BY InitInv
<1>2. Inv /\ [Next]_vars => Inv'
  BY NextInv
<1> QED BY <1>1, <1>2, PTL DEF Spec

(* The watcher's memory stays within its limit, whatever is imported       *)
(* (agent_watch.go:12), and every variable keeps its type.                 *)
THEOREM Typed == Spec => []TypeOK
<1>1. Inv => TypeOK
  BY DEF Inv
<1> QED BY <1>1, SpecInv, PTL

(* A file whose stamp lets a pass skip it was read to its end.             *)
THEOREM Skipped == Spec => []PassedOverWhenRead
<1>1. Inv => PassedOverWhenRead
  <2> SUFFICES ASSUME Inv, NEW p \in Existing, seen[p[1]] = Stamp(p)
               PROVE  offset[p[1]] >= file[p]
    BY DEF PassedOverWhenRead
  <2>1. p \in Path /\ file[p] # Gone
    BY DEF Existing
  <2> QED BY <2>1, AsRemembered DEF Inv
<1> QED BY <1>1, SpecInv, PTL

(* Unless something goes wrong, a file with unread lines is taken by the   *)
(* pass under way or the next, for any number of paths and any chunk.      *)
THEOREM NeverLeftToTimers == Spec => []Noticed
<1>1. Inv => Noticed
  BY DEF Inv, Late, Kept, Noticed
<1> QED BY <1>1, SpecInv, PTL

=============================================================================
