---------------------------- MODULE ScanScheduler ----------------------------
(***************************************************************************)
(* Which log files the agent looks at, and when.  A pass takes the paths   *)
(* the watcher has noted, the files that were active lately and, when a    *)
(* timer is due, those a walk of the directories finds; it compares each   *)
(* file's stamp with the one remembered and reads what is new, a chunk at  *)
(* a time.  Codex appends to a file of its own accord and moves it to the  *)
(* archive; the checkpoint belongs to the session, not to the path.        *)
(*                                                                         *)
(* What is read, and what becomes of it, is the subject of Delivery.  The  *)
(* first run's baseline lies before the initial state.                     *)
(***************************************************************************)
EXTENDS Integers, FiniteSets

CONSTANTS
  Source,      \* sessions
  ChunkLimit,  \* lines one scan of a file reads (512)
  MaxPending,  \* paths the watcher notes between two passes (1024)
  Trouble,     \* what may go wrong: a subset of Troubles
  MaxLines,    \* bound: lines of a file
  MaxTrouble   \* bound: how often something goes wrong

Troubles ==
  {"lost notification", "walk error", "stat error", "read error", "crash"}

ASSUME SchedulerAssumption ==
  /\ IsFiniteSet(Source)
  /\ ChunkLimit \in Nat \ {0}
  /\ MaxPending \in Nat
  /\ Trouble \subseteq Troubles
  /\ MaxLines \in Nat /\ MaxTrouble \in Nat

VARIABLES
  file,     \* file[p]: size in half lines, or Gone
  offset,   \* offset[s]: the checkpoint's, in half lines, or NoRow
  seen,     \* seen[s]: stamp of a file that was read to its end, or NoStamp
  active,   \* paths every pass looks at
  fresh,    \* those made active by the latest pass
  watch,    \* the watcher: pending paths, and rescan if it had to drop one
  due,      \* timers that have run out
  pass,     \* [pc, first, todo, cur]: the pass under way
  trouble   \* history: how often something went wrong

vars == <<file, offset, seen, active, fresh, watch, due,
          pass, trouble>>

-----------------------------------------------------------------------------
Path   == Source \X {"sessions", "archived_sessions"}
Timers == {"discovered", "history", "archived"}

Gone    == -1
NoRow   == -1
NoStamp == [path |-> <<>>, size |-> Gone]

(* A file that is only appended to has another size whenever its time of   *)
(* modification is another: path and size stand for the stamp.             *)
Stamp(p) == [path |-> p, size |-> file[p]]

Existing == {p \in Path : file[p] # Gone}

Whole(n) == 2 * (n \div 2)

Idle == [pc |-> "idle", first |-> FALSE, todo |-> {}, cur |-> NoStamp]
Off  == [Idle EXCEPT !.pc = "off"]

Init ==
  /\ file = [p \in Path |-> Gone]
  /\ offset = [s \in Source |-> NoRow]
  /\ seen = [s \in Source |-> NoStamp]
  /\ active = {} /\ fresh = {}
  /\ watch = [pending |-> {}, rescan |-> FALSE]
  /\ due = {}
  /\ pass = Off
  /\ trouble = 0

Goes(wrong) ==
  /\ wrong \in Trouble
  /\ trouble < MaxTrouble
  /\ trouble' = trouble + 1

-----------------------------------------------------------------------------
(* The files and the watcher.                                              *)

(* A path that does not fit is dropped and everything looked at again.     *)
MutantAddAll(w, p) == [w EXCEPT !.pending = @ \cup {p}]

MutantAdd(w, p) ==
  IF Cardinality(w.pending) < MaxPending
    THEN [w EXCEPT !.pending = @ \cup {p}]
    ELSE w

Add(w, p) ==
  IF Cardinality(w.pending) < MaxPending
    THEN [w EXCEPT !.pending = @ \cup {p}]
    ELSE [w EXCEPT !.rescan = TRUE]

Notified(w) ==
  \/ watch' = w /\ UNCHANGED trouble
  \/ Goes("lost notification") /\ UNCHANGED watch

(* Half a line, a line, or the rest of one and another.                    *)
Write(p) ==
  \E n \in 1..3 :
    /\ file[p] + n <= 2 * MaxLines
    /\ file' = [file EXCEPT ![p] = @ + n]
    /\ Notified(Add(watch, p))
    /\ UNCHANGED <<offset, seen, active, fresh, due, pass>>

Append(s) ==
  \E p \in Existing : p[1] = s /\ Write(p)

Create(s) ==
  /\ \A p \in Existing : p[1] # s
  /\ file' = [file EXCEPT ![<<s, "sessions">>] = 0]
  /\ Notified(Add(watch, <<s, "sessions">>))
  /\ UNCHANGED <<offset, seen, active, fresh, due, pass>>

(* Both names are noted.                                                   *)
Archive(s) ==
  LET p == <<s, "sessions">>
      q == <<s, "archived_sessions">>
  IN  /\ file[p] # Gone
      /\ file' = [file EXCEPT ![p] = Gone, ![q] = file[p]]
      /\ Notified(Add(Add(watch, p), q))
      /\ UNCHANGED <<offset, seen, active, fresh, due, pass>>

-----------------------------------------------------------------------------
(* A pass.                                                                 *)

Elapse(t) ==
  /\ t \notin due
  /\ due' = due \cup {t}
  /\ UNCHANGED <<file, offset, seen, active, fresh, watch,
                 pass, trouble>>

(* The first pass of a process looks at every file, or at those that could *)
(* be walked to.                                                           *)
Start ==
  /\ pass.pc = "off"
  /\ \E found \in SUBSET Existing :
       /\ \/ found = Existing /\ UNCHANGED trouble
          \/ found # Existing /\ Goes("walk error")
       /\ pass' = [pc |-> "next", first |-> TRUE, todo |-> found, cur |-> NoStamp]
  /\ due' = {} /\ active' = {} /\ fresh' = {}
  /\ UNCHANGED <<file, offset, seen, watch>>

(* What a walk of a directory finds: files that are not known by this path.*)
Unknown(directory) ==
  {p \in Existing : p[2] = directory /\ seen[p[1]].path # p}

(* Files known by their path are looked at again, less often.              *)
Known(directory) ==
  {seen[s].path : s \in {s \in Source : seen[s].path \in Source \X {directory}}}

Found(timers) ==
  (IF "discovered" \in timers THEN Unknown("sessions") ELSE {})
    \cup (IF "history" \in timers THEN Known("sessions") ELSE {})
    \cup (IF "archived" \in timers
            THEN Unknown("archived_sessions") \cup Known("archived_sessions")
            ELSE {})

Overdue == IF watch.rescan THEN Timers ELSE due

(* The watcher is emptied, and what was not active for two minutes is      *)
(* dropped unless its task is running: some of what the latest pass did    *)
(* not make active.  A pass is taken to last less than two minutes.        *)
Drain ==
  /\ pass.pc = "idle"
  /\ watch' = [pending |-> {}, rescan |-> FALSE]
  /\ \E old \in SUBSET (active \ fresh) : active' = active \ old
  /\ UNCHANGED <<file, offset, seen>>

Collect ==
  /\ Drain
  /\ pass' = [pc |-> "next", first |-> FALSE, cur |-> NoStamp,
              todo |-> watch.pending \cup active' \cup Found(Overdue)]
  /\ due' = {}
  /\ fresh' = {}
  /\ UNCHANGED trouble

(* A walk fails and ends the pass; what the watcher had noted is lost.     *)
WalkError ==
  /\ Drain
  /\ Goes("walk error")
  /\ \/ "discovered" \in Overdue /\ due' = Overdue
     \/ "archived" \in Overdue /\ due' = {"archived"}
  /\ UNCHANGED <<fresh, pass>>

Skip(p) == pass' = [pass EXCEPT !.pc = "next", !.todo = @ \ {p}]

Stat(p) ==
  /\ pass.pc = "next" /\ p \in pass.todo
  /\ \/ /\ file[p] = Gone
        /\ Skip(p)
        /\ active' = IF pass.first THEN active ELSE active \ {p}
        /\ fresh' = IF pass.first THEN fresh ELSE fresh \ {p}
        /\ UNCHANGED trouble
     \/ /\ Goes("stat error")
        /\ Skip(p)
        /\ UNCHANGED <<active, fresh>>
     \/ /\ file[p] # Gone /\ seen[p[1]] = Stamp(p)
        /\ Skip(p)
        /\ UNCHANGED <<active, fresh, trouble>>
     \/ /\ file[p] # Gone /\ seen[p[1]] # Stamp(p)
        /\ pass' = [pass EXCEPT !.pc = "stated", !.cur = Stamp(p)]
        /\ UNCHANGED <<active, fresh, trouble>>
  /\ UNCHANGED <<file, offset, seen, watch, due>>

(* Whole lines from the checkpoint on, up to a chunk of them.              *)
ReadTo(s, size) ==
  LET from  == IF offset[s] = NoRow THEN 0 ELSE offset[s]
      whole == Whole(size)
  IN  IF whole > from + 2 * ChunkLimit THEN from + 2 * ChunkLimit ELSE whole

(* The file may be gone, or longer, since its stamp was taken.             *)
Read ==
  LET p == pass.cur.path
  IN  /\ pass.pc = "stated"
      /\ offset' = IF file[p] = Gone THEN offset
                   ELSE [offset EXCEPT ![p[1]] = ReadTo(p[1], file[p])]
      /\ active' = IF pass.first THEN active ELSE active \cup {p}
      /\ fresh' = IF pass.first THEN fresh ELSE fresh \cup {p}
      /\ pass' = [pass EXCEPT !.pc = "read"]
      /\ UNCHANGED <<file, seen, watch, due, trouble>>

(* An error ends the first pass, which starts again; a later one goes on.  *)
Failed(p) == IF pass.first THEN pass' = Off ELSE Skip(p)

ReadError ==
  /\ pass.pc \in {"stated", "read"}
  /\ Goes("read error")
  /\ Failed(pass.cur.path)
  /\ UNCHANGED <<file, offset, seen, active, fresh, watch, due>>

(* The stamp taken before reading is remembered once all of it was read.   *)
MutantReadWhole(s) == TRUE

ReadWhole(s) == offset[s] >= pass.cur.size

Remember ==
  LET p == pass.cur.path
  IN  /\ pass.pc = "read"
      /\ IF offset[p[1]] = NoRow
           THEN Failed(p) /\ UNCHANGED <<seen, active, fresh>>
           ELSE /\ Skip(p)
                /\ IF ReadWhole(p[1])
                     THEN /\ seen' = [seen EXCEPT ![p[1]] = pass.cur]
                          /\ UNCHANGED <<active, fresh>>
                     ELSE /\ seen' = [seen EXCEPT ![p[1]] = NoStamp]
                          /\ active' = active \cup {p}
                          /\ fresh' = fresh \cup {p}
      /\ UNCHANGED <<file, offset, watch, due, trouble>>

(* The first pass ends with the files changed lately, and those whose      *)
(* checkpoint says that a task is running, as active ones.                 *)
Finish ==
  /\ pass.pc = "next" /\ pass.todo = {}
  /\ pass' = Idle
  /\ IF pass.first
       THEN \E recent \in SUBSET {p \in Path : offset[p[1]] # NoRow} :
              /\ active' = active \cup recent
              /\ fresh' = fresh \cup recent
       ELSE UNCHANGED <<active, fresh>>
  /\ UNCHANGED <<file, offset, seen, watch, due, trouble>>

(* The next process has no stamps and no scheduler, and a new watcher that *)
(* notes every file it finds.                                              *)
Crash ==
  /\ Goes("crash")
  /\ seen' = [s \in Source |-> NoStamp]
  /\ active' = {} /\ fresh' = {}
  /\ \E noted \in SUBSET Existing :
       /\ Cardinality(noted) <= MaxPending
       /\ noted = Existing \/ Cardinality(noted) = MaxPending
       /\ watch' = [pending |-> noted, rescan |-> noted # Existing]
  /\ due' = {}
  /\ pass' = Off
  /\ UNCHANGED <<file, offset>>

-----------------------------------------------------------------------------
Step ==
  Start \/ Collect \/ Read \/ Remember \/ Finish \/ \E p \in Path : Stat(p)

Next ==
  \/ \E s \in Source : Create(s) \/ Append(s) \/ Archive(s)
  \/ \E t \in Timers : Elapse(t)
  \/ Step \/ WalkError \/ ReadError \/ Crash

(* The collector's loop runs every quarter of a second, and time passes.   *)
(* Nobody has to write, and nothing has to go wrong.                       *)
Spec == Init /\ [][Next]_vars

FairSpec ==
  /\ Spec
  /\ WF_vars(UNCHANGED trouble /\ Step)
  /\ \A t \in Timers : WF_vars(Elapse(t))

-----------------------------------------------------------------------------
(* Properties.                                                             *)

TypeOK ==
  /\ file \in [Path -> Nat \cup {Gone}]
  /\ offset \in [Source -> Nat \cup {NoRow}]
  /\ seen \in [Source -> [path : Path, size : Nat] \cup {NoStamp}]
  /\ active \subseteq Path /\ fresh \subseteq Path
  /\ watch \in [pending : SUBSET Path, rescan : BOOLEAN]
  /\ Cardinality(watch.pending) <= MaxPending
  /\ due \subseteq Timers
  /\ pass \in [pc : {"off", "idle", "next", "stated", "read"}, first : BOOLEAN,
               todo : SUBSET Path, cur : [path : Path, size : Nat] \cup {NoStamp}]
  /\ trouble \in Nat

(* A file is passed over only when all of it was read: whatever was        *)
(* appended, moved or half read while a pass was under way shows in the    *)
(* next stamp.                                                             *)
PassedOverWhenRead ==
  \A p \in Existing :
    seen[p[1]] = Stamp(p) => offset[p[1]] >= file[p]

(* While nothing goes wrong, a file with unread lines is already on its    *)
(* way into a pass and does not wait for a timer, also when the watcher    *)
(* had to drop paths or a chunk was not enough.                            *)
Unread(p) == file[p] # Gone /\ Whole(file[p]) > offset[p[1]]

Noticed ==
  trouble = 0 /\ pass.pc # "off" =>
    \A p \in Path :
      Unread(p) => p \in watch.pending \cup pass.todo \cup active \/ watch.rescan

(* Every whole line is read at last, whatever was lost on the way.         *)
EveryLineRead ==
  \A p \in Path : <>[](file[p] # Gone => offset[p[1]] = Whole(file[p]))

=============================================================================
