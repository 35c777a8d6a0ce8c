------------------------------- MODULE TaskFeed -------------------------------
(***************************************************************************)
(* How a dashboard learns which task is running.  Each new event moves the *)
(* task's row of evidence, unless it is older than what the row knows, and *)
(* the hub's task number; every stream is woken and sends the whole list   *)
(* with the number.  Heartbeats, snapshots and frames of numbers carry the *)
(* list as well, some of them as it was earlier.  The page keeps the list  *)
(* with the higher number while the server is the same.                    *)
(*                                                                         *)
(* One task and one page: tasks have rows of their own, and streams share *)
(* nothing but the number.  A list is named by how many commits it has     *)
(* seen.                                                                   *)
(***************************************************************************)
EXTENDS Integers, Sequences, FiniteSets

CONSTANTS
  Logs,       \* what Codex may have written: sequences of [kind, turn, at]
  Trouble,    \* what may go wrong: a subset of Troubles
  MaxTrouble  \* bound: how often something goes wrong

Kinds == {"started", "ended", "live", "exact"}

(* A message is ignored when the page is hidden, a range is being chosen,  *)
(* or the page has newer numbers.                                          *)
Troubles == {"restart", "break", "lost answer", "ignored"}

ASSUME FeedAssumption ==
  /\ \A log \in Logs : \A i \in DOMAIN log :
       log[i].kind \in Kinds /\ log[i].turn \in Nat /\ log[i].at \in Nat \ {0}
  /\ Trouble \subseteq Troubles
  /\ MaxTrouble \in Nat

VARIABLES
  log,      \* the task's events as Codex wrote them
  arrived,  \* those the server has ingested
  row,      \* what the server knows of the task
  marking,  \* an ingest has committed and not yet marked the hub
  hub,      \* [epoch, seq]: the server process and its task number
  base,     \* history: commits when each server process started
  woken,    \* the stream's wake-up, a channel of one
  job,      \* the message the stream's goroutine is making, or None
  wire,     \* the message on its way to the page, or None
  slot,     \* the frame of numbers that waits for the stream, or None
  kept,     \* the view the server keeps for this range, or None
  stream,   \* "connecting", "open" or "reopening"
  get,      \* the page's request: None, Asked or the answer
  again,    \* another request follows it
  page,     \* [epoch, expected, list]: what the page shows
  trouble   \* history

sent == <<woken, job, wire, slot, stream>>
vars == <<log, arrived, row, marking, hub, base, sent, kept, get, again, page,
          trouble>>

-----------------------------------------------------------------------------
(* Evidence.                                                               *)

NoTask == [state |-> "unknown", turn |-> 0, at |-> 0, exact |-> 0, live |-> {}]

(* Turn 0 is no turn.  The estimate is the set of the events added up.     *)
NewTurn(e) == e.turn # 0 /\ e.turn # row.turn

MutantTurned(e) == IF NewTurn(e) THEN [row EXCEPT !.turn = e.turn] ELSE row

Turned(e) ==
  IF NewTurn(e) THEN [row EXCEPT !.turn = e.turn, !.live = {}, !.exact = 0]
  ELSE row

MutantLate(e) == FALSE

Late(e) ==
  \/ e.at < row.at
  \/ /\ e.kind = "live" /\ ~NewTurn(e)
     /\ row.exact # 0 /\ e.at <= row.exact

Evidence(i) ==
  LET e == log[i]
      r == [Turned(e) EXCEPT !.at = e.at]
  IN  CASE Late(e) -> row
        [] OTHER ->
             CASE e.kind = "started" -> [r EXCEPT !.state = "running"]
               [] e.kind = "ended"   -> [r EXCEPT !.state = "idle", !.live = {}]
               [] e.kind = "live"    -> [r EXCEPT !.state = "running",
                                                  !.live = @ \cup {i}]
               [] e.kind = "exact"   ->
                    [r EXCEPT !.live = {}, !.exact = e.at,
                              !.state = IF NewTurn(e) THEN "unknown" ELSE @]

Commits == Cardinality(arrived)

-----------------------------------------------------------------------------
(* Messages.                                                               *)

None  == [kind |-> "none"]
Asked == [kind |-> "asked"]

(* A list read now, with number seq; and one pinned with its number.       *)
List(kind, seq) ==
  [kind |-> kind, epoch |-> hub.epoch, seq |-> seq, commits |-> Commits]

CanPin == ~marking

Pinned(kind) == List(kind, hub.seq)

Nothing == [epoch |-> 0, seq |-> 0, commits |-> 0]

Shown(m) == [epoch |-> m.epoch, seq |-> m.seq, commits |-> m.commits]

Init ==
  /\ log \in Logs
  /\ arrived = {} /\ row = NoTask /\ marking = FALSE
  /\ hub = [epoch |-> 1, seq |-> 0] /\ base = <<0>>
  /\ woken = FALSE /\ job = None /\ wire = None /\ slot = None /\ kept = None
  /\ stream = "connecting"
  /\ get = Asked /\ again = FALSE
  /\ page = [epoch |-> 0, expected |-> 0, list |-> Nothing]
  /\ trouble = 0

Goes(wrong) ==
  /\ wrong \in Trouble
  /\ trouble < MaxTrouble
  /\ trouble' = trouble + 1

-----------------------------------------------------------------------------
(* The server.                                                             *)

(* Events arrive in any order; one that comes again changes nothing.       *)
Commit ==
  /\ ~marking
  /\ \E i \in DOMAIN log \ arrived :
       /\ arrived' = arrived \cup {i}
       /\ row' = Evidence(i)
  /\ marking' = TRUE
  /\ UNCHANGED <<log, hub, base, sent, kept, get, again, page, trouble>>

(* A stream that is not open yet begins with a heartbeat.                  *)
Mark ==
  /\ marking
  /\ marking' = FALSE
  /\ hub' = [hub EXCEPT !.seq = @ + 1]
  /\ woken' = (stream = "open")
  /\ UNCHANGED <<log, arrived, row, base, job, wire, slot, stream, kept, get,
                 again, page, trouble>>

(* A stream's goroutine reads the number first and the list afterwards,    *)
(* without a lock.                                                         *)
Begin(kind) ==
  /\ stream = "open" /\ job = None /\ wire = None
  /\ kind = "tasks" => woken
  /\ woken' = (woken /\ kind # "tasks")
  /\ job' = [kind |-> kind, seq |-> hub.seq]
  /\ UNCHANGED <<log, arrived, row, marking, hub, base, wire, slot, stream,
                 kept, get, again, page, trouble>>

Send ==
  /\ job # None
  /\ wire' = List(job.kind, job.seq)
  /\ job' = None
  /\ UNCHANGED <<log, arrived, row, marking, hub, base, woken, slot, stream,
                 kept, get, again, page, trouble>>

(* The publisher pins a view, keeps it, and leaves a frame in the slot.    *)
Publish ==
  /\ CanPin /\ stream = "open" /\ kept # None
  /\ kept' = Pinned("numbers")
  /\ slot' = Pinned("numbers")
  /\ kept' # kept
  /\ UNCHANGED <<log, arrived, row, marking, hub, base, woken, job, wire,
                 stream, get, again, page, trouble>>

SendNumbers ==
  /\ slot # None /\ job = None /\ wire = None
  /\ wire' = slot
  /\ slot' = None
  /\ UNCHANGED <<log, arrived, row, marking, hub, base, woken, job, stream,
                 kept, get, again, page, trouble>>

(* A request is answered with a new view or with the one that is kept: as  *)
(* long as no number has changed that one may be of any age.               *)
Answer ==
  /\ get = Asked
  /\ \/ CanPin /\ kept' = Pinned("numbers")
     \/ kept # None /\ UNCHANGED kept
  /\ get' = kept'
  /\ UNCHANGED <<log, arrived, row, marking, hub, base, sent, again, page, trouble>>

-----------------------------------------------------------------------------
(* The page.                                                               *)

Load ==
  IF get = None THEN get' = Asked /\ UNCHANGED again
  ELSE again' = TRUE /\ UNCHANGED get

(* The list of the same or a higher number is shown.                       *)
Pulse(p, m) == IF m.seq >= p.list.seq THEN [p EXCEPT !.list = Shown(m)] ELSE p

(* A view of another server replaces all; of the same, the list with the   *)
(* higher number stays.                                                    *)
MutantConfirmed(p, m) ==
  [p EXCEPT !.epoch = m.epoch, !.list = IF @.seq > m.seq THEN @ ELSE Shown(m)]

MutantShows(p, m) == [p EXCEPT !.epoch = m.epoch, !.list = Shown(m)]

Confirmed(p, m) ==
  [p EXCEPT !.epoch = m.epoch,
            !.list = IF p.epoch = m.epoch /\ @.seq > m.seq THEN @ ELSE Shown(m)]

Accepts(p, m) == p.expected \in {0, m.epoch}

(* The stream is closed; what the server held for it is gone.              *)
MutantHangup ==
  /\ woken' = FALSE /\ wire' = None /\ UNCHANGED <<job, slot>>

Hangup ==
  /\ woken' = FALSE /\ job' = None /\ wire' = None /\ slot' = None

(* A stream opens: the server registers it, says it is ready, and begins   *)
(* with a heartbeat.  A page whose stream was opened again, or that knows  *)
(* another server, asks for a view.                                        *)
Register ==
  /\ stream \in {"connecting", "reopening"}
  /\ stream' = "open"
  /\ job' = [kind |-> "heartbeat", seq |-> hub.seq]
  /\ woken' = FALSE
  /\ IF stream = "reopening" \/ (get = None /\ page.epoch # hub.epoch)
       THEN Load ELSE UNCHANGED <<get, again>>
  /\ UNCHANGED <<log, arrived, row, marking, hub, base, wire, slot, kept,
                 page, trouble>>

OnTasks(m) ==
  IF m.epoch # page.epoch
    THEN Load /\ UNCHANGED page
    ELSE page' = Pulse(page, m) /\ UNCHANGED <<get, again>>

OnHeartbeat(m) ==
  /\ page' = Pulse([page EXCEPT !.expected = m.epoch], m)
  /\ IF page.epoch \notin {0, m.epoch} THEN Load ELSE UNCHANGED <<get, again>>

(* Numbers of another server, or on another base, make the page ask for a  *)
(* view; numbers it has already are passed over.                           *)
OnNumbers(m) ==
  \/ m.epoch = page.epoch /\ page' = Confirmed(page, m) /\ UNCHANGED <<get, again>>
  \/ m.epoch = page.epoch /\ UNCHANGED <<get, again, page>>
  \/ Load /\ UNCHANGED page

Handle ==
  /\ wire # None
  /\ wire' = None
  /\ \/ wire.kind = "tasks" /\ OnTasks(wire) /\ UNCHANGED trouble
     \/ wire.kind = "heartbeat" /\ OnHeartbeat(wire) /\ UNCHANGED trouble
     \/ wire.kind = "numbers" /\ OnNumbers(wire) /\ UNCHANGED trouble
     \/ Goes("ignored") /\ UNCHANGED <<get, again, page>>
  /\ UNCHANGED <<log, arrived, row, marking, hub, base, woken, job, slot,
                 stream, kept>>

(* A request ends; the one that was asked for meanwhile follows.  A view   *)
(* the page does not accept, also one with older numbers than it shows, is *)
(* asked for again.                                                        *)
Ended ==
  /\ get' = IF again THEN Asked ELSE None
  /\ again' = FALSE

Finish ==
  /\ get \notin {None, Asked}
  /\ \/ /\ Accepts(page, get)
        /\ page' = Confirmed(page, get)
        /\ Ended
        /\ UNCHANGED <<sent, trouble>>
     \/ /\ ~Accepts(page, get) /\ get.epoch # page.epoch
        /\ Hangup /\ stream' = "connecting"
        /\ Ended
        /\ UNCHANGED <<page, trouble>>
     \/ /\ get.epoch = page.epoch
        /\ \/ ~Accepts(page, get) /\ UNCHANGED trouble
           \/ Goes("ignored")
        /\ get' = Asked /\ again' = FALSE
        /\ UNCHANGED <<page, sent>>
  /\ UNCHANGED <<log, arrived, row, marking, hub, base, kept>>

LoseAnswer ==
  /\ get # None
  /\ Goes("lost answer")
  /\ Ended
  /\ UNCHANGED <<log, arrived, row, marking, hub, base, sent, kept, page>>

(* Numbers that have moved, a timer or a button: the page asks for a view. *)
Reload ==
  /\ Load
  /\ UNCHANGED <<log, arrived, row, marking, hub, base, sent, kept, page, trouble>>

-----------------------------------------------------------------------------
Break ==
  /\ stream = "open"
  /\ Goes("break")
  /\ Hangup /\ stream' = "reopening"
  /\ UNCHANGED <<log, arrived, row, marking, hub, base, kept, get, again, page>>

(* Another process numbers from zero; a commit that was not marked stays.  *)
(* The page's request may end with the old one.                            *)
Restart ==
  /\ Goes("restart")
  /\ hub' = [epoch |-> hub.epoch + 1, seq |-> 0]
  /\ base' = Append(base, Commits)
  /\ marking' = FALSE /\ kept' = None
  /\ Hangup /\ stream' = IF stream = "open" THEN "reopening" ELSE stream
  /\ \/ UNCHANGED <<get, again>>
     \/ get # None /\ Ended
  /\ UNCHANGED <<log, arrived, row, page>>

Next ==
  \/ Commit \/ Mark
  \/ \E kind \in {"tasks", "heartbeat"} : Begin(kind)
  \/ Send \/ Publish \/ SendNumbers \/ Answer
  \/ Register \/ Handle \/ Finish \/ LoseAnswer \/ Reload
  \/ Break \/ Restart

Spec == Init /\ [][Next]_vars

(* The timer of five seconds sends heartbeats for ever.  Each goroutine    *)
(* and the page go on; nothing has to be ingested or to go wrong.  A page  *)
(* that expects the server before this one closes every stream again when  *)
(* its view comes, so some time a heartbeat has to come before the view.   *)
FairSpec ==
  /\ Spec
  /\ WF_vars(Mark)
  /\ WF_vars(Begin("heartbeat")) /\ SF_vars(Send)
  /\ WF_vars(Answer) /\ WF_vars(Register) /\ WF_vars(Finish)
  /\ SF_vars(UNCHANGED trouble /\ Handle)

-----------------------------------------------------------------------------
(* Properties.                                                             *)

Lists(kinds) ==
  [kind : kinds, epoch : 1..hub.epoch, seq : Nat, commits : 0..Commits]

TypeOK ==
  /\ log \in Logs /\ arrived \subseteq DOMAIN log
  /\ row \in [state : {"unknown", "running", "idle"}, turn : Nat, at : Nat,
             exact : Nat, live : SUBSET arrived]
  /\ base \in Seq(Nat) /\ Len(base) = hub.epoch
  /\ marking \in BOOLEAN /\ woken \in BOOLEAN /\ again \in BOOLEAN
  /\ hub \in [epoch : Nat \ {0}, seq : Nat]
  /\ job \in [kind : {"tasks", "heartbeat"}, seq : 0..hub.seq] \cup {None}
  /\ wire \in Lists({"tasks", "heartbeat", "numbers"}) \cup {None}
  /\ {slot, kept} \subseteq Lists({"numbers"}) \cup {None}
  /\ stream \in {"connecting", "open", "reopening"}
  /\ stream # "open" => job = None /\ wire = None /\ slot = None
  /\ get \in Lists({"numbers"}) \cup {None, Asked}
  /\ page \in [epoch : 0..hub.epoch, expected : 0..hub.epoch,
              list : [epoch : 0..hub.epoch, seq : Nat, commits : 0..Commits]]

(* Whatever order the events come in, the newest one that has come decides *)
(* what the row says.                                                      *)
NewestDecides ==
  \A i \in arrived :
    (\A j \in arrived \ {i} : log[j].at < log[i].at) =>
      CASE log[i].kind \in {"started", "live"} -> row.state = "running"
        [] log[i].kind = "ended"               -> row.state = "idle"
        [] log[i].kind = "exact"               -> row.exact = log[i].at /\ row.live = {}

(* What is estimated belongs to the turn that is running, and was not yet  *)
(* settled by an exact count.                                              *)
EstimateIsOpen ==
  \A i \in row.live :
    /\ row.state = "running"
    /\ log[i].turn \in {0, row.turn}
    /\ log[i].at > row.exact

(* While the page is with one server it never shows a list older than the  *)
(* number it shows has promised, whichever way the next list comes.        *)
Promised == IF page.list.epoch = 0 THEN 0 ELSE base[page.list.epoch] + page.list.seq

NeverBehind ==
  [][page'.epoch = page.epoch => page'.list.commits >= Promised]_page

(* The page shows the task as it is at last.                               *)
ShowsTheTask == <>[](page.list.commits = Commits)

=============================================================================
