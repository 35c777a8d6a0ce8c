---------------------------- MODULE TaskFeedProofs ----------------------------
(***************************************************************************)
(* What is proved of the evidence about a task for all events Codex may    *)
(* have written and every order of their arrival: the newest decides, and  *)
(* the estimate is of what is not settled.  And of the lists of tasks on   *)
(* their way to a page: a page that stays with one server never shows less *)
(* than the number it shows has promised, whichever list comes next and    *)
(* however old it is.                                                      *)
(***************************************************************************)
EXTENDS TaskFeed, FiniteSetTheorems, SequenceTheorems, TLAPS

-----------------------------------------------------------------------------
(* The row is as new as the newest event that has come, and no count in it *)
(* is newer.                                                               *)
RowType ==
  /\ log \in Logs /\ arrived \subseteq DOMAIN log
  /\ row \in [state : {"unknown", "running", "idle"}, turn : Nat, at : Nat,
              exact : Nat, live : SUBSET arrived]

Newest ==
  /\ \A i \in arrived : log[i].at <= row.at
  /\ row.at = 0 \/ \E i \in arrived : log[i].at = row.at
  /\ row.exact <= row.at

Inv == RowType /\ Newest /\ NewestDecides /\ EstimateIsOpen

(* What an event is.                                                       *)
LEMMA EventType ==
  ASSUME log \in Logs, NEW i \in DOMAIN log
  PROVE  /\ log[i].kind \in Kinds /\ log[i].turn \in Nat
         /\ log[i].at \in Nat /\ log[i].at > 0
BY FeedAssumption

-----------------------------------------------------------------------------
(* One event.                                                              *)

(* An event that is late changes nothing.                                  *)
LEMMA LateStep ==
  ASSUME Inv, NEW i \in DOMAIN log \ arrived, Late(log[i]),
         log' = log, arrived' = arrived \cup {i}, row' = row
  PROVE  Inv'
<1>1. log[i].at \in Nat /\ row.at \in Nat /\ row.exact \in Nat
  BY EventType DEF Inv, RowType
<1>2. log[i].at <= row.at
  BY <1>1 DEF Late, Inv, Newest
<1>3. RowType' /\ Newest' /\ EstimateIsOpen'
  BY <1>2 DEF Inv, RowType, Newest, EstimateIsOpen
<1>4. NewestDecides'
  <2> SUFFICES ASSUME NEW k \in arrived',
                      \A j \in arrived' \ {k} : log[j].at < log[k].at
               PROVE  CASE log[k].kind \in {"started", "live"} -> row.state = "running"
                        [] log[k].kind = "ended" -> row.state = "idle"
                        [] log[k].kind = "exact" -> row.exact = log[k].at /\ row.live = {}
    BY DEF NewestDecides
  <2>1. k # i
    <3> SUFFICES ASSUME k = i PROVE FALSE
      OBVIOUS
    <3>1. \A j \in arrived : log[j].at < log[i].at
      OBVIOUS
    <3>2. row.at = 0
      <4>1. \A j \in arrived : log[j].at # row.at
        <5> TAKE j \in arrived
        <5>1. log[j].at \in Nat
          BY EventType DEF Inv, RowType
        <5> QED BY <5>1, <3>1, <1>1, <1>2
      <4> QED BY <4>1 DEF Inv, Newest
    <3>3. log[i].at > 0
      BY EventType DEF Inv, RowType
    <3> QED BY <3>2, <3>3, <1>1, <1>2
  <2> QED BY <2>1 DEF Inv, NewestDecides
<1> QED BY <1>3, <1>4 DEF Inv

(* What an event that is not late makes of the row, field by field.        *)
LEMMA Fields ==
  ASSUME RowType, NEW i \in DOMAIN log, ~Late(log[i]), row' = Evidence(i)
  PROVE  /\ row' \in [state : {"unknown", "running", "idle"}, turn : Nat,
                     at : Nat, exact : Nat, live : SUBSET (arrived \cup {i})]
         /\ row'.at = log[i].at
         /\ row'.turn = IF NewTurn(log[i]) THEN log[i].turn ELSE row.turn
         /\ log[i].kind \in {"started", "live"} => row'.state = "running"
         /\ log[i].kind = "ended" => row'.state = "idle" /\ row'.live = {}
         /\ log[i].kind = "exact" => row'.exact = log[i].at /\ row'.live = {}
         /\ log[i].kind # "exact" =>
              row'.exact = IF NewTurn(log[i]) THEN 0 ELSE row.exact
         /\ log[i].kind = "started" =>
              row'.live = IF NewTurn(log[i]) THEN {} ELSE row.live
         /\ log[i].kind = "live" =>
              row'.live = (IF NewTurn(log[i]) THEN {} ELSE row.live) \cup {i}
<1> DEFINE e == log[i]
           r == [Turned(e) EXCEPT !.at = e.at]
           Row == [state : {"unknown", "running", "idle"}, turn : Nat, at : Nat,
                   exact : Nat, live : SUBSET (arrived \cup {i})]
<1>1. e.kind \in Kinds /\ e.turn \in Nat /\ e.at \in Nat
  BY EventType DEF RowType
<1>2. row \in Row
  BY DEF RowType
<1>3. /\ r \in Row /\ r.at = e.at /\ r.state = row.state
      /\ r.turn = IF NewTurn(e) THEN e.turn ELSE row.turn
      /\ r.exact = IF NewTurn(e) THEN 0 ELSE row.exact
      /\ r.live = IF NewTurn(e) THEN {} ELSE row.live
  <2>1. CASE NewTurn(e)
    BY <1>1, <1>2, <2>1 DEF Turned
  <2>2. CASE ~NewTurn(e)
    BY <1>1, <1>2, <2>2 DEF Turned
  <2> QED BY <2>1, <2>2
<1>4. row' = CASE e.kind = "started" -> [r EXCEPT !.state = "running"]
               [] e.kind = "ended"   -> [r EXCEPT !.state = "idle", !.live = {}]
               [] e.kind = "live"    -> [r EXCEPT !.state = "running",
                                                  !.live = @ \cup {i}]
               [] e.kind = "exact"   ->
                    [r EXCEPT !.live = {}, !.exact = e.at,
                              !.state = IF NewTurn(e) THEN "unknown" ELSE @]
  BY DEF Evidence
<1> HIDE DEF e, r, Row
<1>5. CASE e.kind = "started"
  <2>1. row' = [r EXCEPT !.state = "running"]
    BY <1>4, <1>5
  <2> QED BY <2>1, <1>3, <1>5 DEF e, Row
<1>6. CASE e.kind = "ended"
  <2>1. row' = [r EXCEPT !.state = "idle", !.live = {}]
    BY <1>4, <1>6
  <2> QED BY <2>1, <1>3, <1>6 DEF e, Row
<1>7. CASE e.kind = "live"
  <2>1. row' = [r EXCEPT !.state = "running", !.live = r.live \cup {i}]
    BY <1>4, <1>7
  <2>2. r.live \cup {i} \subseteq arrived \cup {i}
    BY <1>3 DEF Row
  <2>3. row' \in Row
    <3>1. r \in Row
      BY <1>3
    <3> QED BY <2>1, <2>2, <3>1 DEF Row
  <2>4. /\ row'.at = r.at /\ row'.turn = r.turn /\ row'.exact = r.exact
        /\ row'.state = "running" /\ row'.live = r.live \cup {i}
    BY <2>1, <1>3 DEF Row
  <2> QED BY <2>3, <2>4, <1>3, <1>7 DEF e, Row
<1>8. CASE e.kind = "exact"
  <2>1. row' = [r EXCEPT !.live = {}, !.exact = e.at,
                         !.state = IF NewTurn(e) THEN "unknown" ELSE r.state]
    BY <1>4, <1>8
  <2> QED BY <2>1, <1>1, <1>3, <1>8 DEF e, Row
<1> QED BY <1>1, <1>5, <1>6, <1>7, <1>8 DEF Kinds

(* An event that is not late is as new as the row and becomes the newest.  *)
LEMMA EventStep ==
  ASSUME Inv, NEW i \in DOMAIN log \ arrived, ~Late(log[i]),
         log' = log, arrived' = arrived \cup {i}, row' = Evidence(i)
  PROVE  Inv'
<1>1. /\ row.at \in Nat /\ row.exact \in Nat /\ row.turn \in Nat
      /\ row.live \subseteq arrived
      /\ log[i].at \in Nat /\ log[i].at > 0 /\ log[i].turn \in Nat
      /\ log[i].kind \in Kinds
  BY EventType DEF Inv, RowType
<1>2. row.at <= log[i].at /\ row'.at = log[i].at
  BY <1>1, Fields DEF Late, Inv
<1>3. RowType'
  BY Fields DEF Inv, RowType
<1>4. Newest'
  <2>1. \A j \in arrived' : log[j].at <= row'.at
    <3> TAKE j \in arrived'
    <3>1. CASE j = i
      BY <3>1, <1>1, <1>2
    <3>2. CASE j \in arrived
      <4>1. log[j].at <= row.at
        BY <3>2 DEF Inv, Newest
      <4>2. log[j].at \in Nat
        BY <3>2, EventType DEF Inv, RowType
      <4> QED BY <4>1, <4>2, <1>1, <1>2
    <3> QED BY <3>1, <3>2
  <2>2. row'.exact <= row'.at
    <3>1. row'.exact \in {log[i].at, 0, row.exact}
      BY Fields DEF Inv
    <3> QED BY <3>1, <1>1, <1>2 DEF Inv, Newest
  <2> QED BY <2>1, <2>2, <1>2 DEF Newest
<1>5. EstimateIsOpen'
  <2> SUFFICES ASSUME NEW k \in row'.live
               PROVE  /\ row'.state = "running" /\ log[k].turn \in {0, row'.turn}
                      /\ log[k].at > row'.exact
    BY DEF EstimateIsOpen
  <2>1. log[i].kind \in {"started", "live"} /\ row'.state = "running"
    BY Fields, <1>1 DEF Inv, Kinds
  <2>2. row'.exact = IF NewTurn(log[i]) THEN 0 ELSE row.exact
    BY Fields, <2>1 DEF Inv
  <2>3. row'.turn = IF NewTurn(log[i]) THEN log[i].turn ELSE row.turn
    BY Fields DEF Inv
  <2>4. CASE k = i /\ log[i].kind = "live"
    <3>1. log[i].turn \in {0, row'.turn}
      BY <2>3 DEF NewTurn
    <3>2. log[i].at > row'.exact
      BY <2>2, <2>4, <1>1 DEF Late
    <3> QED BY <2>1, <2>4, <3>1, <3>2
  <2>5. CASE k \in row.live /\ ~NewTurn(log[i])
    BY <2>1, <2>2, <2>3, <2>5 DEF Inv, EstimateIsOpen
  <2>6. (k = i /\ log[i].kind = "live") \/ (k \in row.live /\ ~NewTurn(log[i]))
    BY Fields, <2>1 DEF Inv
  <2> QED BY <2>4, <2>5, <2>6
<1>6. NewestDecides'
  <2> SUFFICES ASSUME NEW k \in arrived',
                      \A j \in arrived' \ {k} : log[j].at < log[k].at
               PROVE  CASE log[k].kind \in {"started", "live"} -> row'.state = "running"
                        [] log[k].kind = "ended" -> row'.state = "idle"
                        [] log[k].kind = "exact" -> row'.exact = log[k].at /\ row'.live = {}
    BY DEF NewestDecides
  <2>1. k = i
    <3> SUFFICES ASSUME k # i PROVE FALSE
      OBVIOUS
    <3>1. log[i].at < log[k].at /\ k \in arrived
      OBVIOUS
    <3>2. log[k].at <= row.at /\ log[k].at \in Nat
      BY <3>1, EventType DEF Inv, Newest, RowType
    <3> QED BY <3>1, <3>2, <1>1, <1>2
  <2> QED BY <2>1, Fields, <1>1 DEF Inv, Kinds
<1> QED BY <1>3, <1>4, <1>5, <1>6 DEF Inv

-----------------------------------------------------------------------------
(* Every step.                                                             *)

(* No task is known at first.                                              *)
LEMMA Initially == Init => Inv
BY DEF Init, Inv, RowType, Newest, NewestDecides, EstimateIsOpen, NoTask

(* Only a commit moves the row.                                            *)
LEMMA Step == Inv /\ [Next]_vars => Inv'
<1> SUFFICES ASSUME Inv, [Next]_vars PROVE Inv'
  OBVIOUS
<1>1. CASE Commit
  <2> PICK i \in DOMAIN log \ arrived :
             arrived' = arrived \cup {i} /\ row' = Evidence(i)
    BY <1>1 DEF Commit
  <2>1. log' = log
    BY <1>1 DEF Commit
  <2>2. CASE Late(log[i])
    <3>1. row' = row
      BY <2>2 DEF Evidence
    <3> QED BY <2>1, <2>2, <3>1, LateStep
  <2>3. CASE ~Late(log[i])
    BY <2>1, <2>3, EventStep
  <2> QED BY <2>2, <2>3
<1>2. CASE UNCHANGED <<log, arrived, row>>
  BY <1>2 DEF Inv, RowType, Newest, NewestDecides, EstimateIsOpen
<1>3. CASE Mark \/ (\E kind \in {"tasks", "heartbeat"} : Begin(kind)) \/ Send
           \/ Publish \/ SendNumbers \/ Answer
  BY <1>3, <1>2 DEF Mark, Begin, Send, Publish, SendNumbers, Answer
<1>4. CASE Register \/ Handle \/ Finish \/ LoseAnswer \/ Reload \/ Break \/ Restart
  BY <1>4, <1>2 DEF Register, Handle, Finish, LoseAnswer, Reload, Break, Restart
<1>5. CASE UNCHANGED vars
  BY <1>5, <1>2 DEF vars
<1> QED BY <1>1, <1>3, <1>4, <1>5 DEF Next

(* Every reachable state satisfies the invariant.                          *)
LEMMA Always == Spec => []Inv
BY Initially, Step, PTL DEF Spec

(* Whatever order the events come in, and whatever happens to the server,  *)
(* the newest one that has come decides what the task's row says.          *)
THEOREM NewestWins == Spec => []NewestDecides
<1>1. Inv => NewestDecides
  BY DEF Inv
<1> QED BY <1>1, Always, PTL

(* The estimate on show belongs to the running turn and to no event that   *)
(* an exact count has settled.                                             *)
THEOREM Unsettled == Spec => []EstimateIsOpen
<1>1. Inv => EstimateIsOpen
  BY DEF Inv
<1> QED BY <1>1, Always, PTL

-----------------------------------------------------------------------------
(* Lists on their way: the invariant.                                      *)

(* What has been committed when the server after e began, or until now.    *)
Until(e) == IF e = hub.epoch THEN Commits ELSE base[e + 1]

(* A list of server e with number q that has seen c commits: at least      *)
(* those the number stands for, and none of a later server.                *)
Dated(e, q, c) == base[e] + q <= c /\ c <= Until(e)

Message(kinds) == {m \in Lists(kinds) : Dated(m.epoch, m.seq, m.commits)}

Listing ==
  {l \in [epoch : 0..hub.epoch, seq : Nat, commits : 0..Commits] :
     l.epoch # 0 => Dated(l.epoch, l.seq, l.commits)}

(* A list of a server the page is not with came by a heartbeat, so the     *)
(* page expects that server, or a later one.                               *)
Pages ==
  {p \in [epoch : 0..hub.epoch, expected : 0..hub.epoch, list : Listing] :
     p.list.epoch <= p.epoch \/ p.list.epoch <= p.expected}

ServerType ==
  /\ IsFiniteSet(arrived)
  /\ marking \in BOOLEAN
  /\ hub \in [epoch : Nat \ {0}, seq : Nat]
  /\ base \in Seq(Nat) /\ Len(base) = hub.epoch

(* Each server began with what those before it had seen, and has marked    *)
(* fewer commits than there are.                                           *)
Marked ==
  /\ \A e, f \in 1..hub.epoch : e <= f => base[e] <= base[f]
  /\ base[hub.epoch] + hub.seq + (IF marking THEN 1 ELSE 0) <= Commits

Fresh(m, kinds) == m = None \/ (m \in Message(kinds) /\ m.epoch = hub.epoch)

StreamInv ==
  /\ woken \in BOOLEAN
  /\ job \in [kind : {"tasks", "heartbeat"}, seq : 0..hub.seq] \cup {None}
  /\ Fresh(wire, {"tasks", "heartbeat", "numbers"})
  /\ Fresh(slot, {"numbers"}) /\ Fresh(kept, {"numbers"})
  /\ stream \in {"connecting", "open", "reopening"}
  /\ stream # "open" => job = None /\ wire = None /\ slot = None

PageInv ==
  /\ get \in Message({"numbers"}) \cup {None, Asked}
  /\ again \in BOOLEAN
  /\ page \in Pages

ListInv == Inv /\ ServerType /\ Marked /\ StreamInv /\ PageInv

-----------------------------------------------------------------------------
(* Numbers.                                                                *)

(* The commits are a number, and those of each server's beginning.         *)
LEMMA Numbers ==
  ASSUME ServerType
  PROVE  /\ Commits \in Nat /\ hub.epoch \in Nat /\ hub.epoch >= 1 /\ hub.seq \in Nat
         /\ \A e \in 1..hub.epoch : base[e] \in Nat
<1>1. Commits \in Nat
  BY FS_CardinalityType DEF ServerType, Commits
<1>2. hub.epoch \in Nat /\ hub.epoch >= 1 /\ hub.seq \in Nat
  BY DEF ServerType
<1>3. \A e \in 1..hub.epoch : base[e] \in Nat
  BY <1>2, ElementOfSeq DEF ServerType
<1> QED BY <1>1, <1>2, <1>3

(* What a later server's list, or a higher number of the same server,      *)
(* shows is at least what an earlier number has promised.                  *)
LEMMA Later ==
  ASSUME ServerType, Marked,
         NEW e \in 1..hub.epoch, NEW q \in Nat, NEW c \in Nat, Dated(e, q, c),
         NEW f \in 1..hub.epoch, NEW r \in Nat, NEW d \in Nat, Dated(f, r, d),
         e < f \/ (e = f /\ q <= r)
  PROVE  base[e] + q <= d
<1>1. base[e] \in Nat /\ base[f] \in Nat /\ hub.epoch \in Nat
  BY Numbers
<1>2. CASE e = f /\ q <= r
  BY <1>1, <1>2 DEF Dated
<1>3. CASE e < f
  <2>1. e + 1 \in 1..hub.epoch /\ e + 1 <= f /\ e # hub.epoch
    BY <1>1, <1>3
  <2>2. base[e] + q <= c /\ c <= base[e + 1]
    BY <2>1 DEF Dated, Until
  <2>3. base[e + 1] <= base[f] /\ base[e + 1] \in Nat
    BY <2>1, Numbers DEF Marked
  <2>4. base[f] + r <= d
    BY DEF Dated
  <2> QED BY <1>1, <2>2, <2>3, <2>4
<1> QED BY <1>2, <1>3

(* A list made now, with a number the server has had.                      *)
LEMMA MadeNow ==
  ASSUME ServerType, Marked, NEW kinds, NEW k \in kinds, NEW q \in 0..hub.seq
  PROVE  List(k, q) \in Message(kinds) /\ List(k, q).epoch = hub.epoch
<1>1. Commits \in Nat /\ hub.epoch \in 1..hub.epoch /\ hub.seq \in Nat
      /\ base[hub.epoch] \in Nat
  BY Numbers
<1>2. base[hub.epoch] + hub.seq <= Commits
  BY <1>1 DEF Marked
<1>3. Dated(hub.epoch, q, Commits)
  BY <1>1, <1>2 DEF Dated, Until
<1>4. /\ List(k, q).epoch = hub.epoch /\ List(k, q).seq = q
      /\ List(k, q).commits = Commits
      /\ List(k, q) \in Lists(kinds)
  BY <1>1 DEF List, Lists
<1> QED BY <1>3, <1>4 DEF Message

-----------------------------------------------------------------------------
(* The page.                                                               *)

Owed(p) == IF p.list.epoch = 0 THEN 0 ELSE base[p.list.epoch] + p.list.seq

(* What a page shows is what it owes, at least.                            *)
LEMMA Shows ==
  ASSUME ServerType, NEW p \in Pages
  PROVE  Owed(p) <= p.list.commits /\ p.list.commits \in Nat /\ Owed(p) \in Nat
<1>1. p.list \in Listing /\ p.list.epoch \in 0..hub.epoch /\ p.list.seq \in Nat
      /\ p.list.commits \in 0..Commits /\ Commits \in Nat /\ hub.epoch \in Nat
  BY Numbers DEF Pages, Listing
<1>2. CASE p.list.epoch = 0
  BY <1>1, <1>2 DEF Owed
<1>3. CASE p.list.epoch # 0
  <2>1. p.list.epoch \in 1..hub.epoch /\ base[p.list.epoch] \in Nat
    BY <1>1, <1>3, Numbers
  <2>2. base[p.list.epoch] + p.list.seq <= p.list.commits
    BY <1>1, <1>3 DEF Listing, Dated
  <2> QED BY <1>1, <1>3, <2>1, <2>2 DEF Owed
<1> QED BY <1>2, <1>3

(* A list of a message may be shown, and shows what the page owes when it  *)
(* is of a later server or has as high a number.                           *)
LEMMA ShownList ==
  ASSUME ServerType, Marked, NEW p \in Pages, NEW kinds, NEW m \in Message(kinds)
  PROVE  /\ Shown(m) \in Listing /\ Shown(m).epoch = m.epoch
         /\ m.epoch \in 1..hub.epoch /\ m.seq \in Nat /\ Shown(m).commits = m.commits
         /\ p.list.epoch < m.epoch \/ (p.list.epoch = m.epoch /\ p.list.seq <= m.seq)
              => Owed(p) <= m.commits
<1>1. /\ m.epoch \in 1..hub.epoch /\ m.seq \in Nat /\ m.commits \in 0..Commits
      /\ Dated(m.epoch, m.seq, m.commits)
  BY DEF Message, Lists
<1>2. Commits \in Nat /\ hub.epoch \in Nat /\ m.commits \in Nat
  BY <1>1, Numbers
<1>3. /\ Shown(m).epoch = m.epoch /\ Shown(m).seq = m.seq /\ Shown(m).commits = m.commits
      /\ Shown(m) \in [epoch : 0..hub.epoch, seq : Nat, commits : 0..Commits]
  BY <1>1, <1>2 DEF Shown
<1>4. Shown(m) \in Listing
  BY <1>1, <1>3 DEF Listing
<1>5. ASSUME p.list.epoch < m.epoch \/ (p.list.epoch = m.epoch /\ p.list.seq <= m.seq)
      PROVE  Owed(p) <= m.commits
  <2>1. p.list \in Listing /\ p.list.epoch \in 0..hub.epoch /\ p.list.seq \in Nat
        /\ p.list.commits \in 0..Commits /\ p.list.commits \in Nat
    BY <1>2 DEF Pages, Listing
  <2>2. CASE p.list.epoch = 0
    BY <2>2, <1>2 DEF Owed
  <2>3. CASE p.list.epoch # 0
    <3>1. p.list.epoch \in 1..hub.epoch
      BY <2>1, <2>3, <1>2
    <3>2. Dated(p.list.epoch, p.list.seq, p.list.commits)
      BY <2>1, <2>3 DEF Listing
    <3>3. base[p.list.epoch] + p.list.seq <= m.commits
      BY <3>1, <3>2, <2>1, <1>1, <1>2, <1>5, Later
    <3> QED BY <2>3, <3>3 DEF Owed
  <2> QED BY <2>2, <2>3
<1> QED BY <1>1, <1>3, <1>4, <1>5

(* The tasks and heartbeats of the server that runs.                       *)
LEMMA PulseKeeps ==
  ASSUME ServerType, Marked, NEW p \in Pages, NEW kinds, NEW m \in Message(kinds),
         m.epoch = hub.epoch, p.epoch = m.epoch \/ p.expected = m.epoch
  PROVE  /\ Pulse(p, m) \in Pages /\ Pulse(p, m).epoch = p.epoch
         /\ Owed(p) <= Pulse(p, m).list.commits
<1>1. /\ p \in [epoch : 0..hub.epoch, expected : 0..hub.epoch, list : Listing]
      /\ p.list.epoch \in 0..hub.epoch /\ p.list.seq \in Nat /\ hub.epoch \in Nat
  BY Numbers DEF Pages, Listing
<1>2. CASE m.seq >= p.list.seq
  <2>1. Pulse(p, m) = [p EXCEPT !.list = Shown(m)]
    BY <1>2 DEF Pulse
  <2>2. p.list.epoch < m.epoch \/ (p.list.epoch = m.epoch /\ p.list.seq <= m.seq)
    BY <1>1, <1>2
  <2>3. Shown(m) \in Listing /\ Shown(m).epoch = m.epoch /\ Owed(p) <= Shown(m).commits
    BY <2>2, ShownList
  <2>4. /\ Pulse(p, m) \in [epoch : 0..hub.epoch, expected : 0..hub.epoch, list : Listing]
        /\ Pulse(p, m).list = Shown(m) /\ Pulse(p, m).epoch = p.epoch
        /\ Pulse(p, m).expected = p.expected
    BY <2>1, <2>3, <1>1
  <2> QED BY <2>3, <2>4, <1>1 DEF Pages
<1>3. CASE ~(m.seq >= p.list.seq)
  BY <1>3, Shows DEF Pulse
<1> QED BY <1>2, <1>3

(* A whole view, or a frame of numbers.                                    *)
LEMMA ConfirmedKeeps ==
  ASSUME ServerType, Marked, NEW p \in Pages, NEW kinds, NEW m \in Message(kinds),
         m.epoch = hub.epoch \/ Accepts(p, m)
  PROVE  /\ Confirmed(p, m) \in Pages
         /\ Confirmed(p, m).epoch = p.epoch => Owed(p) <= Confirmed(p, m).list.commits
<1>1. /\ p \in [epoch : 0..hub.epoch, expected : 0..hub.epoch, list : Listing]
      /\ p.list.epoch \in 0..hub.epoch /\ p.list.seq \in Nat /\ hub.epoch \in Nat
      /\ p.epoch \in 0..hub.epoch /\ p.expected \in 0..hub.epoch
      /\ p.list.epoch <= p.epoch \/ p.list.epoch <= p.expected
  BY Numbers DEF Pages, Listing
<1>2. Shown(m) \in Listing /\ Shown(m).epoch = m.epoch /\ m.epoch \in 1..hub.epoch
      /\ m.seq \in Nat /\ Shown(m).commits = m.commits
  BY ShownList
<1>3. CASE p.epoch = m.epoch /\ p.list.seq > m.seq
  <2>1. Confirmed(p, m) = p
    BY <1>3, <1>1 DEF Confirmed
  <2> QED BY <2>1, Shows
<1>4. CASE ~(p.epoch = m.epoch /\ p.list.seq > m.seq)
  <2>1. Confirmed(p, m) = [p EXCEPT !.epoch = m.epoch, !.list = Shown(m)]
    BY <1>4 DEF Confirmed
  <2>2. /\ Confirmed(p, m) \in [epoch : 0..hub.epoch, expected : 0..hub.epoch, list : Listing]
        /\ Confirmed(p, m).list = Shown(m) /\ Confirmed(p, m).epoch = m.epoch
    <3>1. m.epoch \in 0..hub.epoch
      BY <1>1, <1>2
    <3>2. /\ p \in [epoch : 0..hub.epoch, expected : 0..hub.epoch, list : Listing]
          /\ Shown(m) \in Listing
      BY <1>1, <1>2
    <3> QED BY <2>1, <3>1, <3>2
  <2>3. Confirmed(p, m) \in Pages
    BY <2>2, <1>1, <1>2 DEF Pages
  <2>4. ASSUME m.epoch = p.epoch PROVE Owed(p) <= m.commits
    <3>1. p.list.epoch <= m.epoch
      BY <2>4, <1>1, <1>2 DEF Accepts
    <3>2. p.list.seq <= m.seq
      BY <2>4, <1>1, <1>2, <1>4
    <3>3. p.list.epoch < m.epoch \/ (p.list.epoch = m.epoch /\ p.list.seq <= m.seq)
      BY <3>1, <3>2, <1>1, <1>2
    <3> QED BY <3>3, ShownList
  <2> QED BY <2>2, <2>3, <2>4, <1>2
<1> QED BY <1>3, <1>4

-----------------------------------------------------------------------------
(* What has been sent stays true.                                          *)

(* The server only goes on: more commits, or the next process.             *)
Onward ==
  \/ hub'.epoch = hub.epoch /\ base' = base /\ Commits' >= Commits
  \/ hub'.epoch = hub.epoch + 1 /\ base' = Append(base, Commits) /\ Commits' = Commits

(* A list that was dated stays so.                                         *)
LEMMA DatedStays ==
  ASSUME ServerType, ServerType', Onward,
         NEW e \in 1..hub.epoch, NEW q \in Nat, NEW c \in 0..Commits, Dated(e, q, c)
  PROVE  /\ e \in 1..hub'.epoch /\ c \in 0..Commits' /\ base'[e] = base[e]
         /\ Dated(e, q, c)'
<1>1. /\ Commits \in Nat /\ hub.epoch \in Nat /\ base[e] \in Nat
      /\ base \in Seq(Nat) /\ Len(base) = hub.epoch
  BY Numbers DEF ServerType
<1>2. Commits' \in Nat /\ hub'.epoch \in Nat
  BY FS_CardinalityType DEF ServerType, Commits
<1>3. base[e] + q <= c /\ c <= Until(e)
  BY DEF Dated
<1>4. CASE hub'.epoch = hub.epoch /\ base' = base /\ Commits' >= Commits
  <2>1. Until(e)' >= c
    BY <1>1, <1>2, <1>3, <1>4 DEF Until
  <2> QED BY <1>1, <1>2, <1>3, <1>4, <2>1 DEF Dated
<1>5. CASE hub'.epoch = hub.epoch + 1 /\ base' = Append(base, Commits)
           /\ Commits' = Commits
  <2>1. base'[e] = base[e]
    BY <1>1, <1>5, AppendProperties
  <2>2. e # hub'.epoch
    BY <1>1, <1>5
  <2>3. base'[e + 1] = Until(e)
    <3>1. CASE e = hub.epoch
      BY <1>1, <1>5, <3>1, AppendProperties DEF Until
    <3>2. CASE e # hub.epoch
      <4>1. e + 1 \in 1..Len(base)
        BY <1>1, <3>2
      <4> QED BY <1>1, <1>5, <3>2, <4>1, AppendProperties DEF Until
    <3> QED BY <3>1, <3>2
  <2>4. Until(e)' = Until(e)
    BY <2>2, <2>3 DEF Until
  <2> QED BY <1>1, <1>2, <1>3, <1>5, <2>1, <2>4 DEF Dated
<1> QED BY <1>4, <1>5 DEF Onward

(* Messages, lists and pages stay what they are, and a page owes what it   *)
(* did.                                                                    *)
LEMMA Stays ==
  ASSUME ServerType, ServerType', Onward
  PROVE  /\ \A kinds : Message(kinds) \subseteq Message(kinds)'
         /\ Pages \subseteq Pages'
<1>1. /\ Commits \in Nat /\ hub.epoch \in Nat
      /\ Commits' \in Nat /\ hub'.epoch \in Nat
      /\ Commits' >= Commits /\ hub'.epoch >= hub.epoch
  BY FS_CardinalityType DEF ServerType, Commits, Onward
<1>2. ASSUME NEW kinds PROVE Message(kinds) \subseteq Message(kinds)'
  <2> SUFFICES ASSUME NEW m \in Message(kinds) PROVE m \in Message(kinds)'
    OBVIOUS
  <2>1. /\ m \in Lists(kinds) /\ m.epoch \in 1..hub.epoch /\ m.seq \in Nat
        /\ m.commits \in 0..Commits /\ Dated(m.epoch, m.seq, m.commits)
    BY DEF Message, Lists
  <2>2. /\ m.epoch \in 1..hub'.epoch /\ m.commits \in 0..Commits'
        /\ Dated(m.epoch, m.seq, m.commits)'
    BY <2>1, DatedStays
  <2>3. m \in Lists(kinds)'
    BY <2>1, <2>2 DEF Lists
  <2> QED BY <2>2, <2>3 DEF Message
<1>3. ASSUME NEW l \in Listing PROVE l \in Listing'
  <2>1. /\ l.epoch \in 0..hub.epoch /\ l.seq \in Nat /\ l.commits \in 0..Commits
        /\ l \in [epoch : 0..hub.epoch, seq : Nat, commits : 0..Commits]
        /\ l.epoch # 0 => Dated(l.epoch, l.seq, l.commits)
    BY DEF Listing
  <2>2. l.epoch # 0 => Dated(l.epoch, l.seq, l.commits)'
    <3> SUFFICES ASSUME l.epoch # 0 PROVE Dated(l.epoch, l.seq, l.commits)'
      OBVIOUS
    <3>1. l.epoch \in 1..hub.epoch
      BY <2>1, <1>1
    <3> QED BY <2>1, <3>1, DatedStays
  <2>3. l.epoch \in 0..hub'.epoch /\ l.commits \in 0..Commits'
    BY <2>1, <1>1
  <2> QED BY <2>1, <2>2, <2>3 DEF Listing
<1>4. ASSUME NEW p \in Pages PROVE p \in Pages'
  <2>1. /\ p \in [epoch : 0..hub.epoch, expected : 0..hub.epoch, list : Listing]
        /\ p.epoch \in 0..hub.epoch /\ p.expected \in 0..hub.epoch /\ p.list \in Listing
        /\ p.list.epoch <= p.epoch \/ p.list.epoch <= p.expected
    BY DEF Pages
  <2>2. p.epoch \in 0..hub'.epoch /\ p.expected \in 0..hub'.epoch
    BY <2>1, <1>1
  <2>3. p.list \in Listing'
    BY <2>1, <1>3
  <2>4. p \in [epoch : 0..hub'.epoch, expected : 0..hub'.epoch, list : Listing']
    BY <2>1, <2>2, <2>3
  <2> QED BY <2>1, <2>4 DEF Pages
<1> QED BY <1>2, <1>4

-----------------------------------------------------------------------------
(* Steps of the server.                                                    *)

(* At first there is no commit and no message.                             *)
LEMMA Begins == Init => ListInv
<1> SUFFICES ASSUME Init PROVE ListInv
  OBVIOUS
<1>1. Inv
  BY Initially
<1>2. /\ arrived = {} /\ marking = FALSE /\ hub.epoch = 1 /\ hub.seq = 0
      /\ hub = [epoch |-> 1, seq |-> 0] /\ base = <<0>>
  BY DEF Init
<1>3. Commits = 0
  BY <1>2, FS_EmptySet DEF Commits
<1>4. ServerType
  <2>1. base \in Seq(Nat) /\ Len(base) = hub.epoch
    BY <1>2
  <2>2. hub \in [epoch : Nat \ {0}, seq : Nat]
    BY <1>2
  <2>3. IsFiniteSet(arrived)
    BY <1>2, FS_EmptySet
  <2> QED BY <1>2, <2>1, <2>2, <2>3 DEF ServerType
<1>5. Marked
  BY <1>2, <1>3 DEF Marked
<1>6. StreamInv
  BY DEF Init, StreamInv, Fresh
<1>7. page \in Pages
  <2>1. page = [epoch |-> 0, expected |-> 0, list |-> Nothing]
    BY DEF Init
  <2>2. Nothing \in Listing
    BY <1>2, <1>3 DEF Nothing, Listing
  <2>3. page \in [epoch : 0..hub.epoch, expected : 0..hub.epoch, list : Listing]
    BY <1>2, <2>1, <2>2
  <2> QED BY <2>1, <2>3 DEF Pages, Nothing
<1>8. PageInv
  BY <1>7 DEF Init, PageInv
<1> QED BY <1>1, <1>4, <1>5, <1>6, <1>8 DEF ListInv

(* An ingest commits: what is on its way is of the server still.           *)
LEMMA CommitKeeps == (ListInv /\ Commit) => ListInv'
<1> SUFFICES ASSUME ListInv, Commit PROVE ListInv'
  OBVIOUS
<1>1. PICK i \in DOMAIN log \ arrived : arrived' = arrived \cup {i}
  BY DEF Commit
<1>2. Commits' = Commits + 1 /\ IsFiniteSet(arrived') /\ Commits \in Nat
  BY <1>1, FS_AddElement, Numbers DEF ListInv, ServerType, Inv, RowType, Commits
<1>3. /\ hub' = hub /\ base' = base /\ marking = FALSE /\ marking' = TRUE
      /\ UNCHANGED <<sent, kept, get, again, page>>
  BY DEF Commit
<1>4. ServerType'
  BY <1>2, <1>3 DEF ListInv, ServerType
<1>5. Onward
  BY <1>2, <1>3 DEF Onward
<1>6. Marked'
  <2>1. /\ base[hub.epoch] \in Nat /\ hub.seq \in Nat
        /\ base[hub.epoch] + hub.seq <= Commits
    BY <1>3, Numbers DEF ListInv, Marked
  <2> QED BY <1>2, <1>3, <2>1 DEF ListInv, Marked
<1>7. StreamInv'
  BY <1>3, <1>4, <1>5, Stays DEF ListInv, StreamInv, Fresh, sent
<1>8. PageInv'
  BY <1>3, <1>4, <1>5, Stays DEF ListInv, PageInv
<1>9. Inv'
  BY Step DEF ListInv, Next
<1> QED BY <1>4, <1>6, <1>7, <1>8, <1>9 DEF ListInv

(* The hub's number follows the commit, and a stream is woken.             *)
LEMMA MarkKeeps == (ListInv /\ Mark) => ListInv'
<1> SUFFICES ASSUME ListInv, Mark PROVE ListInv'
  OBVIOUS
<1>1. /\ marking = TRUE /\ marking' = FALSE /\ hub' = [hub EXCEPT !.seq = @ + 1]
      /\ arrived' = arrived /\ base' = base /\ woken' = (stream = "open")
      /\ UNCHANGED <<job, wire, slot, stream, kept, get, again, page>>
  BY DEF Mark
<1>2. /\ hub'.epoch = hub.epoch /\ hub'.seq = hub.seq + 1 /\ Commits' = Commits
      /\ hub.epoch \in Nat /\ hub.seq \in Nat /\ Commits \in Nat
      /\ base[hub.epoch] \in Nat
  BY <1>1, Numbers DEF ListInv, ServerType, Commits
<1>3. ServerType'
  <2>1. hub \in [epoch : Nat \ {0}, seq : Nat] /\ hub.seq + 1 \in Nat
    BY <1>2 DEF ListInv, ServerType
  <2>2. hub' \in [epoch : Nat \ {0}, seq : Nat]
    BY <1>1, <2>1
  <2> QED BY <1>1, <1>2, <2>2 DEF ListInv, ServerType
<1>4. Onward
  BY <1>1, <1>2 DEF Onward
<1>5. Marked'
  <2>1. base[hub.epoch] + hub.seq + 1 <= Commits
    BY <1>1 DEF ListInv, Marked
  <2> QED BY <1>1, <1>2, <2>1 DEF ListInv, Marked
<1>6. StreamInv'
  <2>1. job \in [kind : {"tasks", "heartbeat"}, seq : 0..hub'.seq] \cup {None}
    <3>1. 0..hub.seq \subseteq 0..hub'.seq
      BY <1>2
    <3> QED BY <3>1 DEF ListInv, StreamInv
  <2> QED BY <1>1, <1>2, <1>3, <1>4, <2>1, Stays DEF ListInv, StreamInv, Fresh
<1>7. PageInv'
  BY <1>1, <1>3, <1>4, Stays DEF ListInv, PageInv
<1>8. Inv'
  BY Step DEF ListInv, Next
<1> QED BY <1>3, <1>5, <1>6, <1>7, <1>8 DEF ListInv

(* Another process begins with what has been committed.                    *)
LEMMA RestartKeeps == (ListInv /\ Restart) => ListInv'
<1> SUFFICES ASSUME ListInv, Restart PROVE ListInv'
  OBVIOUS
<1>1. /\ hub' = [epoch |-> hub.epoch + 1, seq |-> 0] /\ base' = Append(base, Commits)
      /\ marking' = FALSE /\ kept' = None /\ Hangup /\ arrived' = arrived /\ page' = page
      /\ stream' = IF stream = "open" THEN "reopening" ELSE stream
      /\ (get' = get /\ again' = again) \/ Ended
  BY DEF Restart
<1>2. /\ hub'.epoch = hub.epoch + 1 /\ hub'.seq = 0 /\ Commits' = Commits
      /\ hub.epoch \in Nat /\ hub.seq \in Nat /\ Commits \in Nat
      /\ base \in Seq(Nat) /\ Len(base) = hub.epoch
  BY <1>1, Numbers DEF ListInv, ServerType, Commits
<1>3. /\ base' \in Seq(Nat) /\ Len(base') = hub'.epoch /\ base'[hub'.epoch] = Commits
      /\ \A e \in 1..hub.epoch : base'[e] = base[e]
  BY <1>1, <1>2, AppendProperties
<1>4. ServerType'
  <2>1. hub.epoch + 1 \in Nat \ {0} /\ 0 \in Nat
    BY <1>2
  <2>2. hub' \in [epoch : Nat \ {0}, seq : Nat]
    BY <1>1, <2>1
  <2>3. IsFiniteSet(arrived')
    BY <1>1 DEF ListInv, ServerType
  <2> QED BY <1>1, <1>3, <2>2, <2>3 DEF ServerType
<1>5. Onward
  BY <1>1, <1>2 DEF Onward
<1>6. Marked'
  <2>1. \A e \in 1..hub.epoch : base[e] \in Nat /\ base[e] <= Commits
    <3> TAKE e \in 1..hub.epoch
    <3>1. base[e] \in Nat /\ base[hub.epoch] \in Nat /\ hub.epoch \in 1..hub.epoch
      BY <1>2, Numbers DEF ListInv
    <3>2. base[e] <= base[hub.epoch] /\ base[hub.epoch] <= Commits
      BY <1>2, <3>1 DEF ListInv, Marked
    <3> QED BY <1>2, <3>1, <3>2
  <2>2. \A e, f \in 1..hub'.epoch : e <= f => base'[e] <= base'[f]
    <3> SUFFICES ASSUME NEW e \in 1..hub'.epoch, NEW f \in 1..hub'.epoch, e <= f
                 PROVE  base'[e] <= base'[f]
      OBVIOUS
    <3>1. CASE e = hub'.epoch
      BY <1>2, <1>3, <3>1
    <3>2. CASE e # hub'.epoch /\ f = hub'.epoch
      <4>1. e \in 1..hub.epoch
        BY <1>2, <3>2
      <4> QED BY <1>3, <2>1, <3>2, <4>1
    <3>3. CASE e # hub'.epoch /\ f # hub'.epoch
      <4>1. e \in 1..hub.epoch /\ f \in 1..hub.epoch
        BY <1>2, <3>3
      <4>2. base[e] <= base[f]
        BY <4>1 DEF ListInv, Marked
      <4> QED BY <1>3, <4>1, <4>2
    <3> QED BY <3>1, <3>2, <3>3
  <2> QED BY <1>1, <1>2, <1>3, <2>2 DEF Marked
<1>7. StreamInv'
  BY <1>1 DEF ListInv, StreamInv, Fresh, Hangup
<1>8. PageInv'
  BY <1>1, <1>4, <1>5, Stays DEF ListInv, PageInv, Ended
<1>9. Inv'
  BY Step DEF ListInv, Next
<1> QED BY <1>4, <1>6, <1>7, <1>8, <1>9 DEF ListInv

-----------------------------------------------------------------------------
(* Steps of the stream and of the page.                                    *)

server == <<log, arrived, row, marking, hub, base>>

(* When no ingest commits, marks or is interrupted, nothing of the server  *)
(* moves and every message stays.                                          *)
LEMMA Quiet ==
  ASSUME ListInv, UNCHANGED server
  PROVE  /\ Inv' /\ ServerType' /\ Marked' /\ hub' = hub
         /\ \A kinds : Message(kinds) \subseteq Message(kinds)'
         /\ Pages \subseteq Pages'
<1>1. Inv'
  BY DEF server, ListInv, Inv, RowType, Newest, NewestDecides, EstimateIsOpen
<1>2. ServerType' /\ Marked' /\ hub' = hub
  BY DEF server, ListInv, ServerType, Marked, Commits
<1>3. Commits' = Commits /\ Commits \in Nat
  BY Numbers DEF server, ListInv, Commits
<1>4. Onward
  BY <1>3 DEF server, Onward
<1> QED BY <1>1, <1>2, <1>4, Stays DEF ListInv

(* Messages of a kind are messages of more kinds.                          *)
LEMMA Kinder ==
  ASSUME NEW kinds, NEW more, kinds \subseteq more
  PROVE  Message(kinds) \subseteq Message(more)
BY DEF Message, Lists

(* What a stream or the publisher makes, and what a request is answered    *)
(* with, is of the server that runs.                                       *)
LEMMA StreamKeeps ==
  (/\ ListInv
   /\ \/ \E kind \in {"tasks", "heartbeat"} : Begin(kind)
      \/ Send \/ Publish \/ SendNumbers \/ Answer)
  => ListInv'
<1> SUFFICES ASSUME ListInv,
                    \/ \E kind \in {"tasks", "heartbeat"} : Begin(kind)
                    \/ Send \/ Publish \/ SendNumbers \/ Answer
             PROVE  ListInv'
  OBVIOUS
<1>1. UNCHANGED server /\ UNCHANGED <<stream, again, page>>
  BY DEF server, sent, Begin, Send, Publish, SendNumbers, Answer
<1>2. /\ Inv' /\ ServerType' /\ Marked' /\ hub' = hub
      /\ \A kinds : Message(kinds) \subseteq Message(kinds)'
      /\ Pages \subseteq Pages'
  BY <1>1, Quiet
<1>3. hub.seq \in 0..hub.seq /\ page' \in Pages' /\ again' \in BOOLEAN
  BY <1>1, <1>2, Numbers DEF ListInv, PageInv
<1>4. CASE \E kind \in {"tasks", "heartbeat"} : Begin(kind)
  BY <1>1, <1>2, <1>3, <1>4 DEF ListInv, Begin, StreamInv, PageInv, Fresh
<1>5. CASE Send
  <2>1. job \in [kind : {"tasks", "heartbeat"}, seq : 0..hub.seq]
    BY <1>5 DEF Send, ListInv, StreamInv
  <2>2. /\ List(job.kind, job.seq) \in Message({"tasks", "heartbeat", "numbers"})
        /\ List(job.kind, job.seq).epoch = hub.epoch
    BY <2>1, MadeNow DEF ListInv
  <2>3. wire' = List(job.kind, job.seq) /\ stream = "open"
    BY <1>5, <2>1 DEF Send, ListInv, StreamInv
  <2>4. Fresh(wire, {"tasks", "heartbeat", "numbers"})'
    BY <1>2, <2>2, <2>3 DEF Fresh
  <2> QED BY <1>1, <1>2, <1>3, <1>5, <2>3, <2>4
          DEF ListInv, Send, StreamInv, PageInv, Fresh
<1>6. CASE Publish
  <2>1. /\ Pinned("numbers") \in Message({"numbers"})
        /\ Pinned("numbers").epoch = hub.epoch
    BY <1>3, MadeNow DEF ListInv, Pinned
  <2>2. Fresh(slot, {"numbers"})' /\ Fresh(kept, {"numbers"})' /\ stream = "open"
    BY <1>2, <1>6, <2>1 DEF Publish, Fresh
  <2> QED BY <1>1, <1>2, <1>3, <1>6, <2>2
          DEF ListInv, Publish, StreamInv, PageInv, Fresh
<1>7. CASE SendNumbers
  <2>1. slot \in Message({"tasks", "heartbeat", "numbers"}) /\ slot.epoch = hub.epoch
    BY <1>7, Kinder DEF SendNumbers, ListInv, StreamInv, Fresh
  <2>2. Fresh(wire, {"tasks", "heartbeat", "numbers"})' /\ stream = "open"
    BY <1>2, <1>7, <2>1 DEF SendNumbers, Fresh, ListInv, StreamInv
  <2> QED BY <1>1, <1>2, <1>3, <1>7, <2>2
          DEF ListInv, SendNumbers, StreamInv, PageInv, Fresh
<1>8. CASE Answer
  <2>1. kept' \in Message({"numbers"}) /\ kept'.epoch = hub.epoch
    <3>1. CASE kept' = Pinned("numbers")
      BY <1>3, <3>1, MadeNow DEF ListInv, Pinned
    <3>2. CASE kept # None /\ kept' = kept
      BY <3>2 DEF ListInv, StreamInv, Fresh
    <3> QED BY <1>8, <3>1, <3>2 DEF Answer
  <2>2. Fresh(kept, {"numbers"})' /\ get' \in Message({"numbers"})'
    BY <1>2, <1>8, <2>1 DEF Answer, Fresh
  <2> QED BY <1>1, <1>2, <1>3, <1>8, <2>2
          DEF ListInv, Answer, StreamInv, PageInv, Fresh, sent
<1> QED BY <1>4, <1>5, <1>6, <1>7, <1>8

(* Streams that open or break, and requests.                               *)
LEMMA LinkKeeps ==
  (ListInv /\ (Register \/ LoseAnswer \/ Reload \/ Break)) => ListInv'
<1> SUFFICES ASSUME ListInv, Register \/ LoseAnswer \/ Reload \/ Break PROVE ListInv'
  OBVIOUS
<1>1. UNCHANGED server /\ UNCHANGED <<kept, page>>
  BY DEF server, Register, LoseAnswer, Reload, Break
<1>2. /\ Inv' /\ ServerType' /\ Marked' /\ hub' = hub
      /\ \A kinds : Message(kinds) \subseteq Message(kinds)'
      /\ Pages \subseteq Pages'
  BY <1>1, Quiet
<1>3. hub.seq \in 0..hub.seq /\ page' \in Pages'
  BY <1>1, <1>2, Numbers DEF ListInv, PageInv
<1>4. PageInv'
  BY <1>2, <1>3 DEF Register, LoseAnswer, Reload, Break, Load, Ended, ListInv, PageInv
<1>5. StreamInv'
  <2>1. CASE Register
    BY <1>1, <1>2, <1>3, <2>1 DEF ListInv, Register, StreamInv, Fresh
  <2>2. CASE LoseAnswer \/ Reload
    BY <1>1, <1>2, <2>2 DEF ListInv, LoseAnswer, Reload, StreamInv, Fresh, sent
  <2>3. CASE Break
    BY <1>1, <1>2, <2>3 DEF ListInv, Break, Hangup, StreamInv, Fresh
  <2> QED BY <2>1, <2>2, <2>3
<1> QED BY <1>2, <1>4, <1>5 DEF ListInv

(* The page stays with what it is promised, unless it changes the server.  *)
Faithful == page' \in Pages /\ (page'.epoch = page.epoch => Owed(page) <= page'.list.commits)

(* A message of the stream.                                                *)
LEMMA HandleFaithful == (ListInv /\ Handle) => Faithful
<1> SUFFICES ASSUME ListInv, Handle PROVE Faithful
  OBVIOUS
<1> DEFINE K == {"tasks", "heartbeat", "numbers"}
<1>1. wire \in Message(K) /\ wire.epoch = hub.epoch /\ page \in Pages
      /\ ServerType /\ Marked
  BY DEF Handle, ListInv, StreamInv, PageInv, Fresh
<1> HIDE DEF K
<1>2. CASE page' = page
  BY <1>1, <1>2, Shows DEF Faithful
<1>3. CASE page' = Pulse(page, wire) /\ wire.epoch = page.epoch
  BY <1>1, <1>3, PulseKeeps DEF Faithful
<1>4. CASE page' = Pulse([page EXCEPT !.expected = wire.epoch], wire)
  <2> DEFINE p == [page EXCEPT !.expected = wire.epoch]
  <2>1. /\ page \in [epoch : 0..hub.epoch, expected : 0..hub.epoch, list : Listing]
        /\ page.list \in Listing /\ page.list.epoch \in 0..hub.epoch
        /\ wire.epoch \in 0..hub.epoch /\ hub.epoch \in Nat
    BY <1>1, Numbers DEF Pages, Listing
  <2>2. /\ p \in [epoch : 0..hub.epoch, expected : 0..hub.epoch, list : Listing]
        /\ p.list = page.list /\ p.epoch = page.epoch /\ p.expected = wire.epoch
    BY <2>1
  <2>3. p.list.epoch <= p.expected
    BY <1>1, <2>1, <2>2
  <2> HIDE DEF p
  <2>4. p \in Pages
    BY <2>2, <2>3 DEF Pages
  <2>5. /\ Pulse(p, wire) \in Pages /\ Pulse(p, wire).epoch = p.epoch
        /\ Owed(p) <= Pulse(p, wire).list.commits
    BY <1>1, <2>2, <2>4, PulseKeeps
  <2>6. Owed(p) = Owed(page)
    BY <2>2 DEF Owed
  <2>7. page' = Pulse(p, wire)
    BY <1>4 DEF p
  <2> QED BY <2>5, <2>6, <2>7 DEF Faithful
<1>5. CASE page' = Confirmed(page, wire)
  <2>1. /\ Confirmed(page, wire) \in Pages
        /\ Confirmed(page, wire).epoch = page.epoch
             => Owed(page) <= Confirmed(page, wire).list.commits
    BY <1>1, ConfirmedKeeps
  <2> QED BY <1>5, <2>1 DEF Faithful
<1> QED BY <1>2, <1>3, <1>4, <1>5 DEF Handle, OnTasks, OnHeartbeat, OnNumbers

(* An answer to the page's request.                                        *)
LEMMA FinishFaithful == (ListInv /\ Finish) => Faithful
<1> SUFFICES ASSUME ListInv, Finish PROVE Faithful
  OBVIOUS
<1>1. get \in Message({"numbers"}) /\ page \in Pages /\ ServerType /\ Marked
  BY DEF Finish, ListInv, PageInv
<1>2. CASE page' = page
  BY <1>1, <1>2, Shows DEF Faithful
<1>3. CASE page' = Confirmed(page, get) /\ Accepts(page, get)
  <2>1. /\ Confirmed(page, get) \in Pages
        /\ Confirmed(page, get).epoch = page.epoch
             => Owed(page) <= Confirmed(page, get).list.commits
    BY <1>1, <1>3, ConfirmedKeeps
  <2> QED BY <1>3, <2>1 DEF Faithful
<1> QED BY <1>2, <1>3 DEF Finish

(* Neither disturbs the rest.                                              *)
LEMMA PageKeeps == (ListInv /\ (Handle \/ Finish)) => ListInv'
<1> SUFFICES ASSUME ListInv, Handle \/ Finish PROVE ListInv'
  OBVIOUS
<1>1. UNCHANGED server /\ UNCHANGED kept
  BY DEF server, Handle, Finish
<1>2. /\ Inv' /\ ServerType' /\ Marked' /\ hub' = hub
      /\ \A kinds : Message(kinds) \subseteq Message(kinds)'
      /\ Pages \subseteq Pages'
  BY <1>1, Quiet
<1>3. page' \in Pages'
  BY <1>2, HandleFaithful, FinishFaithful DEF Faithful
<1>4. get' \in {get, None, Asked} /\ again' \in BOOLEAN
  BY DEF Handle, OnTasks, OnHeartbeat, OnNumbers, Finish, Load, Ended, ListInv, PageInv
<1>5. PageInv'
  BY <1>2, <1>3, <1>4 DEF ListInv, PageInv
<1>6. StreamInv'
  <2>1. CASE Handle
    BY <1>1, <1>2, <2>1 DEF ListInv, Handle, StreamInv, Fresh
  <2>2. CASE Finish /\ UNCHANGED sent
    BY <1>1, <1>2, <2>2 DEF ListInv, StreamInv, Fresh, sent
  <2>3. CASE Hangup /\ stream' = "connecting"
    BY <1>1, <1>2, <2>3 DEF ListInv, Hangup, StreamInv, Fresh
  <2>4. Finish => UNCHANGED sent \/ (Hangup /\ stream' = "connecting")
    BY DEF Finish
  <2> QED BY <2>1, <2>2, <2>3, <2>4
<1> QED BY <1>2, <1>5, <1>6 DEF ListInv

(* No step disturbs the invariant.                                         *)
LEMMA ListStep == ListInv /\ [Next]_vars => ListInv'
<1> SUFFICES ASSUME ListInv, [Next]_vars PROVE ListInv'
  OBVIOUS
<1>1. CASE UNCHANGED vars
  <2>1. UNCHANGED server /\ UNCHANGED <<woken, job, wire, slot, stream, kept, get, again, page>>
    BY <1>1 DEF vars, server, sent
  <2>2. /\ Inv' /\ ServerType' /\ Marked' /\ hub' = hub
        /\ \A kinds : Message(kinds) \subseteq Message(kinds)'
        /\ Pages \subseteq Pages'
    BY <2>1, Quiet
  <2> QED BY <2>1, <2>2 DEF ListInv, StreamInv, PageInv, Fresh
<1> QED BY <1>1, CommitKeeps, MarkKeeps, RestartKeeps, StreamKeeps, LinkKeeps, PageKeeps
        DEF Next

(* Every reachable state satisfies the invariant.                          *)
LEMMA AlwaysListed == Spec => []ListInv
BY Begins, ListStep, PTL DEF Spec

-----------------------------------------------------------------------------
(* A page that stays with one server never shows a list older than the     *)
(* number it shows has promised, whatever is late, lost, sent again or     *)
(* overtaken on the way: applyPulse and applyConfirmed in app.js.          *)
THEOREM StaysAhead == Spec => NeverBehind
<1>1. Promised = Owed(page)
  BY DEF Promised, Owed
<1>2. ASSUME ListInv, [Next]_vars
      PROVE  [page'.epoch = page.epoch => page'.list.commits >= Promised]_page
  <2> SUFFICES ASSUME page' # page, page'.epoch = page.epoch
               PROVE  page'.list.commits >= Promised
    OBVIOUS
  <2>1. Handle \/ Finish
    BY <1>2 DEF Next, vars, Commit, Mark, Begin, Send, Publish, SendNumbers, Answer,
           Register, LoseAnswer, Reload, Break, Restart
  <2>2. Faithful
    BY <1>2, <2>1, HandleFaithful, FinishFaithful
  <2>3. Owed(page) <= page'.list.commits
    BY <2>2 DEF Faithful
  <2>4. page'.list.commits \in Nat /\ Owed(page) \in Nat
    <3>1. ServerType /\ page \in Pages /\ page' \in Pages
      BY <1>2, <2>2 DEF Faithful, ListInv, PageInv
    <3>2. \A p \in Pages : p.list.commits \in Nat /\ Owed(p) \in Nat
      BY <3>1, Shows
    <3> QED BY <3>1, <3>2
  <2> QED BY <1>1, <2>3, <2>4
<1>3. Spec => [][Next]_vars
  BY DEF Spec
<1> QED BY <1>2, <1>3, AlwaysListed, PTL DEF NeverBehind

(* Every message on its way, in the slot, kept or answered is a list of a  *)
(* server that has run, and a closed stream holds none.                    *)
THEOREM WellTyped == Spec => []TypeOK
<1>1. ListInv => TypeOK
  <2> SUFFICES ASSUME ListInv PROVE TypeOK
    OBVIOUS
  <2>1. \A kinds : Message(kinds) \subseteq Lists(kinds)
    BY DEF Message
  <2>2. page \in [epoch : 0..hub.epoch, expected : 0..hub.epoch,
                  list : [epoch : 0..hub.epoch, seq : Nat, commits : 0..Commits]]
    BY DEF ListInv, PageInv, Pages, Listing
  <2>3. wire \in Lists({"tasks", "heartbeat", "numbers"}) \cup {None}
        /\ {slot, kept} \subseteq Lists({"numbers"}) \cup {None}
        /\ get \in Lists({"numbers"}) \cup {None, Asked}
    BY <2>1 DEF ListInv, StreamInv, PageInv, Fresh
  <2> QED BY <2>2, <2>3 DEF ListInv, Inv, RowType, ServerType, StreamInv, PageInv, TypeOK
<1> QED BY <1>1, AlwaysListed, PTL

=============================================================================
