----------------------------- MODULE MCTaskFeed -----------------------------
(* Instances of TaskFeed.                                                  *)
EXTENDS TaskFeed

Ev(kind, turn, at) == [kind |-> kind, turn |-> turn, at |-> at]

(* Another turn begins; a turn ends; an estimate is settled; a count and an *)
(* estimate at one instant; a turn is known by its count first.             *)
SomeLogs ==
  { <<Ev("live", 1, 1), Ev("started", 2, 2)>>,
    <<Ev("live", 1, 1), Ev("ended", 1, 2)>>,
    <<Ev("live", 1, 1), Ev("exact", 1, 2)>>,
    <<Ev("exact", 1, 1), Ev("live", 1, 1)>>,
    <<Ev("exact", 1, 1), Ev("exact", 2, 2)>> }
=============================================================================
