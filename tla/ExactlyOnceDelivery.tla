------------------------- MODULE ExactlyOnceDelivery -------------------------
(***************************************************************************)
(* What the collector and the server promise together, with every detail   *)
(* of checkpoints, uploads, lost answers and restarts left out.            *)
(*                                                                         *)
(* Events are queued in some order (each row carries the place it took in  *)
(* that order) and are applied to the ledger exactly once, in that order:  *)
(* what has been applied is always an initial part of what was queued.     *)
(* README.md states this promise as "resumes in order after a network      *)
(* loss" and "deduplicated before it is entered in the ledger".            *)
(***************************************************************************)
EXTENDS Naturals

CONSTANT Event          \* whatever the collector extracts from the logs

VARIABLES
  history,              \* every row ever queued: [seq, ev]
  ledger                \* ledger[e]: how many times event e took effect

vars == <<history, ledger>>

Row == [seq : Nat, ev : Event]

Events(rows) == {r.ev : r \in rows}

Init ==
  /\ history = {}
  /\ ledger = [e \in {} |-> 0]

(* New rows go behind every row queued before, and never repeat an event.  *)
Enqueue ==
  LET rows == history' \ history IN
    /\ history \subseteq history'
    /\ rows \subseteq Row
    /\ \A r \in rows, q \in history : q.seq < r.seq /\ q.ev # r.ev
    /\ \A r, q \in rows : r.seq = q.seq \/ r.ev = q.ev => r = q
    /\ UNCHANGED ledger

(* Some queued events not applied yet take effect, once each; nothing      *)
(* queued before one of them is skipped.                                   *)
Deliver ==
  LET fresh == DOMAIN ledger' \ DOMAIN ledger IN
    /\ fresh \subseteq Events(history)
    /\ \A r, q \in history :
         r.ev \in fresh /\ q.seq < r.seq => q.ev \in DOMAIN ledger'
    /\ ledger' = [e \in DOMAIN ledger \cup fresh |->
                    IF e \in fresh THEN 1 ELSE ledger[e]]
    /\ UNCHANGED history

Next == Enqueue \/ Deliver

Spec == Init /\ [][Next]_vars

=============================================================================
