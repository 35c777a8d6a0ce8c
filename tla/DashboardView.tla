---------------------------- MODULE DashboardView ----------------------------
(***************************************************************************)
(* What an open dashboard promises, without how it is kept up to date:     *)
(* usage and metadata on a page are what the ledger held at one moment,    *)
(* summed over the window of one moment, and the ledger a page shows never *)
(* gets shorter.  What a rename or an activity changed in a row may be     *)
(* that of any earlier moment.  NumericStream implements it with cached    *)
(* views, differences between them, a one-slot stream and full requests.   *)
(***************************************************************************)
EXTENDS Integers, Sequences, FiniteSets

CONSTANTS
  Conversation,
  Browser,       \* pages showing the dashboard
  Blank          \* a page before its first number

VARIABLES
  ledger,  \* what was recorded of conversations, in order
  now,     \* the server's clock
  page     \* page[b]: [led, start, end, rows], or Blank

vars == <<ledger, now, page>>

-----------------------------------------------------------------------------
(* The rows of the first n entries over [start, end): one for every        *)
(* conversation used in it, with its usage, the version of its metadata,   *)
(* and the version of what renames and activities change in the row.       *)
Used(n, c, start, end) ==
  {i \in 1..n : /\ ledger[i].kind = "usage" /\ ledger[i].conv = c
                /\ start <= ledger[i].at /\ ledger[i].at < end}

Named(n, c) == {i \in 1..n : ledger[i].kind = "metadata" /\ ledger[i].conv = c}

Changed(n, c) ==
  {i \in 1..n : ledger[i].kind \in {"rename", "activity"} /\ ledger[i].conv = c}

Latest(n) == [c \in Conversation |-> Cardinality(Changed(n, c))]

Rows(n, shown, start, end) ==
  [c \in {c \in Conversation : Used(n, c, start, end) # {}} |->
     [used  |-> Cardinality(Used(n, c, start, end)),
      named |-> Cardinality(Named(n, c)),
      shown |-> shown[c]]]

Older(n) ==
  {shown \in [Conversation -> 0..n] :
     \A c \in Conversation : shown[c] <= Latest(n)[c]}

-----------------------------------------------------------------------------
Init ==
  /\ ledger = <<>>
  /\ now \in Nat
  /\ page = [b \in Browser |-> Blank]

Record ==
  /\ \E kind \in {"usage", "metadata", "rename", "activity"},
        c \in Conversation, t \in 0..now :
       ledger' = Append(ledger, [kind |-> kind, conv |-> c, at |-> t])
  /\ UNCHANGED <<now, page>>

Tick ==
  /\ now' = now + 1
  /\ UNCHANGED <<ledger, page>>

Show(b) ==
  /\ page'[b] # page[b]
  /\ \E n \in 0..Len(ledger), start, end \in 0..now,
        shown \in Older(Len(ledger)) :
       /\ page[b] # Blank => page[b].led <= n
       /\ page' = [page EXCEPT ![b] =
            [led |-> n, start |-> start, end |-> end,
             rows |-> Rows(n, shown, start, end)]]
  /\ UNCHANGED <<ledger, now>>

Next == Record \/ Tick \/ \E b \in Browser : Show(b)

Spec == Init /\ [][Next]_vars

=============================================================================
