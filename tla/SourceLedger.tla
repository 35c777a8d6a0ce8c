---------------------------- MODULE SourceLedger ----------------------------
(***************************************************************************)
(* From cumulative counters to counted tokens.  Codex writes into each log *)
(* file how many tokens have been used so far; the counter may start again *)
(* (a resumed task), the file may be replaced, a file may name several     *)
(* conversations, and a file forked from another carries that one's total  *)
(* along.  The agent turns a line into an event with an epoch that changes *)
(* whenever the counter went down (scanOneTx) or absorbs what was there    *)
(* before it was installed (queueBaseline); the server turns an event into *)
(* the difference to a watermark (applyEvent).                             *)
(*                                                                         *)
(* Events reach the server in order and once each: Delivery shows that.    *)
(* Every line here is a usage line, and only its total is kept of the five *)
(* counts it has.                                                          *)
(***************************************************************************)
EXTENDS Integers, Sequences, FiniteSets

CONSTANTS
  Source,        \* log files; the name is also its main conversation's
  Parent,        \* Parent[s]: the file s was forked from, or NoParent
  NoParent,
  Naming,        \* where conversations are named: one of Namings
  Turns,         \* TRUE: lines may name a turn
  Allowed,       \* what else may happen: a subset of Trouble
  Delta,         \* tokens used between two lines
  MaxLines,      \* bound: MaxLines[s] lines written into a file, ever
  MaxGeneration  \* bound: generation after a restart or a backfill

(* "backfill": history is imported after lines were read.                  *)
(* "early restart": the counter starts again before the agent has read a   *)
(* line it could compare with.                                             *)
(* "fork restart": the counter of a forked file starts again without a     *)
(* turn to tell the two counts apart.                                      *)
(* "rewrite": a file is replaced after it was read to its end.             *)
Trouble == {"backfill", "early restart", "fork restart", "rewrite"}

(* A file with several conversations (ctco_...) names them in usage lines, *)
(* or in lines of their own before them, which only Scan looks at.         *)
Namings == {"never", "in usage lines", "before them"}

ASSUME LedgerAssumption ==
  /\ NoParent \notin Source
  /\ Parent \in [Source -> Source \cup {NoParent}]
  /\ Naming \in Namings /\ Turns \in BOOLEAN
  /\ Allowed \subseteq Trouble
  /\ Delta \subseteq Nat
  /\ MaxLines \in [Source -> Nat]
  /\ MaxGeneration \in Nat

VARIABLES
  log,         \* log[s]: lines [total, conv, turn, at]
  turn,        \* turn[s]: turns begun in the file
  erased,      \* erased[s]: lines gone when it was replaced
  row,         \* row[s]: the agent's row of table files, or NoRow
  firstPass,   \* the first pass over the files has not ended
  queue,       \* events on their way to the server
  source,      \* source[s]: source_counters row, or NoCounter
  conv,        \* conv[c]: conversation_counters row, or NoCounter
  keys,        \* dedup keys in usage_events
  counted,     \* counted[s]: sum of total_tokens over its usage_events
  spent,       \* history: tokens really used in the file
  gone,        \* history: spent[s] when the file was replaced
  base         \* history: spent[s] where collection began

codex  == <<log, turn, erased, spent, gone>>
agent  == <<row, firstPass, base>>
server == <<source, conv, keys, counted>>
vars   == <<codex, agent, queue, server>>

-----------------------------------------------------------------------------
(* Data.                                                                   *)

Conversation == Source \X {"main", "derived"}

Main(s) == <<s, "main">>

(* A line repeats the conversation or the turn only when it changes: conv  *)
(* is "same" and turn 0 in most lines, and the reader remembers.  at is    *)
(* history, here and in events: tokens used in the file up to the line.    *)
Line == [total : Nat, conv : {"same", "main", "derived"}, turn : Nat, at : Nat]

(* first is history: the first line after the place where reading began.   *)
Row == [offset : Nat, gen : Nat, last : Nat, init : BOOLEAN,
        conv : Conversation, turn : Nat, first : Nat]

NoRow == [offset |-> -1]

Event == [type : {"baseline", "exact"}, src : Source, conv : Conversation,
          turn : Nat, epoch : Nat, total : Nat, at : Nat]

Counter == [epoch : Nat, total : Nat]

NoCounter == [epoch |-> -1, total |-> 0]

LastTotal(s) == IF log[s] = <<>> THEN 0 ELSE log[s][Len(log[s])].total

-----------------------------------------------------------------------------
Init ==
  /\ log = [s \in Source |-> <<>>]
  /\ turn = [s \in Source |-> 0]
  /\ erased = [s \in Source |-> 0]
  /\ row = [s \in Source |-> NoRow]
  /\ firstPass = TRUE
  /\ queue = <<>>
  /\ source = [s \in Source |-> NoCounter]
  /\ conv = [c \in Conversation |-> NoCounter]
  /\ keys = {}
  /\ counted = [s \in Source |-> 0]
  /\ spent = [s \in Source |-> 0]
  /\ gone = [s \in Source |-> 0]
  /\ base = [s \in Source |-> 0]

(* Where a scan begins: at the top of a file that is new, or shorter than  *)
(* what was read of it; there the counter has nothing to compare with.     *)
MutantBegin(s) ==
  IF row[s] = NoRow
    THEN [offset |-> 0, gen |-> 0, last |-> 0, init |-> FALSE,
          conv |-> Main(s), turn |-> 0, first |-> 1]
  ELSE IF Len(log[s]) < row[s].offset
    THEN [row[s] EXCEPT !.offset = 0, !.last = 0, !.init = FALSE, !.first = 1]
  ELSE row[s]

Begin(s) ==
  IF row[s] = NoRow
    THEN [offset |-> 0, gen |-> 0, last |-> 0, init |-> FALSE,
          conv |-> Main(s), turn |-> 0, first |-> 1]
  ELSE IF Len(log[s]) < row[s].offset
    THEN [row[s] EXCEPT !.offset = 0, !.gen = @ + 1, !.last = 0, !.init = FALSE,
                        !.first = 1]
  ELSE row[s]

-----------------------------------------------------------------------------
(* Codex.                                                                  *)

(* A fork carries its parent's total along.  It is told from a task of its *)
(* own by comparing with the parent's counter at the server, so its first  *)
(* line must get there before the parent goes on.                          *)
ForkPending(s) == \E f \in Source :
  Parent[f] = s /\ log[f] # <<>> /\ source[f] = NoCounter

ParentInStep(s) ==
  LET p == Parent[s]
  IN  /\ queue = <<>>
      /\ log[p] # <<>> => row[p] # NoRow /\ row[p].offset = Len(log[p])
      /\ conv[Main(p)].total = LastTotal(p)

(* The agent sees a replaced file shorter than what it read, before the    *)
(* file has grown again (Delivery_regrow shows what follows otherwise).    *)
StaysNoticeable(s) ==
  row[s] # NoRow /\ Len(log[s]) < row[s].offset => Len(log[s]) + 1 < row[s].offset

(* A line may leave the turn out when the counter goes on, or when no turn *)
(* was named yet; a counter that starts again otherwise begins a turn.     *)
TurnOptional(s, total) ==
  \/ log[s] # <<>> /\ total >= LastTotal(s)
  \/ /\ turn[s] = 0
     /\ \/ Parent[s] = NoParent
        \/ log[s] = <<>> /\ erased[s] = 0
        \/ "fork restart" \in Allowed

WriteLine(s, total, used) ==
  /\ erased[s] + Len(log[s]) < MaxLines[s]
  /\ ~ForkPending(s)
  /\ StaysNoticeable(s)
  /\ \E name \in IF Naming = "never" THEN {"same"} ELSE {"same", "main", "derived"},
        t \in IF Turns THEN {0, turn[s] + 1} ELSE {0} :
       /\ t = 0 => TurnOptional(s, total)
       /\ log' = [log EXCEPT ![s] =
                    Append(@, [total |-> total, conv |-> name, turn |-> t,
                               at |-> spent[s] + used])]
       /\ turn' = [turn EXCEPT ![s] = IF t = 0 THEN @ ELSE t]
  /\ spent' = [spent EXCEPT ![s] = @ + used]
  /\ UNCHANGED <<erased, gone, agent, queue, server>>

(* The next line of a file: the counter has gone up, or stayed.            *)
Use(s) ==
  /\ log[s] # <<>> \/ Parent[s] = NoParent \/ erased[s] > 0
  /\ \E d \in Delta : WriteLine(s, LastTotal(s) + d, d)

(* The first line of a forked file: with its parent's total, or, when this *)
(* can be told from it, with a count of its own.                           *)
Fork(s) ==
  /\ log[s] = <<>> /\ erased[s] = 0
  /\ Parent[s] # NoParent
  /\ ParentInStep(s)
  /\ \E d \in Delta :
       \/ WriteLine(s, LastTotal(Parent[s]) + d, d)
       \/ d < LastTotal(Parent[s]) /\ WriteLine(s, d, d)

(* The counter starts again in the same file.  A restart is only seen when *)
(* its first total is lower and the agent has a line to compare it with.   *)
Restart(s) ==
  /\ \/ "early restart" \in Allowed
     \/ row[s] = NoRow /\ (~firstPass \/ Naming # "in usage lines")
     \/ row[s] # NoRow /\ Len(log[s]) >= Begin(s).first
  /\ \E d \in Delta : d < LastTotal(s) /\ WriteLine(s, d, d)

(* The file is replaced after it was read to its end.                      *)
Rewrite(s) ==
  /\ "rewrite" \in Allowed
  /\ log[s] # <<>> /\ row[s] # NoRow
  /\ row[s].offset = Len(log[s])
  /\ log' = [log EXCEPT ![s] = <<>>]
  /\ erased' = [erased EXCEPT ![s] = @ + Len(log[s])]
  /\ gone' = [gone EXCEPT ![s] = spent[s]]
  /\ UNCHANGED <<turn, spent, agent, queue, server>>

-----------------------------------------------------------------------------
(* The agent.                                                              *)

ConvOf(s, name, before) == IF name = "same" THEN before ELSE <<s, name>>

(* The conversation in force at line k for a reader of usage lines only.   *)
ConvAt(s, k) ==
  LET named == {j \in 1..k : log[s][j].conv # "same"}
  IN  IF named = {} \/ Naming # "in usage lines" THEN Main(s)
      ELSE <<s, log[s][CHOOSE j \in named : \A i \in named : i <= j].conv>>

(* The last usage of each conversation in the file.                        *)
BaselineEvents(s) ==
  {[type |-> "baseline", src |-> s, conv |-> ConvAt(s, k), turn |-> 0,
    epoch |-> 0, total |-> log[s][k].total, at |-> log[s][k].at] :
     k \in {j \in 1..Len(log[s]) :
              \A i \in 1..Len(log[s]) : i > j => ConvAt(s, i) # ConvAt(s, j)}}

(* A map is ranged over in any order.                                      *)
Orders(S) ==
  {q \in [1..Cardinality(S) -> S] : \A x \in S : \E i \in DOMAIN q : q[i] = x}

(* A file of the first pass: reading will begin at the size stat returned, *)
(* but the baseline is taken from all that was there when it was read.     *)
Baseline(s) ==
  /\ firstPass
  /\ row[s] = NoRow
  /\ \E size \in 0..Len(log[s]) :
       /\ \A k \in 2..Len(log[s]) :
            k > size => log[s][k].total >= log[s][k - 1].total
       /\ row' = [row EXCEPT ![s] =
                    [offset |-> size, gen |-> 0, last |-> 0, init |-> FALSE,
                     conv |-> Main(s), turn |-> 0, first |-> size + 1]]
  /\ \E events \in Orders(BaselineEvents(s)) : queue' = queue \o events
  /\ base' = [base EXCEPT ![s] = spent[s]]
  /\ UNCHANGED <<codex, firstPass, server>>

EndFirstPass ==
  /\ firstPass
  /\ firstPass' = FALSE
  /\ UNCHANGED <<codex, row, base, queue, server>>

(* The row after a line was read: a total below the last one begins a      *)
(* generation.                                                             *)
MutantRead(s, r, line) ==
  [r EXCEPT !.offset = @ + 1,
            !.last   = line.total,
            !.init   = TRUE,
            !.conv   = ConvOf(s, line.conv, @),
            !.turn   = IF line.turn = 0 THEN @ ELSE line.turn]

Read(s, r, line) ==
  [r EXCEPT !.offset = @ + 1,
            !.gen    = IF r.init /\ line.total < r.last THEN @ + 1 ELSE @,
            !.last   = line.total,
            !.init   = TRUE,
            !.conv   = ConvOf(s, line.conv, @),
            !.turn   = IF line.turn = 0 THEN @ ELSE line.turn]

(* One line at a time; a transaction over several lines is several of      *)
(* these in a row.                                                         *)
Scan(s) ==
  LET b == Begin(s)
      r == Read(s, b, log[s][b.offset + 1])
  IN  /\ row[s] # NoRow \/ ~firstPass
      /\ b.offset < Len(log[s])
      /\ r.gen <= MaxGeneration
      /\ row' = [row EXCEPT ![s] = r]
      /\ queue' = Append(queue, [type |-> "exact", src |-> s, conv |-> r.conv,
                                 turn |-> r.turn, epoch |-> r.gen,
                                 total |-> r.last,
                                 at |-> log[s][b.offset + 1].at])
      /\ UNCHANGED <<codex, firstPass, base, server>>

(* A scan that finds a file emptied.                                       *)
Notice(s) ==
  /\ row[s] # NoRow
  /\ log[s] = <<>> /\ row[s].offset > 0
  /\ row' = [row EXCEPT ![s] = Begin(s)]
  /\ UNCHANGED <<codex, firstPass, base, queue, server>>

(* Everything is to be read again; what was used before collection began   *)
(* is now wanted as well, as far as the files still show it.  It has to be *)
(* done before a line was read; a fork is not told from its parent then.   *)
Backfill ==
  /\ \/ "backfill" \in Allowed
     \/ /\ \A s \in Source : Parent[s] = NoParent
        /\ keys = {} /\ \A i \in DOMAIN queue : queue[i].type = "baseline"
  /\ \A s \in Source : row[s] # NoRow => row[s].gen < MaxGeneration
  /\ row' = [s \in Source |->
               IF row[s] # NoRow
                 THEN [row[s] EXCEPT !.offset = 0, !.gen = @ + 1, !.last = 0,
                                     !.init = FALSE, !.first = 1]
               ELSE IF log[s] # <<>> THEN Begin(s)
               ELSE NoRow]
  /\ base' = [s \in Source |-> IF row'[s] = NoRow THEN base[s] ELSE gone[s]]
  /\ UNCHANGED <<codex, firstPass, queue, server>>

-----------------------------------------------------------------------------
(* The server: applyEvent.                                                 *)

(* A baseline sets the conversation's counter and can only raise the       *)
(* watermark of the source.                                                *)
MutantApplyBaseline(e) ==
  /\ conv' = [conv EXCEPT ![e.conv] = [epoch |-> IF @ = NoCounter THEN 0 ELSE @.epoch,
                                       total |-> e.total]]
  /\ source' = [source EXCEPT ![e.src] = [epoch |-> e.epoch, total |-> e.total]]
  /\ UNCHANGED <<keys, counted>>

ApplyBaseline(e) ==
  /\ conv' = [conv EXCEPT ![e.conv] = [epoch |-> IF @ = NoCounter THEN 0 ELSE @.epoch,
                                       total |-> e.total]]
  /\ source' = [source EXCEPT ![e.src] =
                  IF @ = NoCounter THEN [epoch |-> e.epoch, total |-> e.total]
                  ELSE [epoch |-> IF e.epoch > @.epoch THEN e.epoch ELSE @.epoch,
                        total |-> IF e.total > @.total \/ e.epoch > @.epoch
                                    THEN e.total ELSE @.total]]
  /\ UNCHANGED <<keys, counted>>

(* What to compare with: the source's watermark, else the conversation's   *)
(* counter, else the total of the conversation it derives from.  (Events   *)
(* of old agents that are under a message's id get their parent from table *)
(* sessions; no line read today gives such an event.)                      *)
ParentConv(e) ==
  IF Parent[e.src] # NoParent THEN Main(Parent[e.src]) ELSE Main(e.src)

HasParent(e) == e.conv # Main(e.src) \/ Parent[e.src] # NoParent

MutantOld(e) ==
  IF source[e.src] # NoCounter THEN source[e.src]
  ELSE IF conv[e.conv] # NoCounter THEN conv[e.conv]
  ELSE [epoch |-> 0, total |-> 0]

Old(e) ==
  IF source[e.src] # NoCounter THEN source[e.src]
  ELSE IF conv[e.conv] # NoCounter THEN conv[e.conv]
  ELSE [epoch |-> 0,
        total |-> IF HasParent(e) THEN conv[ParentConv(e)].total ELSE 0]

(* The counter has started again: by the agent's epoch where the source is *)
(* known, by its value where it is not.                                    *)
MutantReset(e) == e.epoch > Old(e).epoch

Reset(e) ==
  IF source[e.src] = NoCounter THEN e.total < Old(e).total
                               ELSE e.epoch > Old(e).epoch

MutantDeltaCounts(e) ==
  IF Reset(e) \/ e.total < Old(e).total THEN e.total ELSE e.total - Old(e).total

MutantUnclamped(e) == IF Reset(e) THEN e.total ELSE e.total - Old(e).total

DeltaCounts(e) ==
  IF Reset(e) THEN e.total
  ELSE IF e.total < Old(e).total THEN 0
  ELSE e.total - Old(e).total

(* A response or turn id belongs to one task: here turns are numbered      *)
(* within a file, and the file is part of the id.  (The key itself hashes  *)
(* the id and the total alone.)                                            *)
DedupKey(e) ==
  IF e.turn # 0 THEN <<"response", e.src, e.turn, e.total>>
  ELSE <<"counter", e.conv, e.total, Old(e).epoch + IF Reset(e) THEN 1 ELSE 0>>

(* A key already in the ledger leaves every counter as it is.              *)
ApplyExact(e) ==
  IF DedupKey(e) \in keys THEN UNCHANGED server
  ELSE /\ keys' = keys \cup {DedupKey(e)}
       /\ counted' = [counted EXCEPT ![e.src] = @ + DeltaCounts(e)]
       /\ conv' = [conv EXCEPT ![e.conv] =
                     [epoch |-> Old(e).epoch + IF Reset(e) THEN 1 ELSE 0,
                      total |-> e.total]]
       /\ source' = IF \/ source[e.src] = NoCounter \/ Reset(e)
                       \/ e.total > Old(e).total
                      THEN [source EXCEPT ![e.src] = [epoch |-> e.epoch,
                                                      total |-> e.total]]
                      ELSE source

Apply ==
  /\ queue # <<>>
  /\ queue' = Tail(queue)
  /\ IF Head(queue).type = "baseline" THEN ApplyBaseline(Head(queue))
                                      ELSE ApplyExact(Head(queue))
  /\ UNCHANGED <<codex, agent>>

-----------------------------------------------------------------------------
Next ==
  \/ \E s \in Source :
       \/ Use(s) \/ Fork(s) \/ Restart(s) \/ Rewrite(s)
       \/ Baseline(s) \/ Scan(s) \/ Notice(s)
  \/ EndFirstPass \/ Backfill \/ Apply

Spec == Init /\ [][Next]_vars

-----------------------------------------------------------------------------
(* Properties.                                                             *)

TypeOK ==
  /\ log \in [Source -> Seq(Line)]
  /\ turn \in [Source -> Nat]
  /\ erased \in [Source -> Nat]
  /\ row \in [Source -> Row \cup {NoRow}]
  /\ firstPass \in BOOLEAN
  /\ queue \in Seq(Event)
  /\ source \in [Source -> Counter \cup {NoCounter}]
  /\ conv \in [Conversation -> Counter \cup {NoCounter}]
  /\ counted \in [Source -> Nat]
  /\ spent \in [Source -> Nat]
  /\ gone \in [Source -> Nat]
  /\ base \in [Source -> Nat]

(* Never more tokens are counted for a file than were used in it since     *)
(* collection began, at any moment, whatever is still on its way.          *)
NoOvercount == \A s \in Source : counted[s] <= spent[s] - base[s]

(* When a file was read to its end and everything read was applied, the    *)
(* tokens counted for it are those that were used: restarts, replaced      *)
(* files, repeated totals and forks lose nothing.                          *)
ExactWhenQuiet ==
  \A s \in Source :
    /\ queue = <<>>
    /\ row[s] # NoRow
    /\ row[s].offset = Len(log[s])
    => counted[s] = spent[s] - base[s]

=============================================================================
