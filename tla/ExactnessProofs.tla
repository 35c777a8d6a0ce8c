--------------------------- MODULE ExactnessProofs ---------------------------
(***************************************************************************)
(* What was used in a file is counted in full once its lines were read and *)
(* the events applied: restarts of the counter, replaced files, repeated   *)
(* totals, baselines and forks lose nothing, for any number of files and   *)
(* whatever order the agent and the server take their steps in.  Besides a *)
(* backfill after lines were read, two troubles are excluded that lose     *)
(* tokens: a restart the agent has nothing to compare with, and that of a  *)
(* fork without a turn to tell the counts apart.                           *)
(*                                                                         *)
(* OvercountProofs bounds the charge from above; this is the other half.   *)
(* The events of a file on their way form a chain that ends at the place   *)
(* its reader has reached: each leads to the next, the counter having      *)
(* grown by exactly what was used between them or started again from       *)
(* there.  Whatever the first of them may be compared with charges enough, *)
(* and charging one in full makes the next one charge enough.  A dedup key *)
(* found in the ledger is that of an event which was charged: then nothing *)
(* was used since.                                                         *)
(***************************************************************************)
EXTENDS OvercountProofs

-----------------------------------------------------------------------------
(* The chain of a file's events.                                           *)

(* Compared with m, e charges the account with all that was used up to it. *)
Charged(a, m, e) ==
  /\ m.epoch <= e.epoch
  /\ e.at - a.b <= a.n + e.total - IF m.epoch = e.epoch THEN m.total ELSE 0

(* So it does as the first event of a file the server knows nothing of.    *)
ChargedFirst(a, e) ==
  e.at - a.b <= a.n + e.total - IF e.total < a.t THEN 0 ELSE a.t

Baselines(q, s) == {i \in 1..Len(q) : q[i].type = "baseline" /\ q[i].src = s}

Fresh(a, s, q) == a.w = NoCounter /\ Baselines(q, s) = {}

(* The watermark is that of the source, or will be one of the baselines.   *)
Covered(a, s, q, e) ==
  /\ a.w # NoCounter => Charged(a, a.w, e)
  /\ \A i \in Baselines(q, s) : Charged(a, q[i], e)

(* From e to f the counter has grown by what was used, or started again.   *)
Leads(e, f) ==
  /\ e.at <= f.at
  /\ \/ e.epoch = f.epoch /\ f.total - e.total = f.at - e.at
     \/ e.epoch < f.epoch /\ f.at - e.at <= f.total

Heir(s) == Parent[s] \in Source \ {s}

FirstOf(S, j) == j \in S /\ \A i \in S : j <= i
LastOf(S, j) == j \in S /\ \A i \in S : i <= j
Adjacent(S, j, k) == j \in S /\ k \in S /\ j < k /\ \A i \in S : i <= j \/ k <= i

HeadOK(s) ==
  \A j \in 1..Len(queue) : FirstOf(Pending(queue, s), j) =>
    /\ Covered(Account(s), s, queue, queue[j])
    /\ Fresh(Account(s), s, queue) =>
         /\ ChargedFirst(Account(s), queue[j])
         /\ Heir(s) => \A i \in 1..j : queue[i].src # Parent[s]

LinksOK(s) ==
  /\ \A j, k \in 1..Len(queue) :
       Adjacent(Pending(queue, s), j, k) => Leads(queue[j], queue[k])
  /\ \A j \in 1..Len(queue) : LastOf(Pending(queue, s), j) =>
       Leads(queue[j], Anchor(s)) /\ Anchor(s).at = queue[j].at

(* Nothing is on its way: what was read is charged.  A file the server     *)
(* knows nothing of is still to be read from its first line.               *)
IdleOK(s) ==
  Pending(queue, s) = {} =>
    /\ Anchor(s).at - base[s] <= counted[s]
    /\ Covered(Account(s), s, queue, Anchor(s))
    /\ Fresh(Account(s), s, queue) =>
         /\ Begin(s).offset = 0 /\ erased[s] = 0
         /\ log[s] # <<>> =>
              /\ ChargedFirst(Account(s), log[s][1])
              /\ Heir(s) => /\ ParentRead(Parent[s])
                            /\ \A i \in 1..Len(queue) : queue[i].src # Parent[s]

-----------------------------------------------------------------------------
(* What comes first, turns and keys.                                       *)

FirstsOK(s) ==
  /\ \A i \in Baselines(queue, s) : \A j \in Pending(queue, s) : i < j
  /\ Baselines(queue, s) # {} /\ source[s] # NoCounter => source[s].epoch = 0
  /\ keys = {} /\ source[s] # NoCounter => source[s].epoch = 0

(* The counter does not start again where the reader could not see it.     *)
StartOK(s) ==
  /\ ~Begin(s).init =>
       /\ Begin(s).first = Begin(s).offset + 1
       /\ Begin(s).first \in 2..Len(log[s]) => ~Falls(log[s], Begin(s).first)
  /\ firstPass /\ row[s] = NoRow /\ Naming = "in usage lines" =>
       \A k \in 2..Len(log[s]) : ~Falls(log[s], k)
  /\ Begin(s).turn # 0 => keys # {} \/ Pending(queue, s) # {}

(* The turns named in a file with n turns, whose reader has read o lines   *)
(* and remembers turn t: they grow, and a restart names one.               *)
TurnsOK(l, o, t, n) ==
  /\ t <= n
  /\ \A k \in 1..Len(l) :
       /\ l[k].turn <= n
       /\ k > o /\ l[k].turn # 0 => t < l[k].turn
       /\ k > o /\ l[k].turn = 0 /\ (k = 1 \/ Falls(l, k)) => t = 0
  /\ \A j, k \in 1..Len(l) : j < k =>
       /\ l[k].turn # 0 => l[j].turn < l[k].turn
       /\ l[k].turn = 0 /\ Falls(l, k) => l[j].turn = 0

ForkOK(s) ==
  Parent[s] # NoParent =>
    /\ \A k \in 2..Len(log[s]) : Falls(log[s], k) => log[s][k].turn # 0
    /\ erased[s] > 0 /\ log[s] # <<>> => log[s][1].turn # 0
    /\ Begin(s).turn = 0 => \/ Begin(s).gen = 0
                            \/ Begin(s).offset = 0 /\ erased[s] > 0
    /\ \A j \in Pending(queue, s) : queue[j].turn = 0 => queue[j].epoch = 0

(* Turn t in epoch g, then turn u in epoch h: a turn is of one epoch.      *)
Steady(t, g, u, h) == t <= u /\ (t = u /\ t # 0 => g = h)

EpochsOK(s) ==
  \A j \in Pending(queue, s) :
    /\ queue[j].turn <= Begin(s).turn
    /\ Begin(s).offset > 0 =>
         Steady(queue[j].turn, queue[j].epoch, Begin(s).turn, Begin(s).gen)
    /\ \A k \in Pending(queue, s) : j < k =>
         Steady(queue[j].turn, queue[j].epoch, queue[k].turn, queue[k].epoch)

ResponseKeys(K, s) == {k \in K : k[1] = "response" /\ k[2] = s}
CounterKeys(K, s)  == {k \in K : k[1] = "counter" /\ k[2][1] = s}

(* Key k of a turn: whatever has that turn is of the watermark's epoch.    *)
ResponseOK(s, k) ==
  /\ source[s] # NoCounter
  /\ k[3] \in Nat \ {0} /\ k[4] \in Nat
  /\ k[3] <= Begin(s).turn
  /\ k[3] = Begin(s).turn /\ Begin(s).offset > 0 =>
       Begin(s).gen = source[s].epoch /\ k[4] <= source[s].total
  /\ \A j \in Pending(queue, s) :
       /\ k[3] <= queue[j].turn
       /\ k[3] = queue[j].turn =>
            queue[j].epoch = source[s].epoch /\ k[4] <= source[s].total

(* Key k of an epoch: below the watermark, or of a fork's second count.    *)
CounterOK(s, k) ==
  /\ source[s] # NoCounter
  /\ k[3] \in Nat /\ k[4] \in Nat
  /\ \/ k[4] < source[s].epoch
     \/ k[4] = source[s].epoch /\ k[3] <= source[s].total
     \/ Parent[s] # NoParent /\ k[4] >= 1

KeysOK(s) ==
  /\ \A k \in ResponseKeys(keys, s) : ResponseOK(s, k)
  /\ \A k \in CounterKeys(keys, s) : CounterOK(s, k)

-----------------------------------------------------------------------------
(* The inductive invariant.                                                *)

TurnsInOrder(s) == TurnsOK(log[s], Begin(s).offset, Begin(s).turn, turn[s])

ChainOK(s) == HeadOK(s) /\ LinksOK(s) /\ IdleOK(s)

NamesOK(s) ==
  FirstsOK(s) /\ StartOK(s) /\ TurnsInOrder(s) /\ ForkOK(s) /\ EpochsOK(s) /\ KeysOK(s)

EInv == IInv /\ \A s \in Source : ChainOK(s) /\ NamesOK(s)

-----------------------------------------------------------------------------
(* Lemmas about the chain.                                                 *)

(* What e leads to charges enough, when e was charged in full.             *)
LEMMA ChargedOn ==
  ASSUME NEW a, a.n \in Nat, a.b \in Nat, NEW m, m.epoch \in Nat, m.total \in Nat,
         NEW e, NEW f, IsMark(e), IsMark(f),
         Charged(a, m, e), e.at - a.b <= a.n, Leads(e, f)
  PROVE  Charged(a, m, f)
BY DEF Charged, Leads, IsMark

(* What x leads to, e leads to as well, if nothing was used between them.  *)
LEMMA LeadsOn ==
  ASSUME NEW e, NEW x, NEW f, IsMark(e), IsMark(x), IsMark(f),
         Leads(e, x), Leads(x, f), x.at = e.at
  PROVE  Leads(e, f)
BY DEF Leads, IsMark

(* The same for all that a file may be compared with.                      *)
LEMMA CoveredOn ==
  ASSUME NEW a, IsAccount(a), NEW s, NEW q \in Seq(Event),
         NEW e, NEW f, IsMark(e), IsMark(f),
         Covered(a, s, q, e), e.at - a.b <= a.n, Leads(e, f)
  PROVE  Covered(a, s, q, f)
<1>1. a.n \in Nat /\ a.b \in Nat /\ a.w \in Counter \cup {NoCounter}
  BY DEF IsAccount
<1>2. a.w # NoCounter => Charged(a, a.w, f)
  <2> SUFFICES ASSUME a.w # NoCounter PROVE Charged(a, a.w, f)
    OBVIOUS
  <2>1. a.w.epoch \in Nat /\ a.w.total \in Nat
    BY <1>1 DEF Counter
  <2>2. Charged(a, a.w, e)
    BY DEF Covered
  <2> QED BY <1>1, <2>1, <2>2, ChargedOn
<1>3. ASSUME NEW i \in Baselines(q, s) PROVE Charged(a, q[i], f)
  <2>1. q[i] \in Event
    BY ElementOfSeq DEF Baselines
  <2>2. q[i].epoch \in Nat /\ q[i].total \in Nat
    BY <2>1 DEF Event
  <2>3. Charged(a, q[i], e)
    BY DEF Covered
  <2> QED BY <1>1, <2>2, <2>3, ChargedOn
<1> QED BY <1>2, <1>3 DEF Covered

(* Only the numbers of an event count.                                     *)
LEMMA SameMark ==
  ASSUME NEW e, NEW f, f.epoch = e.epoch, f.total = e.total, f.at = e.at
  PROVE  /\ \A a, m : Charged(a, m, e) <=> Charged(a, m, f)
         /\ \A a : ChargedFirst(a, e) <=> ChargedFirst(a, f)
         /\ \A h : Leads(h, e) <=> Leads(h, f)
         /\ \A h : Leads(e, h) <=> Leads(f, h)
         /\ \A a, s, q : Covered(a, s, q, e) <=> Covered(a, s, q, f)
BY DEF Charged, ChargedFirst, Leads, Covered

-----------------------------------------------------------------------------
(* Files a step leaves alone.                                              *)

(* The files and the place of the reader are those before.                 *)
Unmoved(u) == Alike(u) /\ turn'[u] = turn[u] /\ Begin(u)' = Begin(u)

(* A file keeps its chain when others write, are read or join the queue,   *)
(* if the parent it is to be compared with stays read and quiet.           *)
LEMMA Undisturbed ==
  ASSUME TypeOK, TypeOK', NEW u \in Source, ChainOK(u), NamesOK(u), Unmoved(u),
         UNCHANGED <<conv, keys>>,
         Len(queue) <= Len(queue'), \A i \in 1..Len(queue) : queue'[i] = queue[i],
         \A i \in Len(queue) + 1..Len(queue') : queue'[i].src # u,
         firstPass' /\ row'[u] = NoRow => firstPass /\ row[u] = NoRow,
         (/\ log[u] # <<>> /\ source[u] = NoCounter
          /\ Heir(u) /\ ParentRead(Parent[u])) =>
           /\ ParentRead(Parent[u])'
           /\ \A i \in Len(queue) + 1..Len(queue') : queue'[i].src # Parent[u]
  PROVE  ChainOK(u)' /\ NamesOK(u)'
<1> DEFINE q == queue
           Q == queue'
           a == Account(u)
           x == Anchor(u)
<1>1. q \in Seq(Event) /\ Q \in Seq(Event) /\ Len(q) \in Nat /\ Len(Q) \in Nat
  BY LenProperties DEF TypeOK
<1>2. Begin(u)' = Begin(u) /\ Anchor(u)' = x /\ Account(u)' = a
  BY DEF Anchor, Account, Unmoved, Alike
<1>3. Pending(Q, u) = Pending(q, u) /\ Baselines(Q, u) = Baselines(q, u)
  <2>1. ASSUME NEW i \in 1..Len(Q), Q[i].src = u PROVE i \in 1..Len(q)
    BY <1>1, <2>1
  <2> QED BY <1>1, <2>1 DEF Pending, Baselines
<1>4. /\ Pending(q, u) \subseteq 1..Len(q) /\ Baselines(q, u) \subseteq 1..Len(q)
      /\ \A i \in Pending(q, u) \cup Baselines(q, u) : i \in 1..Len(q) /\ Q[i] = q[i]
  BY DEF Pending, Baselines
<1>5. /\ \A e : Covered(a, u, q, e) => Covered(a, u, Q, e)
      /\ Fresh(a, u, Q) <=> Fresh(a, u, q)
  BY <1>3, <1>4 DEF Covered, Fresh
<1>6. HeadOK(u)'
  <2> SUFFICES ASSUME NEW j \in 1..Len(Q), FirstOf(Pending(Q, u), j)
               PROVE  /\ Covered(a, u, Q, Q[j])
                      /\ Fresh(a, u, Q) =>
                           /\ ChargedFirst(a, Q[j])
                           /\ Heir(u) => \A i \in 1..j : Q[i].src # Parent[u]
    BY <1>2 DEF HeadOK, Heir
  <2>1. FirstOf(Pending(q, u), j) /\ j \in 1..Len(q) /\ Q[j] = q[j]
    BY <1>3, <1>4 DEF FirstOf
  <2>2. \A i \in 1..j : Q[i] = q[i]
    BY <1>1, <2>1
  <2> QED BY <1>5, <2>1, <2>2 DEF ChainOK, HeadOK
<1>7. LinksOK(u)'
  <2>1. ASSUME NEW j \in 1..Len(Q), NEW k \in 1..Len(Q), Adjacent(Pending(Q, u), j, k)
        PROVE  Leads(Q[j], Q[k])
    BY <1>3, <1>4, <2>1 DEF Adjacent, ChainOK, LinksOK
  <2>2. ASSUME NEW j \in 1..Len(Q), LastOf(Pending(Q, u), j)
        PROVE  Leads(Q[j], x) /\ x.at = Q[j].at
    BY <1>3, <1>4, <2>2 DEF LastOf, ChainOK, LinksOK
  <2> QED BY <1>2, <2>1, <2>2 DEF LinksOK
<1>8. IdleOK(u)'
  <2> SUFFICES ASSUME Pending(Q, u) = {}
               PROVE  /\ x.at - base[u] <= counted[u]
                      /\ Covered(a, u, Q, x)
                      /\ Fresh(a, u, Q) =>
                           /\ Begin(u).offset = 0 /\ erased[u] = 0
                           /\ log[u] # <<>> =>
                                /\ ChargedFirst(a, log[u][1])
                                /\ Heir(u) => /\ ParentRead(Parent[u])'
                                              /\ \A i \in 1..Len(Q) : Q[i].src # Parent[u]
    BY <1>2 DEF IdleOK, Unmoved, Alike, Heir
  <2>1. Pending(q, u) = {}
    BY <1>3
  <2>2. ASSUME Fresh(a, u, q), log[u] # <<>>, Heir(u)
        PROVE  ParentRead(Parent[u])' /\ \A i \in 1..Len(Q) : Q[i].src # Parent[u]
    <3>1. source[u] = NoCounter
      BY <2>2 DEF Fresh, Account
    <3>2. ParentRead(Parent[u]) /\ \A i \in 1..Len(q) : q[i].src # Parent[u]
      BY <2>1, <2>2 DEF ChainOK, IdleOK
    <3>3. /\ ParentRead(Parent[u])'
          /\ \A i \in Len(q) + 1..Len(Q) : Q[i].src # Parent[u]
      BY <2>2, <3>1, <3>2
    <3>4. ASSUME NEW i \in 1..Len(Q) PROVE Q[i].src # Parent[u]
      <4>1. CASE i \in 1..Len(q)
        BY <3>2, <4>1
      <4>2. CASE i \in Len(q) + 1..Len(Q)
        BY <3>3, <4>2
      <4> QED BY <1>1, <4>1, <4>2
    <3> QED BY <3>3, <3>4
  <2> QED BY <1>5, <2>1, <2>2 DEF ChainOK, IdleOK
<1>9. FirstsOK(u)'
  BY <1>3 DEF NamesOK, FirstsOK, Unmoved, Alike
<1>10. StartOK(u)'
  <2>1. ~Begin(u).init => /\ Begin(u).first = Begin(u).offset + 1
                          /\ Begin(u).first \in 2..Len(log[u]) => ~Falls(log[u], Begin(u).first)
    BY DEF NamesOK, StartOK
  <2>2. firstPass' /\ row'[u] = NoRow /\ Naming = "in usage lines" =>
          \A k \in 2..Len(log[u]) : ~Falls(log[u], k)
    BY DEF NamesOK, StartOK
  <2>3. Begin(u).turn # 0 => keys' # {} \/ Pending(Q, u) # {}
    BY <1>3 DEF NamesOK, StartOK
  <2> QED BY <1>2, <2>1, <2>2, <2>3 DEF StartOK, Unmoved, Alike
<1>11. TurnsInOrder(u)'
  BY <1>2 DEF NamesOK, TurnsInOrder, Unmoved, Alike
<1>12. ForkOK(u)'
  BY <1>2, <1>3, <1>4 DEF NamesOK, ForkOK, Unmoved, Alike
<1>13. EpochsOK(u)'
  BY <1>2, <1>3, <1>4 DEF NamesOK, EpochsOK
<1>14. KeysOK(u)'
  <2>1. ASSUME NEW k \in ResponseKeys(keys, u) PROVE ResponseOK(u, k)'
    BY <1>2, <1>3, <1>4, <2>1 DEF NamesOK, KeysOK, ResponseOK, Unmoved, Alike
  <2>2. ASSUME NEW k \in CounterKeys(keys, u) PROVE CounterOK(u, k)'
    BY <2>2 DEF NamesOK, KeysOK, CounterOK, Unmoved, Alike
  <2> QED BY <2>1, <2>2 DEF KeysOK
<1> QED BY <1>6, <1>7, <1>8, <1>9, <1>10, <1>11, <1>12, <1>13, <1>14 DEF ChainOK, NamesOK

-----------------------------------------------------------------------------
(* Codex writes.                                                           *)

(* How the total of a line comes about, and from which action.             *)
Written(s, total, d) ==
  \/ log[s] # <<>> /\ total = LastTotal(s) + d
  \/ log[s] = <<>> /\ total = d /\ (erased[s] > 0 \/ Parent[s] = NoParent)
  \/ /\ Fork(s)
     /\ \/ total = LastTotal(Parent[s]) + d
        \/ total = d /\ d < LastTotal(Parent[s])
  \/ Restart(s) /\ total = d /\ d < LastTotal(s)

(* Use, Fork and Restart write such lines.                                 *)
LEMMA Writing ==
  ASSUME TypeOK, NEW s \in Source, Use(s) \/ Fork(s) \/ Restart(s)
  PROVE  \E total \in Nat, d \in Nat : WriteLine(s, total, d) /\ Written(s, total, d)
<1>1. Delta \subseteq Nat /\ Parent \in [Source -> Source \cup {NoParent}]
  BY LedgerAssumption
<1>2. LastTotal(s) \in Nat /\ (log[s] = <<>> => LastTotal(s) = 0)
  BY LastTotalType DEF LastTotal
<1>3. CASE Use(s)
  <2>1. PICK d \in Delta : WriteLine(s, LastTotal(s) + d, d)
    BY <1>3 DEF Use
  <2>2. d \in Nat /\ LastTotal(s) + d \in Nat
    BY <1>1, <1>2
  <2>3. Written(s, LastTotal(s) + d, d)
    <3>1. CASE log[s] # <<>>
      BY <3>1 DEF Written
    <3>2. CASE log[s] = <<>>
      <4>1. LastTotal(s) + d = d
        BY <1>2, <2>2, <3>2
      <4>2. erased[s] > 0 \/ Parent[s] = NoParent
        BY <1>3, <3>2 DEF Use
      <4> QED BY <3>2, <4>1, <4>2 DEF Written
    <3> QED BY <3>1, <3>2
  <2> QED BY <2>1, <2>2, <2>3
<1>4. CASE Fork(s)
  <2>1. Parent[s] \in Source
    BY <1>1, <1>4 DEF Fork
  <2>2. LastTotal(Parent[s]) \in Nat
    BY <2>1, LastTotalType
  <2>3. PICK d \in Delta :
          \/ WriteLine(s, LastTotal(Parent[s]) + d, d)
          \/ d < LastTotal(Parent[s]) /\ WriteLine(s, d, d)
    BY <1>4 DEF Fork
  <2>4. d \in Nat /\ LastTotal(Parent[s]) + d \in Nat
    BY <1>1, <2>2
  <2>5. CASE WriteLine(s, LastTotal(Parent[s]) + d, d)
    <3>1. Written(s, LastTotal(Parent[s]) + d, d)
      BY <1>4 DEF Written
    <3> QED BY <2>4, <2>5, <3>1
  <2>6. CASE d < LastTotal(Parent[s]) /\ WriteLine(s, d, d)
    <3>1. Written(s, d, d)
      BY <1>4, <2>6 DEF Written
    <3> QED BY <2>4, <2>6, <3>1
  <2> QED BY <2>3, <2>5, <2>6
<1>5. CASE Restart(s)
  <2>1. PICK d \in Delta : d < LastTotal(s) /\ WriteLine(s, d, d)
    BY <1>5 DEF Restart
  <2>2. d \in Nat
    BY <1>1
  <2>3. Written(s, d, d)
    BY <1>5, <2>1 DEF Written
  <2> QED BY <2>1, <2>2, <2>3
<1> QED BY <1>3, <1>4, <1>5

(* The reader's row is as it was: a file that was replaced stays shorter   *)
(* than what was read of it.                                               *)
LEMMA WriteBegin ==
  ASSUME TypeOK, NEW s \in Source, NEW total \in Nat, NEW d \in Nat,
         NEW line \in Line, WriteStep(s, total, d, line), StaysNoticeable(s)
  PROVE  Begin(s)' = Begin(s)
<1>1. /\ log[s] \in Seq(Line) /\ Len(log[s]) \in Nat
      /\ log'[s] = Append(log[s], line) /\ row' = row
  BY LenProperties DEF TypeOK, WriteStep
<1>2. Len(log'[s]) = Len(log[s]) + 1
  BY <1>1, AppendProperties
<1>3. row[s] # NoRow => (Len(log[s]) < row[s].offset <=> Len(log'[s]) < row[s].offset)
  <2> SUFFICES ASSUME row[s] # NoRow
               PROVE  Len(log[s]) < row[s].offset <=> Len(log'[s]) < row[s].offset
    OBVIOUS
  <2>1. row[s].offset \in Nat
    BY BeginFields DEF Row
  <2>2. Len(log[s]) < row[s].offset => Len(log[s]) + 1 < row[s].offset
    BY DEF StaysNoticeable
  <2> QED BY <1>1, <1>2, <2>1, <2>2
<1>4. CASE row[s] = NoRow
  BY <1>1, <1>4 DEF Begin
<1>5. CASE row[s] # NoRow
  BY <1>1, <1>3, <1>5 DEF Begin
<1> QED BY <1>4, <1>5

(* Turns stay in order in a file that grows: a line without a turn goes on *)
(* with the count, or comes before any turn.                               *)
LEMMA TurnsGrow ==
  ASSUME NEW l \in Seq(Line), NEW o \in Nat, NEW t \in Nat, NEW n \in Nat,
         TurnsOK(l, o, t, n), NEW line \in Line, line.turn \in {0, n + 1},
         line.turn = 0 => \/ l # <<>> /\ line.total >= l[Len(l)].total
                          \/ n = 0
  PROVE  TurnsOK(Append(l, line), o, t, IF line.turn = 0 THEN n ELSE line.turn)
<1> DEFINE L == Append(l, line)
           z == Len(l)
           N == IF line.turn = 0 THEN n ELSE line.turn
<1>1. /\ z \in Nat /\ Len(L) = z + 1 /\ L[z + 1] = line
      /\ \A i \in 1..z : L[i] = l[i]
      /\ (l = <<>> <=> z = 0)
  BY AppendProperties, LenProperties, EmptySeq
<1>2. /\ line.turn \in Nat /\ line.total \in Nat
      /\ \A i \in 1..z : l[i] \in Line
      /\ \A i \in 1..z : l[i].turn \in Nat /\ l[i].total \in Nat
  <2>1. \A i \in 1..z : l[i] \in Line
    BY ElementOfSeq
  <2> HIDE DEF z
  <2> QED BY <2>1 DEF Line
<1>3. n <= N /\ N \in Nat /\ t <= n
  BY <1>2 DEF TurnsOK
<1> HIDE DEF L, N
<1>4. \A k \in 2..z : Falls(L, k) <=> Falls(l, k)
  <2> TAKE k \in 2..z
  <2>1. L[k] = l[k] /\ L[k - 1] = l[k - 1]
    BY <1>1
  <2> QED BY <2>1 DEF Falls
<1>5. line.turn = 0 => \/ n = 0
                       \/ z + 1 # 1 /\ ~Falls(L, z + 1)
  <2> SUFFICES ASSUME line.turn = 0, n # 0
               PROVE  z + 1 # 1 /\ ~Falls(L, z + 1)
    OBVIOUS
  <2>0. l # <<>> /\ line.total >= l[z].total
    OBVIOUS
  <2>1. z # 0 /\ z \in 1..z /\ z + 1 - 1 = z
    BY <1>1, <2>0
  <2>2. L[z + 1] = line /\ L[z + 1 - 1] = l[z] /\ l[z].total \in Nat
    BY <1>1, <1>2, <2>1
  <2> QED BY <1>1, <1>2, <2>0, <2>1, <2>2 DEF Falls
<1>6. ASSUME NEW k \in 1..z + 1
      PROVE  /\ L[k].turn <= N
             /\ k > o /\ L[k].turn # 0 => t < L[k].turn
             /\ k > o /\ L[k].turn = 0 /\ (k = 1 \/ Falls(L, k)) => t = 0
  <2>1. CASE k = z + 1
    <3>1. L[k] = line
      BY <1>1, <2>1
    <3>2. line.turn <= N /\ (line.turn # 0 => t < line.turn)
      BY <1>2, <1>3 DEF N
    <3>3. line.turn = 0 /\ (k = 1 \/ Falls(L, k)) => n = 0
      BY <1>5, <2>1
    <3> QED BY <1>3, <3>1, <3>2, <3>3
  <2>2. CASE k \in 1..z
    <3>1. L[k] = l[k] /\ l[k].turn \in Nat /\ l[k].turn <= n
      BY <1>1, <1>2, <2>2 DEF TurnsOK
    <3>2. (k = 1 \/ Falls(L, k)) => (k = 1 \/ Falls(l, k))
      BY <1>1, <1>4, <2>2
    <3> QED BY <1>3, <2>2, <3>1, <3>2 DEF TurnsOK
  <2> QED BY <1>1, <2>1, <2>2
<1>7. ASSUME NEW j \in 1..z + 1, NEW k \in 1..z + 1, j < k
      PROVE  /\ L[k].turn # 0 => L[j].turn < L[k].turn
             /\ L[k].turn = 0 /\ Falls(L, k) => L[j].turn = 0
  <2>1. j \in 1..z /\ L[j] = l[j] /\ l[j].turn \in Nat /\ l[j].turn <= n
    BY <1>1, <1>2, <1>7 DEF TurnsOK
  <2>2. CASE k = z + 1
    BY <1>1, <1>2, <1>5, <2>1, <2>2, SMTT(20)
  <2>3. CASE k \in 1..z
    <3>1. L[k] = l[k] /\ (Falls(L, k) => Falls(l, k))
      BY <1>1, <1>4, <1>7, <2>1, <2>3
    <3> QED BY <1>7, <2>1, <2>3, <3>1 DEF TurnsOK
  <2> QED BY <1>1, <2>2, <2>3
<1> QED BY <1>1, <1>3, <1>6, <1>7 DEF TurnsOK, L, N

(* Lines as they are before and after one is written.                      *)
LEMMA WriteLines ==
  ASSUME TypeOK, NEW s \in Source, NEW total \in Nat, NEW d \in Nat,
         NEW line \in Line, WriteStep(s, total, d, line)
  PROVE  /\ log[s] \in Seq(Line) /\ Len(log[s]) \in Nat
         /\ log'[s] = Append(log[s], line) /\ log'[s] # <<>>
         /\ Len(log'[s]) = Len(log[s]) + 1
         /\ \A i \in 1..Len(log[s]) : log'[s][i] = log[s][i]
         /\ log'[s][Len(log[s]) + 1] = line
         /\ (log[s] = <<>> <=> Len(log[s]) = 0)
         /\ \A k \in 2..Len(log[s]) : Falls(log'[s], k) <=> Falls(log[s], k)
         /\ Len(log[s]) > 0 =>
              (Falls(log'[s], Len(log[s]) + 1) <=> total < LastTotal(s))
         /\ line.total = total /\ line.at = spent[s] + d
<1> DEFINE l == log[s]
           z == Len(l)
           L == Append(l, line)
<1>1. l \in Seq(Line) /\ log'[s] = L /\ line.total = total /\ line.at = spent[s] + d
  BY DEF TypeOK, WriteStep
<1>2. /\ z \in Nat /\ Len(L) = z + 1 /\ L # <<>> /\ L[z + 1] = line
      /\ \A i \in 1..z : L[i] = l[i]
      /\ (l = <<>> <=> z = 0)
  BY <1>1, AppendProperties, LenProperties, EmptySeq, SMTT(20)
<1> HIDE DEF L
<1>3. \A k \in 2..z : Falls(L, k) <=> Falls(l, k)
  <2> TAKE k \in 2..z
  <2>1. L[k] = l[k] /\ L[k - 1] = l[k - 1]
    BY <1>2
  <2> QED BY <2>1 DEF Falls
<1>4. z > 0 => (Falls(L, z + 1) <=> total < LastTotal(s))
  <2> SUFFICES ASSUME z > 0 PROVE Falls(L, z + 1) <=> total < LastTotal(s)
    OBVIOUS
  <2>1. z + 1 - 1 = z /\ z \in 1..z /\ l # <<>>
    BY <1>2
  <2>2. L[z + 1].total = total /\ L[z + 1 - 1] = l[z]
    BY <1>1, <1>2, <2>1
  <2>3. LastTotal(s) = l[z].total
    BY <2>1 DEF LastTotal
  <2> QED BY <2>2, <2>3 DEF Falls
<1>5. /\ \A k \in 2..z : Falls(log'[s], k) <=> Falls(l, k)
      /\ z > 0 => (Falls(log'[s], z + 1) <=> total < LastTotal(s))
  BY <1>1, <1>3, <1>4
<1>6. log'[s] = Append(l, line)
  BY <1>1 DEF L
<1>7. /\ z \in Nat /\ Len(log'[s]) = z + 1 /\ log'[s] # <<>> /\ log'[s][z + 1] = line
      /\ \A i \in 1..z : log'[s][i] = l[i]
  BY <1>1, <1>2
<1> QED BY <1>1, <1>2, <1>5, <1>6, <1>7

(* The place of the reader is where it was, unless this is the first line  *)
(* of a file.                                                              *)
LEMMA WriteAnchor ==
  ASSUME IInv, NEW s \in Source, NEW total \in Nat, NEW d \in Nat,
         NEW line \in Line, WriteStep(s, total, d, line), Written(s, total, d),
         StaysNoticeable(s), log[s] # <<>> \/ erased[s] # 0
  PROVE  Anchor(s)' = Anchor(s)
<1> DEFINE l == log[s]
           L == log'[s]
           g == gone[s]
           b == Begin(s)
<1>1. /\ TypeOK /\ FileOK(s) /\ LinesOK(l, g, spent[s]) /\ RowOK(s)
      /\ b.offset <= Len(l)
  BY DEF IInv, FileOK, RowOK
<1>2. /\ b \in Row /\ b.offset \in Nat /\ g \in Nat /\ spent[s] \in Nat
  BY <1>1, BeginFields DEF Row, TypeOK
<1>3. /\ Len(l) \in Nat /\ L # <<>> /\ \A i \in 1..Len(l) : L[i] = l[i]
      /\ L[Len(l) + 1] = line /\ (l = <<>> <=> Len(l) = 0)
      /\ line.total = total /\ line.at = spent[s] + d
  BY <1>1, WriteLines
<1>4. Begin(s)' = b /\ gone' = gone
  BY <1>1, WriteBegin DEF WriteStep
<1>5. Origin(L, g) = Origin(l, g)
  <2>1. CASE l # <<>>
    <3>1. L[1] = l[1]
      BY <1>3, <2>1
    <3> QED BY <1>3, <2>1, <3>1 DEF Origin
  <2>2. CASE l = <<>>
    <3>1. total = d
      <4>1. LastTotal(s) = 0 /\ ~(d < 0)
        BY <2>2 DEF LastTotal
      <4>2. ~Fork(s)
        BY <2>2 DEF Fork
      <4> QED BY <2>2, <4>1, <4>2 DEF Written
    <3>2. spent[s] = g
      BY <1>1, <2>2 DEF LinesOK
    <3>3. L[1] = line
      BY <1>3, <2>2
    <3>4. Origin(L, g) = total - ((g + d) - g)
      BY <1>3, <3>2, <3>3 DEF Origin
    <3>5. Origin(l, g) = 0
      BY <2>2 DEF Origin
    <3> QED BY <1>2, <3>1, <3>4, <3>5
  <2> QED BY <2>1, <2>2
<1>6. Place(L, g, b) = Place(l, g, b)
  <2>1. CASE b.offset = 0
    BY <1>5, <2>1 DEF Place
  <2>2. CASE b.offset # 0
    <3>1. L[b.offset] = l[b.offset]
      BY <1>1, <1>2, <1>3, <2>2
    <3> QED BY <2>2, <3>1 DEF Place
  <2> QED BY <2>1, <2>2
<1> QED BY <1>4, <1>6 DEF Anchor

(* The file that grows keeps its chain: its first line is to be compared   *)
(* with nothing, or with the parent's total, which it was written with.    *)
LEMMA WriteChain ==
  ASSUME IInv, NEW s \in Source, ChainOK(s), NEW total \in Nat, NEW d \in Nat,
         NEW line \in Line, WriteStep(s, total, d, line), Written(s, total, d),
         StaysNoticeable(s)
  PROVE  ChainOK(s)'
<1> DEFINE l == log[s]
           L == log'[s]
           b == Begin(s)
           a == Account(s)
<1>1. /\ TypeOK /\ FileOK(s) /\ LinesOK(l, gone[s], spent[s]) /\ RowOK(s)
      /\ b.offset <= Len(l) /\ Untouched(s)
  BY DEF IInv, FileOK, RowOK
<1>2. /\ b \in Row /\ b.offset \in Nat /\ gone[s] \in Nat /\ spent[s] \in Nat
      /\ IsAccount(a) /\ counted[s] \in Nat /\ base[s] \in Nat /\ erased[s] \in Nat
  BY <1>1, BeginFields, Numbers DEF Row, TypeOK
<1>3. /\ Len(l) \in Nat /\ L # <<>> /\ \A i \in 1..Len(l) : L[i] = l[i]
      /\ L[Len(l) + 1] = line /\ (l = <<>> <=> Len(l) = 0)
      /\ line.total = total /\ line.at = spent[s] + d
  BY <1>1, WriteLines
<1>4. /\ Begin(s)' = b /\ Account(s)' = a
      /\ UNCHANGED <<erased, gone, row, queue, source, conv, counted, base>>
  BY <1>1, WriteBegin DEF WriteStep, Account
<1>5. Heir(s) => log'[Parent[s]] = log[Parent[s]]
  BY <1>1 DEF WriteStep, TypeOK, Heir
<1>6. CASE l # <<>> \/ erased[s] # 0
  <2>1. Anchor(s)' = Anchor(s)
    BY <1>6, WriteAnchor
  <2>2. HeadOK(s)' /\ LinksOK(s)'
    BY <1>4, <2>1 DEF ChainOK, HeadOK, LinksOK, Heir
  <2>3. IdleOK(s)'
    <3> SUFFICES ASSUME Pending(queue, s) = {}
                 PROVE  /\ Anchor(s).at - base[s] <= counted[s]
                        /\ Covered(a, s, queue, Anchor(s))
                        /\ Fresh(a, s, queue) =>
                             /\ b.offset = 0 /\ erased[s] = 0
                             /\ ChargedFirst(a, L[1])
                             /\ Heir(s) => /\ ParentRead(Parent[s])'
                                           /\ \A i \in 1..Len(queue) : queue[i].src # Parent[s]
      BY <1>4, <2>1 DEF IdleOK, Heir
    <3>1. /\ Anchor(s).at - base[s] <= counted[s]
          /\ Covered(a, s, queue, Anchor(s))
      BY DEF ChainOK, IdleOK
    <3>2. ASSUME Fresh(a, s, queue)
          PROVE  /\ b.offset = 0 /\ erased[s] = 0
                 /\ ChargedFirst(a, L[1])
                 /\ Heir(s) => /\ ParentRead(Parent[s])'
                               /\ \A i \in 1..Len(queue) : queue[i].src # Parent[s]
      <4>1. b.offset = 0 /\ erased[s] = 0
        BY <3>2 DEF ChainOK, IdleOK
      <4>2. l # <<>> /\ L[1] = l[1]
        BY <1>3, <1>6, <4>1
      <4>3. /\ ChargedFirst(a, l[1])
            /\ Heir(s) => /\ ParentRead(Parent[s])
                          /\ \A i \in 1..Len(queue) : queue[i].src # Parent[s]
        BY <3>2, <4>2 DEF ChainOK, IdleOK
      <4>4. Heir(s) => ParentRead(Parent[s])'
        BY <1>4, <1>5, <4>3 DEF ParentRead
      <4> QED BY <4>1, <4>2, <4>3, <4>4
    <3> QED BY <3>1, <3>2
  <2> QED BY <2>2, <2>3 DEF ChainOK
<1>7. CASE l = <<>> /\ erased[s] = 0
  <2>1. /\ gone[s] = 0 /\ base[s] = 0 /\ counted[s] = 0 /\ source[s] = NoCounter
        /\ \A j \in 1..Len(queue) : queue[j].src # s
    BY <1>1, <1>7 DEF Untouched
  <2>2. Pending(queue, s) = {} /\ Baselines(queue, s) = {} /\ a.w = NoCounter
    BY <2>1 DEF Pending, Baselines, Account
  <2>3. HeadOK(s)' /\ LinksOK(s)'
    BY <1>4, <2>2 DEF HeadOK, LinksOK, FirstOf, LastOf, Adjacent
  <2>4. b.offset = 0 /\ spent[s] = 0 /\ L[1] = line
    BY <1>1, <1>2, <1>3, <1>7, <2>1 DEF LinesOK
  <2>5. Anchor(s)'.at = 0
    BY <1>4, <2>1, <2>4 DEF Anchor, Place
  <2>6. Covered(a, s, queue, Anchor(s)')
    BY <2>2 DEF Covered
  <2>7. ChargedFirst(a, line)
    <3>1. a.n = 0 /\ a.b = 0 /\ line.at = d /\ line.total = total /\ a.t \in Nat
      BY <1>2, <1>3, <2>1, <2>4 DEF Account, IsAccount
    <3>2. CASE total = d /\ Parent[s] = NoParent
      <4>1. a.t = 0
        BY <3>2, LedgerAssumption DEF Account
      <4> QED BY <3>1, <3>2, <4>1 DEF ChargedFirst
    <3>3. CASE /\ Fork(s)
               /\ \/ total = LastTotal(Parent[s]) + d
                  \/ total = d /\ d < LastTotal(Parent[s])
      <4>1. Parent[s] \in Source /\ conv[Main(Parent[s])].total = LastTotal(Parent[s])
        BY <3>3, LedgerAssumption DEF Fork, ParentInStep
      <4>2. a.t = LastTotal(Parent[s])
        BY <4>1 DEF Account
      <4> QED BY <3>1, <3>3, <4>2 DEF ChargedFirst
    <3>4. ~(d < LastTotal(s))
      BY <1>7 DEF LastTotal
    <3> QED BY <1>7, <3>2, <3>3, <3>4 DEF Written
  <2>8. Heir(s) => /\ ParentRead(Parent[s])'
                   /\ \A i \in 1..Len(queue) : queue[i].src # Parent[s]
    <3> SUFFICES ASSUME Heir(s)
                 PROVE  /\ ParentRead(Parent[s])'
                        /\ \A i \in 1..Len(queue) : queue[i].src # Parent[s]
      OBVIOUS
    <3>1. Fork(s)
      <4>1. Parent[s] # NoParent
        BY LedgerAssumption DEF Heir
      <4>2. ~(d < LastTotal(s))
        BY <1>7 DEF LastTotal
      <4> QED BY <1>7, <4>1, <4>2 DEF Written
    <3>2. queue = <<>> /\ ParentRead(Parent[s])
      BY <3>1 DEF Fork, ParentInStep, ParentRead
    <3>3. ParentRead(Parent[s])'
      BY <1>4, <1>5, <3>2 DEF ParentRead
    <3> QED BY <3>2, <3>3, EmptySeq
  <2>9. IdleOK(s)'
    BY <1>2, <1>4, <1>7, <2>1, <2>4, <2>5, <2>6, <2>7, <2>8 DEF IdleOK, Heir
  <2> QED BY <2>3, <2>9 DEF ChainOK
<1> QED BY <1>6, <1>7

(* A count starts again only where a reader has a line to compare with,    *)
(* or none has read the file and no baseline will tell its conversations   *)
(* apart.                                                                  *)
LEMMA RestartSeen ==
  ASSUME Allowed \subseteq {"rewrite"}, NEW s \in Source,
         NEW total \in Nat, NEW d \in Nat, Written(s, total, d),
         LastTotal(s) \in Nat, total < LastTotal(s)
  PROVE  \/ row[s] = NoRow /\ (~firstPass \/ Naming # "in usage lines")
         \/ row[s] # NoRow /\ Len(log[s]) >= Begin(s).first
<1>1. log[s] # <<>>
  BY DEF LastTotal
<1>2. ~Fork(s)
  BY <1>1 DEF Fork
<1>3. ~(total = LastTotal(s) + d)
  OBVIOUS
<1>4. Restart(s)
  BY <1>1, <1>2, <1>3 DEF Written
<1>5. "early restart" \notin Allowed
  BY Zenon
<1> QED BY <1>4, <1>5, Zenon DEF Restart

(* The file that grows keeps its turns, and nothing in it starts again     *)
(* unseen.                                                                 *)
LEMMA WriteNames ==
  ASSUME Allowed \subseteq {"rewrite"}, IInv, NEW s \in Source, NamesOK(s),
         NEW total \in Nat, NEW d \in Nat, NEW line \in Line,
         WriteStep(s, total, d, line), Written(s, total, d), StaysNoticeable(s)
  PROVE  NamesOK(s)'
<1> DEFINE l == log[s]
           L == log'[s]
           z == Len(l)
           b == Begin(s)
<1>1. /\ TypeOK /\ LastTotal(s) \in Nat /\ turn[s] \in Nat /\ erased[s] \in Nat
  BY LastTotalType DEF IInv, TypeOK
<1>2. /\ z \in Nat /\ L # <<>> /\ Len(L) = z + 1
      /\ \A i \in 1..z : L[i] = l[i]
      /\ L[z + 1] = line /\ (l = <<>> <=> z = 0)
      /\ line.total = total
  BY <1>1, WriteLines
<1>11. l \in Seq(Line) /\ L = Append(l, line)
  BY <1>1, WriteLines
<1>3. /\ \A k \in 2..z : Falls(L, k) <=> Falls(l, k)
      /\ z > 0 => (Falls(L, z + 1) <=> total < LastTotal(s))
  BY <1>1, WriteLines
<1>4. /\ b \in Row /\ b.offset \in Nat /\ b.turn \in Nat /\ b.first \in Nat
      /\ Begin(s)' = b
      /\ UNCHANGED <<erased, row, firstPass, queue, source, conv, keys>>
  BY <1>1, BeginFields, WriteBegin DEF Row, WriteStep
<1>5. /\ turn'[s] = IF line.turn = 0 THEN turn[s] ELSE line.turn
      /\ line.turn \in {0, turn[s] + 1} /\ (line.turn = 0 => TurnOptional(s, total))
  BY <1>1 DEF WriteStep, TypeOK
<1> HIDE DEF l, L, b, z
<1>6. FirstsOK(s)' /\ EpochsOK(s)'
  BY <1>4 DEF NamesOK, FirstsOK, EpochsOK, b
<1>7. StartOK(s)'
  <2>1. ASSUME z > 0, Falls(L, z + 1)
        PROVE  \/ row[s] = NoRow /\ (~firstPass \/ Naming # "in usage lines")
               \/ row[s] # NoRow /\ z >= b.first
    BY <1>1, <1>3, <2>1, RestartSeen DEF b, l, z
  <2>2. ~b.init =>
          /\ b.first = b.offset + 1
          /\ b.first \in 2..Len(L) => ~Falls(L, b.first)
    <3> SUFFICES ASSUME ~b.init
                 PROVE  /\ b.first = b.offset + 1
                        /\ b.first \in 2..Len(L) => ~Falls(L, b.first)
      OBVIOUS
    <3>1. b.first = b.offset + 1 /\ (b.first \in 2..z => ~Falls(l, b.first))
      BY DEF NamesOK, StartOK, b, l, z
    <3>2. CASE b.first \in 2..z
      BY <1>3, <3>1, <3>2
    <3>3. CASE b.first = z + 1 /\ b.first >= 2
      <4>1. row[s] # NoRow
        <5>1. row[s] = NoRow => b.first = 1
          BY <1>1, BeginFields DEF b
        <5> QED BY <3>3, <5>1
      <4>2. ~(z >= b.first) /\ z > 0
        BY <1>2, <3>3
      <4> QED BY <2>1, <3>1, <3>3, <4>1, <4>2
    <3> QED BY <1>2, <3>1, <3>2, <3>3
  <2>5. \A k \in 2..Len(L) : k \in 2..z \/ (k = z + 1 /\ z > 0)
    BY <1>2
  <2>3. firstPass /\ row[s] = NoRow /\ Naming = "in usage lines" =>
          \A k \in 2..Len(L) : ~Falls(L, k)
    <3> SUFFICES ASSUME firstPass, row[s] = NoRow, Naming = "in usage lines",
                        NEW k \in 2..Len(L)
                 PROVE  ~Falls(L, k)
      OBVIOUS
    <3>1. CASE k \in 2..z
      BY <1>3, <3>1 DEF NamesOK, StartOK, l, z
    <3>2. CASE k = z + 1 /\ z > 0
      BY <2>1, <3>2
    <3> QED BY <2>5, <3>1, <3>2
  <2>4. b.turn # 0 => keys # {} \/ Pending(queue, s) # {}
    BY DEF NamesOK, StartOK, b
  <2> QED BY <1>4, <2>2, <2>3, <2>4 DEF StartOK, L
<1>8. TurnsInOrder(s)'
  <2>1. TurnsOK(l, b.offset, b.turn, turn[s])
    BY DEF NamesOK, TurnsInOrder, l, b
  <2>2. line.turn = 0 => \/ l # <<>> /\ line.total >= l[Len(l)].total
                         \/ turn[s] = 0
    BY <1>2, <1>5 DEF TurnOptional, LastTotal, l
  <2>3. TurnsOK(Append(l, line), b.offset, b.turn,
                IF line.turn = 0 THEN turn[s] ELSE line.turn)
    BY <1>1, <1>4, <1>5, <1>11, <2>1, <2>2, TurnsGrow
  <2>4. TurnsOK(L, b.offset, b.turn, turn'[s])
    BY <1>5, <1>11, <2>3
  <2> QED BY <1>4, <2>4 DEF TurnsInOrder, L
<1>9. ForkOK(s)'
  <2> SUFFICES ASSUME Parent[s] # NoParent
               PROVE  /\ \A k \in 2..Len(L) : Falls(L, k) => L[k].turn # 0
                      /\ erased[s] > 0 => L[1].turn # 0
                      /\ b.turn = 0 => \/ b.gen = 0
                                       \/ b.offset = 0 /\ erased[s] > 0
                      /\ \A j \in Pending(queue, s) : queue[j].turn = 0 => queue[j].epoch = 0
    BY <1>4 DEF ForkOK, L
  <2>1. line.turn = 0 => \/ l # <<>> /\ total >= LastTotal(s)
                         \/ l = <<>> /\ erased[s] = 0
    <3>1. "fork restart" \notin Allowed
      BY Zenon
    <3> QED BY <1>5, <3>1, Zenon DEF TurnOptional, l
  <2>2. ASSUME NEW k \in 2..Len(L), Falls(L, k) PROVE L[k].turn # 0
    <3>1. CASE k \in 2..z
      <4>1. L[k] = l[k] /\ Falls(l, k)
        BY <1>2, <1>3, <2>2, <3>1
      <4> QED BY <3>1, <4>1 DEF NamesOK, ForkOK, l, z
    <3>2. CASE k = z + 1 /\ z > 0
      BY <1>1, <1>2, <1>3, <2>1, <2>2, <3>2
    <3> QED BY <1>2, <3>1, <3>2
  <2>3. erased[s] > 0 => L[1].turn # 0
    <3>1. CASE l # <<>>
      <4>1. L[1] = l[1]
        BY <1>2, <3>1
      <4> QED BY <3>1, <4>1 DEF NamesOK, ForkOK, l, z
    <3>2. CASE l = <<>>
      BY <1>1, <1>2, <2>1, <3>2
    <3> QED BY <3>1, <3>2
  <2> QED BY <2>2, <2>3 DEF NamesOK, ForkOK, b
<1>10. KeysOK(s)'
  BY <1>4 DEF NamesOK, KeysOK, ResponseOK, CounterOK, b
<1> QED BY <1>6, <1>7, <1>8, <1>9, <1>10 DEF NamesOK

(* Writing keeps every file's chain.                                       *)
LEMMA WriteExact ==
  ASSUME Allowed \subseteq {"rewrite"}, EInv, TypeOK', NEW s \in Source,
         Use(s) \/ Fork(s) \/ Restart(s)
  PROVE  \A u \in Source : ChainOK(u)' /\ NamesOK(u)'
<1>1. TypeOK /\ IInv /\ \A u \in Source : ChainOK(u) /\ NamesOK(u)
  BY DEF EInv, IInv
<1>2. PICK total \in Nat, d \in Nat : WriteLine(s, total, d) /\ Written(s, total, d)
  BY <1>1, Writing
<1>3. PICK line \in Line : WriteStep(s, total, d, line)
  BY <1>1, <1>2, WriteEffect
<1>4. ~ForkPending(s) /\ StaysNoticeable(s)
  BY <1>2 DEF WriteLine
<1>5. ChainOK(s)' /\ NamesOK(s)'
  BY <1>1, <1>2, <1>3, <1>4, WriteChain, WriteNames
<1>6. ASSUME NEW u \in Source, u # s PROVE ChainOK(u)' /\ NamesOK(u)'
  <2>1. /\ log'[u] = log[u] /\ spent'[u] = spent[u] /\ turn'[u] = turn[u]
        /\ UNCHANGED <<erased, gone, row, firstPass, base, queue, source, conv, keys, counted>>
    BY <1>1, <1>3, <1>6 DEF WriteStep, TypeOK
  <2>2. Unmoved(u)
    BY <2>1 DEF Unmoved, Alike, Begin
  <2>3. (/\ log[u] # <<>> /\ source[u] = NoCounter
         /\ Heir(u) /\ ParentRead(Parent[u])) => ParentRead(Parent[u])'
    <3> SUFFICES ASSUME log[u] # <<>>, source[u] = NoCounter,
                        Heir(u), ParentRead(Parent[u])
                 PROVE  ParentRead(Parent[u])'
      OBVIOUS
    <3>1. Parent[u] # s /\ Parent[u] \in Source
      BY <1>4 DEF ForkPending, Heir
    <3>2. log'[Parent[u]] = log[Parent[u]]
      BY <1>1, <1>3, <3>1 DEF WriteStep, TypeOK
    <3> QED BY <2>1, <3>2 DEF ParentRead
  <2>4. Len(queue) \in Nat
    BY <1>1, LenProperties DEF TypeOK
  <2>5. Len(queue)..Len(queue) = {Len(queue)} /\ Len(queue) + 1..Len(queue) = {}
    BY <2>4
  <2> QED BY <1>1, <2>1, <2>2, <2>3, <2>4, <2>5, Undisturbed
<1> QED BY <1>5, <1>6

(* A file was replaced after it was read to its end: the chain goes on to  *)
(* the top of the new one, where nothing was used yet.                     *)
LEMMA RewriteExact ==
  ASSUME EInv, TypeOK', NEW s \in Source, Rewrite(s)
  PROVE  \A u \in Source : ChainOK(u)' /\ NamesOK(u)'
<1> DEFINE l == log[s]
           n == spent[s]
           r == row[s]
           b == Again(r)
           a == Account(s)
           y == Anchor(s)
           x == [epoch |-> r.gen + 1, total |-> 0, at |-> n]
<1>1. TypeOK /\ FileOK(s) /\ \A u \in Source : ChainOK(u) /\ NamesOK(u)
  BY DEF EInv, IInv
<1>2. /\ row[s] # NoRow /\ r.offset = Len(l) /\ l # <<>>
      /\ log' = [log EXCEPT ![s] = <<>>]
      /\ erased' = [erased EXCEPT ![s] = erased[s] + Len(l)]
      /\ gone' = [gone EXCEPT ![s] = n]
      /\ UNCHANGED <<turn, spent, row, firstPass, base, queue, source, conv, keys, counted>>
  BY DEF Rewrite, agent, server
<1>3. /\ log'[s] = <<>> /\ gone'[s] = n /\ erased'[s] = erased[s] + Len(l)
      /\ r \in Row /\ Len(l) \in Nat /\ Len(l) # 0 /\ n \in Nat /\ erased[s] \in Nat
      /\ base[s] \in Nat /\ counted[s] \in Nat
  BY <1>1, <1>2, BeginFields, EmptySeq, LenProperties DEF TypeOK
<1>4. Begin(s) = r
  <2>1. ~(Len(log[s]) < row[s].offset) /\ row[s] # NoRow
    BY <1>2, <1>3
  <2> QED BY <2>1 DEF Begin
<1>5. Begin(s)' = b
  <2>1. row'[s] # NoRow /\ Len(log'[s]) < row'[s].offset
    BY <1>2, <1>3, EmptySeq
  <2>2. row'[s] = r
    BY <1>2
  <2> QED BY <2>1, <2>2 DEF Begin, Again
<1>6. /\ b \in Row /\ b.offset = 0 /\ b.gen = r.gen + 1 /\ b.init = FALSE
      /\ b.turn = r.turn /\ b.first = 1 /\ r.gen \in Nat /\ r.turn \in Nat
  BY <1>3, AgainFields DEF Row
<1>7. LinesOK(l, gone[s], n) /\ RowOK(s)
  BY <1>1 DEF FileOK
<1>8. /\ IsMark(y) /\ y.epoch = r.gen /\ IsAccount(a)
      /\ queue \in Seq(Event) /\ \A i \in 1..Len(queue) : IsMark(queue[i])
  BY <1>1, <1>4, <1>7, Numbers DEF TypeOK
<1>9. y.at = n
  BY <1>2, <1>3, <1>4, <1>7 DEF Anchor, Place, LinesOK
<1> HIDE DEF b
<1>10. Anchor(s)' = x /\ Account(s)' = a
  <2>1. Account(s)' = a
    BY <1>2 DEF Account
  <2>2. Anchor(s)' = x
    BY <1>3, <1>5, <1>6, NoLines DEF Anchor, Place
  <2> QED BY <2>1, <2>2
<1>11. IsMark(x) /\ x.at = n /\ Leads(y, x)
  BY <1>3, <1>6, <1>8, <1>9 DEF IsMark, Leads
<1> HIDE DEF x, y, a
<1>12. ChainOK(s)'
  <2>1. HeadOK(s)'
    BY <1>1, <1>2, <1>10 DEF ChainOK, HeadOK, Heir, a
  <2>2. LinksOK(s)'
    <3>1. ASSUME NEW j \in 1..Len(queue), LastOf(Pending(queue, s), j)
          PROVE  Leads(queue[j], x) /\ x.at = queue[j].at
      <4>1. Leads(queue[j], y) /\ y.at = queue[j].at
        BY <1>1, <3>1 DEF ChainOK, LinksOK, y
      <4> QED BY <1>8, <1>9, <1>11, <4>1, LeadsOn
    <3> QED BY <1>1, <1>2, <1>10, <3>1 DEF ChainOK, LinksOK
  <2>3. IdleOK(s)'
    <3> SUFFICES ASSUME Pending(queue, s) = {}
                 PROVE  /\ x.at - base[s] <= counted[s]
                        /\ Covered(a, s, queue, x)
                        /\ ~Fresh(a, s, queue)
      BY <1>2, <1>10 DEF IdleOK
    <3>1. /\ y.at - base[s] <= counted[s]
          /\ Covered(a, s, queue, y)
          /\ Fresh(a, s, queue) => Begin(s).offset = 0
      BY <1>1 DEF ChainOK, IdleOK, y, a
    <3>2. a.n = counted[s] /\ a.b = base[s]
      BY DEF a, Account
    <3>3. Covered(a, s, queue, x)
      BY <1>8, <1>11, <3>1, <3>2, CoveredOn
    <3>4. Begin(s).offset # 0
      BY <1>2, <1>3, <1>4
    <3> QED BY <1>9, <1>11, <3>1, <3>3, <3>4
  <2> QED BY <2>1, <2>2, <2>3 DEF ChainOK
<1>13. NamesOK(s)'
  <2>1. FirstsOK(s)'
    BY <1>1, <1>2 DEF NamesOK, FirstsOK
  <2>2. StartOK(s)'
    <3>1. 1 \notin 2..Len(<<>>) /\ 2..Len(<<>>) = {}
      BY EmptySeq
    <3>2. r.turn # 0 => keys # {} \/ Pending(queue, s) # {}
      BY <1>1, <1>4 DEF NamesOK, StartOK
    <3>3. b.first = b.offset + 1
      BY <1>6
    <3> QED BY <1>2, <1>3, <1>5, <1>6, <3>1, <3>2, <3>3 DEF StartOK
  <2>3. TurnsInOrder(s)'
    <3>1. r.turn <= turn[s]
      BY <1>1, <1>4 DEF NamesOK, TurnsInOrder, TurnsOK
    <3>2. 1..Len(<<>>) = {}
      BY EmptySeq
    <3>3. TurnsOK(<<>>, 0, r.turn, turn[s])
      BY <3>1, <3>2 DEF TurnsOK
    <3> QED BY <1>2, <1>3, <1>5, <1>6, <3>3 DEF TurnsInOrder
  <2>4. ForkOK(s)'
    <3>1. 2..Len(<<>>) = {} /\ erased'[s] > 0
      BY <1>3, EmptySeq
    <3> QED BY <1>1, <1>2, <1>3, <1>5, <1>6, <3>1 DEF NamesOK, ForkOK
  <2>5. EpochsOK(s)'
    BY <1>1, <1>2, <1>4, <1>5, <1>6 DEF NamesOK, EpochsOK
  <2>6. KeysOK(s)'
    BY <1>1, <1>2, <1>4, <1>5, <1>6 DEF NamesOK, KeysOK, ResponseOK, CounterOK
  <2> QED BY <2>1, <2>2, <2>3, <2>4, <2>5, <2>6 DEF NamesOK
<1>14. ASSUME NEW u \in Source, u # s PROVE ChainOK(u)' /\ NamesOK(u)'
  <2>1. Unmoved(u)
    BY <1>1, <1>2, <1>14 DEF TypeOK, Unmoved, Alike, Begin
  <2>2. (Heir(u) /\ ParentRead(Parent[u])) => ParentRead(Parent[u])'
    BY <1>1, <1>2 DEF ParentRead, TypeOK, Heir
  <2>3. Len(queue) \in Nat
    BY <1>1, LenProperties DEF TypeOK
  <2>4. Len(queue) + 1..Len(queue) = {}
    BY <2>3
  <2> QED BY <1>1, <1>2, <2>1, <2>2, <2>3, <2>4, Undisturbed
<1> QED BY <1>12, <1>13, <1>14

-----------------------------------------------------------------------------
(* The agent.                                                              *)

(* Noticing an emptied file moves no reader.                               *)
LEMMA NoticeExact ==
  ASSUME EInv, TypeOK', NEW s \in Source, Notice(s)
  PROVE  \A u \in Source : ChainOK(u)' /\ NamesOK(u)'
<1>1. TypeOK /\ \A u \in Source : ChainOK(u) /\ NamesOK(u)
  BY DEF EInv, IInv
<1>2. /\ row[s] # NoRow /\ log[s] = <<>> /\ row[s].offset > 0
      /\ row' = [row EXCEPT ![s] = Begin(s)]
      /\ UNCHANGED <<log, turn, erased, spent, gone, firstPass, base, queue,
                     source, conv, keys, counted>>
  BY DEF Notice, codex, server
<1>3. Len(log[s]) < row[s].offset /\ Len(log[s]) = 0
  BY <1>2, EmptySeq
<1>4. row'[s] = Begin(s) /\ Begin(s).offset = 0 /\ Begin(s) \in Row
  BY <1>1, <1>2, <1>3, BeginFields DEF TypeOK
<1>5. row'[s] # NoRow
  BY <1>4 DEF NoRow
<1>6. Begin(s)' = Begin(s)
  <2>1. ~(Len(log'[s]) < row'[s].offset)
    BY <1>2, <1>3, <1>4
  <2>2. Begin(s)' = row'[s]
    BY <1>5, <2>1 DEF Begin
  <2> QED BY <1>4, <2>2
<1>7. Len(queue) \in Nat /\ Len(queue) + 1..Len(queue) = {}
  <2>1. Len(queue) \in Nat
    BY <1>1, LenProperties DEF TypeOK
  <2> QED BY <2>1
<1>8. ASSUME NEW u \in Source PROVE ChainOK(u)' /\ NamesOK(u)'
  <2>1. Unmoved(u)
    <3>1. u # s => row'[u] = row[u]
      BY <1>1, <1>2 DEF TypeOK
    <3>2. Begin(u)' = Begin(u)
      <4>1. CASE u = s
        BY <1>6, <4>1
      <4>2. CASE u # s
        BY <1>2, <3>1, <4>2 DEF Begin
      <4> QED BY <4>1, <4>2
    <3> QED BY <1>2, <3>2 DEF Unmoved, Alike
  <2>2. (Heir(u) /\ ParentRead(Parent[u])) => ParentRead(Parent[u])'
    BY <1>1, <1>2 DEF ParentRead, TypeOK, Heir
  <2>3. row'[u] = NoRow => row[u] = NoRow
    BY <1>1, <1>2, <1>5 DEF TypeOK
  <2> QED BY <1>1, <1>2, <1>7, <2>1, <2>2, <2>3, Undisturbed
<1> QED BY <1>8

(* Nor does the end of the first pass.                                     *)
LEMMA EndFirstPassExact ==
  ASSUME EInv, TypeOK', EndFirstPass
  PROVE  \A u \in Source : ChainOK(u)' /\ NamesOK(u)'
<1>1. TypeOK /\ \A u \in Source : ChainOK(u) /\ NamesOK(u)
  BY DEF EInv, IInv
<1>2. /\ ~firstPass'
      /\ UNCHANGED <<log, turn, erased, spent, gone, row, base, queue,
                     source, conv, keys, counted>>
  BY DEF EndFirstPass, codex, server
<1>3. Len(queue) \in Nat /\ Len(queue) + 1..Len(queue) = {}
  <2>1. Len(queue) \in Nat
    BY <1>1, LenProperties DEF TypeOK
  <2> QED BY <2>1
<1>4. ASSUME NEW u \in Source PROVE ChainOK(u)' /\ NamesOK(u)'
  <2>1. Unmoved(u)
    BY <1>2 DEF Unmoved, Alike, Begin
  <2>2. ParentRead(Parent[u]) => ParentRead(Parent[u])'
    BY <1>2 DEF ParentRead
  <2> QED BY <1>1, <1>2, <1>3, <2>1, <2>2, Undisturbed
<1> QED BY <1>4

(* The place of the reader leads to the line it reads next: where the      *)
(* counter starts again, the reader has a line to see it by.               *)
LEMMA ScanLeads ==
  ASSUME IInv, NEW s \in Source, StartOK(s),
         NEW r \in Row, NEW e \in Event, ScanStep(s, r, e)
  PROVE  Leads(Anchor(s), e)
<1> DEFINE l == log[s]
           g == gone[s]
           n == spent[s]
           b == Begin(s)
           k == b.offset + 1
           x == Anchor(s)
<1>1. TypeOK /\ FileOK(s) /\ LinesOK(l, g, n) /\ RowOK(s)
  BY DEF IInv, FileOK
<1>2. /\ l \in Seq(Line) /\ g \in Nat /\ n \in Nat /\ b \in Row
      /\ IsMark(x) /\ x.epoch = b.gen
  BY <1>1, Numbers
<1>3. k \in 1..Len(l) /\ b.offset \in Nat /\ b.gen \in Nat /\ Len(l) \in Nat
  BY <1>2, LenProperties DEF ScanStep, Row
<1>4. /\ e.total = l[k].total /\ e.at = l[k].at
      /\ e.epoch = IF b.init /\ l[k].total < b.last THEN b.gen + 1 ELSE b.gen
  BY DEF ScanStep
<1>5. IsMark(e)
  BY DEF IsMark, Event
<1>6. LET y == Place(l, g, b)
          f == l[b.offset + 1]
      IN  /\ y.at <= f.at
          /\ \/ f.total - y.total = f.at - y.at
             \/ /\ b.offset >= 1 /\ Falls(l, b.offset + 1)
                /\ y = [epoch |-> b.gen, total |-> l[b.offset].total,
                        at |-> l[b.offset].at]
                /\ f.total = f.at - y.at
  <2> HIDE DEF l, g, n, b
  <2> QED BY <1>1, <1>2, <1>3, NextLine
<1>7. /\ x.at <= e.at
      /\ \/ e.total - x.total = e.at - x.at
         \/ /\ b.offset >= 1 /\ Falls(l, k) /\ e.total = e.at - x.at
  <2>1. x = Place(l, g, b)
    BY DEF Anchor
  <2> QED BY <1>4, <1>6, <2>1
<1>8. /\ b.init => b.offset >= 1 /\ b.last = l[b.offset].total
      /\ b.offset >= 1 => x.total = l[b.offset].total
      /\ b.offset >= 1 => (Falls(l, k) <=> l[k].total < l[b.offset].total)
  <2>1. b.init => b.offset >= 1 /\ b.last = l[b.offset].total
    BY <1>1 DEF RowOK
  <2>2. b.offset >= 1 => x.total = l[b.offset].total
    BY <1>3 DEF Anchor, Place
  <2>3. k - 1 = b.offset
    BY <1>3
  <2> QED BY <2>1, <2>2, <2>3 DEF Falls
<1>9. Falls(l, k) /\ b.offset >= 1 => b.init
  <2> SUFFICES ASSUME ~b.init, b.offset >= 1 PROVE ~Falls(l, k)
    OBVIOUS
  <2>1. b.first = k /\ (b.first \in 2..Len(l) => ~Falls(l, b.first))
    BY DEF StartOK
  <2>2. k \in 2..Len(l)
    BY <1>3
  <2> QED BY <2>1, <2>2
<1>10. CASE e.total - x.total = e.at - x.at
  <2>1. ~(b.init /\ l[k].total < b.last)
    <3>1. b.init => b.last = x.total
      BY <1>8
    <3>2. ~(e.total < x.total)
      BY <1>2, <1>5, <1>7, <1>10 DEF IsMark
    <3> QED BY <1>4, <3>1, <3>2
  <2>2. e.epoch = x.epoch
    BY <1>2, <1>4, <2>1
  <2> QED BY <1>7, <1>10, <2>2 DEF Leads
<1>11. CASE b.offset >= 1 /\ Falls(l, k) /\ e.total = e.at - x.at
  <2>1. b.init /\ l[k].total < b.last
    BY <1>8, <1>9, <1>11
  <2>2. e.epoch = x.epoch + 1
    BY <1>2, <1>4, <2>1
  <2>3. x.epoch < e.epoch /\ e.at - x.at <= e.total
    BY <1>2, <1>5, <1>11, <2>2 DEF IsMark
  <2> QED BY <1>7, <2>3 DEF Leads
<1> QED BY <1>7, <1>10, <1>11

(* The rest of the facts about a scan.                                     *)
LEMMA ScanFacts ==
  ASSUME IInv, TypeOK', NEW s \in Source, NEW r \in Row, NEW e \in Event,
         ScanStep(s, r, e)
  PROVE  /\ Begin(s)' = r /\ Account(s)' = Account(s)
         /\ Anchor(s)'.epoch = e.epoch /\ Anchor(s)'.total = e.total
         /\ Anchor(s)'.at = e.at /\ IsMark(Anchor(s)')
         /\ r.offset = Begin(s).offset + 1 /\ r.offset \in 1..Len(log[s])
         /\ queue' = Append(queue, e) /\ queue' \in Seq(Event)
         /\ Len(queue) \in Nat /\ Len(queue') = Len(queue) + 1
         /\ queue'[Len(queue) + 1] = e
         /\ \A i \in 1..Len(queue) : queue'[i] = queue[i]
         /\ Pending(queue', s) = Pending(queue, s) \cup {Len(queue) + 1}
         /\ Baselines(queue', s) = Baselines(queue, s)
         /\ row'[s] # NoRow /\ ~ParentRead(s)
         /\ \A u \in Source : u # s => row'[u] = row[u]
         /\ UNCHANGED <<log, turn, erased, spent, gone, firstPass, base, source, conv,
                        keys, counted>>
<1> DEFINE l == log[s]
           b == Begin(s)
           k == b.offset + 1
           q == queue
           Q == Append(queue, e)
           z == Len(queue) + 1
<1>1. TypeOK /\ FileOK(s)
  BY DEF IInv
<1>2. /\ row' = [row EXCEPT ![s] = r] /\ queue' = Q
      /\ UNCHANGED <<log, turn, erased, spent, gone, firstPass, base, source, conv,
                     keys, counted>>
  BY DEF ScanStep, codex, server
<1>3. /\ k \in 1..Len(l) /\ r.offset = k
      /\ e.type = "exact" /\ e.src = s
      /\ e.epoch = r.gen /\ e.total = l[k].total /\ e.at = l[k].at
  BY DEF ScanStep
<1>4. /\ q \in Seq(Event) /\ Q \in Seq(Event) /\ Len(q) \in Nat
      /\ Len(Q) = z /\ Q[z] = e /\ \A i \in 1..Len(q) : Q[i] = q[i]
  BY <1>1, <1>2, AppendProperties, LenProperties DEF TypeOK
<1>5. l \in Seq(Line) /\ Len(l) \in Nat /\ b \in Row /\ b.offset \in Nat
  BY <1>1, BeginFields, LenProperties DEF TypeOK, Row
<1>6. row'[s] = r /\ row'[s] # NoRow /\ \A u \in Source : u # s => row'[u] = row[u]
  <2>1. row'[s] = r /\ \A u \in Source : u # s => row'[u] = row[u]
    BY <1>1, <1>2 DEF TypeOK
  <2>2. r.offset \in Nat
    BY DEF Row
  <2> QED BY <2>1, <2>2 DEF NoRow
<1>7. Begin(s)' = r
  <2>1. ~(Len(log'[s]) < row'[s].offset)
    BY <1>2, <1>3, <1>5, <1>6
  <2> QED BY <1>6, <2>1 DEF Begin
<1>8. Account(s)' = Account(s)
  BY <1>2 DEF Account
<1>9. /\ Anchor(s)'.epoch = e.epoch /\ Anchor(s)'.total = e.total
      /\ Anchor(s)'.at = e.at /\ IsMark(Anchor(s)')
  <2>1. r.offset # 0
    BY <1>3, <1>5
  <2>2. Anchor(s)' = Place(l, gone[s], r)
    BY <1>2, <1>7 DEF Anchor
  <2>3. /\ Anchor(s)'.epoch = e.epoch /\ Anchor(s)'.total = e.total
        /\ Anchor(s)'.at = e.at
    BY <1>3, <2>1, <2>2 DEF Place
  <2>4. IsMark(e)
    BY DEF Event, IsMark
  <2> QED BY <2>3, <2>4 DEF IsMark
<1>10. ~ParentRead(s)
  <2> SUFFICES ASSUME ParentRead(s) PROVE FALSE
    OBVIOUS
  <2>1. l # <<>>
    BY <1>3, <1>5, EmptySeq
  <2>2. row[s] # NoRow /\ row[s].offset = Len(l)
    BY <2>1 DEF ParentRead
  <2>3. b = row[s]
    <3>1. ~(Len(log[s]) < row[s].offset)
      BY <1>5, <2>2
    <3> QED BY <2>2, <3>1 DEF Begin
  <2> QED BY <1>3, <1>5, <2>2, <2>3
<1>11. Pending(Q, s) = Pending(q, s) \cup {z} /\ Baselines(Q, s) = Baselines(q, s)
  <2> HIDE DEF Q
  <2>1. Pending(Q, s) = Pending(q, s) \cup {z}
    BY <1>3, <1>4 DEF Pending
  <2>2. ASSUME NEW i PROVE i \in Baselines(Q, s) <=> i \in Baselines(q, s)
    BY <1>3, <1>4 DEF Baselines
  <2> QED BY <2>1, <2>2
<1>12. queue' \in Seq(Event) /\ Len(queue') = z /\ queue'[z] = e
       /\ \A i \in 1..Len(q) : queue'[i] = q[i]
  BY <1>2, <1>4
<1>13. Pending(queue', s) = Pending(q, s) \cup {z} /\ Baselines(queue', s) = Baselines(q, s)
  BY <1>2, <1>11
<1>14. r.offset = b.offset + 1 /\ r.offset \in 1..Len(l)
  BY <1>3
<1> HIDE DEF Q
<1> QED BY <1>2, <1>4, <1>6, <1>7, <1>8, <1>9, <1>10, <1>12, <1>13, <1>14 DEF Q

(* The line read joins the chain at its end.                               *)
LEMMA ScanChain ==
  ASSUME IInv, TypeOK', NEW s \in Source, ChainOK(s), StartOK(s),
         NEW r \in Row, NEW e \in Event, ScanStep(s, r, e)
  PROVE  ChainOK(s)'
<1> DEFINE q == queue
           Q == queue'
           P == Pending(queue, s)
           z == Len(queue) + 1
           a == Account(s)
           x == Anchor(s)
           y == Anchor(s)'
<1>1. /\ TypeOK /\ FileOK(s) /\ LinesOK(log[s], gone[s], spent[s]) /\ RowOK(s)
  BY DEF IInv, FileOK
<1>2. /\ q \in Seq(Event) /\ IsAccount(a) /\ IsMark(x)
      /\ \A i \in 1..Len(q) : IsMark(q[i])
      /\ base[s] \in Nat /\ counted[s] \in Nat
  BY <1>1, Numbers DEF TypeOK
<1>3. /\ Begin(s)' = r /\ Account(s)' = a
      /\ y.epoch = e.epoch /\ y.total = e.total /\ y.at = e.at /\ IsMark(y)
      /\ Q \in Seq(Event) /\ Len(q) \in Nat /\ Len(Q) = z /\ Q[z] = e
      /\ \A i \in 1..Len(q) : Q[i] = q[i]
      /\ Pending(Q, s) = P \cup {z} /\ Baselines(Q, s) = Baselines(q, s)
      /\ base' = base /\ counted' = counted
  BY ScanFacts
<1>4. IsMark(e) /\ e.src = s /\ Leads(x, e)
  BY ScanLeads, ZenonT(40) DEF IsMark, Event, ScanStep
<1>5. /\ P \subseteq 1..Len(q) /\ Baselines(q, s) \subseteq 1..Len(q)
      /\ \A i \in 1..Len(q) : i < z
  BY <1>3 DEF Pending, Baselines
<1> HIDE DEF P, z, a, x, y
<1>6. /\ \A f : Covered(a, s, Q, f) <=> Covered(a, s, q, f)
      /\ Fresh(a, s, Q) <=> Fresh(a, s, q)
  <2>1. \A i \in Baselines(q, s) : Q[i] = q[i]
    BY <1>3, <1>5
  <2> QED BY <1>3, <2>1 DEF Covered, Fresh
<1>7. HeadOK(s)'
  <2> SUFFICES ASSUME NEW j \in 1..Len(Q), FirstOf(P \cup {z}, j)
               PROVE  /\ Covered(a, s, q, Q[j])
                      /\ Fresh(a, s, q) =>
                           /\ ChargedFirst(a, Q[j])
                           /\ Heir(s) => \A i \in 1..j : Q[i].src # Parent[s]
    BY <1>3, <1>6 DEF HeadOK, Heir
  <2>1. CASE j \in P
    <3>1. FirstOf(P, j) /\ j \in 1..Len(q) /\ Q[j] = q[j]
      BY <1>3, <1>5, <2>1 DEF FirstOf
    <3>2. \A i \in 1..j : Q[i] = q[i]
      BY <1>3, <3>1
    <3> QED BY <3>1, <3>2 DEF ChainOK, HeadOK, P, a
  <2>2. CASE j = z /\ j \notin P
    <3>1. P = {}
      BY <1>3, <1>5, <2>2 DEF FirstOf
    <3>2. /\ x.at - base[s] <= counted[s] /\ Covered(a, s, q, x)
          /\ Fresh(a, s, q) =>
               /\ Begin(s).offset = 0
               /\ log[s] # <<>> =>
                    /\ ChargedFirst(a, log[s][1])
                    /\ Heir(s) => \A i \in 1..Len(q) : q[i].src # Parent[s]
      BY <3>1 DEF ChainOK, IdleOK, P, a, x
    <3>3. x.at - a.b <= a.n
      BY <3>2 DEF a, Account
    <3>4. Covered(a, s, q, e)
      BY <1>2, <1>4, <3>2, <3>3, CoveredOn
    <3>5. ASSUME Fresh(a, s, q)
          PROVE  /\ ChargedFirst(a, e)
                 /\ Heir(s) => \A i \in 1..j : Q[i].src # Parent[s]
      <4>1. /\ 1 \in 1..Len(log[s]) /\ e.total = log[s][1].total /\ e.at = log[s][1].at
        <5>1. Begin(s).offset + 1 = 1
          BY <3>2, <3>5
        <5> QED BY <5>1 DEF ScanStep
      <4>2. log[s] # <<>>
        BY <1>1, <4>1, EmptySeq DEF TypeOK
      <4>3. ChargedFirst(a, e)
        BY <3>2, <3>5, <4>1, <4>2 DEF ChargedFirst
      <4>4. ASSUME Heir(s), NEW i \in 1..j PROVE Q[i].src # Parent[s]
        <5>1. CASE i = z
          BY <1>3, <1>4, <4>4, <5>1 DEF Heir
        <5>2. CASE i \in 1..Len(q)
          BY <1>3, <3>2, <3>5, <4>2, <4>4, <5>2
        <5>3. i = z \/ i \in 1..Len(q)
          BY <1>3, <2>2 DEF z
        <5> QED BY <5>1, <5>2, <5>3
      <4> QED BY <4>3, <4>4
    <3> QED BY <1>3, <2>2, <3>4, <3>5
  <2> QED BY <2>1, <2>2 DEF FirstOf
<1>8. LinksOK(s)'
  <2>1. ASSUME NEW j \in 1..Len(Q), NEW k \in 1..Len(Q), Adjacent(P \cup {z}, j, k)
        PROVE  Leads(Q[j], Q[k])
    <3>1. j \in P
      BY <1>3, <1>5, <2>1 DEF Adjacent
    <3>2. j \in 1..Len(q) /\ Q[j] = q[j]
      BY <1>3, <1>5, <3>1
    <3>3. CASE k \in P
      <4>1. Adjacent(P, j, k) /\ k \in 1..Len(q) /\ Q[k] = q[k]
        BY <1>3, <1>5, <2>1, <3>1, <3>3 DEF Adjacent
      <4> QED BY <3>2, <4>1 DEF ChainOK, LinksOK, P
    <3>4. CASE k = z
      <4>1. LastOf(P, j)
        BY <1>5, <2>1, <3>1, <3>4 DEF Adjacent, LastOf
      <4>2. Leads(q[j], x) /\ x.at = q[j].at
        BY <3>2, <4>1 DEF ChainOK, LinksOK, P, x
      <4>3. Leads(q[j], e)
        BY <1>2, <1>4, <3>2, <4>2, LeadsOn
      <4> QED BY <1>3, <3>2, <3>4, <4>3
    <3> QED BY <2>1, <3>3, <3>4 DEF Adjacent
  <2>2. ASSUME NEW j \in 1..Len(Q), LastOf(P \cup {z}, j)
        PROVE  Leads(Q[j], y) /\ y.at = Q[j].at
    <3>1. j = z
      BY <1>3, <1>5, <2>2 DEF LastOf
    <3>2. Leads(e, y)
      BY <1>3, <1>4 DEF Leads, IsMark
    <3> QED BY <1>3, <3>1, <3>2
  <2> QED BY <1>3, <2>1, <2>2 DEF LinksOK, y
<1>9. IdleOK(s)'
  BY <1>3 DEF IdleOK
<1> QED BY <1>7, <1>8, <1>9 DEF ChainOK

(* The reader's turn does not go back, and while it stays the counter does *)
(* not start again; without a turn a fork is in its first epoch.           *)
LEMMA ScanTurn ==
  ASSUME IInv, NEW s \in Source, NamesOK(s),
         NEW r \in Row, NEW e \in Event, ScanStep(s, r, e)
  PROVE  LET b == Begin(s)
             k == b.offset + 1
         IN  /\ b.turn <= r.turn
             /\ r.turn = b.turn /\ b.turn # 0 => b.offset > 0 /\ r.gen = b.gen
             /\ Parent[s] # NoParent /\ r.turn = 0 => r.gen = 0
             /\ TurnsOK(log[s], k, r.turn, turn[s])
<1> DEFINE l == log[s]
           b == Begin(s)
           o == b.offset
           k == o + 1
           n == turn[s]
<1>1. TypeOK /\ RowOK(s) /\ TurnsOK(l, o, b.turn, n)
  BY DEF IInv, FileOK, NamesOK, TurnsInOrder
<1>2. /\ b.offset \in Nat /\ b.turn \in Nat /\ b.gen \in Nat /\ r.turn \in Nat
      /\ n \in Nat /\ l \in Seq(Line) /\ Len(l) \in Nat
  BY <1>1, BeginFields, LenProperties DEF Row, TypeOK
<1>3. /\ k \in 1..Len(l)
      /\ r.gen = IF b.init /\ l[k].total < b.last THEN b.gen + 1 ELSE b.gen
      /\ r.turn = IF l[k].turn = 0 THEN b.turn ELSE l[k].turn
  BY DEF ScanStep
<1>4. \A m \in 1..Len(l) : l[m].turn \in Nat
  <2> TAKE m \in 1..Len(l)
  <2>1. l[m] \in Line
    BY <1>2, ElementOfSeq
  <2> QED BY <2>1 DEF Line
<1>5. r.gen # b.gen => o >= 1 /\ Falls(l, k)
  <2> SUFFICES ASSUME r.gen # b.gen PROVE o >= 1 /\ Falls(l, k)
    OBVIOUS
  <2>1. b.init /\ l[k].total < b.last
    BY <1>3
  <2>2. o >= 1 /\ b.last = l[o].total
    BY <1>1, <2>1 DEF RowOK
  <2>3. k - 1 = o
    BY <1>2
  <2> QED BY <2>1, <2>2, <2>3 DEF Falls
<1> HIDE DEF l, b, o, n
<1>6. k > o /\ (l[k].turn # 0 => b.turn < l[k].turn) /\ (k = 1 <=> o = 0)
      /\ (l[k].turn = 0 /\ (k = 1 \/ Falls(l, k)) => b.turn = 0)
  <2>1. k > o /\ (k = 1 <=> o = 0)
    BY <1>2 DEF o
  <2> QED BY <1>1, <1>3, <2>1 DEF TurnsOK
<1>7. b.turn <= r.turn
  BY <1>2, <1>3, <1>4, <1>6
<1>8. r.turn = b.turn /\ b.turn # 0 => o > 0 /\ r.gen = b.gen
  <2> SUFFICES ASSUME r.turn = b.turn, b.turn # 0 PROVE o > 0 /\ r.gen = b.gen
    OBVIOUS
  <2>1. l[k].turn = 0
    BY <1>2, <1>3, <1>4, <1>6
  <2>2. k # 1 /\ ~Falls(l, k)
    BY <1>6, <2>1
  <2>3. o # 0 /\ o \in Nat
    BY <1>2, <1>6, <2>2 DEF o
  <2> QED BY <1>5, <2>2, <2>3
<1>9. Parent[s] # NoParent /\ r.turn = 0 => r.gen = 0
  <2> SUFFICES ASSUME Parent[s] # NoParent, r.turn = 0 PROVE r.gen = 0
    OBVIOUS
  <2>1. l[k].turn = 0 /\ b.turn = 0
    BY <1>3
  <2>2. /\ \A m \in 2..Len(l) : Falls(l, m) => l[m].turn # 0
        /\ erased[s] > 0 /\ l # <<>> => l[1].turn # 0
        /\ b.gen = 0 \/ (o = 0 /\ erased[s] > 0)
    BY <2>1 DEF NamesOK, ForkOK, l, b, o
  <2>3. l # <<>>
    BY <1>2, <1>3, EmptySeq
  <2>4. b.gen = 0
    BY <1>6, <2>1, <2>2, <2>3
  <2>5. r.gen = b.gen
    <3>1. o >= 1 => k \in 2..Len(l)
      BY <1>2, <1>3 DEF o
    <3> QED BY <1>5, <2>1, <2>2, <3>1
  <2> QED BY <2>4, <2>5
<1>10. TurnsOK(l, k, r.turn, n)
  <2>0. k \in Nat /\ r.turn <= n
    BY <1>1, <1>3 DEF TurnsOK
  <2>1. ASSUME NEW m \in 1..Len(l), m > k
        PROVE  /\ l[m].turn # 0 => r.turn < l[m].turn
               /\ l[m].turn = 0 /\ (m = 1 \/ Falls(l, m)) => r.turn = 0
    <3>1. m > o /\ m # 1 /\ k < m
      BY <1>2, <1>3, <2>1 DEF o
    <3>2. /\ l[m].turn # 0 => b.turn < l[m].turn /\ l[k].turn < l[m].turn
          /\ l[m].turn = 0 /\ Falls(l, m) => b.turn = 0 /\ l[k].turn = 0
      BY <1>1, <1>3, <3>1 DEF TurnsOK
    <3> QED BY <1>3, <3>1, <3>2
  <2> QED BY <1>1, <2>0, <2>1 DEF TurnsOK
<1> QED BY <1>7, <1>8, <1>9, <1>10 DEF l, b, o, n

(* The line read keeps turns, epochs and keys in order.                    *)
LEMMA ScanNames ==
  ASSUME IInv, TypeOK', NEW s \in Source, NamesOK(s),
         NEW r \in Row, NEW e \in Event, ScanStep(s, r, e)
  PROVE  NamesOK(s)'
<1> DEFINE q == queue
           Q == queue'
           P == Pending(queue, s)
           z == Len(queue) + 1
           b == Begin(s)
<1>1. TypeOK /\ TypeOK'
  BY DEF IInv
<1>2. /\ Begin(s)' = r /\ r.offset = b.offset + 1 /\ r.offset \in 1..Len(log[s])
      /\ Len(q) \in Nat /\ Len(Q) = z /\ Q[z] = e
      /\ \A i \in 1..Len(q) : Q[i] = q[i]
      /\ Pending(Q, s) = P \cup {z} /\ Baselines(Q, s) = Baselines(q, s)
      /\ row'[s] # NoRow
      /\ UNCHANGED <<log, turn, erased, source, keys>>
  BY ScanFacts
<1>3. /\ b.turn <= r.turn
      /\ r.turn = b.turn /\ b.turn # 0 => b.offset > 0 /\ r.gen = b.gen
      /\ Parent[s] # NoParent /\ r.turn = 0 => r.gen = 0
      /\ TurnsOK(log[s], r.offset, r.turn, turn[s])
  BY <1>2, ScanTurn
<1>4. r.init /\ e.turn = r.turn /\ e.epoch = r.gen
  BY DEF ScanStep
<1>5. /\ P \subseteq 1..Len(q) /\ Baselines(q, s) \subseteq 1..Len(q)
      /\ \A i \in 1..Len(q) : i < z
      /\ \A i \in P : Q[i] = q[i] /\ q[i].turn \in Nat
  <2>1. P \subseteq 1..Len(q) /\ Baselines(q, s) \subseteq 1..Len(q)
    BY DEF Pending, Baselines
  <2>2. \A i \in 1..Len(q) : q[i].turn \in Nat
    <3> TAKE i \in 1..Len(q)
    <3>1. q[i] \in Event
      BY <1>1, ElementOfSeq DEF TypeOK
    <3> QED BY <3>1 DEF Event
  <2> QED BY <1>2, <2>1, <2>2
<1>6. /\ b.offset \in Nat /\ b.turn \in Nat /\ r.turn \in Nat /\ r.offset # 0
  <2>1. b \in Row
    BY <1>1, BeginFields
  <2> HIDE DEF b
  <2>2. b.offset \in Nat /\ b.turn \in Nat /\ r.turn \in Nat
    BY <2>1 DEF Row
  <2>3. r.offset # 0
    BY <1>2, <2>2
  <2> QED BY <2>2, <2>3
<1> HIDE DEF P, z, b
<1>7. FirstsOK(s)'
  BY <1>2, <1>5 DEF NamesOK, FirstsOK, P
<1>8. StartOK(s)'
  BY <1>2, <1>4 DEF StartOK
<1>9. TurnsInOrder(s)'
  BY <1>2, <1>3 DEF TurnsInOrder
<1>10. ForkOK(s)'
  <2> SUFFICES ASSUME Parent[s] # NoParent
               PROVE  /\ \A k \in 2..Len(log[s]) : Falls(log[s], k) => log[s][k].turn # 0
                      /\ erased[s] > 0 /\ log[s] # <<>> => log[s][1].turn # 0
                      /\ r.turn = 0 => r.gen = 0
                      /\ \A j \in P \cup {z} : Q[j].turn = 0 => Q[j].epoch = 0
    BY <1>2 DEF ForkOK
  <2>1. \A j \in P : Q[j].turn = 0 => Q[j].epoch = 0
    BY <1>5 DEF NamesOK, ForkOK, P
  <2>2. Q[z].turn = 0 => Q[z].epoch = 0
    BY <1>2, <1>3, <1>4
  <2> QED BY <1>3, <2>1, <2>2 DEF NamesOK, ForkOK
<1>11. EpochsOK(s)'
  <2>1. ASSUME NEW j \in P PROVE Steady(q[j].turn, q[j].epoch, r.turn, r.gen)
    <3>1. /\ q[j].turn <= b.turn
          /\ b.offset > 0 => Steady(q[j].turn, q[j].epoch, b.turn, b.gen)
      BY DEF NamesOK, EpochsOK, P, b
    <3>2. q[j].turn \in Nat
      BY <1>5
    <3>3. q[j].turn <= r.turn
      BY <1>3, <1>6, <3>1, <3>2
    <3>4. q[j].turn = r.turn /\ q[j].turn # 0 => q[j].epoch = r.gen
      <4> SUFFICES ASSUME q[j].turn = r.turn, q[j].turn # 0 PROVE q[j].epoch = r.gen
        OBVIOUS
      <4>1. r.turn = b.turn /\ b.turn # 0
        BY <1>3, <1>6, <3>1, <3>2
      <4> QED BY <1>3, <3>1, <4>1 DEF Steady
    <3> QED BY <3>3, <3>4 DEF Steady
  <2>2. ASSUME NEW j \in P, NEW k \in P, j < k
        PROVE  Steady(q[j].turn, q[j].epoch, q[k].turn, q[k].epoch)
    BY <2>2 DEF NamesOK, EpochsOK, P
  <2>3. ASSUME NEW j \in P \cup {z}
        PROVE  /\ Q[j].turn <= r.turn
               /\ Steady(Q[j].turn, Q[j].epoch, r.turn, r.gen)
    <3>1. CASE j = z
      BY <1>2, <1>4, <1>6, <3>1 DEF Steady
    <3>2. CASE j \in P
      BY <1>5, <2>1, <3>2 DEF Steady
    <3> QED BY <3>1, <3>2
  <2>4. ASSUME NEW j \in P \cup {z}, NEW k \in P \cup {z}, j < k
        PROVE  Steady(Q[j].turn, Q[j].epoch, Q[k].turn, Q[k].epoch)
    <3>1. j \in P
      BY <1>2, <1>5, <2>4 DEF z
    <3>2. CASE k = z
      BY <1>2, <1>4, <2>3, <3>2
    <3>3. CASE k \in P
      BY <1>5, <2>2, <2>4, <3>1, <3>3
    <3> QED BY <3>2, <3>3
  <2> QED BY <1>2, <2>3, <2>4 DEF EpochsOK
<1>12. KeysOK(s)'
  <2>1. ASSUME NEW k \in ResponseKeys(keys, s) PROVE ResponseOK(s, k)'
    <3>1. ResponseOK(s, k)
      BY DEF NamesOK, KeysOK
    <3>2. /\ source[s] # NoCounter
          /\ k[3] \in Nat \ {0} /\ k[4] \in Nat
          /\ k[3] <= b.turn
          /\ k[3] = b.turn /\ b.offset > 0 =>
               b.gen = source[s].epoch /\ k[4] <= source[s].total
          /\ \A j \in P :
               /\ k[3] <= q[j].turn
               /\ k[3] = q[j].turn =>
                    q[j].epoch = source[s].epoch /\ k[4] <= source[s].total
      BY <3>1 DEF ResponseOK, P, b
    <3>3. k[3] <= r.turn
      BY <1>3, <1>6, <3>2
    <3>4. k[3] = r.turn => r.gen = source[s].epoch /\ k[4] <= source[s].total
      <4> SUFFICES ASSUME k[3] = r.turn
                   PROVE  r.gen = source[s].epoch /\ k[4] <= source[s].total
        OBVIOUS
      <4>1. r.turn = b.turn /\ b.turn # 0
        BY <1>3, <1>6, <3>2
      <4> QED BY <1>3, <3>2, <4>1
    <3>5. ASSUME NEW j \in P \cup {z}
          PROVE  /\ k[3] <= Q[j].turn
                 /\ k[3] = Q[j].turn =>
                      Q[j].epoch = source[s].epoch /\ k[4] <= source[s].total
      <4>1. CASE j = z
        BY <1>2, <1>4, <3>3, <3>4, <4>1
      <4>2. CASE j \in P
        BY <1>5, <3>2, <4>2
      <4> QED BY <4>1, <4>2
    <3> QED BY <1>2, <3>2, <3>3, <3>4, <3>5 DEF ResponseOK
  <2>2. ASSUME NEW k \in CounterKeys(keys, s) PROVE CounterOK(s, k)'
    BY <1>2 DEF NamesOK, KeysOK, CounterOK
  <2> QED BY <1>2, <2>1, <2>2 DEF KeysOK
<1> QED BY <1>7, <1>8, <1>9, <1>10, <1>11, <1>12 DEF NamesOK

(* Reading a line keeps every file's chain.                                *)
LEMMA ScanExact ==
  ASSUME EInv, TypeOK', NEW s \in Source, Scan(s)
  PROVE  \A u \in Source : ChainOK(u)' /\ NamesOK(u)'
<1>1. TypeOK /\ IInv /\ \A u \in Source : ChainOK(u) /\ NamesOK(u)
  BY DEF EInv, IInv
<1>2. PICK r \in Row, e \in Event : ScanStep(s, r, e)
  BY <1>1, ScanEffect
<1>3. ChainOK(s)' /\ NamesOK(s)'
  BY <1>1, <1>2, ScanChain, ScanNames DEF NamesOK
<1>4. /\ Len(queue) \in Nat /\ Len(queue') = Len(queue) + 1
      /\ queue'[Len(queue) + 1] = e
      /\ \A i \in 1..Len(queue) : queue'[i] = queue[i]
      /\ ~ParentRead(s)
      /\ \A u \in Source : u # s => row'[u] = row[u]
      /\ UNCHANGED <<log, turn, erased, spent, gone, firstPass, base, source, conv,
                     keys, counted>>
  BY <1>1, <1>2, ScanFacts
<1>5. e.src = s
  BY <1>2 DEF ScanStep
<1>6. \A i \in Len(queue) + 1..Len(queue') : queue'[i].src = s
  <2> TAKE i \in Len(queue) + 1..Len(queue')
  <2>1. i = Len(queue) + 1
    BY <1>4
  <2> QED BY <1>4, <1>5, <2>1
<1>7. ASSUME NEW u \in Source, u # s PROVE ChainOK(u)' /\ NamesOK(u)'
  <2>1. Unmoved(u)
    BY <1>4, <1>7 DEF Unmoved, Alike, Begin
  <2>2. (Heir(u) /\ ParentRead(Parent[u])) => Parent[u] # s /\ ParentRead(Parent[u])'
    <3> SUFFICES ASSUME Heir(u), ParentRead(Parent[u])
                 PROVE  Parent[u] # s /\ ParentRead(Parent[u])'
      OBVIOUS
    <3>1. Parent[u] # s /\ Parent[u] \in Source
      BY <1>4 DEF Heir
    <3> QED BY <1>4, <3>1 DEF ParentRead
  <2>3. Len(queue) <= Len(queue')
    BY <1>4
  <2>4. firstPass' /\ row'[u] = NoRow => firstPass /\ row[u] = NoRow
    BY <1>4, <1>7
  <2> QED BY <1>1, <1>4, <1>6, <1>7, <2>1, <2>2, <2>3, <2>4, Undisturbed
<1> QED BY <1>3, <1>7

(* A baseline takes no more along than the last total of the file: where   *)
(* its lines tell conversations apart, the counter only grew.              *)
LEMMA BaselineTotals ==
  ASSUME TypeOK, NEW s \in Source, LinesOK(log[s], gone[s], spent[s]), StartOK(s),
         firstPass, row[s] = NoRow, NEW e \in BaselineEvents(s)
  PROVE  e.total <= LastTotal(s)
<1> DEFINE l == log[s]
           n == Len(l)
<1>1. PICK k \in 1..n :
        /\ \A i \in 1..n : i > k => ConvAt(s, i) # ConvAt(s, k)
        /\ e.total = l[k].total
  BY DEF BaselineEvents
<1>2. \/ \A i \in 1..n : ConvAt(s, i) = Main(s)
      \/ \A i \in 2..n : ~Falls(l, i)
  BY Zenon DEF StartOK, ConvAt
<1>3. l \in Seq(Line) /\ n \in Nat /\ n \in 1..n /\ l # <<>> /\ LastTotal(s) = l[n].total
  <2>1. l \in Seq(Line) /\ n \in Nat
    BY LenProperties DEF TypeOK
  <2>2. n \in 1..n /\ l # <<>>
    BY <1>1, <2>1, EmptySeq
  <2> QED BY <2>1, <2>2 DEF LastTotal
<1>4. /\ l[k].total \in Nat /\ l[k].at \in Nat /\ l[n].total \in Nat /\ l[n].at \in Nat
  BY <1>3, LineFields
<1> HIDE DEF n, l
<1>5. CASE k = n
  BY <1>1, <1>3, <1>4, <1>5
<1>6. CASE k < n
  <2>1. ConvAt(s, n) # ConvAt(s, k)
    BY <1>1, <1>3, <1>6
  <2>2. \A i \in 2..n : ~Falls(l, i)
    BY <1>2, <1>3, <2>1
  <2>3. ~\E m \in k + 1..n : Falls(l, m)
    <3>1. \A m \in k + 1..n : m \in 2..n
      BY <1>3
    <3> QED BY <2>2, <3>1
  <2>4. l[k].at <= l[n].at /\ l[n].total - l[k].total = l[n].at - l[k].at
    BY <1>3, <1>6, <2>3 DEF LinesOK, l, n
  <2> QED BY <1>1, <1>3, <1>4, <2>4
<1> QED BY <1>3, <1>5, <1>6

(* What a baseline finds and leaves.                                       *)
LEMMA BaselineFacts ==
  ASSUME IInv, TypeOK', NEW s \in Source, StartOK(s),
         NEW r \in Row, NEW events \in Seq(Event), BaselineStep(s, r, events)
  PROVE  /\ Begin(s)' = r /\ r.offset <= Len(log[s])
         /\ row[s] = NoRow /\ row'[s] # NoRow
         /\ erased[s] = 0 /\ counted[s] = 0 /\ source[s] = NoCounter
         /\ base'[s] = spent[s] /\ IsMark(Anchor(s)') /\ Anchor(s)'.epoch = 0
         /\ Anchor(s)'.at <= spent[s]
         /\ Pending(queue, s) = {} /\ Pending(queue', s) = {}
         /\ queue' \in Seq(Event) /\ Len(queue) \in Nat
         /\ Len(queue') = Len(queue) + Len(events) /\ Len(events) \in Nat
         /\ \A i \in 1..Len(queue) : queue'[i] = queue[i] /\ queue[i].src # s
         /\ \A i \in Len(queue) + 1..Len(queue') :
              /\ queue'[i].src = s /\ queue'[i].type = "baseline"
              /\ queue'[i].epoch = 0 /\ queue'[i].total \in Nat
              /\ queue'[i].total <= Anchor(s)'.total + (spent[s] - Anchor(s)'.at)
         /\ log[s] = <<>> <=> Len(events) = 0
         /\ \A u \in Source : u # s => row'[u] = row[u] /\ base'[u] = base[u]
         /\ UNCHANGED <<log, turn, erased, spent, gone, firstPass, source, conv,
                        keys, counted>>
<1> DEFINE l == log[s]
           n == spent[s]
           q == queue
           Q == queue \o events
           y == Anchor(s)'
<1>1. TypeOK /\ FileOK(s) /\ LinesOK(l, gone[s], n)
  BY DEF IInv, FileOK
<1>2. /\ row[s] = NoRow /\ firstPass /\ r.offset \in 0..Len(l) /\ r.gen = 0
      /\ \A k \in 2..Len(l) : k > r.offset => l[k].total >= l[k - 1].total
      /\ row' = [row EXCEPT ![s] = r] /\ queue' = Q
      /\ base' = [base EXCEPT ![s] = n]
      /\ UNCHANGED <<log, turn, erased, spent, gone, firstPass, source, conv,
                     keys, counted>>
  BY DEF BaselineStep, codex, server
<1>3. /\ \A i \in 1..Len(events) :
           /\ events[i] \in BaselineEvents(s)
           /\ events[i].type = "baseline" /\ events[i].src = s /\ events[i].epoch = 0
      /\ l = <<>> => Len(events) = 0
      /\ l # <<>> => \E i \in 1..Len(events) : events[i].total = LastTotal(s)
  BY DEF BaselineStep
<1>4. /\ q \in Seq(Event) /\ Q \in Seq(Event) /\ Len(q) \in Nat /\ Len(events) \in Nat
      /\ Len(Q) = Len(q) + Len(events)
      /\ \A i \in 1..Len(q) : Q[i] = q[i]
      /\ \A i \in 1..Len(events) : Q[Len(q) + i] = events[i]
  <2>1. q \in Seq(Event)
    BY <1>1 DEF TypeOK
  <2> QED BY <2>1, ConcatProperties, LenProperties
<1>5. /\ l \in Seq(Line) /\ n \in Nat /\ Len(l) \in Nat /\ r.offset \in Nat
      /\ r.offset <= Len(l) /\ LastTotal(s) \in Nat
  <2>1. l \in Seq(Line) /\ n \in Nat
    BY <1>1 DEF TypeOK
  <2>2. Len(l) \in Nat
    BY <2>1, LenProperties
  <2>3. r.offset \in Nat
    BY DEF Row
  <2>4. LastTotal(s) \in Nat
    BY <1>1, LastTotalType
  <2>5. r.offset <= Len(l)
    BY <1>2, <2>2
  <2> QED BY <2>1, <2>2, <2>3, <2>4, <2>5
<1>6. /\ erased[s] = 0 /\ gone[s] = 0 /\ counted[s] = 0 /\ source[s] = NoCounter
      /\ \A j \in 1..Len(q) : q[j].src # s
  BY <1>1, <1>2 DEF FileOK, Untouched
<1>7. /\ row'[s] = r /\ row'[s] # NoRow /\ base'[s] = n
      /\ \A u \in Source : u # s => row'[u] = row[u] /\ base'[u] = base[u]
  BY <1>1, <1>2, <1>5 DEF TypeOK, NoRow
<1>8. Begin(s)' = r
  <2>1. ~(Len(log'[s]) < row'[s].offset)
    BY <1>2, <1>5, <1>7
  <2> QED BY <1>7, <2>1 DEF Begin
<1>9. y = Place(l, gone[s], r)
  BY <1>2, <1>8 DEF Anchor
<1>10. /\ IsMark(y) /\ y.epoch = 0 /\ y.at <= n
  <2>1. gone[s] \in Nat
    BY <1>6
  <2> QED BY <1>1, <1>2, <1>5, <1>9, <2>1, PlaceFields, SMTT(30) DEF IsMark
<1>11. l # <<>> => y.total - LastTotal(s) = y.at - n
  <2> SUFFICES ASSUME l # <<>> PROVE y.total - LastTotal(s) = y.at - n
    OBVIOUS
  <2>1. \A m \in 2..Len(l) : m > r.offset => ~Falls(l, m)
    <3> TAKE m \in 2..Len(l)
    <3>1. m \in 1..Len(l) /\ m - 1 \in 1..Len(l)
      BY <1>5
    <3>2. l[m].total \in Nat /\ l[m - 1].total \in Nat
      BY <1>5, <3>1, LineFields
    <3> QED BY <1>2, <3>2, SMTT(30) DEF Falls
  <2>2. LastTotal(s) = l[Len(l)].total
    BY DEF LastTotal
  <2>3. gone[s] \in Nat
    BY <1>6
  <2> DEFINE p == Place(l, gone[s], r)
  <2>4. p.total - l[Len(l)].total = p.at - n
    BY <1>1, <1>5, <2>1, <2>3, PlaceToEnd
  <2> HIDE DEF p, y
  <2> QED BY <1>9, <2>2, <2>4 DEF p
<1> HIDE DEF Q, l, n
<1>12. ASSUME NEW i \in Len(q) + 1..Len(Q)
       PROVE  /\ Q[i].src = s /\ Q[i].type = "baseline"
              /\ Q[i].epoch = 0 /\ Q[i].total \in Nat
              /\ Q[i].total <= y.total + (n - y.at)
  <2>1. i - Len(q) \in 1..Len(events) /\ Len(q) + (i - Len(q)) = i
    BY <1>4
  <2>2. Q[i] = events[i - Len(q)]
    BY <1>4, <2>1
  <2>3. Q[i] \in BaselineEvents(s) /\ Q[i].type = "baseline" /\ Q[i].src = s /\ Q[i].epoch = 0
    BY <1>3, <2>1, <2>2
  <2>4. Q[i].total <= LastTotal(s)
    BY <1>1, <1>2, <2>3, BaselineTotals DEF l, n
  <2>5. l # <<>>
    BY <1>3, <1>4, <2>1
  <2>6. Q[i].total \in Nat
    <3>1. i \in 1..Len(Q)
      BY <1>4
    <3>2. Q[i] \in Event
      BY <1>4, <3>1, ElementOfSeq
    <3> QED BY <3>2 DEF Event
  <2>7. y.total \in Nat /\ y.at \in Nat
    BY <1>10 DEF IsMark
  <2>8. LastTotal(s) = y.total + (n - y.at)
    <3>1. y.total - LastTotal(s) = y.at - n
      BY <1>11, <2>5
    <3>2. PICK a \in Nat, b \in Nat, c \in Nat, d \in Nat :
            a = y.total /\ b = LastTotal(s) /\ c = y.at /\ d = n
      BY <1>5, <2>7
    <3>3. a - b = c - d
      BY <3>1, <3>2
    <3>4. b = a + (d - c)
      BY <3>3
    <3> QED BY <3>2, <3>4
  <2> QED BY <2>3, <2>4, <2>6, <2>8
<1>13. Pending(q, s) = {} /\ Pending(Q, s) = {}
  <2>1. \A i \in 1..Len(Q) : i \in 1..Len(q) \/ i \in Len(q) + 1..Len(Q)
    BY <1>4
  <2>2. \A i \in 1..Len(Q) : Q[i].src # s \/ Q[i].type = "baseline"
    BY <1>4, <1>6, <1>12, <2>1
  <2> QED BY <1>6, <2>2 DEF Pending
<1>14. l = <<>> <=> Len(events) = 0
  BY <1>3, <1>4
<1> HIDE DEF y
<1> QED BY <1>2, <1>4, <1>5, <1>6, <1>7, <1>8, <1>10, <1>12, <1>13, <1>14 DEF l, n, y

(* A baseline keeps every file's chain: it stands for all that was used.   *)
LEMMA BaselineExact ==
  ASSUME EInv, TypeOK', NEW s \in Source, Baseline(s)
  PROVE  \A u \in Source : ChainOK(u)' /\ NamesOK(u)'
<1>1. TypeOK /\ IInv /\ \A u \in Source : ChainOK(u) /\ NamesOK(u)
  BY DEF EInv, IInv
<1>2. PICK r \in Row, events \in Seq(Event) : BaselineStep(s, r, events)
  BY <1>1, BaselineEffect
<1> DEFINE y == Anchor(s)'
           Q == queue'
           n == spent[s]
<1>3. /\ Begin(s)' = r /\ r.offset <= Len(log[s])
      /\ row[s] = NoRow /\ row'[s] # NoRow
      /\ erased[s] = 0 /\ counted[s] = 0 /\ source[s] = NoCounter
      /\ base'[s] = n /\ IsMark(y) /\ y.epoch = 0 /\ y.at <= n
      /\ Pending(queue, s) = {} /\ Pending(Q, s) = {}
      /\ Q \in Seq(Event) /\ Len(queue) \in Nat
      /\ Len(Q) = Len(queue) + Len(events) /\ Len(events) \in Nat
      /\ \A i \in 1..Len(queue) : Q[i] = queue[i] /\ queue[i].src # s
      /\ \A i \in Len(queue) + 1..Len(Q) :
           /\ Q[i].src = s /\ Q[i].type = "baseline" /\ Q[i].epoch = 0
           /\ Q[i].total \in Nat /\ Q[i].total <= y.total + (n - y.at)
      /\ log[s] = <<>> <=> Len(events) = 0
      /\ \A u \in Source : u # s => row'[u] = row[u] /\ base'[u] = base[u]
      /\ UNCHANGED <<log, turn, erased, spent, gone, firstPass, source, conv,
                     keys, counted>>
  BY <1>1, <1>2, BaselineFacts DEF NamesOK
<1>4. r.init = FALSE /\ r.turn = 0 /\ r.gen = 0 /\ r.first = r.offset + 1
  BY <1>2 DEF BaselineStep
<1>5. /\ \A i \in 1..Len(Q) : i \in 1..Len(queue) \/ i \in Len(queue) + 1..Len(Q)
      /\ n \in Nat /\ y.at \in Nat /\ y.total \in Nat
  BY <1>1, <1>3 DEF TypeOK, IsMark
<1> HIDE DEF y, n
<1>6. ChainOK(s)'
  <2> DEFINE a == Account(s)'
  <2>1. a.n = 0 /\ a.b = n /\ a.w = NoCounter
    BY <1>3 DEF Account
  <2> HIDE DEF a
  <2>2. HeadOK(s)' /\ LinksOK(s)'
    BY <1>3 DEF HeadOK, LinksOK, FirstOf, LastOf, Adjacent
  <2>3. \A i \in Baselines(Q, s) : Charged(a, Q[i], y)
    <3> TAKE i \in Baselines(Q, s)
    <3>1. i \in Len(queue) + 1..Len(Q)
      BY <1>3, <1>5 DEF Baselines
    <3>2. Q[i].epoch = 0 /\ Q[i].total \in Nat /\ Q[i].total <= y.total + (n - y.at)
      BY <1>3, <3>1
    <3>3. y.at - n <= 0 + y.total - Q[i].total
      BY <1>5, <3>2, SMTT(20)
    <3> QED BY <1>3, <2>1, <3>2, <3>3 DEF Charged
  <2>4. Covered(a, s, Q, y)
    BY <2>1, <2>3 DEF Covered
  <2>5. y.at - n <= 0
    BY <1>3, <1>5
  <2>6. Fresh(a, s, Q) => r.offset = 0 /\ log[s] = <<>>
    <3> SUFFICES ASSUME Baselines(Q, s) = {} PROVE r.offset = 0 /\ log[s] = <<>>
      BY DEF Fresh
    <3>1. Len(events) = 0
      <4> SUFFICES ASSUME Len(events) # 0 PROVE FALSE
        OBVIOUS
      <4>1. Len(Q) \in Len(queue) + 1..Len(Q) /\ Len(Q) \in 1..Len(Q)
        BY <1>3
      <4> QED BY <1>3, <4>1 DEF Baselines
    <3>2. log[s] = <<>>
      BY <1>3, <3>1
    <3>3. r.offset \in Nat /\ Len(log[s]) = 0
      BY <3>2, EmptySeq DEF Row
    <3> QED BY <1>3, <3>2, <3>3
  <2>7. IdleOK(s)'
    BY <1>3, <2>4, <2>5, <2>6 DEF IdleOK, a, y
  <2> QED BY <2>2, <2>7 DEF ChainOK
<1>7. NamesOK(s)'
  <2>1. FirstsOK(s)'
    BY <1>3 DEF FirstsOK
  <2>2. StartOK(s)'
    <3>1. ASSUME r.first \in 2..Len(log[s]) PROVE ~Falls(log[s], r.first)
      <4>1. /\ r.first > r.offset
            /\ log[s] \in Seq(Line) /\ Len(log[s]) \in Nat /\ r.offset \in Nat
        BY <1>1, <1>4, LenProperties DEF TypeOK, Row
      <4>2. r.first \in 1..Len(log[s]) /\ r.first - 1 \in 1..Len(log[s])
        BY <3>1, <4>1
      <4>3. log[s][r.first].total \in Nat /\ log[s][r.first - 1].total \in Nat
        BY <4>1, <4>2, LineFields
      <4>4. log[s][r.first].total >= log[s][r.first - 1].total
        BY <1>2, <3>1, <4>1 DEF BaselineStep
      <4> QED BY <4>3, <4>4 DEF Falls
    <3> QED BY <1>3, <1>4, <3>1 DEF StartOK
  <2>3. TurnsInOrder(s)'
    <3>1. Begin(s).offset = 0 /\ Begin(s).turn = 0
      BY <1>1, <1>3, BeginFields
    <3>2. TurnsOK(log[s], 0, 0, turn[s])
      BY <1>1, <3>1 DEF NamesOK, TurnsInOrder
    <3>3. r.offset \in Nat
      BY DEF Row
    <3>4. TurnsOK(log[s], r.offset, 0, turn[s])
      <4>1. \A k \in 1..Len(log[s]) : k > r.offset => k > 0
        BY <3>3
      <4> QED BY <3>2, <4>1 DEF TurnsOK
    <3> QED BY <1>3, <1>4, <3>4 DEF TurnsInOrder
  <2>4. ForkOK(s)'
    BY <1>1, <1>3, <1>4 DEF NamesOK, ForkOK
  <2>5. EpochsOK(s)'
    BY <1>3 DEF EpochsOK
  <2>6. KeysOK(s)'
    BY <1>1, <1>3 DEF NamesOK, KeysOK, ResponseOK, CounterOK
  <2> QED BY <2>1, <2>2, <2>3, <2>4, <2>5, <2>6 DEF NamesOK
<1>8. ASSUME NEW u \in Source, u # s PROVE ChainOK(u)' /\ NamesOK(u)'
  <2>1. Unmoved(u)
    BY <1>3, <1>8 DEF Unmoved, Alike, Begin
  <2>2. (Heir(u) /\ ParentRead(Parent[u])) =>
          /\ ParentRead(Parent[u])'
          /\ \A i \in Len(queue) + 1..Len(Q) : Q[i].src # Parent[u]
    <3> SUFFICES ASSUME Heir(u), ParentRead(Parent[u])
                 PROVE  /\ ParentRead(Parent[u])'
                        /\ \A i \in Len(queue) + 1..Len(Q) : Q[i].src # Parent[u]
      OBVIOUS
    <3>1. CASE Parent[u] = s
      <4>1. log[s] = <<>> /\ Len(events) = 0
        BY <1>3, <3>1 DEF ParentRead
      <4>2. Len(queue) + 1..Len(Q) = {}
        BY <1>3, <4>1
      <4> QED BY <1>3, <3>1, <4>1, <4>2 DEF ParentRead
    <3>2. CASE Parent[u] # s
      <4>1. Parent[u] \in Source
        BY DEF Heir
      <4> QED BY <1>3, <3>2, <4>1 DEF ParentRead
    <3> QED BY <3>1, <3>2
  <2>3. Len(queue) <= Len(Q)
    BY <1>3
  <2>4. firstPass' /\ row'[u] = NoRow => firstPass /\ row[u] = NoRow
    BY <1>3, <1>8
  <2>5. \A i \in Len(queue) + 1..Len(Q) : Q[i].src # u
    BY <1>3, <1>8
  <2> QED BY <1>1, <1>3, <1>8, <2>1, <2>2, <2>3, <2>4, <2>5, Undisturbed
<1> QED BY <1>6, <1>7, <1>8

(* A backfill before any line was read: every file begins again, in an     *)
(* epoch after its baselines, with nothing charged.                        *)
LEMMA BackfillExact ==
  ASSUME Allowed \subseteq {"rewrite"}, EInv, TypeOK', Backfill
  PROVE  \A u \in Source : ChainOK(u)' /\ NamesOK(u)'
<1>1. TypeOK /\ QueueOK /\ \A u \in Source : FileOK(u) /\ ChainOK(u) /\ NamesOK(u)
  BY DEF EInv, IInv
<1>2. /\ \A s \in Source : Parent[s] = NoParent
      /\ keys = {} /\ \A i \in DOMAIN queue : queue[i].type = "baseline"
      /\ UNCHANGED <<log, turn, erased, spent, gone, firstPass, queue, source, conv,
                     keys, counted>>
  BY DEF Backfill, codex, server
<1>3. /\ queue \in Seq(Event) /\ Len(queue) \in Nat /\ Len(queue) + 1..Len(queue) = {}
      /\ \A i \in 1..Len(queue) : queue[i].type = "baseline"
  <2>1. queue \in Seq(Event) /\ Len(queue) \in Nat
    BY <1>1, LenProperties DEF TypeOK
  <2>2. \A i \in 1..Len(queue) : queue[i].type = "baseline"
    BY <1>2, <2>1, LenProperties
  <2> QED BY <2>1, <2>2
<1>4. ASSUME NEW u \in Source PROVE ChainOK(u)' /\ NamesOK(u)'
  <2> DEFINE l == log[u]
             g == gone[u]
             r == row[u]
  <2>1. Pending(queue, u) = {}
    BY <1>3 DEF Pending
  <2>2. ~Heir(u) /\ Parent[u] \notin Source
    BY <1>2, LedgerAssumption DEF Heir
  <2>3. CASE row[u] = NoRow
    <3>1. /\ row'[u] = IF l # <<>> THEN Begin(u) ELSE NoRow
          /\ base'[u] = base[u]
      <4>1. /\ row'[u] = IF l # <<>> THEN Begin(u) ELSE NoRow
            /\ base'[u] = IF row'[u] = NoRow THEN base[u] ELSE gone[u]
        BY <1>1, <2>3, BackfillFields
      <4>2. base[u] = gone[u]
        BY <1>1, <2>3 DEF FileOK, Untouched
      <4> QED BY <4>1, <4>2
    <3>2. Begin(u)' = Begin(u)
      <4>1. CASE l = <<>>
        BY <1>2, <2>3, <3>1, <4>1 DEF Begin
      <4>2. CASE l # <<>>
        <5>1. row'[u] = Begin(u) /\ Begin(u).offset = 0 /\ Begin(u) \in Row
          BY <1>1, <2>3, <3>1, <4>2, BeginFields
        <5>2. row'[u] # NoRow
          BY <5>1 DEF NoRow
        <5>3. ~(Len(log'[u]) < row'[u].offset)
          <6>1. Len(l) \in Nat
            BY <1>1, LenProperties DEF TypeOK
          <6> QED BY <1>2, <5>1, <6>1
        <5>4. Begin(u)' = row'[u]
          BY <5>2, <5>3 DEF Begin
        <5> QED BY <5>1, <5>4
      <4> QED BY <4>1, <4>2
    <3>3. Unmoved(u)
      BY <1>2, <3>1, <3>2 DEF Unmoved, Alike
    <3> QED BY <1>1, <1>2, <1>3, <2>2, <2>3, <3>3, Undisturbed
  <2>4. CASE row[u] # NoRow
    <3> DEFINE b == row'[u]
               y == Anchor(u)'
               a == Account(u)'
    <3>1. /\ b \in Row /\ b.offset = 0 /\ b.gen = r.gen + 1 /\ b.init = FALSE
          /\ b.turn = r.turn /\ b.first = 1 /\ base'[u] = g /\ r \in Row
          /\ b # NoRow
      <4>1. /\ b \in Row /\ b.offset = 0 /\ b.gen = r.gen + 1 /\ b.init = FALSE
            /\ b.turn = r.turn /\ b.first = 1
            /\ base'[u] = IF b = NoRow THEN base[u] ELSE g
        BY <1>1, <2>4, BackfillFields
      <4>2. b # NoRow
        BY <4>1 DEF NoRow
      <4> QED BY <1>1, <2>4, <4>1, <4>2, BeginFields
    <3>2. b.turn = 0
      <4>1. Begin(u).turn = r.turn
        BY <1>1, <2>4, BeginFields
      <4> QED BY <1>1, <1>2, <2>1, <3>1, <4>1 DEF NamesOK, StartOK
    <3>3. Begin(u)' = b
      <4>1. ~(Len(log'[u]) < b.offset)
        <5>1. Len(l) \in Nat
          BY <1>1, LenProperties DEF TypeOK
        <5> QED BY <1>2, <3>1, <5>1
      <4> QED BY <3>1, <4>1 DEF Begin
    <3>4. /\ l \in Seq(Line) /\ g \in Nat /\ counted[u] = 0 /\ Origin(l, g) = 0
          /\ r.gen \in Nat
      BY <1>1, <1>2, <3>1 DEF TypeOK, FileOK, LedgerOK, Row
    <3>5. y.epoch = r.gen + 1 /\ y.total = 0 /\ y.at = g
      BY <1>2, <3>1, <3>3, <3>4 DEF Anchor, Place
    <3>6. a.n = 0 /\ a.b = g /\ a.w = source[u] /\ a.t = 0
      BY <1>2, <2>2, <3>1, <3>4 DEF Account
    <3> HIDE DEF b, y, a
    <3>7. Covered(a, u, queue, y)
      <4>1. \A m : m.epoch = 0 => Charged(a, m, y)
        BY <3>4, <3>5, <3>6 DEF Charged
      <4>2. a.w # NoCounter => a.w.epoch = 0
        BY <1>1, <1>2, <3>6 DEF NamesOK, FirstsOK
      <4>3. \A i \in Baselines(queue, u) : queue[i].epoch = 0
        BY <1>1 DEF QueueOK, Baselines
      <4> QED BY <4>1, <4>2, <4>3 DEF Covered
    <3>8. ASSUME Fresh(a, u, queue)
          PROVE  erased[u] = 0 /\ (l # <<>> => ChargedFirst(a, l[1]))
      <4>1. Fresh(Account(u), u, queue)
        BY <3>6, <3>8 DEF Fresh, Account
      <4>2. erased[u] = 0
        BY <1>1, <2>1, <4>1 DEF ChainOK, IdleOK
      <4>3. ASSUME l # <<>> PROVE ChargedFirst(a, l[1])
        <5>1. 1 \in 1..Len(l)
          <6>1. Len(l) \in Nat /\ Len(l) # 0
            BY <3>4, <4>3, EmptySeq, LenProperties
          <6> QED BY <6>1
        <5>2. l[1].total \in Nat /\ l[1].at \in Nat
          BY <3>4, <5>1, LineFields
        <5>3. l[1].total - (l[1].at - g) = 0
          BY <3>4, <4>3 DEF Origin
        <5>4. l[1].at - g <= 0 + l[1].total - 0
          BY <3>4, <5>2, <5>3
        <5>5. (IF l[1].total < 0 THEN 0 ELSE 0) = 0
          OBVIOUS
        <5> QED BY <3>6, <5>4, <5>5 DEF ChargedFirst
      <4> QED BY <4>2, <4>3
    <3>9. ChainOK(u)'
      <4>1. HeadOK(u)' /\ LinksOK(u)'
        BY <1>2, <2>1 DEF HeadOK, LinksOK, FirstOf, LastOf, Adjacent
      <4>2. y.at - g <= 0
        BY <3>4, <3>5
      <4>3. IdleOK(u)'
        BY <1>2, <2>2, <3>1, <3>3, <3>4, <3>7, <3>8, <4>2 DEF IdleOK, a, y, Heir
      <4> QED BY <4>1, <4>3 DEF ChainOK
    <3>10. NamesOK(u)'
      <4>1. FirstsOK(u)'
        BY <1>1, <1>2 DEF NamesOK, FirstsOK
      <4>2. StartOK(u)'
        <5>1. 1 \notin 2..Len(l)
          OBVIOUS
        <5>2. b.first = b.offset + 1
          BY <3>1
        <5> QED BY <1>2, <3>1, <3>2, <3>3, <5>1, <5>2 DEF StartOK, b
      <4>3. TurnsInOrder(u)'
        <5>1. TurnsOK(l, Begin(u).offset, Begin(u).turn, turn[u])
          BY <1>1 DEF NamesOK, TurnsInOrder
        <5>2. ASSUME NEW k \in 1..Len(l) PROVE l[k].turn # 0 => 0 < l[k].turn
          <6>1. l[k] \in Line
            BY <3>4, ElementOfSeq
          <6>2. l[k].turn \in Nat
            BY <6>1 DEF Line
          <6> QED BY <6>2
        <5>3. 0 <= turn[u]
          BY <1>1 DEF TypeOK
        <5>4. TurnsOK(l, 0, 0, turn[u])
          BY <5>1, <5>2, <5>3 DEF TurnsOK
        <5> QED BY <1>2, <3>1, <3>2, <3>3, <5>4 DEF TurnsInOrder
      <4>4. ForkOK(u)'
        BY <1>2 DEF ForkOK
      <4>5. EpochsOK(u)'
        BY <1>2, <2>1 DEF EpochsOK
      <4>6. KeysOK(u)'
        BY <1>2 DEF KeysOK, ResponseKeys, CounterKeys
      <4> QED BY <4>1, <4>2, <4>3, <4>4, <4>5, <4>6 DEF NamesOK
    <3> QED BY <3>9, <3>10
  <2> QED BY <2>3, <2>4
<1> QED BY <1>4

-----------------------------------------------------------------------------
(* The server.                                                             *)

(* The events of a file behind the head of the queue.                      *)
LEMMA TailSets ==
  ASSUME NEW u \in Source, NEW q \in Seq(Event), NEW Q \in Seq(Event),
         Len(q) = Len(Q) + 1, \A i \in 1..Len(Q) : Q[i] = q[i + 1]
  PROVE  /\ Pending(q, u) \subseteq 1..Len(q) /\ Pending(Q, u) \subseteq 1..Len(Q)
         /\ \A j \in Pending(Q, u) :
              j \in 1..Len(Q) /\ j + 1 \in Pending(q, u) /\ Q[j] = q[j + 1]
         /\ \A i \in Baselines(Q, u) :
              i \in 1..Len(Q) /\ i + 1 \in Baselines(q, u) /\ Q[i] = q[i + 1]
         /\ Baselines(Q, u) = {} => Baselines(q, u) \subseteq {1}
         /\ \A j, k : Adjacent(Pending(Q, u), j, k) => Adjacent(Pending(q, u), j + 1, k + 1)
         /\ \A j : LastOf(Pending(Q, u), j) => LastOf(Pending(q, u), j + 1)
         /\ \A j : FirstOf(Pending(Q, u), j) =>
              IF 1 \in Pending(q, u) THEN Adjacent(Pending(q, u), 1, j + 1)
                                     ELSE FirstOf(Pending(q, u), j + 1)
         /\ Pending(Q, u) = {} =>
              IF 1 \in Pending(q, u) THEN LastOf(Pending(q, u), 1) ELSE Pending(q, u) = {}
<1> DEFINE P == Pending(q, u)
           R == Pending(Q, u)
<1>1. Len(q) \in Nat /\ Len(Q) \in Nat
  BY LenProperties
<1>2. P \subseteq 1..Len(q) /\ R \subseteq 1..Len(Q)
  BY DEF Pending
<1>3. \A j \in 1..Len(Q) :
        /\ j \in Nat /\ j + 1 \in 1..Len(q) /\ Q[j] = q[j + 1]
        /\ j \in R <=> j + 1 \in P
        /\ j \in Baselines(Q, u) <=> j + 1 \in Baselines(q, u)
  BY <1>1 DEF Pending, Baselines
<1>4. \A i \in 1..Len(q) : i # 1 => i - 1 \in 1..Len(Q) /\ (i - 1) + 1 = i
  BY <1>1
<1>5. \A i \in P : i \in Nat /\ (i = 1 \/ (i - 1 \in R /\ (i - 1) + 1 = i))
  BY <1>1, <1>2, <1>3, <1>4
<1>6. \A i \in Baselines(Q, u) :
        i \in 1..Len(Q) /\ i + 1 \in Baselines(q, u) /\ Q[i] = q[i + 1]
  BY <1>3 DEF Baselines
<1>7. Baselines(Q, u) = {} => Baselines(q, u) \subseteq {1}
  <2> SUFFICES ASSUME Baselines(Q, u) = {}, NEW i \in Baselines(q, u), i # 1 PROVE FALSE
    OBVIOUS
  <2>1. i \in 1..Len(q)
    BY DEF Baselines
  <2>2. i - 1 \in 1..Len(Q) /\ (i - 1) + 1 = i
    BY <1>4, <2>1
  <2>3. i - 1 \in Baselines(Q, u)
    BY <1>3, <2>2
  <2> QED BY <2>3
<1>8. \A j \in R : j \in 1..Len(Q) /\ j \in Nat /\ j + 1 \in P /\ Q[j] = q[j + 1]
  BY <1>2, <1>3
<1> HIDE DEF P, R
<1>9. \A j, k : Adjacent(R, j, k) => Adjacent(P, j + 1, k + 1)
  <2> SUFFICES ASSUME NEW j, NEW k, Adjacent(R, j, k) PROVE Adjacent(P, j + 1, k + 1)
    OBVIOUS
  <2>1. j \in R /\ k \in R /\ j < k /\ \A i \in R : i <= j \/ k <= i
    BY DEF Adjacent
  <2>2. j \in Nat /\ k \in Nat /\ j + 1 \in P /\ k + 1 \in P
    BY <1>8, <2>1
  <2>3. ASSUME NEW i \in P PROVE i <= j + 1 \/ k + 1 <= i
    BY <1>5, <2>1, <2>2
  <2> QED BY <2>1, <2>2, <2>3 DEF Adjacent
<1>10. \A j : LastOf(R, j) => LastOf(P, j + 1)
  <2> SUFFICES ASSUME NEW j, LastOf(R, j) PROVE LastOf(P, j + 1)
    OBVIOUS
  <2>1. j \in R /\ \A i \in R : i <= j
    BY DEF LastOf
  <2>2. j \in Nat /\ j + 1 \in P
    BY <1>8, <2>1
  <2>3. ASSUME NEW i \in P PROVE i <= j + 1
    BY <1>5, <2>1, <2>2
  <2> QED BY <2>2, <2>3 DEF LastOf
<1>11. \A j : FirstOf(R, j) =>
         IF 1 \in P THEN Adjacent(P, 1, j + 1) ELSE FirstOf(P, j + 1)
  <2> SUFFICES ASSUME NEW j, FirstOf(R, j)
               PROVE  IF 1 \in P THEN Adjacent(P, 1, j + 1) ELSE FirstOf(P, j + 1)
    OBVIOUS
  <2>1. j \in R /\ \A i \in R : j <= i
    BY DEF FirstOf
  <2>2. j \in 1..Len(Q) /\ j \in Nat /\ j + 1 \in P /\ 1 < j + 1
    BY <1>8, <2>1
  <2>3. ASSUME NEW i \in P PROVE i = 1 \/ j + 1 <= i
    BY <1>5, <2>1, <2>2
  <2>4. \A i \in P : i = 1 => i <= 1
    OBVIOUS
  <2> QED BY <2>2, <2>3, <2>4 DEF Adjacent, FirstOf
<1>12. R = {} => IF 1 \in P THEN LastOf(P, 1) ELSE P = {}
  BY <1>5 DEF LastOf
<1> QED BY <1>2, <1>6, <1>7, <1>8, <1>9, <1>10, <1>11, <1>12 DEF P, R

(* Turns and epochs of a file stay in order when the head is applied.      *)
LEMMA NamesPast ==
  ASSUME TypeOK, queue # <<>>, queue' = Tail(queue),
         UNCHANGED <<log, turn, erased, row, firstPass>>,
         NEW u \in Source, NamesOK(u), KeysOK(u)',
         Baselines(queue', u) # {} /\ source'[u] # NoCounter => source'[u].epoch = 0,
         keys' = {} => /\ keys = {} /\ 1 \notin Pending(queue, u)
                       /\ source'[u] # NoCounter => source'[u].epoch = 0
  PROVE  NamesOK(u)'
<1> DEFINE q == queue
           Q == queue'
           P == Pending(queue, u)
           R == Pending(queue', u)
<1>1. /\ q \in Seq(Event) /\ Q \in Seq(Event) /\ Len(q) = Len(Q) + 1
      /\ Len(q) \in Nat /\ Len(Q) \in Nat
      /\ \A i \in 1..Len(Q) : Q[i] = q[i + 1]
  <2>1. /\ Tail(q) \in Seq(Event) /\ Len(q) \in Nat /\ Len(Tail(q)) = Len(q) - 1
        /\ \A i \in 1..Len(q) - 1 : Tail(q)[i] = q[i + 1]
    BY HeadType
  <2>2. Q \in Seq(Event) /\ Len(Q) = Len(q) - 1 /\ \A i \in 1..Len(Q) : Q[i] = q[i + 1]
    BY <2>1
  <2>3. Len(Q) \in Nat
    BY <2>2, LenProperties
  <2> QED BY <2>1, <2>2, <2>3 DEF TypeOK
<1>2. /\ P \subseteq 1..Len(q) /\ R \subseteq 1..Len(Q)
      /\ \A j \in R : j \in 1..Len(Q) /\ j + 1 \in P /\ Q[j] = q[j + 1]
      /\ \A i \in Baselines(Q, u) :
           i \in 1..Len(Q) /\ i + 1 \in Baselines(q, u) /\ Q[i] = q[i + 1]
      /\ R = {} => IF 1 \in P THEN LastOf(P, 1) ELSE P = {}
  <2>1. /\ q \in Seq(Event) /\ Q \in Seq(Event) /\ Len(q) = Len(Q) + 1
        /\ \A i \in 1..Len(Q) : Q[i] = q[i + 1]
    BY <1>1
  <2> HIDE DEF P, R, q, Q
  <2>2. Pending(q, u) \subseteq 1..Len(q) /\ Pending(Q, u) \subseteq 1..Len(Q)
    BY <2>1, TailSets
  <2>3. \A j \in Pending(Q, u) :
              j \in 1..Len(Q) /\ j + 1 \in Pending(q, u) /\ Q[j] = q[j + 1]
    BY <2>1, TailSets
  <2>4. \A i \in Baselines(Q, u) :
              i \in 1..Len(Q) /\ i + 1 \in Baselines(q, u) /\ Q[i] = q[i + 1]
    BY <2>1, TailSets
  <2>5. Pending(Q, u) = {} =>
          IF 1 \in Pending(q, u) THEN LastOf(Pending(q, u), 1) ELSE Pending(q, u) = {}
    BY <2>1, TailSets
  <2> QED BY <2>2, <2>3, <2>4, <2>5 DEF P, R, q, Q
<1>3. Begin(u)' = Begin(u)
  BY DEF Begin
<1> HIDE DEF P, R
<1>4. FirstsOK(u)'
  <2>1. ASSUME NEW i \in Baselines(Q, u), NEW j \in R PROVE i < j
    <3>1. i + 1 < j + 1
      BY <1>2 DEF NamesOK, FirstsOK, P
    <3>2. i \in 1..Len(Q) /\ j \in 1..Len(Q)
      BY <1>2
    <3> QED BY <3>1, <3>2
  <2> QED BY <2>1 DEF FirstsOK, R
<1>5. StartOK(u)'
  <2>1. /\ ~Begin(u).init =>
             /\ Begin(u).first = Begin(u).offset + 1
             /\ Begin(u).first \in 2..Len(log[u]) => ~Falls(log[u], Begin(u).first)
        /\ Begin(u).turn # 0 => keys # {} \/ P # {}
    BY DEF NamesOK, StartOK, P
  <2>2. Begin(u).turn # 0 => keys' # {} \/ R # {}
    BY <1>2, <2>1 DEF P
  <2>3. firstPass' /\ row'[u] = NoRow /\ Naming = "in usage lines" =>
          \A k \in 2..Len(log'[u]) : ~Falls(log'[u], k)
    BY DEF NamesOK, StartOK
  <2> QED BY <1>3, <2>1, <2>2, <2>3 DEF StartOK, R
<1>6. TurnsInOrder(u)'
  BY <1>3 DEF NamesOK, TurnsInOrder
<1>7. ForkOK(u)'
  BY <1>2, <1>3 DEF NamesOK, ForkOK, P, R
<1>8. EpochsOK(u)'
  <2>1. ASSUME NEW j \in R
        PROVE  /\ Q[j].turn <= Begin(u).turn
               /\ Begin(u).offset > 0 =>
                    Steady(Q[j].turn, Q[j].epoch, Begin(u).turn, Begin(u).gen)
    BY <1>2 DEF NamesOK, EpochsOK, P
  <2>2. ASSUME NEW j \in R, NEW k \in R, j < k
        PROVE  Steady(Q[j].turn, Q[j].epoch, Q[k].turn, Q[k].epoch)
    <3>1. j + 1 < k + 1
      BY <1>2, <2>2
    <3> QED BY <1>2, <3>1 DEF NamesOK, EpochsOK, P
  <2> QED BY <1>3, <2>1, <2>2 DEF EpochsOK, R
<1> QED BY <1>4, <1>5, <1>6, <1>7, <1>8 DEF NamesOK

(* The queue behind its head.                                              *)
LEMMA Behind ==
  ASSUME TypeOK, queue # <<>>, queue' = Tail(queue)
  PROVE  /\ queue \in Seq(Event) /\ queue' \in Seq(Event)
         /\ Len(queue) \in Nat /\ Len(queue') \in Nat /\ Len(queue) = Len(queue') + 1
         /\ \A i \in 1..Len(queue') : queue'[i] = queue[i + 1]
         /\ 1 \in 1..Len(queue) /\ Head(queue) = queue[1] /\ queue[1] \in Event
<1>1. /\ Tail(queue) \in Seq(Event) /\ Len(queue) \in Nat
      /\ Len(Tail(queue)) = Len(queue) - 1
      /\ \A i \in 1..Len(queue) - 1 : Tail(queue)[i] = queue[i + 1]
      /\ Head(queue) = queue[1] /\ Head(queue) \in Event
  BY HeadType
<1>2. queue' \in Seq(Event) /\ Len(queue') = Len(queue) - 1 /\ queue \in Seq(Event)
      /\ \A i \in 1..Len(queue') : queue'[i] = queue[i + 1]
  BY <1>1 DEF TypeOK
<1>3. Len(queue') \in Nat
  BY <1>2, LenProperties
<1>4. 1 \in 1..Len(queue) /\ Len(queue) = Len(queue') + 1
  BY <1>1, <1>2, <1>3
<1> QED BY <1>1, <1>2, <1>3, <1>4

(* A file whose first event is behind the head keeps its chain, if what it *)
(* is to be compared with charges it no less.                              *)
LEMMA ChainPassed ==
  ASSUME TypeOK, queue # <<>>, queue' = Tail(queue),
         UNCHANGED <<log, erased, spent, gone, row, base>>,
         NEW u \in Source, ChainOK(u), 1 \notin Pending(queue, u),
         counted'[u] = counted[u],
         \A f : IsMark(f) /\ Covered(Account(u), u, queue, f) =>
                  Covered(Account(u)', u, queue', f),
         Fresh(Account(u)', u, queue') =>
           /\ Fresh(Account(u), u, queue)
           /\ (Heir(u) /\ queue[1].src = Parent[u]) \/ Account(u)' = Account(u),
         IsMark(Anchor(u))
  PROVE  ChainOK(u)'
<1> DEFINE q == queue
           Q == queue'
           a == Account(u)
           c == Account(u)'
           x == Anchor(u)
<1>1. /\ q \in Seq(Event) /\ Q \in Seq(Event) /\ Len(q) = Len(Q) + 1
      /\ \A i \in 1..Len(Q) : Q[i] = q[i + 1]
  BY Behind
<1>2. Len(q) \in Nat /\ Len(Q) \in Nat /\ 1 \in 1..Len(q)
  BY Behind
<1>3. Begin(u)' = Begin(u) /\ Anchor(u)' = x
  BY DEF Begin, Anchor
<1>4. \A i \in 1..Len(q) : IsMark(q[i])
  BY Numbers
<1>5. \A f : IsMark(f) /\ Covered(a, u, q, f) => Covered(c, u, Q, f)
  OBVIOUS
<1>6. Fresh(c, u, Q) =>
           /\ Fresh(a, u, q)
           /\ (Heir(u) /\ q[1].src = Parent[u]) \/ c = a
  OBVIOUS
<1> HIDE DEF q, Q, a, c, x
<1>7. /\ \A j \in Pending(Q, u) :
              j \in 1..Len(Q) /\ j + 1 \in Pending(q, u) /\ Q[j] = q[j + 1]
  BY <1>1, TailSets
<1>8. 1 \notin Pending(q, u)
  BY DEF q
<1>9. HeadOK(u)'
  <2>1. ASSUME NEW j \in 1..Len(Q), FirstOf(Pending(Q, u), j)
        PROVE  /\ Covered(c, u, Q, Q[j])
               /\ Fresh(c, u, Q) =>
                    /\ ChargedFirst(c, Q[j])
                    /\ Heir(u) => \A i \in 1..j : Q[i].src # Parent[u]
    <3>1. FirstOf(Pending(q, u), j + 1)
      BY <1>1, <1>8, <2>1, TailSets
    <3>2. j + 1 \in 1..Len(q) /\ Q[j] = q[j + 1] /\ IsMark(q[j + 1])
      BY <1>1, <1>2, <1>4
    <3>3. /\ Covered(a, u, q, q[j + 1])
          /\ Fresh(a, u, q) =>
               /\ ChargedFirst(a, q[j + 1])
               /\ Heir(u) => \A i \in 1..j + 1 : q[i].src # Parent[u]
      BY <3>1, <3>2 DEF ChainOK, HeadOK, a, q
    <3>4. ASSUME Fresh(c, u, Q)
          PROVE  /\ ChargedFirst(c, Q[j])
                 /\ Heir(u) => \A i \in 1..j : Q[i].src # Parent[u]
      <4>1. 1 \in 1..j + 1
        OBVIOUS
      <4>2. c = a
        BY <1>6, <3>3, <3>4, <4>1
      <4>3. \A i \in 1..j : i + 1 \in 1..j + 1 /\ Q[i] = q[i + 1]
        BY <1>1, <1>2
      <4> QED BY <1>6, <3>2, <3>3, <3>4, <4>2, <4>3
    <3> QED BY <1>5, <3>2, <3>3, <3>4
  <2> QED BY <2>1 DEF HeadOK, Heir, c, Q
<1>10. LinksOK(u)'
  <2>1. ASSUME NEW j \in 1..Len(Q), NEW k \in 1..Len(Q), Adjacent(Pending(Q, u), j, k)
        PROVE  Leads(Q[j], Q[k])
    <3>1. Adjacent(Pending(q, u), j + 1, k + 1)
      BY <1>1, <2>1, TailSets
    <3>2. /\ j + 1 \in 1..Len(q) /\ k + 1 \in 1..Len(q)
          /\ Q[j] = q[j + 1] /\ Q[k] = q[k + 1]
      BY <1>1, <1>2
    <3> QED BY <3>1, <3>2 DEF ChainOK, LinksOK, q
  <2>2. ASSUME NEW j \in 1..Len(Q), LastOf(Pending(Q, u), j)
        PROVE  Leads(Q[j], x) /\ x.at = Q[j].at
    <3>1. LastOf(Pending(q, u), j + 1)
      BY <1>1, <2>2, TailSets
    <3>2. j + 1 \in 1..Len(q) /\ Q[j] = q[j + 1]
      BY <1>1, <1>2
    <3> QED BY <3>1, <3>2 DEF ChainOK, LinksOK, q, x
  <2> QED BY <1>3, <2>1, <2>2 DEF LinksOK, Q
<1>11. IdleOK(u)'
  <2> SUFFICES ASSUME Pending(Q, u) = {}
               PROVE  /\ x.at - base[u] <= counted[u]
                      /\ Covered(c, u, Q, x)
                      /\ Fresh(c, u, Q) =>
                           /\ Begin(u).offset = 0 /\ erased[u] = 0
                           /\ log[u] # <<>> =>
                                /\ ChargedFirst(c, log[u][1])
                                /\ Heir(u) => /\ ParentRead(Parent[u])
                                              /\ \A i \in 1..Len(Q) : Q[i].src # Parent[u]
    BY <1>3 DEF IdleOK, c, Q, Heir, ParentRead
  <2>1. Pending(q, u) = {}
    BY <1>1, <1>8, TailSets
  <2>2. /\ x.at - base[u] <= counted[u]
        /\ Covered(a, u, q, x)
        /\ Fresh(a, u, q) =>
             /\ Begin(u).offset = 0 /\ erased[u] = 0
             /\ log[u] # <<>> =>
                  /\ ChargedFirst(a, log[u][1])
                  /\ Heir(u) => /\ ParentRead(Parent[u])
                                /\ \A i \in 1..Len(q) : q[i].src # Parent[u]
    BY <2>1 DEF ChainOK, IdleOK, a, q, x
  <2>3. ASSUME Fresh(c, u, Q), log[u] # <<>>
        PROVE  /\ ChargedFirst(c, log[u][1])
               /\ Heir(u) => /\ ParentRead(Parent[u])
                             /\ \A i \in 1..Len(Q) : Q[i].src # Parent[u]
    <3>1. c = a
      BY <1>2, <1>6, <2>2, <2>3
    <3>2. \A i \in 1..Len(Q) : i + 1 \in 1..Len(q) /\ Q[i] = q[i + 1]
      BY <1>1, <1>2
    <3> QED BY <1>6, <2>2, <2>3, <3>1, <3>2
  <2>4. Covered(c, u, Q, x)
    BY <1>5, <2>2 DEF x
  <2> QED BY <1>6, <2>2, <2>3, <2>4
<1> QED BY <1>9, <1>10, <1>11 DEF ChainOK

(* A file whose first event was charged in full keeps its chain: what this *)
(* event leads to charges enough.                                          *)
LEMMA ChainCharged ==
  ASSUME TypeOK, TypeOK', queue # <<>>, queue' = Tail(queue),
         UNCHANGED <<log, erased, spent, gone, row, base>>,
         NEW u \in Source, ChainOK(u), 1 \in Pending(queue, u),
         source'[u] # NoCounter, Covered(Account(u)', u, queue', queue[1]),
         queue[1].at - base[u] <= counted'[u],
         IsMark(Anchor(u))
  PROVE  ChainOK(u)'
<1> DEFINE q == queue
           Q == queue'
           c == Account(u)'
           x == Anchor(u)
           h == queue[1]
<1>1. /\ q \in Seq(Event) /\ Q \in Seq(Event) /\ Len(q) = Len(Q) + 1
      /\ \A i \in 1..Len(Q) : Q[i] = q[i + 1]
  BY Behind
<1>2. Len(q) \in Nat /\ Len(Q) \in Nat /\ 1 \in 1..Len(q)
  BY Behind
<1>3. Begin(u)' = Begin(u) /\ Anchor(u)' = x
  BY DEF Begin, Anchor
<1>4. \A i \in 1..Len(q) : IsMark(q[i])
  BY Numbers
<1>5. /\ IsAccount(c) /\ ~Fresh(c, u, Q) /\ Covered(c, u, Q, h) /\ h.at - c.b <= c.n
      /\ IsMark(h) /\ h = q[1]
  <2>1. IsAccount(c)
    BY AccountAfter
  <2>2. ~Fresh(c, u, Q) /\ h.at - c.b <= c.n
    BY DEF Fresh, Account
  <2> QED BY <1>2, <1>4, <2>1, <2>2
<1>6. 1 \in Pending(q, u)
  OBVIOUS
<1> HIDE DEF q, Q, c, x, h
<1>7. HeadOK(u)'
  <2>1. ASSUME NEW j \in 1..Len(Q), FirstOf(Pending(Q, u), j)
        PROVE  Covered(c, u, Q, Q[j])
    <3>1. Adjacent(Pending(q, u), 1, j + 1)
      BY <1>1, <1>6, <2>1, TailSets
    <3>2. j + 1 \in 1..Len(q) /\ Q[j] = q[j + 1] /\ IsMark(q[j + 1])
      BY <1>1, <1>2, <1>4
    <3>3. Leads(h, q[j + 1])
      BY <1>2, <1>5, <3>1, <3>2 DEF ChainOK, LinksOK, q
    <3> QED BY <1>1, <1>5, <3>2, <3>3, CoveredOn
  <2> QED BY <1>5, <2>1 DEF HeadOK, c, Q
<1>8. LinksOK(u)'
  <2>1. ASSUME NEW j \in 1..Len(Q), NEW k \in 1..Len(Q), Adjacent(Pending(Q, u), j, k)
        PROVE  Leads(Q[j], Q[k])
    <3>1. Adjacent(Pending(q, u), j + 1, k + 1)
      BY <1>1, <2>1, TailSets
    <3>2. /\ j + 1 \in 1..Len(q) /\ k + 1 \in 1..Len(q)
          /\ Q[j] = q[j + 1] /\ Q[k] = q[k + 1]
      BY <1>1, <1>2
    <3> QED BY <3>1, <3>2 DEF ChainOK, LinksOK, q
  <2>2. ASSUME NEW j \in 1..Len(Q), LastOf(Pending(Q, u), j)
        PROVE  Leads(Q[j], x) /\ x.at = Q[j].at
    <3>1. LastOf(Pending(q, u), j + 1)
      BY <1>1, <2>2, TailSets
    <3>2. j + 1 \in 1..Len(q) /\ Q[j] = q[j + 1]
      BY <1>1, <1>2
    <3> QED BY <3>1, <3>2 DEF ChainOK, LinksOK, q, x
  <2> QED BY <1>3, <2>1, <2>2 DEF LinksOK, Q
<1>9. IdleOK(u)'
  <2> SUFFICES ASSUME Pending(Q, u) = {}
               PROVE  x.at - base[u] <= counted'[u] /\ Covered(c, u, Q, x)
    BY <1>3, <1>5 DEF IdleOK, c, Q
  <2>1. LastOf(Pending(q, u), 1)
    BY <1>1, <1>6, TailSets
  <2>2. Leads(h, x) /\ x.at = h.at
    BY <1>2, <1>5, <2>1 DEF ChainOK, LinksOK, q, x
  <2>3. x.at - base[u] <= counted'[u]
    BY <2>2 DEF h
  <2>4. IsMark(x)
    BY DEF x
  <2> QED BY <1>1, <1>5, <2>2, <2>3, <2>4, CoveredOn
<1> QED BY <1>7, <1>8, <1>9 DEF ChainOK

(* The keys in the ledger: a new one names the file of its event.          *)
LEMMA ApplyKeys ==
  ASSUME Apply, Head(queue).conv[1] = Head(queue).src
  PROVE  /\ keys' \subseteq keys \cup {DedupKey(Head(queue))}
         /\ keys \subseteq keys'
         /\ Head(queue).type = "baseline" => keys' = keys
         /\ UNCHANGED <<turn, firstPass>>
         /\ \A u : u # Head(queue).src =>
              /\ ResponseKeys(keys', u) = ResponseKeys(keys, u)
              /\ CounterKeys(keys', u) = CounterKeys(keys, u)
<1> DEFINE h == Head(queue)
<1>1. IF h.type = "baseline" THEN ApplyBaseline(h) ELSE ApplyExact(h)
  BY DEF Apply
<1>2. UNCHANGED <<turn, firstPass>>
  BY DEF Apply, codex, agent
<1>3. h.conv[1] = h.src
  OBVIOUS
<1> HIDE DEF h
<1>4. /\ keys' \subseteq keys \cup {DedupKey(h)} /\ keys \subseteq keys'
      /\ h.type = "baseline" => keys' = keys
  BY <1>1 DEF ApplyBaseline, ApplyExact, server
<1>5. ASSUME NEW u, u # h.src
      PROVE  /\ ResponseKeys(keys', u) = ResponseKeys(keys, u)
             /\ CounterKeys(keys', u) = CounterKeys(keys, u)
  <2> DEFINE k == DedupKey(h)
  <2>1. CASE h.turn # 0
    <3>1. k[1] = "response" /\ k[2] = h.src
      BY <2>1 DEF DedupKey
    <3> HIDE DEF k
    <3>2. k \notin ResponseKeys(keys', u) /\ k \notin CounterKeys(keys', u)
      BY <1>5, <3>1 DEF ResponseKeys, CounterKeys
    <3> QED BY <1>4, <3>2 DEF ResponseKeys, CounterKeys, k
  <2>2. CASE h.turn = 0
    <3>1. k[1] = "counter" /\ k[2] = h.conv
      BY <2>2 DEF DedupKey
    <3> HIDE DEF k
    <3>2. k \notin ResponseKeys(keys', u) /\ k \notin CounterKeys(keys', u)
      BY <1>3, <1>5, <3>1 DEF ResponseKeys, CounterKeys
    <3> QED BY <1>4, <3>2 DEF ResponseKeys, CounterKeys, k
  <2> QED BY <2>1, <2>2
<1> QED BY <1>2, <1>4, <1>5 DEF h

(* An event of another file leaves a file's chain as it was.               *)
LEMMA OtherExact ==
  ASSUME EInv, TypeOK', Apply, NEW u \in Source, u # Head(queue).src
  PROVE  ChainOK(u)' /\ NamesOK(u)'
<1> DEFINE q == queue
           Q == queue'
           a == Account(u)
           c == Account(u)'
           h == Head(queue)
<1>1. TypeOK /\ QueueOK /\ FileOK(u) /\ ChainOK(u) /\ NamesOK(u)
  BY DEF EInv, IInv
<1>2. /\ q # <<>> /\ Q = Tail(q)
      /\ UNCHANGED <<log, erased, spent, gone, row, base>>
      /\ h \in Event /\ h.src \in Source /\ h.conv[1] = h.src
      /\ \A p \in Source : p # h.src =>
           /\ source'[p] = source[p] /\ counted'[p] = counted[p]
           /\ \A name \in {"main", "derived"} : conv'[<<p, name>>] = conv[<<p, name>>]
  BY <1>1, ApplyLocal
<1>3. /\ q \in Seq(Event) /\ Q \in Seq(Event) /\ Len(q) = Len(Q) + 1
      /\ \A i \in 1..Len(Q) : Q[i] = q[i + 1]
      /\ h = q[1]
  BY <1>1, <1>2, Behind
<1>4. /\ keys \subseteq keys' /\ UNCHANGED <<turn, firstPass>>
      /\ ResponseKeys(keys', u) = ResponseKeys(keys, u)
      /\ CounterKeys(keys', u) = CounterKeys(keys, u)
  BY <1>2, ApplyKeys
<1>5. source'[u] = source[u] /\ counted'[u] = counted[u] /\ Begin(u)' = Begin(u)
  BY <1>2 DEF Begin
<1>6. 1 \notin Pending(q, u) /\ 1 \notin Baselines(q, u)
  BY <1>3 DEF Pending, Baselines
<1>7. /\ \A i \in Baselines(Q, u) : i + 1 \in Baselines(q, u) /\ Q[i] = q[i + 1]
      /\ Baselines(Q, u) = {} => Baselines(q, u) \subseteq {1}
      /\ \A j \in Pending(Q, u) : j + 1 \in Pending(q, u) /\ Q[j] = q[j + 1]
  <2> HIDE DEF q, Q
  <2> QED BY <1>3, TailSets
<1>8. c.n = a.n /\ c.b = a.b /\ c.w = a.w
  BY <1>2, <1>5 DEF Account
<1>9. (Heir(u) /\ h.src = Parent[u]) \/ c = a
  <2>1. CASE Parent[u] \notin Source
    BY <1>2, <1>5, <2>1 DEF Account
  <2>2. CASE Parent[u] \in Source /\ Parent[u] # h.src
    <3>1. conv'[Main(Parent[u])] = conv[Main(Parent[u])]
      BY <1>2, <2>2 DEF Main
    <3> QED BY <1>2, <1>5, <3>1 DEF Account
  <2>3. CASE Parent[u] \in Source /\ Parent[u] = h.src
    BY <2>3 DEF Heir
  <2> QED BY <2>1, <2>2, <2>3
<1> HIDE DEF a, c
<1>10. \A f : Covered(a, u, q, f) => Covered(c, u, Q, f)
  <2>1. \A m, f : Charged(a, m, f) => Charged(c, m, f)
    BY <1>8 DEF Charged
  <2> QED BY <1>7, <1>8, <2>1 DEF Covered
<1>11. Fresh(c, u, Q) => Fresh(a, u, q) /\ ((Heir(u) /\ q[1].src = Parent[u]) \/ c = a)
  BY <1>3, <1>6, <1>7, <1>8, <1>9 DEF Fresh
<1>12. ChainOK(u)'
  <2>1. IsMark(Anchor(u))
    BY <1>1, Numbers DEF FileOK
  <2> QED BY <1>1, <1>2, <1>5, <1>6, <1>10, <1>11, <2>1, ChainPassed DEF a, c
<1>13. KeysOK(u)'
  <2>1. ASSUME NEW k \in ResponseKeys(keys, u) PROVE ResponseOK(u, k)'
    <3>1. ResponseOK(u, k)
      BY <1>1 DEF NamesOK, KeysOK
    <3> HIDE DEF q, Q
    <3>2. \A j \in Pending(Q, u) :
            /\ k[3] <= Q[j].turn
            /\ k[3] = Q[j].turn =>
                 Q[j].epoch = source[u].epoch /\ k[4] <= source[u].total
      BY <1>7, <3>1 DEF ResponseOK, q
    <3> QED BY <1>5, <3>1, <3>2 DEF ResponseOK, Q
  <2>2. ASSUME NEW k \in CounterKeys(keys, u) PROVE CounterOK(u, k)'
    BY <1>1, <1>5 DEF NamesOK, KeysOK, CounterOK
  <2> QED BY <1>4, <2>1, <2>2 DEF KeysOK
<1>14. NamesOK(u)'
  <2>1. Baselines(Q, u) # {} /\ source'[u] # NoCounter => source'[u].epoch = 0
    <3>1. Baselines(Q, u) # {} => Baselines(q, u) # {}
      BY <1>7
    <3> QED BY <1>1, <1>5, <3>1 DEF NamesOK, FirstsOK
  <2>2. keys' = {} => /\ keys = {} /\ 1 \notin Pending(q, u)
                      /\ source'[u] # NoCounter => source'[u].epoch = 0
    BY <1>1, <1>4, <1>5, <1>6 DEF NamesOK, FirstsOK
  <2> QED BY <1>1, <1>2, <1>4, <1>13, <2>1, <2>2, NamesPast
<1> QED BY <1>12, <1>14

(* A baseline for the file itself becomes its watermark, or leaves it.     *)
LEMMA BaselineTaken ==
  ASSUME EInv, TypeOK', Apply, NEW s \in Source, s = Head(queue).src,
         Head(queue).type = "baseline"
  PROVE  ChainOK(s)' /\ NamesOK(s)'
<1> DEFINE q == queue
           Q == queue'
           a == Account(s)
           c == Account(s)'
           h == Head(queue)
           w == source[s]
           v == source'[s]
<1>1. TypeOK /\ QueueOK /\ FileOK(s) /\ ChainOK(s) /\ NamesOK(s)
  BY DEF EInv, IInv
<1>2. /\ q # <<>> /\ Q = Tail(q)
      /\ UNCHANGED <<log, erased, spent, gone, row, base>>
      /\ h \in Event /\ h.src \in Source /\ h.conv[1] = h.src /\ h.epoch = 0
  BY <1>1, ApplyLocal
<1>3. /\ q \in Seq(Event) /\ Q \in Seq(Event) /\ Len(q) = Len(Q) + 1
      /\ \A i \in 1..Len(Q) : Q[i] = q[i + 1]
      /\ h = q[1] /\ 1 \in 1..Len(q)
  BY <1>1, <1>2, Behind
<1>4. keys' = keys /\ UNCHANGED <<turn, firstPass>>
  BY <1>2, ApplyKeys
<1>5. 1 \notin Pending(q, s) /\ 1 \in Baselines(q, s)
  BY <1>3 DEF Pending, Baselines
<1>6. /\ \A i \in Baselines(Q, s) : i + 1 \in Baselines(q, s) /\ Q[i] = q[i + 1]
      /\ \A j \in Pending(Q, s) : j + 1 \in Pending(q, s) /\ Q[j] = q[j + 1]
  <2> HIDE DEF q, Q
  <2> QED BY <1>3, TailSets
<1>7. w # NoCounter => w.epoch = 0 /\ w.total \in Nat
  <2>1. w # NoCounter => w.epoch = 0
    BY <1>1, <1>5 DEF NamesOK, FirstsOK
  <2>2. w \in Counter \cup {NoCounter}
    BY <1>1 DEF TypeOK
  <2> QED BY <2>1, <2>2 DEF Counter
<1>8. h.total \in Nat /\ h.src = s
  BY <1>2 DEF Event
<1>9. /\ counted' = counted
      /\ v = IF w = NoCounter THEN [epoch |-> h.epoch, total |-> h.total]
             ELSE [epoch |-> IF h.epoch > w.epoch THEN h.epoch ELSE w.epoch,
                   total |-> IF h.total > w.total \/ h.epoch > w.epoch
                               THEN h.total ELSE w.total]
  <2>1. ApplyBaseline(h)
    BY DEF Apply
  <2> HIDE DEF h
  <2>2. source \in [Source -> Counter \cup {NoCounter}]
    BY <1>1 DEF TypeOK
  <2> QED BY <1>8, <2>1, <2>2 DEF ApplyBaseline
<1>10. /\ v # NoCounter /\ v.epoch = 0 /\ v.total \in Nat
       /\ v.total = h.total \/ (w # NoCounter /\ v.total = w.total)
       /\ w # NoCounter => w.total <= v.total
  <2> HIDE DEF w, v, h
  <2>1. CASE w = NoCounter
    <3>1. v = [epoch |-> 0, total |-> h.total]
      BY <1>2, <1>9, <2>1
    <3> QED BY <1>8, <2>1, <3>1 DEF NoCounter
  <2>2. CASE w # NoCounter
    <3>1. ~(h.epoch > w.epoch)
      BY <1>2, <1>7, <2>2
    <3>2. v = [epoch |-> 0, total |-> IF h.total > w.total THEN h.total ELSE w.total]
      BY <1>7, <1>9, <2>2, <3>1
    <3> QED BY <1>7, <1>8, <2>2, <3>2 DEF NoCounter
  <2> QED BY <2>1, <2>2
<1>11. c.n = a.n /\ c.b = a.b /\ c.w = v /\ a.w = w
  BY <1>2, <1>9 DEF Account
<1> HIDE DEF a, c, w, v
<1>12. \A f : Covered(a, s, q, f) => Covered(c, s, Q, f)
  <2> SUFFICES ASSUME NEW f, Covered(a, s, q, f) PROVE Covered(c, s, Q, f)
    OBVIOUS
  <2>1. \A m : Charged(a, m, f) => Charged(c, m, f)
    BY <1>11 DEF Charged
  <2>2. Charged(a, h, f) /\ (w # NoCounter => Charged(a, w, f))
    BY <1>3, <1>5, <1>11 DEF Covered
  <2>3. Charged(c, v, f)
    <3>1. CASE v.total = h.total
      <4>1. Charged(a, v, f)
        BY <1>2, <1>10, <2>2, <3>1 DEF Charged
      <4> QED BY <2>1, <4>1
    <3>2. CASE w # NoCounter /\ v.total = w.total
      <4>1. Charged(a, v, f)
        BY <1>7, <1>10, <2>2, <3>2 DEF Charged
      <4> QED BY <2>1, <4>1
    <3> QED BY <1>10, <3>1, <3>2
  <2>4. \A i \in Baselines(Q, s) : Charged(c, Q[i], f)
    BY <1>6, <2>1 DEF Covered
  <2> QED BY <1>11, <2>3, <2>4 DEF Covered
<1>13. ~Fresh(c, s, Q)
  BY <1>10, <1>11 DEF Fresh
<1>14. ChainOK(s)'
  <2>1. IsMark(Anchor(s)) /\ counted'[s] = counted[s]
    BY <1>1, <1>9, Numbers DEF FileOK
  <2> QED BY <1>1, <1>2, <1>5, <1>12, <1>13, <2>1, ChainPassed DEF a, c
<1>15. KeysOK(s)'
  <2>0. Begin(s)' = Begin(s)
    BY <1>2 DEF Begin
  <2>1. ASSUME NEW k \in ResponseKeys(keys, s) PROVE ResponseOK(s, k)'
    <3>1. ResponseOK(s, k)
      BY <1>1 DEF NamesOK, KeysOK
    <3>2. w # NoCounter /\ w.epoch = v.epoch /\ k[4] \in Nat
      BY <1>7, <1>10, <3>1 DEF ResponseOK, w
    <3>3. k[4] <= w.total => k[4] <= v.total
      BY <1>7, <1>10, <3>2
    <3> HIDE DEF q, Q
    <3>4. \A j \in Pending(Q, s) :
            /\ k[3] <= Q[j].turn
            /\ k[3] = Q[j].turn => Q[j].epoch = w.epoch /\ k[4] <= w.total
      BY <1>6, <3>1 DEF ResponseOK, q, w
    <3> QED BY <1>10, <2>0, <3>1, <3>2, <3>3, <3>4 DEF ResponseOK, Q, w, v
  <2>2. ASSUME NEW k \in CounterKeys(keys, s) PROVE CounterOK(s, k)'
    <3>1. CounterOK(s, k)
      BY <1>1 DEF NamesOK, KeysOK
    <3>2. w # NoCounter /\ w.epoch = v.epoch /\ k[3] \in Nat
      BY <1>7, <1>10, <3>1 DEF CounterOK, w
    <3>3. k[3] <= w.total => k[3] <= v.total
      BY <1>7, <1>10, <3>2
    <3> QED BY <1>10, <3>1, <3>2, <3>3 DEF CounterOK, w, v
  <2> QED BY <1>4, <2>1, <2>2 DEF KeysOK
<1>16. NamesOK(s)'
  <2>1. source'[s] # NoCounter => source'[s].epoch = 0
    BY <1>10 DEF v
  <2> QED BY <1>1, <1>2, <1>4, <1>5, <1>15, <2>1, NamesPast
<1> QED BY <1>14, <1>16

(* A file the server knows nothing of is compared with its parent's total, *)
(* or with nothing.                                                        *)
LEMMA FirstOld ==
  ASSUME TypeOK, NEW e \in Event, NEW s \in Source, s = e.src, e.conv[1] = s,
         LedgerOK(s), source[s] = NoCounter
  PROVE  /\ Old(e).epoch = 0 /\ Old(e).total = Account(s).t
         /\ Account(s).t # 0 => Parent[s] # NoParent
<1>1. e.conv = <<s, "main">> \/ e.conv = <<s, "derived">>
  BY DEF Event, Conversation
<1>2. conv[e.conv] = NoCounter /\ conv[Main(s)].total = 0
  BY <1>1 DEF LedgerOK, Main, NoCounter
<1>3. Account(s).t = IF Parent[s] \in Source THEN conv[Main(Parent[s])].total ELSE 0
  BY DEF Account
<1>4. Old(e) = [epoch |-> 0,
                total |-> IF HasParent(e) THEN conv[ParentConv(e)].total ELSE 0]
  BY <1>2 DEF Old
<1>5. CASE Parent[s] = NoParent
  <2>1. Account(s).t = 0 /\ ParentConv(e) = Main(s)
    BY <1>3, <1>5, LedgerAssumption DEF ParentConv
  <2> QED BY <1>2, <1>4, <2>1
<1>6. CASE Parent[s] # NoParent
  <2>1. Parent[s] \in Source
    BY <1>6, LedgerAssumption
  <2>2. HasParent(e) /\ ParentConv(e) = Main(Parent[s])
    BY <1>6 DEF HasParent, ParentConv
  <2> QED BY <1>3, <1>4, <1>6, <2>1, <2>2
<1> QED BY <1>5, <1>6

(* After e, the account of its file is charged with all that was used up   *)
(* to it, the watermark is of its epoch and no lower than its total.       *)
InFull(s, e) ==
  /\ source'[s] # NoCounter /\ source'[s].epoch = e.epoch
  /\ source'[s].total \in Nat /\ e.total <= source'[s].total
  /\ Charged(Account(s)', source'[s], e)
  /\ e.at - base[s] <= counted'[s]
  /\ source[s] # NoCounter =>
       \/ source[s].epoch < source'[s].epoch
       \/ source[s].epoch = source'[s].epoch /\ source[s].total <= source'[s].total

(* The first event of a file is at the head, and nothing of it before.     *)
LEMMA HeadFirst ==
  ASSUME TypeOK, queue # <<>>, NEW s \in Source, s = Head(queue).src,
         Head(queue).type # "baseline", ChainOK(s), NamesOK(s)
  PROVE  /\ 1 \in Pending(queue, s) /\ Baselines(queue, s) = {}
         /\ source[s] # NoCounter => Charged(Account(s), source[s], Head(queue))
         /\ source[s] = NoCounter => ChargedFirst(Account(s), Head(queue))
<1>1. Head(queue) = queue[1] /\ Head(queue) \in Event /\ Len(queue) \in Nat
  BY HeadType
<1>2. 1 \in 1..Len(queue)
  <2>1. Len(queue) # 0
    BY EmptySeq DEF TypeOK
  <2> QED BY <1>1, <2>1
<1>3. 1 \in Pending(queue, s)
  BY <1>1, <1>2 DEF Pending, Event
<1>4. Baselines(queue, s) = {}
  <2>1. \A i \in Baselines(queue, s) : i < 1 /\ i \in 1..Len(queue)
    BY <1>3 DEF NamesOK, FirstsOK, Baselines
  <2> QED BY <2>1
<1>5. FirstOf(Pending(queue, s), 1)
  <2>1. \A i \in Pending(queue, s) : 1 <= i
    BY DEF Pending
  <2> QED BY <1>3, <2>1 DEF FirstOf
<1>6. /\ Covered(Account(s), s, queue, Head(queue))
      /\ Fresh(Account(s), s, queue) => ChargedFirst(Account(s), Head(queue))
  BY <1>1, <1>2, <1>5 DEF ChainOK, HeadOK
<1>7. Account(s).w = source[s]
  BY DEF Account
<1> QED BY <1>3, <1>4, <1>6, <1>7 DEF Covered, Fresh

(* A dedup key found in the ledger: nothing was used since.                *)
LEMMA FoundKey ==
  ASSUME TypeOK, queue # <<>>, NEW s \in Source, s = Head(queue).src,
         Head(queue).type # "baseline", Head(queue).conv[1] = s,
         ChainOK(s), NamesOK(s), DedupKey(Head(queue)) \in keys
  PROVE  /\ source[s] # NoCounter /\ Head(queue).epoch = source[s].epoch
         /\ Head(queue).total <= source[s].total
<1> DEFINE h == Head(queue)
           w == source[s]
           k == DedupKey(h)
<1>1. /\ h = queue[1] /\ h \in Event
      /\ 1 \in Pending(queue, s)
      /\ w # NoCounter => Charged(Account(s), w, h)
  BY HeadType, HeadFirst
<1>2. h.epoch \in Nat /\ h.total \in Nat /\ h.turn \in Nat
  BY <1>1 DEF Event
<1>3. w # NoCounter => w.epoch \in Nat /\ w.total \in Nat
  <2>1. w \in Counter \cup {NoCounter}
    BY DEF TypeOK
  <2> QED BY <2>1 DEF Counter
<1>4. h.src = s /\ h.conv[1] = s
  OBVIOUS
<1>5. k \in keys
  OBVIOUS
<1> SUFFICES w # NoCounter /\ h.epoch = w.epoch /\ h.total <= w.total
  OBVIOUS
<1> HIDE DEF h
<1>6. CASE h.turn # 0
  <2>1. k = <<"response", s, h.turn, h.total>>
    BY <1>4, <1>6 DEF DedupKey
  <2>2. k[1] = "response" /\ k[2] = s /\ k[3] = h.turn /\ k[4] = h.total
    BY <2>1
  <2> HIDE DEF k
  <2>3. k \in ResponseKeys(keys, s)
    BY <1>5, <2>2 DEF ResponseKeys
  <2>4. ResponseOK(s, k)
    BY <2>3 DEF NamesOK, KeysOK
  <2> QED BY <1>1, <2>2, <2>4 DEF ResponseOK
<1>7. CASE h.turn = 0
  <2>1. k = <<"counter", h.conv, h.total, Old(h).epoch + IF Reset(h) THEN 1 ELSE 0>>
    BY <1>7 DEF DedupKey
  <2>2. /\ k[1] = "counter" /\ k[2][1] = s /\ k[3] = h.total
        /\ k[4] = Old(h).epoch + IF Reset(h) THEN 1 ELSE 0
    BY <1>4, <2>1
  <2> HIDE DEF k
  <2>3. k \in CounterKeys(keys, s)
    BY <1>5, <2>2 DEF CounterKeys
  <2>4. CounterOK(s, k)
    BY <2>3 DEF NamesOK, KeysOK
  <2>5. w # NoCounter
    BY <2>4 DEF CounterOK
  <2>6. Old(h) = w /\ (Reset(h) <=> h.epoch > w.epoch)
    BY <1>1, <1>4, <2>5, OldType DEF Reset
  <2>7. w.epoch <= h.epoch
    BY <1>1, <2>5 DEF Charged
  <2>8. k[4] = IF h.epoch > w.epoch THEN w.epoch + 1 ELSE w.epoch
    BY <1>2, <1>3, <2>2, <2>5, <2>6
  <2>9. ~(k[4] < w.epoch)
    BY <1>3, <2>5, <2>8
  <2>10. CASE k[4] = w.epoch /\ k[3] <= w.total
    BY <1>2, <1>3, <2>2, <2>5, <2>7, <2>8, <2>10
  <2>11. CASE Parent[s] # NoParent /\ k[4] >= 1
    <3>1. h.epoch = 0
      BY <1>1, <1>7, <2>11 DEF NamesOK, ForkOK
    <3>2. k[4] = 0
      BY <1>2, <1>3, <2>5, <2>7, <2>8, <3>1
    <3> QED BY <2>11, <3>2
  <2> QED BY <2>4, <2>5, <2>9, <2>10, <2>11 DEF CounterOK
<1> QED BY <1>2, <1>6, <1>7

(* The first event of a file is charged in full.                           *)
LEMMA ExactCharged ==
  ASSUME TypeOK, TypeOK', Apply, NEW s \in Source, s = Head(queue).src,
         Head(queue).type # "baseline", Head(queue).conv[1] = s,
         ChainOK(s), NamesOK(s), LedgerOK(s), base' = base
  PROVE  InFull(s, Head(queue))
<1> DEFINE h == Head(queue)
           a == Account(s)
           c == Account(s)'
           w == source[s]
           v == source'[s]
           n == counted[s]
           d == DeltaCounts(h)
<1>1. queue # <<>> /\ ApplyExact(h)
  BY DEF Apply
<1>2. /\ h \in Event /\ h.src = s /\ h.conv[1] = s
      /\ w # NoCounter => Charged(a, w, h)
      /\ w = NoCounter => ChargedFirst(a, h)
  BY <1>1, HeadType, HeadFirst
<1>3. h.epoch \in Nat /\ h.total \in Nat /\ h.at \in Nat
  BY <1>2 DEF Event
<1>4. /\ w # NoCounter => w.epoch \in Nat /\ w.total \in Nat
      /\ n \in Nat /\ base[s] \in Nat /\ a.t \in Nat
      /\ a.n = n /\ a.b = base[s]
  <2>1. w \in Counter \cup {NoCounter} /\ n \in Nat /\ base[s] \in Nat
    BY DEF TypeOK
  <2>2. a.t \in Nat
    BY Numbers DEF IsAccount
  <2> QED BY <2>1, <2>2 DEF Counter, Account
<1>5. c.n = counted'[s] /\ c.b = base[s]
  BY DEF Account
<1>6. CASE DedupKey(h) \in keys
  <2>1. v = w /\ counted'[s] = n
    BY <1>1, <1>6 DEF ApplyExact, server
  <2>2. w # NoCounter /\ h.epoch = w.epoch /\ h.total <= w.total
    BY <1>1, <1>6, FoundKey
  <2>3. Charged(a, w, h)
    BY <1>2, <2>2
  <2>4. Charged(c, v, h)
    BY <1>4, <1>5, <2>1, <2>3 DEF Charged
  <2>5. h.at - base[s] <= n + h.total - w.total
    BY <1>4, <2>2, <2>3 DEF Charged
  <2> HIDE DEF h, a, c, w, v, n
  <2>6. h.at - base[s] <= n
    BY <1>3, <1>4, <2>2, <2>5
  <2> QED BY <1>4, <2>1, <2>2, <2>4, <2>6 DEF InFull, h, v, w, c
<1>7. CASE DedupKey(h) \notin keys
  <2>1. /\ d \in Nat
        /\ counted' = [counted EXCEPT ![s] = n + d]
        /\ source' = IF w = NoCounter \/ Reset(h) \/ h.total > Old(h).total
                       THEN [source EXCEPT ![s] = [epoch |-> h.epoch, total |-> h.total]]
                       ELSE source
    BY <1>1, <1>2, <1>7, ExactEffect
  <2>2. counted'[s] = n + d
    BY <2>1 DEF TypeOK
  <2>3. IF w = NoCounter \/ Reset(h) \/ h.total > Old(h).total
          THEN v = [epoch |-> h.epoch, total |-> h.total] ELSE v = w
    BY <2>1 DEF TypeOK
  <2>4. d = IF Reset(h) THEN h.total
            ELSE IF h.total < Old(h).total THEN 0 ELSE h.total - Old(h).total
    BY DEF DeltaCounts
  <2>5. CASE w = NoCounter
    <3>1. Old(h).total = a.t /\ n = 0
      BY <1>2, <2>5, FirstOld DEF LedgerOK
    <3>2. Reset(h) <=> h.total < a.t
      BY <1>2, <2>5, <3>1 DEF Reset
    <3>3. h.at - base[s] <= n + h.total - IF h.total < a.t THEN 0 ELSE a.t
      BY <1>2, <1>4, <2>5 DEF ChargedFirst
    <3> HIDE DEF h, a, c, w, v, n, d
    <3>4. v.epoch = h.epoch /\ v.total = h.total /\ v # NoCounter
      BY <1>3, <2>3, <2>5 DEF NoCounter
    <3>5. d = h.total - IF h.total < a.t THEN 0 ELSE a.t
      BY <1>3, <1>4, <2>4, <3>1, <3>2
    <3>6. h.at - base[s] <= n + d
      BY <1>3, <1>4, <3>3, <3>5
    <3>7. Charged(c, v, h)
      BY <1>3, <1>4, <1>5, <2>1, <2>2, <3>4, <3>6 DEF Charged
    <3> QED BY <1>3, <2>2, <2>5, <3>4, <3>6, <3>7 DEF InFull, h, v, w, c
  <2>6. CASE w # NoCounter
    <3>1. Old(h) = w
      BY <1>2, <2>6, OldType
    <3>2. Reset(h) <=> h.epoch > w.epoch
      BY <1>2, <2>6, <3>1 DEF Reset
    <3>3. /\ w.epoch <= h.epoch
          /\ h.at - base[s] <= n + h.total - IF w.epoch = h.epoch THEN w.total ELSE 0
      BY <1>2, <1>4, <2>6 DEF Charged
    <3> HIDE DEF h, a, c, w, v, n, d
    <3>4. d = IF h.epoch > w.epoch THEN h.total
              ELSE IF h.total < w.total THEN 0 ELSE h.total - w.total
      BY <2>4, <3>1, <3>2
    <3>5. h.at - base[s] <= n + d
      BY <1>3, <1>4, <2>6, <3>3, <3>4
    <3>6. \/ /\ v.epoch = h.epoch /\ v.total = h.total /\ v # NoCounter
             /\ w.epoch < h.epoch \/ w.total < h.total
          \/ v = w /\ w.epoch = h.epoch /\ h.total <= w.total
      <4>1. CASE h.epoch > w.epoch \/ h.total > w.total
        <5>1. v = [epoch |-> h.epoch, total |-> h.total]
          BY <2>3, <3>1, <3>2, <4>1
        <5> QED BY <1>3, <1>4, <2>6, <4>1, <5>1 DEF NoCounter
      <4>2. CASE ~(h.epoch > w.epoch \/ h.total > w.total)
        <5>1. v = w
          BY <2>3, <2>6, <3>1, <3>2, <4>2
        <5> QED BY <1>3, <1>4, <2>6, <3>3, <4>2, <5>1
      <4> QED BY <4>1, <4>2
    <3>7. Charged(c, v, h)
      <4>1. CASE v.epoch = h.epoch /\ v.total = h.total
        BY <1>3, <1>4, <1>5, <2>1, <2>2, <3>5, <4>1 DEF Charged
      <4>2. CASE v = w /\ w.epoch = h.epoch /\ h.total <= w.total
        <5>1. d = 0
          BY <1>3, <1>4, <2>6, <3>4, <4>2
        <5> QED BY <1>3, <1>4, <1>5, <2>2, <2>6, <3>3, <4>2, <5>1 DEF Charged
      <4> QED BY <3>6, <4>1, <4>2
    <3>8. /\ v # NoCounter /\ v.epoch = h.epoch /\ v.total \in Nat /\ h.total <= v.total
          /\ w.epoch < v.epoch \/ (w.epoch = v.epoch /\ w.total <= v.total)
      BY <1>3, <1>4, <2>6, <3>3, <3>6
    <3> QED BY <2>2, <3>5, <3>7, <3>8 DEF InFull, h, v, w, c
  <2> QED BY <2>5, <2>6
<1> QED BY <1>6, <1>7

(* The keys of a file stay in order when its first event is charged.       *)
LEMMA KeysKept ==
  ASSUME TypeOK, Apply, NEW s \in Source, s = Head(queue).src,
         Head(queue).type # "baseline", Head(queue).conv[1] = s,
         ChainOK(s), NamesOK(s), LedgerOK(s), InFull(s, Head(queue)),
         queue' = Tail(queue), Begin(s)' = Begin(s)
  PROVE  KeysOK(s)'
<1> DEFINE q == queue
           Q == queue'
           h == Head(queue)
           w == source[s]
           v == source'[s]
           b == Begin(s)
<1>1. /\ q \in Seq(Event) /\ Q \in Seq(Event) /\ Len(q) = Len(Q) + 1
      /\ \A i \in 1..Len(Q) : Q[i] = q[i + 1]
      /\ h = q[1] /\ h \in Event /\ queue # <<>>
  <2>1. queue # <<>>
    BY DEF Apply
  <2> QED BY <2>1, Behind
<1>2. /\ 1 \in Pending(q, s) /\ Baselines(q, s) = {}
      /\ w # NoCounter => w.epoch <= h.epoch
  BY <1>1, HeadFirst DEF Charged
<1>3. \A j \in Pending(Q, s) :
        j \in 1..Len(Q) /\ j + 1 \in Pending(q, s) /\ Q[j] = q[j + 1]
  <2> HIDE DEF q, Q
  <2> QED BY <1>1, TailSets, ZenonT(40)
<1>4. /\ h.epoch \in Nat /\ h.total \in Nat /\ h.turn \in Nat
      /\ h.src = s /\ h.conv[1] = s
  BY <1>1 DEF Event
<1>5. /\ w # NoCounter => w.epoch \in Nat /\ w.total \in Nat
      /\ b.turn \in Nat
  <2>1. w \in Counter \cup {NoCounter} /\ b \in Row
    BY BeginFields DEF TypeOK
  <2> QED BY <2>1 DEF Counter, Row
<1>6. /\ v # NoCounter /\ v.epoch = h.epoch
      /\ v.total \in Nat /\ h.total <= v.total
      /\ w # NoCounter => \/ w.epoch < v.epoch
                          \/ w.epoch = v.epoch /\ w.total <= v.total
  BY DEF InFull
<1>7. /\ h.turn <= b.turn
      /\ b.offset > 0 => Steady(h.turn, h.epoch, b.turn, b.gen)
      /\ \A j \in Pending(Q, s) : /\ Steady(h.turn, h.epoch, Q[j].turn, Q[j].epoch)
                                  /\ Q[j].turn \in Nat
  <2>1. /\ h.turn <= b.turn
        /\ b.offset > 0 => Steady(h.turn, h.epoch, b.turn, b.gen)
    BY <1>1, <1>2 DEF NamesOK, EpochsOK
  <2>2. ASSUME NEW j \in Pending(Q, s)
        PROVE  Steady(h.turn, h.epoch, Q[j].turn, Q[j].epoch) /\ Q[j].turn \in Nat
    <3>1. 1 < j + 1 /\ j + 1 \in Pending(q, s) /\ Q[j] = q[j + 1]
      BY <1>3
    <3>2. Q[j] \in Event
      BY <1>1, <1>3, ElementOfSeq
    <3> QED BY <1>1, <1>2, <3>1, <3>2 DEF NamesOK, EpochsOK, Event
  <2> QED BY <2>1, <2>2
<1>8. keys' \subseteq keys \cup {DedupKey(h)}
  BY <1>4, ApplyKeys
<1>9. h.type # "baseline" /\ NamesOK(s) /\ LedgerOK(s) /\ Begin(s)' = b
  OBVIOUS
<1> HIDE DEF q, Q, h, w, v, b
(* A key of a turn, whatever has that turn being of the new watermark's    *)
(* epoch.                                                                  *)
<1>10. ASSUME NEW k, k[3] \in Nat \ {0}, k[4] \in Nat, k[3] <= h.turn,
              k[3] = h.turn => k[4] <= v.total,
              k[3] <= b.turn
       PROVE  ResponseOK(s, k)'
  <2>1. ASSUME NEW t \in Nat, NEW g, Steady(h.turn, h.epoch, t, g)
        PROVE  k[3] <= t /\ (k[3] = t => g = v.epoch /\ k[4] <= v.total)
    <3>1. h.turn <= t /\ (h.turn = t /\ h.turn # 0 => h.epoch = g)
      BY <2>1 DEF Steady
    <3>2. k[3] <= t
      BY <1>4, <1>10, <2>1, <3>1
    <3>3. k[3] = t => k[3] = h.turn /\ h.turn = t /\ h.turn # 0
      BY <1>4, <1>10, <2>1, <3>1
    <3> QED BY <1>6, <1>10, <3>1, <3>2, <3>3
  <2>2. \A j \in Pending(Q, s) :
          /\ k[3] <= Q[j].turn
          /\ k[3] = Q[j].turn => Q[j].epoch = v.epoch /\ k[4] <= v.total
    BY <1>7, <2>1
  <2>3. k[3] = b.turn /\ b.offset > 0 => b.gen = v.epoch /\ k[4] <= v.total
    BY <1>5, <1>7, <2>1
  <2> QED BY <1>6, <1>9, <1>10, <2>2, <2>3 DEF ResponseOK, Q, v
<1>11. ASSUME NEW k \in ResponseKeys(keys', s) PROVE ResponseOK(s, k)'
  <2>1. CASE k \in keys
    <3>1. k \in ResponseKeys(keys, s)
      BY <1>11, <2>1 DEF ResponseKeys
    <3>2. ResponseOK(s, k)
      BY <1>9, <3>1 DEF NamesOK, KeysOK
    <3>3. /\ w # NoCounter /\ k[3] \in Nat \ {0} /\ k[4] \in Nat /\ k[3] <= b.turn
          /\ k[3] <= h.turn
          /\ k[3] = h.turn => h.epoch = w.epoch /\ k[4] <= w.total
      BY <1>1, <1>2, <3>2 DEF ResponseOK, q, w, b
    <3>4. k[3] = h.turn => k[4] <= v.total
      BY <1>4, <1>5, <1>6, <3>3
    <3> QED BY <1>10, <3>3, <3>4
  <2>2. CASE k = DedupKey(h) /\ h.turn # 0
    <3>1. k = <<"response", s, h.turn, h.total>>
      BY <1>4, <2>2 DEF DedupKey
    <3>2. k[3] = h.turn /\ k[4] = h.total
      BY <3>1
    <3> QED BY <1>4, <1>6, <1>7, <1>10, <2>2, <3>2
  <2>3. CASE k = DedupKey(h) /\ h.turn = 0
    <3>1. k[1] = "counter"
      BY <2>3 DEF DedupKey
    <3> QED BY <1>11, <3>1 DEF ResponseKeys
  <2> QED BY <1>8, <1>11, <2>1, <2>2, <2>3 DEF ResponseKeys
<1>12. ASSUME NEW k \in CounterKeys(keys', s) PROVE CounterOK(s, k)'
  <2>1. CASE k \in keys
    <3>1. k \in CounterKeys(keys, s)
      BY <1>12, <2>1 DEF CounterKeys
    <3>2. CounterOK(s, k)
      BY <1>9, <3>1 DEF NamesOK, KeysOK
    <3>3. /\ w # NoCounter /\ k[3] \in Nat /\ k[4] \in Nat
          /\ \/ k[4] < w.epoch
             \/ k[4] = w.epoch /\ k[3] <= w.total
             \/ Parent[s] # NoParent /\ k[4] >= 1
      BY <3>2 DEF CounterOK, w
    <3>4. \/ k[4] < v.epoch
          \/ k[4] = v.epoch /\ k[3] <= v.total
          \/ Parent[s] # NoParent /\ k[4] >= 1
      BY <1>4, <1>5, <1>6, <3>3
    <3> QED BY <1>6, <3>3, <3>4 DEF CounterOK, v
  <2>2. CASE k = DedupKey(h) /\ h.turn # 0
    <3>1. k[1] = "response"
      BY <2>2 DEF DedupKey
    <3> QED BY <1>12, <3>1 DEF CounterKeys
  <2>3. CASE k = DedupKey(h) /\ h.turn = 0
    <3>1. k = <<"counter", h.conv, h.total, Old(h).epoch + IF Reset(h) THEN 1 ELSE 0>>
      BY <2>3 DEF DedupKey
    <3>2. k[3] = h.total /\ k[4] = Old(h).epoch + IF Reset(h) THEN 1 ELSE 0
      BY <3>1
    <3>3. k[4] \in Nat /\ \/ k[4] <= v.epoch
                          \/ Parent[s] # NoParent /\ k[4] >= 1
      <4>1. CASE w = NoCounter
        <5>1. /\ Old(h).epoch = 0 /\ Old(h).total = Account(s).t
              /\ Account(s).t # 0 => Parent[s] # NoParent
          BY <1>1, <1>4, <1>9, <4>1, FirstOld DEF w
        <5>2. Reset(h) => Account(s).t # 0
          BY <1>4, <4>1, <5>1 DEF Reset, w
        <5> QED BY <1>4, <1>6, <3>2, <5>1, <5>2
      <4>2. CASE w # NoCounter
        <5>1. Old(h) = w /\ (Reset(h) <=> h.epoch > w.epoch)
          BY <1>1, <1>4, <4>2, OldType DEF Reset, w
        <5> QED BY <1>2, <1>4, <1>5, <1>6, <3>2, <4>2, <5>1
      <4> QED BY <4>1, <4>2
    <3>4. \/ k[4] < v.epoch
          \/ k[4] = v.epoch /\ k[3] <= v.total
          \/ Parent[s] # NoParent /\ k[4] >= 1
      BY <1>4, <1>6, <3>2, <3>3
    <3> QED BY <1>4, <1>6, <3>2, <3>3, <3>4 DEF CounterOK, v
  <2> QED BY <1>8, <1>12, <2>1, <2>2, <2>3 DEF CounterKeys
<1> QED BY <1>11, <1>12 DEF KeysOK

(* A usage event of the file itself.                                       *)
LEMMA ExactTaken ==
  ASSUME EInv, TypeOK', Apply, NEW s \in Source, s = Head(queue).src,
         Head(queue).type # "baseline"
  PROVE  ChainOK(s)' /\ NamesOK(s)'
<1> DEFINE h == Head(queue)
           c == Account(s)'
<1>1. TypeOK /\ QueueOK /\ FileOK(s) /\ ChainOK(s) /\ NamesOK(s) /\ LedgerOK(s)
  BY DEF EInv, IInv, FileOK
<1>2. /\ queue # <<>> /\ queue' = Tail(queue)
      /\ UNCHANGED <<log, erased, spent, gone, row, base>>
      /\ h \in Event /\ h.conv[1] = h.src
  BY <1>1, ApplyLocal
<1>3. /\ queue \in Seq(Event) /\ queue' \in Seq(Event) /\ Len(queue) = Len(queue') + 1
      /\ \A i \in 1..Len(queue') : queue'[i] = queue[i + 1]
      /\ h = queue[1]
  BY <1>1, <1>2, Behind
<1>4. 1 \in Pending(queue, s) /\ Baselines(queue, s) = {}
  BY <1>1, <1>2, HeadFirst
<1>5. Baselines(queue', s) = {}
  <2> DEFINE q == queue
             Q == queue'
  <2>1. \A i \in Baselines(Q, s) : i + 1 \in Baselines(q, s)
    <3> HIDE DEF q, Q
    <3> QED BY <1>3, TailSets DEF q, Q
  <2> QED BY <1>4, <2>1
<1>6. InFull(s, h)
  BY <1>1, <1>2, ExactCharged
<1>7. ChainOK(s)'
  <2>1. IsMark(Anchor(s))
    BY <1>1, Numbers DEF FileOK
  <2>2. source'[s] # NoCounter /\ Charged(c, source'[s], h) /\ c.w = source'[s]
    BY <1>6 DEF InFull, Account
  <2>3. Covered(c, s, queue', queue[1])
    BY <1>3, <1>5, <2>2 DEF Covered
  <2>4. queue[1].at - base[s] <= counted'[s]
    BY <1>3, <1>6 DEF InFull
  <2> QED BY <1>1, <1>2, <1>4, <2>1, <2>2, <2>3, <2>4, ChainCharged
<1>8. KeysOK(s)'
  <2>1. Begin(s)' = Begin(s)
    BY <1>2 DEF Begin
  <2> QED BY <1>1, <1>2, <1>6, <2>1, KeysKept
<1>9. keys' # {}
  <2>1. ApplyExact(h)
    BY DEF Apply
  <2>2. CASE DedupKey(h) \in keys
    BY <2>1, <2>2 DEF ApplyExact, server
  <2>3. CASE DedupKey(h) \notin keys
    BY <2>1, <2>3 DEF ApplyExact
  <2> QED BY <2>2, <2>3
<1>10. UNCHANGED <<turn, firstPass>>
  BY <1>2, ApplyKeys
<1> QED BY <1>1, <1>2, <1>5, <1>7, <1>8, <1>9, <1>10, NamesPast

(* Applying an event keeps the chains.                                     *)
LEMMA ApplyKept ==
  ASSUME EInv, TypeOK', Apply
  PROVE  \A u \in Source : ChainOK(u)' /\ NamesOK(u)'
<1>1. ASSUME NEW u \in Source PROVE ChainOK(u)' /\ NamesOK(u)'
  <2>1. CASE u # Head(queue).src
    BY <2>1, OtherExact
  <2>2. CASE u = Head(queue).src /\ Head(queue).type = "baseline"
    BY <2>2, BaselineTaken
  <2>3. CASE u = Head(queue).src /\ Head(queue).type # "baseline"
    BY <2>3, ExactTaken
  <2> QED BY <2>1, <2>2, <2>3
<1> QED BY <1>1

-----------------------------------------------------------------------------
(* The theorem.                                                            *)

(* In the beginning no file has lines and nothing is on its way.           *)
LEMMA InitExact == Init => EInv
<1> SUFFICES ASSUME Init PROVE EInv
  OBVIOUS
<1>1. queue = <<>> /\ Len(queue) = 0 /\ keys = {}
  BY EmptySeq DEF Init
<1>2. ASSUME NEW s \in Source PROVE ChainOK(s) /\ NamesOK(s)
  <2>1. /\ log[s] = <<>> /\ row[s] = NoRow /\ source[s] = NoCounter /\ turn[s] = 0
        /\ counted[s] = 0 /\ gone[s] = 0 /\ base[s] = 0 /\ erased[s] = 0
    BY DEF Init
  <2>2. /\ Begin(s).offset = 0 /\ Begin(s).init = FALSE /\ Begin(s).turn = 0
        /\ Begin(s).gen = 0 /\ Begin(s).first = 1
    BY <2>1 DEF Begin
  <2>3. Pending(queue, s) = {} /\ Baselines(queue, s) = {}
    BY <1>1 DEF Pending, Baselines
  <2>4. Len(log[s]) = 0 /\ 1..Len(log[s]) = {} /\ 2..Len(log[s]) = {}
    BY <2>1, EmptySeq
  <2>5. Anchor(s).at = 0
    BY <2>1, <2>2 DEF Anchor, Place
  <2>6. ChainOK(s)
    <3>1. HeadOK(s) /\ LinksOK(s)
      BY <1>1 DEF HeadOK, LinksOK
    <3>2. Covered(Account(s), s, queue, Anchor(s))
      BY <2>1, <2>3 DEF Covered, Account
    <3>3. IdleOK(s)
      BY <2>1, <2>2, <2>5, <3>2 DEF IdleOK
    <3> QED BY <3>1, <3>3 DEF ChainOK
  <2>7. NamesOK(s)
    <3>1. FirstsOK(s) /\ EpochsOK(s)
      BY <2>1, <2>3 DEF FirstsOK, EpochsOK
    <3>2. StartOK(s)
      BY <2>2, <2>4 DEF StartOK
    <3>3. TurnsInOrder(s)
      BY <2>1, <2>2, <2>4 DEF TurnsInOrder, TurnsOK
    <3>4. ForkOK(s)
      BY <2>1, <2>2, <2>3, <2>4 DEF ForkOK
    <3>5. KeysOK(s)
      BY <1>1 DEF KeysOK, ResponseKeys, CounterKeys
    <3> QED BY <3>1, <3>2, <3>3, <3>4, <3>5 DEF NamesOK
  <2> QED BY <2>6, <2>7
<1> QED BY <1>2, InitOK DEF EInv

(* Every step keeps the chains, if a file is at most replaced.             *)
LEMMA ExactStep ==
  ASSUME Allowed \subseteq {"rewrite"}, EInv, [Next]_vars
  PROVE  EInv'
<1>1. IInv /\ TypeOK /\ TypeOK'
  BY NextType DEF EInv, IInv
<1>2. IInv'
  <2>1. "backfill" \notin Allowed
    OBVIOUS
  <2> QED BY <1>1, <2>1, StepOK
<1>3. \A u \in Source : ChainOK(u)' /\ NamesOK(u)'
  <2>1. CASE \E s \in Source : Use(s) \/ Fork(s) \/ Restart(s)
    BY <1>1, <2>1, WriteExact
  <2>2. CASE \E s \in Source : Rewrite(s)
    BY <1>1, <2>2, RewriteExact
  <2>3. CASE \E s \in Source : Baseline(s)
    BY <1>1, <2>3, BaselineExact
  <2>4. CASE \E s \in Source : Scan(s)
    BY <1>1, <2>4, ScanExact
  <2>5. CASE \E s \in Source : Notice(s)
    BY <1>1, <2>5, NoticeExact
  <2>6. CASE EndFirstPass
    BY <1>1, <2>6, EndFirstPassExact
  <2>7. CASE Backfill
    BY <1>1, <2>7, BackfillExact
  <2>8. CASE Apply
    BY <1>1, <2>8, ApplyKept
  <2>9. CASE UNCHANGED vars
    <3>1. UNCHANGED <<log, turn, erased, spent, gone, row, firstPass, base, queue, source,
                      conv, keys, counted>>
      BY <2>9 DEF vars, codex, agent, server
    <3>2. Len(queue) \in Nat /\ Len(queue) + 1..Len(queue) = {}
      <4>1. Len(queue) \in Nat
        BY <1>1, LenProperties DEF TypeOK
      <4> QED BY <4>1
    <3>3. ASSUME NEW u \in Source PROVE ChainOK(u)' /\ NamesOK(u)'
      <4>1. Unmoved(u)
        BY <3>1 DEF Unmoved, Alike, Begin
      <4>2. ParentRead(Parent[u]) => ParentRead(Parent[u])'
        BY <3>1 DEF ParentRead
      <4> QED BY <1>1, <3>1, <3>2, <4>1, <4>2, Undisturbed DEF EInv
    <3> QED BY <3>3
  <2> QED BY <2>1, <2>2, <2>3, <2>4, <2>5, <2>6, <2>7, <2>8, <2>9 DEF Next
<1> QED BY <1>2, <1>3 DEF EInv

(* A file read to its end with nothing on its way is charged with all that *)
(* was used in it.                                                         *)
LEMMA ReadInFull ==
  ASSUME EInv, NEW s \in Source, queue = <<>>, row[s] # NoRow, row[s].offset = Len(log[s])
  PROVE  counted[s] = spent[s] - base[s]
<1> DEFINE l == log[s]
           x == Anchor(s)
<1>1. TypeOK /\ FileOK(s) /\ ChainOK(s)
  BY DEF EInv, IInv
<1>2. l \in Seq(Line) /\ Len(l) \in Nat
  BY <1>1, LenProperties DEF TypeOK
<1>3. Begin(s).offset = Len(l)
  BY <1>2 DEF Begin
<1>4. x.at = spent[s]
  <2>1. (l = <<>> => spent[s] = gone[s]) /\ (l # <<>> => l[Len(l)].at = spent[s])
    BY <1>1 DEF FileOK, LinesOK
  <2>2. l = <<>> <=> Len(l) = 0
    BY <1>2, EmptySeq
  <2>3. x.at = IF Len(l) = 0 THEN gone[s] ELSE l[Len(l)].at
    BY <1>3 DEF Anchor, Place
  <2> QED BY <2>1, <2>2, <2>3
<1>5. x.at - base[s] <= counted[s]
  <2>1. Pending(queue, s) = {}
    BY EmptySeq DEF Pending
  <2> QED BY <1>1, <2>1 DEF ChainOK, IdleOK
<1>6. counted[s] <= spent[s] - base[s]
  BY <1>1 DEF FileOK, LedgerOK
<1>7. counted[s] \in Nat /\ spent[s] \in Nat /\ base[s] \in Nat
  BY <1>1 DEF TypeOK
<1> HIDE DEF x
<1> QED BY <1>4, <1>5, <1>6, <1>7

(* When a file was read to its end and everything read was applied, the    *)
(* tokens counted for it are those that were used since collection began,  *)
(* whatever the counter did (it went on, started again, was a fork's) and  *)
(* whether or not the file was replaced or repeats totals and turns.  With *)
(* each of the troubles left out here it is false: a late backfill counts  *)
(* twice, a restart that cannot be seen is lost.                           *)
THEOREM CountedInFull ==
  ASSUME Allowed \subseteq {"rewrite"}
  PROVE  Spec => []ExactWhenQuiet
<1>1. EInv /\ [Next]_vars => EInv'
  BY ExactStep
<1>2. EInv => ExactWhenQuiet
  BY ReadInFull DEF ExactWhenQuiet
<1> QED BY InitExact, <1>1, <1>2, PTL DEF Spec

=============================================================================
