-------------------------- MODULE OvercountProofs --------------------------
(***************************************************************************)
(* No file is ever charged more than was used in it since collection       *)
(* began: for any number of files and forks, whatever Codex writes,        *)
(* restarts and replaces, and in whatever order the agent and the server   *)
(* take their steps.  Only a backfill after lines were read is excluded    *)
(* (it reads them again in a new epoch, and they are counted twice).       *)
(*                                                                         *)
(* The argument goes along the events of a file that are on their way, and *)
(* the place in the file its reader has reached.  Each of them follows     *)
(* those before it: the counter has grown by no more than was used between *)
(* them, or started again.  And each is sound: if it were the next to be   *)
(* applied the charge would not exceed the use up to it.  Applying one     *)
(* makes its total the watermark and leaves those that follow it sound.    *)
(***************************************************************************)
EXTENDS SourceLedgerProofs

-----------------------------------------------------------------------------
(* Lines, and the place of a reader in them.                               *)

(* The counter starts again at line m.                                     *)
Falls(l, m) == l[m].total < l[m - 1].total

(* What the first line continues from: 0, or what a fork took along; g is  *)
(* what was used in lines that are gone.                                   *)
Origin(l, g) == IF l = <<>> THEN 0 ELSE l[1].total - (l[1].at - g)

(* The last line read, as if it were an event.                             *)
Place(l, g, b) ==
  [epoch |-> b.gen,
   total |-> IF b.offset = 0 THEN Origin(l, g) ELSE l[b.offset].total,
   at    |-> IF b.offset = 0 THEN g ELSE l[b.offset].at]

(* A file in which n tokens were used, g of them in lines that are gone.   *)
LinesOK(l, g, n) ==
  /\ g <= n
  /\ l = <<>> => n = g
  /\ l # <<>> => l[Len(l)].at = n
  /\ \A k \in 1..Len(l) : g <= l[k].at /\ l[k].at <= n
  /\ Origin(l, g) >= 0
  /\ \A k \in 2..Len(l) : Falls(l, k) => l[k].total = l[k].at - l[k - 1].at
  /\ \A i, j \in 1..Len(l) : i < j =>
       /\ l[i].at <= l[j].at
       /\ \/ l[j].total - l[i].total = l[j].at - l[i].at
          \/ \E m \in i + 1..j : Falls(l, m)

(* After the first o lines the counter starts again only after c.          *)
FallsAfter(l, o, c) ==
  \A m \in 2..Len(l) : m > o /\ Falls(l, m) => c <= l[m - 1].at

-----------------------------------------------------------------------------
(* What is on its way, against the account of its file: counted so far n,  *)
(* collection began at b, the source's watermark w, the parent's total t.  *)

Account(s) ==
  [n |-> counted[s], b |-> base[s], w |-> source[s],
   t |-> IF Parent[s] \in Source THEN conv[Main(Parent[s])].total ELSE 0]

Paid(a, e) == a.n = 0 \/ a.n <= e.at - a.b

Enough(a, e) == a.n + e.total <= e.at - a.b

Above(a, e) ==
  /\ a.w # NoCounter
  /\ e.epoch <= a.w.epoch
  /\ a.n + e.total - a.w.total <= e.at - a.b

Awaits(a, s, q, j, e) ==
  \E i \in 1..Len(q) :
    /\ i < j
    /\ q[i].type = "baseline" /\ q[i].src = s
    /\ e.epoch = 0
    /\ a.n + e.total - q[i].total <= e.at - a.b

Inherits(a, s, q, j, e) ==
  /\ a.w = NoCounter
  /\ Parent[s] \in Source
  /\ a.t <= e.total
  /\ e.total - a.t <= e.at - a.b
  /\ \A i \in 1..Len(q) : i < j =>
       q[i].src # Parent[s] /\ (q[i].src = s => q[i].type = "exact")

Sound(a, s, q, j, e) ==
  /\ Paid(a, e)
  /\ Enough(a, e) \/ Above(a, e) \/ Awaits(a, s, q, j, e) \/ Inherits(a, s, q, j, e)

Follows(e, f) ==
  /\ e.at <= f.at
  /\ \/ e.epoch = f.epoch /\ f.total - e.total <= f.at - e.at
     \/ e.epoch < f.epoch /\ f.total <= f.at - e.at

Pending(q, s) == {j \in 1..Len(q) : q[j].type = "exact" /\ q[j].src = s}

-----------------------------------------------------------------------------
(* The inductive invariant.                                                *)

Anchor(s) == Place(log[s], gone[s], Begin(s))

RowOK(s) ==
  /\ Begin(s).offset <= Len(log[s])
  /\ Begin(s).conv[1] = s
  /\ Begin(s).init => /\ Begin(s).offset >= 1
                      /\ Begin(s).last = log[s][Begin(s).offset].total
  /\ FallsAfter(log[s], Begin(s).offset, base[s])
  /\ ~Begin(s).init /\ Begin(s).offset > 0 => Pending(queue, s) = {}

Untouched(s) ==
  row[s] = NoRow \/ (erased[s] = 0 /\ log[s] = <<>>) =>
    /\ erased[s] = 0 /\ gone[s] = 0 /\ base[s] = 0
    /\ counted[s] = 0 /\ source[s] = NoCounter
    /\ \A j \in 1..Len(queue) : queue[j].src # s

LedgerOK(s) ==
  /\ source[s] = NoCounter =>
       /\ counted[s] = 0
       /\ \A name \in {"main", "derived"} : conv[<<s, name>>] = NoCounter
  /\ keys = {} => counted[s] = 0
  /\ counted[s] <= spent[s] - base[s]

QueueOK ==
  \A i \in 1..Len(queue) :
    /\ queue[i].conv[1] = queue[i].src
    /\ queue[i].type = "baseline" => queue[i].epoch = 0

PendingOK(s) ==
  \A j \in Pending(queue, s) :
    /\ Sound(Account(s), s, queue, j, queue[j])
    /\ Follows(queue[j], Anchor(s))
    /\ \A k \in Pending(queue, s) : j < k => Follows(queue[j], queue[k])

(* A file whose first event will be compared with its parent's total: the  *)
(* parent is read to its end, and does not go on.                          *)
ParentRead(p) == log[p] # <<>> => row[p] # NoRow /\ row[p].offset = Len(log[p])

Still(s) == log[s] # <<>> /\ ParentRead(Parent[s])

AnchorOK(s) ==
  /\ Sound(Account(s), s, queue, Len(queue) + 1, Anchor(s))
  /\ \/ Enough(Account(s), Anchor(s))
     \/ Above(Account(s), Anchor(s))
     \/ Awaits(Account(s), s, queue, Len(queue) + 1, Anchor(s))
     \/ Still(s)

FileOK(s) ==
  /\ LinesOK(log[s], gone[s], spent[s])
  /\ Parent[s] = NoParent => Origin(log[s], gone[s]) = 0
  /\ RowOK(s)
  /\ Untouched(s)
  /\ LedgerOK(s)
  /\ PendingOK(s)
  /\ AnchorOK(s)

IInv == TypeOK /\ QueueOK /\ \A s \in Source : FileOK(s)

-----------------------------------------------------------------------------
(* Lemmas about lines.                                                     *)

(* What a line is made of.                                                 *)
LEMMA LineFields ==
  ASSUME NEW l \in Seq(Line), NEW k \in 1..Len(l)
  PROVE  l[k].total \in Nat /\ l[k].at \in Nat
<1>1. l[k] \in Line
  BY ElementOfSeq
<1> QED BY <1>1 DEF Line

(* A line that goes on from the last one, or starts again, or is the first *)
(* and takes something along.                                              *)
GoesOn(l, d, line) ==
  /\ l = <<>> => line.total >= d
  /\ l # <<>> => \/ line.total = l[Len(l)].total + d
                 \/ line.total = d /\ d < l[Len(l)].total

(* Such a line leaves the lines in order.                                  *)
LEMMA LinesGrow ==
  ASSUME NEW l \in Seq(Line), NEW g \in Nat, NEW n \in Nat, LinesOK(l, g, n),
         NEW d \in Nat, NEW line \in Line, line.at = n + d, GoesOn(l, d, line)
  PROVE  /\ LinesOK(Append(l, line), g, n + d)
         /\ l # <<>> => Origin(Append(l, line), g) = Origin(l, g)
<1> DEFINE L == Append(l, line)
           z == Len(l)
<1>1. /\ L \in Seq(Line) /\ Len(L) = z + 1 /\ L # <<>> /\ z \in Nat
      /\ \A i \in 1..z : L[i] = l[i]
      /\ L[z + 1] = line
      /\ (l = <<>> <=> z = 0)
  BY AppendProperties, LenProperties, EmptySeq
<1>2. /\ line.total \in Nat /\ line.at \in Nat
      /\ \A i \in 1..z : l[i].total \in Nat /\ l[i].at \in Nat
  BY LineFields DEF Line
<1>3. /\ g <= n /\ (z = 0 => n = g) /\ (z # 0 => l[z].at = n)
      /\ \A k \in 1..z : g <= l[k].at /\ l[k].at <= n
      /\ Origin(l, g) >= 0
      /\ \A k \in 2..z : Falls(l, k) => l[k].total = l[k].at - l[k - 1].at
      /\ \A i, j \in 1..z : i < j =>
           /\ l[i].at <= l[j].at
           /\ \/ l[j].total - l[i].total = l[j].at - l[i].at
              \/ \E m \in i + 1..j : Falls(l, m)
  BY <1>1 DEF LinesOK
<1>4. z # 0 => \/ line.total = l[z].total + d
               \/ line.total = d /\ d < l[z].total
  BY <1>1 DEF GoesOn
<1>5. l # <<>> => Origin(L, g) = Origin(l, g)
  <2> SUFFICES ASSUME l # <<>> PROVE Origin(L, g) = Origin(l, g)
    OBVIOUS
  <2>1. L[1] = l[1]
    BY <1>1
  <2> HIDE DEF L
  <2> QED BY <1>1, <2>1 DEF Origin
<1>6. l = <<>> => Origin(L, g) = line.total - d
  <2> SUFFICES ASSUME l = <<>> PROVE Origin(L, g) = line.total - d
    OBVIOUS
  <2>1. L[1] = line /\ n = g
    BY <1>1, <1>3
  <2> HIDE DEF L
  <2> QED BY <1>1, <1>2, <2>1 DEF Origin
<1>7. Origin(L, g) >= 0
  <2> HIDE DEF L
  <2>1. CASE l = <<>>
    BY <1>2, <1>6, <2>1 DEF GoesOn
  <2>2. CASE l # <<>>
    BY <1>3, <1>5, <2>2
  <2> QED BY <2>1, <2>2
<1> HIDE DEF L, z
<1>8. \A k \in 2..z : Falls(L, k) <=> Falls(l, k)
  <2> TAKE k \in 2..z
  <2>1. L[k] = l[k] /\ L[k - 1] = l[k - 1]
    BY <1>1
  <2> QED BY <2>1 DEF Falls
<1>9. z # 0 => \/ ~Falls(L, z + 1) /\ line.total = l[z].total + d
               \/ Falls(L, z + 1) /\ line.total = d
  <2> SUFFICES ASSUME z # 0
               PROVE  \/ ~Falls(L, z + 1) /\ line.total = l[z].total + d
                      \/ Falls(L, z + 1) /\ line.total = d
    OBVIOUS
  <2>1. z + 1 - 1 = z /\ z \in 1..z
    BY <1>1
  <2>2. L[z + 1] = line /\ L[z] = l[z] /\ l[z].total \in Nat
    BY <1>1, <1>2, <2>1
  <2>3. Falls(L, z + 1) <=> line.total < l[z].total
    BY <2>1, <2>2 DEF Falls
  <2> QED BY <1>2, <1>4, <2>2, <2>3
<1>10. \A k \in 1..z + 1 : g <= L[k].at /\ L[k].at <= n + d
  <2> TAKE k \in 1..z + 1
  <2>1. CASE k = z + 1
    BY <1>1, <1>2, <1>3, <2>1
  <2>2. CASE k \in 1..z
    <3>1. L[k] = l[k] /\ l[k].at \in Nat
      BY <1>1, <1>2, <2>2
    <3>2. g <= l[k].at /\ l[k].at <= n
      BY <1>3, <2>2
    <3> QED BY <3>1, <3>2
  <2> QED BY <1>1, <2>1, <2>2
<1>11. \A k \in 2..z + 1 : Falls(L, k) => L[k].total = L[k].at - L[k - 1].at
  <2> TAKE k \in 2..z + 1
  <2>1. CASE k = z + 1
    <3>1. z # 0 /\ L[k] = line /\ L[k - 1] = l[z] /\ l[z].at = n
      BY <1>1, <1>3, <2>1
    <3>2. Falls(L, k) => line.total = d
      BY <1>9, <2>1, <3>1
    <3> QED BY <1>2, <3>1, <3>2
  <2>2. CASE k \in 2..z
    <3>1. L[k] = l[k] /\ L[k - 1] = l[k - 1]
      BY <1>1, <2>2
    <3> QED BY <1>3, <1>8, <2>2, <3>1
  <2> QED BY <1>1, <2>1, <2>2
<1>12. ASSUME NEW i \in 1..z + 1, NEW j \in 1..z + 1, i < j
       PROVE  /\ L[i].at <= L[j].at
              /\ \/ L[j].total - L[i].total = L[j].at - L[i].at
                 \/ \E m \in i + 1..j : Falls(L, m)
  <2>1. i \in 1..z /\ L[i] = l[i]
    BY <1>1, <1>12
  <2>2. CASE j = z + 1
    <3>1. L[j] = line /\ z # 0 /\ z \in 1..z
      BY <1>1, <2>1, <2>2
    <3>2. l[i].at <= n /\ L[i].at <= L[j].at
      BY <1>2, <1>3, <2>1, <3>1, SMTT(20)
    <3>3. CASE Falls(L, z + 1)
      <4>1. z + 1 \in i + 1..j
        BY <1>1, <2>1, <2>2
      <4> QED BY <3>2, <3>3, <4>1
    <3>4. CASE ~Falls(L, z + 1) /\ i = z
      <4>1. line.total = l[z].total + d /\ l[z].at = n
        BY <1>3, <1>9, <3>1, <3>4
      <4>2. L[j].total - L[i].total = L[j].at - L[i].at
        BY <1>2, <2>1, <3>1, <3>4, <4>1, SMTT(30)
      <4> QED BY <3>2, <4>2
    <3>5. CASE ~Falls(L, z + 1) /\ i # z
      <4>1. line.total = l[z].total + d /\ l[z].at = n
        BY <1>3, <1>9, <3>1, <3>5
      <4>2. i < z
        BY <1>1, <2>1, <3>5
      <4>3. CASE l[z].total - l[i].total = l[z].at - l[i].at
        <5>1. l[z].total \in Nat /\ l[i].total \in Nat /\ l[i].at \in Nat
          BY <1>2, <2>1, <3>1
        <5>2. line.total - l[i].total = line.at - l[i].at
          <6>1. line.total = l[z].total + d /\ line.at = l[z].at + d
            BY <4>1
          <6>2. l[z].at \in Nat
            BY <4>1
          <6>3. (l[z].total + d) - l[i].total = (l[z].at + d) - l[i].at
            <7> DEFINE x == l[z].total
                       y == l[i].total
                       u == l[z].at
                       v == l[i].at
            <7>1. x \in Nat /\ y \in Nat /\ u \in Nat /\ v \in Nat
              BY <5>1, <6>2
            <7>2. x - y = u - v
              BY <4>3
            <7> HIDE DEF x, y, u, v
            <7>3. (x + d) - y = (u + d) - v
              BY <7>1, <7>2
            <7> QED BY <7>3 DEF x, y, u, v
          <6> QED BY <6>1, <6>3
        <5>3. L[j].total - L[i].total = L[j].at - L[i].at
          BY <2>1, <3>1, <5>2
        <5> QED BY <3>2, <5>3
      <4>4. CASE \E m \in i + 1..z : Falls(l, m)
        <5>1. PICK m \in i + 1..z : Falls(l, m)
          BY <4>4
        <5>2. m \in 2..z /\ m \in i + 1..j
          BY <1>1, <2>1, <2>2
        <5> QED BY <1>8, <3>2, <5>1, <5>2
      <4> QED BY <1>3, <2>1, <3>1, <4>2, <4>3, <4>4
    <3> QED BY <3>3, <3>4, <3>5
  <2>3. CASE j \in 1..z
    <3>1. L[j] = l[j]
      BY <1>1, <2>3
    <3>2. CASE \E m \in i + 1..j : Falls(l, m)
      <4>1. PICK m \in i + 1..j : Falls(l, m)
        BY <3>2
      <4>2. m \in 2..z
        BY <1>1, <2>1, <2>3
      <4> QED BY <1>3, <1>8, <1>12, <2>1, <2>3, <3>1, <4>1, <4>2
    <3>3. CASE l[j].total - l[i].total = l[j].at - l[i].at
      BY <1>3, <1>12, <2>1, <2>3, <3>1, <3>3
    <3> QED BY <1>3, <1>12, <2>1, <2>3, <3>2, <3>3
  <2> QED BY <1>1, <2>2, <2>3
<1>13. LinesOK(L, g, n + d)
  <2>1. /\ g <= n + d
        /\ L # <<>>
        /\ L[Len(L)].at = n + d
    BY <1>1, <1>3
  <2>2. \A i, j \in 1..Len(L) : i < j =>
       /\ L[i].at <= L[j].at
       /\ \/ L[j].total - L[i].total = L[j].at - L[i].at
          \/ \E m \in i + 1..j : Falls(L, m)
    BY <1>1, <1>12
  <2> QED BY <1>1, <1>7, <1>10, <1>11, <2>1, <2>2 DEF LinesOK
<1> QED BY <1>5, <1>6, <1>13 DEF L

(* The place of a reader holds numbers, not beyond what was used.          *)
LEMMA PlaceFields ==
  ASSUME NEW l \in Seq(Line), NEW g \in Nat, NEW n \in Nat, LinesOK(l, g, n),
         NEW b \in Row, b.offset <= Len(l)
  PROVE  /\ Place(l, g, b).epoch = b.gen /\ b.gen \in Nat
         /\ Place(l, g, b).total \in Nat /\ Place(l, g, b).at \in Nat
         /\ g <= Place(l, g, b).at /\ Place(l, g, b).at <= n
<1>1. b.offset \in Nat /\ b.gen \in Nat /\ Len(l) \in Nat
  BY LenProperties DEF Row
<1>2. CASE b.offset = 0
  <2>1. Origin(l, g) \in Nat
    <3>1. CASE l = <<>>
      BY <3>1 DEF Origin
    <3>2. CASE l # <<>>
      <4>1. 1 \in 1..Len(l)
        BY <3>2, EmptySeq
      <4>2. l[1].total \in Nat /\ l[1].at \in Nat
        BY <4>1, LineFields
      <4> QED BY <3>2, <4>2 DEF Origin, LinesOK
    <3> QED BY <3>1, <3>2
  <2> QED BY <1>1, <1>2, <2>1 DEF Place, LinesOK
<1>3. CASE b.offset # 0
  <2>1. b.offset \in 1..Len(l)
    BY <1>1, <1>3
  <2>2. l[b.offset].total \in Nat /\ l[b.offset].at \in Nat
    BY <2>1, LineFields
  <2> QED BY <1>1, <1>3, <2>1, <2>2 DEF Place, LinesOK
<1> QED BY <1>2, <1>3

(* The line after the place of a reader goes on from it or starts again.   *)
LEMMA NextLine ==
  ASSUME NEW l \in Seq(Line), NEW g \in Nat, NEW n \in Nat, LinesOK(l, g, n),
         NEW b \in Row, b.offset + 1 \in 1..Len(l)
  PROVE  LET x == Place(l, g, b)
             f == l[b.offset + 1]
         IN  /\ x.at <= f.at
             /\ \/ f.total - x.total = f.at - x.at
                \/ /\ b.offset >= 1 /\ Falls(l, b.offset + 1)
                   /\ x = [epoch |-> b.gen, total |-> l[b.offset].total,
                           at |-> l[b.offset].at]
                   /\ f.total = f.at - x.at
<1>1. b.offset \in Nat /\ Len(l) \in Nat
  BY LenProperties DEF Row
<1> DEFINE k == b.offset + 1
           x == Place(l, g, b)
<1>2. l[k].total \in Nat /\ l[k].at \in Nat
  BY LineFields
<1>3. CASE b.offset = 0
  <2>1. k = 1 /\ l # <<>>
    BY <1>1, <1>3, EmptySeq
  <2>2. x.total = l[1].total - (l[1].at - g) /\ x.at = g
    BY <1>3, <2>1 DEF Place, Origin
  <2>3. g <= l[1].at
    BY <2>1 DEF LinesOK
  <2> HIDE DEF x
  <2>4. l[k].total - x.total = l[k].at - x.at /\ x.at <= l[k].at
    BY <1>2, <2>1, <2>2, <2>3
  <2> QED BY <2>4 DEF x
<1>4. CASE b.offset # 0
  <2> DEFINE o == b.offset
  <2>1. o \in 1..Len(l) /\ k \in 1..Len(l) /\ o < k /\ o >= 1 /\ k \in 2..Len(l)
    BY <1>1, <1>4
  <2>2. x = [epoch |-> b.gen, total |-> l[o].total, at |-> l[o].at]
    BY <1>4 DEF Place
  <2>3. l[o].total \in Nat /\ l[o].at \in Nat
    BY <2>1, LineFields
  <2>4. l[o].at <= l[k].at
    BY <2>1 DEF LinesOK
  <2>5. l[k].total - l[o].total = l[k].at - l[o].at \/ Falls(l, k)
    <3>1. \/ l[k].total - l[o].total = l[k].at - l[o].at
          \/ \E m \in o + 1..k : Falls(l, m)
      BY <2>1 DEF LinesOK
    <3>2. \A m \in o + 1..k : m = k
      BY <1>1
    <3> QED BY <3>1, <3>2
  <2>6. Falls(l, k) => l[k].total = l[k].at - l[o].at
    <3>1. k - 1 = o
      BY <1>1
    <3>2. Falls(l, k) => l[k].total = l[k].at - l[k - 1].at
      BY <2>1 DEF LinesOK
    <3> QED BY <3>1, <3>2
  <2> QED BY <2>1, <2>2, <2>4, <2>5, <2>6
<1> QED BY <1>3, <1>4

-----------------------------------------------------------------------------
(* Lemmas about what is on its way.                                        *)

(* An event, or a place, as far as its counting goes.                      *)
IsMark(e) == e.epoch \in Nat /\ e.total \in Nat /\ e.at \in Nat

(* The account of a file.                                                  *)
IsAccount(a) ==
  /\ a.n \in Nat /\ a.b \in Nat /\ a.t \in Nat
  /\ a.w \in Counter \cup {NoCounter}

(* What goes on from x follows what x follows.                             *)
LEMMA FollowsOn ==
  ASSUME NEW e, NEW x, NEW f, IsMark(e), IsMark(x), IsMark(f), Follows(e, x),
         f.epoch = x.epoch, x.at <= f.at, f.total - x.total = f.at - x.at
  PROVE  Follows(e, f)
BY DEF Follows, IsMark

(* So does what starts again after x, in another epoch.                    *)
LEMMA FollowsRestart ==
  ASSUME NEW e, NEW x, NEW f, IsMark(e), IsMark(x), IsMark(f), Follows(e, x),
         f.epoch = x.epoch + 1, x.at <= f.at, f.total <= f.at - x.at
  PROVE  Follows(e, f)
BY DEF Follows, IsMark

(* What goes on from a sound place is sound.                               *)
LEMMA SoundOn ==
  ASSUME NEW a, IsAccount(a), NEW s, NEW q, NEW j, NEW x, NEW f,
         IsMark(x), IsMark(f), Sound(a, s, q, j, x),
         f.epoch = x.epoch, x.at <= f.at, f.total - x.total = f.at - x.at,
         \A i \in 1..Len(q) : q[i].total \in Nat
  PROVE  /\ Sound(a, s, q, j, f)
         /\ (Enough(a, x) \/ Above(a, x) \/ Awaits(a, s, q, j, x)) =>
              (Enough(a, f) \/ Above(a, f) \/ Awaits(a, s, q, j, f))
<1> DEFINE n == a.n
           b == a.b
           t == a.t
           xt == x.total
           xa == x.at
           ft == f.total
           fa == f.at
<1>1. /\ n \in Nat /\ b \in Nat /\ t \in Nat
      /\ xt \in Nat /\ xa \in Nat /\ ft \in Nat /\ fa \in Nat
  BY DEF IsAccount, IsMark
<1>2. xa <= fa /\ ft - xt = fa - xa
  OBVIOUS
<1>3. n = 0 \/ n <= xa - b
  BY DEF Sound, Paid
<1>4. Enough(a, x) <=> n + xt <= xa - b
  BY DEF Enough
<1>5. Enough(a, f) <=> n + ft <= fa - b
  BY DEF Enough
<1>6. Paid(a, f) <=> (n = 0 \/ n <= fa - b)
  BY DEF Paid
<1>7. ASSUME Enough(a, x) PROVE Enough(a, f) /\ Paid(a, f)
  <2> HIDE DEF n, b, t, xt, xa, ft, fa
  <2>1. Enough(a, f) /\ Paid(a, f)
    BY <1>1, <1>2, <1>3, <1>4, <1>5, <1>6, <1>7
  <2> QED BY <2>1
<1>8. ASSUME Above(a, x) PROVE Above(a, f) /\ Paid(a, f)
  <2> DEFINE wt == a.w.total
  <2>1. a.w # NoCounter /\ x.epoch <= a.w.epoch /\ n + xt - wt <= xa - b
    BY <1>8 DEF Above
  <2>2. wt \in Nat
    BY <2>1 DEF IsAccount, Counter
  <2>3. n + ft - wt <= fa - b
    <3> HIDE DEF n, b, t, xt, xa, ft, fa, wt
    <3> QED BY <1>1, <1>2, <2>1, <2>2
  <2>4. Above(a, f)
    BY <2>1, <2>3 DEF Above
  <2>5. Paid(a, f)
    <3> HIDE DEF n, b, t, xt, xa, ft, fa, wt
    <3> QED BY <1>1, <1>2, <1>3, <1>6
  <2> QED BY <2>4, <2>5
<1>9. ASSUME Awaits(a, s, q, j, x) PROVE Awaits(a, s, q, j, f) /\ Paid(a, f)
  <2>1. PICK i \in 1..Len(q) :
          /\ i < j
          /\ q[i].type = "baseline" /\ q[i].src = s
          /\ x.epoch = 0
          /\ a.n + x.total - q[i].total <= x.at - a.b
    BY <1>9 DEF Awaits
  <2> DEFINE qt == q[i].total
  <2>2. n + xt - qt <= xa - b /\ qt \in Nat
    BY <2>1
  <2>3. n + ft - qt <= fa - b
    <3> HIDE DEF n, b, t, xt, xa, ft, fa, qt
    <3> QED BY <1>1, <1>2, <2>2
  <2>4. Awaits(a, s, q, j, f)
    BY <2>1, <2>3 DEF Awaits
  <2>5. Paid(a, f)
    <3> HIDE DEF n, b, t, xt, xa, ft, fa, qt
    <3> QED BY <1>1, <1>2, <1>3, <1>6
  <2> QED BY <2>4, <2>5
<1>10. ASSUME Inherits(a, s, q, j, x) PROVE Inherits(a, s, q, j, f) /\ Paid(a, f)
  <2>1. t <= xt /\ xt - t <= xa - b
    BY <1>10 DEF Inherits
  <2>2. t <= ft /\ ft - t <= fa - b
    <3> HIDE DEF n, b, t, xt, xa, ft, fa
    <3> QED BY <1>1, <1>2, <2>1
  <2>3. Inherits(a, s, q, j, f)
    BY <1>10, <2>2 DEF Inherits
  <2>4. Paid(a, f)
    <3> HIDE DEF n, b, t, xt, xa, ft, fa
    <3> QED BY <1>1, <1>2, <1>3, <1>6
  <2> QED BY <2>3, <2>4
<1> QED BY <1>7, <1>8, <1>9, <1>10 DEF Sound

(* What starts again after a paid place, later than collection began, is   *)
(* sound: its whole total was used since.                                  *)
LEMMA SoundRestart ==
  ASSUME NEW a, IsAccount(a), NEW s, NEW q, NEW j, NEW x, NEW f,
         IsMark(x), IsMark(f), Paid(a, x), a.b <= x.at,
         x.at <= f.at, f.total <= f.at - x.at
  PROVE  Sound(a, s, q, j, f) /\ Enough(a, f)
<1> DEFINE n == a.n
           b == a.b
           xa == x.at
           ft == f.total
           fa == f.at
<1>1. n \in Nat /\ b \in Nat /\ xa \in Nat /\ ft \in Nat /\ fa \in Nat
  BY DEF IsAccount, IsMark
<1>2. (n = 0 \/ n <= xa - b) /\ b <= xa /\ xa <= fa /\ ft <= fa - xa
  BY DEF Paid
<1>3. (n = 0 \/ n <= fa - b) /\ n + ft <= fa - b
  <2> HIDE DEF n, b, xa, ft, fa
  <2> QED BY <1>1, <1>2
<1> QED BY <1>3 DEF Paid, Enough, Sound

(* When e was applied and became the watermark, what follows it is sound.  *)
LEMMA SoundAfter ==
  ASSUME NEW a, IsAccount(a), NEW s, NEW q, NEW j, NEW e, NEW f,
         IsMark(e), IsMark(f), Follows(e, f),
         a.n <= e.at - a.b,
         a.w = [epoch |-> e.epoch, total |-> e.total]
  PROVE  Sound(a, s, q, j, f) /\ (Enough(a, f) \/ Above(a, f))
<1> DEFINE n == a.n
           b == a.b
           et == e.total
           ea == e.at
           ft == f.total
           fa == f.at
<1>1. /\ n \in Nat /\ b \in Nat /\ et \in Nat /\ ea \in Nat
      /\ ft \in Nat /\ fa \in Nat
  BY DEF IsAccount, IsMark
<1>2. n <= ea - b /\ ea <= fa
  BY DEF Follows
<1>3. n <= fa - b
  <2> HIDE DEF n, b, et, ea, ft, fa
  <2> QED BY <1>1, <1>2
<1>4. CASE e.epoch = f.epoch /\ f.total - e.total <= f.at - e.at
  <2>1. n + ft - et <= fa - b
    <3>1. ft - et <= fa - ea
      BY <1>4
    <3> HIDE DEF n, b, et, ea, ft, fa
    <3> QED BY <1>1, <1>2, <3>1
  <2>2. a.w # NoCounter /\ f.epoch <= a.w.epoch /\ a.w.total = et
    BY <1>4 DEF IsMark, NoCounter
  <2>3. Above(a, f)
    BY <2>1, <2>2 DEF Above
  <2> QED BY <1>3, <2>3 DEF Sound, Paid
<1>5. CASE e.epoch < f.epoch /\ f.total <= f.at - e.at
  <2>1. n + ft <= fa - b
    <3>1. ft <= fa - ea
      BY <1>5
    <3> HIDE DEF n, b, et, ea, ft, fa
    <3> QED BY <1>1, <1>2, <3>1
  <2> QED BY <1>3, <2>1 DEF Sound, Paid, Enough
<1> QED BY <1>4, <1>5 DEF Follows

(* What joins the queue behind the place j changes nothing at j.           *)
LEMMA SoundAppend ==
  ASSUME NEW a, NEW s, NEW q \in Seq(Event), NEW Q \in Seq(Event),
         Len(q) <= Len(Q), \A i \in 1..Len(q) : Q[i] = q[i],
         NEW j \in 1..Len(q) + 1, NEW x, Sound(a, s, q, j, x)
  PROVE  Sound(a, s, Q, j, x)
<1>1. Len(q) \in Nat /\ Len(Q) \in Nat
  BY LenProperties
<1>2. Awaits(a, s, q, j, x) => Awaits(a, s, Q, j, x)
  <2> SUFFICES ASSUME Awaits(a, s, q, j, x) PROVE Awaits(a, s, Q, j, x)
    OBVIOUS
  <2>1. PICK i \in 1..Len(q) :
          /\ i < j
          /\ q[i].type = "baseline" /\ q[i].src = s
          /\ x.epoch = 0
          /\ a.n + x.total - q[i].total <= x.at - a.b
    BY DEF Awaits
  <2>2. i \in 1..Len(Q) /\ Q[i] = q[i]
    BY <1>1
  <2> QED BY <2>1, <2>2 DEF Awaits
<1>3. Inherits(a, s, q, j, x) => Inherits(a, s, Q, j, x)
  <2> SUFFICES ASSUME Inherits(a, s, q, j, x) PROVE Inherits(a, s, Q, j, x)
    OBVIOUS
  <2>1. ASSUME NEW i \in 1..Len(Q), i < j
        PROVE  Q[i].src # Parent[s] /\ (Q[i].src = s => Q[i].type = "exact")
    <3>1. i \in 1..Len(q) /\ Q[i] = q[i]
      BY <1>1, <2>1
    <3> QED BY <2>1, <3>1 DEF Inherits
  <2> QED BY <2>1 DEF Inherits
<1> QED BY <1>2, <1>3 DEF Sound

(* The place of the reader stays sound behind a longer queue, unless its   *)
(* file is still to be compared with its parent and one of the two has     *)
(* joined the queue.                                                       *)
LEMMA SoundEnd ==
  ASSUME NEW a, NEW s, NEW q \in Seq(Event), NEW Q \in Seq(Event),
         Len(q) <= Len(Q), \A i \in 1..Len(q) : Q[i] = q[i],
         NEW x, Sound(a, s, q, Len(q) + 1, x),
         \/ Enough(a, x) \/ Above(a, x) \/ Awaits(a, s, q, Len(q) + 1, x)
         \/ \A i \in Len(q) + 1..Len(Q) :
              Q[i].src # Parent[s] /\ (Q[i].src = s => Q[i].type = "exact")
  PROVE  /\ Sound(a, s, Q, Len(Q) + 1, x)
         /\ Awaits(a, s, q, Len(q) + 1, x) => Awaits(a, s, Q, Len(Q) + 1, x)
<1>1. Len(q) \in Nat /\ Len(Q) \in Nat
  BY LenProperties
<1>2. Awaits(a, s, q, Len(q) + 1, x) => Awaits(a, s, Q, Len(Q) + 1, x)
  <2> SUFFICES ASSUME Awaits(a, s, q, Len(q) + 1, x)
               PROVE  Awaits(a, s, Q, Len(Q) + 1, x)
    OBVIOUS
  <2>1. PICK i \in 1..Len(q) :
          /\ q[i].type = "baseline" /\ q[i].src = s
          /\ x.epoch = 0
          /\ a.n + x.total - q[i].total <= x.at - a.b
    BY DEF Awaits
  <2>2. i \in 1..Len(Q) /\ Q[i] = q[i] /\ i < Len(Q) + 1
    BY <1>1
  <2> QED BY <2>1, <2>2 DEF Awaits
<1>3. ASSUME Inherits(a, s, q, Len(q) + 1, x),
             \A i \in Len(q) + 1..Len(Q) :
               Q[i].src # Parent[s] /\ (Q[i].src = s => Q[i].type = "exact")
      PROVE  Inherits(a, s, Q, Len(Q) + 1, x)
  <2>1. ASSUME NEW i \in 1..Len(Q)
        PROVE  Q[i].src # Parent[s] /\ (Q[i].src = s => Q[i].type = "exact")
    <3>1. CASE i \in 1..Len(q)
      <4>1. i < Len(q) + 1 /\ Q[i] = q[i]
        BY <1>1, <3>1
      <4> QED BY <1>3, <3>1, <4>1 DEF Inherits
    <3>2. CASE i \in Len(q) + 1..Len(Q)
      BY <1>3, <3>2
    <3> QED BY <1>1, <3>1, <3>2
  <2> QED BY <1>3, <2>1 DEF Inherits
<1> QED BY <1>2, <1>3 DEF Sound

(* The head leaves the queue: everything else moves up.  A baseline of the *)
(* file itself is left aside here.                                         *)
LEMMA SoundTail ==
  ASSUME NEW a, NEW s, NEW q \in Seq(Event), NEW Q \in Seq(Event),
         Len(q) = Len(Q) + 1, \A i \in 1..Len(Q) : Q[i] = q[i + 1],
         NEW j \in 2..Len(q) + 1, NEW x, Sound(a, s, q, j, x),
         q[1].type # "baseline" \/ q[1].src # s
  PROVE  /\ Sound(a, s, Q, j - 1, x)
         /\ Awaits(a, s, q, j, x) => Awaits(a, s, Q, j - 1, x)
<1>1. Len(q) \in Nat /\ Len(Q) \in Nat
  BY LenProperties
<1>2. Awaits(a, s, q, j, x) => Awaits(a, s, Q, j - 1, x)
  <2> SUFFICES ASSUME Awaits(a, s, q, j, x)
               PROVE  Awaits(a, s, Q, j - 1, x)
    OBVIOUS
  <2>1. PICK i \in 1..Len(q) :
          /\ i < j
          /\ q[i].type = "baseline" /\ q[i].src = s
          /\ x.epoch = 0
          /\ a.n + x.total - q[i].total <= x.at - a.b
    BY DEF Awaits
  <2>2. i # 1
    BY <2>1
  <2>3. i - 1 \in 1..Len(Q) /\ (i - 1) + 1 = i /\ i - 1 < j - 1
    BY <1>1, <2>1, <2>2
  <2>4. Q[i - 1] = q[i]
    BY <2>3
  <2> QED BY <2>1, <2>3, <2>4 DEF Awaits
<1>3. Inherits(a, s, q, j, x) => Inherits(a, s, Q, j - 1, x)
  <2> SUFFICES ASSUME Inherits(a, s, q, j, x) PROVE Inherits(a, s, Q, j - 1, x)
    OBVIOUS
  <2>1. ASSUME NEW i \in 1..Len(Q), i < j - 1
        PROVE  Q[i].src # Parent[s] /\ (Q[i].src = s => Q[i].type = "exact")
    <3>1. i + 1 \in 1..Len(q) /\ i + 1 < j /\ Q[i] = q[i + 1]
      BY <1>1, <2>1
    <3> QED BY <3>1 DEF Inherits
  <2> QED BY <2>1 DEF Inherits
<1> QED BY <1>2, <1>3 DEF Sound

-----------------------------------------------------------------------------
(* Types of the parts of the invariant.                                    *)

(* Accounts, places and events are made of numbers.                        *)
LEMMA Numbers ==
  ASSUME TypeOK, NEW s \in Source
  PROVE  /\ IsAccount(Account(s))
         /\ log[s] \in Seq(Line) /\ gone[s] \in Nat /\ spent[s] \in Nat
         /\ Begin(s) \in Row
         /\ (LinesOK(log[s], gone[s], spent[s]) /\ RowOK(s)) =>
              /\ IsMark(Anchor(s)) /\ Anchor(s).at <= spent[s]
              /\ gone[s] <= Anchor(s).at
              /\ Anchor(s).epoch = Begin(s).gen
         /\ \A i \in 1..Len(queue) : queue[i] \in Event /\ IsMark(queue[i])
<1>1. Account(s).t \in Nat
  <2>1. CASE Parent[s] \in Source
    <3>1. conv[Main(Parent[s])] \in Counter \cup {NoCounter}
      BY <2>1, Conversations DEF TypeOK
    <3>2. conv[Main(Parent[s])].total \in Nat
      BY <3>1 DEF Counter, NoCounter
    <3> QED BY <2>1, <3>2 DEF Account
  <2>2. CASE Parent[s] \notin Source
    BY <2>2 DEF Account
  <2> QED BY <2>1, <2>2
<1>2. /\ Account(s).n \in Nat /\ Account(s).b \in Nat
      /\ Account(s).w \in Counter \cup {NoCounter}
  BY DEF Account, TypeOK
<1>3. log[s] \in Seq(Line) /\ gone[s] \in Nat /\ spent[s] \in Nat
  BY DEF TypeOK
<1>4. Begin(s) \in Row
  BY BeginFields
<1>5. (LinesOK(log[s], gone[s], spent[s]) /\ RowOK(s)) =>
              /\ IsMark(Anchor(s)) /\ Anchor(s).at <= spent[s]
              /\ gone[s] <= Anchor(s).at
              /\ Anchor(s).epoch = Begin(s).gen
  <2> SUFFICES ASSUME LinesOK(log[s], gone[s], spent[s]), RowOK(s)
               PROVE  /\ IsMark(Anchor(s)) /\ Anchor(s).at <= spent[s]
                      /\ gone[s] <= Anchor(s).at
                      /\ Anchor(s).epoch = Begin(s).gen
    OBVIOUS
  <2>1. Begin(s).offset <= Len(log[s])
    BY DEF RowOK
  <2> QED BY <1>3, <1>4, <2>1, PlaceFields DEF Anchor, IsMark
<1>6. \A i \in 1..Len(queue) : queue[i] \in Event /\ IsMark(queue[i])
  <2> TAKE i \in 1..Len(queue)
  <2>1. queue[i] \in Event
    BY ElementOfSeq DEF TypeOK
  <2> QED BY <2>1 DEF Event, IsMark
<1> QED BY <1>1, <1>2, <1>3, <1>4, <1>5, <1>6 DEF IsAccount

-----------------------------------------------------------------------------
(* Files a step leaves alone.                                              *)

Alike(u) ==
  /\ log'[u] = log[u] /\ erased'[u] = erased[u]
  /\ gone'[u] = gone[u] /\ spent'[u] = spent[u] /\ base'[u] = base[u]
  /\ source'[u] = source[u] /\ counted'[u] = counted[u]

Same(u) == Alike(u) /\ row'[u] = row[u]

(* A file keeps its invariant in a step that leaves it, the queue and the  *)
(* conversations alone and moves no reader in it, if the parent it waits   *)
(* for stays read.                                                         *)
LEMMA Kept ==
  ASSUME NEW u \in Source, FileOK(u), Alike(u), UNCHANGED <<queue, conv, keys>>,
         Begin(u)' = Begin(u), Untouched(u)',
         (/\ log[u] # <<>> /\ source[u] = NoCounter
          /\ Parent[u] \in Source /\ ParentRead(Parent[u])) => ParentRead(Parent[u])'
  PROVE  FileOK(u)'
<1>2. Anchor(u)' = Anchor(u)
  BY DEF Anchor, Alike
<1>3. Account(u)' = Account(u)
  BY DEF Account, Alike
<1>4. LinesOK(log[u], gone[u], spent[u])' /\ (Parent[u] = NoParent => Origin(log[u], gone[u]) = 0)'
  BY DEF FileOK, Alike
<1>5. RowOK(u)'
  BY DEF FileOK, RowOK, Alike
<1>7. LedgerOK(u)'
  BY DEF FileOK, LedgerOK, Alike
<1>8. PendingOK(u)'
  BY <1>2, <1>3 DEF FileOK, PendingOK
<1>9. AnchorOK(u)'
  <2>1. Sound(Account(u), u, queue, Len(queue) + 1, Anchor(u))'
    BY <1>2, <1>3 DEF FileOK, AnchorOK
  <2>2. CASE \/ Enough(Account(u), Anchor(u))
             \/ Above(Account(u), Anchor(u))
             \/ Awaits(Account(u), u, queue, Len(queue) + 1, Anchor(u))
    BY <1>2, <1>3, <2>1, <2>2 DEF AnchorOK
  <2>3. CASE /\ Still(u)
             /\ Inherits(Account(u), u, queue, Len(queue) + 1, Anchor(u))
    <3>1. source[u] = NoCounter /\ Parent[u] \in Source
      BY <2>3 DEF Inherits, Account
    <3>2. log[u] # <<>> /\ ParentRead(Parent[u])
      BY <2>3 DEF Still
    <3>3. Still(u)'
      BY <3>1, <3>2 DEF Still, Alike
    <3> QED BY <2>1, <3>3 DEF AnchorOK
  <2> QED BY <2>2, <2>3 DEF FileOK, AnchorOK, Sound
<1> QED BY <1>4, <1>5, <1>7, <1>8, <1>9 DEF FileOK

(* So does a file whose row is left alone too.                             *)
LEMMA Frame ==
  ASSUME NEW u \in Source, FileOK(u), Same(u), UNCHANGED <<queue, conv, keys>>,
         (/\ log[u] # <<>> /\ source[u] = NoCounter
          /\ Parent[u] \in Source /\ ParentRead(Parent[u])) => ParentRead(Parent[u])'
  PROVE  FileOK(u)'
<1>1. Begin(u)' = Begin(u) /\ Alike(u)
  BY DEF Begin, Same, Alike
<1>2. Untouched(u)'
  BY DEF FileOK, Untouched, Same, Alike
<1> QED BY <1>1, <1>2, Kept

-----------------------------------------------------------------------------
(* Codex writes.                                                           *)

(* How the total of a line comes about.                                    *)
Grows(s, total, d) ==
  \/ log[s] # <<>> /\ (total = LastTotal(s) + d \/ (total = d /\ d < LastTotal(s)))
  \/ log[s] = <<>> /\ total = d
  \/ Fork(s) /\ total = LastTotal(Parent[s]) + d

(* The file that grows.                                                    *)
LEMMA WriteFile ==
  ASSUME TypeOK, NEW s \in Source, FileOK(s), NEW total \in Nat, NEW d \in Nat,
         NEW line \in Line, WriteStep(s, total, d, line), Grows(s, total, d),
         ~ForkPending(s), StaysNoticeable(s)
  PROVE  FileOK(s)'
<1> DEFINE l == log[s]
           g == gone[s]
           n == spent[s]
           L == Append(l, line)
<1>1. /\ l \in Seq(Line) /\ g \in Nat /\ n \in Nat /\ Begin(s) \in Row
      /\ IsAccount(Account(s)) /\ base[s] \in Nat /\ counted[s] \in Nat
  BY Numbers DEF TypeOK
<1>2. LinesOK(l, g, n) /\ RowOK(s)
  BY DEF FileOK
<1>3. /\ log'[s] = L /\ spent'[s] = n + d /\ gone'[s] = g
      /\ line.total = total /\ line.at = n + d
      /\ UNCHANGED <<erased, row, base, queue, source, conv, keys, counted>>
  BY <1>1 DEF WriteStep, TypeOK
<1>4. /\ L # <<>> /\ Len(L) = Len(l) + 1 /\ Len(l) \in Nat /\ L \in Seq(Line)
      /\ \A i \in 1..Len(l) : L[i] = l[i]
      /\ (l = <<>> <=> Len(l) = 0)
  BY <1>1, AppendProperties, LenProperties, EmptySeq
<1>5. Fork(s) => l = <<>>
  BY DEF Fork
<1>6. l # <<>> => LastTotal(s) = l[Len(l)].total
  BY DEF LastTotal
<1>7. /\ l = <<>> => total >= d
      /\ l # <<>> => \/ total = l[Len(l)].total + d
                     \/ total = d /\ d < l[Len(l)].total
  <2>1. Fork(s) => LastTotal(Parent[s]) \in Nat
    <3>1. Fork(s) => Parent[s] \in Source
      BY LedgerAssumption DEF Fork
    <3> QED BY <3>1, LastTotalType
  <2> QED BY <1>5, <1>6, <2>1 DEF Grows
<1>8. /\ LinesOK(L, g, n + d)
      /\ l # <<>> => Origin(L, g) = Origin(l, g)
      /\ l = <<>> => Origin(L, g) = total - d
  <2> HIDE DEF l, g, n, L
  <2>1. line.at = n + d /\ line.total = total
    BY <1>3
  <2>2. GoesOn(l, d, line)
    BY <1>7, <2>1 DEF GoesOn
  <2>3. l \in Seq(Line) /\ g \in Nat /\ n \in Nat /\ LinesOK(l, g, n)
    BY <1>1, <1>2
  <2>4. LinesOK(Append(l, line), g, n + d)
    BY <2>1, <2>2, <2>3, LinesGrow
  <2>5. l # <<>> => Origin(Append(l, line), g) = Origin(l, g)
    BY <2>1, <2>2, <2>3, LinesGrow
  <2>6. ASSUME l = <<>> PROVE Origin(L, g) = total - d
    <3>1. L[1] = line /\ L # <<>> /\ n = g /\ line.total \in Nat
      BY <1>1, <1>2, <2>6, AppendProperties, EmptySeq DEF L, LinesOK, Line
    <3> QED BY <1>1, <2>1, <3>1 DEF Origin
  <2> QED BY <2>1, <2>4, <2>5, <2>6 DEF L
<1> HIDE DEF L
<1>9. Begin(s)' = Begin(s)
  <2>1. row[s] # NoRow => (Len(l) < row[s].offset <=> Len(L) < row[s].offset)
    <3> SUFFICES ASSUME row[s] # NoRow
                 PROVE  Len(l) < row[s].offset <=> Len(L) < row[s].offset
      OBVIOUS
    <3>1. row[s].offset \in Nat
      BY BeginFields DEF Row
    <3>2. Len(l) < row[s].offset => Len(l) + 1 < row[s].offset
      BY DEF StaysNoticeable
    <3> QED BY <1>4, <3>1, <3>2
  <2>2. row'[s] = row[s] /\ log'[s] = L
    BY <1>3
  <2>3. CASE row[s] = NoRow
    BY <2>2, <2>3 DEF Begin
  <2>4. CASE row[s] # NoRow
    BY <2>1, <2>2, <2>4 DEF Begin
  <2> QED BY <2>3, <2>4
<1> DEFINE b == Begin(s)
<1>10. b.offset \in Nat /\ b.offset <= Len(l)
  BY <1>1, <1>2 DEF RowOK, Row
<1>11. Account(s)' = Account(s)
  BY <1>3 DEF Account
<1>12. base[s] <= n
  BY <1>1 DEF FileOK, LedgerOK
<1>13. b.offset > 0 => L[b.offset] = l[b.offset] /\ l # <<>>
  BY <1>4, <1>10
<1>14. RowOK(s)'
  <2>1. b.offset <= Len(L) /\ b.conv[1] = s
    BY <1>2, <1>4, <1>10 DEF RowOK
  <2>2. b.init => b.offset >= 1 /\ b.last = L[b.offset].total
    BY <1>2, <1>10, <1>13 DEF RowOK
  <2>3. FallsAfter(L, b.offset, base[s])
    <3> SUFFICES ASSUME NEW m \in 2..Len(L), m > b.offset, Falls(L, m)
                 PROVE  base[s] <= L[m - 1].at
      BY DEF FallsAfter
    <3>1. CASE m \in 2..Len(l)
      <4>1. m \in 1..Len(l) /\ m - 1 \in 1..Len(l)
        BY <1>4, <3>1
      <4>2. L[m] = l[m] /\ L[m - 1] = l[m - 1]
        BY <1>4, <4>1
      <4>3. Falls(l, m)
        BY <4>2 DEF Falls
      <4>4. base[s] <= l[m - 1].at
        <5>1. FallsAfter(l, b.offset, base[s])
          BY <1>2 DEF RowOK
        <5> QED BY <3>1, <4>3, <5>1 DEF FallsAfter
      <4> QED BY <4>2, <4>4
    <3>2. CASE m = Len(l) + 1
      <4>1. L[m - 1] = l[Len(l)] /\ l # <<>>
        BY <1>4, <3>2
      <4>2. l[Len(l)].at = n
        BY <1>2, <4>1 DEF LinesOK
      <4> QED BY <1>12, <4>1, <4>2
    <3> QED BY <1>4, <3>1, <3>2
  <2>4. ~b.init /\ b.offset > 0 => Pending(queue, s) = {}
    BY <1>2 DEF RowOK
  <2> QED BY <1>3, <1>9, <2>1, <2>2, <2>3, <2>4 DEF RowOK
<1>15. (Parent[s] = NoParent => Origin(log[s], gone[s]) = 0)'
  <2> SUFFICES ASSUME Parent[s] = NoParent PROVE Origin(L, g) = 0
    BY <1>3
  <2>1. ~Fork(s)
    BY DEF Fork
  <2>2. CASE l # <<>>
    BY <1>8, <2>2 DEF FileOK
  <2>3. CASE l = <<>>
    BY <1>8, <2>1, <2>3 DEF Grows
  <2> QED BY <2>2, <2>3
<1>16. Untouched(s)'
  BY <1>3, <1>4 DEF FileOK, Untouched
<1>17. LedgerOK(s)'
  BY <1>1, <1>3 DEF FileOK, LedgerOK
<1>18. LinesOK(log[s], gone[s], spent[s])'
  BY <1>3, <1>8
<1>19. CASE l # <<>> \/ total = d
  <2>1. Origin(L, g) = Origin(l, g)
    BY <1>8, <1>19 DEF Origin
  <2>2. Anchor(s)' = Anchor(s)
    <3>1. Anchor(s)' = Place(L, g, b)
      BY <1>3, <1>9 DEF Anchor
    <3>2. Place(L, g, b) = Place(l, g, b)
      <4> HIDE DEF b, l, g
      <4> QED BY <1>10, <1>13, <2>1 DEF Place
    <3> QED BY <3>1, <3>2 DEF Anchor
  <2>3. PendingOK(s)'
    BY <1>3, <1>11, <2>2 DEF FileOK, PendingOK
  <2>4. Sound(Account(s), s, queue, Len(queue) + 1, Anchor(s))'
    BY <1>3, <1>11, <2>2 DEF FileOK, AnchorOK
  <2>5. CASE \/ Enough(Account(s), Anchor(s))
             \/ Above(Account(s), Anchor(s))
             \/ Awaits(Account(s), s, queue, Len(queue) + 1, Anchor(s))
    BY <1>3, <1>11, <2>2, <2>4, <2>5, <1>14, <1>15, <1>16, <1>17, <1>18, <2>3
       DEF AnchorOK, FileOK
  <2>6. CASE /\ Still(s)
             /\ Inherits(Account(s), s, queue, Len(queue) + 1, Anchor(s))
    <3>1. source[s] = NoCounter /\ Parent[s] \in Source
      BY <2>6 DEF Inherits, Account
    <3>2. log[s] # <<>> /\ ParentRead(Parent[s])
      BY <2>6 DEF Still
    <3>3. Parent[s] # s
      BY <3>1, <3>2 DEF ForkPending
    <3>4. log'[Parent[s]] = log[Parent[s]]
      BY <3>1, <3>3 DEF WriteStep, TypeOK
    <3>5. Still(s)'
      BY <1>3, <1>4, <3>2, <3>4 DEF Still, ParentRead
    <3> QED BY <2>4, <3>5, <1>14, <1>15, <1>16, <1>17, <1>18, <2>3 DEF AnchorOK, FileOK
  <2> QED BY <2>5, <2>6 DEF FileOK, AnchorOK, Sound
<1>20. CASE l = <<>> /\ total # d
  <2> DEFINE p == Parent[s]
             t == LastTotal(p)
  <2>1. Fork(s) /\ total = t + d
    BY <1>20 DEF Grows
  <2>2. /\ p \in Source /\ queue = <<>> /\ conv[Main(p)].total = t
        /\ ParentRead(p) /\ erased[s] = 0
    BY <2>1, LedgerAssumption DEF Fork, ParentInStep, ParentRead
  <2>3. t \in Nat /\ t # 0
    BY <1>20, <2>1, <2>2, LastTotalType
  <2>4. p # s
    BY <1>20, <2>3 DEF LastTotal
  <2>5. /\ g = 0 /\ base[s] = 0 /\ counted[s] = 0 /\ source[s] = NoCounter
    BY <1>20, <2>2 DEF FileOK, Untouched
  <2>6. Len(queue) = 0 /\ Pending(queue, s) = {}
    BY <2>2, EmptySeq DEF Pending
  <2>7. PendingOK(s)'
    BY <1>3, <2>6 DEF PendingOK
  <2>8. b.offset = 0 /\ Origin(L, g) = t
    <3>1. Len(l) = 0
      BY <1>4, <1>20
    <3> QED BY <1>8, <1>10, <1>20, <2>1, <2>3, <3>1
  <2>9. Anchor(s)' = [epoch |-> b.gen, total |-> t, at |-> 0]
    BY <1>3, <1>9, <2>5, <2>8 DEF Anchor, Place
  <2>10. /\ Account(s).n = 0 /\ Account(s).b = 0 /\ Account(s).w = NoCounter
         /\ Account(s).t = t
    BY <2>2, <2>5 DEF Account
  <2> HIDE DEF t, p
  <2> DEFINE x == [epoch |-> b.gen, total |-> t, at |-> 0]
             a == Account(s)
  <2>11. Paid(a, x) /\ Inherits(a, s, queue, Len(queue) + 1, x)
    <3>1. Paid(a, x)
      BY <2>10 DEF Paid
    <3>2. a.t <= x.total /\ x.total - a.t <= x.at - a.b
      BY <2>3, <2>10
    <3>3. \A i \in 1..Len(queue) : FALSE
      BY <2>6
    <3> QED BY <2>2, <2>10, <3>1, <3>2, <3>3 DEF Inherits, p
  <2>12. Sound(Account(s), s, queue, Len(queue) + 1, Anchor(s))'
    <3>1. Sound(a, s, queue, Len(queue) + 1, x)
      BY <2>11 DEF Sound
    <3> QED BY <1>3, <1>11, <2>9, <3>1
  <2>13. Still(s)'
    <3>1. log'[p] = log[p]
      BY <2>2, <2>4 DEF WriteStep, TypeOK
    <3> QED BY <1>3, <1>4, <2>2, <3>1 DEF Still, ParentRead, p
  <2> QED BY <1>14, <1>15, <1>16, <1>17, <1>18, <2>7, <2>12, <2>13 DEF AnchorOK, FileOK
<1> QED BY <1>19, <1>20

(* Writing keeps the invariant.                                            *)
LEMMA WriteOK ==
  ASSUME IInv, NEW s \in Source, Use(s) \/ Fork(s) \/ Restart(s)
  PROVE  QueueOK' /\ \A u \in Source : FileOK(u)'
<1>1. TypeOK /\ QueueOK /\ \A u \in Source : FileOK(u)
  BY DEF IInv
<1>2. LastTotal(s) \in Nat
  BY <1>1, LastTotalType
<1>3. \E total \in Nat, d \in Nat : WriteLine(s, total, d) /\ Grows(s, total, d)
  <2>1. PICK d \in Nat :
           \/ /\ log[s] # <<>> \/ Parent[s] = NoParent \/ erased[s] > 0
              /\ WriteLine(s, LastTotal(s) + d, d)
           \/ /\ Fork(s)
              /\ \/ LastTotal(Parent[s]) \in Nat /\ WriteLine(s, LastTotal(Parent[s]) + d, d)
                 \/ WriteLine(s, d, d)
           \/ d < LastTotal(s) /\ WriteLine(s, d, d)
    BY <1>1, Writers
  <2>2. log[s] = <<>> => LastTotal(s) = 0
    BY DEF LastTotal
  <2>3. CASE WriteLine(s, LastTotal(s) + d, d)
    <3>1. Grows(s, LastTotal(s) + d, d)
      BY <2>2 DEF Grows
    <3>2. LastTotal(s) + d \in Nat
      BY <1>2
    <3> QED BY <2>3, <3>1, <3>2
  <2>4. CASE /\ Fork(s) /\ LastTotal(Parent[s]) \in Nat
             /\ WriteLine(s, LastTotal(Parent[s]) + d, d)
    <3>1. Grows(s, LastTotal(Parent[s]) + d, d)
      BY <2>4 DEF Grows
    <3>2. LastTotal(Parent[s]) + d \in Nat
      BY <2>4
    <3> QED BY <2>4, <3>1, <3>2
  <2>5. CASE Fork(s) /\ WriteLine(s, d, d)
    <3>1. Grows(s, d, d)
      BY <2>5 DEF Grows, Fork
    <3> QED BY <2>5, <3>1
  <2>6. CASE d < LastTotal(s) /\ WriteLine(s, d, d)
    <3>1. Grows(s, d, d)
      BY <1>2, <2>2, <2>6 DEF Grows
    <3> QED BY <2>6, <3>1
  <2> QED BY <2>1, <2>3, <2>4, <2>5, <2>6
<1>4. PICK total \in Nat, d \in Nat : WriteLine(s, total, d) /\ Grows(s, total, d)
  BY <1>3
<1>5. PICK line \in Line : WriteStep(s, total, d, line)
  BY <1>1, <1>4, WriteEffect
<1>6. ~ForkPending(s) /\ StaysNoticeable(s)
  BY <1>4 DEF WriteLine
<1>7. FileOK(s)'
  BY <1>1, <1>4, <1>5, <1>6, WriteFile
<1>8. ASSUME NEW u \in Source, u # s PROVE FileOK(u)'
  <2>1. Same(u) /\ UNCHANGED <<queue, conv, keys>>
    BY <1>1, <1>5, <1>8 DEF WriteStep, TypeOK, Same, Alike
  <2>2. (/\ log[u] # <<>> /\ source[u] = NoCounter
         /\ Parent[u] \in Source /\ ParentRead(Parent[u])) => ParentRead(Parent[u])'
    <3> SUFFICES ASSUME log[u] # <<>>, source[u] = NoCounter,
                        Parent[u] \in Source, ParentRead(Parent[u])
                 PROVE  ParentRead(Parent[u])'
      OBVIOUS
    <3>1. Parent[u] # s
      BY <1>6 DEF ForkPending
    <3>2. log'[Parent[u]] = log[Parent[u]] /\ row' = row
      BY <1>1, <1>5, <3>1 DEF WriteStep, TypeOK
    <3> QED BY <3>2 DEF ParentRead
  <2> QED BY <1>1, <2>1, <2>2, Frame
<1>9. QueueOK'
  BY <1>1, <1>5 DEF QueueOK, WriteStep
<1> QED BY <1>7, <1>8, <1>9

(* A row that begins the file again.                                       *)
Again(r) ==
  [r EXCEPT !.offset = 0, !.gen = r.gen + 1, !.last = 0, !.init = FALSE, !.first = 1]

(* Its fields.                                                             *)
LEMMA AgainFields ==
  ASSUME NEW r \in Row
  PROVE  /\ Again(r) \in Row /\ Again(r).offset = 0 /\ Again(r).gen = r.gen + 1
         /\ Again(r).init = FALSE /\ Again(r).conv = r.conv
         /\ Again(r).turn = r.turn /\ Again(r).first = 1
<1>1. /\ r = [offset |-> r.offset, gen |-> r.gen, last |-> r.last, init |-> r.init,
              conv |-> r.conv, turn |-> r.turn, first |-> r.first]
      /\ r.gen + 1 \in Nat /\ r.conv \in Conversation /\ r.turn \in Nat
  BY DEF Row
<1>2. Again(r) = [offset |-> 0, gen |-> r.gen + 1, last |-> 0, init |-> FALSE,
                  conv |-> r.conv, turn |-> r.turn, first |-> 1]
  <2> DEFINE g == r.gen
             k == [offset |-> r.offset, gen |-> r.gen, last |-> r.last,
                   init |-> r.init, conv |-> r.conv, turn |-> r.turn,
                   first |-> r.first]
  <2>1. Again(r) = [k EXCEPT !.offset = 0, !.gen = g + 1, !.last = 0,
                             !.init = FALSE, !.first = 1]
    BY <1>1 DEF Again
  <2> QED BY <2>1
<1> QED BY <1>1, <1>2 DEF Row

(* A file without lines, in which n tokens were used.                      *)
LEMMA NoLines ==
  ASSUME NEW n \in Nat
  PROVE  /\ LinesOK(<<>>, n, n) /\ Origin(<<>>, n) = 0
         /\ \A o, c : FallsAfter(<<>>, o, c)
<1>1. Len(<<>>) = 0 /\ Origin(<<>>, n) = 0
  BY EmptySeq DEF Origin
<1>2. 1..0 = {} /\ 2..0 = {}
  OBVIOUS
<1> QED BY <1>1, <1>2 DEF LinesOK, FallsAfter

(* Replacing a file keeps the invariant.                                   *)
LEMMA RewriteOK ==
  ASSUME IInv, NEW s \in Source, Rewrite(s)
  PROVE  QueueOK' /\ \A u \in Source : FileOK(u)'
<1>1. TypeOK /\ QueueOK /\ \A u \in Source : FileOK(u)
  BY DEF IInv
<1> DEFINE l == log[s]
           n == spent[s]
           r == row[s]
           b == Again(r)
<1>2. /\ row[s] # NoRow /\ r.offset = Len(l) /\ l # <<>>
      /\ log' = [log EXCEPT ![s] = <<>>]
      /\ erased' = [erased EXCEPT ![s] = erased[s] + Len(l)]
      /\ gone' = [gone EXCEPT ![s] = n]
      /\ UNCHANGED <<spent, row, firstPass, base, queue, source, conv, keys, counted>>
  BY DEF Rewrite, agent, server
<1>3. /\ log'[s] = <<>> /\ gone'[s] = n /\ erased'[s] = erased[s] + Len(l)
      /\ r \in Row /\ Len(l) \in Nat /\ Len(l) # 0 /\ n \in Nat /\ erased[s] \in Nat
      /\ base[s] \in Nat /\ counted[s] \in Nat
  BY <1>1, <1>2, BeginFields, EmptySeq, LenProperties DEF TypeOK
<1>4. Begin(s) = r
  <2>1. ~(Len(log[s]) < row[s].offset) /\ row[s] # NoRow
    BY <1>2, <1>3
  <2> QED BY <2>1 DEF Begin
<1>5. Begin(s)' = b
  <2>1. row'[s] # NoRow /\ Len(log'[s]) < row'[s].offset
    BY <1>2, <1>3, EmptySeq
  <2>2. row'[s] = r
    BY <1>2
  <2> QED BY <2>1, <2>2 DEF Begin, Again
<1>6. /\ b \in Row /\ b.offset = 0 /\ b.gen = r.gen + 1 /\ b.init = FALSE
      /\ b.conv = r.conv /\ r.gen \in Nat
  BY <1>3, AgainFields DEF Row
<1>7. LinesOK(l, gone[s], n) /\ RowOK(s)
  BY <1>1 DEF FileOK
<1>8. /\ IsMark(Anchor(s)) /\ Anchor(s).at <= n /\ Anchor(s).epoch = r.gen
      /\ IsAccount(Account(s))
      /\ \A i \in 1..Len(queue) : IsMark(queue[i])
  BY <1>1, <1>4, <1>7, Numbers
<1> DEFINE x == [epoch |-> r.gen + 1, total |-> 0, at |-> n]
<1> HIDE DEF b
<1>9. Anchor(s)' = x
  BY <1>3, <1>5, <1>6, NoLines DEF Anchor, Place
<1>10. Account(s)' = Account(s)
  BY <1>2 DEF Account
<1>11. LinesOK(log[s], gone[s], spent[s])' /\ (Parent[s] = NoParent => Origin(log[s], gone[s]) = 0)'
  BY <1>2, <1>3, NoLines
<1>12. RowOK(s)'
  <2>1. b.conv[1] = s
    BY <1>4, <1>6, <1>7 DEF RowOK
  <2>2. 0 <= Len(<<>>) /\ FallsAfter(<<>>, 0, base[s])
    BY <1>3, NoLines, EmptySeq
  <2> QED BY <1>2, <1>3, <1>5, <1>6, <2>1, <2>2 DEF RowOK
<1>13. Untouched(s)'
  BY <1>2, <1>3 DEF Untouched
<1>14. LedgerOK(s)'
  BY <1>1, <1>2 DEF FileOK, LedgerOK
<1>15. PendingOK(s)'
  <2>1. ASSUME NEW j \in Pending(queue, s) PROVE Follows(queue[j], x)
    <3>1. Follows(queue[j], Anchor(s)) /\ j \in 1..Len(queue)
      BY <1>1 DEF FileOK, PendingOK, Pending
    <3>2. IsMark(queue[j])
      BY <1>8, <3>1
    <3> DEFINE e == queue[j]
               y == Anchor(s)
    <3>3. IsMark(e) /\ IsMark(y) /\ Follows(e, y) /\ y.at <= n /\ y.epoch = r.gen
      BY <1>8, <3>1, <3>2
    <3>4. x.epoch = y.epoch + 1 /\ x.total = 0 /\ x.at = n /\ n \in Nat
      BY <1>3, <3>3
    <3> HIDE DEF e, x, y, n, r
    <3>5. e.epoch <= y.epoch /\ e.at <= y.at
      BY <3>3 DEF Follows, IsMark
    <3>6. e.epoch < x.epoch /\ e.at <= x.at /\ x.total <= x.at - e.at
      BY <3>3, <3>4, <3>5 DEF IsMark
    <3>7. Follows(e, x)
      BY <3>6 DEF Follows
    <3> QED BY <3>7 DEF e, x
  <2>2. Pending(queue, s)' = Pending(queue, s)
    BY <1>2
  <2> QED BY <1>1, <1>2, <1>9, <1>10, <2>1, <2>2 DEF FileOK, PendingOK
<1>16. AnchorOK(s)'
  <2>1. counted[s] <= n - base[s]
    BY <1>1 DEF FileOK, LedgerOK
  <2>2. Paid(Account(s), x) /\ Enough(Account(s), x)
    BY <1>3, <2>1 DEF Paid, Enough, Account
  <2>3. Sound(Account(s), s, queue, Len(queue) + 1, x)
    BY <2>2 DEF Sound
  <2> QED BY <1>2, <1>9, <1>10, <2>2, <2>3 DEF AnchorOK
<1>17. FileOK(s)'
  BY <1>11, <1>12, <1>13, <1>14, <1>15, <1>16 DEF FileOK
<1>18. ASSUME NEW u \in Source, u # s PROVE FileOK(u)'
  <2>1. Same(u) /\ UNCHANGED <<queue, conv, keys>>
    BY <1>1, <1>2, <1>18 DEF TypeOK, Same, Alike
  <2>2. (Parent[u] \in Source /\ ParentRead(Parent[u])) => ParentRead(Parent[u])'
    BY <1>1, <1>2 DEF ParentRead, TypeOK
  <2> QED BY <1>1, <2>1, <2>2, Frame
<1>19. QueueOK'
  BY <1>1, <1>2 DEF QueueOK
<1> QED BY <1>17, <1>18, <1>19

-----------------------------------------------------------------------------
(* The agent.                                                              *)

(* A file keeps its invariant when events of another join the queue, if    *)
(* the parent it waits for stays read and is not theirs.                   *)
LEMMA Joined ==
  ASSUME TypeOK, TypeOK', NEW u \in Source, FileOK(u), Same(u),
         UNCHANGED <<conv, keys>>,
         Len(queue) <= Len(queue'), \A i \in 1..Len(queue) : queue'[i] = queue[i],
         \A i \in Len(queue) + 1..Len(queue') : queue'[i].src # u,
         (Parent[u] \in Source /\ Still(u)) =>
           /\ ParentRead(Parent[u])'
           /\ \A i \in Len(queue) + 1..Len(queue') : queue'[i].src # Parent[u]
  PROVE  FileOK(u)'
<1> DEFINE q == queue
           Q == queue'
           a == Account(u)
           x == Anchor(u)
<1>1. q \in Seq(Event) /\ Q \in Seq(Event) /\ Len(q) \in Nat /\ Len(Q) \in Nat
  BY LenProperties DEF TypeOK
<1>2. Begin(u)' = Begin(u) /\ Anchor(u)' = x /\ Account(u)' = a
  BY DEF Begin, Anchor, Account, Same, Alike
<1>3. Pending(Q, u) = Pending(q, u)
  <2>1. ASSUME NEW i \in 1..Len(Q), Q[i].src = u PROVE i \in 1..Len(q)
    BY <1>1, <2>1
  <2> QED BY <1>1, <2>1 DEF Pending
<1>4. LinesOK(log[u], gone[u], spent[u])' /\ (Parent[u] = NoParent => Origin(log[u], gone[u]) = 0)'
  BY DEF FileOK, Same, Alike
<1>5. RowOK(u)'
  BY <1>2, <1>3 DEF FileOK, RowOK, Same, Alike
<1>6. Untouched(u)'
  <2> SUFFICES ASSUME row[u] = NoRow \/ (erased[u] = 0 /\ log[u] = <<>>)
               PROVE  /\ erased[u] = 0 /\ gone[u] = 0 /\ base[u] = 0
                      /\ counted[u] = 0 /\ source[u] = NoCounter
                      /\ \A j \in 1..Len(Q) : Q[j].src # u
    BY DEF Untouched, Same, Alike
  <2>1. ASSUME NEW j \in 1..Len(Q) PROVE Q[j].src # u
    <3>1. CASE j \in 1..Len(q)
      BY <3>1 DEF FileOK, Untouched
    <3>2. CASE j \in Len(q) + 1..Len(Q)
      BY <3>2
    <3> QED BY <1>1, <3>1, <3>2
  <2> QED BY <2>1 DEF FileOK, Untouched
<1>7. LedgerOK(u)'
  BY DEF FileOK, LedgerOK, Same, Alike
<1>8. PendingOK(u)'
  <2>1. ASSUME NEW j \in Pending(q, u)
        PROVE  /\ j \in 1..Len(q) /\ Q[j] = q[j]
               /\ Sound(a, u, q, j, q[j]) /\ Follows(q[j], x)
               /\ \A k \in Pending(q, u) : j < k => Follows(q[j], q[k])
    BY DEF Pending, FileOK, PendingOK
  <2>2. ASSUME NEW j \in Pending(q, u)
        PROVE  Sound(a, u, Q, j, Q[j])
    <3>1. j \in 1..Len(q) + 1
      BY <1>1, <2>1
    <3> HIDE DEF a, q, Q
    <3>2. Sound(a, u, Q, j, q[j])
      BY <1>1, <2>1, <3>1, SoundAppend DEF q, Q
    <3> QED BY <2>1, <3>2
  <2> QED BY <1>2, <1>3, <2>1, <2>2 DEF PendingOK
<1>9. AnchorOK(u)'
  <2>1. /\ Sound(a, u, q, Len(q) + 1, x)
        /\ \/ Enough(a, x) \/ Above(a, x) \/ Awaits(a, u, q, Len(q) + 1, x)
           \/ Still(u) /\ Inherits(a, u, q, Len(q) + 1, x)
    BY DEF FileOK, AnchorOK, Sound
  <2>2. Still(u) /\ Inherits(a, u, q, Len(q) + 1, x) =>
          /\ Still(u)'
          /\ \A i \in Len(q) + 1..Len(Q) :
               Q[i].src # Parent[u] /\ (Q[i].src = u => Q[i].type = "exact")
    BY DEF Still, Same, Alike, Inherits
  <2>3. /\ Sound(a, u, Q, Len(Q) + 1, x)
        /\ Awaits(a, u, q, Len(q) + 1, x) => Awaits(a, u, Q, Len(Q) + 1, x)
    <3> DEFINE ok == \A i \in Len(q) + 1..Len(Q) :
                 Q[i].src # Parent[u] /\ (Q[i].src = u => Q[i].type = "exact")
    <3>1. \/ Enough(a, x) \/ Above(a, x) \/ Awaits(a, u, q, Len(q) + 1, x)
          \/ ok
      BY <2>1, <2>2
    <3>2. Len(q) <= Len(Q) /\ \A i \in 1..Len(q) : Q[i] = q[i]
      OBVIOUS
    <3>3. Sound(a, u, q, Len(q) + 1, x)
      BY <2>1
    <3> HIDE DEF a, x, q, Q
    <3> QED BY <1>1, <3>1, <3>2, <3>3, SoundEnd
  <2> QED BY <1>2, <2>1, <2>2, <2>3 DEF AnchorOK
<1> QED BY <1>4, <1>5, <1>6, <1>7, <1>8, <1>9 DEF FileOK

(* Noticing an emptied file keeps the invariant.                           *)
LEMMA NoticeOK ==
  ASSUME IInv, NEW s \in Source, Notice(s)
  PROVE  QueueOK' /\ \A u \in Source : FileOK(u)'
<1>1. TypeOK /\ QueueOK /\ \A u \in Source : FileOK(u)
  BY DEF IInv
<1>2. /\ row[s] # NoRow /\ log[s] = <<>> /\ row[s].offset > 0
      /\ row' = [row EXCEPT ![s] = Begin(s)]
      /\ UNCHANGED <<log, turn, erased, spent, gone, firstPass, base, queue,
                     source, conv, keys, counted>>
  BY DEF Notice, codex, server
<1>3. \A u \in Source : Alike(u)
  BY <1>2 DEF Alike
<1>4. Len(log[s]) < row[s].offset /\ Len(log[s]) = 0
  BY <1>2, EmptySeq
<1>5. row'[s] = Begin(s) /\ Begin(s).offset = 0 /\ Begin(s) \in Row
  BY <1>1, <1>2, <1>4, BeginFields DEF TypeOK
<1>6. row'[s] # NoRow
  BY <1>5 DEF NoRow
<1>7. FileOK(s)'
  <2>1. Begin(s)' = Begin(s)
    <3>1. ~(Len(log'[s]) < row'[s].offset)
      BY <1>2, <1>4, <1>5
    <3>2. Begin(s)' = row'[s]
      BY <1>6, <3>1 DEF Begin
    <3> QED BY <1>5, <3>2
  <2>2. Untouched(s)'
    BY <1>1, <1>2, <1>6 DEF FileOK, Untouched
  <2>3. (Parent[s] \in Source /\ ParentRead(Parent[s])) => ParentRead(Parent[s])'
    BY <1>1, <1>2 DEF ParentRead, TypeOK
  <2> QED BY <1>1, <1>2, <1>3, <2>1, <2>2, <2>3, Kept
<1>8. ASSUME NEW u \in Source, u # s PROVE FileOK(u)'
  <2>1. Same(u)
    BY <1>1, <1>2, <1>3, <1>8 DEF TypeOK, Same
  <2>2. (Parent[u] \in Source /\ ParentRead(Parent[u])) => ParentRead(Parent[u])'
    BY <1>1, <1>2 DEF ParentRead, TypeOK
  <2> QED BY <1>1, <1>2, <2>1, <2>2, Frame
<1>9. QueueOK'
  BY <1>1, <1>2 DEF QueueOK
<1> QED BY <1>7, <1>8, <1>9

(* So does the end of the first pass.                                      *)
LEMMA EndFirstPassOK ==
  ASSUME IInv, EndFirstPass
  PROVE  QueueOK' /\ \A u \in Source : FileOK(u)'
<1>1. TypeOK /\ QueueOK /\ \A u \in Source : FileOK(u)
  BY DEF IInv
<1>2. UNCHANGED <<log, erased, spent, gone, row, base, queue, source, conv, keys, counted>>
  BY DEF EndFirstPass, codex, server
<1>3. ASSUME NEW u \in Source PROVE FileOK(u)'
  <2>1. Same(u)
    BY <1>2 DEF Same, Alike
  <2>2. ParentRead(Parent[u]) => ParentRead(Parent[u])'
    BY <1>2 DEF ParentRead
  <2> QED BY <1>1, <1>2, <2>1, <2>2, Frame
<1>4. QueueOK'
  BY <1>1, <1>2 DEF QueueOK
<1> QED BY <1>3, <1>4

(* What is sound, and what follows, depends on three numbers of an event   *)
(* only.                                                                   *)
LEMMA AsMark ==
  ASSUME NEW a, NEW s, NEW q, NEW j, NEW e, NEW f,
         f.epoch = e.epoch, f.total = e.total, f.at = e.at
  PROVE  /\ IsMark(e) => IsMark(f)
         /\ Sound(a, s, q, j, e) => Sound(a, s, q, j, f)
         /\ Enough(a, e) => Enough(a, f)
         /\ Above(a, e) => Above(a, f)
         /\ Awaits(a, s, q, j, e) => Awaits(a, s, q, j, f)
         /\ Inherits(a, s, q, j, e) => Inherits(a, s, q, j, f)
         /\ IsMark(e) => Follows(e, f)
         /\ \A h : Follows(h, e) => Follows(h, f)
         /\ \A h : Follows(e, h) => Follows(f, h)
<1>1. /\ IsMark(e) => IsMark(f)
      /\ Enough(a, e) => Enough(a, f)
      /\ Above(a, e) => Above(a, f)
      /\ \A h : Follows(h, e) => Follows(h, f)
      /\ \A h : Follows(e, h) => Follows(f, h)
  BY DEF IsMark, Enough, Above, Follows
<1>2. Awaits(a, s, q, j, e) => Awaits(a, s, q, j, f)
  BY DEF Awaits
<1>3. Inherits(a, s, q, j, e) => Inherits(a, s, q, j, f)
  BY DEF Inherits
<1>4. IsMark(e) => Follows(e, f)
  BY DEF IsMark, Follows
<1>5. Paid(a, e) => Paid(a, f)
  BY DEF Paid
<1> QED BY <1>1, <1>2, <1>3, <1>4, <1>5 DEF Sound

(* The line read goes on soundly from the place of the reader, whether or  *)
(* not the agent sees the counter start again.                             *)
LEMMA ScanMark ==
  ASSUME IInv, NEW s \in Source, NEW r \in Row, NEW e \in Event, ScanStep(s, r, e)
  PROVE  LET z == Len(queue) + 1
         IN  /\ Sound(Account(s), s, queue, z, e)
             /\ \/ Enough(Account(s), e) \/ Above(Account(s), e)
                \/ Awaits(Account(s), s, queue, z, e) \/ Still(s)
             /\ \A j \in Pending(queue, s) : Follows(queue[j], e)
<1> DEFINE l == log[s]
           g == gone[s]
           n == spent[s]
           b == Begin(s)
           k == b.offset + 1
           q == queue
           z == Len(queue) + 1
           a == Account(s)
           x == Anchor(s)
<1>1. TypeOK /\ FileOK(s) /\ LinesOK(l, g, n) /\ RowOK(s)
  BY DEF IInv, FileOK
<1>2. /\ l \in Seq(Line) /\ g \in Nat /\ n \in Nat /\ b \in Row
      /\ IsAccount(a) /\ IsMark(x) /\ x.epoch = b.gen
      /\ \A i \in 1..Len(q) : IsMark(q[i])
  BY <1>1, Numbers
<1>3. k \in 1..Len(l) /\ b.offset \in Nat /\ b.gen \in Nat /\ Len(l) \in Nat
  BY <1>2, LenProperties DEF ScanStep, Row
<1>4. /\ e.total = l[k].total /\ e.at = l[k].at
      /\ e.epoch = IF b.init /\ l[k].total < b.last THEN b.gen + 1 ELSE b.gen
  BY DEF ScanStep
<1>5. IsMark(e)
  BY DEF IsMark, Event
<1>6. /\ x.at <= e.at
      /\ \/ e.total - x.total = e.at - x.at
         \/ /\ b.offset >= 1 /\ Falls(l, k)
            /\ x.total = l[b.offset].total /\ x.at = l[b.offset].at
            /\ e.total <= e.at - x.at
  <2>1. x = Place(l, g, b)
    BY DEF Anchor
  <2>2. LET y == Place(l, g, b)
            f == l[b.offset + 1]
        IN  /\ y.at <= f.at
            /\ \/ f.total - y.total = f.at - y.at
               \/ /\ b.offset >= 1 /\ Falls(l, b.offset + 1)
                  /\ y = [epoch |-> b.gen, total |-> l[b.offset].total,
                          at |-> l[b.offset].at]
                  /\ f.total = f.at - y.at
    <3> HIDE DEF l, g, n, b
    <3> QED BY <1>1, <1>2, <1>3, NextLine
  <2>3. e.total \in Nat /\ e.at \in Nat /\ x.at \in Nat
    BY <1>2, <1>5 DEF IsMark
  <2> QED BY <1>4, <2>1, <2>2, <2>3
<1>7. b.init => b.offset >= 1 /\ b.last = l[b.offset].total
  BY <1>1 DEF RowOK
<1>8. /\ Sound(a, s, q, z, x)
      /\ Enough(a, x) \/ Above(a, x) \/ Awaits(a, s, q, z, x) \/ Still(s)
      /\ \A j \in Pending(q, s) : Follows(q[j], x) /\ IsMark(q[j])
  BY <1>1, <1>2 DEF FileOK, AnchorOK, PendingOK, Pending
<1>9. Paid(a, x)
  BY <1>8 DEF Sound
<1>10. CASE e.total - x.total = e.at - x.at
  <2>1. e.epoch = x.epoch
    <3>1. b.init => x.total = b.last
      BY <1>7 DEF Anchor, Place
    <3>2. e.total >= x.total
      <4> HIDE DEF x
      <4> QED BY <1>2, <1>5, <1>6, <1>10 DEF IsMark
    <3> QED BY <1>2, <1>4, <1>5, <3>1, <3>2 DEF IsMark
  <2>2. \A i \in 1..Len(q) : q[i].total \in Nat
    BY <1>2 DEF IsMark
  <2> HIDE DEF a, x, q, z
  <2>3. /\ Sound(a, s, q, z, e)
        /\ (Enough(a, x) \/ Above(a, x) \/ Awaits(a, s, q, z, x)) =>
             (Enough(a, e) \/ Above(a, e) \/ Awaits(a, s, q, z, e))
    BY <1>2, <1>5, <1>6, <1>8, <1>10, <2>1, <2>2, SoundOn
  <2>4. \A j \in Pending(q, s) : Follows(q[j], e)
    BY <1>2, <1>5, <1>6, <1>8, <1>10, <2>1, FollowsOn
  <2> QED BY <1>8, <2>3, <2>4 DEF a, x, q, z
<1>11. CASE /\ b.offset >= 1 /\ Falls(l, k)
            /\ x.total = l[b.offset].total /\ x.at = l[b.offset].at
            /\ e.total <= e.at - x.at
  <2>1. a.b <= x.at
    <3>1. k \in 2..Len(l) /\ k > b.offset /\ k - 1 = b.offset
      BY <1>3, <1>11
    <3>2. FallsAfter(l, b.offset, base[s])
      BY <1>1 DEF RowOK
    <3>3. base[s] <= l[k - 1].at
      <4> HIDE DEF k, l, b
      <4> QED BY <1>11, <3>1, <3>2 DEF FallsAfter
    <3> QED BY <1>11, <3>1, <3>3 DEF Account
  <2>2. Sound(a, s, q, z, e) /\ Enough(a, e)
    <3> HIDE DEF a, x, q, z
    <3> QED BY <1>2, <1>5, <1>6, <1>9, <1>11, <2>1, SoundRestart
  <2>3. \A j \in Pending(q, s) : Follows(q[j], e)
    <3>1. CASE b.init
      <4>1. l[k].total < b.last
        <5>1. k - 1 = b.offset
          BY <1>3
        <5> QED BY <1>7, <1>11, <3>1, <5>1 DEF Falls
      <4>2. e.epoch = x.epoch + 1
        BY <1>2, <1>4, <3>1, <4>1
      <4> HIDE DEF a, x, q, z
      <4> QED BY <1>2, <1>5, <1>6, <1>8, <1>11, <4>2, FollowsRestart
    <3>2. CASE ~b.init
      <4>1. Pending(q, s) = {}
        BY <1>1, <1>3, <1>11, <3>2 DEF RowOK
      <4> QED BY <4>1
    <3> QED BY <3>1, <3>2
  <2> QED BY <2>2, <2>3
<1> QED BY <1>6, <1>10, <1>11

(* Reading a line keeps the invariant.                                     *)
LEMMA ScanOK ==
  ASSUME IInv, TypeOK', NEW s \in Source, Scan(s)
  PROVE  QueueOK' /\ \A u \in Source : FileOK(u)'
<1>1. TypeOK /\ QueueOK /\ \A u \in Source : FileOK(u)
  BY DEF IInv
<1>2. PICK r \in Row, e \in Event : ScanStep(s, r, e)
  BY <1>1, ScanEffect
<1> DEFINE l == log[s]
           b == Begin(s)
           k == b.offset + 1
           q == queue
           Q == Append(queue, e)
           z == Len(queue) + 1
           a == Account(s)
           y == [epoch |-> r.gen, total |-> l[k].total, at |-> l[k].at]
<1>3. /\ row' = [row EXCEPT ![s] = r] /\ queue' = Q
      /\ UNCHANGED <<log, turn, erased, spent, gone, firstPass, base, source, conv,
                     keys, counted>>
  BY <1>2 DEF ScanStep, codex, server
<1>4. /\ k \in 1..Len(l) /\ r.offset = k /\ r.last = l[k].total /\ r.init = TRUE
      /\ b.conv[1] = s => r.conv[1] = s
      /\ e.type = "exact" /\ e.src = s /\ e.conv = r.conv
      /\ e.epoch = r.gen /\ e.total = l[k].total /\ e.at = l[k].at
  BY <1>2 DEF ScanStep
<1>5. /\ q \in Seq(Event) /\ Q \in Seq(Event) /\ Len(q) \in Nat
      /\ Len(Q) = z /\ Q[z] = e /\ \A i \in 1..Len(q) : Q[i] = q[i]
      /\ z = Len(q) + 1 /\ Len(q) <= Len(Q) /\ z \in Nat
  BY <1>1, <1>3, AppendProperties, LenProperties DEF TypeOK
<1>6. /\ l \in Seq(Line) /\ b \in Row /\ IsAccount(a) /\ IsMark(e)
      /\ b.offset \in Nat /\ Len(l) \in Nat
  BY <1>1, Numbers, LenProperties DEF IsMark, Event, Row
<1>7. /\ Sound(a, s, q, z, e)
      /\ Enough(a, e) \/ Above(a, e) \/ Awaits(a, s, q, z, e) \/ Still(s)
      /\ \A j \in Pending(q, s) : Follows(q[j], e)
  BY <1>2, ScanMark
<1>8. b.conv[1] = s /\ FallsAfter(l, b.offset, base[s])
  BY <1>1 DEF FileOK, RowOK
<1>9. row'[s] = r /\ row'[s] # NoRow
  <2>1. row'[s] = r
    BY <1>1, <1>3 DEF TypeOK
  <2>2. r.offset \in Nat
    BY DEF Row
  <2> QED BY <2>1, <2>2 DEF NoRow
<1>10. Begin(s)' = r
  <2>1. ~(Len(log'[s]) < row'[s].offset)
    BY <1>3, <1>4, <1>6, <1>9
  <2> QED BY <1>9, <2>1 DEF Begin
<1>11. Anchor(s)' = y /\ Account(s)' = a
  <2>1. r.offset # 0
    BY <1>4, <1>6
  <2>2. Anchor(s)' = Place(l, gone[s], r)
    BY <1>3, <1>10 DEF Anchor
  <2>3. Account(s)' = a
    BY <1>3 DEF Account
  <2> QED BY <1>4, <2>1, <2>2, <2>3 DEF Place
<1>12. y.epoch = e.epoch /\ y.total = e.total /\ y.at = e.at
  BY <1>4
<1> HIDE DEF y
<1>13. ~ParentRead(s)
  <2> SUFFICES ASSUME ParentRead(s) PROVE FALSE
    OBVIOUS
  <2>1. l # <<>>
    BY <1>4, <1>6, EmptySeq
  <2>2. row[s] # NoRow /\ row[s].offset = Len(l)
    BY <2>1 DEF ParentRead
  <2>3. b = row[s]
    <3>1. ~(Len(log[s]) < row[s].offset)
      BY <1>6, <2>2
    <3> QED BY <2>2, <3>1 DEF Begin
  <2> QED BY <1>4, <1>6, <2>2, <2>3
<1>14. FileOK(s)'
  <2>1. LinesOK(log[s], gone[s], spent[s])' /\ (Parent[s] = NoParent => Origin(log[s], gone[s]) = 0)'
    BY <1>1, <1>3 DEF FileOK
  <2>2. RowOK(s)'
    <3>1. r.offset <= Len(l) /\ r.conv[1] = s /\ (r.init => r.offset >= 1 /\ r.last = l[r.offset].total)
      BY <1>4, <1>6, <1>8
    <3>2. FallsAfter(l, r.offset, base[s])
      <4>1. r.offset = b.offset + 1
        BY <1>4
      <4>2. \A m \in 2..Len(l) : m > r.offset => m > b.offset
        BY <1>6, <4>1
      <4> HIDE DEF l, b
      <4> QED BY <1>8, <4>2 DEF FallsAfter
    <3> QED BY <1>3, <1>4, <1>10, <3>1, <3>2 DEF RowOK
  <2>3. Untouched(s)'
    <3>1. log'[s] # <<>>
      BY <1>3, <1>4, <1>6, EmptySeq
    <3> QED BY <1>9, <3>1 DEF Untouched
  <2>4. LedgerOK(s)'
    BY <1>1, <1>3 DEF FileOK, LedgerOK
  <2>5. PendingOK(s)'
    <3>1. \A j \in Pending(Q, s) : j \in Pending(q, s) \/ j = z
      BY <1>5 DEF Pending
    <3>2. ASSUME NEW j \in Pending(q, s)
          PROVE  /\ j \in 1..Len(q) /\ Q[j] = q[j] /\ j < z
                 /\ Sound(a, s, q, j, q[j]) /\ Follows(q[j], e)
                 /\ \A i \in Pending(q, s) : j < i => Follows(q[j], q[i])
      BY <1>1, <1>5, <1>7 DEF Pending, FileOK, PendingOK
    <3>3. ASSUME NEW j \in Pending(q, s)
          PROVE  Sound(a, s, Q, j, Q[j]) /\ Follows(Q[j], y)
      <4>1. j \in 1..Len(q) + 1
        BY <1>5, <3>2
      <4> HIDE DEF a, q, Q, z
      <4>2. Sound(a, s, Q, j, q[j])
        BY <1>5, <3>2, <4>1, SoundAppend
      <4>3. Follows(q[j], y)
        BY <1>12, <3>2, AsMark
      <4> QED BY <3>2, <4>2, <4>3
    <3>4. Sound(a, s, Q, z, Q[z]) /\ Follows(Q[z], y)
      <4>1. z \in 1..Len(q) + 1
        BY <1>5
      <4> HIDE DEF a, q, Q
      <4>2. Sound(a, s, Q, z, e)
        BY <1>5, <1>7, <4>1, SoundAppend
      <4>3. Follows(e, y)
        BY <1>6, <1>12, AsMark
      <4> QED BY <1>5, <4>2, <4>3
    <3>5. ASSUME NEW j \in Pending(Q, s), NEW i \in Pending(Q, s), j < i
          PROVE  Follows(Q[j], Q[i])
      <4>1. j \in Pending(q, s)
        <5>1. i \in 1..z /\ j \in 1..z
          BY <1>5 DEF Pending
        <5> HIDE DEF z
        <5>2. j # z
          BY <1>5, <3>5, <5>1
        <5> QED BY <3>1, <5>2
      <4>2. CASE i \in Pending(q, s)
        BY <3>2, <3>5, <4>1, <4>2
      <4>3. CASE i = z
        BY <1>5, <3>2, <4>1, <4>3
      <4> QED BY <3>1, <4>2, <4>3
    <3>6. ASSUME NEW j \in Pending(Q, s)
          PROVE  Sound(a, s, Q, j, Q[j]) /\ Follows(Q[j], y)
      BY <3>1, <3>3, <3>4
    <3> QED BY <1>3, <1>11, <3>5, <3>6 DEF PendingOK
  <2>6. AnchorOK(s)'
    <3> DEFINE Z == Len(Q) + 1
    <3>1. /\ Sound(a, s, q, z, y)
          /\ Enough(a, y) \/ Above(a, y) \/ Awaits(a, s, q, z, y) \/ Still(s)
      <4> HIDE DEF a, q, z
      <4> QED BY <1>7, <1>12, AsMark
    <3>2. Still(s) => /\ Still(s)' 
                      /\ \A i \in Len(q) + 1..Len(Q) :
                           Q[i].src # Parent[s] /\ (Q[i].src = s => Q[i].type = "exact")
      <4> SUFFICES ASSUME Still(s)
                   PROVE  /\ Still(s)' 
                          /\ \A i \in Len(q) + 1..Len(Q) :
                               Q[i].src # Parent[s] /\ (Q[i].src = s => Q[i].type = "exact")
        OBVIOUS
      <4>1. Parent[s] # s /\ log[s] # <<>> /\ ParentRead(Parent[s])
        BY <1>13 DEF Still
      <4>2. ParentRead(Parent[s])'
        BY <1>1, <1>3, <4>1 DEF ParentRead, TypeOK
      <4>3. \A i \in Len(q) + 1..Len(Q) : i = z
        BY <1>5
      <4> QED BY <1>3, <1>4, <1>5, <4>1, <4>2, <4>3 DEF Still
    <3>3. /\ Sound(a, s, Q, Z, y)
          /\ Awaits(a, s, q, z, y) => Awaits(a, s, Q, Z, y)
      <4>1. Len(q) <= Len(Q)
        BY <1>5
      <4> DEFINE ok == \A i \in Len(q) + 1..Len(Q) :
                   Q[i].src # Parent[s] /\ (Q[i].src = s => Q[i].type = "exact")
      <4>2. Enough(a, y) \/ Above(a, y) \/ Awaits(a, s, q, z, y) \/ ok
        BY <3>1, <3>2
      <4> HIDE DEF a, q, Q
      <4> QED BY <1>5, <3>1, <4>1, <4>2, SoundEnd DEF q
    <3> QED BY <1>3, <1>11, <3>1, <3>2, <3>3 DEF AnchorOK
  <2> QED BY <2>1, <2>2, <2>3, <2>4, <2>5, <2>6 DEF FileOK
<1>15. ASSUME NEW u \in Source, u # s PROVE FileOK(u)'
  <2>1. Same(u) /\ UNCHANGED <<conv, keys>>
    BY <1>1, <1>3, <1>15 DEF Same, Alike, TypeOK
  <2>2. \A i \in Len(queue) + 1..Len(queue') : queue'[i].src = s
    BY <1>3, <1>4, <1>5
  <2>3. Parent[u] \in Source /\ Still(u) => ParentRead(Parent[u])' /\ Parent[u] # s
    BY <1>1, <1>3, <1>13 DEF Still, ParentRead, TypeOK
  <2>4. Len(queue) <= Len(queue') /\ \A i \in 1..Len(queue) : queue'[i] = queue[i]
    BY <1>3, <1>5
  <2> QED BY <1>1, <1>15, <2>1, <2>2, <2>3, <2>4, Joined
<1>16. QueueOK'
  <2>1. ASSUME NEW i \in 1..z
        PROVE  /\ Q[i].conv[1] = Q[i].src
               /\ Q[i].type = "baseline" => Q[i].epoch = 0
    <3>1. CASE i \in 1..Len(q)
      BY <1>1, <1>5, <3>1 DEF QueueOK
    <3>2. CASE i = z
      BY <1>4, <1>5, <1>8, <3>2
    <3> QED BY <1>5, <3>1, <3>2
  <2> QED BY <1>3, <1>5, <2>1 DEF QueueOK
<1> QED BY <1>14, <1>15, <1>16

(* A place after which the counter never starts again is as far from the   *)
(* end in tokens as it is in use.                                          *)
LEMMA PlaceToEnd ==
  ASSUME NEW l \in Seq(Line), NEW g \in Nat, NEW n \in Nat, LinesOK(l, g, n),
         NEW b \in Row, b.offset <= Len(l), l # <<>>,
         \A m \in 2..Len(l) : m > b.offset => ~Falls(l, m)
  PROVE  Place(l, g, b).total - l[Len(l)].total = Place(l, g, b).at - n
<1> DEFINE z == Len(l)
           o == b.offset
           x == Place(l, g, b)
<1>1. o \in Nat /\ z \in Nat /\ z # 0 /\ o <= z /\ 1 \in 1..z /\ z \in 1..z
  BY LenProperties, EmptySeq DEF Row
<1>2. /\ l[z].total \in Nat /\ l[z].at = n /\ l[1].total \in Nat /\ l[1].at \in Nat
  BY <1>1, LineFields DEF LinesOK
<1>3. ASSUME NEW i \in 1..z, o <= i
      PROVE  l[z].total - l[i].total = l[z].at - l[i].at /\ l[i].total \in Nat /\ l[i].at \in Nat
  <2>1. l[i].total \in Nat /\ l[i].at \in Nat
    BY <1>3, LineFields
  <2>2. CASE i = z
    BY <1>2, <2>1, <2>2
  <2>3. CASE i < z
    <3>1. \/ l[z].total - l[i].total = l[z].at - l[i].at
          \/ \E m \in i + 1..z : Falls(l, m)
      BY <1>1, <1>3, <2>3 DEF LinesOK
    <3>2. \A m \in i + 1..z : m \in 2..z /\ m > o
      BY <1>1, <1>3
    <3> QED BY <2>1, <3>1, <3>2
  <2> QED BY <1>1, <1>3, <2>1, <2>2, <2>3
<1>4. CASE o = 0
  <2>1. x.total = l[1].total - (l[1].at - g) /\ x.at = g
    BY <1>4 DEF Place, Origin
  <2>2. l[z].total - l[1].total = l[z].at - l[1].at
    BY <1>1, <1>3, <1>4
  <2> DEFINE xt == x.total
             xa == x.at
             zt == l[z].total
             it == l[1].total
             ia == l[1].at
  <2>3. /\ xt = it - (ia - g) /\ xa = g /\ zt - it = n - ia
        /\ it \in Nat /\ ia \in Nat /\ zt \in Nat
    BY <1>2, <2>1, <2>2
  <2> HIDE DEF xt, xa, zt, it, ia
  <2>4. xt - zt = xa - n
    BY <2>3
  <2> QED BY <2>4 DEF xt, xa, zt
<1>5. CASE o # 0
  <2>1. o \in 1..z
    BY <1>1, <1>5
  <2>2. x.total = l[o].total /\ x.at = l[o].at
    BY <1>5 DEF Place
  <2>3. l[z].total - l[o].total = l[z].at - l[o].at /\ l[o].total \in Nat /\ l[o].at \in Nat
    BY <1>3, <2>1
  <2> DEFINE zt == l[z].total
             it == l[o].total
             ia == l[o].at
  <2>4. it - zt = ia - n
    <3>1. zt - it = n - ia /\ it \in Nat /\ ia \in Nat /\ zt \in Nat
      BY <1>2, <2>3
    <3> HIDE DEF zt, it, ia
    <3> QED BY <3>1
  <2> QED BY <2>2, <2>4
<1> QED BY <1>4, <1>5

(* A baseline keeps the invariant: what was used so far is not charged,    *)
(* whatever of it is read again.                                           *)
LEMMA BaselineOK ==
  ASSUME IInv, TypeOK', NEW s \in Source, Baseline(s)
  PROVE  QueueOK' /\ \A u \in Source : FileOK(u)'
<1>1. TypeOK /\ QueueOK /\ \A u \in Source : FileOK(u)
  BY DEF IInv
<1>2. PICK r \in Row, events \in Seq(Event) : BaselineStep(s, r, events)
  BY <1>1, BaselineEffect
<1> DEFINE l == log[s]
           n == spent[s]
           q == queue
           Q == queue \o events
           y == Place(l, 0, r)
<1>3. /\ row' = [row EXCEPT ![s] = r] /\ queue' = Q
      /\ base' = [base EXCEPT ![s] = n]
      /\ UNCHANGED <<log, turn, erased, spent, gone, firstPass, source, conv,
                     keys, counted>>
  BY <1>2 DEF BaselineStep, codex, server
<1>4. /\ row[s] = NoRow /\ r.offset \in 0..Len(l)
      /\ \A k \in 2..Len(l) : k > r.offset => l[k].total >= l[k - 1].total
      /\ r.gen = 0 /\ r.init = FALSE /\ r.conv[1] = s
      /\ \A i \in 1..Len(events) :
           /\ events[i].type = "baseline" /\ events[i].src = s
           /\ events[i].conv[1] = s /\ events[i].epoch = 0
      /\ l = <<>> => Len(events) = 0
      /\ l # <<>> => \E i \in 1..Len(events) : events[i].total = LastTotal(s)
  BY <1>2 DEF BaselineStep
<1>5. /\ q \in Seq(Event) /\ Q \in Seq(Event) /\ Len(q) \in Nat /\ Len(events) \in Nat
      /\ Len(Q) = Len(q) + Len(events)
      /\ \A i \in 1..Len(q) : Q[i] = q[i]
      /\ \A i \in 1..Len(events) : Q[Len(q) + i] = events[i]
  BY <1>1, ConcatProperties, LenProperties DEF TypeOK
<1>6. \A i \in Len(q) + 1..Len(Q) :
        /\ i - Len(q) \in 1..Len(events) /\ Q[i] = events[i - Len(q)]
        /\ Q[i].src = s /\ Q[i].type = "baseline" /\ Q[i].conv[1] = s /\ Q[i].epoch = 0
  <2> TAKE i \in Len(q) + 1..Len(Q)
  <2>1. i - Len(q) \in 1..Len(events) /\ Len(q) + (i - Len(q)) = i
    BY <1>5
  <2>2. Q[i] = events[i - Len(q)]
    BY <1>5, <2>1
  <2> QED BY <1>4, <2>1, <2>2
<1>7. /\ l \in Seq(Line) /\ n \in Nat /\ Len(l) \in Nat /\ r.offset \in Nat
      /\ r.offset <= Len(l)
  BY <1>1, <1>4, LenProperties DEF TypeOK, Row
<1>8. /\ erased[s] = 0 /\ gone[s] = 0 /\ counted[s] = 0 /\ source[s] = NoCounter
      /\ \A j \in 1..Len(q) : q[j].src # s
  BY <1>1, <1>4 DEF FileOK, Untouched
<1>9. row'[s] = r /\ row'[s] # NoRow /\ base'[s] = n
  BY <1>1, <1>3, <1>7 DEF TypeOK, NoRow
<1>10. Begin(s)' = r
  <2>1. ~(Len(log'[s]) < row'[s].offset)
    BY <1>3, <1>7, <1>9
  <2> QED BY <1>9, <2>1 DEF Begin
<1>11. LinesOK(l, 0, n) /\ (Parent[s] = NoParent => Origin(l, 0) = 0)
  BY <1>1, <1>8 DEF FileOK
<1>12. Anchor(s)' = y
  BY <1>3, <1>8, <1>10 DEF Anchor
<1>13. /\ y.epoch = 0 /\ y.total \in Nat /\ y.at \in Nat
  BY <1>4, <1>7, <1>11, PlaceFields
<1>14. \A m \in 2..Len(l) : m > r.offset => ~Falls(l, m)
  <2> SUFFICES ASSUME NEW m \in 2..Len(l), m > r.offset PROVE ~Falls(l, m)
    OBVIOUS
  <2>1. l[m].total >= l[m - 1].total
    BY <1>4
  <2>2. m \in 1..Len(l) /\ m - 1 \in 1..Len(l)
    BY <1>7
  <2>3. l[m].total \in Nat /\ l[m - 1].total \in Nat
    BY <1>7, <2>2, LineFields
  <2> QED BY <2>1, <2>3 DEF Falls
<1>15. Pending(Q, s) = {}
  <2>1. ASSUME NEW i \in 1..Len(Q) PROVE Q[i].src # s \/ Q[i].type # "exact"
    <3>1. CASE i \in 1..Len(q)
      BY <1>5, <1>8, <3>1
    <3>2. CASE i \in Len(q) + 1..Len(Q)
      BY <1>6, <3>2
    <3> QED BY <1>5, <3>1, <3>2
  <2> QED BY <2>1 DEF Pending
<1>16. FileOK(s)'
  <2>1. LinesOK(log[s], gone[s], spent[s])' /\ (Parent[s] = NoParent => Origin(log[s], gone[s]) = 0)'
    BY <1>3, <1>8, <1>11
  <2>2. RowOK(s)'
    <3>1. FallsAfter(l, r.offset, n)
      BY <1>14 DEF FallsAfter
    <3> QED BY <1>3, <1>4, <1>7, <1>9, <1>10, <1>15, <3>1 DEF RowOK
  <2>3. Untouched(s)'
    <3> SUFFICES ASSUME log[s] = <<>>
                 PROVE  n = 0 /\ \A j \in 1..Len(Q) : Q[j].src # s
      BY <1>3, <1>8, <1>9 DEF Untouched
    <3>1. Len(Q) = Len(q)
      BY <1>4, <1>5
    <3> QED BY <1>5, <1>8, <1>11, <3>1 DEF LinesOK
  <2>4. LedgerOK(s)'
    BY <1>1, <1>3, <1>7, <1>8, <1>9 DEF FileOK, LedgerOK
  <2>5. PendingOK(s)'
    BY <1>3, <1>15 DEF PendingOK
  <2>6. AnchorOK(s)'
    <3> DEFINE c == [n |-> 0, b |-> n, w |-> NoCounter, t |-> Account(s).t]
    <3>1. Account(s)' = c
      BY <1>3, <1>8, <1>9 DEF Account
    <3>2. c.n = 0 /\ c.b = n
      OBVIOUS
    <3> HIDE DEF c, y
    <3>3. Paid(c, y)
      BY <3>2 DEF Paid
    <3>4. CASE l = <<>>
      <4>1. n = 0 /\ y.total = 0 /\ y.at = 0
        <5>1. Len(l) = 0 /\ r.offset = 0
          BY <1>7, <3>4, EmptySeq
        <5> QED BY <1>11, <3>4, <5>1 DEF LinesOK, Place, Origin, y
      <4>2. Enough(c, y)
        BY <3>2, <4>1 DEF Enough
      <4> QED BY <1>3, <1>12, <3>1, <3>3, <4>2 DEF AnchorOK, Sound
    <3>5. CASE l # <<>>
      <4>1. PICK i \in 1..Len(events) : events[i].total = LastTotal(s)
        BY <1>4, <3>5
      <4> DEFINE j == Len(q) + i
      <4>2. /\ j \in 1..Len(Q) /\ j < Len(Q) + 1 /\ Q[j] = events[i]
        BY <1>5
      <4>3. Q[j].type = "baseline" /\ Q[j].src = s /\ Q[j].total = l[Len(l)].total
        BY <1>4, <3>5, <4>1, <4>2 DEF LastTotal
      <4>4. y.total - l[Len(l)].total = y.at - n
        <5> HIDE DEF l, n
        <5> QED BY <1>7, <1>11, <1>14, <3>5, PlaceToEnd DEF y
      <4>5. l[Len(l)].total \in Nat
        <5>1. Len(l) \in 1..Len(l)
          BY <1>7, <3>5, EmptySeq
        <5> QED BY <1>7, <5>1, LineFields
      <4>6. c.n + y.total - Q[j].total <= y.at - c.b
        <5> DEFINE yt == y.total
                   ya == y.at
                   zt == l[Len(l)].total
        <5>1. yt - zt = ya - n /\ yt \in Nat /\ ya \in Nat /\ zt \in Nat
          BY <1>13, <4>4, <4>5
        <5>2. c.n + yt - zt <= ya - c.b
          <6> HIDE DEF yt, ya, zt, n
          <6> QED BY <1>7, <3>2, <5>1
        <5> QED BY <4>3, <5>2
      <4> HIDE DEF j, Q
      <4>7. Awaits(c, s, Q, Len(Q) + 1, y)
        BY <1>13, <4>2, <4>3, <4>6 DEF Awaits
      <4> QED BY <1>3, <1>12, <3>1, <3>3, <4>7 DEF AnchorOK, Sound, Q
    <3> QED BY <3>4, <3>5
  <2> QED BY <2>1, <2>2, <2>3, <2>4, <2>5, <2>6 DEF FileOK
<1>17. ASSUME NEW u \in Source, u # s PROVE FileOK(u)'
  <2>1. Same(u) /\ UNCHANGED <<conv, keys>>
    BY <1>1, <1>3, <1>17 DEF Same, Alike, TypeOK
  <2>2. \A i \in Len(queue) + 1..Len(queue') : queue'[i].src = s
    BY <1>3, <1>6
  <2>3. Len(queue) <= Len(queue') /\ \A i \in 1..Len(queue) : queue'[i] = queue[i]
    BY <1>3, <1>5
  <2>4. ASSUME Parent[u] \in Source, Still(u)
        PROVE  /\ ParentRead(Parent[u])'
               /\ \A i \in Len(queue) + 1..Len(queue') : queue'[i].src # Parent[u]
    <3>1. CASE Parent[u] = s
      <4>1. log[s] = <<>>
        BY <1>4, <2>4, <3>1 DEF Still, ParentRead
      <4>2. Len(queue') = Len(queue)
        BY <1>3, <1>4, <1>5, <4>1
      <4>3. \A i \in Len(queue) + 1..Len(queue') : FALSE
        BY <1>5, <4>2
      <4> QED BY <1>3, <3>1, <4>1, <4>3 DEF ParentRead
    <3>2. CASE Parent[u] # s
      BY <1>1, <1>3, <2>2, <2>4, <3>2 DEF Still, ParentRead, TypeOK
    <3> QED BY <3>1, <3>2
  <2> QED BY <1>1, <1>17, <2>1, <2>2, <2>3, <2>4, Joined
<1>18. QueueOK'
  <2>1. ASSUME NEW i \in 1..Len(Q)
        PROVE  /\ Q[i].conv[1] = Q[i].src
               /\ Q[i].type = "baseline" => Q[i].epoch = 0
    <3>1. CASE i \in 1..Len(q)
      BY <1>1, <1>5, <3>1 DEF QueueOK
    <3>2. CASE i \in Len(q) + 1..Len(Q)
      BY <1>6, <3>2
    <3> QED BY <1>5, <3>1, <3>2
  <2> QED BY <1>3, <2>1 DEF QueueOK
<1> QED BY <1>16, <1>17, <1>18

(* A backfill before any line was read keeps the invariant: no file has a  *)
(* parent and nothing is charged, so every file can begin again.           *)
LEMMA BackfillOK ==
  ASSUME IInv, TypeOK', Backfill, "backfill" \notin Allowed
  PROVE  QueueOK' /\ \A u \in Source : FileOK(u)'
<1>1. TypeOK /\ QueueOK /\ \A u \in Source : FileOK(u)
  BY DEF IInv
<1>2. /\ \A s \in Source : Parent[s] = NoParent
      /\ keys = {} /\ \A i \in DOMAIN queue : queue[i].type = "baseline"
      /\ UNCHANGED <<log, turn, erased, spent, gone, firstPass, queue, source, conv,
                     keys, counted>>
  BY DEF Backfill, codex, server
<1>3. ASSUME NEW u \in Source PROVE FileOK(u)'
  <2> DEFINE l == log[u]
             g == gone[u]
  <2>1. /\ l \in Seq(Line) /\ g \in Nat /\ spent[u] \in Nat /\ Len(l) \in Nat
        /\ LinesOK(l, g, spent[u]) /\ Origin(l, g) = 0 /\ g <= spent[u]
        /\ counted[u] = 0
    BY <1>1, <1>2, LenProperties DEF TypeOK, FileOK, LinesOK, LedgerOK
  <2>2. Pending(queue, u) = {}
    <3>1. \A i \in 1..Len(queue) : queue[i].type = "baseline"
      BY <1>1, <1>2, LenProperties DEF TypeOK
    <3> QED BY <3>1 DEF Pending
  <2>3. CASE row[u] = NoRow /\ l = <<>>
    <3>1. row'[u] = NoRow /\ base'[u] = base[u]
      BY <1>1, <2>3, BackfillFields
    <3>2. Same(u) /\ Parent[u] \notin Source
      BY <1>2, <2>3, <3>1, LedgerAssumption DEF Same, Alike
    <3> QED BY <1>1, <1>2, <3>2, Frame
  <2>4. CASE row[u] # NoRow \/ l # <<>>
    <3> DEFINE b == row'[u]
    <3>1. /\ b \in Row /\ b.offset = 0 /\ b.init = FALSE /\ b.conv[1] = u
          /\ b # NoRow
      <4>1. Begin(u).conv[1] = u /\ Begin(u) \in Row
        BY <1>1, BeginFields DEF FileOK, RowOK
      <4>2. CASE row[u] # NoRow
        <5>1. row[u] \in Row
          BY <1>1, <4>2, BeginFields
        <5>2. Again(row[u]).conv = row[u].conv
          BY <5>1, AgainFields
        <5>3. Begin(u) = row[u] \/ Begin(u) = Again(row[u])
          BY <4>2 DEF Begin, Again
        <5>4. row[u].conv[1] = u
          BY <4>1, <5>2, <5>3
        <5>5. /\ row'[u] \in Row /\ row'[u].offset = 0
              /\ row'[u].init = FALSE /\ row'[u].conv = row[u].conv
          BY <1>1, <4>2, BackfillFields
        <5> QED BY <5>4, <5>5 DEF NoRow
      <4>3. CASE row[u] = NoRow
        <5>1. row'[u] = Begin(u)
          BY <1>1, <2>4, <4>3, BackfillFields
        <5>2. Begin(u).offset = 0 /\ Begin(u).init = FALSE
          BY <1>1, <4>3, BeginFields
        <5> QED BY <4>1, <5>1, <5>2 DEF NoRow
      <4> QED BY <4>2, <4>3
    <3>2. base'[u] = g
      BY <1>1, <3>1, BackfillFields
    <3>3. Begin(u)' = b
      <4>1. ~(Len(log'[u]) < row'[u].offset)
        BY <1>2, <2>1, <3>1
      <4> QED BY <3>1, <4>1 DEF Begin
    <3> DEFINE y == [epoch |-> b.gen, total |-> 0, at |-> g]
    <3>4. Anchor(u)' = y
      BY <1>2, <2>1, <3>1, <3>3 DEF Anchor, Place
    <3>5. Account(u)'.n = 0 /\ Account(u)'.b = g
      BY <1>2, <2>1, <3>2 DEF Account
    <3> HIDE DEF b
    <3>6. RowOK(u)'
      <4>1. FallsAfter(l, b.offset, g)
        <5>1. \A m \in 2..Len(l) : m - 1 \in 1..Len(l)
          BY <2>1
        <5> QED BY <2>1, <5>1 DEF FallsAfter, LinesOK
      <4> QED BY <1>2, <2>1, <3>1, <3>2, <3>3, <4>1 DEF RowOK
    <3>7. Untouched(u)'
      BY <1>1, <1>2, <3>1, <3>2 DEF FileOK, Untouched, b
    <3>8. LedgerOK(u)'
      BY <1>1, <1>2, <2>1, <3>2 DEF FileOK, LedgerOK
    <3>9. PendingOK(u)'
      BY <1>2, <2>2 DEF PendingOK
    <3>10. AnchorOK(u)'
      <4>1. Paid(Account(u)', y) /\ Enough(Account(u)', y)
        BY <2>1, <3>5 DEF Paid, Enough
      <4> QED BY <3>4, <4>1 DEF AnchorOK, Sound
    <3>11. LinesOK(log[u], gone[u], spent[u])' /\ (Parent[u] = NoParent => Origin(log[u], gone[u]) = 0)'
      BY <1>2, <2>1
    <3> QED BY <3>6, <3>7, <3>8, <3>9, <3>10, <3>11 DEF FileOK
  <2> QED BY <2>3, <2>4
<1>4. QueueOK'
  BY <1>1, <1>2 DEF QueueOK
<1> QED BY <1>3, <1>4

-----------------------------------------------------------------------------
(* The server.                                                             *)

(* An account may change in what a file inherits, if the head belongs to   *)
(* the parent: nothing behind it counts on that.                           *)
LEMMA SoundPast ==
  ASSUME NEW a, NEW c, c.n = a.n, c.b = a.b, c.w = a.w,
         NEW s, NEW q \in Seq(Event), NEW Q \in Seq(Event),
         Len(q) = Len(Q) + 1, \A i \in 1..Len(Q) : Q[i] = q[i + 1],
         q[1].src # Parent[s] => c.t = a.t,
         q[1].type # "baseline" \/ q[1].src # s,
         NEW j \in 2..Len(q) + 1, NEW x, Sound(a, s, q, j, x)
  PROVE  /\ Sound(c, s, Q, j - 1, x)
         /\ (Enough(a, x) \/ Above(a, x) \/ Awaits(a, s, q, j, x)) =>
              (Enough(c, x) \/ Above(c, x) \/ Awaits(c, s, Q, j - 1, x))
<1>1. /\ Sound(a, s, Q, j - 1, x)
      /\ Awaits(a, s, q, j, x) => Awaits(a, s, Q, j - 1, x)
  BY SoundTail
<1>2. /\ Paid(a, x) => Paid(c, x)
      /\ Enough(a, x) => Enough(c, x)
      /\ Above(a, x) => Above(c, x)
  BY DEF Paid, Enough, Above
<1>3. Awaits(a, s, Q, j - 1, x) => Awaits(c, s, Q, j - 1, x)
  BY DEF Awaits
<1>4. Inherits(a, s, q, j, x) =>
        (Inherits(a, s, Q, j - 1, x) => Inherits(c, s, Q, j - 1, x))
  <2> SUFFICES ASSUME Inherits(a, s, q, j, x), Inherits(a, s, Q, j - 1, x)
               PROVE  Inherits(c, s, Q, j - 1, x)
    OBVIOUS
  <2>1. 1 \in 1..Len(q) /\ 1 < j
    BY LenProperties
  <2>2. q[1].src # Parent[s]
    BY <2>1 DEF Inherits
  <2> QED BY <2>2 DEF Inherits
<1> QED BY <1>1, <1>2, <1>3, <1>4 DEF Sound

(* A baseline of the file itself has been applied: what waited for it is   *)
(* below the watermark now.                                                *)
LEMMA SoundBaseline ==
  ASSUME NEW a, NEW c, IsAccount(a), IsAccount(c), c.n = a.n, c.b = a.b,
         NEW s, NEW q \in Seq(Event), NEW Q \in Seq(Event),
         Len(q) = Len(Q) + 1, \A i \in 1..Len(Q) : Q[i] = q[i + 1],
         q[1] \in Event, q[1].type = "baseline", q[1].src = s,
         c.w \in Counter, c.w.total >= q[1].total,
         a.w # NoCounter => /\ c.w.epoch >= a.w.epoch
                            /\ c.w.total >= a.w.total,
         NEW j \in 2..Len(q) + 1, NEW x, IsMark(x), Sound(a, s, q, j, x)
  PROVE  /\ Sound(c, s, Q, j - 1, x)
         /\ Enough(c, x) \/ Above(c, x) \/ Awaits(c, s, Q, j - 1, x)
<1> DEFINE n == a.n
           b == a.b
           xt == x.total
           xa == x.at
           wt == c.w.total
           we == c.w.epoch
<1>1. /\ n \in Nat /\ b \in Nat /\ xt \in Nat /\ xa \in Nat /\ wt \in Nat /\ we \in Nat
      /\ x.epoch \in Nat /\ c.w # NoCounter
      /\ Len(q) \in Nat /\ Len(Q) \in Nat
  BY LenProperties DEF IsAccount, IsMark, Counter, NoCounter
<1>2. Paid(c, x)
  BY DEF Sound, Paid
<1>3. Above(c, x) <=> x.epoch <= we /\ n + xt - wt <= xa - b
  BY <1>1 DEF Above
<1>4. ~Inherits(a, s, q, j, x)
  <2>1. 1 \in 1..Len(q) /\ 1 < j
    BY <1>1
  <2> QED BY <2>1 DEF Inherits
<1>5. CASE Enough(a, x)
  BY <1>2, <1>5 DEF Enough, Sound
<1>6. CASE Above(a, x)
  <2> DEFINE at == a.w.total
             ae == a.w.epoch
  <2>1. a.w # NoCounter /\ x.epoch <= ae /\ n + xt - at <= xa - b
    BY <1>6 DEF Above
  <2>2. at \in Nat /\ ae \in Nat /\ wt >= at /\ we >= ae
    BY <2>1 DEF IsAccount, Counter
  <2>3. x.epoch <= we /\ n + xt - wt <= xa - b
    <3> HIDE DEF n, b, xt, xa, wt, we, at, ae
    <3> QED BY <1>1, <2>1, <2>2
  <2> QED BY <1>2, <1>3, <2>3 DEF Sound
<1>7. CASE Awaits(a, s, q, j, x)
  <2>1. PICK i \in 1..Len(q) :
          /\ i < j
          /\ q[i].type = "baseline" /\ q[i].src = s
          /\ x.epoch = 0
          /\ a.n + x.total - q[i].total <= x.at - a.b
    BY <1>7 DEF Awaits
  <2>2. CASE i = 1
    <3> DEFINE ht == q[1].total
    <3>1. n + xt - ht <= xa - b /\ ht \in Nat /\ wt >= ht
      BY <2>1, <2>2 DEF Event
    <3>2. x.epoch <= we /\ n + xt - wt <= xa - b
      <4>1. x.epoch = 0
        BY <2>1
      <4> HIDE DEF n, b, xt, xa, wt, we, ht
      <4> QED BY <1>1, <3>1, <4>1
    <3> QED BY <1>2, <1>3, <3>2 DEF Sound
  <2>3. CASE i # 1
    <3>1. i - 1 \in 1..Len(Q) /\ (i - 1) + 1 = i /\ i - 1 < j - 1
      BY <1>1, <2>1, <2>3
    <3>2. Q[i - 1] = q[i]
      BY <3>1
    <3>3. Awaits(c, s, Q, j - 1, x)
      BY <2>1, <3>1, <3>2 DEF Awaits
    <3> QED BY <1>2, <3>3 DEF Sound
  <2> QED BY <2>2, <2>3
<1> QED BY <1>4, <1>5, <1>6, <1>7 DEF Sound

(* A file keeps its invariant when the head leaves the queue, if its       *)
(* ledger, its reader's place and all its other events are found sound.    *)
LEMMA HeadGone ==
  ASSUME TypeOK, queue # <<>>, queue' = Tail(queue),
         UNCHANGED <<log, erased, spent, gone, row, base>>,
         NEW u \in Source, FileOK(u), LedgerOK(u)', AnchorOK(u)',
         Head(queue).src = u \/ (source'[u] = source[u] /\ counted'[u] = counted[u]),
         \A j \in Pending(queue, u) :
           j # 1 => Sound(Account(u)', u, Tail(queue), j - 1, queue[j])
  PROVE  FileOK(u)'
<1> DEFINE q == queue
           Q == Tail(queue)
<1>1. /\ Q \in Seq(Event) /\ Len(q) \in Nat /\ Len(Q) = Len(q) - 1 /\ Len(Q) \in Nat
      /\ Head(queue) = q[1]
      /\ \A i \in 1..Len(q) - 1 : Q[i] = q[i + 1]
      /\ 1 \in 1..Len(q)
  <2>1. Len(q) # 0
    BY EmptySeq DEF TypeOK
  <2> QED BY <2>1, HeadType, LenProperties
<1>2. ASSUME NEW i \in 1..Len(Q)
      PROVE  i + 1 \in 1..Len(q) /\ Q[i] = q[i + 1] /\ (i + 1) - 1 = i /\ i + 1 # 1
  BY <1>1, <1>2
<1>3. ASSUME NEW j \in Pending(Q, u)
      PROVE  /\ j + 1 \in Pending(q, u) /\ Q[j] = q[j + 1]
             /\ (j + 1) - 1 = j /\ j + 1 # 1 /\ j \in 1..Len(Q)
  BY <1>2, <1>3 DEF Pending
<1>4. Begin(u)' = Begin(u) /\ Anchor(u)' = Anchor(u)
  BY DEF Begin, Anchor
<1>5. LinesOK(log[u], gone[u], spent[u])' /\ (Parent[u] = NoParent => Origin(log[u], gone[u]) = 0)'
  BY DEF FileOK
<1>6. RowOK(u)'
  <2>1. Pending(q, u) = {} => Pending(Q, u) = {}
    BY <1>3
  <2> QED BY <1>4, <2>1 DEF FileOK, RowOK
<1>7. Untouched(u)'
  <2>1. CASE Head(queue).src = u
    <3>1. ~(row[u] = NoRow \/ (erased[u] = 0 /\ log[u] = <<>>))
      BY <1>1, <2>1 DEF FileOK, Untouched
    <3> QED BY <3>1 DEF Untouched
  <2>2. CASE source'[u] = source[u] /\ counted'[u] = counted[u]
    BY <1>2, <2>2 DEF FileOK, Untouched
  <2> QED BY <2>1, <2>2
<1>8. PendingOK(u)'
  <2>1. ASSUME NEW j \in Pending(Q, u)
        PROVE  Sound(Account(u)', u, Q, j, Q[j]) /\ Follows(Q[j], Anchor(u))
    <3>1. Sound(Account(u)', u, Q, (j + 1) - 1, q[j + 1])
      BY <1>3
    <3>2. Follows(q[j + 1], Anchor(u))
      BY <1>3 DEF FileOK, PendingOK
    <3> QED BY <1>3, <3>1, <3>2
  <2>2. ASSUME NEW j \in Pending(Q, u), NEW k \in Pending(Q, u), j < k
        PROVE  Follows(Q[j], Q[k])
    <3>1. j + 1 < k + 1
      BY <1>3, <2>2
    <3>2. Follows(q[j + 1], q[k + 1])
      BY <1>3, <3>1 DEF FileOK, PendingOK
    <3> QED BY <1>3, <3>2
  <2> QED BY <1>4, <2>1, <2>2 DEF PendingOK
<1> QED BY <1>5, <1>6, <1>7, <1>8 DEF FileOK

(* So it does when its own charge and watermark are left alone.            *)
LEMMA Passed ==
  ASSUME TypeOK, queue # <<>>, queue' = Tail(queue),
         UNCHANGED <<log, erased, spent, gone, row, base>>,
         NEW u \in Source, FileOK(u), LedgerOK(u)',
         source'[u] = source[u], counted'[u] = counted[u],
         Head(queue).type # "baseline" \/ Head(queue).src # u,
         (Parent[u] \in Source /\ Head(queue).src # Parent[u]) =>
           conv'[Main(Parent[u])] = conv[Main(Parent[u])]
  PROVE  FileOK(u)'
<1> DEFINE q == queue
           Q == Tail(queue)
           a == Account(u)
           c == Account(u)'
           x == Anchor(u)
<1>1. /\ q \in Seq(Event) /\ Q \in Seq(Event) /\ Len(q) \in Nat /\ Len(Q) \in Nat
      /\ Len(q) = Len(Q) + 1 /\ q[1] = Head(queue)
      /\ \A i \in 1..Len(Q) : Q[i] = q[i + 1]
  <2>1. Len(q) # 0
    BY EmptySeq DEF TypeOK
  <2>2. /\ Q \in Seq(Event) /\ Len(q) \in Nat /\ Len(Q) = Len(q) - 1
        /\ Head(queue) = q[1]
        /\ \A i \in 1..Len(q) - 1 : Q[i] = q[i + 1]
    BY HeadType
  <2>3. Len(q) - 1 \in Nat /\ Len(q) = Len(Q) + 1
    BY <2>1, <2>2
  <2> QED BY <2>2, <2>3 DEF TypeOK
<1>2. c.n = a.n /\ c.b = a.b /\ c.w = a.w
  BY DEF Account
<1>3. q[1].src # Parent[u] => c.t = a.t
  BY <1>1 DEF Account
<1>4. q[1].type # "baseline" \/ q[1].src # u
  BY <1>1
<1>5. ASSUME NEW j \in Pending(q, u), j # 1
      PROVE  Sound(c, u, Q, j - 1, q[j])
  <2>1. j \in 2..Len(q) + 1 /\ Sound(a, u, q, j, q[j])
    BY <1>1, <1>5 DEF FileOK, PendingOK, Pending
  <2> HIDE DEF a, c, q, Q
  <2> QED BY <1>1, <1>2, <1>3, <1>4, <2>1, SoundPast
<1>6. AnchorOK(u)'
  <2>1. Anchor(u)' = x
    BY DEF Anchor, Begin
  <2>2. /\ Sound(a, u, q, Len(q) + 1, x)
        /\ Enough(a, x) \/ Above(a, x) \/ Awaits(a, u, q, Len(q) + 1, x) \/ Still(u)
    BY DEF FileOK, AnchorOK
  <2>3. Len(q) + 1 \in 2..Len(q) + 1 /\ (Len(q) + 1) - 1 = Len(Q) + 1
    BY <1>1
  <2>4. /\ Sound(c, u, Q, (Len(q) + 1) - 1, x)
        /\ (Enough(a, x) \/ Above(a, x) \/ Awaits(a, u, q, Len(q) + 1, x)) =>
             (Enough(c, x) \/ Above(c, x) \/ Awaits(c, u, Q, (Len(q) + 1) - 1, x))
    <3> HIDE DEF a, c, q, Q, x
    <3> QED BY <1>1, <1>2, <1>3, <1>4, <2>2, <2>3, SoundPast
  <2>5. Still(u)' <=> Still(u)
    BY DEF Still, ParentRead
  <2> QED BY <2>1, <2>2, <2>3, <2>4, <2>5 DEF AnchorOK
<1> QED BY <1>5, <1>6, HeadGone

(* What an event adds to the charge is paid for by the use up to it, when  *)
(* it is sound and the next to be applied; or it adds nothing and the      *)
(* watermark stays.                                                        *)
LEMMA ExactPaid ==
  ASSUME TypeOK, queue # <<>>, NEW e, e = Head(queue), e.type = "exact",
         e.conv[1] = e.src, LedgerOK(e.src),
         Sound(Account(e.src), e.src, queue, 1, e), DeltaCounts(e) \in Nat
  PROVE  \/ /\ source[e.src] = NoCounter \/ Reset(e) \/ e.total > Old(e).total
            /\ counted[e.src] + DeltaCounts(e) <= e.at - base[e.src]
         \/ /\ ~(source[e.src] = NoCounter \/ Reset(e) \/ e.total > Old(e).total)
            /\ DeltaCounts(e) = 0
<1> DEFINE s == e.src
           n == counted[s]
           b == base[s]
           et == e.total
           ea == e.at
           a == Account(s)
           d == DeltaCounts(e)
           ot == Old(e).total
<1>1. /\ e \in Event /\ s \in Source /\ n \in Nat /\ b \in Nat /\ et \in Nat /\ ea \in Nat
      /\ e.epoch \in Nat
  <2>1. e \in Event
    BY HeadType
  <2>2. s \in Source /\ et \in Nat /\ ea \in Nat /\ e.epoch \in Nat
    BY <2>1 DEF Event
  <2> QED BY <2>1, <2>2 DEF TypeOK
<1>2. Old(e) \in Counter /\ (source[s] # NoCounter => Old(e) = source[s])
  BY <1>1, OldType
<1>3. ot \in Nat /\ Old(e).epoch \in Nat
  BY <1>2 DEF Counter
<1>4. d = IF Reset(e) THEN et ELSE IF et < ot THEN 0 ELSE et - ot
  BY DEF DeltaCounts
<1>5. a.n = n /\ a.b = b /\ a.w = source[s]
  BY DEF Account
<1>6. d <= et
  BY <1>1, <1>3, <1>4
<1>7. ~Awaits(a, s, queue, 1, e)
  <2>1. \A i \in 1..Len(queue) : ~(i < 1)
    OBVIOUS
  <2> QED BY <2>1 DEF Awaits
<1>8. CASE Enough(a, e)
  <2>1. n + et <= ea - b
    BY <1>5, <1>8 DEF Enough
  <2>2. n + d <= ea - b
    <3> HIDE DEF n, et, ea, b, d
    <3>1. d \in Nat
      BY DEF d
    <3> QED BY <1>1, <1>6, <2>1, <3>1
  <2>3. ~(source[s] = NoCounter \/ Reset(e) \/ et > ot) => d = 0
    BY <1>1, <1>3, <1>4
  <2> QED BY <2>2, <2>3
<1>9. CASE Above(a, e)
  <2>1. source[s] # NoCounter /\ e.epoch <= source[s].epoch
        /\ n + et - source[s].total <= ea - b
    BY <1>5, <1>9 DEF Above
  <2>2. Old(e) = source[s]
    BY <1>2, <2>1
  <2>3. ~Reset(e)
    BY <1>1, <1>3, <2>1, <2>2 DEF Reset
  <2>4. n + et - ot <= ea - b
    BY <2>1, <2>2
  <2>5. CASE et > ot
    <3>1. d = et - ot
      BY <1>1, <1>3, <1>4, <2>3, <2>5
    <3>2. n + d <= ea - b
      <4> HIDE DEF n, et, ot, ea, b, d
      <4> QED BY <1>1, <1>3, <2>4, <3>1
    <3> QED BY <2>5, <3>2
  <2>6. CASE ~(et > ot)
    <3>1. d = 0
      BY <1>1, <1>3, <1>4, <2>3, <2>6
    <3> QED BY <2>1, <2>3, <2>6, <3>1
  <2> QED BY <2>5, <2>6
<1>10. CASE Inherits(a, s, queue, 1, e)
  <2>1. /\ source[s] = NoCounter /\ Parent[s] \in Source
        /\ a.t <= et /\ et - a.t <= ea - b
    BY <1>5, <1>10 DEF Inherits
  <2>2. n = 0 /\ conv[e.conv] = NoCounter
    <3>1. e.conv = <<s, "main">> \/ e.conv = <<s, "derived">>
      BY <1>1 DEF Event, Conversation
    <3> QED BY <2>1, <3>1 DEF LedgerOK
  <2>3. Parent[s] # NoParent
    BY <2>1, LedgerAssumption
  <2>4. ot = a.t
    <3>1. HasParent(e) /\ ParentConv(e) = Main(Parent[s])
      BY <2>3 DEF HasParent, ParentConv
    <3>2. Old(e) = [epoch |-> 0, total |-> conv[Main(Parent[s])].total]
      BY <2>1, <2>2, <3>1 DEF Old
    <3>3. a.t = conv[Main(Parent[s])].total
      BY <2>1 DEF Account
    <3> QED BY <3>2, <3>3
  <2>5. ~Reset(e)
    BY <1>1, <1>3, <2>1, <2>4 DEF Reset
  <2>6. d = et - ot
    BY <1>1, <1>3, <1>4, <2>1, <2>4, <2>5
  <2>7. n + d <= ea - b
    <3>1. et - ot <= ea - b
      BY <2>1, <2>4
    <3> HIDE DEF n, et, ot, ea, b, d
    <3> QED BY <1>1, <1>3, <2>2, <2>6, <3>1
  <2> QED BY <2>1, <2>7
<1> QED BY <1>7, <1>8, <1>9, <1>10 DEF Sound

(* Applying an event touches no other file's charge, watermark or          *)
(* conversations.                                                          *)
LEMMA ApplyLocal ==
  ASSUME TypeOK, QueueOK, Apply
  PROVE  /\ queue # <<>> /\ queue' = Tail(queue)
         /\ UNCHANGED <<log, erased, spent, gone, row, base>>
         /\ Head(queue) \in Event /\ Head(queue).src \in Source
         /\ Head(queue).conv[1] = Head(queue).src
         /\ Head(queue).type = "baseline" => Head(queue).epoch = 0
         /\ keys \subseteq keys'
         /\ \A u \in Source : u # Head(queue).src =>
              /\ source'[u] = source[u] /\ counted'[u] = counted[u]
              /\ \A name \in {"main", "derived"} : conv'[<<u, name>>] = conv[<<u, name>>]
<1> DEFINE h == Head(queue)
<1>1. /\ queue # <<>> /\ queue' = Tail(queue)
      /\ UNCHANGED <<log, erased, spent, gone, row, base>>
      /\ IF h.type = "baseline" THEN ApplyBaseline(h) ELSE ApplyExact(h)
  BY DEF Apply, codex, agent
<1>2. h \in Event /\ h = queue[1] /\ 1 \in 1..Len(queue)
  <2>1. Len(queue) # 0
    BY <1>1, EmptySeq DEF TypeOK
  <2> QED BY <1>1, <2>1, HeadType
<1>3. h.src \in Source /\ h.conv[1] = h.src /\ (h.type = "baseline" => h.epoch = 0)
  BY <1>2 DEF QueueOK, Event
<1> HIDE DEF h
<1>4. /\ keys \subseteq keys'
      /\ conv' = conv \/ \E c \in Counter : conv' = [conv EXCEPT ![h.conv] = c]
      /\ source' = source \/ \E w : source' = [source EXCEPT ![h.src] = w]
      /\ counted' = counted \/ \E n : counted' = [counted EXCEPT ![h.src] = n]
  <2>1. CASE h.type = "baseline"
    BY <1>1, <1>2, <2>1, BaselineApplied
  <2>2. CASE h.type # "baseline" /\ DedupKey(h) \in keys
    BY <1>1, <2>2 DEF ApplyExact, server
  <2>3. CASE h.type # "baseline" /\ DedupKey(h) \notin keys
    BY <1>1, <1>2, <2>3, ExactEffect, ZenonT(40)
  <2> QED BY <2>1, <2>2, <2>3
<1>5. ASSUME NEW u \in Source, u # h.src
      PROVE  /\ source'[u] = source[u] /\ counted'[u] = counted[u]
             /\ \A name \in {"main", "derived"} : conv'[<<u, name>>] = conv[<<u, name>>]
  <2>1. source'[u] = source[u] /\ counted'[u] = counted[u]
    BY <1>3, <1>4, <1>5 DEF TypeOK
  <2>2. ASSUME NEW name \in {"main", "derived"}
        PROVE  conv'[<<u, name>>] = conv[<<u, name>>]
    <3>1. <<u, name>> \in Conversation
      BY Conversations
    <3>2. <<u, name>> # h.conv
      BY <1>3, <1>5
    <3> QED BY <1>4, <3>1, <3>2 DEF TypeOK
  <2> QED BY <2>1, <2>2
<1> QED BY <1>1, <1>2, <1>3, <1>4, <1>5 DEF h

(* Every other file keeps its invariant.                                   *)
LEMMA ApplyOther ==
  ASSUME TypeOK, QueueOK, Apply, NEW u \in Source, u # Head(queue).src, FileOK(u)
  PROVE  FileOK(u)'
<1>1. /\ queue # <<>> /\ queue' = Tail(queue)
      /\ UNCHANGED <<log, erased, spent, gone, row, base>>
      /\ keys \subseteq keys'
      /\ \A p \in Source : p # Head(queue).src =>
           /\ source'[p] = source[p] /\ counted'[p] = counted[p]
           /\ \A name \in {"main", "derived"} : conv'[<<p, name>>] = conv[<<p, name>>]
  BY ApplyLocal
<1>2. LedgerOK(u)'
  BY <1>1 DEF FileOK, LedgerOK
<1>3. (Parent[u] \in Source /\ Head(queue).src # Parent[u]) =>
        conv'[Main(Parent[u])] = conv[Main(Parent[u])]
  BY <1>1 DEF Main
<1> QED BY <1>1, <1>2, <1>3, Passed

(* Accounts are made of numbers after a step, too.                         *)
LEMMA AccountAfter ==
  ASSUME TypeOK', NEW s \in Source
  PROVE  IsAccount(Account(s)')
<1>1. /\ counted'[s] \in Nat /\ base'[s] \in Nat
      /\ source'[s] \in Counter \cup {NoCounter}
  BY DEF TypeOK
<1>2. Parent[s] \in Source => conv'[Main(Parent[s])].total \in Nat
  <2> SUFFICES ASSUME Parent[s] \in Source
               PROVE  conv'[Main(Parent[s])].total \in Nat
    OBVIOUS
  <2>1. Main(Parent[s]) \in Conversation
    BY Conversations
  <2>2. conv'[Main(Parent[s])] \in Counter \cup {NoCounter}
    BY <2>1 DEF TypeOK
  <2> QED BY <2>2 DEF Counter, NoCounter
<1> QED BY <1>1, <1>2 DEF IsAccount, Account

(* A baseline for the file itself.                                         *)
LEMMA ApplyBaselineOK ==
  ASSUME TypeOK, TypeOK', QueueOK, Apply, NEW s \in Source, s = Head(queue).src,
         Head(queue).type = "baseline", FileOK(s)
  PROVE  FileOK(s)'
<1> DEFINE h == Head(queue)
           q == queue
           Q == Tail(queue)
           a == Account(s)
           c == Account(s)'
           x == Anchor(s)
<1>1. /\ queue # <<>> /\ queue' = Q
      /\ UNCHANGED <<log, erased, spent, gone, row, base>>
      /\ h \in Event /\ h.epoch = 0
  BY ApplyLocal
<1>2. /\ q \in Seq(Event) /\ Q \in Seq(Event) /\ Len(q) \in Nat /\ Len(Q) \in Nat
      /\ Len(q) = Len(Q) + 1 /\ q[1] = h
      /\ \A i \in 1..Len(Q) : Q[i] = q[i + 1]
  <2>1. Len(q) # 0
    BY <1>1, EmptySeq DEF TypeOK
  <2>2. /\ Q \in Seq(Event) /\ Len(q) \in Nat /\ Len(Q) = Len(q) - 1
        /\ h = q[1]
        /\ \A i \in 1..Len(q) - 1 : Q[i] = q[i + 1]
    BY <1>1, HeadType
  <2>3. Len(q) - 1 \in Nat /\ Len(q) = Len(Q) + 1
    BY <2>1, <2>2
  <2> QED BY <2>2, <2>3 DEF TypeOK
<1>3. PICK w \in Counter :
         /\ source' = [source EXCEPT ![s] = w]
         /\ source[s] = NoCounter => w = [epoch |-> h.epoch, total |-> h.total]
         /\ source[s] # NoCounter =>
              /\ w.epoch >= h.epoch /\ w.epoch >= source[s].epoch
              /\ w.total >= source[s].total \/ h.epoch > source[s].epoch
              /\ w.total >= h.total
  <2>1. ApplyBaseline(h)
    BY DEF Apply
  <2> QED BY <1>1, <2>1, BaselineApplied
<1>4. UNCHANGED <<keys, counted>>
  BY DEF Apply, ApplyBaseline
<1>5. source'[s] = w /\ w # NoCounter
  BY <1>3 DEF TypeOK, Counter, NoCounter
<1>6. /\ IsAccount(a) /\ IsMark(x) /\ \A i \in 1..Len(q) : IsMark(q[i])
  BY Numbers DEF FileOK
<1>7. IsAccount(c)
  BY AccountAfter
<1>8. c.n = a.n /\ c.b = a.b /\ c.w = w /\ a.w = source[s]
  BY <1>1, <1>4, <1>5 DEF Account
<1>9. c.w \in Counter /\ c.w.total >= q[1].total
  <2>1. h.total \in Nat
    BY <1>1 DEF Event
  <2> QED BY <1>2, <1>3, <1>8, <2>1
<1>10. a.w # NoCounter => c.w.epoch >= a.w.epoch /\ c.w.total >= a.w.total
  <2> SUFFICES ASSUME source[s] # NoCounter
               PROVE  w.epoch >= source[s].epoch /\ w.total >= source[s].total
    BY <1>8
  <2>1. source[s].epoch \in Nat
    BY DEF TypeOK, Counter
  <2>2. ~(h.epoch > source[s].epoch)
    BY <1>1, <2>1
  <2> QED BY <1>3, <2>2
<1>11. q[1] \in Event /\ q[1].type = "baseline" /\ q[1].src = s
  BY <1>1, <1>2
<1>12. ASSUME NEW j \in Pending(q, s), j # 1
       PROVE  Sound(c, s, Q, j - 1, q[j])
  <2>1. j \in 2..Len(q) + 1 /\ Sound(a, s, q, j, q[j]) /\ IsMark(q[j])
    BY <1>2, <1>6, <1>12 DEF FileOK, PendingOK, Pending
  <2> HIDE DEF a, c, q, Q
  <2> QED BY <1>2, <1>6, <1>7, <1>8, <1>9, <1>10, <1>11, <2>1, SoundBaseline
<1>13. AnchorOK(s)'
  <2>1. Anchor(s)' = x
    BY <1>1 DEF Anchor, Begin
  <2>2. Sound(a, s, q, Len(q) + 1, x)
    BY DEF FileOK, AnchorOK
  <2>3. Len(q) + 1 \in 2..Len(q) + 1 /\ (Len(q) + 1) - 1 = Len(Q) + 1
    BY <1>2
  <2>4. /\ Sound(c, s, Q, (Len(q) + 1) - 1, x)
        /\ Enough(c, x) \/ Above(c, x) \/ Awaits(c, s, Q, (Len(q) + 1) - 1, x)
    <3> HIDE DEF a, c, q, Q, x
    <3> QED BY <1>2, <1>6, <1>7, <1>8, <1>9, <1>10, <1>11, <2>2, <2>3, SoundBaseline
  <2> QED BY <1>1, <2>1, <2>3, <2>4 DEF AnchorOK
<1>14. LedgerOK(s)'
  BY <1>1, <1>4, <1>5 DEF FileOK, LedgerOK
<1> QED BY <1>1, <1>12, <1>13, <1>14, HeadGone

(* A usage event of the file itself.                                       *)
LEMMA ApplyExactOK ==
  ASSUME TypeOK, TypeOK', QueueOK, Apply, NEW s \in Source, s = Head(queue).src,
         Head(queue).type # "baseline", FileOK(s)
  PROVE  FileOK(s)'
<1> DEFINE h == Head(queue)
           q == queue
           Q == Tail(queue)
           a == Account(s)
           c == Account(s)'
           x == Anchor(s)
           d == DeltaCounts(h)
<1>1. /\ queue # <<>> /\ queue' = Q
      /\ UNCHANGED <<log, erased, spent, gone, row, base>>
      /\ h \in Event /\ h.conv[1] = s /\ h.type = "exact" /\ IsMark(h)
      /\ ApplyExact(h)
      /\ \A u \in Source : u # s =>
           \A name \in {"main", "derived"} : conv'[<<u, name>>] = conv[<<u, name>>]
  <2>1. ApplyExact(h)
    BY DEF Apply
  <2>2. h \in Event
    BY ApplyLocal
  <2> QED BY <2>1, <2>2, ApplyLocal DEF Event, IsMark
<1>2. (Parent[s] \in Source /\ h.src # Parent[s]) =>
        conv'[Main(Parent[s])] = conv[Main(Parent[s])]
  BY <1>1 DEF Main
<1>3. CASE DedupKey(h) \in keys
  <2>1. UNCHANGED <<source, conv, keys, counted>>
    BY <1>1, <1>3 DEF ApplyExact, server
  <2>2. LedgerOK(s)'
    BY <1>1, <2>1 DEF FileOK, LedgerOK
  <2> QED BY <1>1, <1>2, <2>1, <2>2, Passed
<1>4. CASE DedupKey(h) \notin keys
  <2>1. /\ d \in Nat
        /\ keys' = keys \cup {DedupKey(h)}
        /\ counted' = [counted EXCEPT ![s] = counted[s] + d]
        /\ source' = IF source[s] = NoCounter \/ Reset(h) \/ h.total > Old(h).total
                       THEN [source EXCEPT ![s] = [epoch |-> h.epoch, total |-> h.total]]
                       ELSE source
    BY <1>1, <1>4, ExactEffect
  <2>2. keys' # {} /\ counted'[s] = counted[s] + d
    BY <2>1 DEF TypeOK
  <2>3. /\ q \in Seq(Event) /\ Q \in Seq(Event) /\ Len(q) \in Nat /\ Len(Q) \in Nat
        /\ Len(q) = Len(Q) + 1 /\ q[1] = h /\ 1 \in Pending(q, s)
    <3>1. Len(q) # 0
      BY <1>1, EmptySeq DEF TypeOK
    <3>2. /\ Q \in Seq(Event) /\ Len(q) \in Nat /\ Len(Q) = Len(q) - 1
          /\ h = q[1]
      BY <1>1, HeadType
    <3>3. Len(q) - 1 \in Nat /\ Len(q) = Len(Q) + 1
      BY <3>1, <3>2
    <3> QED BY <1>1, <3>2, <3>3 DEF TypeOK, Pending
  <2>4. /\ Sound(a, s, q, 1, h) /\ Follows(h, x)
        /\ \A j \in Pending(q, s) : j # 1 => Follows(h, q[j])
    BY <2>3 DEF FileOK, PendingOK, Pending
  <2>5. /\ IsAccount(a) /\ IsMark(x) /\ x.at <= spent[s]
        /\ \A i \in 1..Len(q) : IsMark(q[i])
    BY Numbers DEF FileOK
  <2>6. \/ /\ source[s] = NoCounter \/ Reset(h) \/ h.total > Old(h).total
           /\ counted[s] + d <= h.at - base[s]
        \/ /\ ~(source[s] = NoCounter \/ Reset(h) \/ h.total > Old(h).total)
           /\ d = 0
    BY <1>1, <2>1, <2>4, ExactPaid DEF FileOK
  <2>7. CASE /\ source[s] = NoCounter \/ Reset(h) \/ h.total > Old(h).total
             /\ counted[s] + d <= h.at - base[s]
    <3>1. source'[s] = [epoch |-> h.epoch, total |-> h.total] /\ source'[s] # NoCounter
      BY <1>1, <2>1, <2>7, SMTT(30) DEF TypeOK, IsMark, NoCounter
    <3>2. /\ c.n = counted[s] + d /\ c.b = base[s] /\ c.n <= h.at - c.b
          /\ c.w = [epoch |-> h.epoch, total |-> h.total]
      BY <1>1, <2>2, <2>7, <3>1 DEF Account
    <3>3. IsAccount(c)
      BY AccountAfter
    <3>4. ASSUME NEW j \in Pending(q, s), j # 1
          PROVE  Sound(c, s, Q, j - 1, q[j])
      <4>1. Follows(h, q[j]) /\ IsMark(q[j])
        BY <2>4, <2>5, <3>4 DEF Pending
      <4> HIDE DEF a, c, q, Q, h
      <4> QED BY <1>1, <3>2, <3>3, <4>1, SoundAfter
    <3>5. AnchorOK(s)'
      <4>1. Anchor(s)' = x
        BY <1>1 DEF Anchor, Begin
      <4>2. /\ Sound(c, s, Q, Len(Q) + 1, x)
            /\ Enough(c, x) \/ Above(c, x)
        <5> HIDE DEF a, c, q, Q, h, x
        <5> QED BY <1>1, <2>4, <2>5, <3>2, <3>3, SoundAfter
      <4> QED BY <1>1, <4>1, <4>2 DEF AnchorOK
    <3>6. LedgerOK(s)'
      <4>1. counted'[s] <= spent[s] - base[s]
        <5> DEFINE n == counted[s] + d
                   b == base[s]
                   ha == h.at
                   xa == x.at
                   sp == spent[s]
        <5>1. /\ n <= ha - b /\ ha <= xa /\ xa <= sp
              /\ n \in Nat /\ b \in Nat /\ ha \in Nat /\ xa \in Nat /\ sp \in Nat
          <6>1. counted[s] \in Nat /\ b \in Nat /\ sp \in Nat
            BY DEF TypeOK
          <6> HIDE DEF x, h, d
          <6> QED BY <1>1, <2>1, <2>4, <2>5, <2>7, <6>1, SMTT(30) DEF Follows, IsMark
        <5>2. n <= sp - b
          <6> HIDE DEF n, b, ha, xa, sp
          <6> QED BY <5>1
        <5> QED BY <2>2, <5>2
      <4> QED BY <1>1, <2>2, <3>1, <4>1 DEF LedgerOK
    <3> QED BY <1>1, <3>4, <3>5, <3>6, HeadGone
  <2>8. CASE /\ ~(source[s] = NoCounter \/ Reset(h) \/ h.total > Old(h).total)
             /\ d = 0
    <3>1. source' = source /\ counted'[s] = counted[s] /\ source[s] # NoCounter
      <4>1. counted[s] \in Nat
        BY DEF TypeOK
      <4> QED BY <2>1, <2>2, <2>8, <4>1
    <3>2. LedgerOK(s)'
      BY <1>1, <2>2, <3>1 DEF FileOK, LedgerOK
    <3> QED BY <1>1, <1>2, <3>1, <3>2, Passed
  <2> QED BY <2>6, <2>7, <2>8
<1> QED BY <1>3, <1>4

(* Applying an event keeps the invariant.                                  *)
LEMMA ApplyOK ==
  ASSUME IInv, TypeOK', Apply
  PROVE  QueueOK' /\ \A u \in Source : FileOK(u)'
<1>1. TypeOK /\ QueueOK /\ \A u \in Source : FileOK(u)
  BY DEF IInv
<1>2. queue # <<>> /\ queue' = Tail(queue) /\ Head(queue).src \in Source
  BY <1>1, ApplyLocal
<1>3. ASSUME NEW u \in Source PROVE FileOK(u)'
  <2>1. CASE u # Head(queue).src
    BY <1>1, <2>1, ApplyOther
  <2>2. CASE u = Head(queue).src /\ Head(queue).type = "baseline"
    BY <1>1, <2>2, ApplyBaselineOK
  <2>3. CASE u = Head(queue).src /\ Head(queue).type # "baseline"
    BY <1>1, <2>3, ApplyExactOK
  <2> QED BY <2>1, <2>2, <2>3
<1>4. QueueOK'
  <2>1. /\ Len(queue) \in Nat /\ Len(Tail(queue)) = Len(queue) - 1
        /\ \A i \in 1..Len(queue) - 1 : Tail(queue)[i] = queue[i + 1]
    BY <1>1, <1>2, HeadType
  <2>2. \A i \in 1..Len(Tail(queue)) : i + 1 \in 1..Len(queue)
    BY <2>1
  <2> QED BY <1>1, <1>2, <2>1, <2>2 DEF QueueOK
<1> QED BY <1>3, <1>4

-----------------------------------------------------------------------------
(* The theorem.                                                            *)

(* In the beginning nothing was used and nothing read.                     *)
LEMMA InitOK == Init => IInv
<1> SUFFICES ASSUME Init PROVE IInv
  OBVIOUS
<1>1. TypeOK
  BY InitType
<1>2. queue = <<>> /\ Len(queue) = 0
  BY EmptySeq DEF Init
<1>3. QueueOK
  BY <1>2 DEF QueueOK
<1>4. ASSUME NEW s \in Source PROVE FileOK(s)
  <2>1. /\ log[s] = <<>> /\ row[s] = NoRow /\ source[s] = NoCounter
        /\ counted[s] = 0 /\ spent[s] = 0 /\ gone[s] = 0 /\ base[s] = 0 /\ erased[s] = 0
        /\ \A name \in {"main", "derived"} : conv[<<s, name>>] = NoCounter
    BY Conversations DEF Init
  <2>2. /\ Begin(s).offset = 0 /\ Begin(s).init = FALSE /\ Begin(s).conv[1] = s
        /\ Begin(s).gen = 0
    BY <2>1 DEF Begin, Main
  <2>3. Pending(queue, s) = {}
    BY <1>2 DEF Pending
  <2>4. LinesOK(log[s], gone[s], spent[s]) /\ Origin(log[s], gone[s]) = 0
    BY <2>1, NoLines
  <2>5. RowOK(s)
    <3>1. FallsAfter(log[s], 0, 0) /\ Len(log[s]) = 0
      BY <2>1, NoLines, EmptySeq
    <3> QED BY <2>1, <2>2, <2>3, <3>1 DEF RowOK
  <2>6. Untouched(s)
    BY <1>2, <2>1 DEF Untouched
  <2>7. LedgerOK(s)
    BY <2>1 DEF LedgerOK
  <2>8. PendingOK(s)
    BY <2>3 DEF PendingOK
  <2>9. AnchorOK(s)
    <3>1. Anchor(s).total = 0 /\ Anchor(s).at = 0
      BY <2>1, <2>2, <2>4 DEF Anchor, Place
    <3>2. Account(s).n = 0 /\ Account(s).b = 0
      BY <2>1 DEF Account
    <3>3. Paid(Account(s), Anchor(s)) /\ Enough(Account(s), Anchor(s))
      BY <3>1, <3>2 DEF Paid, Enough
    <3> QED BY <3>3 DEF AnchorOK, Sound
  <2> QED BY <2>4, <2>5, <2>6, <2>7, <2>8, <2>9 DEF FileOK
<1> QED BY <1>1, <1>3, <1>4 DEF IInv

(* Every step keeps the invariant, unless history is imported late.        *)
LEMMA StepOK ==
  ASSUME "backfill" \notin Allowed, IInv, [Next]_vars
  PROVE  IInv'
<1>1. TypeOK /\ TypeOK'
  BY NextType DEF IInv
<1>2. QueueOK' /\ \A u \in Source : FileOK(u)'
  <2>1. CASE \E s \in Source : Use(s) \/ Fork(s) \/ Restart(s)
    BY <2>1, WriteOK
  <2>2. CASE \E s \in Source : Rewrite(s)
    BY <2>2, RewriteOK
  <2>3. CASE \E s \in Source : Baseline(s)
    BY <1>1, <2>3, BaselineOK
  <2>4. CASE \E s \in Source : Scan(s)
    BY <1>1, <2>4, ScanOK
  <2>5. CASE \E s \in Source : Notice(s)
    BY <2>5, NoticeOK
  <2>6. CASE EndFirstPass
    BY <2>6, EndFirstPassOK
  <2>7. CASE Backfill
    BY <1>1, <2>7, BackfillOK
  <2>8. CASE Apply
    BY <1>1, <2>8, ApplyOK
  <2>9. CASE UNCHANGED vars
    <3>1. UNCHANGED <<log, turn, erased, spent, gone, row, firstPass, base, queue, source,
                      conv, keys, counted>>
      BY <2>9 DEF vars, codex, agent, server
    <3>2. ASSUME NEW u \in Source PROVE FileOK(u)'
      <4>1. Same(u)
        BY <3>1 DEF Same, Alike
      <4>2. ParentRead(Parent[u]) => ParentRead(Parent[u])'
        BY <3>1 DEF ParentRead
      <4> QED BY <3>1, <4>1, <4>2, Frame DEF IInv
    <3> QED BY <3>1, <3>2 DEF IInv, QueueOK
  <2> QED BY <2>1, <2>2, <2>3, <2>4, <2>5, <2>6, <2>7, <2>8, <2>9 DEF Next
<1> QED BY <1>1, <1>2 DEF IInv

(* No file is charged more than was used in it since collection began, at  *)
(* any moment, if a backfill is not run after lines were read.             *)
THEOREM NeverOvercounted ==
  ASSUME "backfill" \notin Allowed
  PROVE  Spec => []NoOvercount
<1>1. IInv /\ [Next]_vars => IInv'
  BY StepOK
<1>2. IInv => NoOvercount
  BY DEF IInv, FileOK, LedgerOK, NoOvercount
<1> QED BY InitOK, <1>1, <1>2, PTL DEF Spec

=============================================================================
