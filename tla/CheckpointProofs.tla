-------------------------- MODULE CheckpointProofs --------------------------
(***************************************************************************)
(* What a checkpoint means, proved for every set of files and processes    *)
(* and every limit: every usage line before it is queued or applied, old   *)
(* lines are not imported, and a line is queued once, except where a       *)
(* backfill, an error or a file measured too early is in play; and that    *)
(* the last of these takes two processes.                                  *)
(***************************************************************************)
EXTENDS DeliveryProofs

-----------------------------------------------------------------------------
(* The invariant, on top of IInv: where a checkpoint can stand in the file *)
(* it was taken in, and what has been queued on either side of it.         *)

(* A checkpoint is at the end of a line unless it is still where reading   *)
(* began, and inside the file unless the file was replaced.                *)
Placed(s, c) ==
  /\ c.start <= c.offset
  /\ c.offset % 2 = 1 => c.start = c.offset
  /\ c.rewrite <= rewrites[s]
  /\ c.rewrite = rewrites[s] => c.offset <= FileSize(s)

(* A measurement is of this incarnation or an earlier one, and files grow. *)
Dated(s, stat) ==
  /\ stat.rewrite <= rewrites[s]
  /\ stat.rewrite = rewrites[s] => stat.size <= FileSize(s)

Held(p, s) == proc[p].stat[s] # NoStat

Queued(s, k) ==
  \E e \in Events(history) :
    e.src = s /\ e.rewrite = rewrites[s] /\ e.line = k

(* The lines the collector has to have queued when it stands at c.         *)
Passed(s, c, k) ==
  Extracted(s, k) /\ Whole(k, c.start) /\ 2 * k <= c.offset

Covered(s, c) ==
  c.rewrite = rewrites[s] =>
    \A k \in 1..Len(log[s]) : Passed(s, c, k) => Queued(s, k)

CheckpointInv ==
  /\ \A s \in Source :
       row[s] # NoRow => Placed(s, row[s]) /\ Covered(s, row[s])
  /\ \A p \in Process, s \in Source :
       Held(p, s) => Dated(s, proc[p].stat[s])

-----------------------------------------------------------------------------
(* A file is as long as its complete lines, and half a line more if one is *)
(* being written.                                                          *)
LEMMA SizeType ==
  ASSUME TypeOK, NEW s \in Source
  PROVE  /\ FileSize(s) \in Nat /\ Len(log[s]) \in Nat
         /\ FileSize(s) >= 2 * Len(log[s])
<1>1. Len(log[s]) \in Nat
  BY RowType
<1>2. CASE partial[s]
  BY <1>1, <1>2 DEF FileSize
<1>3. CASE ~partial[s]
  BY <1>1, <1>3 DEF FileSize
<1> QED BY <1>1, <1>2, <1>3

(* After a scan its process holds no measurement, and the others hold what *)
(* they held.                                                              *)
LEMMA ScanDrops ==
  ASSUME TypeOK, NEW p \in Process, NEW s \in Source,
         PassScan(p, s) \/ ScheduledScan(p, s)
  PROVE  /\ \A u \in Source : proc'[p].stat[u] = NoStat
         /\ \A q \in Process : q # p => proc'[q] = proc[q]
         /\ proc'[p].pc = proc[p].pc /\ proc[p].pc \in {"pass", "run"}
         /\ proc'[p].baseline = proc[p].baseline
         /\ proc'[p].todo = proc[p].todo \/ proc'[p].todo = proc[p].todo \ {s}
<1>1. proc[p] \in ProcState /\ proc \in [Process -> ProcState]
  BY DEF TypeOK
<1>2. \A u \in Source : AtRest[u] = NoStat
  BY DEF AtRest
<1>3. CASE PassScan(p, s)
  <2>1. proc' = [proc EXCEPT ![p] =
                  [proc[p] EXCEPT !.todo = @ \ {s}, !.stat = AtRest]]
    BY <1>3 DEF PassScan
  <2> QED BY <1>1, <1>2, <1>3, <2>1 DEF PassScan, ProcState
<1>4. CASE ScheduledScan(p, s)
  <2>1. proc' = [proc EXCEPT ![p] = [proc[p] EXCEPT !.stat = AtRest]]
    BY <1>1, <1>4 DEF ScheduledScan
  <2> QED BY <1>1, <1>2, <1>4, <2>1 DEF ScheduledScan, ProcState
<1> QED BY <1>3, <1>4

(* What a scan adds: the new checkpoint is row'[s].                        *)
LEMMA ScanRow ==
  ASSUME IInv, NEW s \in Source, NEW stat \in Stat, NEW baseline,
         NEW limit \in Nat,
         Scan(s, stat, baseline, limit)
  PROVE  /\ row'[s] \in Checkpoint /\ row'[s] # NoRow
         /\ \A t \in Source : t # s => row'[t] = row[t]
         /\ Events(history) \subseteq Events(history')
         /\ \A e \in Events(history') \ Events(history) : e.src = s
<1>1. PICK at, c : /\ Fresh(at, s) /\ Ahead(at, s, c)
                   /\ Insert(at)
                   /\ row' = [row EXCEPT ![s] = c]
  BY ScanEffect DEF IInv, QueueInv
<1>2. /\ history' = history \cup NewRows(at)
      /\ \A r \in NewRows(at) : \E k \in DOMAIN at : r.ev = at[k]
  BY <1>1, InsertRows DEF IInv, QueueInv
<1>3. Events(history) \subseteq Events(history')
  BY <1>2 DEF Events
<1>4. ASSUME NEW e \in Events(history') \ Events(history) PROVE e.src = s
  <2>1. PICK r \in NewRows(at) : r.ev = e
    BY <1>2 DEF Events
  <2>2. PICK k \in DOMAIN at : e = at[k]
    BY <1>2, <2>1
  <2> QED BY <1>1, <2>2 DEF Fresh
<1>5. /\ row'[s] = c /\ c \in Checkpoint /\ c # NoRow
      /\ \A t \in Source : t # s => row'[t] = row[t]
  BY <1>1 DEF Ahead, IInv, TypeOK, Checkpoint, NoRow
<1> QED BY <1>3, <1>4, <1>5

(* The same of a scan of lines by itself.                                  *)
LEMMA ScanLinesRow ==
  ASSUME IInv, NEW s \in Source, NEW size, NEW limit \in Nat,
         ScanLines(s, size, limit)
  PROVE  row'[s] \in Checkpoint
BY ScanLinesEffect DEF Ahead, IInv, QueueInv, TypeOK

(* Whatever a scan read is in the queue afterwards, and nothing else is    *)
(* new there.                                                              *)
LEMMA InsertEvents ==
  ASSUME NEW at, Insert(at), spool \subseteq history
  PROVE  /\ \A k \in DOMAIN at : at[k] \in Events(history')
         /\ \A e \in Events(history') \ Events(history) :
              \E k \in DOMAIN at : e = at[k]
<1>1. ASSUME NEW k \in DOMAIN at PROVE at[k] \in Events(history')
  <2>1. CASE at[k] \in Events(spool)
    BY <2>1 DEF Events, Insert
  <2>2. CASE at[k] \notin Events(spool)
    <3>1. [seq |-> Place(at, k), ev |-> at[k]] \in NewRows(at)
      BY <2>2 DEF NewRows, Kept
    <3>2. [seq |-> Place(at, k), ev |-> at[k]] \in history'
      BY <3>1 DEF Insert
    <3> QED BY <3>2 DEF Events
  <2> QED BY <2>1, <2>2
<1>2. ASSUME NEW e \in Events(history') \ Events(history)
      PROVE  \E k \in DOMAIN at : e = at[k]
  <2>1. PICK r \in NewRows(at) : r.ev = e
    BY DEF Events, Insert
  <2> QED BY <2>1 DEF NewRows, Kept
<1> QED BY <1>1, <1>2

(* The checkpoint a baseline scan sets is well placed and has nothing to   *)
(* cover, also when the file has grown or was replaced since it was        *)
(* measured.                                                               *)
LEMMA ScanBaselinePlaced ==
  ASSUME IInv, NEW s \in Source, NEW stat \in Stat, Dated(s, stat),
         ScanBaseline(s, stat), UNCHANGED env
  PROVE  Placed(s, row[s])' /\ Covered(s, row[s])'
<1> DEFINE c == [offset |-> BaselineOffset(stat.size), gen |-> 0,
                 start |-> stat.size, rewrite |-> stat.rewrite]
<1>1. row[s] = NoRow /\ row'[s] = c
  BY DEF ScanBaseline, IInv, TypeOK
<1>2. /\ Len(log[s]) \in Nat /\ FileSize(s) \in Nat /\ rewrites[s] \in Nat
      /\ stat.size \in Nat /\ stat.rewrite \in Nat
  BY SizeType, RowType DEF IInv, Stat
<1>3. c.start = stat.size /\ c.offset = stat.size /\ c.rewrite = stat.rewrite
  BY DEF BaselineOffset
<1> HIDE DEF c
<1>4. Placed(s, c)
  BY <1>2, <1>3 DEF Placed, Dated
<1>5. ASSUME NEW k \in 1..Len(log[s]) PROVE ~Passed(s, c, k)
  BY <1>2, <1>3 DEF Passed, Whole
<1>6. Placed(s, row[s])'
  BY <1>1, <1>4 DEF Placed, FileSize, env
<1>7. Covered(s, row[s])'
  BY <1>1, <1>5 DEF Covered, Passed, Extracted, env
<1> QED BY <1>6, <1>7

(* The checkpoint after a scan of lines is well placed and every usage     *)
(* line before it is queued.                                               *)
LEMMA ScanLinesPlaced ==
  ASSUME IInv, CheckpointInv, NEW s \in Source, NEW size, NEW limit \in Nat,
         ScanLines(s, size, limit), UNCHANGED env
  PROVE  Placed(s, row[s])' /\ Covered(s, row[s])'
<1> DEFINE known  == row[s] # NoRow
           offset == IF known /\ ~Truncated(s, size) THEN row[s].offset ELSE 0
           start  == IF known /\ ~Truncated(s, size) THEN row[s].start ELSE 0
           rewrite == IF offset = 0 THEN rewrites[s] ELSE row[s].rewrite
           first  == offset \div 2 + 1
           last   == IF Len(log[s]) < first + limit - 1
                       THEN Len(log[s]) ELSE first + limit - 1
           usage  == {k \in first..last : Extracted(s, k) /\ Whole(k, offset)}
           c == row'[s]
<1>1. PICK at : /\ Insert(at) /\ DOMAIN at = usage
                /\ \A k \in usage : /\ at[k].src = s /\ at[k].line = k
                                   /\ at[k].rewrite = rewrites[s]
                /\ c.offset = CheckpointAfter(s, offset, first, last)
                /\ c.start = start /\ c.rewrite = rewrite
  <2> DEFINE gen0 == IF ~known THEN 0
                     ELSE row[s].gen + IF Truncated(s, size) THEN 1 ELSE 0
             genAt(restarts, k) ==
               gen0 + Cardinality({j \in restarts : j <= k})
             events(restarts) ==
               [k \in usage |->
                 [src |-> s, rewrite |-> rewrites[s], gen |-> genAt(restarts, k),
                  line |-> k, ok |-> log[s][k] = "usage"]]
             checkpoint(restarts) ==
               [offset |-> CheckpointAfter(s, offset, first, last),
                gen |-> genAt(restarts, last), start |-> start,
                rewrite |-> rewrite]
  <2>1. PICK restarts \in SUBSET {k \in usage : k > 1} :
          /\ row' = [row EXCEPT ![s] = checkpoint(restarts)]
          /\ Insert(events(restarts))
    BY DEF ScanLines
  <2>2. c = checkpoint(restarts)
    BY <2>1 DEF IInv, TypeOK
  <2> HIDE DEF usage, offset, start, rewrite, first, last, genAt, c
  <2> WITNESS events(restarts)
  <2> QED BY <2>1, <2>2
<1>2. /\ known => row[s] \in Checkpoint
      /\ Len(log[s]) \in Nat /\ rewrites[s] \in Nat
      /\ FileSize(s) \in Nat /\ FileSize(s) >= 2 * Len(log[s])
      /\ c \in Checkpoint
  BY RowType, SizeType, ScanLinesRow DEF IInv
<1>3. known => Placed(s, row[s]) /\ Covered(s, row[s])
  BY DEF CheckpointInv
<1>4. /\ offset \in Nat /\ start \in Nat /\ start <= offset
      /\ offset % 2 = 1 => start = offset
      /\ rewrite = rewrites[s] => offset <= FileSize(s)
      /\ rewrite \in Nat /\ rewrite <= rewrites[s]
  <2>1. CASE known /\ ~Truncated(s, size)
    BY <1>2, <1>3, <2>1 DEF Checkpoint, Placed, Truncated
  <2>2. CASE ~(known /\ ~Truncated(s, size))
    BY <1>2, <2>2
  <2> QED BY <2>1, <2>2
<1>5. offset # 0 => /\ known /\ start = row[s].start
                    /\ offset = row[s].offset /\ rewrite = row[s].rewrite
  OBVIOUS
<1> HIDE DEF known, offset, start, rewrite, c
<1>6. /\ first \in Nat /\ first >= 1
      /\ 2 * first > offset /\ 2 * (first - 1) <= offset
      /\ offset % 2 = 0 => 2 * (first - 1) = offset
  BY <1>4
<1>7. last \in Nat /\ last <= Len(log[s])
  BY <1>2, <1>6
<1> HIDE DEF first
<1>8. ASSUME NEW k \in usage
      PROVE  k \in Nat /\ k >= first /\ Extracted(s, k) /\ Whole(k, offset)
  <2>1. k \in first..last /\ Extracted(s, k) /\ Whole(k, offset)
    OBVIOUS
  <2> HIDE DEF last
  <2> QED BY <1>6, <1>7, <2>1
<1> HIDE DEF last
<1>9. \/ last >= first /\ c.offset = 2 * last
      \/ last < first /\ c.offset = offset
  <2>1. c.offset = IF last >= first THEN 2 * last ELSE offset
    BY <1>1 DEF CheckpointAfter
  <2>2. last >= first \/ last < first
    BY <1>6, <1>7
  <2>3. last < first => ~(last >= first)
    BY <1>6, <1>7
  <2> HIDE DEF usage, CheckpointAfter
  <2> QED BY <2>1, <2>2, <2>3
<1>10. Placed(s, row[s])'
  <2>1. /\ c.offset \in Nat /\ start <= c.offset
        /\ rewrite = rewrites[s] => c.offset <= FileSize(s)
    <3>1. CASE last >= first /\ c.offset = 2 * last
      <4>1. start <= 2 * last
        BY <1>4, <1>6, <1>7, <3>1
      <4>2. 2 * last <= FileSize(s)
        BY <1>2, <1>7
      <4> QED BY <1>7, <3>1, <4>1, <4>2
    <3>2. CASE c.offset = offset
      BY <1>4, <3>2
    <3> QED BY <1>9, <3>1, <3>2
  <2>2. c.offset % 2 = 1 => start = c.offset
    BY <1>4, <1>7, <1>9
  <2>3. Placed(s, c)
    BY <1>1, <1>4, <2>1, <2>2 DEF Placed
  <2> QED BY <2>3 DEF Placed, FileSize, env, c
<1>11. /\ \A k \in usage : at[k] \in Events(history')
       /\ \A e \in Events(history') \ Events(history) :
            \E k \in usage : e = at[k]
       /\ Events(history) \subseteq Events(history')
  <2>1. spool \subseteq history
    BY DEF IInv, QueueInv, QueueOrdered
  <2>2. Events(history) \subseteq Events(history')
    BY <1>1 DEF Insert, Events
  <2> QED BY <1>1, <2>1, <2>2, InsertEvents
<1>12. ASSUME NEW k \in 1..Len(log[s]), Passed(s, c, k), rewrite = rewrites[s]
       PROVE  \E e \in Events(history') :
                e.src = s /\ e.rewrite = rewrites[s] /\ e.line = k
  <2>0. k \in Nat /\ k >= 1 /\ k <= Len(log[s])
    BY <1>2
  <2>1. CASE 2 * k <= offset
    <3>1. offset # 0
      BY <1>4, <2>0, <2>1
    <3>2. Passed(s, row[s], k)
      BY <1>1, <1>5, <1>12, <2>1, <3>1 DEF Passed
    <3>3. Queued(s, k)
      BY <1>3, <1>5, <1>12, <3>1, <3>2 DEF Covered
    <3> QED BY <1>11, <3>3 DEF Queued
  <2>2. CASE 2 * k > offset
    <3>1. k >= first /\ k <= last
      <4>1. 2 * k <= c.offset
        BY <1>12 DEF Passed
      <4> QED BY <1>4, <1>6, <1>7, <1>9, <2>0, <2>2, <4>1
    <3>2. Whole(k, offset)
      <4>1. CASE offset % 2 = 0
        BY <1>4, <1>6, <2>0, <3>1, <4>1 DEF Whole
      <4>2. CASE offset % 2 = 1
        BY <1>1, <1>4, <1>12, <4>2 DEF Whole, Passed
      <4> QED BY <1>4, <4>1, <4>2
    <3>3. k \in usage
      BY <1>6, <1>7, <1>12, <2>0, <3>1, <3>2 DEF Passed
    <3> QED BY <1>1, <1>11, <3>3
  <2> QED BY <1>4, <2>0, <2>1, <2>2
<1>13. Covered(s, row[s])'
  BY <1>1, <1>12 DEF Covered, Passed, Queued, Extracted, env, c
<1> QED BY <1>10, <1>13

-----------------------------------------------------------------------------
(* The invariant is preserved.                                             *)
LEMMA ScanCheckpoint ==
  ASSUME IInv, CheckpointInv, NEW p \in Process, NEW s \in Source,
         PassScan(p, s) \/ ScheduledScan(p, s)
  PROVE  CheckpointInv'
<1> DEFINE stat == proc[p].stat[s]
<1>1. PICK baseline : \E limit \in Nat : Scan(s, stat, baseline, limit)
  BY ScanHeld DEF IInv
<1>2. stat \in Stat /\ Dated(s, stat)
  BY ScanHeld DEF IInv, CheckpointInv, Held, PassScan, ScheduledScan
<1>3. UNCHANGED env
  BY DEF PassScan, ScheduledScan
<1>4. \A q \in Process, u \in Source :
        Held(q, u)' => Held(q, u) /\ proc'[q].stat[u] = proc[q].stat[u]
  BY ScanDrops DEF IInv, Held
<1> HIDE DEF stat
<1>5. /\ row'[s] # NoRow
      /\ \A u \in Source : u # s => row'[u] = row[u]
      /\ Events(history) \subseteq Events(history')
  BY <1>1, <1>2, ScanRow
<1>6. Placed(s, row[s])' /\ Covered(s, row[s])'
  BY <1>1, <1>2, <1>3, ScanBaselinePlaced, ScanLinesPlaced DEF Scan
<1>7. ASSUME NEW u \in Source, u # s, row'[u] # NoRow
      PROVE  Placed(u, row[u])' /\ Covered(u, row[u])'
  <2>1. row'[u] = row[u]
    BY <1>5, <1>7
  <2>2. Placed(u, row[u]) /\ Covered(u, row[u])
    BY <1>7, <2>1 DEF CheckpointInv
  <2>3. Placed(u, row[u])'
    BY <1>3, <2>1, <2>2 DEF Placed, FileSize, env
  <2>4. Covered(u, row[u])'
    BY <1>3, <1>5, <2>1, <2>2 DEF Covered, Passed, Queued, Extracted, env
  <2> QED BY <2>3, <2>4
<1>8. ASSUME NEW q \in Process, NEW u \in Source, Held(q, u)'
      PROVE  Dated(u, proc[q].stat[u])'
  BY <1>3, <1>4, <1>8 DEF CheckpointInv, Dated, FileSize, env
<1> QED BY <1>6, <1>7, <1>8 DEF CheckpointInv

(* Files only grow within an incarnation: what was measured of one is      *)
(* still dated.                                                            *)
LEMMA CodexDated ==
  ASSUME TypeOK, NEW s \in Source, WriteHalf(s) \/ WriteRest(s) \/ Rewrite(s),
         NEW t \in Source, NEW stat \in Stat, Dated(t, stat)
  PROVE  Dated(t, stat)'
<1>1. /\ log \in [Source -> Seq(Kind)] /\ partial \in [Source -> BOOLEAN]
      /\ rewrites \in [Source -> Nat]
      /\ Len(log[t]) \in Nat /\ rewrites[t] \in Nat /\ FileSize(t) \in Nat
      /\ stat.size \in Nat /\ stat.rewrite \in Nat
  BY RowType DEF TypeOK, Stat
<1>2. CASE t # s
  <2>1. log'[t] = log[t] /\ partial'[t] = partial[t] /\ rewrites'[t] = rewrites[t]
    BY <1>1, <1>2 DEF WriteHalf, WriteRest, Rewrite
  <2> QED BY <2>1 DEF Dated, FileSize
<1>3. CASE t = s /\ Rewrite(s)
  <2>1. rewrites'[t] = rewrites[t] + 1
    BY <1>1, <1>3 DEF Rewrite
  <2> QED BY <1>1, <2>1 DEF Dated
<1>4. CASE t = s /\ (WriteHalf(s) \/ WriteRest(s))
  <2>1. rewrites'[t] = rewrites[t]
    BY <1>1, <1>4 DEF WriteHalf, WriteRest
  <2>2. FileSize(t)' \in Nat /\ FileSize(t) <= FileSize(t)'
    <3>1. CASE WriteHalf(s)
      BY <1>1, <1>4, <3>1 DEF WriteHalf, FileSize
    <3>2. CASE WriteRest(s)
      <4>1. PICK kind \in Kind : log' = [log EXCEPT ![s] = Append(@, kind)]
        BY <3>2 DEF WriteRest
      <4>2. Len(log'[t]) = Len(log[t]) + 1 /\ partial[t] /\ ~partial'[t]
        BY <1>1, <1>4, <3>2, <4>1 DEF WriteRest
      <4> QED BY <1>1, <4>2 DEF FileSize
    <3> QED BY <1>4, <3>1, <3>2
  <2> QED BY <1>1, <2>1, <2>2 DEF Dated
<1> QED BY <1>2, <1>3, <1>4

(* Appending to a file leaves its checkpoint in place; a replaced file is  *)
(* a new incarnation, of which the checkpoint says nothing.                *)
LEMMA CodexCheckpoint ==
  ASSUME IInv, CheckpointInv, NEW s \in Source,
         WriteHalf(s) \/ WriteRest(s) \/ Rewrite(s)
  PROVE  CheckpointInv'
<1>1. row' = row /\ history' = history /\ proc' = proc
  BY DEF WriteHalf, WriteRest, Rewrite, db
<1>0. ASSUME NEW p \in Process, NEW t \in Source, Held(p, t)
      PROVE  Dated(t, proc[p].stat[t])'
  <2>1. proc[p].stat[t] \in Stat /\ Dated(t, proc[p].stat[t])
    BY <1>0, ProcTypes DEF IInv, CheckpointInv, Held
  <2> QED BY <1>1, <2>1, CodexDated DEF IInv
<1> SUFFICES ASSUME NEW t \in Source, row[t] # NoRow
             PROVE  Placed(t, row[t])' /\ Covered(t, row[t])'
  BY <1>0, <1>1 DEF CheckpointInv, Held
<1>2. Placed(t, row[t]) /\ Covered(t, row[t])
  BY DEF CheckpointInv
<1>3. /\ row[t] \in Checkpoint
      /\ FileSize(t) \in Nat /\ Len(log[t]) \in Nat /\ rewrites[t] \in Nat
      /\ log[t] \in Seq(Kind)
  BY SizeType, RowType DEF IInv
<1>5. /\ log \in [Source -> Seq(Kind)]
      /\ partial \in [Source -> BOOLEAN]
      /\ rewrites \in [Source -> Nat]
  BY DEF IInv, TypeOK
<1>6. CASE WriteHalf(s)
  <2>1. /\ log' = log /\ rewrites' = rewrites /\ ~partial[s]
        /\ partial' = [partial EXCEPT ![s] = TRUE]
    BY <1>6 DEF WriteHalf
  <2>2. FileSize(t)' \in Nat /\ FileSize(t) <= FileSize(t)'
    BY <1>3, <1>5, <2>1 DEF FileSize
  <2>3. Placed(t, row[t])'
    BY <1>1, <1>2, <1>3, <2>1, <2>2 DEF Placed, Checkpoint
  <2>4. Covered(t, row[t])'
    BY <1>1, <1>2, <2>1 DEF Covered, Passed, Queued, Extracted
  <2> QED BY <2>3, <2>4
<1>7. CASE WriteRest(s)
  <2>1. /\ rewrites' = rewrites /\ partial[s]
        /\ partial' = [partial EXCEPT ![s] = FALSE]
    BY <1>7 DEF WriteRest
  <2>2. PICK kind \in Kind : log' = [log EXCEPT ![s] = Append(@, kind)]
    BY <1>7 DEF WriteRest
  <2>3. CASE t # s
    <3>1. log'[t] = log[t] /\ partial'[t] = partial[t]
      BY <1>5, <2>1, <2>2, <2>3
    <3>2. Placed(t, row[t])'
      BY <1>1, <1>2, <2>1, <3>1 DEF Placed, FileSize
    <3>3. Covered(t, row[t])'
      BY <1>1, <1>2, <2>1, <3>1 DEF Covered, Passed, Queued, Extracted
    <3> QED BY <3>2, <3>3
  <2>4. CASE t = s
    <3>1. /\ log'[t] = Append(log[t], kind)
          /\ Len(log'[t]) = Len(log[t]) + 1
          /\ \A k \in 1..Len(log[t]) : log'[t][k] = log[t][k]
      BY <1>3, <1>5, <2>2, <2>4
    <3>2. FileSize(t) = 2 * Len(log[t]) + 1
      BY <1>3, <2>1, <2>4 DEF FileSize
    <3>3. FileSize(t)' = 2 * Len(log[t]) + 2
      BY <1>3, <1>5, <2>1, <2>4, <3>1 DEF FileSize
    <3>4. Placed(t, row[t])'
      BY <1>1, <1>2, <1>3, <2>1, <3>2, <3>3 DEF Placed, Checkpoint
    <3>5. ASSUME NEW k \in 1..Len(log'[t]), row[t].rewrite = rewrites[t],
                 log'[t][k] \in {"usage", "invalid"},
                 Whole(k, row[t].start), 2 * k <= row[t].offset
          PROVE  Queued(t, k)
      <4>1. row[t].offset \in Nat /\ row[t].offset <= 2 * Len(log[t]) + 1
        BY <1>2, <1>3, <3>2, <3>5 DEF Placed, Checkpoint
      <4>2. k \in 1..Len(log[t])
        BY <1>3, <3>1, <3>5, <4>1
      <4>3. Passed(t, row[t], k)
        BY <3>1, <3>5, <4>2 DEF Passed, Extracted
      <4> QED BY <1>2, <3>5, <4>2, <4>3 DEF Covered
    <3>6. Covered(t, row[t])'
      BY <1>1, <2>1, <3>5 DEF Covered, Passed, Queued, Extracted, Whole
    <3> QED BY <3>4, <3>6
  <2> QED BY <2>3, <2>4
<1>8. CASE Rewrite(s)
  <2>1. /\ log' = [log EXCEPT ![s] = <<>>]
        /\ partial' = [partial EXCEPT ![s] = FALSE]
        /\ rewrites' = [rewrites EXCEPT ![s] = @ + 1]
    BY <1>8 DEF Rewrite
  <2>2. CASE t # s
    <3>1. log'[t] = log[t] /\ partial'[t] = partial[t] /\ rewrites'[t] = rewrites[t]
      BY <1>5, <2>1, <2>2
    <3>2. Placed(t, row[t])'
      BY <1>1, <1>2, <3>1 DEF Placed, FileSize
    <3>3. Covered(t, row[t])'
      BY <1>1, <1>2, <3>1 DEF Covered, Passed, Queued, Extracted
    <3> QED BY <3>2, <3>3
  <2>3. CASE t = s
    <3>1. rewrites'[t] = rewrites[t] + 1
      BY <1>5, <2>1, <2>3
    <3>2. row[t].rewrite \in Nat /\ row[t].rewrite <= rewrites[t]
      BY <1>2, <1>3 DEF Placed, Checkpoint
    <3>3. row[t].rewrite # rewrites'[t] /\ row[t].rewrite <= rewrites'[t]
      BY <1>3, <3>1, <3>2
    <3> QED BY <1>1, <1>2, <3>3 DEF Placed, Covered
  <2> QED BY <2>2, <2>3
<1> QED BY <1>6, <1>7, <1>8

(* A backfill moves checkpoints to the top, where they cover nothing.      *)
LEMMA BackfillCheckpoint ==
  ASSUME IInv, CheckpointInv, NEW p \in Process, Backfill(p)
  PROVE  CheckpointInv'
<1>1. log' = log /\ partial' = partial /\ rewrites' = rewrites /\ history' = history
  BY DEF Backfill, env
<1>0. \A q \in Process : proc'[q].stat = proc[q].stat
  <2>1. proc \in [Process -> ProcState]
    BY DEF IInv, TypeOK
  <2> QED BY <2>1 DEF Backfill, ProcState
<1> SUFFICES ASSUME NEW s \in Source, row'[s] # NoRow
             PROVE  Placed(s, row[s])' /\ Covered(s, row[s])'
  BY <1>0, <1>1 DEF CheckpointInv, Held, Dated, FileSize
<1>2. row[s] # NoRow
  BY DEF Backfill
<1>3. /\ row[s] \in Checkpoint
      /\ FileSize(s) \in Nat /\ Len(log[s]) \in Nat /\ rewrites[s] \in Nat
  BY <1>2, SizeType, RowType DEF IInv
<1>4. row'[s].offset = 0 /\ row'[s].start = 0 /\ row'[s].rewrite = row[s].rewrite
  <2>1. row'[s] = [row[s] EXCEPT !.offset = 0, !.gen = @ + 1, !.start = 0]
    BY <1>2 DEF Backfill
  <2> QED BY <1>3, <2>1 DEF Checkpoint
<1>5. Placed(s, row[s])
  BY <1>2 DEF CheckpointInv
<1>6. Placed(s, row[s])'
  <2>1. FileSize(s)' = FileSize(s)
    BY <1>1 DEF FileSize
  <2> QED BY <1>1, <1>3, <1>4, <1>5, <2>1 DEF Placed
<1>7. Covered(s, row[s])'
  <2>1. \A k \in 1..Len(log[s]) : ~(2 * k <= row'[s].offset)
    BY <1>3, <1>4
  <2> QED BY <1>1, <2>1 DEF Covered, Passed
<1> QED BY <1>6, <1>7

(* A step that changes neither files nor checkpoints nor the queue's       *)
(* history, and measures nothing, preserves the invariant.                 *)
LEMMA SameCheckpoint ==
  ASSUME CheckpointInv, UNCHANGED <<env, row, history>>,
         \A p \in Process, s \in Source :
           Held(p, s)' => Held(p, s) /\ proc'[p].stat[s] = proc[p].stat[s]
  PROVE  CheckpointInv'
<1>1. \A s \in Source :
        row'[s] # NoRow => Placed(s, row[s])' /\ Covered(s, row[s])'
  BY DEF CheckpointInv, Placed, Covered, Passed, Queued, Extracted, FileSize, env
<1>2. \A p \in Process, s \in Source :
        Held(p, s)' => Dated(s, proc[p].stat[s])'
  BY DEF CheckpointInv, Dated, FileSize, env
<1> QED BY <1>1, <1>2 DEF CheckpointInv

(* Which measurements a process holds after a step that is no scan.        *)
LEMMA StatKept ==
  ASSUME TypeOK, NEW p \in Process,
         \/ Start(p) \/ Backfill(p) \/ BeginPass(p) \/ EndPass(p)
         \/ AbortPass(p) \/ ScanFails(p) \/ Stop(p)
  PROVE  \A q \in Process, s \in Source :
           Held(q, s)' => Held(q, s) /\ proc'[q].stat[s] = proc[q].stat[s]
<1>1. proc \in [Process -> ProcState] /\ proc[p] \in ProcState
  BY DEF TypeOK
<1>2. PICK c : /\ proc' = [proc EXCEPT ![p] = c]
               /\ c.stat = AtRest \/ c.stat = proc[p].stat
  <2>1. CASE Start(p)
    BY <2>1 DEF Start, Off
  <2>2. CASE Backfill(p)
    <3>1. /\ proc' = [proc EXCEPT ![p] = [proc[p] EXCEPT !.pc = "relist"]]
          /\ [proc[p] EXCEPT !.pc = "relist"].stat = proc[p].stat
      BY <1>1, <2>2 DEF Backfill, ProcState
    <3> QED BY <3>1
  <2>3. CASE BeginPass(p)
    <3>1. PICK baseline, todo : proc' = [proc EXCEPT ![p] =
                      [Off EXCEPT !.pc = "pass", !.todo = todo,
                                  !.baseline = baseline]]
      BY <2>3 DEF BeginPass
    <3>2. [Off EXCEPT !.pc = "pass", !.todo = todo, !.baseline = baseline].stat
            = AtRest
      BY DEF Off
    <3> QED BY <3>1, <3>2
  <2>4. CASE EndPass(p) \/ AbortPass(p) \/ Stop(p)
    BY <2>4 DEF EndPass, AbortPass, Stop, Off
  <2>5. CASE ScanFails(p)
    <3>1. /\ proc' = [proc EXCEPT ![p] = [proc[p] EXCEPT !.stat = AtRest]]
          /\ [proc[p] EXCEPT !.stat = AtRest].stat = AtRest
      BY <1>1, <2>5 DEF ScanFails, ProcState
    <3> QED BY <3>1
  <2> QED BY <2>1, <2>2, <2>3, <2>4, <2>5
<1>3. \A s \in Source : AtRest[s] = NoStat
  BY DEF AtRest
<1> QED BY <1>1, <1>2, <1>3 DEF Held

(* What StatFile measures.                                                 *)
LEMMA StatTaken ==
  ASSUME TypeOK, NEW p \in Process, NEW s \in Source, StatFile(p, s)
  PROVE  /\ Measured(s) \in Stat
         /\ \A q \in Process, u \in Source :
              proc'[q].stat[u] = IF q = p /\ u = s THEN Measured(s)
                                                  ELSE proc[q].stat[u]
         /\ \A q \in Process : /\ proc'[q].pc = proc[q].pc
                               /\ proc'[q].baseline = proc[q].baseline
                               /\ proc'[q].todo = proc[q].todo
         /\ proc[p].pc \in {"pass", "run"}
<1>1. proc \in [Process -> ProcState] /\ proc[p] \in ProcState
  BY DEF TypeOK
<1>2. Measured(s) \in Stat
  BY RowType DEF Measured, Stat
<1>3. proc' = [proc EXCEPT ![p].stat[s] = Measured(s)]
  BY DEF StatFile
<1>4. proc[p].stat \in [Source -> Stat \cup {NoStat}]
  BY <1>1 DEF ProcState
<1> HIDE DEF Measured
<1>5. /\ proc'[p].stat = [proc[p].stat EXCEPT ![s] = Measured(s)]
      /\ proc'[p].pc = proc[p].pc
      /\ proc'[p].baseline = proc[p].baseline
      /\ proc'[p].todo = proc[p].todo
      /\ \A q \in Process : q # p => proc'[q] = proc[q]
  BY <1>1, <1>3 DEF ProcState
<1>6. \A u \in Source :
        proc'[p].stat[u] = IF u = s THEN Measured(s) ELSE proc[p].stat[u]
  BY <1>4, <1>5
<1> QED BY <1>2, <1>5, <1>6 DEF StatFile

(* Measuring a file preserves the invariant.                               *)
LEMMA StatCheckpoint ==
  ASSUME IInv, CheckpointInv, NEW p \in Process, NEW s \in Source,
         StatFile(p, s)
  PROVE  CheckpointInv'
<1>1. UNCHANGED <<log, partial, rewrites, row, history>>
  BY DEF StatFile, env, db
<1>2. \A u \in Source :
        row'[u] # NoRow => Placed(u, row[u])' /\ Covered(u, row[u])'
  BY <1>1 DEF CheckpointInv, Placed, Covered, Passed, Queued, Extracted, FileSize
<1>3. ASSUME NEW q \in Process, NEW u \in Source, Held(q, u)'
      PROVE  Dated(u, proc[q].stat[u])'
  <2>1. CASE q = p /\ u = s
    <3>1. proc'[q].stat[u] = Measured(s)
      BY <2>1, StatTaken DEF IInv
    <3>2. Measured(s).rewrite = rewrites[s] /\ Measured(s).size = FileSize(s)
      BY DEF Measured
    <3>3. FileSize(s)' = FileSize(s) /\ FileSize(s) \in Nat /\ rewrites[s] \in Nat
      BY <1>1, RowType DEF FileSize, IInv
    <3> QED BY <1>1, <2>1, <3>1, <3>2, <3>3 DEF Dated
  <2>2. CASE ~(q = p /\ u = s)
    <3>1. proc'[q].stat[u] = proc[q].stat[u]
      BY <2>2, StatTaken DEF IInv
    <3>2. Dated(u, proc[q].stat[u])
      BY <1>3, <3>1 DEF CheckpointInv, Held
    <3> QED BY <1>1, <3>1, <3>2 DEF Dated, FileSize
  <2> QED BY <2>1, <2>2
<1> QED BY <1>2, <1>3 DEF CheckpointInv

(* Every step preserves the checkpoint invariant.                          *)
LEMMA NextCheckpoint == IInv /\ CheckpointInv /\ [Next]_vars => CheckpointInv'
<1> SUFFICES ASSUME IInv, CheckpointInv, [Next]_vars PROVE CheckpointInv'
  OBVIOUS
<1>1. CASE Codex
  BY <1>1, CodexCheckpoint DEF Codex
<1>2. CASE Agent
  <2>1. ASSUME NEW p \in Process, NEW s \in Source,
               PassScan(p, s) \/ ScheduledScan(p, s)
        PROVE  CheckpointInv'
    BY <2>1, ScanCheckpoint
  <2>2. ASSUME NEW p \in Process,
               \/ Start(p) \/ BeginPass(p) \/ EndPass(p) \/ AbortPass(p)
               \/ ScanFails(p) \/ Stop(p)
        PROVE  CheckpointInv'
    <3>1. UNCHANGED <<env, row, history>>
      BY <2>2 DEF Start, BeginPass, EndPass, AbortPass, ScanFails, Stop, db
    <3> QED BY <2>2, <3>1, StatKept, SameCheckpoint DEF IInv
  <2>3. ASSUME NEW p \in Process, ReadBatch(p) \/ DeleteAcked(p) \/ Fail(p)
        PROVE  CheckpointInv'
    <3>1. UNCHANGED <<env, row, history, proc>>
      BY <2>3 DEF ReadBatch, DeleteAcked, Fail, db
    <3> QED BY <3>1, SameCheckpoint DEF Held
  <2>4. ASSUME NEW p \in Process, NEW s \in Source, StatFile(p, s)
        PROVE  CheckpointInv'
    BY <2>4, StatCheckpoint
  <2> QED BY <1>2, <2>1, <2>2, <2>3, <2>4, BackfillCheckpoint DEF Agent
<1>3. CASE Server
  <2>1. UNCHANGED <<env, row, history, proc>>
    BY <1>3 DEF Server, Commit, LateCommit, LateDrop, db
  <2> QED BY <2>1, SameCheckpoint DEF Held
<1>4. CASE UNCHANGED vars
  BY <1>4, SameCheckpoint DEF vars, db, Held
<1> QED BY <1>1, <1>2, <1>3, <1>4 DEF Next

(* In every reachable state checkpoints are well placed and everything     *)
(* before them was queued: scanOneTx moves a checkpoint only in the        *)
(* transaction that queues what it passes.                                 *)
THEOREM CheckpointInvariance == Spec => [](IInv /\ CheckpointInv)
<1>1. Init => CheckpointInv
  BY DEF Init, CheckpointInv, Held, Off, AtRest
<1> QED BY <1>1, InitIInv, NextIInv, NextCheckpoint, PTL DEF Spec

(* The checkpoint and the queued lines move together (one transaction in   *)
(* scanOne): no crash, late answer or second process leaves a line behind  *)
(* the checkpoint that is neither in the spool nor at the server.          *)
THEOREM NothingSkipped == Spec => []CheckpointCovered
<1>1. ASSUME IInv, CheckpointInv PROVE CheckpointCovered
  <2>1. Events(history) \subseteq Events(spool) \cup ingested
    BY <1>1 DEF IInv, QueueInv, NoQueuedEventLost, Events
  <2> QED BY <1>1, <2>1 DEF CheckpointInv, CheckpointCovered, Covered, Passed, Queued
<1> QED BY <1>1, CheckpointInvariance, PTL

-----------------------------------------------------------------------------
(* How often a line is queued.  The invariant counts what has sent the     *)
(* checkpoint of a file back, backfills and misreads: a line ahead of the  *)
(* checkpoint was queued no more often than that, a line behind it once    *)
(* more, and of an incarnation to come nothing was queued.                 *)

Copies(s, w, k) ==
  {d \in Events(history) : d.src = s /\ d.rewrite = w /\ d.line = k}

Rewinding == {p \in Process : proc[p].pc = "backfill"}

Rewound(s) == backfills - Cardinality(Rewinding) + misreads[s]

AtMost(S, n) == IsFiniteSet(S) /\ Cardinality(S) <= n

CopiesOf(s, w, k) ==
  /\ AtMost(Copies(s, w, k), Rewound(s) + 1)
  /\ w = rewrites[s] /\ 2 * k > row[s].offset
       => AtMost(Copies(s, w, k), Rewound(s))
  /\ w > rewrites[s] => Copies(s, w, k) = {}

CopiesInv ==
  /\ AtMost(Rewinding, backfills)
  /\ \A s \in Source, w \in Nat, k \in Nat \ {0} : CopiesOf(s, w, k)

(* A set with at most n members gains at most one when its new members are *)
(* all the same, and loses none of its bound when it shrinks.              *)
LEMMA OneMore ==
  ASSUME NEW n \in Int, NEW S, AtMost(S, n), NEW T, NEW x, T \subseteq S \cup {x}
  PROVE  AtMost(T, n + 1)
<1>0. IsFiniteSet(S) /\ Cardinality(S) \in Nat
  BY FS_CardinalityType DEF AtMost
<1>1. /\ IsFiniteSet(S \cup {x})
      /\ Cardinality(S \cup {x}) \in Nat
      /\ Cardinality(S \cup {x}) <= Cardinality(S) + 1
  <2>1. /\ IsFiniteSet(S \cup {x})
        /\ Cardinality(S \cup {x})
             = IF x \in S THEN Cardinality(S) ELSE Cardinality(S) + 1
    BY <1>0, FS_AddElement
  <2> QED BY <1>0, <2>1
<1>2. /\ IsFiniteSet(T) /\ Cardinality(T) \in Nat
      /\ Cardinality(T) <= Cardinality(S \cup {x})
  BY <1>1, FS_Subset, FS_CardinalityType
<1> QED BY <1>0, <1>1, <1>2 DEF AtMost

(* Fewer members, or a larger bound.                                       *)
LEMMA NoMore ==
  ASSUME NEW n \in Int, NEW m \in Int, n <= m,
         NEW S, AtMost(S, n), NEW T, T \subseteq S
  PROVE  AtMost(T, m)
<1>1. /\ IsFiniteSet(T) /\ Cardinality(T) \in Nat /\ Cardinality(S) \in Nat
      /\ Cardinality(T) <= Cardinality(S)
  BY FS_Subset, FS_CardinalityType DEF AtMost
<1> QED BY <1>1 DEF AtMost

(* What has sent a checkpoint back is a natural number of events.          *)
LEMMA RewoundType ==
  ASSUME TypeOK, CopiesInv, NEW s \in Source
  PROVE  /\ Rewound(s) \in Nat
         /\ AtMost({}, Rewound(s)) /\ AtMost({}, Rewound(s) + 1)
<1>1. Cardinality(Rewinding) \in Nat /\ Cardinality(Rewinding) <= backfills
  BY FS_CardinalityType DEF CopiesInv, AtMost
<1>2. backfills \in Nat /\ misreads[s] \in Nat
  BY DEF TypeOK
<1>3. Rewound(s) \in Nat
  BY <1>1, <1>2 DEF Rewound
<1> QED BY <1>3, FS_EmptySet DEF AtMost

(* What a scan queues: for each line between the place where it begins and *)
(* the new checkpoint at most one event, of the present incarnation, and   *)
(* perhaps the baseline event, which is of no line.                        *)
Reads(s, size, at, from) ==
  /\ Insert(at)
  /\ row[s] # NoRow /\ ~Truncated(s, size) => from = row[s].offset
  /\ from <= row'[s].offset /\ row'[s].offset \in Nat
  /\ \A j \in DOMAIN at :
       /\ at[j].src = s /\ at[j].rewrite = rewrites[s]
       /\ \/ at[j].line = 0
          \/ at[j].line = j /\ 2 * j > from /\ 2 * j <= row'[s].offset

(* Where a scan of lines begins, and what it makes of the checkpoint: it   *)
(* reads on, or starts anew at the top of the file that is there.          *)
Begins(s, size, at, from) ==
  LET on == row[s] # NoRow /\ ~Truncated(s, size)
  IN  /\ from = IF on THEN row[s].offset ELSE 0
      /\ row'[s].start = IF on THEN row[s].start ELSE 0
      /\ row'[s].rewrite = IF from = 0 THEN rewrites[s] ELSE row[s].rewrite
      /\ row'[s].offset = from \/ row'[s].offset <= FileSize(s)
      /\ \A j \in DOMAIN at : at[j].line \in Nat /\ Whole(at[j].line, from)

(* A scan of lines begins at the checkpoint, or at the top.                *)
LEMMA ScanLinesReads ==
  ASSUME IInv, NEW s \in Source, NEW size, NEW limit \in Nat,
         ScanLines(s, size, limit)
  PROVE  \E at : \E from \in Nat :
           Reads(s, size, at, from) /\ Begins(s, size, at, from)
<1> DEFINE known  == row[s] # NoRow
           offset == IF known /\ ~Truncated(s, size) THEN row[s].offset ELSE 0
           start  == IF known /\ ~Truncated(s, size) THEN row[s].start ELSE 0
           rewrite == IF offset = 0 THEN rewrites[s] ELSE row[s].rewrite
           first  == offset \div 2 + 1
           last   == IF Len(log[s]) < first + limit - 1
                       THEN Len(log[s]) ELSE first + limit - 1
           usage  == {k \in first..last : Extracted(s, k) /\ Whole(k, offset)}
           c == row'[s]
<1>1. PICK at : /\ Insert(at) /\ DOMAIN at = usage
                /\ \A k \in usage : /\ at[k].src = s /\ at[k].line = k
                                   /\ at[k].rewrite = rewrites[s]
                /\ c.offset = CheckpointAfter(s, offset, first, last)
                /\ c.start = start /\ c.rewrite = rewrite
  <2> DEFINE gen0 == IF ~known THEN 0
                     ELSE row[s].gen + IF Truncated(s, size) THEN 1 ELSE 0
             genAt(restarts, k) ==
               gen0 + Cardinality({j \in restarts : j <= k})
             events(restarts) ==
               [k \in usage |->
                 [src |-> s, rewrite |-> rewrites[s], gen |-> genAt(restarts, k),
                  line |-> k, ok |-> log[s][k] = "usage"]]
             checkpoint(restarts) ==
               [offset |-> CheckpointAfter(s, offset, first, last),
                gen |-> genAt(restarts, last), start |-> start,
                rewrite |-> rewrite]
  <2>1. PICK restarts \in SUBSET {k \in usage : k > 1} :
          /\ row' = [row EXCEPT ![s] = checkpoint(restarts)]
          /\ Insert(events(restarts))
    BY DEF ScanLines
  <2>2. c = checkpoint(restarts)
    BY <2>1 DEF IInv, TypeOK
  <2> HIDE DEF usage, offset, start, rewrite, first, last, genAt, c
  <2> WITNESS events(restarts)
  <2> QED BY <2>1, <2>2
<1>2. /\ known => row[s] \in Checkpoint
      /\ Len(log[s]) \in Nat /\ FileSize(s) \in Nat
      /\ FileSize(s) >= 2 * Len(log[s])
  BY RowType, SizeType DEF IInv
<1>3. offset \in Nat
  <2>1. CASE known /\ ~Truncated(s, size)
    BY <1>2, <2>1 DEF Checkpoint
  <2>2. CASE ~(known /\ ~Truncated(s, size))
    BY <2>2
  <2> QED BY <2>1, <2>2
<1>4. /\ offset = IF row[s] # NoRow /\ ~Truncated(s, size)
                    THEN row[s].offset ELSE 0
      /\ start = IF row[s] # NoRow /\ ~Truncated(s, size)
                   THEN row[s].start ELSE 0
      /\ rewrite = IF offset = 0 THEN rewrites[s] ELSE row[s].rewrite
  OBVIOUS
<1> HIDE DEF known, offset, start, rewrite, c
<1>5. first \in Nat /\ 2 * first > offset
  BY <1>3
<1> HIDE DEF first
<1>6. last \in Int /\ last <= Len(log[s])
  BY <1>2, <1>5
<1> HIDE DEF last
<1>7. \/ last >= first /\ c.offset = 2 * last
      \/ last < first /\ c.offset = offset
  <2>1. last >= first \/ (last < first /\ ~(last >= first))
    BY <1>5, <1>6
  <2> HIDE DEF usage
  <2> QED BY <1>1, <2>1 DEF CheckpointAfter
<1>8. /\ offset <= c.offset /\ c.offset \in Nat
      /\ c.offset = offset \/ c.offset <= FileSize(s)
  <2> HIDE DEF usage
  <2> QED BY <1>2, <1>3, <1>5, <1>6, <1>7
<1>9. ASSUME NEW k \in usage
      PROVE  /\ k \in Nat /\ 2 * k > offset /\ 2 * k <= c.offset
             /\ Whole(k, offset)
  <2>1. k \in first..last /\ Whole(k, offset)
    OBVIOUS
  <2> HIDE DEF usage
  <2>2. k \in Nat /\ k >= first /\ k <= last
    BY <1>5, <1>6, <2>1
  <2>3. 2 * k > offset /\ 2 * k <= c.offset
    BY <1>3, <1>5, <1>6, <1>7, <2>2
  <2> QED BY <2>1, <2>2, <2>3
<1> HIDE DEF usage
<1>10. row'[s] = c
  BY DEF c
<1>11. Reads(s, size, at, offset)
  BY <1>1, <1>4, <1>8, <1>9, <1>10 DEF Reads
<1>12. Begins(s, size, at, offset)
  BY <1>1, <1>4, <1>8, <1>9, <1>10 DEF Begins
<1> QED BY <1>3, <1>11, <1>12

(* The same of any scan; a baseline event is of no line.                   *)
LEMMA ScanReads ==
  ASSUME IInv, NEW s \in Source, NEW stat \in Stat, NEW baseline,
         NEW limit \in Nat,
         Scan(s, stat, baseline, limit)
  PROVE  \E at : \E from \in Nat : Reads(s, stat.size, at, from)
<1>1. CASE ScanBaseline(s, stat)
  <2>1. PICK at : /\ Insert(at)
                  /\ \A j \in DOMAIN at : /\ at[j].line = 0 /\ at[j].src = s
                                         /\ at[j].rewrite = rewrites[s]
    BY <1>1 DEF ScanBaseline
  <2>2. row[s] = NoRow /\ row'[s].offset = stat.size
    BY <1>1 DEF ScanBaseline, BaselineOffset, IInv, TypeOK
  <2>3. stat.size \in Nat
    BY DEF Stat
  <2>4. Reads(s, stat.size, at, 0)
    BY <2>1, <2>2, <2>3 DEF Reads
  <2> QED BY <2>4
<1>2. CASE ScanLines(s, stat.size, limit)
  BY <1>2, ScanLinesReads
<1> QED BY <1>1, <1>2 DEF Scan

(* A scan queues a line it passes once, and no other line.                 *)
LEMMA ScanCopies ==
  ASSUME IInv, CopiesInv, NEW s \in Source, NEW stat \in Stat, NEW baseline,
         NEW limit \in Nat,
         Scan(s, stat, baseline, limit), UNCHANGED env,
         Rewinding' = Rewinding, backfills' = backfills
  PROVE  CopiesInv'
<1> DEFINE more == IF Misread(s, stat.size) THEN 1 ELSE 0
<1>1. /\ \A t \in Source : t # s => row'[t] = row[t]
      /\ row'[s] # NoRow
      /\ Events(history) \subseteq Events(history')
      /\ \A e \in Events(history') \ Events(history) : e.src = s
  BY ScanRow
<1>2. /\ log' = log /\ partial' = partial /\ rewrites' = rewrites
      /\ backfills - Cardinality(Rewinding) \in Int
      /\ Rewound(s) \in Nat
      /\ Rewound(s)' = Rewound(s) + more
      /\ \A t \in Source : t # s => Rewound(t)' = Rewound(t)
  <2>1. /\ misreads \in [Source -> Nat] /\ backfills \in Nat
        /\ misreads' = [misreads EXCEPT ![s] = @ + more]
    BY DEF IInv, TypeOK, Scan
  <2>2. Cardinality(Rewinding) \in Nat
    BY FS_CardinalityType DEF CopiesInv, AtMost
  <2>3. more \in Nat
    OBVIOUS
  <2> HIDE DEF more
  <2>4. /\ misreads'[s] = misreads[s] + more
        /\ \A t \in Source : t # s => misreads'[t] = misreads[t]
        /\ misreads[s] \in Nat
    BY <2>1
  <2>5. Rewound(s) \in Nat
    BY RewoundType DEF IInv
  <2> QED BY <2>1, <2>2, <2>3, <2>4, <2>5 DEF env, Rewound
<1>3. AtMost({}, Rewound(s)) /\ AtMost({}, Rewound(s) + 1)
  BY RewoundType DEF IInv
<1> SUFFICES ASSUME NEW t \in Source, NEW w \in Nat, NEW k \in Nat \ {0}
             PROVE  CopiesOf(t, w, k)'
  BY DEF CopiesInv, AtMost
<1>4. CopiesOf(t, w, k)
  BY DEF CopiesInv
<1>5. CASE t # s
  <2>1. Copies(t, w, k)' = Copies(t, w, k)
    BY <1>1, <1>5 DEF Copies
  <2>2. row'[t] = row[t] /\ Rewound(t)' = Rewound(t)
    BY <1>1, <1>2, <1>5
  <2> QED BY <1>2, <1>4, <2>1, <2>2 DEF CopiesOf
<1>6. CASE t = s
  <2>0. PICK at : \E from \in Nat : Reads(s, stat.size, at, from)
    BY ScanReads
  <2>1. PICK from \in Nat : Reads(s, stat.size, at, from)
    BY <2>0
  <2>2. \A e \in Events(history') \ Events(history) : \E j \in DOMAIN at : e = at[j]
    BY <2>1, InsertEvents DEF Reads, IInv, QueueInv, QueueOrdered
  <2>3. w = rewrites[s] /\ 2 * k > from => AtMost(Copies(s, w, k), Rewound(s)')
    <3>1. CASE row[s] = NoRow
      <4>1. Copies(s, w, k) = {}
        BY <3>1 DEF IInv, QueueInv, Unread, Copies
      <4>2. Rewound(s)' = Rewound(s)
        BY <1>2, <3>1 DEF Misread, Truncated
      <4> QED BY <1>3, <4>1, <4>2
    <3>2. CASE Misread(s, stat.size)
      BY <1>2, <1>4, <1>6, <3>2 DEF CopiesOf
    <3>3. CASE Truncated(s, stat.size) /\ ~Misread(s, stat.size)
      <4>1. w = rewrites[s] => Copies(s, w, k) = {}
        BY <3>3 DEF Misread, Truncated, Copies
      <4>2. Rewound(s)' = Rewound(s)
        BY <1>2, <3>3
      <4> QED BY <1>3, <4>1, <4>2
    <3>4. CASE row[s] # NoRow /\ ~Truncated(s, stat.size)
      <4>1. Rewound(s)' = Rewound(s)
        BY <1>2, <3>4 DEF Misread, Truncated
      <4> QED BY <1>4, <1>6, <2>1, <3>4, <4>1 DEF CopiesOf, Reads
    <3> QED BY <3>1, <3>2, <3>3, <3>4
  <2>4. /\ Rewound(s)' \in Nat /\ Rewound(s) <= Rewound(s)'
        /\ Rewound(s) + 1 <= Rewound(s)' + 1
    BY <1>2
  <2>5. CASE Copies(s, w, k)' = Copies(s, w, k)
    <3>1. w = rewrites[s] /\ 2 * k > row'[s].offset => 2 * k > from
      BY <2>1 DEF Reads
    <3>2. AtMost(Copies(s, w, k), Rewound(s)' + 1)
      <4>1. /\ AtMost(Copies(s, w, k), Rewound(s) + 1)
            /\ Rewound(s) + 1 \in Int /\ Rewound(s)' + 1 \in Int
        BY <1>2, <1>4, <1>6, <2>4 DEF CopiesOf
      <4> HIDE DEF Copies, AtMost
      <4> QED BY <2>4, <4>1, NoMore
    <3> QED BY <1>2, <1>4, <1>6, <2>3, <2>5, <3>1, <3>2 DEF CopiesOf
  <2>6. CASE Copies(s, w, k)' # Copies(s, w, k)
    <3>1. Copies(s, w, k) \subseteq Copies(s, w, k)'
      BY <1>1 DEF Copies
    <3>2. PICK d \in Copies(s, w, k)' : d \notin Copies(s, w, k)
      BY <2>6, <3>1
    <3>3. \A e \in Copies(s, w, k)' :
            e \notin Copies(s, w, k) => k \in DOMAIN at /\ e = at[k]
      <4> SUFFICES ASSUME NEW e \in Copies(s, w, k)', e \notin Copies(s, w, k)
                   PROVE  k \in DOMAIN at /\ e = at[k]
        OBVIOUS
      <4>1. e \in Events(history') \ Events(history) /\ e.line = k
        BY DEF Copies
      <4>2. PICK j \in DOMAIN at : e = at[j]
        BY <2>2, <4>1
      <4>3. at[j].line = 0 \/ at[j].line = j
        BY <2>1 DEF Reads
      <4> QED BY <4>1, <4>2, <4>3
    <3>4. k \in DOMAIN at /\ d = at[k] /\ d.line = k /\ d.rewrite = w
      BY <3>2, <3>3 DEF Copies
    <3>5. w = rewrites[s] /\ 2 * k > from /\ 2 * k <= row'[s].offset
      BY <2>1, <3>4 DEF Reads
    <3>6. Copies(s, w, k)' \subseteq Copies(s, w, k) \cup {d}
      BY <3>3, <3>4
    <3>7. AtMost(Copies(s, w, k)', Rewound(s)' + 1)
      <4>1. AtMost(Copies(s, w, k), Rewound(s)') /\ Rewound(s)' \in Int
        BY <2>3, <2>4, <3>5
      <4> HIDE DEF Copies, AtMost
      <4> QED BY <3>6, <4>1, OneMore
    <3>8. AtMost(Copies(s, w, k), Rewound(s) + 1)'
      BY <3>7 DEF AtMost
    <3>9. rewrites[s] \in Nat
      BY RowType DEF IInv
    <3>10. row'[s].offset \in Nat
      BY <2>1 DEF Reads
    <3>11. ~(w > rewrites[s]) /\ ~(2 * k > row'[s].offset)
      BY <3>5, <3>9, <3>10
    <3> QED BY <1>2, <1>6, <3>8, <3>11 DEF CopiesOf
  <2> QED BY <2>5, <2>6
<1> QED BY <1>5, <1>6

(* Codex appends to a file, which queues nothing, or replaces it, which    *)
(* begins an incarnation nothing was queued of.                            *)
LEMMA CodexCopies ==
  ASSUME IInv, CopiesInv, NEW s \in Source,
         WriteHalf(s) \/ WriteRest(s) \/ Rewrite(s)
  PROVE  CopiesInv'
<1>1. UNCHANGED <<row, history, proc, backfills, misreads>>
  BY DEF WriteHalf, WriteRest, Rewrite, db, tally
<1>2. Rewinding' = Rewinding /\ \A t \in Source : Rewound(t)' = Rewound(t)
  BY <1>1 DEF Rewinding, Rewound
<1> SUFFICES ASSUME NEW t \in Source, NEW w \in Nat, NEW k \in Nat \ {0}
             PROVE  CopiesOf(t, w, k)'
  BY <1>1, <1>2 DEF CopiesInv, AtMost
<1>3. CopiesOf(t, w, k)
  BY DEF CopiesInv
<1>4. Copies(t, w, k)' = Copies(t, w, k)
  BY <1>1 DEF Copies
<1>5. rewrites[t] \in Nat /\ rewrites \in [Source -> Nat]
  BY RowType DEF IInv, TypeOK
<1>6. CASE rewrites'[t] = rewrites[t]
  BY <1>1, <1>2, <1>3, <1>4, <1>6 DEF CopiesOf
<1>7. CASE rewrites'[t] # rewrites[t]
  <2>1. rewrites'[t] = rewrites[t] + 1
    BY <1>5, <1>7 DEF WriteHalf, WriteRest, Rewrite
  <2>2. w >= rewrites'[t] => Copies(t, w, k) = {}
    BY <1>3, <1>5, <2>1 DEF CopiesOf
  <2>3. w = rewrites'[t] \/ w > rewrites'[t] => w >= rewrites'[t]
    BY <1>5, <2>1
  <2>4. AtMost({}, Rewound(t))
    BY RewoundType DEF IInv
  <2> QED BY <1>2, <1>3, <1>4, <2>2, <2>3, <2>4 DEF CopiesOf
<1> QED BY <1>6, <1>7

(* A backfill sends every checkpoint back to the top, and each line may be *)
(* queued once more.                                                       *)
LEMMA BackfillCopies ==
  ASSUME IInv, CopiesInv, NEW p \in Process, Backfill(p)
  PROVE  CopiesInv'
<1>1. UNCHANGED <<rewrites, history, backfills, misreads>>
  BY DEF Backfill, env, tally
<1>2. AtMost(Rewinding, backfills) /\ backfills \in Nat
  BY DEF CopiesInv, IInv, TypeOK
<1>3. Rewinding' = Rewinding \ {p} /\ p \in Rewinding
  <2>1. proc \in [Process -> ProcState] /\ proc[p] \in ProcState
    BY DEF IInv, TypeOK
  <2>2. /\ proc' = [proc EXCEPT ![p] = [proc[p] EXCEPT !.pc = "relist"]]
        /\ proc[p].pc = "backfill"
    BY DEF Backfill
  <2>3. /\ proc'[p].pc = "relist"
        /\ \A q \in Process : q # p => proc'[q] = proc[q]
    BY <2>1, <2>2 DEF ProcState
  <2> QED BY <2>2, <2>3 DEF Rewinding
<1>4. /\ AtMost(Rewinding', backfills)
      /\ \A s \in Source : Rewound(s)' = Rewound(s) + 1 /\ Rewound(s) \in Nat
  <2>1. IsFiniteSet(Rewinding) /\ Cardinality(Rewinding) \in Nat
    BY <1>2, FS_CardinalityType DEF AtMost
  <2>2. /\ IsFiniteSet(Rewinding \ {p})
        /\ Cardinality(Rewinding \ {p}) = Cardinality(Rewinding) - 1
    BY <1>3, <2>1, FS_RemoveElement
  <2>3. misreads \in [Source -> Nat]
    BY DEF IInv, TypeOK
  <2> QED BY <1>1, <1>2, <1>3, <2>1, <2>2, <2>3 DEF AtMost, Rewound
<1> SUFFICES ASSUME NEW s \in Source, NEW w \in Nat, NEW k \in Nat \ {0}
             PROVE  CopiesOf(s, w, k)'
  BY <1>1, <1>4 DEF CopiesInv, AtMost
<1>5. CopiesOf(s, w, k) /\ Copies(s, w, k)' = Copies(s, w, k)
  BY <1>1 DEF CopiesInv, Copies
<1>6. /\ AtMost(Copies(s, w, k), Rewound(s) + 1)
      /\ AtMost(Copies(s, w, k), Rewound(s) + 2)
  <2>1. AtMost(Copies(s, w, k), Rewound(s) + 1)
    BY <1>5 DEF CopiesOf
  <2>2. /\ Rewound(s) + 1 \in Int /\ Rewound(s) + 2 \in Int
        /\ Rewound(s) + 1 <= Rewound(s) + 2
    BY <1>4
  <2> HIDE DEF Copies, AtMost
  <2> QED BY <2>1, <2>2, NoMore
<1>7. Rewound(s)' + 1 = Rewound(s) + 2
  BY <1>4
<1> QED BY <1>1, <1>4, <1>5, <1>6, <1>7 DEF CopiesOf

(* A step that queues nothing and touches no file may begin a backfill or  *)
(* give one up, which counts as done.                                      *)
LEMMA OtherCopies ==
  ASSUME IInv, CopiesInv, UNCHANGED <<rewrites, row, history, misreads>>,
         AtMost(Rewinding, backfills)', backfills' \in Nat,
         NEW more \in Nat,
         backfills' - Cardinality(Rewinding)'
           = backfills - Cardinality(Rewinding) + more
  PROVE  CopiesInv'
<1> SUFFICES ASSUME NEW s \in Source, NEW w \in Nat, NEW k \in Nat \ {0}
             PROVE  CopiesOf(s, w, k)'
  BY DEF CopiesInv, AtMost
<1>1. CopiesOf(s, w, k) /\ Copies(s, w, k)' = Copies(s, w, k)
  BY DEF CopiesInv, Copies
<1>2. Rewound(s) \in Nat
  BY RewoundType DEF IInv
<1>3. Rewound(s)' = Rewound(s) + more
  <2>1. /\ misreads[s] \in Nat /\ backfills \in Nat
        /\ Cardinality(Rewinding) \in Nat
    BY FS_CardinalityType DEF IInv, TypeOK, CopiesInv, AtMost
  <2> QED BY <2>1 DEF Rewound
<1>4. /\ Rewound(s) \in Int /\ Rewound(s)' \in Int
      /\ Rewound(s) <= Rewound(s)'
      /\ Rewound(s) + 1 \in Int /\ Rewound(s)' + 1 \in Int
      /\ Rewound(s) + 1 <= Rewound(s)' + 1
  BY <1>2, <1>3
<1>5. /\ AtMost(Copies(s, w, k), Rewound(s) + 1)
           => AtMost(Copies(s, w, k), Rewound(s)' + 1)
      /\ AtMost(Copies(s, w, k), Rewound(s))
           => AtMost(Copies(s, w, k), Rewound(s)')
  <2> HIDE DEF Copies, AtMost
  <2> QED BY <1>4, NoMore
<1> QED BY <1>1, <1>5 DEF CopiesOf

(* Every step keeps the count.                                             *)
LEMMA NextCopies == IInv /\ CopiesInv /\ [Next]_vars => CopiesInv'
<1> SUFFICES ASSUME IInv, CopiesInv, [Next]_vars PROVE CopiesInv'
  OBVIOUS
<1>0. /\ proc \in [Process -> ProcState] /\ backfills \in Nat
      /\ AtMost(Rewinding, backfills)
      /\ IsFiniteSet(Rewinding) /\ Cardinality(Rewinding) \in Nat
  BY FS_CardinalityType DEF IInv, TypeOK, CopiesInv, AtMost
<1>1. ASSUME UNCHANGED <<rewrites, row, history, backfills, misreads>>,
             Rewinding' = Rewinding
      PROVE  CopiesInv'
  <2>1. AtMost(Rewinding, backfills)'
    BY <1>0, <1>1 DEF AtMost
  <2>2. backfills' - Cardinality(Rewinding)'
          = backfills - Cardinality(Rewinding) + 0
    BY <1>0, <1>1
  <2> QED BY <1>0, <1>1, <2>1, <2>2, OtherCopies
<1>2. CASE Codex
  BY <1>2, CodexCopies DEF Codex
<1>3. CASE Agent
  <2> PICK p \in Process :
        \/ Start(p) \/ Backfill(p) \/ BeginPass(p) \/ EndPass(p)
        \/ AbortPass(p) \/ ScanFails(p) \/ Stop(p)
        \/ \E s \in Source : StatFile(p, s) \/ PassScan(p, s) \/ ScheduledScan(p, s)
        \/ ReadBatch(p) \/ DeleteAcked(p) \/ Fail(p)
    BY <1>3 DEF Agent
  <2>0. proc[p] \in ProcState
    BY <1>0
  <2>1. ASSUME NEW c, proc' = [proc EXCEPT ![p] = c],
               proc[p].pc # "backfill", c.pc # "backfill"
        PROVE  Rewinding' = Rewinding
    BY <1>0, <2>1 DEF Rewinding
  <2>2. CASE Start(p)
    <3>1. UNCHANGED <<rewrites, row, history, misreads>> /\ proc[p].pc = "off"
      BY <2>2 DEF Start, env, db
    <3>2. CASE /\ proc' = [proc EXCEPT ![p] = [Off EXCEPT !.pc = "start"]]
               /\ UNCHANGED backfills
      <4>1. [Off EXCEPT !.pc = "start"].pc # "backfill"
        BY DEF Off
      <4> QED BY <1>1, <2>1, <3>1, <3>2, <4>1
    <3>3. CASE /\ proc' = [proc EXCEPT ![p] = [Off EXCEPT !.pc = "backfill"]]
               /\ backfills' = backfills + 1
      <4>1. [Off EXCEPT !.pc = "backfill"].pc = "backfill"
        BY DEF Off
      <4>2. Rewinding' = Rewinding \cup {p} /\ p \notin Rewinding
        BY <1>0, <3>1, <3>3, <4>1 DEF Rewinding
      <4>3. /\ IsFiniteSet(Rewinding \cup {p})
            /\ Cardinality(Rewinding \cup {p}) = Cardinality(Rewinding) + 1
        BY <1>0, <4>2, FS_AddElement
      <4>4. /\ AtMost(Rewinding', backfills')
            /\ backfills' - Cardinality(Rewinding')
                 = backfills - Cardinality(Rewinding) + 0
        BY <1>0, <3>3, <4>2, <4>3 DEF AtMost
      <4>5. /\ AtMost(Rewinding, backfills)'
            /\ backfills' - Cardinality(Rewinding)'
                 = backfills - Cardinality(Rewinding) + 0
        BY <4>4 DEF AtMost
      <4> QED BY <1>0, <3>1, <3>3, <4>5, OtherCopies
    <3> QED BY <2>2, <3>2, <3>3 DEF Start
  <2>3. CASE Backfill(p)
    BY <2>3, BackfillCopies
  <2>4. CASE BeginPass(p)
    <3>1. /\ UNCHANGED <<rewrites, row, history, backfills, misreads>>
          /\ proc[p].pc # "backfill"
      BY <2>4 DEF BeginPass, env, db
    <3>2. PICK baseline, todo : proc' = [proc EXCEPT ![p] =
                    [Off EXCEPT !.pc = "pass", !.todo = todo,
                                !.baseline = baseline]]
      BY <2>4 DEF BeginPass
    <3>3. [Off EXCEPT !.pc = "pass", !.todo = todo, !.baseline = baseline].pc
            # "backfill"
      BY DEF Off
    <3> QED BY <1>1, <2>1, <3>1, <3>2, <3>3
  <2>5. CASE EndPass(p)
    <3>1. [Off EXCEPT !.pc = "run"].pc # "backfill"
      BY DEF Off
    <3> QED BY <1>1, <2>1, <2>5, <3>1 DEF EndPass, env, db, tally
  <2>6. CASE AbortPass(p)
    <3>1. [Off EXCEPT !.pc = "start"].pc # "backfill"
      BY DEF Off
    <3> QED BY <1>1, <2>1, <2>6, <3>1 DEF AbortPass, env, db, tally
  <2>7. CASE Stop(p)
    <3>1. /\ UNCHANGED <<rewrites, row, history, backfills, misreads>>
          /\ proc' = [proc EXCEPT ![p] = Off] /\ Off.pc # "backfill"
      BY <2>7 DEF Stop, env, db, tally, Off
    <3>2. Rewinding' = Rewinding \ {p}
      BY <1>0, <3>1 DEF Rewinding
    <3>3. /\ IsFiniteSet(Rewinding \ {p})
          /\ Cardinality(Rewinding \ {p}) \in Nat
          /\ Cardinality(Rewinding \ {p}) <= Cardinality(Rewinding)
      BY <1>0, FS_Subset, FS_CardinalityType
    <3> DEFINE more == Cardinality(Rewinding) - Cardinality(Rewinding \ {p})
    <3>4. /\ AtMost(Rewinding, backfills)' /\ more \in Nat
          /\ backfills' - Cardinality(Rewinding)'
               = backfills - Cardinality(Rewinding) + more
      BY <1>0, <3>1, <3>2, <3>3 DEF AtMost
    <3> HIDE DEF more
    <3> QED BY <1>0, <3>1, <3>4, OtherCopies
  <2>8. ASSUME NEW s \in Source, PassScan(p, s) \/ ScheduledScan(p, s)
        PROVE  CopiesInv'
    <3> DEFINE stat == proc[p].stat[s]
    <3>1. stat \in Stat
      BY <2>8, ScanHeld DEF IInv
    <3>2. PICK baseline : \E limit \in Nat : Scan(s, stat, baseline, limit)
      BY <2>8, ScanHeld DEF IInv
    <3>3. UNCHANGED env /\ backfills' = backfills
      BY <2>8 DEF PassScan, ScheduledScan
    <3>4. Rewinding' = Rewinding
      BY <2>8, ScanDrops DEF IInv, Rewinding
    <3> HIDE DEF stat
    <3> QED BY <3>1, <3>2, <3>3, <3>4, ScanCopies
  <2>9. CASE ReadBatch(p) \/ DeleteAcked(p) \/ Fail(p)
    <3>1. UNCHANGED <<rewrites, row, history, proc, backfills, misreads>>
      BY <2>9 DEF ReadBatch, DeleteAcked, Fail, env, db, tally
    <3> QED BY <1>1, <3>1 DEF Rewinding
  <2>10. CASE ScanFails(p)
    <3>1. [proc[p] EXCEPT !.stat = AtRest].pc = proc[p].pc
      BY <2>0 DEF ProcState
    <3>2. /\ UNCHANGED <<rewrites, row, history, backfills, misreads>>
          /\ proc[p].pc # "backfill"
          /\ proc' = [proc EXCEPT ![p] = [proc[p] EXCEPT !.stat = AtRest]]
      BY <2>0, <2>10 DEF ScanFails, env, db, tally, ProcState
    <3> QED BY <1>1, <2>1, <3>1, <3>2
  <2>11. ASSUME NEW s \in Source, StatFile(p, s) PROVE CopiesInv'
    <3>1. UNCHANGED <<rewrites, row, history, backfills, misreads>>
      BY <2>11 DEF StatFile, env, db, tally
    <3>2. Rewinding' = Rewinding
      BY <2>11, StatTaken DEF IInv, Rewinding
    <3> QED BY <1>1, <3>1, <3>2
  <2> QED BY <2>2, <2>3, <2>4, <2>5, <2>6, <2>7, <2>8, <2>9, <2>10, <2>11
<1>4. CASE Server
  <2>1. UNCHANGED <<rewrites, row, history, proc, backfills, misreads>>
    BY <1>4 DEF Server, Commit, LateCommit, LateDrop, env, db, tally
  <2> QED BY <1>1, <2>1 DEF Rewinding
<1>5. CASE UNCHANGED vars
  BY <1>1, <1>5 DEF vars, env, db, tally, Rewinding
<1> QED BY <1>2, <1>3, <1>4, <1>5 DEF Next

(* Every step keeps the count, from the start.                             *)
THEOREM CopiesInvariance == Spec => [](IInv /\ CopiesInv)
<1>1. Init => CopiesInv
  <2> SUFFICES ASSUME Init PROVE CopiesInv
    OBVIOUS
  <2>1. Rewinding = {} /\ backfills = 0
    BY DEF Init, Rewinding, Off
  <2>2. IsFiniteSet({}) /\ Cardinality({}) = 0
    BY FS_EmptySet
  <2>3. \A s \in Source : Rewound(s) = 0
    BY <2>1, <2>2 DEF Rewound, Init
  <2>4. \A s, w, k : Copies(s, w, k) = {}
    BY DEF Init, Copies, Events
  <2> QED BY <2>1, <2>2, <2>3, <2>4 DEF CopiesInv, CopiesOf, AtMost
<1> QED BY <1>1, InitIInv, NextIInv, NextCopies, PTL DEF Spec

(* A line gives one event, one more for each backfill, and one more for    *)
(* each scan that measured its file before another process moved the       *)
(* checkpoint (os.Stat before the first SELECT): nothing else makes        *)
(* scanOneTx read a line twice, in a file that is replaced or not.         *)
THEOREM QueuedOnce == Spec => []LineQueuedOnce
<1>1. ASSUME IInv, CopiesInv PROVE LineQueuedOnce
  <2> SUFFICES ASSUME NEW e \in Events(history), e.line > 0
               PROVE  Cardinality(Copies(e.src, e.rewrite, e.line))
                        <= 1 + backfills + misreads[e.src]
    BY DEF LineQueuedOnce, Copies
  <2>1. e.src \in Source /\ e.rewrite \in Nat /\ e.line \in Nat \ {0}
    <3>1. e \in Event
      BY <1>1 DEF IInv, TypeOK, QueueRow, Events
    <3> QED BY <3>1 DEF Event
  <2>2. AtMost(Copies(e.src, e.rewrite, e.line), Rewound(e.src) + 1)
    BY <1>1, <2>1 DEF CopiesInv, CopiesOf
  <2>3. /\ Cardinality(Rewinding) \in Nat /\ backfills \in Nat
        /\ misreads[e.src] \in Nat
        /\ Cardinality(Copies(e.src, e.rewrite, e.line)) \in Nat
    BY <1>1, <2>1, <2>2, FS_CardinalityType DEF IInv, TypeOK, CopiesInv, AtMost
  <2> QED BY <2>2, <2>3 DEF AtMost, Rewound
<1> QED BY <1>1, CopiesInvariance, PTL

-----------------------------------------------------------------------------
(* Old history.  What a file held when the collector first ran stays       *)
(* behind the checkpoint: either the file has one that began behind it, or *)
(* every process that may scan the file still takes a baseline first.      *)

Clean(s) == backfills = 0 /\ errors = 0 /\ misreads[s] = 0

(* No baseline is needed: there is a checkpoint, or nothing old is left.   *)
Settled(s) ==
  row[s] # NoRow \/ old[s].size = 0 \/ rewrites[s] # old[s].rewrite

Looked(p, s) ==
  /\ proc[p].pc \notin {"backfill", "relist"}
  /\ proc[p].pc = "run" => Settled(s)
  /\ proc[p].pc = "pass" /\ (~proc[p].baseline \/ s \notin proc[p].todo)
       => Settled(s)

Boundary(s) ==
  /\ row[s] # NoRow /\ row[s].rewrite = old[s].rewrite
       => old[s].size <= row[s].start
  /\ baselineDone => Settled(s)
  /\ \A p \in Process : Looked(p, s)
  /\ \A e \in Events(history) :
       e.src = s /\ e.line > 0 /\ e.rewrite = old[s].rewrite
         => Whole(e.line, old[s].size)

(* Before the first pass nothing is scanned.                               *)
Unseen(s) ==
  /\ row[s] = NoRow /\ ~baselineDone
  /\ \A p \in Process : proc[p].pc \notin {"pass", "run"} /\ ~Held(p, s)

(* A measurement is no older than the first look at the files.             *)
After(s, stat) ==
  /\ old[s].rewrite <= stat.rewrite
  /\ old[s].rewrite = stat.rewrite => old[s].size <= stat.size

HistoryOf(s) ==
  /\ old[s] = NoStat => Unseen(s)
  /\ old[s] # NoStat => Dated(s, old[s])
  /\ \A p \in Process : Held(p, s) => After(s, proc[p].stat[s])
  /\ row[s] # NoRow => old[s].rewrite <= row[s].rewrite
  /\ Clean(s) => Boundary(s)

HistoryInv == \A s \in Source : HistoryOf(s)

(* The first look at a file is a measurement, or has not been taken.       *)
LEMMA OldType ==
  ASSUME TypeOK, NEW s \in Source
  PROVE  /\ old[s] # NoStat => old[s] \in Stat
         /\ old[s].rewrite \in Nat /\ old[s].size \in Int
         /\ backfills \in Nat /\ errors \in Nat /\ misreads[s] \in Nat
<1>1. old[s] \in Stat \cup {NoStat}
  BY DEF TypeOK
<1> QED BY <1>1 DEF TypeOK, Stat, NoStat

(* Steps that scan nothing and look at nothing: a process goes on as it    *)
(* is, ends or begins.                                                     *)
LEMMA QuietHistory ==
  ASSUME IInv, HistoryInv,
         UNCHANGED <<env, row, history, baselineDone, errors, misreads, old>>,
         backfills' \in Nat, backfills' = 0 => backfills = 0,
         \A p \in Process, s \in Source :
           Held(p, s)' => Held(p, s) /\ proc'[p].stat[s] = proc[p].stat[s],
         \A p \in Process :
           \/ /\ proc'[p].pc = proc[p].pc
              /\ proc'[p].baseline = proc[p].baseline
              /\ proc'[p].todo = proc[p].todo
           \/ proc'[p].pc \in {"off", "start"}
           \/ proc'[p].pc \in {"backfill", "relist"} /\ backfills' # 0
  PROVE  HistoryInv'
<1> SUFFICES ASSUME NEW s \in Source PROVE HistoryOf(s)'
  BY DEF HistoryInv
<1>1. HistoryOf(s)
  BY DEF HistoryInv
<1>2. /\ Dated(s, old[s])' = Dated(s, old[s])
      /\ Settled(s)' = Settled(s)
      /\ Clean(s)' => Clean(s) /\ backfills' = 0
  BY DEF Dated, FileSize, Settled, Clean, env
<1>3. \A p \in Process : Held(p, s)' => After(s, proc[p].stat[s])'
  BY <1>1 DEF HistoryOf, After
<1>4. old[s] = NoStat => Unseen(s)'
  BY <1>1 DEF HistoryOf, Unseen
<1>5. Clean(s)' => Boundary(s)'
  <2>1. ASSUME Clean(s)', NEW p \in Process PROVE Looked(p, s)'
    <3>1. Looked(p, s)
      BY <1>1, <1>2, <2>1 DEF HistoryOf, Boundary
    <3> QED BY <1>2, <2>1, <3>1 DEF Looked
  <2> QED BY <1>1, <1>2, <2>1 DEF HistoryOf, Boundary
<1> QED BY <1>1, <1>2, <1>3, <1>4, <1>5 DEF HistoryOf

(* Files grow, and a replaced file holds nothing old any more.             *)
LEMMA CodexHistory ==
  ASSUME IInv, HistoryInv, NEW u \in Source,
         WriteHalf(u) \/ WriteRest(u) \/ Rewrite(u)
  PROVE  HistoryInv'
<1> SUFFICES ASSUME NEW s \in Source PROVE HistoryOf(s)'
  BY DEF HistoryInv
<1>1. HistoryOf(s)
  BY DEF HistoryInv
<1>2. UNCHANGED <<row, history, proc, baselineDone, backfills, errors, misreads, old>>
  BY DEF WriteHalf, WriteRest, Rewrite, db, tally
<1>3. /\ old[s].rewrite \in Nat
      /\ old[s] # NoStat => old[s] \in Stat
      /\ rewrites[s] \in Nat /\ old[s].rewrite <= rewrites[s]
  BY <1>1, OldType, RowType DEF IInv, HistoryOf, Dated, NoStat
<1>4. old[s] # NoStat => Dated(s, old[s])'
  <2>1. ASSUME NEW stat \in Stat, Dated(s, stat) PROVE Dated(s, stat)'
    BY <2>1, CodexDated DEF IInv
  <2>2. PICK c : c = old[s]
    OBVIOUS
  <2>3. old[s] # NoStat => c \in Stat /\ Dated(s, c)
    BY <1>1, <1>3, <2>2 DEF HistoryOf
  <2>4. old[s] # NoStat => Dated(s, c)'
    BY <2>1, <2>3
  <2> QED BY <1>2, <2>2, <2>4 DEF Dated
<1>5. Settled(s) => Settled(s)'
  <2>1. rewrites'[s] = rewrites[s] \/ rewrites'[s] = rewrites[s] + 1
    BY DEF IInv, TypeOK, WriteHalf, WriteRest, Rewrite
  <2> QED BY <1>2, <1>3, <2>1 DEF Settled
<1>6. Clean(s)' => Boundary(s)'
  BY <1>1, <1>2, <1>5 DEF HistoryOf, Clean, Boundary, Looked
<1> QED BY <1>1, <1>2, <1>4, <1>6 DEF HistoryOf, Unseen, Held, After

(* A backfill asks for the old history.                                    *)
LEMMA BackfillHistory ==
  ASSUME IInv, HistoryInv, NEW p \in Process, Backfill(p)
  PROVE  HistoryInv'
<1> SUFFICES ASSUME NEW s \in Source PROVE HistoryOf(s)'
  BY DEF HistoryInv
<1>1. HistoryOf(s)
  BY DEF HistoryInv
<1>2. UNCHANGED <<log, partial, rewrites, history, baselineDone, backfills,
                 errors, misreads, old>>
  BY DEF Backfill, env, tally
<1>3. ~Clean(s)
  BY <1>1 DEF HistoryOf, Boundary, Looked, Backfill
<1>4. \A q \in Process : /\ proc'[q].stat = proc[q].stat
                         /\ proc'[q].pc \in {proc[q].pc, "relist"}
  <2>1. proc \in [Process -> ProcState]
    BY DEF IInv, TypeOK
  <2> QED BY <2>1 DEF Backfill, ProcState
<1>5. /\ row[s] = NoRow => row'[s] = NoRow
      /\ row[s] # NoRow => row'[s].rewrite = row[s].rewrite
  <2>1. row'[s] = IF row[s] = NoRow THEN NoRow
                  ELSE [row[s] EXCEPT !.offset = 0, !.gen = @ + 1, !.start = 0]
    BY DEF Backfill
  <2> QED BY <2>1, RowType DEF IInv, Checkpoint
<1>6. Dated(s, old[s])' = Dated(s, old[s]) /\ Clean(s)' = Clean(s)
  BY <1>2 DEF Dated, FileSize, Clean
<1>7. row'[s] # NoRow => row[s] # NoRow
  BY <1>5
<1> QED BY <1>1, <1>2, <1>3, <1>4, <1>5, <1>6, <1>7
      DEF HistoryOf, Unseen, Held, After

(* Nothing is measured before the first look at the files.                 *)
LEMMA StatHistory ==
  ASSUME IInv, HistoryInv, NEW p \in Process, NEW u \in Source, StatFile(p, u)
  PROVE  HistoryInv'
<1> SUFFICES ASSUME NEW s \in Source PROVE HistoryOf(s)'
  BY DEF HistoryInv
<1>1. HistoryOf(s)
  BY DEF HistoryInv
<1>2. UNCHANGED <<log, partial, rewrites, row, history, baselineDone,
                 backfills, errors, misreads, old>>
  BY DEF StatFile, env, db, tally
<1>3. /\ \A q \in Process, v \in Source :
           proc'[q].stat[v] = IF q = p /\ v = u THEN Measured(u)
                                               ELSE proc[q].stat[v]
      /\ \A q \in Process : /\ proc'[q].pc = proc[q].pc
                            /\ proc'[q].baseline = proc[q].baseline
                            /\ proc'[q].todo = proc[q].todo
      /\ proc[p].pc \in {"pass", "run"}
  BY StatTaken DEF IInv
<1>4. old[s] # NoStat /\ Dated(s, old[s])
  BY <1>1, <1>3 DEF HistoryOf, Unseen
<1>5. ASSUME NEW q \in Process, Held(q, s)' PROVE After(s, proc[q].stat[s])'
  <2>1. CASE q = p /\ s = u
    <3>1. proc'[q].stat[s] = Measured(s)
      BY <1>3, <2>1
    <3>2. Measured(s).rewrite = rewrites[s] /\ Measured(s).size = FileSize(s)
      BY DEF Measured
    <3> QED BY <1>2, <1>4, <3>1, <3>2 DEF After, Dated
  <2>2. CASE ~(q = p /\ s = u)
    <3>1. proc'[q].stat[s] = proc[q].stat[s]
      BY <1>3, <2>2
    <3> QED BY <1>1, <1>2, <1>5, <3>1 DEF HistoryOf, Held, After
  <2> QED BY <2>1, <2>2
<1>6. Dated(s, old[s])' = Dated(s, old[s]) /\ Clean(s)' = Clean(s)
  BY <1>2 DEF Dated, FileSize, Clean
<1>7. Clean(s)' => Boundary(s)'
  <2>1. \A q \in Process : Looked(q, s)' = Looked(q, s)
    BY <1>2, <1>3 DEF Looked, Settled
  <2> QED BY <1>1, <1>2, <1>6, <2>1 DEF HistoryOf, Boundary, Settled
<1> QED BY <1>1, <1>2, <1>4, <1>5, <1>6, <1>7 DEF HistoryOf

(* The first look: what is in a file that is not listed is not old.        *)
LEMMA BeginHistory ==
  ASSUME IInv, HistoryInv, NEW p \in Process, BeginPass(p)
  PROVE  HistoryInv'
<1> SUFFICES ASSUME NEW s \in Source PROVE HistoryOf(s)'
  BY DEF HistoryInv
<1>1. HistoryOf(s)
  BY DEF HistoryInv
<1>2. UNCHANGED <<log, partial, rewrites, row, history, baselineDone,
                 backfills, misreads>>
  BY DEF BeginPass, env, db
<1>3. /\ FileSize(s) \in Nat /\ rewrites[s] \in Nat
      /\ old[s] # NoStat => old[s] \in Stat
      /\ backfills \in Nat /\ errors \in Nat
  BY OldType, RowType DEF IInv
<1>4. /\ Measured(s).size = FileSize(s) /\ Measured(s).rewrite = rewrites[s]
      /\ Measured(s) # NoStat
  BY <1>3 DEF Measured, NoStat
<1>5. old'[s] = IF old[s] = NoStat THEN Measured(s) ELSE old[s]
  BY DEF BeginPass
<1> HIDE DEF Measured
<1>6. old'[s] # NoStat /\ Dated(s, old[s])'
  <2>1. FileSize(s)' = FileSize(s)
    BY <1>2 DEF FileSize
  <2> QED BY <1>1, <1>2, <1>3, <1>4, <1>5, <2>1 DEF HistoryOf, Dated
<1>7. \A q \in Process : Held(q, s)' => Held(q, s) /\ proc'[q].stat[s] = proc[q].stat[s]
  BY StatKept DEF IInv
<1>8. old[s] = NoStat => Unseen(s)
  BY <1>1 DEF HistoryOf
<1>9. \A q \in Process : Held(q, s)' => After(s, proc[q].stat[s])'
  BY <1>1, <1>5, <1>7, <1>8 DEF HistoryOf, Unseen, After
<1>10. row'[s] # NoRow => old'[s].rewrite <= row'[s].rewrite
  BY <1>1, <1>2, <1>5, <1>8 DEF HistoryOf, Unseen
<1>11. ASSUME Clean(s)' PROVE Boundary(s)'
  <2>1. PICK flag \in {baselineDone, TRUE},
             todo \in SUBSET {v \in Source : Exists(v)} :
          LET failed == \/ proc[p].pc = "start" /\ flag # baselineDone
                        \/ todo # {v \in Source : Exists(v)}
          IN  /\ proc' = [proc EXCEPT ![p] =
                   [Off EXCEPT !.pc = "pass", !.todo = todo,
                               !.baseline = proc[p].pc = "start" /\ ~flag]]
              /\ errors' = errors + IF failed THEN 1 ELSE 0
    BY DEF BeginPass
  <2>2. /\ Clean(s)
        /\ todo = {v \in Source : Exists(v)}
        /\ proc[p].pc = "start" => flag = baselineDone
    BY <1>2, <1>3, <1>11, <2>1 DEF Clean
  <2>3. Boundary(s)
    BY <1>1, <2>2 DEF HistoryOf
  <2>4. proc[p].pc = "start"
    BY <2>3 DEF Boundary, Looked, BeginPass
  <2>5. /\ proc'[p].pc = "pass" /\ proc'[p].baseline = ~baselineDone
        /\ proc'[p].todo = todo
        /\ \A q \in Process : q # p => proc'[q] = proc[q]
    <3>1. proc' = [proc EXCEPT ![p] =
                    [Off EXCEPT !.pc = "pass", !.todo = todo,
                                !.baseline = ~flag]]
      BY <2>1, <2>4
    <3>2. proc \in [Process -> ProcState]
      BY DEF IInv, TypeOK
    <3> QED BY <2>2, <2>4, <3>1, <3>2 DEF Off
  <2>6. old[s] # NoStat \/ row[s] # NoRow => /\ old'[s] = old[s]
                                             /\ Settled(s)' = Settled(s)
    BY <1>2, <1>5, <1>8 DEF Settled, Unseen
  <2>7. s \notin todo => Settled(s)'
    <3>1. ASSUME s \notin todo PROVE FileSize(s) = 0
      BY <1>3, <2>2, <3>1 DEF Exists
    <3>2. CASE old[s] = NoStat
      BY <1>4, <1>5, <3>1, <3>2 DEF Settled
    <3>3. CASE old[s] # NoStat
      <4>1. old[s] \in Stat /\ Dated(s, old[s]) /\ old'[s] = old[s]
        BY <1>1, <1>3, <1>5, <3>3 DEF HistoryOf
      <4> QED BY <1>2, <3>1, <4>1 DEF Settled, Dated, Stat
    <3> QED BY <3>2, <3>3
  <2>8. baselineDone => Settled(s)'
    BY <1>8, <2>3, <2>6 DEF Boundary, Unseen
  <2>9. ASSUME NEW q \in Process PROVE Looked(q, s)'
    <3>1. CASE q = p
      BY <2>5, <2>7, <2>8, <3>1 DEF Looked
    <3>2. CASE q # p
      <4>1. proc'[q] = proc[q] /\ Looked(q, s)
        BY <2>3, <2>5, <3>2 DEF Boundary
      <4>2. proc[q].pc \in {"pass", "run"} => Settled(s)' = Settled(s)
        BY <1>8, <2>6 DEF Unseen
      <4> QED BY <4>1, <4>2 DEF Looked
    <3> QED BY <3>1, <3>2
  <2>10. \A e \in Events(history) : e.src = s => row[s] # NoRow
    BY DEF IInv, QueueInv, Unread
  <2>11. row'[s] # NoRow /\ row'[s].rewrite = old'[s].rewrite
           => old'[s].size <= row'[s].start
    BY <1>2, <2>3, <2>6 DEF Boundary
  <2>12. \A e \in Events(history') :
           e.src = s /\ e.line > 0 /\ e.rewrite = old'[s].rewrite
             => Whole(e.line, old'[s].size)
    BY <1>2, <2>3, <2>6, <2>10 DEF Boundary
  <2> QED BY <1>2, <2>8, <2>9, <2>11, <2>12 DEF Boundary
<1> QED BY <1>6, <1>9, <1>10, <1>11 DEF HistoryOf

(* At the end of a pass every file that is left has been scanned.          *)
LEMMA EndHistory ==
  ASSUME IInv, HistoryInv, NEW p \in Process, EndPass(p)
  PROVE  HistoryInv'
<1> SUFFICES ASSUME NEW s \in Source PROVE HistoryOf(s)'
  BY DEF HistoryInv
<1>1. HistoryOf(s)
  BY DEF HistoryInv
<1>2. /\ UNCHANGED <<log, partial, rewrites, row, history, backfills,
                    errors, misreads, old>>
      /\ proc[p].pc = "pass" /\ proc[p].todo = {}
      /\ baselineDone' = (baselineDone \/ proc[p].baseline)
  BY DEF EndPass, env, db, tally
<1>3. proc'[p].pc = "run" /\ \A q \in Process : q # p => proc'[q] = proc[q]
  BY DEF EndPass, IInv, TypeOK, Off
<1>4. old[s] # NoStat
  BY <1>1, <1>2 DEF HistoryOf, Unseen
<1>5. \A q \in Process : Held(q, s)' => Held(q, s) /\ proc'[q].stat[s] = proc[q].stat[s]
  BY StatKept DEF IInv
<1>6. /\ Dated(s, old[s])' = Dated(s, old[s]) /\ Clean(s)' = Clean(s)
      /\ Settled(s)' = Settled(s)
  BY <1>2 DEF Dated, FileSize, Clean, Settled
<1>7. ASSUME Clean(s)' PROVE Boundary(s)'
  <2>1. Boundary(s)
    BY <1>1, <1>6, <1>7 DEF HistoryOf
  <2>2. Settled(s)
    BY <1>2, <2>1 DEF Boundary, Looked
  <2>3. \A q \in Process : Looked(q, s)'
    BY <1>3, <1>6, <2>1, <2>2 DEF Boundary, Looked
  <2> QED BY <1>2, <1>6, <2>1, <2>2, <2>3 DEF Boundary
<1> QED BY <1>1, <1>2, <1>4, <1>5, <1>6, <1>7 DEF HistoryOf, After

(* What a scan of lines queues, and where it leaves the checkpoint, when   *)
(* the old lines are settled or behind the checkpoint.                     *)
LEMMA LinesBoundary ==
  ASSUME IInv, CheckpointInv, HistoryInv, NEW s \in Source, NEW size,
         NEW limit \in Nat, ScanLines(s, size, limit), old[s] # NoStat,
         Clean(s), ~Misread(s, size), row[s] = NoRow => Settled(s)
  PROVE  /\ row'[s].rewrite = old[s].rewrite => old[s].size <= row'[s].start
         /\ \A e \in Events(history') :
              e.src = s /\ e.line > 0 /\ e.rewrite = old[s].rewrite
                => Whole(e.line, old[s].size)
<1>0. PICK at : \E from \in Nat :
                  Reads(s, size, at, from) /\ Begins(s, size, at, from)
  BY ScanLinesReads
<1>1. PICK from \in Nat : Reads(s, size, at, from) /\ Begins(s, size, at, from)
  BY <1>0
<1> DEFINE on == row[s] # NoRow /\ ~Truncated(s, size)
<1>2. /\ from = IF on THEN row[s].offset ELSE 0
      /\ row'[s].start = IF on THEN row[s].start ELSE 0
      /\ row'[s].rewrite = IF from = 0 THEN rewrites[s] ELSE row[s].rewrite
      /\ \A j \in DOMAIN at : /\ at[j].rewrite = rewrites[s]
                              /\ at[j].line \in Nat /\ Whole(at[j].line, from)
  BY <1>1 DEF Reads, Begins
<1>3. /\ HistoryOf(s) /\ Boundary(s) /\ Dated(s, old[s])
      /\ old[s] \in Stat /\ rewrites[s] \in Nat
      /\ row[s] # NoRow => row[s] \in Checkpoint /\ Placed(s, row[s])
  BY OldType, RowType DEF HistoryInv, HistoryOf, CheckpointInv, IInv
<1>4. old[s].size \in Nat /\ old[s].rewrite \in Nat /\ old[s].rewrite <= rewrites[s]
  BY <1>3 DEF Stat, Dated
<1>5. /\ row'[s].rewrite = old[s].rewrite => old[s].size <= row'[s].start
      /\ rewrites[s] = old[s].rewrite => old[s].size <= from
  <2>1. CASE on
    <3>1. /\ row[s].rewrite \in Nat /\ row[s].start \in Nat
          /\ row[s].offset \in Nat
          /\ row[s].rewrite <= rewrites[s] /\ row[s].start <= row[s].offset
          /\ old[s].rewrite <= row[s].rewrite
          /\ row[s].rewrite = old[s].rewrite => old[s].size <= row[s].start
      BY <1>3, <2>1 DEF Checkpoint, Placed, HistoryOf, Boundary
    <3>2. rewrites[s] = old[s].rewrite
            => old[s].size <= row[s].start /\ old[s].size <= from
      BY <1>2, <1>4, <2>1, <3>1
    <3> QED BY <1>2, <2>1, <3>1, <3>2
  <2>2. CASE ~on /\ row[s] # NoRow
    <3>1. row[s].rewrite # rewrites[s] /\ row[s].rewrite \in Nat
      BY <1>3, <2>2 DEF Misread, Truncated, Checkpoint
    <3>2. rewrites[s] # old[s].rewrite
      BY <1>3, <1>4, <2>2, <3>1 DEF Placed, HistoryOf
    <3> QED BY <1>2, <2>2, <3>2
  <2>3. CASE row[s] = NoRow
    <3>1. rewrites[s] = old[s].rewrite => old[s].size = 0
      BY <2>3 DEF Settled
    <3> QED BY <1>2, <1>4, <2>3, <3>1
  <2> QED BY <2>1, <2>2, <2>3
<1>6. ASSUME NEW e \in Events(history'), e.src = s, e.line > 0,
             e.rewrite = old[s].rewrite
      PROVE  Whole(e.line, old[s].size)
  <2>1. CASE e \in Events(history)
    BY <1>3, <1>6, <2>1 DEF Boundary
  <2>2. CASE e \notin Events(history)
    <3>1. PICK j \in DOMAIN at : e = at[j]
      BY <1>1, <2>2, InsertEvents DEF Reads, IInv, QueueInv, QueueOrdered
    <3>2. rewrites[s] = old[s].rewrite /\ e.line \in Nat /\ Whole(e.line, from)
      BY <1>2, <1>6, <3>1
    <3> QED BY <1>4, <1>5, <3>2 DEF Whole
  <2> QED BY <2>1, <2>2
<1> QED BY <1>5, <1>6

(* A scan leaves the old lines of its file behind: a baseline begins no    *)
(* earlier than the first look, and any other scan reads on.               *)
LEMMA ScanHistory ==
  ASSUME IInv, CheckpointInv, HistoryInv, NEW p \in Process, NEW u \in Source,
         PassScan(p, u) \/ ScheduledScan(p, u)
  PROVE  HistoryInv'
<1> DEFINE stat == proc[p].stat[u]
<1>1. /\ UNCHANGED <<log, partial, rewrites, baselineDone, backfills, errors, old>>
      /\ proc[p].pc \in {"pass", "run"} /\ Held(p, u)
  BY DEF PassScan, ScheduledScan, env, Held
<1>2. PICK baseline : \E limit \in Nat :
        /\ Scan(u, stat, baseline, limit)
        /\ ~baseline => proc[p].pc = "run" \/ ~proc[p].baseline
  <2>1. MaxLines \in Nat /\ ChunkLimit \in Nat
    BY LimitType
  <2>2. CASE PassScan(p, u)
    <3>1. \E limit \in Nat : Scan(u, stat, proc[p].baseline, limit)
      BY <2>1, <2>2 DEF PassScan
    <3> QED BY <3>1
  <2>3. CASE ScheduledScan(p, u)
    <3>1. \E limit \in Nat : Scan(u, stat, FALSE, limit)
      BY <2>1, <2>3 DEF ScheduledScan
    <3> QED BY <2>3, <3>1 DEF ScheduledScan
  <2> QED BY <2>2, <2>3
<1>3. PICK limit \in Nat :
        /\ Scan(u, stat, baseline, limit)
        /\ ~baseline => proc[p].pc = "run" \/ ~proc[p].baseline
  BY <1>2
<1>4. stat \in Stat /\ Dated(u, stat) /\ After(u, stat)
  BY <1>1, ScanHeld DEF IInv, CheckpointInv, HistoryInv, HistoryOf
<1>5. /\ \A q \in Process, v \in Source :
           Held(q, v)' => Held(q, v) /\ proc'[q].stat[v] = proc[q].stat[v]
      /\ \A q \in Process : /\ proc'[q].pc = proc[q].pc
                            /\ proc'[q].baseline = proc[q].baseline
                            /\ proc'[q].todo = proc[q].todo
                                 \/ proc'[q].todo = proc[q].todo \ {u}
  BY ScanDrops DEF IInv, Held
<1>6. /\ row'[u] # NoRow /\ \A v \in Source : v # u => row'[v] = row[v]
      /\ \A e \in Events(history') \ Events(history) : e.src = u
      /\ misreads' = [misreads EXCEPT ![u] =
                        @ + IF Misread(u, stat.size) THEN 1 ELSE 0]
      /\ IF baseline /\ row[u] = NoRow THEN ScanBaseline(u, stat)
                                       ELSE ScanLines(u, stat.size, limit)
  BY <1>3, <1>4, ScanRow DEF Scan
<1> HIDE DEF stat
<1> SUFFICES ASSUME NEW s \in Source PROVE HistoryOf(s)'
  BY DEF HistoryInv
<1>7. HistoryOf(s)
  BY DEF HistoryInv
<1>8. old[s] # NoStat /\ old[u] # NoStat
  BY <1>1 DEF HistoryInv, HistoryOf, Unseen
<1>9. Dated(s, old[s])' = Dated(s, old[s])
  BY <1>1 DEF Dated, FileSize
<1>10. \A q \in Process : Held(q, s)' => After(s, proc[q].stat[s])'
  BY <1>1, <1>5, <1>7 DEF HistoryOf, After
<1>11. CASE s # u
  <2>1. row'[s] = row[s] /\ misreads'[s] = misreads[s]
    BY <1>6, <1>11 DEF IInv, TypeOK
  <2>2. Settled(s)' = Settled(s) /\ Clean(s)' = Clean(s)
    BY <1>1, <2>1 DEF Settled, Clean
  <2>3. \A q \in Process : s \notin proc'[q].todo => s \notin proc[q].todo
    BY <1>5, <1>11
  <2>4. ASSUME Clean(s)' PROVE Boundary(s)'
    <3>1. Boundary(s)
      BY <1>7, <2>2, <2>4 DEF HistoryOf
    <3>2. \A q \in Process : Looked(q, s)'
      BY <1>5, <2>2, <2>3, <3>1 DEF Boundary, Looked
    <3> QED BY <1>1, <1>6, <1>11, <2>1, <2>2, <3>1, <3>2 DEF Boundary
  <2> QED BY <1>1, <1>7, <1>8, <1>9, <1>10, <2>1, <2>4 DEF HistoryOf
<1>12. CASE s = u
  <2>1. Settled(s)'
    BY <1>6, <1>12 DEF Settled
  <2>2. /\ rewrites[s] \in Nat /\ old[s] \in Stat /\ Dated(s, old[s])
        /\ old[s].rewrite <= rewrites[s]
    BY <1>7, <1>8, OldType, RowType DEF IInv, HistoryOf, Dated
  <2>3. ASSUME ScanBaseline(u, stat)
        PROVE  /\ row[s] = NoRow
               /\ row'[s].rewrite = stat.rewrite /\ row'[s].start = stat.size
    BY <1>12, <2>3 DEF ScanBaseline, IInv, TypeOK
  <2>4. old'[s].rewrite <= row'[s].rewrite
    <3>1. CASE ScanBaseline(u, stat)
      BY <1>1, <1>4, <1>12, <2>3, <3>1 DEF After
    <3>2. CASE ScanLines(u, stat.size, limit)
      <4>1. \E at : \E from \in Nat : Reads(u, stat.size, at, from)
                                       /\ Begins(u, stat.size, at, from)
        BY <3>2, ScanLinesReads
      <4>2. row'[s].rewrite = rewrites[s]
              \/ (row[s] # NoRow /\ row'[s].rewrite = row[s].rewrite)
        BY <1>12, <4>1 DEF Begins
      <4> QED BY <1>1, <1>7, <2>2, <4>2 DEF HistoryOf
    <3> QED BY <1>6, <3>1, <3>2
  <2>5. ASSUME Clean(s)' PROVE Boundary(s)'
    <3>1. Clean(s) /\ ~Misread(s, stat.size)
      <4>1. misreads[s] \in Nat /\ misreads \in [Source -> Nat]
        BY DEF IInv, TypeOK
      <4>2. misreads'[s] = 0 /\ backfills = 0 /\ errors = 0
        BY <1>1, <2>5 DEF Clean
      <4> QED BY <1>6, <1>12, <4>1, <4>2 DEF Clean
    <3>2. Boundary(s)
      BY <1>7, <3>1 DEF HistoryOf
    <3>3. /\ row'[s].rewrite = old[s].rewrite => old[s].size <= row'[s].start
          /\ \A e \in Events(history') :
               e.src = s /\ e.line > 0 /\ e.rewrite = old[s].rewrite
                 => Whole(e.line, old[s].size)
      <4>1. CASE ScanBaseline(u, stat)
        <5>1. \A e \in Events(history') \ Events(history) : e.line = 0
          <6>1. PICK at : Insert(at) /\ \A j \in DOMAIN at : at[j].line = 0
            BY <4>1 DEF ScanBaseline
          <6> QED BY <6>1, InsertEvents DEF IInv, QueueInv, QueueOrdered
        <5>2. \A e \in Events(history') :
                e.src = s /\ e.line > 0 /\ e.rewrite = old[s].rewrite
                  => Whole(e.line, old[s].size)
          BY <3>2, <5>1 DEF Boundary
        <5>3. row'[s].rewrite = old[s].rewrite => old[s].size <= row'[s].start
          BY <1>4, <1>12, <2>3, <4>1 DEF After
        <5> QED BY <5>2, <5>3
      <4>2. CASE ScanLines(u, stat.size, limit) /\ ~(baseline /\ row[u] = NoRow)
        <5>1. row[s] = NoRow => Settled(s)
          BY <1>1, <1>3, <1>12, <3>2, <4>2 DEF Boundary, Looked
        <5> QED BY <1>8, <1>12, <3>1, <4>2, <5>1, LinesBoundary
      <4> QED BY <1>6, <4>1, <4>2
    <3>4. \A q \in Process : Looked(q, s)'
      BY <1>5, <2>1, <3>2 DEF Boundary, Looked
    <3> QED BY <1>1, <2>1, <3>3, <3>4 DEF Boundary
  <2> QED BY <1>1, <1>8, <1>9, <1>10, <2>2, <2>4, <2>5 DEF HistoryOf
<1> QED BY <1>11, <1>12

(* Every step keeps old history behind the checkpoint.                     *)
LEMMA NextHistory ==
  IInv /\ CheckpointInv /\ HistoryInv /\ [Next]_vars => HistoryInv'
<1> SUFFICES ASSUME IInv, CheckpointInv, HistoryInv, [Next]_vars
             PROVE  HistoryInv'
  OBVIOUS
<1>0. proc \in [Process -> ProcState] /\ backfills \in Nat
  BY DEF IInv, TypeOK
<1>1. ASSUME UNCHANGED <<env, row, history, baselineDone, proc, tally>>
      PROVE  HistoryInv'
  BY <1>0, <1>1, QuietHistory DEF tally, Held
<1>2. CASE Codex
  BY <1>2, CodexHistory DEF Codex
<1>3. CASE Agent
  <2> PICK p \in Process :
        \/ Start(p) \/ Backfill(p) \/ BeginPass(p) \/ EndPass(p)
        \/ AbortPass(p) \/ ScanFails(p) \/ Stop(p)
        \/ \E s \in Source : StatFile(p, s) \/ PassScan(p, s) \/ ScheduledScan(p, s)
        \/ ReadBatch(p) \/ DeleteAcked(p) \/ Fail(p)
    BY <1>3 DEF Agent
  <2>1. CASE Start(p) \/ AbortPass(p) \/ ScanFails(p) \/ Stop(p)
    <3>1. \A q \in Process, s \in Source :
            Held(q, s)' => Held(q, s) /\ proc'[q].stat[s] = proc[q].stat[s]
      BY <2>1, StatKept DEF IInv
    <3>2. /\ UNCHANGED <<env, row, history, baselineDone, errors, misreads, old>>
          /\ backfills' = backfills \/ backfills' = backfills + 1
      BY <2>1 DEF Start, AbortPass, ScanFails, Stop, db, tally
    <3>3. /\ \A q \in Process : q # p => proc'[q] = proc[q]
          /\ \/ /\ proc'[p].pc = proc[p].pc
                /\ proc'[p].baseline = proc[p].baseline
                /\ proc'[p].todo = proc[p].todo
             \/ proc'[p].pc \in {"off", "start"}
             \/ proc'[p].pc = "backfill" /\ backfills' = backfills + 1
      <4>1. CASE Start(p)
        BY <1>0, <4>1 DEF Start, Off
      <4>2. CASE AbortPass(p) \/ Stop(p)
        BY <1>0, <4>2 DEF AbortPass, Stop, Off
      <4>3. CASE ScanFails(p)
        <5>1. proc' = [proc EXCEPT ![p] = [proc[p] EXCEPT !.stat = AtRest]]
          BY <1>0, <4>3 DEF ScanFails
        <5> QED BY <1>0, <5>1 DEF ProcState
      <4> QED BY <2>1, <4>1, <4>2, <4>3
    <3>4. backfills' \in Nat /\ (backfills' = 0 => backfills = 0)
          /\ (backfills' = backfills + 1 => backfills' # 0)
      BY <1>0, <3>2
    <3> QED BY <3>1, <3>2, <3>3, <3>4, QuietHistory
  <2>2. CASE ReadBatch(p) \/ DeleteAcked(p) \/ Fail(p)
    <3>1. UNCHANGED <<env, row, history, baselineDone, proc, tally>>
      BY <2>2 DEF ReadBatch, DeleteAcked, Fail, db
    <3> QED BY <1>1, <3>1
  <2> QED BY <2>1, <2>2, BackfillHistory, BeginHistory, EndHistory,
             StatHistory, ScanHistory
<1>4. CASE Server
  <2>1. UNCHANGED <<env, row, history, baselineDone, proc, tally>>
    BY <1>4 DEF Server, Commit, LateCommit, LateDrop, db
  <2> QED BY <1>1, <2>1
<1>5. CASE UNCHANGED vars
  BY <1>1, <1>5 DEF vars, db
<1> QED BY <1>2, <1>3, <1>4, <1>5 DEF Next

(* What was in a file when the collector first ran is not imported, unless *)
(* a backfill asks for it, the baseline flag or a file could not be read   *)
(* (agent.go:207 takes that for a baseline that is complete), or a scan    *)
(* took the file for truncated by a size older than the checkpoint.        *)
THEOREM HistoryNotImported == Spec => []BaselineBoundary
<1>1. Init => HistoryInv
  BY DEF Init, HistoryInv, HistoryOf, Unseen, Clean, Boundary, Looked, Held,
         Off, AtRest, NoStat, Events
<1>2. ASSUME IInv, HistoryInv PROVE BaselineBoundary
  <2> SUFFICES ASSUME backfills = 0, errors = 0, NEW e \in Events(history),
                      e.line > 0, misreads[e.src] = 0,
                      e.rewrite = old[e.src].rewrite
               PROVE  Whole(e.line, old[e.src].size)
    BY DEF BaselineBoundary
  <2>1. e.src \in Source
    BY <1>2 DEF IInv, TypeOK, QueueRow, Event, Events
  <2> QED BY <1>2, <2>1 DEF HistoryInv, HistoryOf, Clean, Boundary
<1> QED BY <1>1, <1>2, InitIInv, CheckpointInvariance, NextIInv, NextHistory,
           PTL DEF Spec

-----------------------------------------------------------------------------
(* One process.  Beside no other process a size is never older than the    *)
(* checkpoint it is compared with, so no file is taken for truncated by    *)
(* mistake, and the two promises hold with one reservation less.           *)

Alone == \A p, q \in Process : p = q

NeverMisread == \A s \in Source : misreads[s] = 0

AloneInv ==
  /\ Alone
  /\ \A s \in Source :
       /\ misreads[s] = 0
       /\ ~Misread(s, FileSize(s))
       /\ \A p \in Process : Held(p, s) => ~Misread(s, proc[p].stat[s].size)

(* Lines of the incarnation w of a file that were queued.                  *)
QueuedOf(s, w) == {e \in Events(history) : e.src = s /\ e.rewrite = w /\ e.line > 0}

(* Of an incarnation still to come nothing is queued.                      *)
LEMMA NothingEarly ==
  ASSUME IInv, CopiesInv, NEW s \in Source, NEW w \in Nat, w > rewrites[s]
  PROVE  QueuedOf(s, w) = {}
<1> SUFFICES ASSUME NEW e \in QueuedOf(s, w) PROVE FALSE
  OBVIOUS
<1>1. e \in Event /\ e.line > 0
  BY DEF IInv, TypeOK, QueueRow, Events, QueuedOf
<1>2. e.line \in Nat \ {0}
  BY <1>1 DEF Event
<1>3. Copies(s, w, e.line) = {}
  BY <1>2 DEF CopiesInv, CopiesOf
<1> QED BY <1>3 DEF Copies, QueuedOf

(* Steps that change no file, checkpoint or queue.                         *)
LEMMA QuietAlone ==
  ASSUME AloneInv, UNCHANGED <<env, row, history, misreads>>,
         \A p \in Process, s \in Source :
           Held(p, s)' => Held(p, s) /\ proc'[p].stat[s] = proc[p].stat[s]
  PROVE  AloneInv'
BY DEF AloneInv, Alone, Misread, Truncated, FileSize, env

(* The one process holds no measurement after its scan, and the checkpoint *)
(* is inside the file it was taken in.                                     *)
LEMMA ScanAlone ==
  ASSUME IInv, CheckpointInv, AloneInv, CheckpointInv',
         NEW p \in Process, NEW u \in Source,
         PassScan(p, u) \/ ScheduledScan(p, u)
  PROVE  AloneInv'
<1> DEFINE stat == proc[p].stat[u]
<1>1. UNCHANGED <<log, partial, rewrites>> /\ Held(p, u)
  BY DEF PassScan, ScheduledScan, env, Held
<1>2. PICK baseline : \E limit \in Nat : Scan(u, stat, baseline, limit)
  BY ScanHeld DEF IInv
<1>3. PICK limit \in Nat : Scan(u, stat, baseline, limit)
  BY <1>2
<1>4. stat \in Stat /\ Dated(u, stat) /\ ~Misread(u, stat.size)
  BY <1>1, ScanHeld DEF IInv, CheckpointInv, AloneInv
<1>5. \A q \in Process, v \in Source : ~Held(q, v)'
  BY ScanDrops DEF IInv, Held, AloneInv, Alone
<1>6. /\ row'[u] \in Checkpoint /\ row'[u] # NoRow
      /\ \A v \in Source : v # u => row'[v] = row[v]
      /\ \A e \in Events(history') \ Events(history) : e.src = u
      /\ misreads' = [misreads EXCEPT ![u] =
                        @ + IF Misread(u, stat.size) THEN 1 ELSE 0]
      /\ IF baseline /\ row[u] = NoRow THEN ScanBaseline(u, stat)
                                       ELSE ScanLines(u, stat.size, limit)
  BY <1>3, <1>4, ScanRow DEF Scan
<1> HIDE DEF stat
<1>7. misreads' = misreads
  BY <1>4, <1>6 DEF IInv, TypeOK
<1>8. ASSUME NEW s \in Source, s # u PROVE ~Misread(s, FileSize(s))'
  <2>1. row'[s] = row[s] /\ FileSize(s)' = FileSize(s)
    BY <1>1, <1>6, <1>8 DEF FileSize
  <2>2. \A e \in Events(history') : e.src = s => e \in Events(history)
    BY <1>6, <1>8
  <2> QED BY <1>1, <2>1, <2>2 DEF AloneInv, Misread, Truncated
<1>9. ~Misread(u, FileSize(u))'
  <2> SUFFICES ASSUME row'[u].offset > FileSize(u)
               PROVE  ~Misread(u, FileSize(u))'
    <3>1. FileSize(u) \in Nat /\ FileSize(u)' = FileSize(u) /\ row'[u].offset \in Nat
      BY <1>1, <1>6, RowType DEF FileSize, IInv, Checkpoint
    <3> QED BY <3>1 DEF Misread, Truncated
  <2>1. row'[u].rewrite # rewrites'[u]
    <3>1. Placed(u, row[u])'
      BY <1>6 DEF CheckpointInv
    <3>2. FileSize(u) \in Nat /\ FileSize(u)' = FileSize(u) /\ row'[u].offset \in Nat
      BY <1>1, <1>6, RowType DEF FileSize, IInv, Checkpoint
    <3> QED BY <3>1, <3>2 DEF Placed
  <2>2. ASSUME NEW e \in Events(history'), e.src = u, e.rewrite = rewrites[u],
               e.line > 0
        PROVE  FALSE
    <3>1. CASE ScanBaseline(u, stat)
      <4>1. PICK at : Insert(at) /\ \A j \in DOMAIN at : at[j].line = 0
        BY <3>1 DEF ScanBaseline
      <4>2. e \in Events(history)
        BY <2>2, <4>1, InsertEvents DEF IInv, QueueInv, QueueOrdered
      <4> QED BY <2>2, <3>1, <4>2 DEF ScanBaseline, IInv, QueueInv, Unread
    <3>2. CASE ScanLines(u, stat.size, limit)
      <4>0. PICK at : \E from \in Nat : /\ Reads(u, stat.size, at, from)
                                        /\ Begins(u, stat.size, at, from)
        BY <3>2, ScanLinesReads
      <4>1. PICK from \in Nat : /\ Reads(u, stat.size, at, from)
                                /\ Begins(u, stat.size, at, from)
        BY <4>0
      <4>2. FileSize(u) \in Nat /\ row'[u].offset \in Nat
        BY <1>6, RowType DEF IInv, Checkpoint
      <4>3. row'[u].offset = from /\ from > FileSize(u)
        BY <4>1, <4>2 DEF Begins
      <4>4. row[u] # NoRow /\ from = row[u].offset
        BY <4>1, <4>2, <4>3 DEF Begins
      <4>5. CASE e \in Events(history)
        BY <2>2, <4>2, <4>3, <4>4, <4>5 DEF AloneInv, Misread, Truncated
      <4>6. CASE e \notin Events(history)
        <5>1. PICK j \in DOMAIN at : e = at[j]
          BY <4>1, <4>6, InsertEvents DEF Reads, IInv, QueueInv, QueueOrdered
        <5>2. /\ 2 * j > from /\ 2 * j <= row'[u].offset
              /\ e.line = j /\ e.line \in Nat
          BY <2>2, <4>1, <5>1 DEF Reads, Begins
        <5> QED BY <4>2, <4>3, <5>2
      <4> QED BY <4>5, <4>6
    <3> QED BY <1>6, <3>1, <3>2
  <2> QED BY <1>1, <2>1, <2>2 DEF Misread
<1> QED BY <1>5, <1>7, <1>8, <1>9 DEF AloneInv, Alone

(* A file that grows is not shorter than before, and nothing was taken or  *)
(* queued of one that is new.                                              *)
LEMMA CodexAlone ==
  ASSUME IInv, CheckpointInv, CopiesInv, AloneInv, NEW u \in Source,
         WriteHalf(u) \/ WriteRest(u) \/ Rewrite(u)
  PROVE  AloneInv'
<1>1. UNCHANGED <<row, history, proc, misreads>>
  BY DEF WriteHalf, WriteRest, Rewrite, db, tally
<1> SUFFICES ASSUME NEW s \in Source
             PROVE  /\ ~Misread(s, FileSize(s))'
                    /\ \A p \in Process :
                         Held(p, s)' => ~Misread(s, proc[p].stat[s].size)'
  BY <1>1 DEF AloneInv, Alone
<1>2. /\ rewrites[s] \in Nat
      /\ rewrites'[s] = rewrites[s] \/ rewrites'[s] = rewrites[s] + 1
      /\ row[s] # NoRow => row[s] \in Checkpoint /\ Placed(s, row[s])
      /\ FileSize(s) \in Nat
  BY RowType DEF IInv, TypeOK, CheckpointInv, WriteHalf, WriteRest, Rewrite
<1>3. CASE rewrites'[s] = rewrites[s] + 1
  <2>1. QueuedOf(s, rewrites'[s]) = {}
    BY <1>2, <1>3, NothingEarly
  <2>2. row[s] # NoRow => row[s].rewrite # rewrites'[s]
    BY <1>2, <1>3 DEF Placed, Checkpoint
  <2>3. \A size : ~Misread(s, size)'
    BY <1>1, <2>1, <2>2 DEF Misread, QueuedOf, Truncated
  <2> QED BY <2>3
<1>4. CASE rewrites'[s] = rewrites[s]
  <2>1. \A size : Misread(s, size)' = Misread(s, size)
    BY <1>1, <1>4 DEF Misread, Truncated
  <2>2. FileSize(s)' \in Nat /\ FileSize(s) <= FileSize(s)'
    <3> DEFINE stat == Measured(s)
    <3>1. stat \in Stat /\ stat.size = FileSize(s) /\ stat.rewrite = rewrites[s]
      BY <1>2 DEF Measured, Stat
    <3> HIDE DEF stat
    <3>2. PICK c : c = stat
      OBVIOUS
    <3>3. Dated(s, c)
      BY <1>2, <3>1, <3>2 DEF Dated
    <3>4. Dated(s, c)'
      BY <3>1, <3>2, <3>3, CodexDated DEF IInv
    <3>5. FileSize(s) <= FileSize(s)'
      BY <1>4, <3>1, <3>2, <3>4 DEF Dated
    <3>6. FileSize(s)' \in Nat
      <4>1. TypeOK'
        BY CodexStep DEF IInv
      <4>2. Len(log'[s]) \in Nat /\ partial'[s] \in BOOLEAN
        BY <4>1 DEF TypeOK
      <4>3. CASE partial'[s]
        BY <4>2, <4>3 DEF FileSize
      <4>4. CASE ~partial'[s]
        BY <4>2, <4>4 DEF FileSize
      <4> QED BY <4>3, <4>4
    <3> QED BY <3>5, <3>6
  <2>3. Misread(s, FileSize(s)') => Misread(s, FileSize(s))
    <3>1. row[s] # NoRow => row[s].offset \in Nat
      BY <1>2 DEF Checkpoint
    <3> QED BY <1>2, <2>2, <3>1 DEF Misread, Truncated
  <2>4. ~Misread(s, FileSize(s))'
    BY <1>1, <1>4, <2>3 DEF AloneInv, Misread, Truncated
  <2>5. \A p \in Process : Held(p, s)' => ~Misread(s, proc[p].stat[s].size)'
    BY <1>1, <1>4 DEF AloneInv, Held, Misread, Truncated
  <2> QED BY <2>4, <2>5
<1> QED BY <1>2, <1>3, <1>4

(* A file is not mistaken for truncated by the size it has when it is      *)
(* measured.                                                               *)
LEMMA StatAlone ==
  ASSUME IInv, AloneInv, NEW p \in Process, NEW u \in Source, StatFile(p, u)
  PROVE  AloneInv'
<1>1. UNCHANGED <<log, partial, rewrites, row, history, misreads>>
  BY DEF StatFile, env, db, tally
<1>2. \A s \in Source : /\ \A size : Misread(s, size)' = Misread(s, size)
                        /\ FileSize(s)' = FileSize(s)
  BY <1>1 DEF Misread, Truncated, FileSize
<1>3. \A s \in Source : ~Misread(s, FileSize(s))'
  BY <1>1 DEF AloneInv, Misread, Truncated, FileSize
<1>4. ASSUME NEW q \in Process, NEW s \in Source, Held(q, s)'
      PROVE  ~Misread(s, proc[q].stat[s].size)'
  <2>1. CASE q = p /\ s = u
    <3>1. proc'[q].stat[s] = Measured(s)
      BY <2>1, StatTaken DEF IInv
    <3>2. proc'[q].stat[s].size = FileSize(s)
      BY <3>1 DEF Measured
    <3> QED BY <1>1, <3>2 DEF AloneInv, Misread, Truncated
  <2>2. CASE ~(q = p /\ s = u)
    <3>1. proc'[q].stat[s] = proc[q].stat[s]
      BY <2>2, StatTaken DEF IInv
    <3> QED BY <1>1, <1>4, <3>1 DEF AloneInv, Held, Misread, Truncated
  <2> QED BY <2>1, <2>2
<1> QED BY <1>1, <1>3, <1>4 DEF AloneInv, Alone

(* After a backfill no size is smaller than the checkpoint.                *)
LEMMA BackfillAlone ==
  ASSUME IInv, AloneInv, NEW p \in Process, Backfill(p)
  PROVE  AloneInv'
<1>1. UNCHANGED <<log, partial, rewrites, history, misreads>>
  BY DEF Backfill, env, tally
<1>2. proc' = [proc EXCEPT ![p] = [proc[p] EXCEPT !.pc = "relist"]]
  BY DEF Backfill, IInv, TypeOK
<1>3. \A q \in Process : proc'[q].stat = proc[q].stat
  BY <1>2 DEF IInv, TypeOK, ProcState
<1>4. ASSUME NEW s \in Source, NEW size \in Nat PROVE ~Misread(s, size)'
  <2>1. row'[s] = IF row[s] = NoRow THEN NoRow
                  ELSE [row[s] EXCEPT !.offset = 0, !.gen = @ + 1, !.start = 0]
    BY DEF Backfill
  <2>2. row'[s] # NoRow => row'[s].offset = 0
    BY <2>1, RowType DEF IInv, Checkpoint
  <2> QED BY <2>2 DEF Misread, Truncated
<1>5. \A s \in Source : ~Misread(s, FileSize(s))'
  <2>1. \A s \in Source : FileSize(s)' = FileSize(s) /\ FileSize(s) \in Nat
    BY <1>1, RowType DEF FileSize, IInv
  <2> QED BY <1>4, <2>1 DEF Misread, Truncated
<1>6. ASSUME NEW q \in Process, NEW s \in Source, Held(q, s)'
      PROVE  ~Misread(s, proc[q].stat[s].size)'
  <2>1. proc'[q].stat[s] \in Stat
    BY <1>3, <1>6, ProcTypes DEF Held, IInv
  <2>2. proc'[q].stat[s].size \in Nat
    BY <2>1 DEF Stat
  <2> QED BY <1>4, <2>2 DEF Misread, Truncated
<1> QED BY <1>1, <1>5, <1>6 DEF AloneInv, Alone

(* Every step of an agent that is alone preserves the invariant.           *)
LEMMA NextAlone ==
  /\ IInv /\ CheckpointInv /\ CheckpointInv' /\ CopiesInv
  /\ AloneInv /\ [Next]_vars
  => AloneInv'
<1> SUFFICES ASSUME IInv, CheckpointInv, CheckpointInv', CopiesInv,
                    AloneInv, [Next]_vars
             PROVE  AloneInv'
  OBVIOUS
<1>1. ASSUME UNCHANGED <<env, row, history, proc, misreads>> PROVE AloneInv'
  BY <1>1, QuietAlone DEF Held
<1>2. CASE Codex
  BY <1>2, CodexAlone DEF Codex
<1>3. CASE Agent
  <2>1. ASSUME NEW p \in Process,
               \/ Start(p) \/ BeginPass(p) \/ EndPass(p) \/ AbortPass(p)
               \/ ScanFails(p) \/ Stop(p)
        PROVE  AloneInv'
    <3>1. UNCHANGED <<env, row, history, misreads>>
      BY <2>1 DEF Start, BeginPass, EndPass, AbortPass, ScanFails, Stop, db, tally
    <3> QED BY <2>1, <3>1, StatKept, QuietAlone DEF IInv
  <2>2. ASSUME NEW p \in Process, ReadBatch(p) \/ DeleteAcked(p) \/ Fail(p)
        PROVE  AloneInv'
    <3>1. UNCHANGED <<env, row, history, proc, misreads>>
      BY <2>2 DEF ReadBatch, DeleteAcked, Fail, db, tally
    <3> QED BY <1>1, <3>1
  <2> QED BY <1>3, <2>1, <2>2, ScanAlone, StatAlone, BackfillAlone DEF Agent
<1>4. CASE Server
  <2>1. UNCHANGED <<env, row, history, proc, misreads>>
    BY <1>4 DEF Server, Commit, LateCommit, LateDrop, db, tally
  <2> QED BY <1>1, <2>1
<1>5. CASE UNCHANGED vars
  BY <1>1, <1>5 DEF vars, db, tally
<1> QED BY <1>2, <1>3, <1>4, <1>5 DEF Next

(* It takes two processes: an agent that is alone on its database never    *)
(* takes a file for truncated that is not, however often it is killed and  *)
(* whatever Codex writes between its os.Stat and its SELECT.               *)
THEOREM AloneNeverMisreads == Alone /\ Spec => []NeverMisread
<1>1. Alone /\ Init => AloneInv
  BY DEF Init, AloneInv, Misread, Truncated, Held, Off, AtRest
<1>2. AloneInv => NeverMisread
  BY DEF AloneInv, NeverMisread
<1> QED BY <1>1, <1>2, CheckpointInvariance, CopiesInvariance, NextAlone,
           PTL DEF Spec

(* An agent that is alone, and whose first look at its database and its    *)
(* files succeeds, keeps README_EN.md's promise: old history is imported   *)
(* by a backfill only.                                                     *)
THEOREM AloneKeepsHistory == Alone /\ Spec => [](errors = 0 => HistoryStays)
<1>1. ASSUME IInv, NeverMisread, BaselineBoundary, errors = 0
      PROVE  HistoryStays
  <2> SUFFICES ASSUME backfills = 0, NEW e \in Events(history), e.line > 0,
                      e.rewrite = old[e.src].rewrite
               PROVE  2 * e.line > old[e.src].size
    BY DEF HistoryStays
  <2>1. e \in Event
    BY <1>1 DEF IInv, TypeOK, QueueRow, Events
  <2>2. e.src \in Source /\ e.line \in Nat
    BY <2>1 DEF Event
  <2>3. old[e.src].size \in Int
    BY <1>1, <2>2, OldType DEF IInv
  <2>4. Whole(e.line, old[e.src].size)
    BY <1>1, <2>2 DEF NeverMisread, BaselineBoundary
  <2> QED BY <2>2, <2>3, <2>4 DEF Whole
<1> QED BY <1>1, Invariance, AloneNeverMisreads, HistoryNotImported, PTL

=============================================================================
