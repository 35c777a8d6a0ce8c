--------------------------- MODULE DeliveryProofs ---------------------------
(***************************************************************************)
(* Delivery's invariants, proved for every set of files and processes and  *)
(* every limit.                                                            *)
(***************************************************************************)
EXTENDS Delivery, FiniteSetTheorems, FunctionTheorems, TLAPS

-----------------------------------------------------------------------------
(* The inductive invariant.                                                *)

(* Rows are numbered in the order they were queued and no event is queued  *)
(* twice.                                                                  *)
QueueOrdered ==
  /\ spool \subseteq history
  /\ \A r \in history : r.seq \in 1..lastSeq
  /\ \A r, q \in history : r.seq = q.seq \/ r.ev = q.ev => r = q
  /\ ingested \subseteq Events(history)

(* No line behind the checkpoint has been queued in its generation.        *)
Unread ==
  \A e \in Events(history) :
    /\ row[e.src] # NoRow
    /\ e.gen <= row[e.src].gen
    /\ e.gen = row[e.src].gen => 2 * e.line <= row[e.src].offset

Batches == {upload[p].rows : p \in Process} \cup late

(* Whatever was queued before a row of a batch is in the batch or has been *)
(* applied: batches may arrive late and twice, but not too early.          *)
BatchesOrdered ==
  \A B \in Batches :
    /\ B \subseteq history
    /\ \A r \in B, q \in history :
         q.seq < r.seq => q \in B \/ q.ev \in ingested

AcceptedIngested ==
  \A p \in Process :
    upload[p].phase = "accepted" => Events(upload[p].rows) \subseteq ingested

QueueInv ==
  /\ QueueOrdered
  /\ Unread
  /\ BatchesOrdered
  /\ AcceptedIngested
  /\ NoQueuedEventLost
  /\ InOrder
  /\ AppliedOnce

IInv == TypeOK /\ QueueInv

-----------------------------------------------------------------------------
(* How many members of a set of numbers are no larger than k.              *)
Rank(K, k) == Cardinality({j \in K : j <= k})

(* In a finite set ranks run from 1 to its size and are ordered like its   *)
(* members: Insert numbers new rows in reading order, without a repeat.    *)
LEMMA RankOrder ==
  ASSUME NEW K \in SUBSET Nat, IsFiniteSet(K)
  PROVE  /\ Cardinality(K) \in Nat
         /\ \A k \in K : Rank(K, k) \in 1..Cardinality(K)
         /\ \A j, k \in K : j < k => Rank(K, j) < Rank(K, k)
<1>1. Cardinality(K) \in Nat /\ \A k \in K : k \in Nat
  BY FS_CardinalityType
<1>2. ASSUME NEW k \in Nat
      PROVE  /\ IsFiniteSet({j \in K : j <= k})
             /\ Rank(K, k) \in Nat
             /\ Rank(K, k) <= Cardinality(K)
  <2>1. {j \in K : j <= k} \in SUBSET K
    OBVIOUS
  <2> QED BY <2>1, FS_Subset, FS_CardinalityType DEF Rank
<1>3. ASSUME NEW j \in Nat, NEW k \in K, j < k
      PROVE  Rank(K, j) < Rank(K, k)
  <2> DEFINE below == {i \in K : i <= j}
  <2>1. /\ IsFiniteSet(below) /\ k \in Nat /\ k \notin below
        /\ Cardinality(below) = Rank(K, j)
    BY <1>1, <1>2, <1>3 DEF Rank
  <2>2. below \cup {k} \subseteq {i \in K : i <= k}
    <3>1. ASSUME NEW i \in below PROVE i \in K /\ i <= k
      BY <1>1, <1>3
    <3>2. k \in K /\ k <= k
      BY <2>1
    <3> HIDE DEF below
    <3> QED BY <3>1, <3>2
  <2>3. Cardinality(below \cup {k}) = Rank(K, j) + 1
    BY <2>1, FS_AddElement
  <2>4. Cardinality(below \cup {k}) <= Rank(K, k)
    BY <1>1, <1>2, <2>2, FS_Subset DEF Rank
  <2>5. Rank(K, j) \in Nat /\ Rank(K, k) \in Nat
    BY <1>1, <1>2
  <2> QED BY <2>3, <2>4, <2>5
<1>4. \A k \in K : Rank(K, k) >= 1
  <2> TAKE k \in K
  <2>1. {k} \subseteq {j \in K : j <= k}
    OBVIOUS
  <2>2. Cardinality({k}) = 1
    BY FS_Singleton
  <2>3. IsFiniteSet({j \in K : j <= k})
    BY <1>1, <1>2
  <2>4. Cardinality({k}) <= Rank(K, k)
    BY <2>1, <2>3, FS_Subset DEF Rank
  <2> QED BY <1>1, <1>2, <2>2, <2>4
<1>5. ASSUME NEW k \in K PROVE Rank(K, k) \in 1..Cardinality(K)
  <2>1. /\ Rank(K, k) \in Nat /\ Cardinality(K) \in Nat
        /\ 1 <= Rank(K, k) /\ Rank(K, k) <= Cardinality(K)
    BY <1>1, <1>2, <1>4
  <2> QED BY <2>1
<1> QED BY <1>1, <1>3, <1>5

-----------------------------------------------------------------------------
(* What a scan queues: one event per line, none of them queued before.     *)
Fresh(at, s) ==
  /\ DOMAIN at \in SUBSET Nat
  /\ IsFiniteSet(DOMAIN at)
  /\ at \in [DOMAIN at -> Event]
  /\ \A k \in DOMAIN at : at[k].src = s /\ at[k] \notin Events(history)
  /\ \A j, k \in DOMAIN at : at[j] = at[k] => j = k

(* The checkpoint c that goes with it: it moves forward, in the same       *)
(* generation or to a later one, past everything that was queued.          *)
Ahead(at, s, c) ==
  /\ c \in Checkpoint
  /\ \A k \in DOMAIN at :
       /\ at[k].gen <= c.gen
       /\ at[k].gen = c.gen => 2 * at[k].line <= c.offset
  /\ row[s] # NoRow =>
       /\ row[s].gen <= c.gen
       /\ row[s].gen = c.gen => row[s].offset <= c.offset

(* What TypeOK says of one file: its checkpoint, its lines and its size.   *)
LEMMA RowType ==
  ASSUME TypeOK, NEW s \in Source
  PROVE  /\ row[s] # NoRow => row[s] \in Checkpoint
         /\ log[s] \in Seq(Kind)
         /\ Len(log[s]) \in Nat
         /\ rewrites[s] \in Nat
         /\ FileSize(s) \in Nat
         /\ NoRow \notin Checkpoint
BY DEF TypeOK, FileSize, NoRow, Checkpoint

(* A baseline scan queues at most the one baseline event and sets the      *)
(* first checkpoint of the file.                                           *)
LEMMA ScanBaselineEffect ==
  ASSUME TypeOK, Unread, NEW s \in Source, NEW stat \in Stat,
         ScanBaseline(s, stat)
  PROVE  \E at, c : /\ Fresh(at, s) /\ Ahead(at, s, c)
                    /\ Insert(at)
                    /\ row' = [row EXCEPT ![s] = c]
<1> DEFINE usage == {k \in 1..Len(log[s]) : Extracted(s, k)}
           valid == \A j \in usage : (\A i \in usage : i <= j)
                                        => log[s][j] = "usage"
           ev == [src |-> s, rewrite |-> rewrites[s], gen |-> 0, line |-> 0,
                  ok |-> valid]
           lines == IF usage = {} THEN {} ELSE {0}
           at == [k \in lines |-> ev]
           c == [offset |-> BaselineOffset(stat.size), gen |-> 0,
                 start |-> stat.size, rewrite |-> stat.rewrite]
<1>1. row[s] = NoRow /\ Insert(at) /\ row' = [row EXCEPT ![s] = c]
  BY DEF ScanBaseline
<1>2. ev \in Event /\ ev.src = s /\ ev.gen = 0 /\ ev.line = 0
  <2>1. valid \in BOOLEAN
    OBVIOUS
  <2> HIDE DEF valid
  <2>2. rewrites[s] \in Nat
    BY RowType
  <2> QED BY <2>1, <2>2 DEF Event
<1>3. ev \notin Events(history)
  BY <1>1, <1>2 DEF Unread
<1>4. c \in Checkpoint
  BY DEF BaselineOffset, Checkpoint, Stat
<1>5. lines \in SUBSET Nat /\ IsFiniteSet(lines) /\ \A k \in lines : k = 0
  <2>1. lines = {} \/ lines = {0}
    OBVIOUS
  <2> HIDE DEF lines
  <2>2. IsFiniteSet({}) /\ IsFiniteSet({0})
    BY FS_EmptySet, FS_Singleton
  <2> QED BY <2>1, <2>2
<1> HIDE DEF ev, lines
<1>6. Fresh(at, s)
  BY <1>2, <1>3, <1>5 DEF Fresh
<1>7. Ahead(at, s, c)
  BY <1>1, <1>2, <1>4 DEF Ahead, Checkpoint
<1> QED BY <1>1, <1>6, <1>7

(* A scan of new lines queues events never queued before and moves the     *)
(* checkpoint behind them.                                                 *)
LEMMA ScanLinesEffect ==
  ASSUME TypeOK, Unread, NEW s \in Source, NEW size, NEW limit \in Nat,
         ScanLines(s, size, limit)
  PROVE  \E at, c : /\ Fresh(at, s) /\ Ahead(at, s, c)
                    /\ Insert(at)
                    /\ row' = [row EXCEPT ![s] = c]
<1> DEFINE known  == row[s] # NoRow
           offset == IF known /\ ~Truncated(s, size) THEN row[s].offset ELSE 0
           gen0   == IF ~known THEN 0
                     ELSE row[s].gen + IF Truncated(s, size) THEN 1 ELSE 0
           first  == offset \div 2 + 1
           last   == IF Len(log[s]) < first + limit - 1
                       THEN Len(log[s]) ELSE first + limit - 1
           usage  == {k \in first..last : Extracted(s, k) /\ Whole(k, offset)}
<1>1. PICK restarts \in SUBSET {k \in usage : k > 1} :
        LET genAt(k) == gen0 + Cardinality({j \in restarts : j <= k})
        IN  /\ row' = [row EXCEPT ![s] =
                 [offset |-> CheckpointAfter(s, offset, first, last),
                  gen |-> genAt(last),
                  start |-> IF known /\ ~Truncated(s, size) THEN row[s].start ELSE 0,
                  rewrite |-> IF offset = 0 THEN rewrites[s]
                                            ELSE row[s].rewrite]]
            /\ Insert([k \in usage |->
                 [src |-> s, rewrite |-> rewrites[s], gen |-> genAt(k),
                  line |-> k, ok |-> log[s][k] = "usage"]])
  BY DEF ScanLines
<1> DEFINE genAt(k) == gen0 + Cardinality({j \in restarts : j <= k})
           start == IF known /\ ~Truncated(s, size) THEN row[s].start ELSE 0
           rewrite == IF offset = 0 THEN rewrites[s] ELSE row[s].rewrite
           c == [offset |-> CheckpointAfter(s, offset, first, last),
                 gen |-> genAt(last), start |-> start, rewrite |-> rewrite]
           ev(k) == [src |-> s, rewrite |-> rewrites[s], gen |-> genAt(k),
                     line |-> k, ok |-> log[s][k] = "usage"]
           at == [k \in usage |-> ev(k)]
<1>2. /\ known => row[s] \in Checkpoint
      /\ Len(log[s]) \in Nat /\ rewrites[s] \in Nat
  BY RowType
<1>3. /\ offset \in Nat /\ gen0 \in Nat /\ start \in Nat /\ rewrite \in Nat
      /\ known => \/ offset = row[s].offset /\ gen0 = row[s].gen
                  \/ gen0 > row[s].gen
  BY <1>2 DEF Checkpoint
<1> HIDE DEF known, gen0, offset, start, rewrite
<1>4. first \in Nat /\ first >= 1 /\ 2 * first > offset /\ 2 * (first - 1) <= offset
  BY <1>3
<1>5. last \in Nat
  BY <1>2, <1>4
<1> HIDE DEF first
<1>6. /\ usage \in SUBSET Nat /\ IsFiniteSet(usage)
      /\ \A k \in usage : k \in Nat /\ first <= k /\ k <= last
  <2>1. usage \in SUBSET (first..last)
    OBVIOUS
  <2> HIDE DEF usage, last
  <2>2. IsFiniteSet(first..last)
    <3>1. first \in Int /\ last \in Int
      BY <1>4, <1>5
    <3> QED BY <3>1, FS_Interval
  <2>3. IsFiniteSet(usage)
    BY <2>1, <2>2, FS_Subset
  <2>4. ASSUME NEW k \in usage PROVE k \in Nat /\ first <= k /\ k <= last
    <3>1. k \in first..last
      BY <2>1
    <3> QED BY <1>4, <1>5, <3>1
  <2> QED BY <2>3, <2>4
<1> HIDE DEF last, usage
<1>7. restarts \in SUBSET Nat /\ IsFiniteSet(restarts)
  BY <1>6, FS_Subset
<1>8. ASSUME NEW k \in Nat PROVE genAt(k) \in Nat /\ genAt(k) >= gen0
  <2>1. {j \in restarts : j <= k} \in SUBSET restarts
    OBVIOUS
  <2>2. Cardinality({j \in restarts : j <= k}) \in Nat
    BY <1>7, <2>1, FS_Subset, FS_CardinalityType
  <2> QED BY <1>3, <2>2
<1>9. ASSUME NEW k \in Nat, k <= last PROVE genAt(k) <= genAt(last)
  <2>1. {j \in restarts : j <= k} \in SUBSET {j \in restarts : j <= last}
    <3>1. ASSUME NEW j \in restarts, j <= k PROVE j <= last
      BY <1>5, <1>7, <1>9, <3>1
    <3> QED BY <3>1
  <2>2. /\ IsFiniteSet({j \in restarts : j <= last})
        /\ IsFiniteSet({j \in restarts : j <= k})
    BY <1>7, FS_Subset
  <2>3. /\ Cardinality({j \in restarts : j <= last}) \in Nat
        /\ Cardinality({j \in restarts : j <= k}) \in Nat
        /\ Cardinality({j \in restarts : j <= k})
             <= Cardinality({j \in restarts : j <= last})
    BY <2>1, <2>2, FS_Subset, FS_CardinalityType
  <2> QED BY <1>3, <2>3
<1> HIDE DEF genAt
<1>10. /\ c \in Checkpoint /\ c.gen = genAt(last)
       /\ \A k \in usage : 2 * k <= c.offset
       /\ offset <= c.offset
  <2>1. CheckpointAfter(s, offset, first, last) \in Nat
    BY <1>3, <1>5 DEF CheckpointAfter
  <2>2. c \in Checkpoint
    BY <2>1, <1>3, <1>5, <1>8 DEF Checkpoint
  <2>3. ASSUME NEW k \in usage
        PROVE  2 * k <= CheckpointAfter(s, offset, first, last)
    <3>1. k \in Nat /\ first <= k /\ k <= last
      BY <1>6
    <3>2. last >= first
      BY <1>4, <1>5, <3>1
    <3>3. CheckpointAfter(s, offset, first, last) = 2 * last
      BY <3>2 DEF CheckpointAfter
    <3> QED BY <1>5, <3>1, <3>3
  <2>4. offset <= CheckpointAfter(s, offset, first, last)
    BY <1>3, <1>4, <1>5 DEF CheckpointAfter
  <2>5. c.gen = genAt(last) /\ c.offset = CheckpointAfter(s, offset, first, last)
    OBVIOUS
  <2> HIDE DEF c
  <2>6. \A k \in usage : 2 * k <= c.offset
    BY <2>3, <2>5
  <2> QED BY <2>2, <2>4, <2>5, <2>6
<1>11. ASSUME NEW k \in usage
       PROVE  /\ ev(k) \in Event /\ ev(k).src = s
              /\ ev(k).line = k /\ ev(k).gen = genAt(k)
              /\ ev(k) \notin Events(history)
  <2>1. /\ ev(k) \in Event /\ ev(k).src = s
        /\ ev(k).line = k /\ ev(k).gen = genAt(k)
    <3>1. k \in Nat /\ rewrites[s] \in Nat /\ genAt(k) \in Nat
      BY <1>2, <1>6, <1>8
    <3> QED BY <3>1 DEF Event
  <2>2. ASSUME ev(k) \in Events(history) PROVE FALSE
    <3>1. /\ row[s] # NoRow
          /\ genAt(k) <= row[s].gen
          /\ genAt(k) = row[s].gen => 2 * k <= row[s].offset
      BY <2>1, <2>2 DEF Unread
    <3>2. genAt(k) >= gen0 /\ genAt(k) \in Nat /\ 2 * k > offset
      BY <1>3, <1>4, <1>6, <1>8
    <3>3. row[s].gen \in Nat /\ row[s].offset \in Nat
      BY <1>2, <3>1 DEF known, Checkpoint
    <3> QED BY <1>3, <1>6, <3>1, <3>2, <3>3 DEF known
  <2> QED BY <2>1, <2>2
<1> HIDE DEF ev, c
<1>12. Fresh(at, s)
  BY <1>6, <1>11 DEF Fresh
<1>13. Ahead(at, s, c)
  <2>1. \A k \in DOMAIN at : /\ at[k].gen <= c.gen
                             /\ 2 * at[k].line <= c.offset
    BY <1>6, <1>9, <1>10, <1>11
  <2>2. row[s] # NoRow => /\ row[s].gen <= c.gen
                          /\ row[s].gen = c.gen => row[s].offset <= c.offset
    <3>1. ASSUME row[s] # NoRow
          PROVE row[s].gen \in Nat /\ row[s].offset \in Nat
      BY <1>2, <3>1 DEF known, Checkpoint
    <3>2. c.gen \in Nat /\ gen0 <= c.gen
      BY <1>5, <1>8, <1>10
    <3> QED BY <1>3, <1>10, <3>1, <3>2 DEF known
  <2> QED BY <1>10, <2>1, <2>2 DEF Ahead
<1> QED
  <2>1. Insert(at) /\ row' = [row EXCEPT ![s] = c]
    BY <1>1 DEF c, ev, genAt, start, rewrite, known, gen0, offset, first,
                last, usage
  <2> QED BY <1>12, <1>13, <2>1

(* Either kind of scan is an insert of fresh events with a checkpoint      *)
(* ahead of them.                                                          *)
LEMMA ScanEffect ==
  ASSUME TypeOK, Unread, NEW s \in Source, NEW stat \in Stat, NEW baseline,
         NEW limit \in Nat,
         Scan(s, stat, baseline, limit)
  PROVE  \E at, c : /\ Fresh(at, s) /\ Ahead(at, s, c)
                    /\ Insert(at)
                    /\ row' = [row EXCEPT ![s] = c]
BY ScanBaselineEffect, ScanLinesEffect DEF Scan

-----------------------------------------------------------------------------
(* What an insert does to the queue.                                       *)
LEMMA InsertRows ==
  ASSUME TypeOK, QueueOrdered, NEW s \in Source, NEW at,
         Fresh(at, s), Insert(at)
  PROVE  /\ history' = history \cup NewRows(at)
         /\ spool' = spool \cup NewRows(at)
         /\ lastSeq' \in Nat /\ lastSeq <= lastSeq'
         /\ NewRows(at) \in SUBSET QueueRow
         /\ \A r \in NewRows(at) :
              /\ r.seq > lastSeq /\ r.seq <= lastSeq'
              /\ r.ev \notin Events(history)
              /\ \E k \in DOMAIN at : r.ev = at[k]
         /\ \A r, q \in NewRows(at) : r.seq = q.seq \/ r.ev = q.ev => r = q
<1> DEFINE K == Kept(at)
           rowOf(k) == [seq |-> Place(at, k), ev |-> at[k]]
<1>1. K \in SUBSET Nat /\ K \in SUBSET DOMAIN at /\ IsFiniteSet(K)
  BY FS_Subset DEF Fresh, Kept
<1>2. /\ Cardinality(K) \in Nat
      /\ \A k \in K : Rank(K, k) \in 1..Cardinality(K)
      /\ \A j, k \in K : j < k => Rank(K, j) < Rank(K, k)
  BY <1>1, RankOrder
<1>3. lastSeq \in Nat
  BY DEF TypeOK
<1>4. lastSeq' = lastSeq + Cardinality(K)
  BY DEF Insert, SeqBase
<1>5. NewRows(at) = {rowOf(k) : k \in K}
  BY DEF NewRows
<1>6. ASSUME NEW k \in K PROVE Place(at, k) = lastSeq + Rank(K, k)
  BY DEF Place, Rank, SeqBase
<1> HIDE DEF K
<1>7. ASSUME NEW k \in K
      PROVE  /\ Place(at, k) \in Nat
             /\ Place(at, k) > lastSeq /\ Place(at, k) <= lastSeq'
  <2>1. Rank(K, k) \in 1..Cardinality(K)
    BY <1>2
  <2> QED BY <1>2, <1>3, <1>4, <1>6, <2>1
<1>8. ASSUME NEW j \in K, NEW k \in K, Place(at, j) = Place(at, k) \/ at[j] = at[k]
      PROVE  j = k
  <2>1. CASE at[j] = at[k]
    BY <1>1, <2>1 DEF Fresh
  <2>2. CASE Place(at, j) = Place(at, k)
    <3>1. /\ Rank(K, j) \in 1..Cardinality(K)
          /\ Rank(K, k) \in 1..Cardinality(K)
          /\ j < k => Rank(K, j) < Rank(K, k)
          /\ k < j => Rank(K, k) < Rank(K, j)
          /\ j \in Nat /\ k \in Nat
      BY <1>1, <1>2
    <3>2. Rank(K, j) = Rank(K, k)
      BY <1>2, <1>3, <1>6, <2>2, <3>1
    <3> QED BY <1>2, <3>1, <3>2
  <2> QED BY <1>8, <2>1, <2>2
<1>9. NewRows(at) \in SUBSET QueueRow
  <2>1. ASSUME NEW k \in K PROVE rowOf(k) \in QueueRow
    <3>1. at[k] \in Event /\ Place(at, k) \in Nat
      BY <1>1, <1>7 DEF Fresh
    <3> QED BY <3>1 DEF QueueRow
  <2> QED BY <1>5, <2>1
<1>10. ASSUME NEW r \in NewRows(at)
       PROVE  /\ r.seq > lastSeq /\ r.seq <= lastSeq'
              /\ r.ev \notin Events(history)
              /\ \E k \in DOMAIN at : r.ev = at[k]
  <2>1. PICK k \in K : r = rowOf(k)
    BY <1>5
  <2>2. k \in DOMAIN at /\ at[k] \notin Events(history)
    BY <1>1 DEF Fresh
  <2>3. r.seq = Place(at, k) /\ r.ev = at[k]
    BY <2>1
  <2> QED BY <1>7, <2>2, <2>3
<1>11. ASSUME NEW r \in NewRows(at), NEW q \in NewRows(at),
              r.seq = q.seq \/ r.ev = q.ev
       PROVE  r = q
  <2>1. PICK k \in K : r = rowOf(k)
    BY <1>5
  <2>2. PICK j \in K : q = rowOf(j)
    BY <1>5
  <2>3. k = j
    <3>1. Place(at, k) = Place(at, j) \/ at[k] = at[j]
      BY <1>11, <2>1, <2>2
    <3> QED BY <1>8, <3>1
  <2> QED BY <2>1, <2>2, <2>3
<1>12. history' = history \cup NewRows(at) /\ spool' = spool \cup NewRows(at)
  BY DEF Insert
<1>13. lastSeq' \in Nat /\ lastSeq <= lastSeq'
  BY <1>2, <1>3, <1>4
<1> QED BY <1>9, <1>10, <1>11, <1>12, <1>13

-----------------------------------------------------------------------------
(* A scan preserves the invariant.                                         *)
LEMMA ScanStep ==
  ASSUME TypeOK, QueueInv, NEW s \in Source, NEW stat \in Stat, NEW baseline,
         NEW limit \in Nat,
         Scan(s, stat, baseline, limit), UNCHANGED <<upload, late, ledger>>
  PROVE  /\ row' \in [Source -> Checkpoint \cup {NoRow}]
         /\ spool' \in SUBSET QueueRow
         /\ history' \in SUBSET QueueRow
         /\ lastSeq' \in Nat
         /\ QueueInv'
<1>1. PICK at, c : /\ Fresh(at, s) /\ Ahead(at, s, c)
                   /\ Insert(at)
                   /\ row' = [row EXCEPT ![s] = c]
  BY ScanEffect DEF QueueInv
<1> DEFINE new == NewRows(at)
<1>2. /\ history' = history \cup new
      /\ spool' = spool \cup new
      /\ lastSeq' \in Nat /\ lastSeq <= lastSeq'
      /\ new \in SUBSET QueueRow
      /\ \A r \in new : /\ r.seq > lastSeq /\ r.seq <= lastSeq'
                       /\ r.ev \notin Events(history)
                       /\ \E k \in DOMAIN at : r.ev = at[k]
      /\ \A r, q \in new : r.seq = q.seq \/ r.ev = q.ev => r = q
  BY <1>1, InsertRows DEF QueueInv
<1> HIDE DEF new
<1>3. /\ spool \in SUBSET QueueRow /\ history \in SUBSET QueueRow
      /\ lastSeq \in Nat
      /\ row \in [Source -> Checkpoint \cup {NoRow}]
      /\ ingested' = ingested
  BY DEF TypeOK, ingested
<1>4. \A r \in history : r.seq \in Nat /\ r.seq >= 1 /\ r.seq <= lastSeq
  BY <1>3 DEF QueueInv, QueueOrdered
<1>5. \A r \in new : r.seq \in Nat /\ r.ev \in Event /\ r.ev.src = s
  BY <1>1, <1>2 DEF QueueRow, Fresh
<1>6. \A r \in history, q \in new : r.seq < q.seq /\ r.ev # q.ev
  <2> TAKE r \in history, q \in new
  <2>1. r.seq < q.seq
    BY <1>2, <1>3, <1>4, <1>5
  <2>2. r.ev # q.ev
    BY <1>2 DEF Events
  <2> QED BY <2>1, <2>2
<1>7. /\ row' \in [Source -> Checkpoint \cup {NoRow}]
      /\ row'[s] = c /\ c \in Checkpoint
      /\ \A t \in Source : t # s => row'[t] = row[t]
  BY <1>1, <1>3 DEF Ahead
<1>8. QueueOrdered'
  <2>1. spool' \subseteq history'
    BY <1>2 DEF QueueInv, QueueOrdered
  <2>2. \A r \in history' : r.seq \in 1..lastSeq'
    <3>1. ASSUME NEW r \in history PROVE r.seq \in 1..lastSeq'
      BY <1>2, <1>3, <1>4
    <3>2. ASSUME NEW r \in new PROVE r.seq \in 1..lastSeq'
      BY <1>2, <1>3, <1>5
    <3> QED BY <1>2, <3>1, <3>2
  <2>3. ASSUME NEW r \in history', NEW q \in history',
               r.seq = q.seq \/ r.ev = q.ev
        PROVE  r = q
    <3>1. CASE r \in history /\ q \in history
      BY <2>3, <3>1 DEF QueueInv, QueueOrdered
    <3>2. CASE r \in new /\ q \in new
      BY <1>2, <2>3, <3>2
    <3>3. CASE r \in history /\ q \in new
      BY <1>4, <1>5, <1>6, <2>3, <3>3
    <3>4. CASE r \in new /\ q \in history
      BY <1>4, <1>5, <1>6, <2>3, <3>4
    <3> QED BY <1>2, <3>1, <3>2, <3>3, <3>4
  <2>4. ingested' \subseteq Events(history')
    BY <1>2, <1>3 DEF QueueInv, QueueOrdered, Events
  <2> QED BY <2>1, <2>2, <2>3, <2>4 DEF QueueOrdered
<1>9. Unread'
  <2> SUFFICES ASSUME NEW r \in history'
               PROVE  /\ row'[r.ev.src] # NoRow
                      /\ r.ev.gen <= row'[r.ev.src].gen
                      /\ r.ev.gen = row'[r.ev.src].gen
                           => 2 * r.ev.line <= row'[r.ev.src].offset
    BY DEF Unread, Events
  <2>1. CASE r \in new
    <3>1. PICK k \in DOMAIN at : r.ev = at[k]
      BY <1>2, <2>1
    <3>2. /\ r.ev.gen <= c.gen
          /\ r.ev.gen = c.gen => 2 * r.ev.line <= c.offset
      BY <1>1, <3>1 DEF Ahead
    <3>3. c # NoRow
      BY <1>7 DEF Checkpoint, NoRow
    <3> QED BY <1>5, <1>7, <2>1, <3>2, <3>3
  <2>2. CASE r \in history
    <3> DEFINE e == r.ev
    <3>1. e \in Events(history) /\ e \in Event
      BY <1>3, <2>2 DEF Events, QueueRow
    <3>2. /\ e.src \in Source /\ e.gen \in Nat /\ e.line \in Nat
      BY <3>1 DEF Event
    <3>3. /\ row[e.src] # NoRow
          /\ e.gen <= row[e.src].gen
          /\ e.gen = row[e.src].gen => 2 * e.line <= row[e.src].offset
      BY <3>1 DEF QueueInv, Unread
    <3> HIDE DEF e
    <3>4. CASE e.src # s
      BY <1>7, <3>2, <3>3, <3>4 DEF e
    <3>5. CASE e.src = s
      <4>1. /\ row[s].gen \in Nat /\ row[s].offset \in Nat
            /\ c.gen \in Nat /\ c.offset \in Nat /\ c # NoRow
        BY <1>7, <3>3, <3>5, RowType DEF Checkpoint
      <4>2. /\ row[s].gen <= c.gen
            /\ row[s].gen = c.gen => row[s].offset <= c.offset
        BY <1>1, <3>3, <3>5 DEF Ahead
      <4>3. e.gen <= c.gen
        BY <3>2, <3>3, <3>5, <4>1, <4>2
      <4>4. ASSUME e.gen = c.gen PROVE 2 * e.line <= c.offset
        <5>1. e.gen = row[s].gen /\ row[s].gen = c.gen
          BY <3>2, <3>3, <3>5, <4>1, <4>2, <4>4
        <5> QED BY <3>2, <3>3, <3>5, <4>1, <4>2, <5>1
      <4> QED BY <1>7, <3>5, <4>1, <4>3, <4>4 DEF e
    <3> QED BY <3>4, <3>5
  <2> QED BY <1>2, <2>1, <2>2
<1>10. Batches' = Batches
  BY DEF Batches
<1>11. BatchesOrdered'
  <2> SUFFICES ASSUME NEW B \in Batches
               PROVE  /\ B \subseteq history'
                      /\ \A r \in B, q \in history' :
                           q.seq < r.seq => q \in B \/ q.ev \in ingested
    BY <1>3, <1>10 DEF BatchesOrdered
  <2>1. /\ B \subseteq history
        /\ \A r \in B, q \in history :
             q.seq < r.seq => q \in B \/ q.ev \in ingested
    BY DEF QueueInv, BatchesOrdered
  <2>2. ASSUME NEW r \in B, NEW q \in new PROVE ~(q.seq < r.seq)
    BY <1>4, <1>5, <1>6, <2>1
  <2> QED BY <1>2, <2>1, <2>2
<1>12. AcceptedIngested'
  BY <1>3 DEF QueueInv, AcceptedIngested
<1>13. NoQueuedEventLost'
  BY <1>2, <1>3 DEF QueueInv, NoQueuedEventLost
<1>14. InOrder'
  <2> SUFFICES ASSUME NEW r \in history', NEW q \in history',
                      q.seq < r.seq, r.ev \in ingested
               PROVE  q.ev \in ingested
    BY <1>3 DEF InOrder
  <2>1. r \in history
    BY <1>2 DEF QueueInv, QueueOrdered
  <2>2. q \in history
    BY <1>2, <1>4, <1>5, <1>6, <2>1
  <2> QED BY <2>1, <2>2 DEF QueueInv, InOrder
<1>15. AppliedOnce'
  BY <1>3 DEF QueueInv, AppliedOnce
<1> QED
  BY <1>2, <1>3, <1>7, <1>8, <1>9, <1>11, <1>12, <1>13, <1>14, <1>15 DEF QueueInv

-----------------------------------------------------------------------------
(* Applying a batch preserves the invariant, whoever still waits for it.   *)
LEMMA IngestStep ==
  ASSUME TypeOK, QueueInv, NEW B \in Batches, Ingest(B),
         UNCHANGED <<row, spool, lastSeq, history>>
  PROVE  /\ ledger' \in [ingested' -> Nat]
         /\ ingested' = ingested \cup Events(B)
         /\ ingested' \subseteq Event
         /\ QueueOrdered' /\ Unread'
         /\ NoQueuedEventLost' /\ InOrder' /\ AppliedOnce'
<1> DEFINE fresh == Events(B) \ ingested
<1>1. ledger' = [e \in ingested \cup fresh |->
                   (IF e \in ingested THEN ledger[e] ELSE 0)
                     + (IF e \in fresh THEN 1 ELSE 0)]
  BY DEF Ingest
<1>2. ingested' = ingested \cup Events(B)
  BY <1>1 DEF ingested
<1>3. /\ B \subseteq history
      /\ \A r \in B, q \in history :
           q.seq < r.seq => q \in B \/ q.ev \in ingested
  BY DEF QueueInv, BatchesOrdered
<1>4. Events(B) \subseteq Events(history) /\ Events(history) \subseteq Event
  BY <1>3 DEF Events, TypeOK, QueueRow
<1>5. \A e \in ingested' : ledger'[e] = 1
  <2> SUFFICES ASSUME NEW e \in ingested' PROVE ledger'[e] = 1
    OBVIOUS
  <2>1. e \in ingested \cup fresh
    BY <1>2
  <2>2. CASE e \in ingested
    <3>1. ledger[e] = 1 /\ e \notin fresh
      BY <2>2 DEF QueueInv, AppliedOnce
    <3> QED BY <1>1, <2>1, <2>2, <3>1
  <2>3. CASE e \notin ingested
    <3>1. e \in fresh
      BY <2>1, <2>3
    <3> QED BY <1>1, <2>1, <2>3, <3>1
  <2> QED BY <2>2, <2>3
<1>6. ledger' \in [ingested' -> Nat]
  <2>1. ledger' = [e \in ingested' |-> ledger'[e]]
    BY <1>1 DEF ingested
  <2> QED BY <1>5, <2>1
<1>7. ingested' \subseteq Event
  BY <1>2, <1>4 DEF TypeOK
<1>8. QueueOrdered' /\ Unread'
  <2>1. QueueOrdered'
    BY <1>2, <1>4 DEF QueueInv, QueueOrdered
  <2>2. Unread'
    BY DEF QueueInv, Unread
  <2> QED BY <2>1, <2>2
<1>9. NoQueuedEventLost'
  BY <1>2 DEF QueueInv, NoQueuedEventLost
<1>10. InOrder'
  <2> SUFFICES ASSUME NEW r \in history, NEW q \in history,
                      q.seq < r.seq, r.ev \in ingested'
               PROVE  q.ev \in ingested'
    BY DEF InOrder
  <2>1. CASE r.ev \in ingested
    BY <1>2, <2>1 DEF QueueInv, InOrder
  <2>2. CASE r.ev \in Events(B)
    <3>1. PICK b \in B : b.ev = r.ev
      BY <2>2 DEF Events
    <3>2. b = r
      BY <1>3, <3>1 DEF QueueInv, QueueOrdered
    <3>3. q \in B \/ q.ev \in ingested
      BY <1>3, <3>2
    <3> QED BY <1>2, <3>3 DEF Events
  <2> QED BY <1>2, <2>1, <2>2
<1>11. AppliedOnce'
  BY <1>5 DEF AppliedOnce
<1> QED BY <1>2, <1>6, <1>7, <1>8, <1>9, <1>10, <1>11

(* Batches that were there before stay in order when more is applied.      *)
LEMMA OldBatches ==
  ASSUME BatchesOrdered, ingested \subseteq ingested', history' = history,
         Batches' \subseteq Batches \cup {{}}
  PROVE  BatchesOrdered'
BY DEF BatchesOrdered

(* The spool is finite: its rows carry different numbers up to lastSeq.    *)
LEMMA SpoolFinite ==
  ASSUME TypeOK, QueueOrdered
  PROVE  IsFiniteSet(spool)
<1> DEFINE f == [r \in spool |-> r.seq]
<1>1. lastSeq \in Nat
  BY DEF TypeOK
<1>2. f \in Injection(spool, 1..lastSeq)
  <2>1. f \in [spool -> 1..lastSeq]
    BY DEF QueueOrdered
  <2>2. \A r, q \in spool : f[r] = f[q] => r = q
    BY DEF QueueOrdered
  <2> HIDE DEF f
  <2> QED BY <2>1, <2>2, Fun_IsInj
<1>3. IsFiniteSet(1..lastSeq)
  BY <1>1, FS_Interval
<1> QED BY <1>2, <1>3, FS_Injection

(* The rows read from the spool begin with its first.                      *)
LEMMA FirstRowsOrdered ==
  ASSUME TypeOK, QueueOrdered, NoQueuedEventLost
  PROVE  /\ FirstRows \subseteq history
         /\ \A r \in FirstRows, q \in history :
              q.seq < r.seq => q \in FirstRows \/ q.ev \in ingested
<1>1. FirstRows \subseteq spool /\ spool \subseteq history
  BY DEF FirstRows, QueueOrdered
<1> SUFFICES ASSUME NEW r \in FirstRows, NEW q \in spool, q.seq < r.seq
             PROVE  q \in FirstRows
  BY <1>1 DEF NoQueuedEventLost
<1> DEFINE upTo(x) == {y \in spool : y.seq <= x.seq}
<1>2. \A x \in spool : x.seq \in Nat
  BY DEF TypeOK, QueueRow
<1>3. IsFiniteSet(upTo(r))
  <2>1. upTo(r) \in SUBSET spool
    OBVIOUS
  <2> QED BY <2>1, SpoolFinite, FS_Subset
<1>4. upTo(q) \in SUBSET upTo(r)
  BY <1>1, <1>2
<1>5. /\ Cardinality(upTo(q)) <= Cardinality(upTo(r))
      /\ IsFiniteSet(upTo(q))
  BY <1>3, <1>4, FS_Subset
<1>6. Cardinality(upTo(q)) \in Nat /\ Cardinality(upTo(r)) \in Nat
  BY <1>3, <1>5, FS_CardinalityType
<1>7. Cardinality(upTo(r)) <= BatchLimit /\ BatchLimit \in Nat
  BY DeliveryAssumption DEF FirstRows
<1>8. Cardinality(upTo(q)) <= BatchLimit
  <2> HIDE DEF upTo
  <2> QED BY <1>5, <1>6, <1>7
<1> QED BY <1>8 DEF FirstRows

-----------------------------------------------------------------------------
(* Steps that leave the queue, the ledger and the uploads alone.           *)
queueVars == <<row, spool, lastSeq, history, upload, late, ledger>>

(* A step that leaves checkpoints, spool, uploads and ledger alone         *)
(* preserves the queue invariant.                                          *)
LEMMA QueueUntouched ==
  ASSUME QueueInv, UNCHANGED queueVars
  PROVE  QueueInv'
BY DEF queueVars, QueueInv, QueueOrdered, Unread, BatchesOrdered, Batches,
       AcceptedIngested, NoQueuedEventLost, InOrder, AppliedOnce, ingested

(* Steps that only change what is uploaded.                                *)
LEMMA UploadsOnly ==
  ASSUME QueueInv, UNCHANGED <<row, spool, lastSeq, history, ledger>>,
         BatchesOrdered', AcceptedIngested'
  PROVE  QueueInv'
BY DEF QueueInv, QueueOrdered, Unread, NoQueuedEventLost, InOrder, AppliedOnce,
       ingested

Uploads == [phase : {"idle", "sent", "accepted"}, rows : SUBSET QueueRow]

(* Codex writing or replacing a file preserves the invariant.              *)
LEMMA CodexStep ==
  ASSUME TypeOK, QueueInv, NEW s \in Source,
         WriteHalf(s) \/ WriteRest(s) \/ Rewrite(s)
  PROVE  TypeOK' /\ QueueInv'
<1>1. UNCHANGED <<queueVars, baselineDone, proc, tally>>
  BY DEF WriteHalf, WriteRest, Rewrite, db, server, queueVars
<1>2. QueueInv'
  BY <1>1, QueueUntouched
<1>3. /\ log' \in [Source -> Seq(Kind)]
      /\ partial' \in [Source -> BOOLEAN]
      /\ rewrites' \in [Source -> Nat]
  <2>1. CASE WriteHalf(s)
    BY <2>1 DEF WriteHalf, TypeOK
  <2>2. CASE WriteRest(s)
    BY <2>2 DEF WriteRest, TypeOK
  <2>3. CASE Rewrite(s)
    BY <2>3 DEF Rewrite, TypeOK
  <2> QED BY <2>1, <2>2, <2>3
<1> QED
  BY <1>1, <1>2, <1>3 DEF TypeOK, queueVars, tally, ingested

(* A step that scans, and does nothing else to the queue, preserves the    *)
(* invariant.                                                              *)
LEMMA ScanKeepsInv ==
  ASSUME TypeOK, QueueInv, NEW s \in Source, NEW stat \in Stat, NEW baseline,
         NEW limit \in Nat,
         Scan(s, stat, baseline, limit),
         UNCHANGED <<env, baselineDone, upload, late, server, backfills, errors,
                     old>>,
         proc' \in [Process -> ProcState]
  PROVE  TypeOK' /\ QueueInv'
<1>1. misreads' \in [Source -> Nat]
  BY DEF Scan, TypeOK
<1> QED BY <1>1, ScanStep DEF TypeOK, env, server, ingested

(* What a sender leaves behind is its request as it was sent.              *)
LEMMA OrphanStep ==
  ASSUME TypeOK, QueueInv, NEW p \in Process, Orphan(p),
         upload' = [upload EXCEPT ![p] = Idle],
         UNCHANGED <<row, spool, lastSeq, history, ledger>>
  PROVE  /\ upload' \in [Process -> Uploads]
         /\ late' \in SUBSET (SUBSET QueueRow)
         /\ QueueInv'
<1>1. /\ upload \in [Process -> Uploads]
      /\ late \in SUBSET (SUBSET QueueRow)
  BY DEF TypeOK, Uploads
<1>2. Idle \in Uploads /\ Idle.rows = {} /\ Idle.phase # "accepted"
  BY DEF Idle, Uploads
<1>3. late' \subseteq Batches /\ late' \in SUBSET (SUBSET QueueRow)
  BY <1>1 DEF Orphan, Batches, Uploads
<1>4. /\ upload' \in [Process -> Uploads]
      /\ \A q \in Process : upload'[q] = IF q = p THEN Idle ELSE upload[q]
  BY <1>1, <1>2
<1>5. Batches' \subseteq Batches \cup {{}}
  BY <1>2, <1>3, <1>4 DEF Batches
<1>6. BatchesOrdered'
  BY <1>5, OldBatches DEF QueueInv, ingested
<1>7. AcceptedIngested'
  BY <1>2, <1>4 DEF QueueInv, AcceptedIngested, ingested
<1> QED BY <1>3, <1>4, <1>6, <1>7, UploadsOnly

(* What a process is doing is well formed whatever it does next.           *)
LEMMA ProcTypes ==
  ASSUME TypeOK, NEW p \in Process
  PROVE  /\ AtRest \in [Source -> Stat \cup {NoStat}]
         /\ Off \in ProcState
         /\ \A pc \in {"start", "backfill", "run"} :
              [Off EXCEPT !.pc = pc] \in ProcState
         /\ [proc[p] EXCEPT !.pc = "relist"] \in ProcState
         /\ [proc[p] EXCEPT !.stat = AtRest] \in ProcState
         /\ \A s \in Source :
              /\ proc[p].stat[s] # NoStat => proc[p].stat[s] \in Stat
              /\ [proc[p] EXCEPT !.stat[s] = Measured(s)] \in ProcState
              /\ [proc[p] EXCEPT !.todo = @ \ {s}, !.stat = AtRest] \in ProcState
<1>1. proc[p] \in ProcState
  BY DEF TypeOK
<1>2. AtRest \in [Source -> Stat \cup {NoStat}]
  BY DEF AtRest
<1> HIDE DEF AtRest
<1>3. Off \in ProcState
  BY <1>2 DEF Off, ProcState
<1>4. \A pc \in {"start", "backfill", "run"} : [Off EXCEPT !.pc = pc] \in ProcState
  BY <1>2 DEF Off, ProcState
<1>5. /\ [proc[p] EXCEPT !.pc = "relist"] \in ProcState
      /\ [proc[p] EXCEPT !.stat = AtRest] \in ProcState
  BY <1>1, <1>2 DEF ProcState
<1>6. ASSUME NEW s \in Source
      PROVE  /\ proc[p].stat[s] # NoStat => proc[p].stat[s] \in Stat
             /\ [proc[p] EXCEPT !.stat[s] = Measured(s)] \in ProcState
             /\ [proc[p] EXCEPT !.todo = @ \ {s}, !.stat = AtRest] \in ProcState
  <2>1. Measured(s) \in Stat
    BY RowType DEF Measured, Stat
  <2>2. proc[p].stat \in [Source -> Stat \cup {NoStat}]
    BY <1>1 DEF ProcState
  <2>3. [proc[p] EXCEPT !.stat[s] = Measured(s)] \in ProcState
    <3> DEFINE stat == [proc[p].stat EXCEPT ![s] = Measured(s)]
    <3>1. stat \in [Source -> Stat \cup {NoStat}]
      BY <2>1, <2>2
    <3>2. [proc[p] EXCEPT !.stat[s] = Measured(s)] = [proc[p] EXCEPT !.stat = stat]
      BY <1>1 DEF ProcState
    <3> HIDE DEF stat
    <3> QED BY <1>1, <3>1, <3>2 DEF ProcState
  <2>4. [proc[p] EXCEPT !.todo = @ \ {s}, !.stat = AtRest] \in ProcState
    BY <1>1, <1>2 DEF ProcState
  <2> QED BY <2>2, <2>3, <2>4
<1> QED BY <1>2, <1>3, <1>4, <1>5, <1>6

(* Starting, listing, measuring, giving up a scan, ending a pass: the      *)
(* queue is not touched.                                                   *)
LEMMA ProcessStep ==
  ASSUME TypeOK, QueueInv, NEW p \in Process,
         \/ Start(p) \/ BeginPass(p) \/ EndPass(p) \/ AbortPass(p)
         \/ ScanFails(p) \/ \E s \in Source : StatFile(p, s)
  PROVE  TypeOK' /\ QueueInv'
<1>1. UNCHANGED <<env, queueVars, misreads>>
  BY DEF Start, BeginPass, EndPass, AbortPass, ScanFails, StatFile, db, server,
         tally, queueVars
<1>2. QueueInv'
  BY <1>1, QueueUntouched
<1>3. /\ proc' \in [Process -> ProcState]
      /\ baselineDone' \in BOOLEAN
      /\ backfills' \in Nat /\ errors' \in Nat
      /\ old' \in [Source -> Stat \cup {NoStat}]
  <2>1. /\ proc \in [Process -> ProcState]
        /\ baselineDone \in BOOLEAN /\ backfills \in Nat /\ errors \in Nat
        /\ old \in [Source -> Stat \cup {NoStat}]
    BY DEF TypeOK
  <2>2. CASE Start(p)
    <3>1. \/ proc' = [proc EXCEPT ![p] = [Off EXCEPT !.pc = "start"]]
          \/ proc' = [proc EXCEPT ![p] = [Off EXCEPT !.pc = "backfill"]]
      BY <2>2 DEF Start
    <3>2. /\ baselineDone' = baselineDone /\ backfills' \in Nat
          /\ errors' = errors /\ old' = old
      BY <2>1, <2>2 DEF Start
    <3> HIDE DEF ProcState
    <3> QED BY <2>1, <3>1, <3>2, ProcTypes
  <2>3. CASE BeginPass(p)
    <3>1. PICK baseline \in BOOLEAN, todo \in SUBSET Source :
            proc' = [proc EXCEPT ![p] =
                      [Off EXCEPT !.pc = "pass", !.todo = todo,
                                  !.baseline = baseline]]
      BY <2>3 DEF BeginPass
    <3>2. [Off EXCEPT !.pc = "pass", !.todo = todo, !.baseline = baseline]
            \in ProcState
      BY ProcTypes DEF ProcState
    <3>3. errors' \in Nat /\ baselineDone' = baselineDone /\ backfills' = backfills
      <4>1. errors' = errors \/ errors' = errors + 1
        <5>1. \E failed \in BOOLEAN : errors' = errors + IF failed THEN 1 ELSE 0
          BY <2>3 DEF BeginPass
        <5> QED BY <2>1, <5>1
      <4>2. baselineDone' = baselineDone /\ backfills' = backfills
        BY <2>3 DEF BeginPass
      <4> QED BY <2>1, <4>1, <4>2
    <3>4. old' \in [Source -> Stat \cup {NoStat}]
      <4>1. \A s \in Source : Measured(s) \in Stat
        BY RowType DEF Measured, Stat
      <4> QED BY <2>1, <2>3, <4>1 DEF BeginPass
    <3> HIDE DEF ProcState
    <3> QED BY <2>1, <3>1, <3>2, <3>3, <3>4
  <2>4. CASE EndPass(p)
    <3>1. proc[p].baseline \in BOOLEAN
      BY <2>1 DEF ProcState
    <3>2. baselineDone' \in BOOLEAN
      BY <2>1, <2>4, <3>1 DEF EndPass
    <3> HIDE DEF ProcState
    <3> QED BY <2>1, <2>4, <3>2, ProcTypes DEF EndPass, tally
  <2>5. CASE AbortPass(p)
    BY <2>1, <2>5, ProcTypes DEF AbortPass, tally
  <2>6. CASE ScanFails(p)
    BY <2>1, <2>6, ProcTypes DEF ScanFails, tally
  <2>7. CASE \E s \in Source : StatFile(p, s)
    BY <2>1, <2>7, ProcTypes DEF StatFile, tally
  <2> QED BY <2>2, <2>3, <2>4, <2>5, <2>6, <2>7
<1> QED BY <1>1, <1>2, <1>3 DEF TypeOK, env, queueVars, ingested

(* A backfill moves every checkpoint to a generation of its own.           *)
LEMMA BackfillStep ==
  ASSUME TypeOK, QueueInv, NEW p \in Process, Backfill(p)
  PROVE  TypeOK' /\ QueueInv'
<1>1. UNCHANGED <<env, spool, lastSeq, history, baselineDone, upload, late,
                  ledger, tally>>
  BY DEF Backfill, server
<1>2. ASSUME NEW s \in Source, row[s] # NoRow
      PROVE  /\ row'[s] \in Checkpoint
             /\ row'[s].offset = 0 /\ row'[s].gen = row[s].gen + 1
  <2>1. row[s] \in Checkpoint
    BY <1>2, RowType
  <2>2. row'[s] = [row[s] EXCEPT !.offset = 0, !.gen = @ + 1, !.start = 0]
    BY <1>2 DEF Backfill
  <2>3. /\ row'[s] = [offset |-> 0, gen |-> row[s].gen + 1, start |-> 0,
                      rewrite |-> row[s].rewrite]
        /\ row[s].gen \in Nat /\ row[s].rewrite \in Nat
    BY <2>1, <2>2 DEF Checkpoint
  <2> QED BY <2>3 DEF Checkpoint
<1>3. ASSUME NEW s \in Source, row[s] = NoRow PROVE row'[s] = NoRow
  BY <1>3 DEF Backfill
<1>4. row' \in [Source -> Checkpoint \cup {NoRow}]
  <2>1. row' = [s \in Source |-> row'[s]]
    BY DEF Backfill
  <2> QED BY <1>2, <1>3, <2>1
<1>5. Unread'
  <2> SUFFICES ASSUME NEW r \in history
               PROVE  /\ row'[r.ev.src] # NoRow
                      /\ r.ev.gen <= row'[r.ev.src].gen
                      /\ r.ev.gen = row'[r.ev.src].gen
                           => 2 * r.ev.line <= row'[r.ev.src].offset
    BY <1>1 DEF Unread, Events
  <2>1. r.ev.src \in Source /\ r.ev.gen \in Nat
    BY DEF TypeOK, QueueRow, Event
  <2>2. row[r.ev.src] # NoRow /\ r.ev.gen <= row[r.ev.src].gen
    BY DEF QueueInv, Unread, Events
  <2>3. row[r.ev.src].gen \in Nat
    BY <2>1, <2>2, RowType DEF Checkpoint
  <2>4. row'[r.ev.src] # NoRow
    BY <1>2, <2>1, <2>2 DEF Checkpoint, NoRow
  <2> QED BY <1>2, <2>1, <2>2, <2>3, <2>4
<1>6. QueueInv'
  BY <1>1, <1>5 DEF QueueInv, QueueOrdered, BatchesOrdered, Batches,
       AcceptedIngested, NoQueuedEventLost, InOrder, AppliedOnce, ingested
<1>7. proc' \in [Process -> ProcState]
  <2>1. proc \in [Process -> ProcState]
    BY DEF TypeOK
  <2>2. [proc[p] EXCEPT !.pc = "relist"] \in ProcState
    BY ProcTypes
  <2> HIDE DEF ProcState
  <2> QED BY <2>1, <2>2 DEF Backfill
<1> QED BY <1>1, <1>4, <1>6, <1>7 DEF TypeOK, env, tally, ingested

(* Both limits of a scan are natural numbers.                              *)
LEMMA LimitType == MaxLines \in Nat /\ ChunkLimit \in Nat
BY DeliveryAssumption

(* Either action is a scan of what was measured.                           *)
LEMMA ScanHeld ==
  ASSUME TypeOK, NEW p \in Process, NEW s \in Source,
         PassScan(p, s) \/ ScheduledScan(p, s)
  PROVE  /\ proc[p].stat[s] \in Stat
         /\ \E baseline : \E limit \in Nat :
              Scan(s, proc[p].stat[s], baseline, limit)
<1>1. proc[p].stat[s] \in Stat
  BY ProcTypes DEF PassScan, ScheduledScan
<1>2. CASE PassScan(p, s)
  BY <1>1, <1>2, LimitType DEF PassScan
<1>3. CASE ScheduledScan(p, s)
  BY <1>1, <1>3, LimitType DEF ScheduledScan
<1> QED BY <1>1, <1>2, <1>3

(* A scan of the first pass, or a scheduled one, preserves the invariant.  *)
LEMMA PassScanStep ==
  ASSUME TypeOK, QueueInv, NEW p \in Process, NEW s \in Source,
         PassScan(p, s) \/ ScheduledScan(p, s)
  PROVE  TypeOK' /\ QueueInv'
<1>1. proc' \in [Process -> ProcState]
  <2>1. proc \in [Process -> ProcState]
    BY DEF TypeOK
  <2>2. PICK c \in ProcState : proc' = [proc EXCEPT ![p] = c]
    <3>1. CASE PassScan(p, s)
      <4>1. proc' = [proc EXCEPT ![p] =
                      [proc[p] EXCEPT !.todo = @ \ {s}, !.stat = AtRest]]
        BY <2>1, <3>1 DEF PassScan
      <4> QED BY <4>1, ProcTypes
    <3>2. CASE ScheduledScan(p, s)
      <4>1. proc' = [proc EXCEPT ![p] = [proc[p] EXCEPT !.stat = AtRest]]
        BY <2>1, <3>2 DEF ScheduledScan
      <4> QED BY <4>1, ProcTypes
    <3> QED BY <3>1, <3>2
  <2> QED BY <2>1, <2>2
<1>2. PICK baseline : \E limit \in Nat : Scan(s, proc[p].stat[s], baseline, limit)
  BY ScanHeld
<1>3. proc[p].stat[s] \in Stat
  BY ScanHeld
<1>4. UNCHANGED <<env, baselineDone, upload, late, server, backfills, errors, old>>
  BY DEF PassScan, ScheduledScan
<1> QED BY <1>1, <1>2, <1>3, <1>4, ScanKeepsInv

(* The senders' side of an upload.                                         *)
LEMMA SenderStep ==
  ASSUME TypeOK, QueueInv, NEW p \in Process,
         Stop(p) \/ Fail(p) \/ ReadBatch(p) \/ DeleteAcked(p)
  PROVE  TypeOK' /\ QueueInv'
<1>0. upload \in [Process -> Uploads] /\ proc \in [Process -> ProcState]
  BY DEF TypeOK, Uploads
<1>1. CASE Stop(p)
  <2>1. proc' \in [Process -> ProcState]
    BY <1>0, <1>1, ProcTypes DEF Stop
  <2>2. /\ upload' \in [Process -> Uploads]
        /\ late' \in SUBSET (SUBSET QueueRow)
        /\ QueueInv'
    BY <1>1, OrphanStep DEF Stop, db, server
  <2> QED BY <1>1, <2>1, <2>2
          DEF Stop, TypeOK, Uploads, env, db, server, tally, ingested
<1>2. CASE Fail(p)
  <2>1. /\ upload' \in [Process -> Uploads]
        /\ late' \in SUBSET (SUBSET QueueRow)
        /\ QueueInv'
    BY <1>2, OrphanStep DEF Fail, db, server
  <2> QED BY <1>2, <2>1
          DEF Fail, TypeOK, Uploads, env, db, server, tally, ingested
<1>3. CASE ReadBatch(p)
  <2> DEFINE batch == [phase |-> "sent", rows |-> FirstRows]
  <2>1. /\ upload' = [upload EXCEPT ![p] = batch]
        /\ UNCHANGED <<env, db, baselineDone, proc, late, server, tally>>
    BY <1>3 DEF ReadBatch
  <2>2. batch \in Uploads
    BY DEF Uploads, FirstRows, TypeOK
  <2>3. upload' \in [Process -> Uploads]
    BY <1>0, <2>1, <2>2
  <2>4. \A q \in Process : upload'[q] = IF q = p THEN batch ELSE upload[q]
    BY <1>0, <2>1
  <2>5. BatchesOrdered'
    <3>1. Batches' \subseteq Batches \cup {FirstRows}
      BY <2>1, <2>4 DEF Batches
    <3>2. history' = history /\ ingested' = ingested
      BY <2>1 DEF db, server, ingested
    <3>3. /\ FirstRows \subseteq history
          /\ \A r \in FirstRows, q \in history :
               q.seq < r.seq => q \in FirstRows \/ q.ev \in ingested
      BY FirstRowsOrdered DEF QueueInv
    <3>4. BatchesOrdered
      BY DEF QueueInv
    <3> QED BY <3>1, <3>2, <3>3, <3>4 DEF BatchesOrdered
  <2>6. AcceptedIngested'
    BY <2>1, <2>4 DEF QueueInv, AcceptedIngested, ingested, server
  <2>7. QueueInv'
    BY <2>1, <2>5, <2>6, UploadsOnly DEF db, server
  <2> QED BY <2>1, <2>3, <2>7
          DEF TypeOK, Uploads, env, db, server, tally, ingested
<1>4. CASE DeleteAcked(p)
  <2> DEFINE rows == upload[p].rows
  <2>1. /\ spool' = {r \in spool : r.seq \notin Seqs(rows)}
        /\ upload[p].phase = "accepted"
        /\ upload' = [upload EXCEPT ![p] = Idle]
        /\ UNCHANGED <<env, row, lastSeq, history, baselineDone, proc, late,
                       ledger, tally>>
    BY <1>4 DEF DeleteAcked, server
  <2>2. /\ \A q \in Process : upload'[q] = IF q = p THEN Idle ELSE upload[q]
        /\ upload' \in [Process -> Uploads]
        /\ Idle.rows = {} /\ Idle.phase # "accepted"
    BY <1>0, <2>1 DEF Idle, Uploads
  <2>3. rows \in Batches /\ rows \subseteq history /\ Events(rows) \subseteq ingested
    BY <2>1 DEF QueueInv, AcceptedIngested, BatchesOrdered, Batches
  <2> HIDE DEF rows
  <2>4. NoQueuedEventLost'
    <3> SUFFICES ASSUME NEW r \in history
                 PROVE  r \in spool' \/ r.ev \in ingested
      BY <2>1 DEF NoQueuedEventLost, ingested
    <3>1. CASE r.seq \in Seqs(rows)
      <4>1. PICK q \in rows : q.seq = r.seq
        BY <3>1 DEF Seqs
      <4>2. q = r
        BY <2>3, <4>1 DEF QueueInv, QueueOrdered
      <4> QED BY <2>3, <4>2 DEF Events
    <3>2. CASE r.seq \notin Seqs(rows)
      BY <2>1, <3>2 DEF QueueInv, NoQueuedEventLost
    <3> QED BY <3>1, <3>2
  <2>5. BatchesOrdered'
    <3>1. Batches' \subseteq Batches \cup {{}}
      BY <2>1, <2>2 DEF Batches
    <3> QED BY <2>1, <3>1, OldBatches DEF QueueInv, ingested
  <2>6. AcceptedIngested'
    BY <2>1, <2>2 DEF QueueInv, AcceptedIngested, ingested
  <2>7. QueueOrdered' /\ Unread' /\ InOrder' /\ AppliedOnce'
    BY <2>1 DEF QueueInv, QueueOrdered, Unread, InOrder, AppliedOnce, ingested
  <2>8. QueueInv'
    BY <2>4, <2>5, <2>6, <2>7 DEF QueueInv
  <2>9. spool' \in SUBSET QueueRow
    BY <2>1 DEF TypeOK
  <2> QED BY <2>1, <2>2, <2>8, <2>9 DEF TypeOK, Uploads, env, tally, ingested
<1> QED BY <1>1, <1>2, <1>3, <1>4

(* The server's side, for a sender that still waits and for one that does  *)
(* not.                                                                    *)
LEMMA CommitStep ==
  ASSUME TypeOK, QueueInv, NEW p \in Process, Commit(p)
  PROVE  TypeOK' /\ QueueInv'
<1> DEFINE B == upload[p].rows
<1>1. /\ Ingest(B)
      /\ upload' = [upload EXCEPT ![p].phase = "accepted"]
      /\ UNCHANGED <<env, db, baselineDone, proc, late, tally>>
  BY DEF Commit
<1>2. B \in Batches
  BY DEF Batches
<1>3. /\ ledger' \in [ingested' -> Nat]
      /\ ingested' = ingested \cup Events(B)
      /\ ingested' \subseteq Event
      /\ QueueOrdered' /\ Unread'
      /\ NoQueuedEventLost' /\ InOrder' /\ AppliedOnce'
  BY <1>1, <1>2, IngestStep DEF db
<1> HIDE DEF B
<1>4. upload \in [Process -> Uploads]
  BY DEF TypeOK, Uploads
<1>5. /\ upload' \in [Process -> Uploads]
      /\ \A q \in Process : upload'[q].rows = upload[q].rows
      /\ \A q \in Process : q # p => upload'[q] = upload[q]
  BY <1>1, <1>4 DEF Uploads
<1>6. Batches' = Batches
  BY <1>1, <1>5 DEF Batches
<1>7. BatchesOrdered'
  BY <1>1, <1>3, <1>6, OldBatches DEF QueueInv, db
<1>8. AcceptedIngested'
  <2> SUFFICES ASSUME NEW q \in Process, upload'[q].phase = "accepted"
               PROVE  Events(upload[q].rows) \subseteq ingested'
    BY <1>5 DEF AcceptedIngested
  <2>1. CASE q = p
    BY <1>3, <2>1 DEF B
  <2>2. CASE q # p
    BY <1>3, <1>5, <2>2 DEF QueueInv, AcceptedIngested
  <2> QED BY <2>1, <2>2
<1>9. QueueInv'
  BY <1>3, <1>7, <1>8 DEF QueueInv
<1> QED BY <1>1, <1>3, <1>5, <1>9 DEF TypeOK, Uploads, env, db, tally

(* A request nobody waits for preserves the invariant, whether it is       *)
(* applied or dropped.                                                     *)
LEMMA LateStep ==
  ASSUME TypeOK, QueueInv, NEW B \in late, LateCommit(B) \/ LateDrop(B)
  PROVE  TypeOK' /\ QueueInv'
<1>1. /\ late' = late \ {B}
      /\ UNCHANGED <<env, db, baselineDone, proc, upload, tally>>
  BY DEF LateCommit, LateDrop
<1>2. B \in Batches /\ Batches' \subseteq Batches
  BY <1>1 DEF Batches
<1>3. late' \in SUBSET (SUBSET QueueRow)
  BY <1>1 DEF TypeOK
<1>4. CASE LateCommit(B)
  <2>1. /\ ledger' \in [ingested' -> Nat]
        /\ ingested' = ingested \cup Events(B)
        /\ ingested' \subseteq Event
        /\ QueueOrdered' /\ Unread'
        /\ NoQueuedEventLost' /\ InOrder' /\ AppliedOnce'
    BY <1>1, <1>2, <1>4, IngestStep DEF LateCommit, db
  <2>2. BatchesOrdered'
    BY <1>1, <1>2, <2>1, OldBatches DEF QueueInv, db
  <2>3. AcceptedIngested'
    BY <1>1, <2>1 DEF QueueInv, AcceptedIngested
  <2>4. QueueInv'
    BY <2>1, <2>2, <2>3 DEF QueueInv
  <2> QED BY <1>1, <1>3, <2>1, <2>4 DEF TypeOK, env, db, tally
<1>5. CASE LateDrop(B)
  <2>1. ledger' = ledger /\ ingested' = ingested
    BY <1>5 DEF LateDrop, server, ingested
  <2>2. BatchesOrdered'
    BY <1>1, <1>2, <2>1, OldBatches DEF QueueInv, db
  <2>3. AcceptedIngested'
    BY <1>1, <2>1 DEF QueueInv, AcceptedIngested
  <2>4. QueueInv'
    BY <1>1, <2>1, <2>2, <2>3, UploadsOnly DEF db
  <2> QED BY <1>1, <1>3, <2>1, <2>4 DEF TypeOK, env, db, tally
<1> QED BY <1>4, <1>5

-----------------------------------------------------------------------------
(* The invariant holds in every reachable state.                           *)
LEMMA InitIInv == Init => IInv
<1> SUFFICES ASSUME Init PROVE IInv
  OBVIOUS
<1>1. /\ upload = [p \in Process |-> Idle] /\ late = {} /\ history = {}
      /\ spool = {} /\ ingested = {} /\ lastSeq = 0
  BY DEF Init, ingested
<1>2. QueueInv
  <2>1. \A B \in Batches : B = {}
    BY <1>1 DEF Batches, Idle
  <2>2. Events(history) = {}
    BY <1>1 DEF Events
  <2>3. AcceptedIngested
    BY <1>1 DEF AcceptedIngested, Idle
  <2>4. BatchesOrdered
    BY <2>1 DEF BatchesOrdered
  <2> QED BY <1>1, <2>2, <2>3, <2>4
          DEF QueueInv, QueueOrdered, Unread, NoQueuedEventLost, InOrder,
              AppliedOnce
<1>3. TypeOK
  <2>1. Idle \in [phase : {"idle", "sent", "accepted"}, rows : SUBSET QueueRow]
    BY DEF Idle
  <2>2. Off \in ProcState
    BY DEF Off, AtRest, ProcState
  <2>3. <<>> \in Seq(Kind)
    OBVIOUS
  <2>4. ledger \in [ingested -> Nat]
    BY DEF Init, ingested
  <2>5. /\ upload \in [Process -> [phase : {"idle", "sent", "accepted"},
                                  rows : SUBSET QueueRow]]
        /\ proc \in [Process -> ProcState]
    BY <2>1, <2>2 DEF Init
  <2>6. /\ log \in [Source -> Seq(Kind)]
        /\ partial \in [Source -> BOOLEAN]
        /\ rewrites \in [Source -> Nat]
        /\ row \in [Source -> Checkpoint \cup {NoRow}]
    BY <2>3 DEF Init
  <2>7. /\ baselineDone \in BOOLEAN /\ backfills \in Nat /\ errors \in Nat
        /\ misreads \in [Source -> Nat] /\ old \in [Source -> Stat \cup {NoStat}]
    BY DEF Init
  <2> QED BY <1>1, <2>4, <2>5, <2>6, <2>7 DEF TypeOK
<1> QED BY <1>2, <1>3 DEF IInv

(* Every step preserves the invariant: one case per action.                *)
LEMMA NextIInv == IInv /\ [Next]_vars => IInv'
<1> SUFFICES ASSUME TypeOK, QueueInv, [Next]_vars PROVE TypeOK' /\ QueueInv'
  BY DEF IInv
<1>1. CASE Codex
  BY <1>1, CodexStep DEF Codex
<1>2. CASE Agent
  <2>1. PICK p \in Process :
          \/ Start(p) \/ Backfill(p) \/ BeginPass(p) \/ EndPass(p)
          \/ AbortPass(p) \/ ScanFails(p) \/ Stop(p)
          \/ \E s \in Source : StatFile(p, s) \/ PassScan(p, s) \/ ScheduledScan(p, s)
          \/ ReadBatch(p) \/ DeleteAcked(p) \/ Fail(p)
    BY <1>2 DEF Agent
  <2>2. CASE \/ Start(p) \/ BeginPass(p) \/ EndPass(p) \/ AbortPass(p)
             \/ ScanFails(p) \/ \E s \in Source : StatFile(p, s)
    BY <2>2, ProcessStep
  <2>3. CASE Backfill(p)
    BY <2>3, BackfillStep
  <2>4. CASE \E s \in Source : PassScan(p, s) \/ ScheduledScan(p, s)
    BY <2>4, PassScanStep
  <2>5. CASE Stop(p) \/ Fail(p) \/ ReadBatch(p) \/ DeleteAcked(p)
    BY <2>5, SenderStep
  <2> QED BY <2>1, <2>2, <2>3, <2>4, <2>5
<1>3. CASE Server
  BY <1>3, CommitStep, LateStep DEF Server
<1>4. CASE UNCHANGED vars
  <2>1. UNCHANGED <<queueVars, env, baselineDone, proc, tally>>
    BY <1>4 DEF vars, env, db, server, queueVars
  <2>2. QueueInv'
    BY <2>1, QueueUntouched
  <2> QED BY <2>1, <2>2 DEF TypeOK, env, queueVars, tally, ingested
<1> QED BY <1>1, <1>2, <1>3, <1>4 DEF Next

(* In every reachable state the queue invariant holds beside the types.    *)
THEOREM Invariance == Spec => []IInv
<1> QED BY InitIInv, NextIInv, PTL DEF Spec

(* Every variable keeps its type: checkpoints, spool rows, requests and    *)
(* ledger entries are well formed after any scan, upload, crash or         *)
(* backfill.                                                               *)
THEOREM TypeCorrect == Spec => []TypeOK
<1>1. IInv => TypeOK
  BY DEF IInv
<1> QED BY <1>1, Invariance, PTL

(* flushSpool deletes only what the server has committed: whatever was     *)
(* queued is still queued or is applied.                                   *)
THEOREM QueueSafe == Spec => []NoQueuedEventLost
<1>1. IInv => NoQueuedEventLost
  BY DEF IInv, QueueInv
<1> QED BY <1>1, Invariance, PTL

(* The server applies events in the order they were queued, with any       *)
(* number of uploaders, requests that arrive late, and repeats.            *)
THEOREM Ordered == Spec => []InOrder
<1>1. IInv => InOrder
  BY DEF IInv, QueueInv
<1> QED BY <1>1, Invariance, PTL

(* No event is applied twice, however often it is uploaded.                *)
THEOREM Once == Spec => []AppliedOnce
<1>1. IInv => AppliedOnce
  BY DEF IInv, QueueInv
<1> QED BY <1>1, Invariance, PTL

-----------------------------------------------------------------------------
(* Delivery implements ExactlyOnceDelivery: a scan is an Enqueue, a commit *)
(* is a Deliver, and everything else is invisible.                         *)
LEMMA ScanEnqueues ==
  ASSUME TypeOK, QueueInv, NEW s \in Source, NEW stat \in Stat, NEW baseline,
         NEW limit \in Nat,
         Scan(s, stat, baseline, limit), ledger' = ledger
  PROVE  Abstract!Enqueue
<1>1. PICK at, c : Fresh(at, s) /\ Insert(at)
  BY ScanEffect DEF QueueInv
<1> DEFINE new == NewRows(at)
<1>2. /\ history' = history \cup new
      /\ lastSeq' \in Nat
      /\ new \in SUBSET QueueRow
      /\ \A r \in new : /\ r.seq > lastSeq
                       /\ r.ev \notin Events(history)
      /\ \A r, q \in new : r.seq = q.seq \/ r.ev = q.ev => r = q
  BY <1>1, InsertRows DEF QueueInv
<1> HIDE DEF new
<1>3. \A r \in new, q \in history : q.seq < r.seq /\ q.ev # r.ev
  <2> TAKE r \in new, q \in history
  <2>1. /\ q.seq \in Nat /\ q.seq <= lastSeq
        /\ r.seq \in Nat /\ lastSeq \in Nat
    BY <1>2 DEF QueueInv, QueueOrdered, TypeOK, QueueRow
  <2>2. q.ev # r.ev
    BY <1>2 DEF Events
  <2> QED BY <1>2, <2>1, <2>2
<1>4. new \subseteq Abstract!Row
  BY <1>2 DEF QueueRow, Abstract!Row
<1>5. history' \ history \subseteq new /\ history \subseteq history'
  BY <1>2
<1> QED BY <1>2, <1>3, <1>4, <1>5 DEF Abstract!Enqueue

(* Applying a batch is a Deliver of the abstract specification.            *)
LEMMA IngestDelivers ==
  ASSUME TypeOK, QueueInv, NEW B \in Batches, Ingest(B), history' = history
  PROVE  Abstract!Deliver
<1> DEFINE fresh == Events(B) \ ingested
<1>1. /\ ledger' = [e \in ingested \cup fresh |->
                      (IF e \in ingested THEN ledger[e] ELSE 0)
                        + (IF e \in fresh THEN 1 ELSE 0)]
      /\ DOMAIN ledger' = ingested \cup fresh
  BY DEF Ingest
<1>2. /\ fresh = DOMAIN ledger' \ DOMAIN ledger
      /\ DOMAIN ledger' = ingested \cup Events(B)
  BY <1>1 DEF ingested
<1>3. /\ B \subseteq history
      /\ \A r \in B, q \in history :
           q.seq < r.seq => q \in B \/ q.ev \in ingested
  BY DEF QueueInv, BatchesOrdered
<1>4. fresh \subseteq Abstract!Events(history)
  BY <1>3 DEF Events, Abstract!Events
<1>5. ASSUME NEW r \in history, NEW q \in history, r.ev \in fresh, q.seq < r.seq
      PROVE  q.ev \in DOMAIN ledger'
  <2>1. PICK b \in B : b.ev = r.ev
    BY <1>5 DEF Events
  <2>2. b = r
    BY <1>3, <2>1 DEF QueueInv, QueueOrdered
  <2> QED BY <1>2, <1>3, <1>5, <2>2 DEF Events
<1>6. ledger' = [e \in DOMAIN ledger \cup fresh |->
                   IF e \in fresh THEN 1 ELSE ledger[e]]
  <2>1. ASSUME NEW e \in ingested \cup fresh
        PROVE  ledger'[e] = IF e \in fresh THEN 1 ELSE ledger[e]
    <3>1. e \in ingested => ledger[e] = 1
      BY DEF QueueInv, AppliedOnce
    <3> QED BY <1>1, <3>1
  <2> HIDE DEF fresh
  <2> QED BY <1>1, <2>1 DEF ingested
<1> HIDE DEF fresh
<1> QED BY <1>2, <1>4, <1>5, <1>6 DEF Abstract!Deliver

(* Every step of Delivery is a step of the abstract specification or       *)
(* leaves its variables alone.                                             *)
LEMMA RefinedStep == IInv /\ [Next]_vars => [Abstract!Next]_(Abstract!vars)
<1> SUFFICES ASSUME TypeOK, QueueInv, [Next]_vars
             PROVE  [Abstract!Next]_(Abstract!vars)
  BY DEF IInv
<1>1. ASSUME NEW p \in Process, NEW s \in Source,
             PassScan(p, s) \/ ScheduledScan(p, s)
      PROVE  Abstract!Enqueue
  <2>1. PICK baseline : \E limit \in Nat :
          Scan(s, proc[p].stat[s], baseline, limit)
    BY <1>1, ScanHeld
  <2>2. ledger' = ledger /\ proc[p].stat[s] \in Stat
    BY <1>1, ScanHeld DEF PassScan, ScheduledScan, server
  <2> QED BY <2>1, <2>2, ScanEnqueues
<1>2. ASSUME NEW p \in Process, Commit(p) PROVE Abstract!Deliver
  <2>1. upload[p].rows \in Batches
    BY DEF Batches
  <2>2. Ingest(upload[p].rows) /\ history' = history
    BY <1>2 DEF Commit, db
  <2> QED BY <2>1, <2>2, IngestDelivers
<1>3. ASSUME NEW B \in late, LateCommit(B) PROVE Abstract!Deliver
  <2>1. B \in Batches
    BY DEF Batches
  <2>2. Ingest(B) /\ history' = history
    BY <1>3 DEF LateCommit, db
  <2> QED BY <2>1, <2>2, IngestDelivers
<1>4. CASE Codex
  BY <1>4 DEF Codex, WriteHalf, WriteRest, Rewrite, db, server, Abstract!vars
<1>5. ASSUME NEW p \in Process,
             \/ Start(p) \/ Backfill(p) \/ BeginPass(p) \/ EndPass(p)
             \/ AbortPass(p) \/ ScanFails(p) \/ Stop(p)
             \/ \E s \in Source : StatFile(p, s)
             \/ ReadBatch(p) \/ DeleteAcked(p) \/ Fail(p)
      PROVE  UNCHANGED Abstract!vars
  BY <1>5 DEF Start, Backfill, BeginPass, EndPass, AbortPass, ScanFails, Stop,
              StatFile, ReadBatch, DeleteAcked, Fail, db, server, Abstract!vars
<1>6. ASSUME NEW B \in late, LateDrop(B) PROVE UNCHANGED Abstract!vars
  BY <1>6 DEF LateDrop, db, server, Abstract!vars
<1>7. CASE UNCHANGED vars
  BY <1>7 DEF vars, db, server, Abstract!vars
<1>8. CASE Agent
  BY <1>1, <1>5, <1>8 DEF Agent, Abstract!Next
<1>9. CASE Server
  BY <1>2, <1>3, <1>6, <1>9 DEF Server, Abstract!Next
<1> QED BY <1>4, <1>7, <1>8, <1>9 DEF Next

(* Checkpoints, spool, uploads, lost and repeated requests, crashes and    *)
(* backfills together do nothing but queue events once each and apply them *)
(* once each, in order.                                                    *)
THEOREM Implements == Spec => Promise
<1>1. Init => Abstract!Init
  BY DEF Init, Abstract!Init
<1>2. IInv /\ [Next]_vars => [Abstract!Next]_(Abstract!vars)
  BY RefinedStep
<1> QED BY <1>1, <1>2, Invariance, PTL DEF Spec, Promise, Abstract!Spec

=============================================================================
