------------------------------ MODULE Delivery ------------------------------
(***************************************************************************)
(* From the log file to the ledger.  Agent processes read the rollout      *)
(* files Codex appends to (scanOne), keep a checkpoint per file and a      *)
(* spool of events in one SQLite database (agent.db), upload the spool in  *)
(* batches (flushSpool) and delete what was acknowledged; the server       *)
(* applies a batch in one transaction (ingest) and ignores events it has   *)
(* seen.  Any answer may be lost, any request may be late, any process may *)
(* be killed, and a one-shot process (agent -once, backfill) may run       *)
(* beside the service on the same database.  A scan measures the file      *)
(* first and reads its checkpoint later; what happens in between is here.  *)
(*                                                                         *)
(* A record is one line of a file; its numbers are left out (SourceLedger  *)
(* has them).  A file is measured in half-lines, so that a checkpoint or   *)
(* a file size can fall inside a line.                                     *)
(***************************************************************************)
EXTENDS Integers, Sequences, FiniteSets

CONSTANTS
  Source,        \* the rollout files (their source_file_id)
  Replaceable,   \* files that may be replaced by a new file of their name
  Service,       \* long-running agent processes (codex-meter agent)
  OneShot,       \* one-shot agent processes (agent -once, backfill)
  Kind,          \* kinds of line in use, a subset of LineKind
  BatchLimit,    \* flushSpool's LIMIT 256
  ChunkLimit,    \* a scheduled scan's 512 lines
  MaxLines,      \* bound: lines of one file
  MaxGeneration, \* bound: generation a counter restart may reach
  MaxTrouble,    \* bound: rewrites, backfills and errors together
  MaxLate        \* bound: requests that are late at one time

(* "usage" and "invalid" lines both carry usage counts; the counts of the  *)
(* second fail validUsageEvent.  Nothing is extracted from "other" lines.  *)
LineKind == {"usage", "invalid", "other"}

Process == Service \cup OneShot

ASSUME DeliveryAssumption ==
  /\ Kind \subseteq LineKind
  /\ Service \cap OneShot = {}
  /\ BatchLimit \in Nat \ {0}
  /\ ChunkLimit \in Nat \ {0}
  /\ {MaxLines, MaxGeneration, MaxTrouble, MaxLate} \subseteq Nat

VARIABLES
  log,           \* log[s]: the complete lines of the file, by kind
  partial,       \* partial[s]: a line without its newline ends the file
  rewrites,      \* rewrites[s]: which incarnation of the file this is
  row,           \* row[s]: the checkpoint in table files, or NoRow
  spool,         \* table spool: rows [seq, ev]
  lastSeq,       \* AUTOINCREMENT's memory of the largest seq ever used
  baselineDone,  \* meta.baseline_complete
  proc,          \* proc[p]: what the agent process is doing
  upload,        \* upload[p]: its request under way
  late,          \* batches whose sender no longer waits for the answer
  ledger,        \* DOMAIN: ingested_events; ledger[e]: times e took effect
  history,       \* history variable: every row ever put in the spool
  backfills,     \* how many backfills were started
  errors,        \* how many first looks at the database or the files failed
  misreads,      \* misreads[s]: scans that took s for truncated by mistake
  old            \* history variable: the files when the collector first ran

env    == <<log, partial, rewrites>>
db     == <<row, spool, lastSeq, history>>
server == <<ledger>>
tally  == <<backfills, errors, misreads, old>>
vars   == <<env, db, baselineDone, proc, upload, late, server, tally>>

-----------------------------------------------------------------------------
(* Data.                                                                   *)

(* The event id hashes the source, the offset, the content and the         *)
(* generation; an offset is a line number, 0 for a baseline event.         *)
Event == [src : Source, rewrite : Nat, gen : Nat, line : Nat, ok : BOOLEAN]

QueueRow == [seq : Nat, ev : Event]

Checkpoint == [offset : Nat,      \* half-lines read
               gen    : Nat,      \* generation
               start  : Nat,      \* history: where the collector began
               rewrite : Nat]     \* history: the incarnation it read

NoRow == [offset |-> -1, gen |-> 0, start |-> 0, rewrite |-> 0]

(* What os.Stat said of a file (rewrite: history, of which incarnation).   *)
Stat == [size : Nat, rewrite : Nat]

NoStat == [size |-> -1, rewrite |-> 0]

(* Nothing is measured: no scan is under way.                              *)
AtRest == [s \in Source |-> NoStat]

Off == [pc |-> "off", baseline |-> FALSE, todo |-> {}, stat |-> AtRest]

ProcState == [pc : {"off", "start", "backfill", "relist", "pass", "run"},
              baseline : BOOLEAN, todo : SUBSET Source,
              stat : [Source -> Stat \cup {NoStat}]]

Idle == [phase |-> "idle", rows |-> {}]

Events(rows) == {r.ev : r \in rows}

Seqs(rows) == {r.seq : r \in rows}

ingested == DOMAIN ledger

-----------------------------------------------------------------------------
(* Positions in a file.                                                    *)

FileSize(s) == 2 * Len(log[s]) + IF partial[s] THEN 1 ELSE 0

(* A line cut by the position has no start to parse: it is read and        *)
(* dropped.                                                                *)
Whole(k, offset) == 2 * (k - 1) >= offset

Measured(s) == [size |-> FileSize(s), rewrite |-> rewrites[s]]

(* The file was shorter than its checkpoint: it is taken for another file  *)
(* than the one that was read.                                             *)
MutantTruncated(s, size) == row[s] # NoRow /\ size <= row[s].offset

Truncated(s, size) == row[s] # NoRow /\ size < row[s].offset

(* A mistake: the file is no other one (the checkpoint was taken in it, or *)
(* lines of it are queued), but the checkpoint is newer than the size.     *)
Misread(s, size) ==
  /\ row[s] # NoRow /\ size < row[s].offset
  /\ \/ row[s].rewrite = rewrites[s]
     \/ \E e \in Events(history) :
          e.src = s /\ e.rewrite = rewrites[s] /\ e.line > 0

(* The checkpoint after lines first..last were read: a line without its    *)
(* newline is left for the next scan.                                      *)
MutantCheckpointAfter(s, offset, first, last) ==
  IF last >= first THEN FileSize(s) ELSE offset

CheckpointAfter(s, offset, first, last) ==
  IF last >= first THEN 2 * last ELSE offset

(* Where reading begins in a file first seen on the first run.             *)
MutantBaselineOffset(size) == 0

BaselineOffset(size) == size

(* The files a directory walk or the checkpoint table names.               *)
Exists(s) == FileSize(s) > 0 \/ row[s] # NoRow

Extracted(s, k) == log[s][k] \in {"usage", "invalid"}

(* The bound on what makes a run long: how much of it may happen.          *)
TroubleLeft ==
  \A s \in Source : rewrites[s] + backfills + errors < MaxTrouble

-----------------------------------------------------------------------------
Init ==
  /\ log = [s \in Source |-> <<>>]
  /\ partial = [s \in Source |-> FALSE]
  /\ rewrites = [s \in Source |-> 0]
  /\ row = [s \in Source |-> NoRow]
  /\ spool = {}
  /\ lastSeq = 0
  /\ baselineDone = FALSE
  /\ proc = [p \in Process |-> Off]
  /\ upload = [p \in Process |-> Idle]
  /\ late = {}
  /\ ledger = [e \in {} |-> 0]
  /\ history = {}
  /\ backfills = 0
  /\ errors = 0
  /\ misreads = [s \in Source |-> 0]
  /\ old = [s \in Source |-> NoStat]

-----------------------------------------------------------------------------
(* Codex writes its files: a line arrives in two writes, and a file may be *)
(* replaced by a new one of the same name.                                 *)

WriteHalf(s) ==
  /\ ~partial[s]
  /\ Len(log[s]) < MaxLines
  /\ partial' = [partial EXCEPT ![s] = TRUE]
  /\ UNCHANGED <<log, rewrites, db, baselineDone, proc, upload, late, server,
                 tally>>

WriteRest(s) ==
  /\ partial[s]
  /\ \E kind \in Kind : log' = [log EXCEPT ![s] = Append(@, kind)]
  /\ partial' = [partial EXCEPT ![s] = FALSE]
  /\ UNCHANGED <<rewrites, db, baselineDone, proc, upload, late, server,
                 tally>>

Rewrite(s) ==
  /\ s \in Replaceable
  /\ TroubleLeft
  /\ log[s] # <<>>
  /\ log' = [log EXCEPT ![s] = <<>>]
  /\ partial' = [partial EXCEPT ![s] = FALSE]
  /\ rewrites' = [rewrites EXCEPT ![s] = @ + 1]
  /\ UNCHANGED <<db, baselineDone, proc, upload, late, server, tally>>

-----------------------------------------------------------------------------
(* scanOne: one transaction per file that queues what it read and moves    *)
(* the checkpoint, or leaves the database as it was.  The file is measured *)
(* before the first SELECT; from there on the transaction sees one state   *)
(* of the database, and fails if another has committed before it writes.   *)

(* AUTOINCREMENT continues behind the largest seq ever used, so that a seq *)
(* an uploader still holds is never given to another row.                  *)
MutantSeqBase ==
  IF spool = {} THEN 0
  ELSE CHOOSE n \in Seqs(spool) : \A m \in Seqs(spool) : m <= n

SeqBase == lastSeq

(* INSERT OR IGNORE INTO spool, in reading order: at[k] is the event of    *)
(* line k.  An ignored insert uses no sequence number.                     *)
Kept(at) == {k \in DOMAIN at : at[k] \notin Events(spool)}

Place(at, k) == SeqBase + Cardinality({j \in Kept(at) : j <= k})

NewRows(at) == {[seq |-> Place(at, k), ev |-> at[k]] : k \in Kept(at)}

Insert(at) ==
  /\ spool' = spool \cup NewRows(at)
  /\ lastSeq' = SeqBase + Cardinality(Kept(at))
  /\ history' = history \cup NewRows(at)

(* A file seen for the first time on the first run: reading starts where   *)
(* it ended when it was measured (which may be inside a line) and the last *)
(* usage that is in it now is queued as the baseline.                      *)
ScanBaseline(s, stat) ==
  LET usage == {k \in 1..Len(log[s]) : Extracted(s, k)}
      valid == \A j \in usage : (\A i \in usage : i <= j)
                                   => log[s][j] = "usage"
  IN  /\ row[s] = NoRow
      /\ row' = [row EXCEPT ![s] =
                   [offset |-> BaselineOffset(stat.size), gen |-> 0,
                    start |-> stat.size, rewrite |-> stat.rewrite]]
      /\ Insert([k \in IF usage = {} THEN {} ELSE {0} |->
                  [src |-> s, rewrite |-> rewrites[s], gen |-> 0, line |-> 0,
                   ok |-> valid]])

(* Any other scan: from the checkpoint (from the top of a file first seen, *)
(* or measured shorter than its checkpoint, which is then read as a new    *)
(* generation) to the last complete line, or to the limit of a chunk.      *)
(* `restarts' are the lines at which the cumulative counter went down;     *)
(* each begins a generation.                                               *)
ScanLines(s, size, limit) ==
  LET known     == row[s] # NoRow
      offset    == IF known /\ ~Truncated(s, size) THEN row[s].offset ELSE 0
      gen0      == IF ~known THEN 0
                   ELSE row[s].gen + IF Truncated(s, size) THEN 1 ELSE 0
      first     == offset \div 2 + 1
      last      == IF Len(log[s]) < first + limit - 1
                     THEN Len(log[s]) ELSE first + limit - 1
      usage     == {k \in first..last : Extracted(s, k) /\ Whole(k, offset)}
  IN  \E restarts \in SUBSET {k \in usage : k > 1} :
        LET genAt(k) == gen0 + Cardinality({j \in restarts : j <= k})
        IN  /\ restarts = {} \/ genAt(last) <= MaxGeneration
            /\ row' = [row EXCEPT ![s] =
                 [offset |-> CheckpointAfter(s, offset, first, last),
                  gen |-> genAt(last),
                  start |-> IF known /\ ~Truncated(s, size)
                              THEN row[s].start ELSE 0,
                  rewrite |-> IF offset = 0 THEN rewrites[s]
                                            ELSE row[s].rewrite]]
            /\ Insert([k \in usage |->
                 [src |-> s, rewrite |-> rewrites[s], gen |-> genAt(k),
                  line |-> k, ok |-> log[s][k] = "usage"]])

Scan(s, stat, baseline, limit) ==
  /\ IF baseline /\ row[s] = NoRow THEN ScanBaseline(s, stat)
                                   ELSE ScanLines(s, stat.size, limit)
  /\ misreads' = [misreads EXCEPT ![s] =
                    @ + IF Misread(s, stat.size) THEN 1 ELSE 0]

-----------------------------------------------------------------------------
(* Agent processes.                                                        *)

Start(p) ==
  /\ proc[p].pc = "off"
  /\ \/ /\ proc' = [proc EXCEPT ![p] = [Off EXCEPT !.pc = "start"]]
        /\ UNCHANGED backfills
     \/ /\ p \in OneShot
        /\ TroubleLeft
        /\ proc' = [proc EXCEPT ![p] = [Off EXCEPT !.pc = "backfill"]]
        /\ backfills' = backfills + 1
  /\ UNCHANGED <<env, db, baselineDone, upload, late, server, errors, misreads,
                 old>>

(* runAgent with backfill: every known file is to be read again, under a   *)
(* new generation; the pass that follows never takes a baseline.           *)
Backfill(p) ==
  /\ proc[p].pc = "backfill"
  /\ row' = [s \in Source |->
               IF row[s] = NoRow THEN NoRow
               ELSE [row[s] EXCEPT !.offset = 0, !.gen = @ + 1,
                                   !.start = 0]]
  /\ proc' = [proc EXCEPT ![p].pc = "relist"]
  /\ UNCHANGED <<env, spool, lastSeq, history, baselineDone, upload, late,
                 server, tally>>

(* scanCodexFiles: the flag is read once, then the files are listed.  A    *)
(* flag that cannot be read counts as set, and a file or directory that    *)
(* cannot be read is passed over as if it were not there.                  *)
BeginPass(p) ==
  /\ proc[p].pc \in {"start", "relist"}
  /\ \E flag \in {baselineDone, TRUE}, todo \in SUBSET {s \in Source : Exists(s)} :
       LET failed == \/ proc[p].pc = "start" /\ flag # baselineDone
                     \/ todo # {s \in Source : Exists(s)}
       IN  /\ failed => TroubleLeft
           /\ proc' = [proc EXCEPT ![p] =
                [Off EXCEPT !.pc = "pass", !.todo = todo,
                            !.baseline = proc[p].pc = "start" /\ ~flag]]
           /\ errors' = errors + IF failed THEN 1 ELSE 0
  /\ old' = [s \in Source |-> IF old[s] = NoStat THEN Measured(s) ELSE old[s]]
  /\ UNCHANGED <<env, db, baselineDone, upload, late, server, backfills,
                 misreads>>

(* A scan begins: its transaction holds the one connection of its process, *)
(* and os.Stat measures the file.                                          *)
StatFile(p, s) ==
  /\ proc[p].stat = AtRest
  /\ \/ proc[p].pc = "pass" /\ s \in proc[p].todo
     \/ proc[p].pc = "run" /\ p \in Service /\ Exists(s)
  /\ proc' = [proc EXCEPT ![p].stat[s] = Measured(s)]
  /\ UNCHANGED <<env, db, baselineDone, upload, late, server, tally>>

(* The scan of the first pass.                                             *)
PassScan(p, s) ==
  /\ proc[p].pc = "pass"
  /\ proc[p].stat[s] # NoStat
  /\ Scan(s, proc[p].stat[s], proc[p].baseline,
          IF p \in Service THEN ChunkLimit ELSE MaxLines)
  /\ proc' = [proc EXCEPT ![p] =
               [proc[p] EXCEPT !.todo = @ \ {s}, !.stat = AtRest]]
  /\ UNCHANGED <<env, baselineDone, upload, late, server, backfills, errors,
                 old>>

(* scanScheduled: the service scans a file whenever it finds it changed.   *)
ScheduledScan(p, s) ==
  /\ proc[p].pc = "run"
  /\ proc[p].stat[s] # NoStat
  /\ Scan(s, proc[p].stat[s], FALSE, ChunkLimit)
  /\ proc' = [proc EXCEPT ![p].stat = AtRest]
  /\ UNCHANGED <<env, baselineDone, upload, late, server, backfills, errors,
                 old>>

(* A scheduled scan fails and its transaction is rolled back: the file     *)
(* cannot be read, or another process holds the database.                  *)
ScanFails(p) ==
  /\ proc[p].pc = "run"
  /\ proc[p].stat # AtRest
  /\ proc' = [proc EXCEPT ![p].stat = AtRest]
  /\ UNCHANGED <<env, db, baselineDone, upload, late, server, tally>>

(* A scan of the first pass fails: the service begins the pass again.      *)
AbortPass(p) ==
  /\ p \in Service
  /\ proc[p].pc = "pass"
  /\ proc' = [proc EXCEPT ![p] = [Off EXCEPT !.pc = "start"]]
  /\ UNCHANGED <<env, db, baselineDone, upload, late, server, tally>>

(* baseline_complete is written in a transaction of its own, at the end.   *)
EndPass(p) ==
  /\ proc[p].pc = "pass"
  /\ proc[p].todo = {}
  /\ baselineDone' = (baselineDone \/ proc[p].baseline)
  /\ proc' = [proc EXCEPT ![p] = [Off EXCEPT !.pc = "run"]]
  /\ UNCHANGED <<env, db, upload, late, server, tally>>

(* The sender is gone, or no longer waits; a request the server has not    *)
(* committed may be lost or may still be applied.                          *)
Orphan(p) ==
  \/ late' = late
  \/ /\ upload[p].phase = "sent"
     /\ Cardinality(late) < MaxLate
     /\ late' = late \cup {upload[p].rows}

(* A process ends: it is killed, or it is a one-shot process that is done  *)
(* or has met an error.  Its request may still reach the server.           *)
Stop(p) ==
  /\ proc[p].pc # "off"
  /\ proc' = [proc EXCEPT ![p] = Off]
  /\ upload' = [upload EXCEPT ![p] = Idle]
  /\ Orphan(p)
  /\ UNCHANGED <<env, db, baselineDone, server, tally>>

-----------------------------------------------------------------------------
(* flushSpool and ingest.  The service uploads beside its scans, a         *)
(* one-shot process after its pass.                                        *)

(* The first rows in seq order, at most BatchLimit of them.                *)
MutantFirstRows ==
  {r \in spool : Cardinality({q \in spool : q.seq >= r.seq}) <= BatchLimit}

FirstRows ==
  {r \in spool : Cardinality({q \in spool : q.seq <= r.seq}) <= BatchLimit}

ReadBatch(p) ==
  /\ upload[p] = Idle
  /\ spool # {}
  /\ \/ proc[p].pc = "run"
     \/ p \in Service /\ proc[p].pc # "off"
  /\ upload' = [upload EXCEPT ![p] = [phase |-> "sent", rows |-> FirstRows]]
  /\ UNCHANGED <<env, db, baselineDone, proc, late, server, tally>>

(* One server transaction: every event must be valid, and an event takes   *)
(* effect when its id was not in ingested_events.                          *)
MutantIngest(rows) ==
  /\ \A e \in Events(rows) : e.ok
  /\ ledger' = [e \in ingested \cup Events(rows) |->
                  (IF e \in ingested THEN ledger[e] ELSE 0)
                    + (IF e \in Events(rows) THEN 1 ELSE 0)]

Ingest(rows) ==
  LET fresh == Events(rows) \ ingested
  IN  /\ \A e \in Events(rows) : e.ok
      /\ ledger' = [e \in ingested \cup fresh |->
                      (IF e \in ingested THEN ledger[e] ELSE 0)
                        + (IF e \in fresh THEN 1 ELSE 0)]

Commit(p) ==
  /\ upload[p].phase = "sent"
  /\ Ingest(upload[p].rows)
  /\ upload' = [upload EXCEPT ![p].phase = "accepted"]
  /\ UNCHANGED <<env, db, baselineDone, proc, late, tally>>

(* The acknowledgement arrives and the rows that were sent are deleted by  *)
(* seq, in one transaction.  (It waits for a scan of the same process to   *)
(* end; before or after the scan, it does the same.)                       *)
DeleteAcked(p) ==
  /\ upload[p].phase = "accepted"
  /\ spool' = {r \in spool : r.seq \notin Seqs(upload[p].rows)}
  /\ upload' = [upload EXCEPT ![p] = Idle]
  /\ UNCHANGED <<env, row, lastSeq, history, baselineDone, proc, late, server,
                 tally>>

(* The upload fails for the sender: the connection, a timeout while the    *)
(* server still works on it, a lost answer, or any answer but 2xx (an      *)
(* invalid event, the rate limit, a database error).                       *)
MutantFail(p) ==
  /\ upload[p].phase # "idle"
  /\ upload' = [upload EXCEPT ![p].phase = "failed"]
  /\ Orphan(p)
  /\ UNCHANGED <<env, db, baselineDone, proc, server, tally>>

Fail(p) ==
  /\ upload[p].phase # "idle"
  /\ upload' = [upload EXCEPT ![p] = Idle]
  /\ Orphan(p)
  /\ UNCHANGED <<env, db, baselineDone, proc, server, tally>>

(* A batch nobody waits for any more is applied after all, or dropped.     *)
LateCommit(rows) ==
  /\ Ingest(rows)
  /\ late' = late \ {rows}
  /\ UNCHANGED <<env, db, baselineDone, proc, upload, tally>>

LateDrop(rows) ==
  /\ late' = late \ {rows}
  /\ UNCHANGED <<env, db, baselineDone, proc, upload, server, tally>>

-----------------------------------------------------------------------------
Codex == \E s \in Source : WriteHalf(s) \/ WriteRest(s) \/ Rewrite(s)

Agent ==
  \E p \in Process :
    \/ Start(p) \/ Backfill(p) \/ BeginPass(p) \/ EndPass(p)
    \/ AbortPass(p) \/ ScanFails(p) \/ Stop(p)
    \/ \E s \in Source : StatFile(p, s) \/ PassScan(p, s) \/ ScheduledScan(p, s)
    \/ ReadBatch(p) \/ DeleteAcked(p) \/ Fail(p)

Server ==
  \/ \E p \in Process : Commit(p)
  \/ \E rows \in late : LateCommit(rows) \/ LateDrop(rows)

Next == Codex \/ Agent \/ Server

Spec == Init /\ [][Next]_vars

(* Scans are retried every 250 ms and uploads for ever, with a bounded     *)
(* back-off, while the service runs; it is restarted when it dies.  Of the *)
(* network no more is assumed than that an upload tried for ever is not    *)
(* lost every time (strong fairness of the commit and of its answer); an   *)
(* upload is given up after the client's 10 s timeout at the latest.       *)
Fairness ==
  /\ \A s \in Source : WF_vars(WriteRest(s))
  /\ \A p \in Service :
       /\ WF_vars(Start(p)) /\ SF_vars(BeginPass(p)) /\ SF_vars(EndPass(p))
       /\ \A s \in Source : /\ SF_vars(StatFile(p, s))
                            /\ SF_vars(PassScan(p, s))
                            /\ SF_vars(ScheduledScan(p, s))
       /\ SF_vars(ReadBatch(p)) /\ SF_vars(Commit(p)) /\ SF_vars(DeleteAcked(p))
       /\ WF_vars(Fail(p))

FairSpec == Spec /\ Fairness

-----------------------------------------------------------------------------
(* Properties.                                                             *)

TypeOK ==
  /\ log \in [Source -> Seq(Kind)]
  /\ partial \in [Source -> BOOLEAN]
  /\ rewrites \in [Source -> Nat]
  /\ row \in [Source -> Checkpoint \cup {NoRow}]
  /\ spool \in SUBSET QueueRow
  /\ lastSeq \in Nat
  /\ baselineDone \in BOOLEAN
  /\ proc \in [Process -> ProcState]
  /\ upload \in [Process -> [phase : {"idle", "sent", "accepted"},
                            rows : SUBSET QueueRow]]
  /\ late \in SUBSET (SUBSET QueueRow)
  /\ ledger \in [ingested -> Nat]
  /\ ingested \subseteq Event
  /\ history \in SUBSET QueueRow
  /\ backfills \in Nat
  /\ errors \in Nat
  /\ misreads \in [Source -> Nat]
  /\ old \in [Source -> Stat \cup {NoStat}]

(* An event that entered the spool stays there until the server has        *)
(* committed it, whatever is lost, killed or deleted on the way            *)
(* (flushSpool deletes by seq, and seq numbers are never reused).          *)
NoQueuedEventLost ==
  \A r \in history : r \in spool \/ r.ev \in ingested

(* The checkpoint never passes a complete usage line whose event is not    *)
(* safe in the spool or at the server (one transaction in scanOne), in the *)
(* incarnation of the file that the checkpoint was taken in.               *)
CheckpointCovered ==
  \A s \in Source : row[s] # NoRow /\ row[s].rewrite = rewrites[s] =>
    \A k \in 1..Len(log[s]) :
      Extracted(s, k) /\ Whole(k, row[s].start) /\ 2 * k <= row[s].offset =>
        \E e \in Events(spool) \cup ingested :
          e.src = s /\ e.rewrite = rewrites[s] /\ e.line = k

(* The server never applies an event before one queued earlier: resuming   *)
(* after a failure is in order, also with two uploaders and late requests. *)
InOrder ==
  \A r, q \in history :
    q.seq < r.seq /\ r.ev \in ingested => q.ev \in ingested

(* An event takes effect at most once, however often it is uploaded.       *)
AppliedOnce == \A e \in ingested : ledger[e] = 1

(* A line gives one event, and one more for each backfill and for each     *)
(* scan that took the file for truncated because it measured it before     *)
(* another process moved the checkpoint.  Nothing else reads a line twice: *)
(* not a crash, a replaced file, a failed scan or a second process.        *)
LineQueuedOnce ==
  \A e \in Events(history) : e.line > 0 =>
    Cardinality({d \in Events(history) :
                   d.src = e.src /\ d.rewrite = e.rewrite /\ d.line = e.line})
      <= 1 + backfills + misreads[e.src]

(* A line that was in its file when the collector first ran is not         *)
(* imported, however often it is killed or its passes begin again and      *)
(* whoever else scans, unless a backfill asks for it, the baseline flag or *)
(* a file could not be read, or a scan took the file for truncated.        *)
BaselineBoundary ==
  backfills = 0 /\ errors = 0 =>
    \A e \in Events(history) :
      /\ e.line > 0
      /\ misreads[e.src] = 0
      /\ e.rewrite = old[e.src].rewrite
      => Whole(e.line, old[e.src].size)

(* README_EN.md's promise: old history (lines that were complete when the  *)
(* collector first ran) is not imported by default, that is, unless a      *)
(* backfill asks for it.                                                   *)
HistoryStays ==
  backfills = 0 =>
    \A e \in Events(history) :
      e.line > 0 /\ e.rewrite = old[e.src].rewrite
        => 2 * e.line > old[e.src].size

(* Every step, crashes and lost answers included, is a step of the         *)
(* abstract promise or changes nothing it speaks of.                       *)
Abstract == INSTANCE ExactlyOnceDelivery

Promise == Abstract!Spec

(* A complete usage line behind the starting point of its file is          *)
(* eventually in the ledger, however often uploads fail and the service is *)
(* killed (in a file that is only appended to: Replaceable is empty).      *)
Recorded(s, k) == \E e \in ingested : e.src = s /\ e.line = k

EveryLineDelivered ==
  \A s \in Source, k \in 1..MaxLines :
    /\ row[s] # NoRow
    /\ k <= Len(log[s])
    /\ log[s][k] = "usage"
    /\ Whole(k, row[s].start)
    ~> Recorded(s, k)

(* The spool drains: nothing waits for ever behind a failed upload.        *)
SpoolDrains == \A p \in Service : []<>(spool = {})

(* A file that was truncated or replaced since its checkpoint was taken is *)
(* read under a new epoch by the next scan that moves the checkpoint.      *)
TruncationAdvancesEpoch ==
  [][\A s \in Source :
       /\ row[s] # NoRow
       /\ row[s].rewrite # rewrites[s]
       /\ row[s].offset > 0
       /\ row'[s].offset # row[s].offset
       => row'[s].gen > row[s].gen]_vars

=============================================================================
