# A TLA+ model of Codex Token Meter

Codex Token Meter reads the log files Codex writes, extracts how many tokens
were used, uploads that to a server that keeps a ledger, and shows the ledger in
a browser as it changes. This directory models the way of a number: which log
file is read when, from a line in it to a counted token, and from there to what a
page shows. It holds TLA+ modules, TLC configurations that check them on small
instances, and TLAPS proofs.

`tlc -config X.cfg M` checks a run (module and configuration of each are in
`PROJECT.json`), `tlapm M.tla` a proof module.

## The system

| Component (code) | State it keeps | Operations | What makes it correct | Here |
|---|---|---|---|---|
| Checkpoints and spool (`agent.go`) | SQLite `agent.db`: `files` (offset, generation, parser context), `spool`, `meta` | `scanCodexFiles`, `scanOne`, `queueBaseline`, `backfill`, `flushSpool` | no line skipped or read twice; nothing deleted before it is committed | `Delivery` |
| Upload protocol (`agent.go`, `server.go`) | requests under way; server `ingested_events` | `flushSpool`, `ingest` | each event once, in order, eventually | `Delivery`, `ExactlyOnceDelivery` |
| Usage accounting (`server.go`, parts of `agent.go`, `parser.go`) | `source_counters`, `conversation_counters`, `usage_events` | `applyEvent`, `deltaCounts`, generations in `scanOneTx` | tokens counted are tokens used | `SourceLedger` |
| Scan scheduler and watcher (`agent_schedule.go`, `agent_watch.go`) | active, seen and pending paths, timers | `scanScheduled`, `drain`, `rememberScannedFile` | a changed file is scanned soon, and always eventually | `ScanScheduler` |
| Task runtime (`task_runtime.go`, `realtime.go`) | `task_runtime` rows, the task number | `applyRuntime`, `heartbeat`, `taskMessage` | late evidence changes nothing; an older list never replaces a newer one | `TaskFeed` |
| Event hub, numeric stream (`hub.go`, `numeric_*.go`) | dirty flags, one slot per stream, views and published bases | `mark`, `publish`, `serve`, `numericMessage`, `adoptNumericLocked` | what a page assembles is what the ledger says | `NumericStream`, `DashboardView` |
| Snapshots and caches (`snapshot_*.go`, `accounting_cache.go`, `time_range.go`) | read transactions, encoded answers, prices of events | `snapshotReader`, `get`, `cachedRangeCosts` | a snapshot holds exactly the revision it names | `NumericStream`, without the prices |
| Dashboard client (`web/app.js`, `web/realtime.js`) | range, view, request, timers | `createRangeLoader`, `applyNumbers`, `applyConfirmed`, `applyPulse` | late answers are dropped, gaps are noticed | `NumericStream`, `TaskFeed` |
| Network loop, heartbeat (`agent_schedule.go`) | failures, wake-ups, telemetry sequence | `agentNetworkLoop`, `sendHeartbeat` | a wake-up is not lost, back-off is kept | not modelled |
| Login, enrollment (`handlers.go`) | `enrollments`, login attempts | `enrollAgent`, `loginAllowed` | a token is used once | not modelled |
| Backup, restore (`commands.go`) | files | `restoreCommand` | all or nothing | not modelled |
| Metadata, prices, exchange rates, rendering, installers | | | data and arithmetic, or scripts | not modelled |

How they interact. The agent is one process with three loops (scan, upload,
heartbeat) that share `agent.db`; `agent -once` and `backfill` are further
processes on the same database. They talk to the server by HTTP requests, each
of which the server handles in one SQLite transaction under `viewMu`; a commit
marks the hub, whose publisher reads snapshots and writes to SSE clients. The
browser joins pushed numbers with snapshots it fetches.

What is hard: crashes between any two transactions; lost, late and repeated
requests; two processes on one database; a file that Codex is writing while it
is read, or replaces; cumulative counters that start again, are copied into
forked files and are shared by several conversations; state read before a lock
is released and used after. `PROJECT.json` lists the hazards line by line with
the properties that cover them.

## The modules

**`ExactlyOnceDelivery`** is the abstract promise: rows are queued in an order,
and what has been applied to the ledger is always an initial part of it, each
event once. Two actions, `Enqueue` and `Deliver`.

**`Delivery`** is the agent's database, its processes, the network and the
server's deduplication.

| Code | Model |
|---|---|
| a rollout file | `log[s]`: its complete lines by kind; `partial[s]`: a line without newline; `rewrites[s]`: its incarnation |
| tables `files`, `spool`, AUTOINCREMENT | `row[s]`, `spool`, `lastSeq` |
| `meta.baseline_complete` | `baselineDone`; `BeginPass` may fail to read it, or to list a file (`errors` counts) |
| the point a process has reached in `runAgent` | `proc[p]` |
| a request, and one whose sender has given up | `upload[p]`, `late` |
| `ingested_events` | `DOMAIN ledger`; `ledger[e]` counts the times `e` took effect |
| `os.Stat` at the head of `scanOneTx` | `StatFile`: `proc[p].stat[s]`, used when the scan goes on |
| the rest of `scanOne` (one transaction, from its first SELECT) | `Scan`: `ScanBaseline` or `ScanLines`, or `ScanFails` |
| `scanCodexFiles` | `BeginPass`, `PassScan`, `EndPass`; `AbortPass` when it fails |
| `scanScheduled` | `ScheduledScan` |
| `flushSpool` | `ReadBatch`, `Commit` (the server's part), `DeleteAcked`, or `Fail` |
| kill, and the end of a one-shot process | `Stop` |

Offsets are counted in half-lines, so that a baseline or a checkpoint may fall
inside a line. The numbers a line carries are left out; that its counter went
down (which starts a generation) is a choice of the scan (`restarts`).
`history`, `old`, `row.start` and `row.rewrite` are history variables, and so is
`misreads`, which counts the scans that took a file for truncated that nobody had
truncated.

A scan is two steps and not one: the file is measured before the SELECT that fixes
what the transaction sees, so the size may be older than the checkpoint it is
compared with. From the SELECT on it is one: SQLite lets a transaction that has read
write only if nobody else has committed since, and else the scan fails.

**`SourceLedger`** is what happens to the numbers. A line has a total, perhaps a
conversation and a turn; the agent turns it into an event with an epoch
(`Begin`, `Read`, `Baseline`); the server turns an event into a difference
(`Old`, `Reset`, `DeltaCounts`, `DedupKey`, `ApplyBaseline`, `ApplyExact`). The
queue between them is first-in first-out without loss or repetition; `Delivery`
shows that this is what agent, network and server amount to. `spent` (what was
really used), `gone` and `base` (what collection is not meant to count) are
history variables, and so is `at` in a line and its event: what was used up to it. Of the five counts of a line only the total is kept:
`deltaCounts` treats the others alike, and every comparison in `applyEvent` is of
totals. "Turn" stands for a line's `response_id` or, without one, its `turn_id`.

What Codex does is the environment, and `SourceLedger` states what it assumes:

- a counter restart shows as a smaller total, behind a line the agent has read or
  will read (else it is the "early restart" of the observations), and, where turns
  are in use, begins a turn (`TurnOptional`);
- a replaced file counts from zero and is scanned once before it reaches its old
  length (`StaysNoticeable`);
- a forked file's first line reaches the server before its parent goes on, and
  is written when the server knows the parent's total (`ForkPending`,
  `ParentInStep`); its total is its parent's and more, or less than its parent's;
- Codex does not restart a counter while the file's baseline is being taken, nor
  before it in a file whose history has several conversations;
- a backfill runs before any line was read and not over forks (else it is the
  "backfill" of the observations);
- one process collects: with a second one a file may be read again under a new
  generation (`delivery_stale`), and is then counted again as after a backfill.

Each of these is a place where the code has nothing to go by. `Allowed` lifts
some of them. `"fork restart"` is one more: a fork that counts on its own, whose
counter then starts again without a turn and reaches a total it had before, loses
that line, because the server's epoch (1 after the reset by value) and the
agent's (1 after the restart) give the same dedup key. TLC finds it from
`SourceLedger_fork.cfg` with `Turns = FALSE` and that member added to `Allowed`.

**`ScanScheduler`** is the agent's choice of files. `Delivery` may scan any file at
any time; `ScanScheduler` says when it does, and shows that no file is forgotten.

| Code | Model |
|---|---|
| a rollout file, and its name after archiving | `file[p]` for two paths per session, in half-lines |
| the checkpoint | `offset[s]`: it belongs to the session, not to the path |
| `seen` (path, size, time of last change) | `seen[s]` |
| `active` with its two minutes | `active`; `fresh` are those that cannot be too old yet |
| the watcher's set and its rescan flag | `watch`: `Add`, `Drain` |
| discovery, history and archive timers | `due`: `Elapse`, `Found` |
| `scanScheduled` | `Collect`, then `Stat`, `Read`, `Remember` for each path, `Finish`; `WalkError`, `ReadError` |
| the first pass of a process | `Start`, and the same steps with `pass.first` |

One process at a time uses the database here too. Between the stat, the read and
the remembering of one file Codex may append to it
or move it. Replaced files are `Delivery`'s subject. A pass is taken to last less
than the two minutes a path stays active.

**`NumericStream`** is the server's views of the ledger and the pages that follow
them; **`DashboardView`** is what that amounts to: the numbers of a page are those
of one moment of the ledger, over the window of one moment, and the ledger a page
shows never gets shorter.

| Code | Model |
|---|---|
| the database, `viewMu` held by an ingest from commit to mark | `ledger`, `marking`, `Unlocked` |
| a rename, which commits and marks without `viewMu` | `Rename`, `MarkRename`, `unmarked` |
| `snapshotReader` of the publisher and of a request | `PinRange` and `ServeRead`, `Pin` and `Read`: first the reading of the ledger, later the hub's numbers |
| hub: epoch, data revision, full revision, dirty | `hub` |
| `numericViews`, `adoptNumericLocked`, eviction | `views`, `Adopt` |
| `prepareIncremental`, or a full build | `BuildFrom`: `Incremental`, `Touched` |
| `publish`, and its loop over the streams | `Publish`, `Serve` |
| `numericWindowDue` | `WindowDue` |
| snapshot requests and their cache | `Arrive`, `Hit`, `Read`, `Store`, `Answer` |
| `ready`, `heartbeat`, `numbers`, `resync` | `Register`, `Heartbeat`, `Handle` |
| `createRangeLoader` | `Loads`, `Ended`, `Receive`, `Abort` |
| the page's timers, hiding and showing it | `Refresh`, `Late`, `Fallback`, `Suspend`, `Resume` |

An entry of the ledger is of one of four kinds. A *usage* counts one token and moves
the sequence number; *metadata* (names the agent found) moves the full revision too;
both are marked under `viewMu`. A *rename* moves the full revision without the lock.
An *activity* stands for the events that change fields of a row and move no number
(`activity` and `live_estimate`: state, model, project, estimate, last event). A row
has its usage, its metadata, and what renames and activities made of it (`shown`).

Of the rest of a page only this is said: the total and its price are read again in
every build, also an incremental one, and the rows' prices and the sums of projects
are worked out anew from all rows (`snapshotBetween`). Purchases, price rules and
exchange rates change no row; a purchase marks the hub, a refresh of prices or rates
marks nothing and is seen with the next mark. They are not modelled.

**`TaskFeed`** is the other thing a page shows, which task is running: `Commit` is
`applyRuntime`, `Mark` moves the task number, and the list reaches the page by a
wake-up (`tasks`), a heartbeat, a frame of numbers or a whole view. `Begin` reads
the number and `Send` the rows, as the stream's goroutine does without a lock.
`Confirmed` and `Pulse` are the page's two ways of taking a list. It repeats of
`NumericStream` only what a list travels with, and chooses among the outcomes of
the rest (whether a frame fits the page's base, how old a kept view is).

**`MCSourceLedger`**, **`MCNumericStream`** and **`MCTaskFeed`** give constants
their values: which file is forked from which, how long a day is, what Codex wrote
about a task. **`DeliveryProofs`**, **`CheckpointProofs`**,
**`SourceLedgerProofs`**, **`OvercountProofs`**, **`ExactnessProofs`**,
**`ScanSchedulerProofs`**, **`NumericStreamProofs`** and **`TaskFeedProofs`** hold the
theorems.

How they compose. `ScanScheduler` gives `Delivery` its scans, `Delivery` gives
`SourceLedger` a queue without loss or repetition, and what `SourceLedger` counts
is what `NumericStream` and `TaskFeed` call an entry or an event of the ledger.

## The runs

| Run | Instance | Result |
|---|---|---|
| `delivery_queue` | a service and a one-shot process, one file of 2 lines with a counter restart, one late request | holds: nothing queued is lost, reordered or applied twice; no line is skipped; it implements `ExactlyOnceDelivery` |
| `delivery_scan` | the same two processes and file, with one rewrite, backfill or failed look | holds: no line is skipped; a line is read once, and history not at all, but for what is counted: backfills, failed looks, and sizes older than another process's checkpoint |
| `delivery_liveness` | a service, one file of 2 lines, chunks of 1 line, one failed look and one late request | holds: every usage line is delivered; the spool drains |
| `delivery_stale` | two processes, one file that is only appended to, no backfill and no failure | violated: a scan with an old size reads the file's history as new usage |
| `delivery_regrow` | one file that is replaced | violated: a replaced file that has grown past the checkpoint is not noticed |
| `ledger_accounting` | one file of 3 lines, two conversations, turns, restarts, one replacement, early backfill | holds: never more counted than used, and exactly what was used once all is applied |
| `ledger_fork` | a parent of one line and a fork of three | holds |
| `numeric_page` | one page on a rolling range, two of: an entry of any kind, a tick, a trouble of any kind | holds: the usage and metadata of views and pages are exact, equal revisions have equal rows, a sequence number covers the usage and metadata recorded before it; it implements `DashboardView`; the page gets to the last number (310 thousand states) |
| `numeric_peers` | two pages, one of them opened in the background, a rolling and a calendar range, room for one view, one entry, tick or trouble | holds: also when one page's request moves the base of the other's next difference, when a view is evicted under its subscriber, and when an answer for a former range is late (411 thousand states) |
| `numeric_rename` | one page, a usage and a rename | violated: the page has the server's number and the old name |
| `scan_scheduler` | one session of 2 lines with both its paths, a chunk of one line, a watcher for one path, two troubles | holds: a file is passed over only when it was read; unread lines are on their way; every line is read (278 thousand states) |
| `task_feed` | five logs of two events in both orders, one restart, broken stream, lost answer or message that is not taken | holds: the newest evidence decides; an estimate is of what is not settled; a page never shows less than it promised, and at last the task as it is (316 thousand states) |

Bounds. One file is enough for `Delivery`'s scans, since a scan touches one
row and its own events; the interesting sharing is between processes, and there
are two. Two lines give a first and a later line, a chunk smaller than the file
and a batch smaller than the spool (a scan queues at most two events, a batch
holds two, the baseline and generations add more). `MaxTrouble` bounds rewrites,
backfills and failed looks together, `MaxLate` the requests that are late at one
time; kills, failed scans, lost answers and repeats are not bounded. There are two
runs because scans and uploads meet only in the spool: `delivery_queue` has all of
the upload and a file that grows; `delivery_scan` has what disturbs scans, and lines
the server refuses (`Kind = {"invalid"}`), so that uploads are tried and fail but do
not multiply the states: what becomes of a spooled row is nothing a scan looks at.
In `SourceLedger` three lines are a baseline, a restart or a second
conversation, and a line that shows the damage; increments of 0, 1 and 2 give
equal, larger and smaller totals.

`NumericStream` bounds entries, ticks and troubles together (`MaxEvents`), because
a question about it needs one or two of them and then all the interleavings of
publisher, request, stream and timers that follow, which are not bounded. Two give
an entry that is published while another is committed, an entry that a tick takes
out of the window, an entry before or after a restart. The rolling window is one
tick long and the calendar turns at the second, so that one tick passes an edge. A
cache of one view shows what one of eight does: the ninth evicts. With `MaxViews`
1 and two ranges every build evicts a view somebody reads.

In `ScanScheduler` a chunk of one line makes a file of two need two scans; a
watcher for one path overflows when a session is archived, since both names are
noted. `MaxTrouble` 2 lets a crash meet a failed walk. In `TaskFeed` a log is a
pair of events because `applyRuntime` compares an event with what is known; the
five pairs are those that differ in turn, kind or time in a way it tells apart,
and it is proved for all logs. One trouble is enough for a list of the former
server to meet the first of the next, which numbers from zero again; requests are
not bounded.

What no bound can settle is proved, but for `DashboardView` and liveness.

Deadlock is not checked: every run stops when its bounds are reached.

Fairness (`Delivery!Fairness`). Codex finishes a line it began. The service is
restarted when it dies (`Restart=always` in `deploy/`), goes through its first
pass, scans every 250 ms and uploads for ever. A process may be killed again and
again, so its steps get strong fairness: killed for ever before it has done one
step, no program delivers anything. Of the network no more is assumed than that
an upload tried for ever is not lost every time. `Stop`, `Orphan`, `LateCommit`
and the one-shot process have no fairness at all.

`ScanScheduler!FairSpec`: the collector's loop goes on every quarter of a second
and timers run out. Nothing is written and nothing goes wrong by fairness.

`NumericStream!Fairness`: the handler that committed also marks, the publisher's
ticker runs, and the page's timers fire. Requests wait for a lock others take
again and again, so they get strong fairness. So does the heartbeat, and it has
to: a page that still expects the former server turns the new one's view away and
opens its stream anew, and if every stream is closed before its first heartbeat
the page goes on like that. `TaskFeed!FairSpec` assumes the same of `Send` and
`Handle`, for the same reason. The first heartbeat is written when the stream
opens, while the view takes a request of its own: losing that race for ever is not
what the code does.

Every property has a mutant in `PROJECT.json`: a plausible mistake in one
definition under which the same run finds the property violated.

## The proofs

For every set of files and processes, every limit and every bound,
`DeliveryProofs` shows that types, `NoQueuedEventLost`, `InOrder` and
`AppliedOnce` hold and that `Delivery` implements `ExactlyOnceDelivery`;
`CheckpointProofs` adds `CheckpointCovered`, `BaselineBoundary` and
`LineQueuedOnce`. Both rest on `DeliveryAssumption` (limits are positive, bounds
natural, a process is a service or a one-shot process) and on nothing else. What
these two count as exceptions is not hidden in them: `AloneNeverMisreads` shows that
a process alone on its database never takes a file for truncated by mistake, and
`AloneKeepsHistory` that then, if the flag and the files could be read, old history
is imported by a backfill only.
`SourceLedgerProofs` shows `TypeOK`, `OvercountProofs` `NoOvercount` and
`ExactnessProofs` `ExactWhenQuiet`, for any files, forks, conversations, turns and
increments (`LedgerAssumption`). The second has the hypothesis that no history is
imported after lines were read (`"backfill" \notin Allowed`), without which it is
false, as TLC shows with `Allowed = {"backfill"}`; early restarts, restarts of forks and replaced
files may all happen. The third allows replaced files only (`Allowed \subseteq
{"rewrite"}`): an early restart loses its usage, as TLC shows when it is allowed, and so
does a fork's restart without a turn. Restarts the agent can see, forks,
baselines and an early backfill are part of both.
`NumericStreamProofs` shows `TypeOK`, `ViewExact`, `SameRevisionSameRows`,
`SeqCovers` and `RangeChosen`, and that the usage and metadata on every page are
those of one reading of the ledger (`PageExact`), for any pages, ranges and sizes of the server's stores
(`StreamAssumption`). `ScanSchedulerProofs` shows `TypeOK`, `PassedOverWhenRead`
and `Noticed` for every finite set of sessions, chunk and watcher
(`SchedulerAssumption`); `TaskFeedProofs` shows `NewestDecides`
and `EstimateIsOpen` for every log, and `TypeOK` and `NeverBehind` (`FeedAssumption`: events have a kind, a turn and a positive time).

*Delivery.* `InOrder` is not inductive: a request that arrives late could be
applied before its time unless it is known what it holds. The inductive
invariant `IInv` therefore says of every batch anyone still holds, also a late
one, that whatever was queued before one of its rows is in it or has been applied
(`BatchesOrdered`). That a batch begins with the first rows of the spool gives it
when the batch is read (`FirstRowsOrdered`), and deletion keeps it because what is
deleted was applied (`AcceptedIngested`) and seq numbers are not reused
(`QueueOrdered`: rows are numbered in order, up to `lastSeq`, with one row per
event). That a scan never queues an event a second time needs `Unread`: every
queued event is behind the checkpoint of its generation, or of an earlier one.
`Insert` numbers rows by rank, and `RankOrder` shows that ranks are distinct and
ordered. For the refinement a scan is shown to be an `Enqueue`, a commit, on time
or late, a `Deliver`, and every other step a stutter.

`CheckpointInv` says where a checkpoint can stand (at the end of a line, unless
it is still where reading began), that every usage line it has passed was queued,
and that a size someone holds is of the file as it is or was, and no larger. With
`NoQueuedEventLost` this gives `CheckpointCovered`.

`LineQueuedOnce` counts events against backfills and misreadings. A backfill is
counted when it starts, before it sends the checkpoints back. `CopiesInv` counts
those that have done so (`Rewound`): a line ahead of the checkpoint was queued no
more often than that, a line behind it once more. A truncation that is none sends
the checkpoint back and is counted in `misreads`; a true one is not counted, since
it meets an incarnation of which nothing was queued, which is what `Misread` tells
apart.

`BaselineBoundary` is about files that were there when the collector first ran
(`old`). `HistoryInv` follows such a file: a size that is held, or that a checkpoint
started from, is no smaller than the old one (`After`, `Boundary`), and once the flag
is set, or a process no longer takes a baseline of the file, there is a checkpoint or
nothing old left to read (`Settled`, `Looked`).

For one process (`Alone`) a size is taken and used with no other scan between, so
it is not older than the checkpoint; and what was queued of the present incarnation
is inside the file (`AloneInv`).

*Ledger.* `NoOvercount` says nothing of what is on its way, and an event is charged
by what the watermark is when it arrives. The invariant goes along the events of a
file that wait in the queue, and the place its reader has reached, treated as one
more event (`Anchor`). Each `Follows` those before it: the counter has grown by no
more than was used in between, or started again and is no larger than that. And
each is `Sound`: if it came next the charge would not exceed the use up to it
(`at`), for one of four reasons. Counting it whole would be within the use
(`Enough`); the watermark is of its epoch or a later one and near enough (`Above`);
a baseline waiting before it will make it so (`Awaits`); or it is the first of a
fork whose parent's total takes the place of a watermark (`Inherits`), and then the
parent stands still (`Still`). Applying an event makes its total the watermark and
leaves those that follow it sound (`SoundAfter`); a duplicate changes nothing. Of
the file itself it must be known that totals and use move together except where
the counter falls (`LinesOK`), and that nothing falls between the place reading
began and the end of the baseline (`FallsAfter`), which is why a restart hidden in
the baseline would do damage.

`ExactWhenQuiet` needs the other half, and equations where bounds were enough. The
events of a file in the queue form a chain that ends at the reader's place: each
`Leads` to the next, its total being higher by exactly what was used between them,
or its epoch later and its total no less than that. Whatever the first may be
compared with (the watermark, a baseline before it, a parent's total) charges
enough (`HeadOK`), and an event charged in full (`InFull`) makes the next one charge
enough (`ChargedOn`). With nothing on its way the reader's place is itself charged
(`IdleOK`), and at the end of the file this place is all that was used.

That is the argument for events that are counted. One whose dedup key is in the
ledger is not, and `FoundKey` shows that nothing was lost: it is of the watermark's
epoch and no higher. For a key with a turn this holds because turns grow along the
file, its events and the ledger (`TurnsInOrder`, `EpochsOK`, `ResponseOK`) and a
restart begins one, so that a turn is of one epoch. For a key with an epoch it holds
because the server's epoch does not run ahead of the agent's (`CounterOK`), except
in a fork that counts on its own, whose events without a turn are all of epoch 0
(`ForkOK`). That every fall is seen as one rests on `StartOK` (the first line after
the place where reading began is not lower than the one before) and on the
baselines coming before every other event of their file (`FirstsOK`). This
invariant (`EInv`, which contains that of `NoOvercount`) was model-checked on small
instances with forks, several conversations and replaced files before it was proved.

*Scheduler.* `PassedOverWhenRead` compares the stamp that is remembered with the
file, and the two drift apart while a file is read. The invariant (`Behind`)
compares with the checkpoint instead: it is never beyond the whole lines of the
file, a session has one file at a time, and a remembered size was read; since a
file only grows, an equal stamp then means that all was read. `Noticed` needs
`Late`, which says more: a path with unread lines is in the watcher, the pass or
among the active paths that cannot yet be dropped (`fresh`), and a file that
changed since its stamp was taken has been noted again. `Kept` ties the pass to
the sets it works on. An overflow sets `rescan`, and `RescanFindsAll` shows that a
walk of both directories then finds every file whose path is not known and looks
again at those that are known.

*Numbers.* The views kept by the server are not enough to speak of: a difference is
sent between two of them, and both may be evicted before it arrives. The invariant
is about all views that were ever given a revision, a set `S` that nobody keeps,
readings that wait for one, a set `T`, and how much of the ledger those see that are
fixed and not yet read, a set `R`: `IInv` says that such sets exist (`Known`). In `S`
one epoch and revision stand for one view, and every view has the usage and metadata
of a full reading of its part of the ledger (`Exact`); one of the running server also
says by its numbers which of them are new since (`Covers`). What is stored, answered
or shown is in `S`, and every frame is the difference of two of its members. A step
adds at most one view to `S`.

Between a reading and the hub's numbers only renames can come (`Fixed`), because
ingests wait for `viewMu`, so the numbers cannot hide usage or metadata. And the
publisher's reading has all that the views it starts from have (`PinOK`), because it
keeps the lock on them. `BuildFrom` is then shown to be a full reading whatever view
it starts from, but for `shown`: a conversation that is not read again has no usage
that is new, or that has left or come into the window since, and no metadata either,
or the full revision would differ. Its `shown` is some earlier one, and nothing more
can be said. A difference merged into its base gives the view it was made for, so
that a page stays in `S`. `RangeChosen` needs no more than that a request which is
not stale is for the range that is chosen.

*Evidence.* A row is as new as the newest event that has come, and its exact count
is no newer (`Newest`). So an event that is late is not the newest, and one that is
not late is at least as new as every other and may overwrite what they said.

*Lists.* A list is dated (`Dated`): a list of server e with number q has seen at
least the q commits that were marked since e began, and none that came after e.
This holds when a list is made (`MadeNow`), because numbers are moved after
commits (`Marked`), and remains true while the server goes on or is replaced
(`DatedStays`). Hence a list of a later server, or with as high a number of the
same one, shows what an earlier number promised (`Later`). What is left is that
the page takes no other list: `Pulse` compares numbers without the server, which
is right only because everything on a stream is of the server that runs and a page
shows none of a later one; `Confirmed` takes a view of another server whatever its
number, which is right only because a page that shows a later list by way of a
heartbeat expects that server and does not accept the view (`Pages`).

Only model-checked: the implementation of `DashboardView`, which is not true for
every value of the constants (see the turn of a calendar range below); and liveness,
which needs fairness and is beyond the prover (`EveryLineDelivered`, `SpoolDrains`,
`EveryLineRead`, `CatchesUp`, `ShowsTheTask`). No module declares a RECURSIVE operator. Where a proof
needs induction over data, it takes the least or greatest member of a set of numbers
instead (`Least`, `Greatest` in `SourceLedgerProofs`), since induction theorems take
an operator as a parameter, which the provers cannot instantiate.

## Findings

1. `delivery_stale`: a file is measured before its checkpoint is read. If another
   process scans what was appended in between, the file looks truncated, and all of
   it is queued again under a new generation, with what is from before the baseline;
   `README_EN.md` says old history is not imported by default.
2. `delivery_regrow`: a truncated file is noticed only while it is shorter than
   its checkpoint; `docs/EVENT_SCHEMA.md` says truncation advances the epoch.
3. `numeric_rename`: a rename takes no lock and may fall between a reader's two
   readings. The view then has the new full revision and the old name, later ones
   are built from it, and the page keeps the old name until the row's usage changes
   or something else moves the full revision. `snapshot_reader.go` says reading and
   revision are pinned together, `numeric_incremental.go` that a change by the user
   gives a full base.

## Observations

What else the code does that a reader might not expect, and where a property had to
be stated with care. The first four are counterexamples TLC finds at once when a
passing configuration is changed as said.

- `ingest` refuses a whole batch for one event that is not valid, and the agent
  sends it again for ever, although malformed records are said not to stop
  collection (`docs/EVENT_SCHEMA.md:39`). `EveryLineDelivered` is violated in
  `Delivery_liveness.cfg` with `Kind = {"usage", "invalid"}` and `MaxTrouble = 0`.
- Any error but "no rows" when the baseline flag is read counts as a complete
  baseline, and the first pass imports history (`README_EN.md:20` again).
  `HistoryStays` is violated in `Delivery_stale.cfg` with `OneShot = {}` and
  `MaxTrouble = 1`.
- A backfill after lines were collected counts them twice, since it reads them in a
  new epoch. `NoOvercount` is violated in `SourceLedger_accounting.cfg` with
  `Allowed = {"backfill"}`, `Naming = "never"` and `Turns = FALSE`.
- A counter restart in the first line after the baseline is not noticed and its
  usage is lost; a restart is said to start an epoch (`docs/EVENT_SCHEMA.md:37`,
  `README.md:34`). `ExactWhenQuiet` is violated in the same configuration with
  `Allowed = {"early restart"}` and `Naming = "never"`.
- At the turn of a calendar range `numericWindowDue` deletes the view of the period
  that is over. A build for that period that read the ledger before the last
  publication finds nothing newer, is adopted with a higher revision, and a page
  goes back to it until a heartbeat shows the gap. It takes two entries and a turn
  (`Query = {"today"}`, `MaxEvents = 3`), which no passing run has; eviction does
  not do the same, since requests build one at a time.
- When another page's request has moved the edges of a rolling view,
  `numericWindowDue` finds nothing that crossed them, and a page may show usage that
  has expired until the next ingest. `CatchesUp` therefore speaks of the sequence
  number, not of the window.
- An `activity` or `live_estimate` event changes fields of its row (`server.go`,
  335-342) and moves neither the sequence number nor the full revision: a view
  that is built from an earlier one keeps the row, and so a page may show an older
  state or model of it until its usage changes or a full base is built. In the
  race of finding 3 a name may also go back, when the reading that came first is
  adopted last. `DashboardView` promises one moment for usage and metadata alone.
- A refresh of prices or exchange rates marks nothing; pages see it with the next
  mark or their own next request.
- `viewMu` is held by ingests and readers only. What else writes and marks (renames,
  purchases) does not take it. A purchase can miss a view in the way of finding 3; its
  totals are read again by the next build, so it shows with the next mark.
- `heartbeat` reads the task number before the rows, so a page may show newer rows
  under an older number and then take a whole view with that number and older rows.
  And on a change of server a whole view is taken whatever its number. The next
  `tasks` or heartbeat repairs both. `NeverBehind` is stated by the number a page
  shows, for a page that stays with one server.
- A directory that can never be read makes `scanScheduled` return an error before it
  scans anything, in every pass in which a walk is due; the first pass ignores the
  same error.

## The plan

Done: `Delivery` with its abstraction, `SourceLedger`, `ScanScheduler` and
`TaskFeed`, with their safety proved; `NumericStream` with its abstraction, with all
of it proved but what follows.

1. Proofs: the implementation of `DashboardView` where the calendar does not turn.
2. `NetworkLoop`: back-off and wake-ups of upload and heartbeat, the order of
   telemetry reports.
3. `LockOrder`: the numeric, read-pool, view and hub locks as the code nests them,
   with the price cache's two readers.
4. `Enrollment` (two machines and one token) and `Restore` (files replaced beside
   a write-ahead log).

## Not modelled

The branch of `applyEvent` for events of old agents that are under a message's id
(`legacyMessageID`) looks their parent up in `sessions`; `SourceLedger` has the
parents that today's parser gives. Metadata and grouping queries, purchases, prices and exchange rates, rendering and installers
are data and arithmetic, or scripts. The price cache holds prices. The order in
which locks are nested is not seen where each is one step. The network loop's
delays are what `Delivery`'s fairness abstracts from. Enrollment and restore touch
nothing the modules speak of. Streams without a range (the older `notify=1`
protocol) carry no numbers. Which tasks a list names (revoked machines, five
minutes without news) is a query. Power failure with `synchronous=NORMAL` can lose
the agent's last transactions, after which the same lines are read and uploaded
again and the server ignores them. Authentication and size limits are to the agent
one more failed upload.
