---------------------------- MODULE NumericStream ----------------------------
(***************************************************************************)
(* How the numbers of the ledger reach a dashboard.  Every ingest moves    *)
(* the hub's sequence number.  The publisher wakes up, brings the cached   *)
(* view of each subscribed range up to date, and sends each subscriber the *)
(* difference to what was published before, through a slot that holds one  *)
(* message.  A page whose base is another asks for the whole view; whole   *)
(* views are built on a pinned read transaction beside the publisher and   *)
(* cached for a moment.  Heartbeats carry the sequence number, so that a   *)
(* page that missed something finds out.                                   *)
(*                                                                         *)
(* A usage counts one token.  What the pages draw besides the rows is left *)
(* out: totals, prices and exchange rates are read again in every build.   *)
(***************************************************************************)
EXTENDS Integers, Sequences, FiniteSets, SequencesExt

CONSTANTS
  Conversation,  \* 1..n, numbered as they appear
  Browser,       \* pages, each with its event stream
  Hidden,        \* pages opened in the background: no stream until shown
  Blank,         \* a page before its first number
  Query,         \* ranges that can be chosen
  Rolling,       \* ranges that move with the clock ("24h")
  Length,        \* Length[q]: of the window, or of the calendar period
  Start,         \* the clock at first
  MaxViews,      \* views the server keeps (8)
  MaxCached,     \* encoded answers the server keeps (8)
  Kind,          \* what may be recorded: a subset of Kinds
  Trouble,       \* what may go wrong: a subset of Troubles
  MaxEvents      \* bound: entries recorded, ticks and troubles together

(* What an ingest records, and what the user does to the database.         *)
Kinds == {"usage", "metadata", "activity", "rename"}

Troubles ==
  {"restart", "break", "lost answer", "database error", "large change",
   "choose", "suspend", "show", "slow stream"}

ASSUME StreamAssumption ==
  /\ Conversation \subseteq Nat \ {0}
  /\ Rolling \subseteq Query
  /\ Length \in [Query -> Nat \ {0}]
  /\ {MaxViews, MaxCached} \subseteq Nat \ {0}
  /\ Kind \subseteq Kinds
  /\ Trouble \subseteq Troubles
  /\ Hidden \subseteq Browser
  /\ {Start, MaxEvents} \subseteq Nat

VARIABLES
  now,       \* the server's clock
  ledger,    \* the database: what was recorded, in order
  marking,   \* what an ingest that has committed is about to mark
  unmarked,  \* renames that are committed and not yet marked
  hub,       \* [epoch, seq, full, dirty]
  views,     \* cached views [query, key, value, published], last used last
  sequence,  \* revisions given to views since the server started
  cache,     \* encoded answers [key, seq, view], oldest first
  pin,       \* the publisher's reading, or NoPin
  todo,      \* subscribers the current publication has not served yet
  frames,    \* frames[key]: its message for that key
  slot,      \* slot[b]: the message on its way to b, or None
  get,       \* get[b]: the request for a whole view, or NoGet
  dash,      \* dash[b]: the page's own state
  trouble    \* history: how often something went wrong

source == <<now, ledger, marking, unmarked>>
server == <<hub, views, sequence, cache, pin, todo, frames, slot>>
vars   == <<source, server, get, dash, trouble>>

-----------------------------------------------------------------------------
(* Data.                                                                   *)

None  == [type |-> "none"]
NoPin == [led |-> -1]
NoGet == [pc |-> "none", stale |-> FALSE]

(* The last entry a reading has that moves the hub's numbers under viewMu. *)
Settled(n) ==
  Max({0} \cup {i \in 1..n : ledger[i].kind \in {"usage", "metadata"}})

(* The page as the promise of DashboardView sees it.                       *)
Page(b) ==
  LET p == dash[b].page
  IN  IF p = Blank THEN Blank
      ELSE [led |-> Settled(p.led), start |-> p.start, end |-> p.end,
            rows |-> p.rows]

Promise == INSTANCE DashboardView WITH page <- [b \in Browser |-> Page(b)]

(* A range at time t.  The key of a calendar range changes with the        *)
(* period, that of a rolling one does not.                                 *)
Resolve(q, t) ==
  IF q \in Rolling
    THEN [key |-> <<q, 0>>, end |-> t,
          start |-> IF t < Length[q] THEN 0 ELSE t - Length[q]]
    ELSE [key |-> <<q, (t \div Length[q]) * Length[q]>>,
          start |-> (t \div Length[q]) * Length[q], end |-> t]

Subscribed == {b \in Browser : dash[b].stream = "open"}

KeyOf(b) == Resolve(dash[b].query, now).key

ViewOf(key) == {i \in DOMAIN views : views[i].key = key}

-----------------------------------------------------------------------------
Init ==
  /\ now = Start
  /\ ledger = <<>> /\ marking = "no" /\ unmarked = 0
  /\ hub = [epoch |-> 0, seq |-> 0, full |-> 0, dirty |-> FALSE]
  /\ views = <<>> /\ sequence = 0 /\ cache = <<>>
  /\ pin = NoPin /\ todo = {} /\ frames = <<>>
  /\ slot = [b \in Browser |-> None]
  /\ \E first \in [Browser -> Query] :
       /\ get = [b \in Browser |->
            [pc |-> "asked", query |-> first[b], stale |-> FALSE]]
       /\ dash = [b \in Browser |->
            [page |-> Blank, query |-> first[b],
             stream |-> IF b \in Hidden THEN "none" ELSE "connecting",
             expected |-> -1, pending |-> FALSE, timer |-> FALSE, late |-> -1]]
  /\ trouble = 0

(* One more thing may happen; one more of this kind may go wrong.          *)
Happens == Len(ledger) + (now - Start) + trouble < MaxEvents

Goes(wrong) ==
  /\ wrong \in Trouble
  /\ Happens
  /\ trouble' = trouble + 1

-----------------------------------------------------------------------------
(* The database.  An ingest holds viewMu from before its commit until the  *)
(* hub is marked; a rename commits and marks without it.                   *)

(* Somebody reads under viewMu: the one connection for reading is taken.   *)
Reading == pin # NoPin \/ \E b \in Browser : get[b].pc = "pinned"

(* Neither an ingest nor a reader holds viewMu.                            *)
Unlocked == marking = "no" /\ ~Reading

Record(kind, c, t) ==
  ledger' = Append(ledger, [kind |-> kind, conv |-> c, at |-> t])

(* An activity changes fields of its row (status, project, model, estimate *)
(* and the time of the last event) and does not mark the hub's numbers.    *)
Recorded(c) ==
  \/ \E t \in 0..now : Record("usage", c, t) /\ marking' = "numbers"
  \/ Record("metadata", c, 0) /\ marking' = "all"
  \/ Record("activity", c, 0) /\ marking' = "no"

Commit ==
  /\ Unlocked
  /\ Happens
  /\ \E c \in Conversation :
       /\ \A d \in 1..c - 1 : \E i \in 1..Len(ledger) : ledger[i].conv = d
       /\ Recorded(c)
  /\ Last(ledger').kind \in Kind
  /\ UNCHANGED <<now, unmarked, server, get, dash, trouble>>

MarkNumbers == [hub EXCEPT !.seq = @ + 1, !.dirty = TRUE]

MarkAll == [MarkNumbers EXCEPT !.full = @ + 1]

Mark ==
  /\ marking # "no"
  /\ hub' = IF marking = "all" THEN MarkAll ELSE MarkNumbers
  /\ marking' = "no"
  /\ UNCHANGED <<now, ledger, unmarked, views, sequence, cache, pin, todo,
                 frames, slot, get, dash, trouble>>

(* A session has a row from its first usage or activity on.                *)
Rename ==
  /\ "rename" \in Kind
  /\ Happens
  /\ \E c \in Conversation :
       /\ \E i \in 1..Len(ledger) :
            ledger[i].conv = c /\ ledger[i].kind \in {"usage", "activity"}
       /\ Record("rename", c, 0)
  /\ unmarked' = unmarked + 1
  /\ UNCHANGED <<now, marking, server, get, dash, trouble>>

MarkRename ==
  /\ unmarked > 0
  /\ unmarked' = unmarked - 1
  /\ hub' = MarkAll
  /\ UNCHANGED <<now, ledger, marking, views, sequence, cache, pin, todo,
                 frames, slot, get, dash, trouble>>

Tick ==
  /\ Happens
  /\ now' = now + 1
  /\ UNCHANGED <<ledger, marking, unmarked, server, get, dash, trouble>>

-----------------------------------------------------------------------------
(* Views.                                                                  *)

(* What was read of the first n entries, with the hub's numbers of now.    *)
Snapshot(r, n, rows) ==
  [epoch |-> hub.epoch, key |-> r.key, start |-> r.start, end |-> r.end,
   led |-> n, seq |-> hub.seq, full |-> hub.full, rows |-> rows]

Build(r, n) ==
  Snapshot(r, n, Promise!Rows(n, Promise!Latest(n), r.start, r.end))

(* Conversations whose rows may differ from those of the prior view.       *)
MutantTouched(prior, r, n) ==
  {ledger[i].conv : i \in
     {i \in 1..n : /\ ledger[i].kind = "usage"
                   /\ \/ i > prior.led
                      \/ prior.end <= ledger[i].at /\ ledger[i].at < r.end}}

Touched(prior, r, n) ==
  {ledger[i].conv : i \in
     {i \in 1..n : /\ ledger[i].kind = "usage"
                   /\ \/ i > prior.led
                      \/ prior.start <= ledger[i].at /\ ledger[i].at < r.start
                      \/ prior.end <= ledger[i].at /\ ledger[i].at < r.end}}

Incremental(prior, r, n) ==
  /\ prior.epoch = hub.epoch /\ prior.full = hub.full /\ prior.key = r.key
  /\ prior.start <= r.start /\ prior.end <= r.end
  /\ r.key[1] \in Rolling \/ prior.start = r.start
  /\ Touched(prior, r, n) \subseteq DOMAIN prior.rows

(* Only the rows of touched conversations are read again.                  *)
BuildFrom(prior, r, n) ==
  IF ~Incremental(prior, r, n) THEN Build(r, n)
  ELSE LET fresh   == Promise!Rows(n, Promise!Latest(n), r.start, r.end)
           touched == Touched(prior, r, n)
           kept    == DOMAIN prior.rows \ touched
       IN  Snapshot(r, n, [c \in kept \cup (touched \cap DOMAIN fresh) |->
                             IF c \in kept THEN prior.rows[c] ELSE fresh[c]])

SameAccounting(old, new) == old.start = new.start /\ old.rows = new.rows

(* A view built earlier must not replace a newer one.                      *)
MutantOutdated(old, new) ==
  new.seq = old.seq /\ (new.end <= old.end \/ SameAccounting(old, new))

Outdated(old, new) ==
  \/ new.seq < old.seq
  \/ new.seq = old.seq /\ (new.end <= old.end \/ SameAccounting(old, new))

(* The views after the value was adopted for query q, the revisions given, *)
(* and the value that is now current.                                      *)
Adopt(q, value) ==
  LET numbered == [f \in DOMAIN value \cup {"rev"} |->
                     IF f = "rev" THEN sequence + 1 ELSE value[f]]
      fresh    == [query |-> q, key |-> value.key, value |-> numbered,
                   published |-> numbered]
  IN  IF ViewOf(value.key) = {}
        THEN [views |-> Append(IF Len(views) >= MaxViews THEN Tail(views) ELSE views,
                               fresh),
              sequence |-> sequence + 1, value |-> numbered]
        ELSE LET i == CHOOSE i \in ViewOf(value.key) : TRUE
             IN  IF Outdated(views[i].value, value)
                   THEN [views |-> views, sequence |-> sequence,
                         value |-> views[i].value]
                   ELSE [views |-> Append(RemoveAt(views, i),
                                          [views[i] EXCEPT !.value = numbered]),
                         sequence |-> sequence + 1, value |-> numbered]

-----------------------------------------------------------------------------
(* The publisher.                                                          *)

(* Absolute rows that changed since the base, and the rows that are gone.  *)
Difference(base, next) ==
  LET changed == {c \in DOMAIN next.rows :
                    c \notin DOMAIN base.rows \/ base.rows[c] # next.rows[c]}
  IN  [type |-> "numbers", base |-> base.rev, baseEnd |-> base.end,
       view |-> [next EXCEPT !.rows = [c \in changed |-> next.rows[c]]],
       removed |-> DOMAIN base.rows \ DOMAIN next.rows]

Resync == [type |-> "resync"]

(* A moving edge has passed a usage, or the calendar has turned: once a    *)
(* second the publisher looks at the views somebody is subscribed to.      *)
Due(i) ==
  LET v == views[i]
      r == Resolve(v.query, now)
  IN  /\ r.key \in {KeyOf(b) : b \in Subscribed}
      /\ \/ v.key # r.key
         \/ \E k \in 1..Len(ledger) :
              /\ ledger[k].kind = "usage"
              /\ \/ v.value.start <= ledger[k].at /\ ledger[k].at < r.start
                 \/ v.value.end <= ledger[k].at /\ ledger[k].at < r.end

WindowDue ==
  /\ pin = NoPin /\ todo = {} /\ ~hub.dirty
  /\ \E i \in DOMAIN views :
       /\ Due(i)
       /\ views' = IF views[i].key = Resolve(views[i].query, now).key THEN views
                   ELSE RemoveAt(views, i)
  /\ hub' = MarkNumbers
  /\ UNCHANGED <<source, sequence, cache, pin, todo, frames, slot, get,
                 dash, trouble>>

Publish ==
  /\ pin = NoPin /\ todo = {} /\ hub.dirty
  /\ hub' = [hub EXCEPT !.dirty = FALSE]
  /\ todo' = Subscribed
  /\ frames' = <<>>
  /\ UNCHANGED <<source, views, sequence, cache, pin, slot, get, dash, trouble>>

(* A slot that is taken gives up its message for the newer one.  A         *)
(* subscriber that has left meanwhile gets nothing.                        *)
Put(b, key, message) ==
  /\ slot' = IF message = None \/ b \notin todo THEN slot
             ELSE [slot EXCEPT ![b] = message]
  /\ todo' = todo \ {b}
  /\ frames' = IF todo' = {} THEN <<>>
               ELSE [k \in DOMAIN frames \cup {key} |->
                       IF k = key THEN message ELSE frames[k]]

(* The lock on the views is taken, and the reading fixed.                  *)
PinRange(b, key) ==
  /\ Unlocked
  /\ \E i \in ViewOf(key) :
       pin' = [led |-> Len(ledger), by |-> b, key |-> key,
               range |-> Resolve(views[i].query, now)]
  /\ UNCHANGED <<views, sequence, todo, frames, slot, trouble>>

(* Subscribers of one range get one message.                               *)
Serve(b) ==
  /\ pin = NoPin /\ b \in todo
  /\ \E key \in {KeyOf(b)} :
       \/ /\ key \in DOMAIN frames
          /\ Put(b, key, frames[key])
          /\ UNCHANGED <<views, sequence, pin, trouble>>
       \/ /\ key \notin DOMAIN frames
          /\ ViewOf(key) = {}
          /\ Put(b, key, Resync)
          /\ UNCHANGED <<views, sequence, pin, trouble>>
       \/ key \notin DOMAIN frames /\ PinRange(b, key)
       \/ /\ key \notin DOMAIN frames /\ ViewOf(key) # {}
          /\ Goes("database error")
          /\ Put(b, key, Resync)
          /\ UNCHANGED <<views, sequence, pin>>
  /\ UNCHANGED <<source, hub, cache, get, dash>>

(* The hub's numbers are read after the reading was fixed.  The view is    *)
(* brought up to date and becomes the published base, also when the        *)
(* difference is too large to be sent.                                     *)
Bring(i) ==
  \E built \in {BuildFrom(views[i].value, pin.range, pin.led)} :
  \E adopted \in {Adopt(views[i].query, built)} :
    /\ sequence' = adopted.sequence
    /\ IF views[i].published.rev = adopted.value.rev
         THEN /\ views' = adopted.views
              /\ Put(pin.by, pin.key, None)
              /\ UNCHANGED trouble
         ELSE /\ views' = [j \in DOMAIN adopted.views |->
                   IF adopted.views[j].key = pin.key
                     THEN [adopted.views[j] EXCEPT !.published = adopted.value]
                     ELSE adopted.views[j]]
              /\ \/ /\ Put(pin.by, pin.key,
                            Difference(views[i].published, adopted.value))
                    /\ UNCHANGED trouble
                 \/ Goes("large change") /\ Put(pin.by, pin.key, Resync)

ServeRead ==
  /\ pin # NoPin
  /\ \E i \in ViewOf(pin.key) : Bring(i)
  /\ pin' = NoPin
  /\ UNCHANGED <<source, hub, cache, get, dash>>

-----------------------------------------------------------------------------
(* The page's requests: at most one at a time.                             *)

Ask(q) == [pc |-> "asked", query |-> q, stale |-> FALSE]

(* A request while one is under way waits for its end; one that replaces   *)
(* it also turns its answer away.                                          *)
Loads(d, g, replace) ==
  IF g = NoGet THEN [d |-> d, g |-> Ask(d.query)]
  ELSE [d |-> [d EXCEPT !.pending = TRUE],
        g |-> IF replace THEN [g EXCEPT !.stale = TRUE] ELSE g]

Ended(d) ==
  IF d.pending THEN [d |-> [d EXCEPT !.pending = FALSE], g |-> Ask(d.query)]
  ELSE [d |-> d, g |-> NoGet]

Become(b, x) ==
  /\ dash' = [dash EXCEPT ![b] = x.d]
  /\ get' = [get EXCEPT ![b] = x.g]

(* The page opens another stream, or none: what was left of b's is gone.   *)
Hangup(b) ==
  /\ slot' = [slot EXCEPT ![b] = None]
  /\ todo' = todo \ {b}
  /\ frames' = IF todo' = {} THEN <<>> ELSE frames

(* The range is resolved and the sequence number read when the request     *)
(* arrives; the answer is cached under both.                               *)
Arrive(b) ==
  /\ get[b].pc = "asked"
  /\ get' = [get EXCEPT ![b] =
       [pc |-> "queued", query |-> @.query, stale |-> @.stale,
        range |-> Resolve(@.query, now), seq |-> hub.seq]]
  /\ UNCHANGED <<source, server, dash, trouble>>

(* One request at a time has the cache, from its look-up to its answer.    *)
CacheFree == \A b \in Browser : get[b].pc \notin {"pinned", "built"}

(* An answer is served again for a second, however long that is here.      *)
Cached(b) ==
  {i \in DOMAIN cache : cache[i].key = get[b].range.key /\ cache[i].seq = get[b].seq}

Hit(b) ==
  /\ get[b].pc = "queued" /\ CacheFree
  /\ \E i \in Cached(b) :
       get' = [get EXCEPT ![b] =
         [pc |-> "answered", query |-> @.query, stale |-> @.stale,
          view |-> cache[i].view]]
  /\ UNCHANGED <<source, server, dash, trouble>>

Pin(b) ==
  /\ get[b].pc = "queued" /\ CacheFree /\ Unlocked
  /\ get' = [get EXCEPT ![b] =
       [pc |-> "pinned", query |-> @.query, stale |-> @.stale,
        range |-> @.range, seq |-> @.seq, led |-> Len(ledger)]]
  /\ UNCHANGED <<source, server, dash, trouble>>

Read(b) ==
  /\ get[b].pc = "pinned"
  /\ get' = [get EXCEPT ![b] =
       [pc |-> "built", query |-> @.query, stale |-> @.stale, seq |-> @.seq,
        view |-> Build(@.range, @.led)]]
  /\ UNCHANGED <<source, server, dash, trouble>>

(* The oldest of the encoded answers makes room, also for one that takes   *)
(* the place of its own predecessor.                                       *)
MutantStore(view, seq) ==
  Append(cache, [key |-> view.key, seq |-> seq, view |-> view])

Store(view, seq) ==
  LET kept == IF Len(cache) >= MaxCached THEN Tail(cache) ELSE cache
      same == {i \in DOMAIN kept : kept[i].key = view.key /\ kept[i].seq = seq}
  IN  Append(IF same = {} THEN kept ELSE RemoveAt(kept, CHOOSE i \in same : TRUE),
             [key |-> view.key, seq |-> seq, view |-> view])

(* The publisher keeps the lock on the views while it reads.               *)
Answer(b) ==
  /\ get[b].pc = "built" /\ pin = NoPin
  /\ \E adopted \in {Adopt(get[b].query, get[b].view)} :
       /\ views' = adopted.views
       /\ sequence' = adopted.sequence
       /\ cache' = Store(adopted.value, get[b].seq)
       /\ get' = [get EXCEPT ![b] =
            [pc |-> "answered", query |-> @.query, stale |-> @.stale,
             view |-> adopted.value]]
  /\ UNCHANGED <<source, hub, pin, todo, frames, slot, dash, trouble>>

-----------------------------------------------------------------------------
(* What the page does with a whole view or with its own range's next one.  *)

Accepts(page, view, expected) ==
  /\ expected \in {-1, view.epoch}
  /\ (page # Blank /\ page.epoch = view.epoch /\ page.key = view.key) =>
       /\ view.rev >= page.rev
       /\ view.rev = page.rev => view.end >= page.end

(* A view of another server makes it connect anew, an older one ask again. *)
Confirm(d, view) ==
  IF Accepts(d.page, view, d.expected) THEN [d EXCEPT !.page = view]
  ELSE IF d.page = Blank \/ d.page.epoch # view.epoch
    THEN [d EXCEPT !.stream = "connecting"]
    ELSE [d EXCEPT !.timer = TRUE]

(* The stream is another one, or none, after a step that connects anew.    *)
Connecting(b, d) ==
  IF d.stream # dash[b].stream THEN Hangup(b)
  ELSE UNCHANGED <<slot, todo, frames>>

(* An answer that is not wanted any more is dropped.                       *)
MutantTaken(b) == Confirm(dash[b], get[b].view)

Taken(b) ==
  IF get[b].stale THEN dash[b] ELSE Confirm(dash[b], get[b].view)

Receive(b) ==
  /\ get[b].pc = "answered"
  /\ \E d \in {Taken(b)} :
       /\ Become(b, Ended(d))
       /\ Connecting(b, d)
  /\ UNCHANGED <<source, hub, views, sequence, cache, pin, trouble>>

-----------------------------------------------------------------------------
(* The stream.                                                             *)

Told == [epoch |-> hub.epoch, seq |-> hub.seq]

(* What each message makes of the page and of its request.                 *)
OnReady(d, g, told) ==
  IF g = NoGet /\ (d.page = Blank \/ d.page.epoch # told.epoch \/ d.page.seq # told.seq)
    THEN Loads(d, g, FALSE)
    ELSE [d |-> d, g |-> g]

(* A gap must last before the page asks for everything.                    *)
MutantOnHeartbeat(d, g, told) ==
  LET heard == [d EXCEPT !.expected = told.epoch]
  IN  IF d.page # Blank /\ d.page.epoch # told.epoch THEN Loads(heard, g, FALSE)
      ELSE [d |-> heard, g |-> g]

OnHeartbeat(d, g, told) ==
  LET heard == [d EXCEPT !.expected = told.epoch]
  IN  IF d.page # Blank /\ d.page.epoch # told.epoch THEN Loads(heard, g, FALSE)
      ELSE IF d.page = Blank \/ told.seq > d.page.seq
        THEN [d |-> [heard EXCEPT !.late = told.seq], g |-> g]
        ELSE [d |-> heard, g |-> g]

(* The rows of a difference replace, or leave, those of its base.          *)
Merge(page, m) ==
  [m.view EXCEPT !.rows =
     [c \in (DOMAIN page.rows \ m.removed) \cup DOMAIN m.view.rows |->
        IF c \in DOMAIN m.view.rows THEN m.view.rows[c] ELSE page.rows[c]]]

NotNewer(page, view) ==
  \/ view.rev < page.rev
  \/ view.rev = page.rev /\ view.end <= page.end

MutantOnBase(page, m) == TRUE

OnBase(page, m) == m.base = page.rev /\ m.baseEnd = page.end

OnNumbers(d, g, m) ==
  IF d.page = Blank \/ d.page.epoch # m.view.epoch \/ d.page.key # m.view.key
    THEN Loads(d, g, FALSE)
  ELSE IF NotNewer(d.page, m.view) THEN [d |-> d, g |-> g]
  ELSE IF ~OnBase(d.page, m) THEN Loads(d, g, FALSE)
  ELSE [d |-> Confirm(d, Merge(d.page, m)), g |-> g]

Handle(b) ==
  /\ dash[b].stream \in {"open", "reconnecting"}
  /\ slot[b] # None
  /\ Become(b, IF slot[b].type = "resync" THEN Loads(dash[b], get[b], FALSE)
               ELSE OnNumbers(dash[b], get[b], slot[b]))
  /\ slot' = [slot EXCEPT ![b] = None]
  /\ UNCHANGED <<source, hub, views, sequence, cache, pin, todo, frames,
                 trouble>>

(* The page is subscribed and told where the server is.  A browser that    *)
(* reconnected by itself asks in any case.                                 *)
Register(b) ==
  LET opened == [dash[b] EXCEPT !.stream = "open"]
      asked  == IF dash[b].stream = "reconnecting" THEN Loads(opened, get[b], FALSE)
                ELSE [d |-> opened, g |-> get[b]]
  IN  /\ dash[b].stream \in {"connecting", "reconnecting"}
      /\ Become(b, OnReady(asked.d, asked.g, Told))
      /\ slot' = [slot EXCEPT ![b] = None]
  /\ UNCHANGED <<source, hub, views, sequence, cache, pin, todo, frames,
                 trouble>>

Heartbeat(b) ==
  /\ dash[b].stream = "open"
  /\ Become(b, OnHeartbeat(dash[b], get[b], Told))
  /\ UNCHANGED <<source, server, trouble>>

-----------------------------------------------------------------------------
(* The page's timers.  All of them ask for a whole view.                   *)

Reload(b, d) ==
  /\ Become(b, Loads(d, get[b], FALSE))
  /\ UNCHANGED <<source, server, trouble>>

Refresh(b) == dash[b].timer /\ Reload(b, [dash[b] EXCEPT !.timer = FALSE])

Late(b) ==
  LET d == [dash[b] EXCEPT !.late = -1]
  IN  /\ dash[b].late >= 0
      /\ IF d.stream # "none" /\ (d.page = Blank \/ dash[b].late > d.page.seq)
           THEN Reload(b, d)
           ELSE /\ dash' = [dash EXCEPT ![b] = d]
                /\ UNCHANGED <<source, server, get, trouble>>

(* Without a stream for 15 s the page asks all the same.                   *)
Fallback(b) ==
  /\ dash[b].stream \in {"connecting", "reconnecting"}
  /\ Goes("slow stream")
  /\ Become(b, Loads(dash[b], get[b], FALSE))
  /\ UNCHANGED <<source, server>>

-----------------------------------------------------------------------------
(* What goes wrong, and what the user does.                                *)

(* A restarted server has another epoch and begins to count again.         *)
MutantNewEpoch == hub.epoch

NewEpoch == hub.epoch + 1

(* What was committed but not marked stays unmarked; it is in the ledger.  *)
Restart ==
  /\ Goes("restart")
  /\ hub' = [epoch |-> NewEpoch, seq |-> 0, full |-> 0, dirty |-> FALSE]
  /\ views' = <<>> /\ sequence' = 0 /\ cache' = <<>>
  /\ pin' = NoPin /\ todo' = {} /\ frames' = <<>>
  /\ marking' = "no" /\ unmarked' = 0
  /\ LET d == [b \in Browser |->
                 IF dash[b].stream # "open" THEN dash[b]
                 ELSE [dash[b] EXCEPT !.stream = "reconnecting"]]
         x == [b \in Browser |->
                 IF get[b].pc \in {"queued", "pinned", "built"} THEN Ended(d[b])
                 ELSE [d |-> d[b], g |-> get[b]]]
     IN  /\ dash' = [b \in Browser |-> x[b].d]
         /\ get' = [b \in Browser |-> x[b].g]
  /\ UNCHANGED <<now, ledger, slot>>

(* The stream breaks; the browser retries by itself.                       *)
Break(b) ==
  /\ dash[b].stream = "open"
  /\ Goes("break")
  /\ dash' = [dash EXCEPT ![b].stream = "reconnecting"]
  /\ slot' = [slot EXCEPT ![b] = None]
  /\ todo' = todo \ {b}
  /\ frames' = IF todo' = {} THEN <<>> ELSE frames
  /\ UNCHANGED <<source, hub, views, sequence, cache, pin, get>>

(* A request fails or takes too long: the page stays as it is.  One whose  *)
(* answer is not wanted any more ends the same way.                        *)
Fails(b) ==
  /\ get[b].pc \in {"asked", "queued", "answered"}
  /\ Become(b, Ended(dash[b]))
  /\ UNCHANGED <<source, server>>

LoseAnswer(b) == ~get[b].stale /\ Goes("lost answer") /\ Fails(b)

Abort(b) == get[b].stale /\ Fails(b) /\ UNCHANGED trouble

(* Another range: a new stream, and a request that replaces the current.   *)
Anew(b, q) ==
  LET d == [dash[b] EXCEPT !.query = q, !.stream = "connecting", !.timer = FALSE]
  IN  /\ Become(b, Loads(d, get[b], TRUE))
      /\ Hangup(b)
      /\ UNCHANGED <<source, hub, views, sequence, cache, pin>>

Choose(b, q) ==
  /\ dash[b].stream # "none" /\ q # dash[b].query
  /\ Goes("choose")
  /\ Anew(b, q)

Suspend(b) ==
  /\ dash[b].stream # "none"
  /\ Goes("suspend")
  /\ dash' = [dash EXCEPT ![b].stream = "none", ![b].timer = FALSE,
                          ![b].pending = FALSE]
  /\ get' = IF get[b] = NoGet THEN get ELSE [get EXCEPT ![b].stale = TRUE]
  /\ Hangup(b)
  /\ UNCHANGED <<source, hub, views, sequence, cache, pin>>

Resume(b) ==
  /\ dash[b].stream = "none"
  /\ Goes("show")
  /\ Anew(b, dash[b].query)

-----------------------------------------------------------------------------
Publisher ==
  Mark \/ WindowDue \/ Publish \/ ServeRead \/ \E b \in Browser : Serve(b)

Request(b) ==
  \/ Arrive(b) \/ Hit(b) \/ Pin(b) \/ Read(b) \/ Answer(b)
  \/ Receive(b) \/ Abort(b)

Next ==
  \/ Commit \/ Rename \/ MarkRename \/ Tick \/ Publisher \/ Restart
  \/ \E b \in Browser :
       \/ Request(b) \/ Register(b) \/ Heartbeat(b) \/ Handle(b)
       \/ Refresh(b) \/ Late(b) \/ Fallback(b)
       \/ Break(b) \/ LoseAnswer(b)
       \/ \E q \in Query : Choose(b, q)
       \/ Suspend(b) \/ Resume(b)

(* The handler that committed also marks; the publisher's ticker, the      *)
(* streams and the page's timers go on.  A request waits for a lock that   *)
(* others take again and again, and a heartbeat for a stream that may be   *)
(* opened again and again: each gets its turn at last.  Nobody has to      *)
(* record, to choose or to come back, nothing has to go wrong, and the     *)
(* clock does not have to turn.                                            *)
Fairness ==
  /\ WF_vars(UNCHANGED trouble /\ Publisher)
  /\ WF_vars(MarkRename)
  /\ \A b \in Browser :
       /\ SF_vars(Request(b))
       /\ SF_vars(Heartbeat(b))
       /\ WF_vars(Register(b) \/ Handle(b) \/ Refresh(b) \/ Late(b))

Spec == Init /\ [][Next]_vars /\ Fairness

-----------------------------------------------------------------------------
(* Properties.                                                             *)

Views == {views[i].value : i \in DOMAIN views}
           \cup {views[i].published : i \in DOMAIN views}
           \cup {cache[i].view : i \in DOMAIN cache}

(* The variables have the shapes this module gives them, and the server's  *)
(* stores stay within their sizes.                                         *)
TypeOK ==
  /\ now \in Nat /\ Len(ledger) <= MaxEvents
  /\ marking \in {"no", "numbers", "all"} /\ unmarked \in Nat
  /\ hub \in [epoch : Nat, seq : Nat, full : Nat, dirty : BOOLEAN]
  /\ Len(views) <= MaxViews /\ Len(cache) <= MaxCached
  /\ pin.led \in -1..Len(ledger)
  /\ todo \subseteq Browser
  /\ \A b \in Browser :
       /\ slot[b].type \in {"none", "numbers", "resync"}
       /\ get[b].pc \in 
            {"none", "asked", "queued", "pinned", "built", "answered"}
       /\ dash[b].query \in Query
       /\ dash[b].stream \in {"none", "connecting", "reconnecting", "open"}

(* A view the server holds, however often it was brought up to date by     *)
(* reading touched conversations only, has the rows a full reading of the  *)
(* same ledger over the same window gives: the usage and the metadata of   *)
(* each.  Only what moves no number may be that of an earlier moment.      *)
ViewExact ==
  \A v \in Views : \E shown \in Promise!Older(v.led) :
    v.rows = Promise!Rows(v.led, shown, v.start, v.end)

(* The revision of a page stands for its numbers: two pages, or a page and *)
(* a view of the server, with one epoch, range and revision agree.         *)
SameRevisionSameRows ==
  \A v, w \in Views \cup {dash[b].page : b \in {b \in Browser : dash[b].page # Blank}} :
    (v.epoch = w.epoch /\ v.rev = w.rev) => (v.key = w.key /\ v.rows = w.rows)

(* When a page has the server's sequence number no usage and no metadata   *)
(* is missing from what it was built from: a heartbeat that carries that   *)
(* number may leave the page alone.                                        *)
SeqCovers ==
  \A b \in Browser :
    LET p == dash[b].page
    IN  (/\ p # Blank /\ p.epoch = hub.epoch
         /\ p.seq = hub.seq /\ marking = "no") =>
           \A i \in p.led + 1..Len(ledger) :
             ledger[i].kind \notin {"usage", "metadata"}

(* When a rename is marked and published, and nothing is under way, a page *)
(* with the server's sequence number shows the name.  The code misses it   *)
(* when it commits and marks between a reader's two readings.              *)
RenameShown ==
  \A b \in Browser :
    LET p == dash[b].page
    IN  (/\ p # Blank /\ p.epoch = hub.epoch /\ p.seq = hub.seq
         /\ dash[b].stream = "open"
         /\ marking = "no" /\ unmarked = 0 /\ ~hub.dirty
         /\ pin = NoPin /\ todo = {} /\ slot[b] = None /\ get[b] = NoGet) =>
           \A c \in DOMAIN p.rows :
             p.rows[c].shown = Promise!Latest(Len(ledger))[c]

(* A page moves to another range only when that is the chosen one: a late  *)
(* answer for the former range is turned away.                             *)
RangeChosen ==
  [][\A b \in Browser :
       LET p == dash'[b].page
       IN  (/\ p # Blank /\ p # dash[b].page
            /\ dash[b].page # Blank => dash[b].page.key[1] # p.key[1])
             => p.key[1] = dash'[b].query]_vars

(* The usage and the metadata on every page are those of one moment of the *)
(* ledger, and a page never goes back to fewer of them.                    *)
Promised == Promise!Spec

(* When recording and trouble are over every page that is looked at gets   *)
(* to the server's last sequence number.                                   *)
CatchesUp ==
  \A b \in Browser :
    <>[](\/ dash[b].stream = "none"
         \/ /\ dash[b].page # Blank
            /\ dash[b].page.epoch = hub.epoch
            /\ dash[b].page.seq = hub.seq)

=============================================================================
