------------------------ MODULE NumericStreamProofs ------------------------
(***************************************************************************)
(* Every number on every page, for any number of pages, ranges and         *)
(* entries, whatever is restarted, broken, lost or late.                   *)
(*                                                                         *)
(* The argument is about the views that were ever given a revision, here a *)
(* set S that nobody keeps: one epoch and revision stand for one view, and *)
(* each of them has the rows a full reading of its part of the ledger      *)
(* gives, but for what renames and activities changed since.  Nothing else *)
(* is ever shown: what the server stores and answers is in S, a difference *)
(* is one between two members of S, and a page that has the first becomes  *)
(* the second.                                                             *)
(***************************************************************************)
EXTENDS NumericStream, FiniteSetTheorems, SequenceTheorems, TLAPS

-----------------------------------------------------------------------------
(* Types.                                                                  *)

Entry == [kind : Kinds, conv : Conversation, at : Nat]

Key == Query \X Nat

Window == [key : Key, start : Nat, end : Nat]

AnyRows ==
  UNION {[D -> [used : Nat, named : Nat, shown : Nat]] : D \in SUBSET Conversation}

(* What was read, and what it becomes with its revision.                   *)
Draft == [epoch : Nat, key : Key, start : Nat, end : Nat, led : Nat, seq : Nat,
          full : Nat, rows : AnyRows]

View == [epoch : Nat, key : Key, start : Nat, end : Nat, led : Nat, seq : Nat,
         full : Nat, rows : AnyRows, rev : Nat]

Kept == [query : Query, key : Key, value : View, published : View]

Encoded == [key : Key, seq : Nat, view : View]

Streams == {"none", "connecting", "reconnecting", "open"}

Dash == [page : View \cup {Blank}, query : Query, stream : Streams, expected : Int,
         pending : BOOLEAN, timer : BOOLEAN, late : Int]

Asked    == [pc : {"asked"}, query : Query, stale : BOOLEAN]
Queued   == [pc : {"queued"}, query : Query, stale : BOOLEAN, range : Window, seq : Nat]
Pinned   == [pc : {"pinned"}, query : Query, stale : BOOLEAN, range : Window, seq : Nat,
             led : Nat]
Built    == [pc : {"built"}, query : Query, stale : BOOLEAN, seq : Nat, view : Draft]
Answered == [pc : {"answered"}, query : Query, stale : BOOLEAN, view : View]

-----------------------------------------------------------------------------
(* The inductive invariant.                                                *)

(* The ledger, the hub and the bounds of the server's stores.              *)
Recording ==
  /\ now \in Nat /\ Start <= now
  /\ ledger \in Seq(Entry) /\ Len(ledger) <= MaxEvents
  /\ marking \in {"no", "numbers", "all"} /\ unmarked \in Nat
  /\ hub \in [epoch : Nat, seq : Nat, full : Nat, dirty : BOOLEAN]
  /\ trouble \in Nat

(* A reading of the first v.led entries of the ledger.                     *)
Exact(v) ==
  /\ v.led <= Len(ledger)
  /\ \E shown \in Promise!Older(v.led) :
       v.rows = Promise!Rows(v.led, shown, v.start, v.end)

(* A reading by the server that runs: its numbers say what is new since.   *)
Covers(v) ==
  /\ v.seq <= hub.seq /\ v.full <= hub.full
  /\ (v.seq = hub.seq /\ marking = "no") =>
       \A i \in v.led + 1..Len(ledger) : ledger[i].kind \notin {"usage", "metadata"}
  /\ (v.full = hub.full /\ marking # "all") =>
       \A i \in v.led + 1..Len(ledger) : ledger[i].kind # "metadata"

Good(v) ==
  /\ v.epoch <= hub.epoch
  /\ Exact(v)
  /\ v.epoch = hub.epoch => Covers(v)

(* S: the views that were given a revision, n the last revision the server *)
(* that runs has given.  T: its readings on their way to a revision.       *)
Issued(S, T, n) ==
  /\ n \in Nat
  /\ S \subseteq View /\ T \subseteq Draft
  /\ \A v \in S : Good(v) /\ (v.epoch = hub.epoch => v.rev <= n)
  /\ \A v, w \in S : v.epoch = w.epoch /\ v.rev = w.rev => v = w
  /\ \A v \in T : Good(v) /\ v.epoch = hub.epoch

(* R: how much of the ledger the readings have that are fixed and not made *)
(* yet.  While there is one, only renames are recorded.                    *)
Fixed(R) ==
  \A n \in R : /\ n \in 0..Len(ledger) /\ marking = "no"
              /\ \A i \in n + 1..Len(ledger) : ledger[i].kind = "rename"

(* The publisher's reading has all that the views have.                    *)
PinOK(R) ==
  pin # NoPin =>
    /\ pin.led \in R /\ pin.range \in Window
    /\ \A i \in DOMAIN views : views[i].value.led <= pin.led

(* What the server of an epoch keeps.                                      *)
KeptIn(S, epoch) ==
  {x \in Kept : /\ x.value \in S /\ x.value.epoch = epoch /\ x.value.key = x.key
                /\ x.published \in S /\ x.published.epoch = epoch}

EncodedIn(S) == {x \in Encoded : x.view \in S /\ x.view.key = x.key}

Held(S, epoch, vs) == vs \in Seq(KeptIn(S, epoch)) /\ Len(vs) <= MaxViews

Buffered(S, ca) == ca \in Seq(EncodedIn(S)) /\ Len(ca) <= MaxCached

IsMessage(S, m) ==
  \/ m = None \/ m = Resync
  \/ \E base, next \in S : base.epoch = next.epoch /\ m = Difference(base, next)

(* What it has sent.                                                       *)
Sent(S) ==
  /\ todo \subseteq Browser
  /\ slot = [b \in Browser |-> slot[b]]
  /\ \A b \in Browser : IsMessage(S, slot[b])
  /\ \A k \in DOMAIN frames : IsMessage(S, frames[k])

(* A page, and its request, which is for the range chosen unless its       *)
(* answer is not wanted any more.                                          *)
DashOK(S, d) == d \in Dash /\ (d.page = Blank \/ d.page \in S)

GetOK(S, T, R, g, q) ==
  \/ g = NoGet
  \/ /\ \/ g \in Asked
        \/ g \in Queued /\ g.range.key[1] = g.query
        \/ g \in Pinned /\ g.range.key[1] = g.query /\ g.led \in R
        \/ g \in Built /\ g.view \in T /\ g.view.key[1] = g.query
        \/ g \in Answered /\ g.view \in S /\ g.view.key[1] = g.query
     /\ g.stale \/ g.query = q

PageOK(S, T, R, d, g) == DashOK(S, d) /\ GetOK(S, T, R, g, d.query)

Shown(S, T, R) ==
  /\ dash = [b \in Browser |-> dash[b]]
  /\ get = [b \in Browser |-> get[b]]
  /\ \A b \in Browser : PageOK(S, T, R, dash[b], get[b])

Known(S, T, R) ==
  /\ Recording
  /\ Issued(S, T, sequence) /\ Fixed(R) /\ PinOK(R)
  /\ Held(S, hub.epoch, views) /\ Buffered(S, cache)
  /\ Sent(S) /\ Shown(S, T, R)

IInv == \E S, T, R : Known(S, T, R)

-----------------------------------------------------------------------------
(* Reading the ledger.                                                     *)

(* How many entries there are of a part of the ledger.                     *)
LEMMA Counts ==
  ASSUME NEW n \in Nat, NEW A \in SUBSET (1..n)
  PROVE  Cardinality(A) \in Nat /\ Cardinality(A) <= n
<1>1. 1 \in Int /\ n \in Int
  OBVIOUS
<1>2. IsFiniteSet(1..n) /\ Cardinality(1..n) = IF 1 > n THEN 0 ELSE n - 1 + 1
  BY <1>1, FS_Interval
<1>3. IsFiniteSet(A) /\ Cardinality(A) <= Cardinality(1..n)
  BY <1>2, FS_Subset
<1>4. Cardinality(1..n) = n
  BY <1>2
<1> QED BY <1>3, <1>4, FS_CardinalityType

(* Two modules count alike.                                                *)
LEMMA SameCount == \A A : Promise!Cardinality(A) = Cardinality(A)
BY DEF Promise!Cardinality, Cardinality

(* What renames and activities changed so far is one that is old enough.   *)
LEMMA LatestOld ==
  ASSUME NEW n \in Nat
  PROVE  Promise!Latest(n) \in Promise!Older(n)
<1>1. ASSUME NEW c \in Conversation
      PROVE  Promise!Latest(n)[c] \in 0..n /\ Promise!Latest(n)[c] <= Promise!Latest(n)[c]
  <2>1. Promise!Changed(n, c) \in SUBSET (1..n)
    BY DEF Promise!Changed
  <2>2. Promise!Latest(n)[c] = Cardinality(Promise!Changed(n, c))
    BY SameCount DEF Promise!Latest
  <2> QED BY <2>1, <2>2, Counts
<1>2. Promise!Latest(n) = [c \in Conversation |-> Promise!Latest(n)[c]]
  BY DEF Promise!Latest
<1> QED BY <1>1, <1>2 DEF Promise!Older

(* There is more of it the more of the ledger is read.                     *)
LEMMA OlderGrows ==
  ASSUME NEW m \in Nat, NEW n \in Nat, m <= n, NEW shown \in Promise!Older(m)
  PROVE  shown \in Promise!Older(n)
<1>1. shown \in [Conversation -> 0..n]
  <2>1. 0..m \subseteq 0..n
    OBVIOUS
  <2> QED BY <2>1 DEF Promise!Older
<1>2. ASSUME NEW c \in Conversation PROVE shown[c] <= Promise!Latest(n)[c]
  <2>1. /\ Promise!Changed(m, c) \subseteq Promise!Changed(n, c)
        /\ Promise!Changed(n, c) \in SUBSET (1..n)
        /\ Promise!Changed(m, c) \in SUBSET (1..m)
    BY DEF Promise!Changed
  <2>2. IsFiniteSet(Promise!Changed(n, c))
    <3>1. 1 \in Int /\ n \in Int
      OBVIOUS
    <3> QED BY <2>1, <3>1, FS_Interval, FS_Subset
  <2>3. Cardinality(Promise!Changed(m, c)) <= Cardinality(Promise!Changed(n, c))
    BY <2>1, <2>2, FS_Subset
  <2>4. /\ Promise!Latest(m)[c] = Cardinality(Promise!Changed(m, c))
        /\ Promise!Latest(n)[c] = Cardinality(Promise!Changed(n, c))
    BY SameCount DEF Promise!Latest
  <2>5. Cardinality(Promise!Changed(m, c)) \in Nat /\ Cardinality(Promise!Changed(n, c)) \in Nat
    BY <2>1, Counts
  <2>6. shown[c] <= Promise!Latest(m)[c] /\ shown[c] \in Nat
    BY DEF Promise!Older
  <2> QED BY <2>3, <2>4, <2>5, <2>6
<1> QED BY <1>1, <1>2 DEF Promise!Older

(* The rows of a part of the ledger are counts of its entries.             *)
LEMMA RowsType ==
  ASSUME NEW n \in Nat, NEW shown \in Promise!Older(n), NEW s \in Nat, NEW e \in Nat
  PROVE  Promise!Rows(n, shown, s, e) \in AnyRows
<1> DEFINE D == {c \in Conversation : Promise!Used(n, c, s, e) # {}}
<1>1. ASSUME NEW c \in D
      PROVE  /\ Cardinality(Promise!Used(n, c, s, e)) \in Nat
             /\ Cardinality(Promise!Named(n, c)) \in Nat
             /\ shown[c] \in Nat
  <2>1. Promise!Used(n, c, s, e) \in SUBSET (1..n)
    BY DEF Promise!Used
  <2>2. Promise!Named(n, c) \in SUBSET (1..n)
    BY DEF Promise!Named
  <2>3. shown[c] \in 0..n
    BY DEF Promise!Older
  <2> QED BY <2>1, <2>2, <2>3, Counts
<1>2. Promise!Rows(n, shown, s, e) \in [D -> [used : Nat, named : Nat, shown : Nat]]
  <2>1. Promise!Rows(n, shown, s, e) =
          [c \in D |-> [used  |-> Cardinality(Promise!Used(n, c, s, e)),
                        named |-> Cardinality(Promise!Named(n, c)),
                        shown |-> shown[c]]]
    BY SameCount DEF Promise!Rows
  <2> HIDE DEF D
  <2> QED BY <1>1, <2>1
<1>3. D \in SUBSET Conversation
  OBVIOUS
<1> QED BY <1>2, <1>3 DEF AnyRows

(* They stay when something is recorded, or nothing is.                    *)
LEMMA RowsStable ==
  ASSUME ledger \in Seq(Entry), ledger' = ledger \/ \E x : ledger' = Append(ledger, x),
         NEW n \in Nat, n <= Len(ledger)
  PROVE  /\ \A shown, s, e :
              Promise!Rows(n, shown, s, e)' = Promise!Rows(n, shown, s, e)
         /\ Promise!Older(n)' = Promise!Older(n)
         /\ Len(ledger) <= Len(ledger')
<1>1. /\ \A i \in 1..n : ledger'[i] = ledger[i]
      /\ Len(ledger) <= Len(ledger')
  BY AppendProperties, LenProperties
<1>2. /\ \A c, s, e : Promise!Used(n, c, s, e)' = Promise!Used(n, c, s, e)
      /\ \A c : Promise!Named(n, c)' = Promise!Named(n, c)
      /\ \A c : Promise!Changed(n, c)' = Promise!Changed(n, c)
  BY <1>1 DEF Promise!Used, Promise!Named, Promise!Changed
<1>3. Promise!Latest(n)' = Promise!Latest(n)
  BY <1>2 DEF Promise!Latest
<1>4. Promise!Older(n)' = Promise!Older(n)
  BY <1>3 DEF Promise!Older
<1>5. \A shown, s, e : Promise!Rows(n, shown, s, e)' = Promise!Rows(n, shown, s, e)
  BY <1>2 DEF Promise!Rows
<1> QED BY <1>1, <1>4, <1>5

(* So does what is said of a reading.                                      *)
LEMMA ExactStable ==
  ASSUME ledger \in Seq(Entry), ledger' = ledger \/ \E x : ledger' = Append(ledger, x),
         NEW v, v.led \in Nat, Exact(v)
  PROVE  Exact(v)'
<1>1. v.led <= Len(ledger)
  BY DEF Exact
<1>2. PICK shown \in Promise!Older(v.led) :
        v.rows = Promise!Rows(v.led, shown, v.start, v.end)
  BY DEF Exact
<1>3. /\ shown \in Promise!Older(v.led)'
      /\ v.rows = Promise!Rows(v.led, shown, v.start, v.end)'
      /\ Len(ledger) <= Len(ledger')
  BY <1>1, <1>2, RowsStable
<1>4. v.led <= Len(ledger')
  <2>1. Len(ledger) \in Nat /\ Len(ledger') \in Nat
    BY AppendProperties, LenProperties
  <2> QED BY <1>1, <1>3, <2>1
<1> QED BY <1>3, <1>4 DEF Exact

(* A range at a moment is a window of that range.                          *)
LEMMA ResolveType ==
  ASSUME NEW q \in Query, NEW t \in Nat
  PROVE  Resolve(q, t) \in Window /\ Resolve(q, t).key[1] = q
<1>1. Length[q] \in Nat \ {0}
  BY StreamAssumption
<1> DEFINE l == Length[q]
<1>2. /\ (t \div l) * l \in Nat
      /\ (IF t < l THEN 0 ELSE t - l) \in Nat
  <2>1. l \in Nat /\ l > 0
    BY <1>1
  <2> HIDE DEF l
  <2>2. t \div l \in Nat
    BY <2>1
  <2>3. \A x \in Nat : x * l \in Nat
    BY <2>1
  <2> QED BY <2>1, <2>2, <2>3
<1> QED BY <1>2 DEF Resolve, Window, Key

-----------------------------------------------------------------------------
(* Reading a view.                                                         *)

(* A full reading is good, also when the hub was marked since it was fixed.*)
LEMMA SnapshotOK ==
  ASSUME Recording, NEW R, Fixed(R), NEW n \in R, NEW r \in Window,
         NEW shown \in Promise!Older(n), NEW v,
         v = Snapshot(r, n, Promise!Rows(n, shown, r.start, r.end))
  PROVE  /\ v \in Draft
         /\ v.epoch = hub.epoch /\ v.key = r.key
         /\ Good(v)
<1>1. n \in Nat /\ n <= Len(ledger) /\ Len(ledger) \in Nat
  BY LenProperties DEF Recording, Fixed
<1>2. r.start \in Nat /\ r.end \in Nat /\ r.key \in Key
  BY DEF Window
<1>3. Promise!Rows(n, shown, r.start, r.end) \in AnyRows
  BY <1>1, <1>2, RowsType
<1>4. v \in Draft
  BY <1>1, <1>2, <1>3 DEF Snapshot, Draft, Recording
<1>5. /\ v.epoch = hub.epoch /\ v.key = r.key
      /\ v.led = n /\ v.seq = hub.seq /\ v.full = hub.full
      /\ v.start = r.start /\ v.end = r.end
      /\ v.rows = Promise!Rows(n, shown, r.start, r.end)
  BY DEF Snapshot
<1>6. Exact(v)
  BY <1>1, <1>5 DEF Exact
<1>7. Covers(v)
  <2>1. v.seq <= hub.seq /\ v.full <= hub.full
    BY <1>5 DEF Recording
  <2>2. \A i \in v.led + 1..Len(ledger) : ledger[i].kind = "rename"
    BY <1>5 DEF Fixed
  <2> QED BY <2>1, <2>2 DEF Covers
<1>8. v.epoch <= hub.epoch
  BY <1>5 DEF Recording
<1> QED BY <1>4, <1>5, <1>6, <1>7, <1>8 DEF Good

LEMMA BuildOK ==
  ASSUME Recording, NEW R, Fixed(R), NEW n \in R, NEW r \in Window
  PROVE  /\ Build(r, n) \in Draft
         /\ Build(r, n).epoch = hub.epoch /\ Build(r, n).key = r.key
         /\ Good(Build(r, n))
<1>1. Promise!Latest(n) \in Promise!Older(n)
  BY LatestOld DEF Fixed
<1> QED BY <1>1, SnapshotOK DEF Build

(* Reading the touched conversations only gives one as good.               *)
LEMMA BuildFromOK ==
  ASSUME Recording, NEW R, Fixed(R), NEW n \in R, NEW r \in Window,
         NEW prior \in View, Good(prior), prior.epoch = hub.epoch, prior.led <= n
  PROVE  /\ BuildFrom(prior, r, n) \in Draft
         /\ BuildFrom(prior, r, n).epoch = hub.epoch
         /\ BuildFrom(prior, r, n).key = r.key
         /\ Good(BuildFrom(prior, r, n))
<1>1. CASE ~Incremental(prior, r, n)
  BY <1>1, BuildOK DEF BuildFrom
<1>2. CASE Incremental(prior, r, n)
  <2> DEFINE fresh   == Promise!Rows(n, Promise!Latest(n), r.start, r.end)
             touched == Touched(prior, r, n)
             kept    == DOMAIN prior.rows \ touched
  <2>1. /\ n \in Nat /\ prior.led \in Nat /\ Len(ledger) \in Nat
        /\ n <= Len(ledger) /\ prior.led <= n
    BY LenProperties DEF Recording, Fixed, View
  <2>2. /\ prior.start \in Nat /\ prior.end \in Nat /\ r.start \in Nat /\ r.end \in Nat
        /\ prior.start <= r.start /\ prior.end <= r.end
    BY <1>2 DEF Incremental, View, Window
  <2>3. \A i \in 1..n : ledger[i].at \in Nat
    <3>1. \A i \in 1..n : ledger[i] \in Entry
      BY <2>1, ElementOfSeq DEF Recording
    <3> QED BY <3>1 DEF Entry
  <2>4. \A c : c \notin touched =>
          Promise!Used(n, c, r.start, r.end) =
          Promise!Used(prior.led, c, prior.start, prior.end)
    <3> SUFFICES ASSUME NEW c, c \notin touched
                 PROVE  Promise!Used(n, c, r.start, r.end) =
                        Promise!Used(prior.led, c, prior.start, prior.end)
      OBVIOUS
    <3>1. ASSUME NEW i \in 1..n, ledger[i].kind = "usage", ledger[i].conv = c
          PROVE  /\ i <= prior.led
                 /\ ~(prior.start <= ledger[i].at /\ ledger[i].at < r.start)
                 /\ ~(prior.end <= ledger[i].at /\ ledger[i].at < r.end)
      BY <3>1, <2>1 DEF Touched
    <3>2. \A i \in 1..n :
            (ledger[i].kind = "usage" /\ ledger[i].conv = c) =>
              ((r.start <= ledger[i].at /\ ledger[i].at < r.end) <=>
               (prior.start <= ledger[i].at /\ ledger[i].at < prior.end))
      <4> SUFFICES ASSUME NEW i \in 1..n, ledger[i].kind = "usage", ledger[i].conv = c
                   PROVE  (r.start <= ledger[i].at /\ ledger[i].at < r.end) <=>
                          (prior.start <= ledger[i].at /\ ledger[i].at < prior.end)
        OBVIOUS
      <4> DEFINE at == ledger[i].at
                 s0 == prior.start
                 e0 == prior.end
                 s1 == r.start
                 e1 == r.end
      <4>1. at \in Nat /\ s0 \in Nat /\ e0 \in Nat /\ s1 \in Nat /\ e1 \in Nat
        BY <2>2, <2>3
      <4>2. ~(s0 <= at /\ at < s1) /\ ~(e0 <= at /\ at < e1)
        BY <3>1
      <4>3. s0 <= s1 /\ e0 <= e1
        BY <2>2
      <4>4. (s1 <= at /\ at < e1) <=> (s0 <= at /\ at < e0)
        <5> HIDE DEF at, s0, e0, s1, e1
        <5> QED BY <4>1, <4>2, <4>3
      <4> QED BY <4>4
    <3>3. \A i : (i \in 1..n /\ i <= prior.led) <=> i \in 1..prior.led
      BY <2>1
    <3> HIDE DEF touched
    <3> QED BY <3>1, <3>2, <3>3 DEF Promise!Used
  <2>5. \A c : Promise!Named(n, c) = Promise!Named(prior.led, c)
    <3>1. marking # "all" /\ prior.full = hub.full
      BY <1>2 DEF Fixed, Incremental
    <3>2. \A i \in prior.led + 1..Len(ledger) : ledger[i].kind # "metadata"
      BY <3>1 DEF Good, Covers
    <3>3. \A i \in 1..n : i \in 1..prior.led \/ i \in prior.led + 1..Len(ledger)
      BY <2>1
    <3>4. \A i \in 1..prior.led : i \in 1..n
      BY <2>1
    <3> QED BY <3>2, <3>3, <3>4 DEF Promise!Named
  <2>6. PICK old \in Promise!Older(prior.led) :
          prior.rows = Promise!Rows(prior.led, old, prior.start, prior.end)
    BY DEF Good, Exact
  <2> DEFINE shown == [c \in Conversation |-> IF c \in kept THEN old[c]
                                             ELSE Promise!Latest(n)[c]]
             whole == Promise!Rows(n, shown, r.start, r.end)
  <2>7. shown \in Promise!Older(n)
    <3>1. old \in Promise!Older(n) /\ Promise!Latest(n) \in Promise!Older(n)
      BY <2>1, <2>6, OlderGrows, LatestOld
    <3> HIDE DEF kept
    <3> QED BY <3>1 DEF Promise!Older
  <2>8. \A c : c \in DOMAIN prior.rows <=>
          c \in Conversation /\ Promise!Used(prior.led, c, prior.start, prior.end) # {}
    BY <2>6 DEF Promise!Rows
  <2>9. \A c : /\ c \in DOMAIN fresh <=>
                   c \in Conversation /\ Promise!Used(n, c, r.start, r.end) # {}
               /\ c \in DOMAIN whole <=>
                   c \in Conversation /\ Promise!Used(n, c, r.start, r.end) # {}
    <3> HIDE DEF shown
    <3> QED BY DEF Promise!Rows
  <2>10. kept \cup (touched \cap DOMAIN fresh) = DOMAIN whole
    <3> HIDE DEF fresh, touched, whole
    <3> QED BY <2>4, <2>8, <2>9
  <2>11. ASSUME NEW c \in DOMAIN whole
         PROVE  whole[c] = IF c \in kept THEN prior.rows[c] ELSE fresh[c]
    <3>1. c \in Conversation /\ c \in DOMAIN fresh
      BY <2>9
    <3>2. whole[c] =
            [used  |-> Promise!Cardinality(Promise!Used(n, c, r.start, r.end)),
             named |-> Promise!Cardinality(Promise!Named(n, c)),
             shown |-> shown[c]]
      <4> HIDE DEF shown
      <4> QED BY <2>9 DEF Promise!Rows
    <3>3. CASE c \in kept
      <4>1. prior.rows[c] =
              [used  |-> Promise!Cardinality(Promise!Used(prior.led, c, prior.start, prior.end)),
               named |-> Promise!Cardinality(Promise!Named(prior.led, c)),
               shown |-> old[c]]
        BY <2>6, <2>8, <3>3 DEF Promise!Rows
      <4>2. shown[c] = old[c] /\ c \notin touched
        BY <3>1, <3>3
      <4> HIDE DEF shown, kept, touched, whole, fresh
      <4> QED BY <2>4, <2>5, <3>2, <3>3, <4>1, <4>2
    <3>4. CASE c \notin kept
      <4>1. fresh[c] =
              [used  |-> Promise!Cardinality(Promise!Used(n, c, r.start, r.end)),
               named |-> Promise!Cardinality(Promise!Named(n, c)),
               shown |-> Promise!Latest(n)[c]]
        BY <2>9, <3>1 DEF Promise!Rows
      <4>2. shown[c] = Promise!Latest(n)[c]
        BY <3>1, <3>4
      <4> HIDE DEF shown, kept, whole, fresh
      <4> QED BY <3>2, <3>4, <4>1, <4>2
    <3> QED BY <3>3, <3>4
  <2>12. whole = [c \in DOMAIN whole |-> whole[c]]
    BY DEF Promise!Rows
  <2>13. [c \in kept \cup (touched \cap DOMAIN fresh) |->
            IF c \in kept THEN prior.rows[c] ELSE fresh[c]] = whole
    <3> HIDE DEF fresh, kept, touched, whole
    <3> QED BY <2>10, <2>11, <2>12
  <2>14. BuildFrom(prior, r, n) = Snapshot(r, n, whole)
    BY <1>2, <2>13 DEF BuildFrom
  <2> HIDE DEF shown
  <2> QED BY <2>7, <2>14, SnapshotOK
<1> QED BY <1>1, <1>2

-----------------------------------------------------------------------------
(* Sequences.                                                              *)

(* Its elements may be replaced one by one.                                *)
LEMMA SeqMapped ==
  ASSUME NEW A, NEW B, NEW s \in Seq(A),
         NEW t, t = [j \in 1..Len(s) |-> t[j]],
         \A j \in 1..Len(s) : t[j] \in B
  PROVE  t \in Seq(B) /\ Len(t) = Len(s)
<1>1. Len(s) \in Nat
  BY LenProperties
<1>2. t \in [1..Len(s) -> B]
  OBVIOUS
<1>3. t \in Seq(B)
  BY <1>1, <1>2, SeqDef
<1>4. Len(t) \in Nat /\ DOMAIN t = 1..Len(t)
  BY <1>3, LenProperties
<1>5. DOMAIN t = 1..Len(s)
  BY <1>2
<1> DEFINE m == Len(s)
           n == Len(t)
<1>6. m \in Nat /\ n \in Nat /\ 1..m = 1..n
  BY <1>1, <1>4, <1>5
<1>7. m = n
  <2> HIDE DEF m, n
  <2> QED BY <1>6
<1> QED BY <1>3, <1>7

(* One of them may go.                                                     *)
LEMMA SeqWithout ==
  ASSUME NEW A, NEW s \in Seq(A), NEW i \in 1..Len(s)
  PROVE  RemoveAt(s, i) \in Seq(A) /\ Len(RemoveAt(s, i)) = Len(s) - 1
<1> DEFINE n == Len(s)
<1>1. n \in Nat /\ \A j \in 1..n : s[j] \in A
  BY LenProperties, ElementOfSeq
<1>2. /\ i \in Int /\ i - 1 \in Int /\ i + 1 \in Int /\ 1 \in Int /\ n \in Int
      /\ 1 <= i /\ i <= n
  <2>1. i \in 1..n
    OBVIOUS
  <2> HIDE DEF n
  <2> QED BY <1>1, <2>1
<1>3. /\ \A j \in 1..i - 1 : s[j] \in A
      /\ \A j \in i + 1..n : s[j] \in A
  <2> HIDE DEF n
  <2>1. \A j \in 1..i - 1 : j \in 1..n
    BY <1>2
  <2>2. \A j \in i + 1..n : j \in 1..n
    BY <1>2
  <2> QED BY <1>1, <2>1, <2>2
<1>4. /\ SubSeq(s, 1, i - 1) \in Seq(A)
      /\ Len(SubSeq(s, 1, i - 1)) = IF 1 <= i - 1 THEN i - 1 - 1 + 1 ELSE 0
  BY <1>2, <1>3, SubSeqProperties
<1>5. /\ SubSeq(s, i + 1, n) \in Seq(A)
      /\ Len(SubSeq(s, i + 1, n)) = IF i + 1 <= n THEN n - (i + 1) + 1 ELSE 0
  BY <1>2, <1>3, SubSeqProperties
<1>6. /\ RemoveAt(s, i) \in Seq(A)
      /\ Len(RemoveAt(s, i)) = Len(SubSeq(s, 1, i - 1)) + Len(SubSeq(s, i + 1, n))
  BY <1>4, <1>5, ConcatProperties DEF RemoveAt
<1>7. (IF 1 <= i - 1 THEN i - 1 - 1 + 1 ELSE 0) + (IF i + 1 <= n THEN n - (i + 1) + 1 ELSE 0)
        = n - 1
  <2> HIDE DEF n
  <2> QED BY <1>1, <1>2
<1> QED BY <1>4, <1>5, <1>6, <1>7

(* The oldest makes room.                                                  *)
LEMMA SeqRoom ==
  ASSUME NEW A, NEW s \in Seq(A), NEW m \in Nat \ {0}, Len(s) <= m,
         NEW t, t = IF Len(s) >= m THEN Tail(s) ELSE s
  PROVE  t \in Seq(A) /\ Len(t) + 1 <= m
<1>1. Len(s) \in Nat
  BY LenProperties
<1>2. CASE Len(s) >= m
  <2>1. s # <<>>
    BY <1>1, <1>2, EmptySeq
  <2>2. Tail(s) \in Seq(A) /\ Len(Tail(s)) = Len(s) - 1
    BY <2>1, HeadTailProperties
  <2> QED BY <1>1, <1>2, <2>2
<1>3. CASE ~(Len(s) >= m)
  BY <1>1, <1>3
<1> QED BY <1>2, <1>3

-----------------------------------------------------------------------------
(* Giving a revision.                                                      *)

(* A reading becomes a view by its revision.                               *)
Numbered(v, n) ==
  [f \in DOMAIN v \cup {"rev"} |-> IF f = "rev" THEN n ELSE v[f]]

(* The view has every field of the reading.                                *)
LEMMA NumberedOK ==
  ASSUME NEW v \in Draft, NEW n \in Nat
  PROVE  /\ Numbered(v, n) \in View
         /\ Numbered(v, n).rev = n
         /\ Numbered(v, n).epoch = v.epoch /\ Numbered(v, n).key = v.key
         /\ Numbered(v, n).start = v.start /\ Numbered(v, n).end = v.end
         /\ Numbered(v, n).led = v.led /\ Numbered(v, n).seq = v.seq
         /\ Numbered(v, n).full = v.full /\ Numbered(v, n).rows = v.rows
<1> DEFINE fields == {"epoch", "key", "start", "end", "led", "seq", "full", "rows"}
           w == [epoch |-> v.epoch, key |-> v.key, start |-> v.start, end |-> v.end,
                 led |-> v.led, seq |-> v.seq, full |-> v.full, rows |-> v.rows,
                 rev |-> n]
<1>1. DOMAIN v = fields
  BY DEF Draft
<1>2. Numbered(v, n) =
        [f \in fields \cup {"rev"} |-> IF f = "rev" THEN n ELSE v[f]]
  BY <1>1 DEF Numbered
<1>3. w = [f \in fields \cup {"rev"} |-> IF f = "rev" THEN n ELSE v[f]]
  OBVIOUS
<1>4. Numbered(v, n) = w
  BY <1>2, <1>3
<1>5. w \in View
  BY DEF View, Draft
<1> QED BY <1>4, <1>5

(* The next revision is a new one.                                         *)
LEMMA IssueOK ==
  ASSUME Recording, NEW S, NEW T, NEW R, NEW n, Issued(S, T, n),
         NEW v \in Draft, Good(v), v.epoch = hub.epoch
  PROVE  Issued(S \cup {Numbered(v, n + 1)}, T, n + 1)
<1> DEFINE w == Numbered(v, n + 1)
           k == n + 1
<1>1. n \in Nat /\ k \in Nat /\ n < k /\ n <= k
  BY DEF Issued
<1>2. /\ w \in View /\ w.rev = k /\ w.epoch = v.epoch /\ w.key = v.key
      /\ w.start = v.start /\ w.end = v.end /\ w.led = v.led /\ w.seq = v.seq
      /\ w.full = v.full /\ w.rows = v.rows
  BY <1>1, NumberedOK
<1> HIDE DEF w, k
<1>3. Good(w)
  BY <1>2 DEF Good, Exact, Covers
<1>4. ASSUME NEW x \in S PROVE Good(x) /\ (x.epoch = hub.epoch => x.rev <= k /\ x.rev # k)
  <2>1. Good(x) /\ (x.epoch = hub.epoch => x.rev <= n) /\ x.rev \in Nat
    BY DEF Issued, View
  <2> DEFINE y == x.rev
  <2>2. y \in Nat /\ (y <= n => (y <= k /\ y # k))
    <3> HIDE DEF y
    <3>1. y \in Nat => (y <= n => (y <= k /\ y # k))
      BY <1>1
    <3> QED BY <2>1, <3>1 DEF y
  <2> QED BY <2>1, <2>2
<1>5. w.rev <= k
  BY <1>1, <1>2
<1>6. ASSUME NEW x \in S \cup {w}, NEW y \in S \cup {w},
             x.epoch = y.epoch, x.rev = y.rev
      PROVE  x = y
  <2>1. CASE x \in S /\ y \in S
    BY <1>6, <2>1 DEF Issued
  <2>2. CASE x = w /\ y = w
    BY <2>2
  <2>3. CASE x = w /\ y \in S
    BY <1>2, <1>4, <1>6, <2>3
  <2>4. CASE x \in S /\ y = w
    BY <1>2, <1>4, <1>6, <2>4
  <2> QED BY <2>1, <2>2, <2>3, <2>4
<1>7. /\ S \cup {w} \subseteq View /\ T \subseteq Draft
      /\ \A x \in T : Good(x) /\ x.epoch = hub.epoch
  BY <1>2 DEF Issued
<1>8. \A x \in S \cup {w} : Good(x) /\ (x.epoch = hub.epoch => x.rev <= k)
  BY <1>3, <1>4, <1>5
<1>9. Issued(S \cup {w}, T, k)
  BY <1>1, <1>6, <1>7, <1>8 DEF Issued
<1> QED BY <1>9 DEF w, k

(* What adopting a reading leads to: the value, new or not, has a revision *)
(* and everything that is kept has one.                                    *)
Adopted(S, T, S2, a, v) ==
  /\ S \subseteq S2
  /\ Issued(S2, T, a.sequence) /\ Held(S2, hub.epoch, a.views)
  /\ a.value \in S2 /\ a.value.epoch = hub.epoch /\ a.value.key = v.key

(* A reading is adopted, or an earlier one of the same epoch stays.        *)
LEMMA AdoptOK ==
  ASSUME Recording, NEW S, NEW T, NEW R, Issued(S, T, sequence), Held(S, hub.epoch, views),
         NEW q \in Query, NEW v \in Draft, Good(v), v.epoch = hub.epoch
  PROVE  \E S2 : Adopted(S, T, S2, Adopt(q, v), v)
<1> DEFINE w  == Numbered(v, sequence + 1)
           S2 == S \cup {w}
           E  == hub.epoch
           fresh == [query |-> q, key |-> v.key, value |-> w, published |-> w]
           a  == Adopt(q, v)
<1>1. sequence \in Nat /\ sequence + 1 \in Nat
  BY DEF Issued
<1>2. w \in View /\ w.epoch = E /\ w.key = v.key
  BY <1>1, NumberedOK
<1>3. Issued(S2, T, sequence + 1)
  BY IssueOK
<1>4. KeptIn(S, E) \subseteq KeptIn(S2, E)
  BY DEF KeptIn
<1>5. views \in Seq(KeptIn(S, E)) /\ Len(views) <= MaxViews
  BY DEF Held
<1>6. views \in Seq(KeptIn(S2, E))
  BY <1>4, <1>5, SeqMonotonic
<1>7. Len(views) \in Nat /\ DOMAIN views = 1..Len(views)
  BY <1>5, LenProperties
<1>8. MaxViews \in Nat \ {0}
  BY StreamAssumption
<1>9. CASE ViewOf(v.key) = {}
  <2>1. fresh \in KeptIn(S2, E)
    <3>1. fresh \in Kept
      BY <1>2 DEF Kept, Draft
    <3> QED BY <1>2, <3>1 DEF KeptIn
  <2> DEFINE room == IF Len(views) >= MaxViews THEN Tail(views) ELSE views
  <2>2. /\ a.views = Append(room, fresh)
        /\ a.sequence = sequence + 1 /\ a.value = w
    BY <1>9 DEF Adopt, Numbered
  <2>3. room \in Seq(KeptIn(S2, E)) /\ Len(room) + 1 <= MaxViews
    BY <1>5, <1>6, <1>8, SeqRoom
  <2> HIDE DEF room, w, fresh, a
  <2>4. Append(room, fresh) \in Seq(KeptIn(S2, E)) /\ Len(Append(room, fresh)) = Len(room) + 1
    BY <2>1, <2>3, AppendProperties
  <2>5. Held(S2, E, a.views)
    BY <2>2, <2>3, <2>4 DEF Held
  <2>6. Adopted(S, T, S2, a, v)
    BY <1>2, <1>3, <2>2, <2>5 DEF Adopted
  <2> QED BY <2>6 DEF a
<1>10. CASE ViewOf(v.key) # {}
  <2> DEFINE i == CHOOSE i \in ViewOf(v.key) : TRUE
  <2>1. i \in 1..Len(views) /\ views[i].key = v.key
    BY <1>7, <1>10 DEF ViewOf
  <2>2. views[i] \in KeptIn(S, E) /\ views[i] \in KeptIn(S2, E)
    BY <1>4, <1>5, <2>1, ElementOfSeq
  <2>3. CASE Outdated(views[i].value, v)
    <3>1. a.views = views /\ a.sequence = sequence /\ a.value = views[i].value
      BY <1>10, <2>3 DEF Adopt
    <3>2. a.value \in S /\ a.value.epoch = E /\ a.value.key = v.key
      BY <2>1, <2>2, <3>1 DEF KeptIn
    <3> HIDE DEF a, i, w
    <3>3. Adopted(S, T, S, a, v)
      BY <3>1, <3>2 DEF Adopted
    <3> QED BY <3>3 DEF a
  <2>4. CASE ~Outdated(views[i].value, v)
    <3> DEFINE next == [views[i] EXCEPT !.value = w]
    <3>1. /\ a.views = Append(RemoveAt(views, i), next)
          /\ a.sequence = sequence + 1 /\ a.value = w
      BY <1>10, <2>4 DEF Adopt, Numbered
    <3>2. next \in KeptIn(S2, E)
      <4> DEFINE x == views[i]
      <4>1. x \in Kept /\ x.published \in S2 /\ x.published.epoch = E /\ x.key = v.key
        BY <2>1, <2>2 DEF KeptIn
      <4> HIDE DEF x, w
      <4>2. [x EXCEPT !.value = w] \in KeptIn(S2, E)
        BY <1>2, <4>1 DEF KeptIn, Kept
      <4> QED BY <4>2 DEF x
    <3> HIDE DEF a, i, w, next
    <3>3. /\ RemoveAt(views, i) \in Seq(KeptIn(S2, E))
          /\ Len(RemoveAt(views, i)) = Len(views) - 1
      BY <1>6, <2>1, SeqWithout
    <3>4. /\ a.views \in Seq(KeptIn(S2, E))
          /\ Len(a.views) = Len(RemoveAt(views, i)) + 1
      BY <3>1, <3>2, <3>3, AppendProperties
    <3>5. Len(a.views) <= MaxViews
      BY <1>5, <1>7, <1>8, <3>3, <3>4
    <3>6. Held(S2, E, a.views)
      BY <3>4, <3>5 DEF Held
    <3>7. Adopted(S, T, S2, a, v)
      BY <1>2, <1>3, <3>1, <3>6 DEF Adopted
    <3> QED BY <3>7 DEF a
  <2> QED BY <2>3, <2>4
<1> QED BY <1>9, <1>10

-----------------------------------------------------------------------------
(* Differences.                                                            *)

(* The difference of two views, applied to the first, gives the second.    *)
LEMMA MergeOK ==
  ASSUME NEW base \in View, NEW next \in View
  PROVE  Merge(base, Difference(base, next)) = next
<1> DEFINE m == Difference(base, next)
           changed == {c \in DOMAIN next.rows :
                         c \notin DOMAIN base.rows \/ base.rows[c] # next.rows[c]}
           part == [c \in changed |-> next.rows[c]]
           D == (DOMAIN base.rows \ m.removed) \cup DOMAIN m.view.rows
           rows == [c \in D |-> IF c \in DOMAIN m.view.rows THEN m.view.rows[c]
                                ELSE base.rows[c]]
<1>1. /\ m.view = [next EXCEPT !.rows = part]
      /\ m.removed = DOMAIN base.rows \ DOMAIN next.rows
  BY DEF Difference
<1>2. m.view.rows = part /\ DOMAIN m.view.rows = changed
  BY <1>1 DEF View
<1>3. next.rows = [c \in DOMAIN next.rows |-> next.rows[c]]
  BY DEF View, AnyRows
<1>4. D = DOMAIN next.rows
  BY <1>1, <1>2
<1>5. \A c \in D : (IF c \in DOMAIN m.view.rows THEN m.view.rows[c] ELSE base.rows[c])
                     = next.rows[c]
  BY <1>1, <1>2, <1>4
<1>6. rows = next.rows
  <2> HIDE DEF D, m
  <2> QED BY <1>3, <1>4, <1>5
<1>7. Merge(base, m) = [m.view EXCEPT !.rows = rows]
  BY DEF Merge
<1>8. [m.view EXCEPT !.rows = rows] = next
  <2> HIDE DEF rows, m, part
  <2> QED BY <1>1, <1>6 DEF View
<1> QED BY <1>7, <1>8

(* A message says of itself what it is the difference of.                  *)
LEMMA DifferenceFields ==
  ASSUME NEW base \in View, NEW next \in View
  PROVE  /\ Difference(base, next).type = "numbers"
         /\ Difference(base, next).base = base.rev
         /\ Difference(base, next).baseEnd = base.end
         /\ Difference(base, next).view.epoch = next.epoch
         /\ Difference(base, next).view.key = next.key
         /\ Difference(base, next).view.rev = next.rev
         /\ Difference(base, next).view.end = next.end
  BY DEF Difference, View

-----------------------------------------------------------------------------
(* Pages.                                                                  *)

(* A step of the page that leaves its numbers and its range as they are.   *)
Stays(S, T, R, d, x) ==
  PageOK(S, T, R, x.d, x.g) /\ x.d.page = d.page /\ x.d.query = d.query

(* A request is for the range chosen.                                      *)
LEMMA AskOK ==
  ASSUME NEW S, NEW T, NEW R, NEW d, DashOK(S, d)
  PROVE  PageOK(S, T, R, d, Ask(d.query))
<1>1. Ask(d.query) \in Asked /\ Ask(d.query).query = d.query
  BY DEF Ask, Asked, Dash, DashOK
<1> QED BY <1>1 DEF PageOK, GetOK

(* The next one waits for the end of the one under way.                    *)
LEMMA WaitsOK ==
  ASSUME NEW S, NEW d, DashOK(S, d)
  PROVE  /\ DashOK(S, [d EXCEPT !.pending = TRUE])
         /\ [d EXCEPT !.pending = TRUE].page = d.page
         /\ [d EXCEPT !.pending = TRUE].query = d.query
<1>1. d \in Dash /\ (d.page = Blank \/ d.page \in S)
  BY DEF DashOK
<1> QED BY <1>1 DEF DashOK, Dash

(* A request for the range chosen is made, or waits.                       *)
LEMMA LoadsOK ==
  ASSUME NEW S, NEW T, NEW R, NEW d, NEW g, PageOK(S, T, R, d, g)
  PROVE  Stays(S, T, R, d, Loads(d, g, FALSE))
<1>1. DashOK(S, d) /\ GetOK(S, T, R, g, d.query)
  BY DEF PageOK
<1>2. CASE g = NoGet
  <2>1. Loads(d, g, FALSE).d = d /\ Loads(d, g, FALSE).g = Ask(d.query)
    BY <1>2 DEF Loads
  <2> QED BY <1>1, <2>1, AskOK DEF Stays
<1>3. CASE g # NoGet
  <2> DEFINE e == [d EXCEPT !.pending = TRUE]
  <2>1. Loads(d, g, FALSE).d = e /\ Loads(d, g, FALSE).g = g
    BY <1>3 DEF Loads
  <2>2. DashOK(S, e) /\ e.page = d.page /\ e.query = d.query
    BY <1>1, WaitsOK
  <2> HIDE DEF e
  <2> QED BY <1>1, <2>1, <2>2 DEF PageOK, Stays
<1> QED BY <1>2, <1>3

(* An answer that is not wanted any more may be one for any range.         *)
LEMMA StaleOK ==
  ASSUME NEW S, NEW T, NEW R, NEW g, g # NoGet, NEW q, GetOK(S, T, R, g, q), NEW r
  PROVE  GetOK(S, T, R, [g EXCEPT !.stale = TRUE], r)
<1> DEFINE x == [g EXCEPT !.stale = TRUE]
<1>1. CASE g \in Asked
  <2>1. x \in Asked /\ x.stale = TRUE
    BY <1>1 DEF Asked
  <2> QED BY <2>1 DEF GetOK
<1>2. CASE g \in Queued /\ g.range.key[1] = g.query
  <2>1. x \in Queued /\ x.stale = TRUE /\ x.range = g.range /\ x.query = g.query
    BY <1>2 DEF Queued
  <2> QED BY <1>2, <2>1 DEF GetOK
<1>5. CASE g \in Pinned /\ g.range.key[1] = g.query /\ g.led \in R
  <2>1. /\ x \in Pinned /\ x.stale = TRUE /\ x.range = g.range /\ x.query = g.query
        /\ x.led = g.led
    BY <1>5 DEF Pinned
  <2> QED BY <1>5, <2>1 DEF GetOK
<1>3. CASE g \in Built /\ g.view \in T /\ g.view.key[1] = g.query
  <2>1. x \in Built /\ x.stale = TRUE /\ x.view = g.view /\ x.query = g.query
    BY <1>3 DEF Built
  <2> QED BY <1>3, <2>1 DEF GetOK
<1>4. CASE g \in Answered /\ g.view \in S /\ g.view.key[1] = g.query
  <2>1. x \in Answered /\ x.stale = TRUE /\ x.view = g.view /\ x.query = g.query
    BY <1>4 DEF Answered
  <2> QED BY <1>4, <2>1 DEF GetOK
<1> QED BY <1>1, <1>2, <1>3, <1>4, <1>5 DEF GetOK

(* A request that replaces another is made after that one has ended.       *)
LEMMA ReplacesOK ==
  ASSUME NEW S, NEW T, NEW R, NEW d, DashOK(S, d), NEW g, NEW q, GetOK(S, T, R, g, q)
  PROVE  Stays(S, T, R, d, Loads(d, g, TRUE))
<1>1. CASE g = NoGet
  <2>1. Loads(d, g, TRUE).d = d /\ Loads(d, g, TRUE).g = Ask(d.query)
    BY <1>1 DEF Loads
  <2> QED BY <2>1, AskOK DEF Stays
<1>2. CASE g # NoGet
  <2> DEFINE e == [d EXCEPT !.pending = TRUE]
             h == [g EXCEPT !.stale = TRUE]
  <2>1. Loads(d, g, TRUE).d = e /\ Loads(d, g, TRUE).g = h
    BY <1>2 DEF Loads
  <2>2. DashOK(S, e) /\ e.page = d.page /\ e.query = d.query
    BY WaitsOK
  <2>3. GetOK(S, T, R, h, e.query)
    BY <1>2, StaleOK
  <2> HIDE DEF e, h
  <2> QED BY <2>1, <2>2, <2>3 DEF PageOK, Stays
<1> QED BY <1>1, <1>2

(* A request ends, and the next one is for the range chosen.               *)
LEMMA EndedOK ==
  ASSUME NEW S, NEW T, NEW R, NEW d, DashOK(S, d)
  PROVE  Stays(S, T, R, d, Ended(d))
<1>1. d \in Dash /\ (d.page = Blank \/ d.page \in S)
  BY DEF DashOK
<1>2. CASE d.pending
  <2> DEFINE e == [d EXCEPT !.pending = FALSE]
  <2>1. Ask(d.query) \in Asked /\ Ask(d.query).query = d.query
    BY <1>1 DEF Ask, Asked, Dash
  <2>2. DashOK(S, e) /\ e.page = d.page /\ e.query = d.query
    BY <1>1 DEF DashOK, Dash
  <2>3. Ended(d).d = e /\ Ended(d).g = Ask(d.query)
    BY <1>2 DEF Ended
  <2> HIDE DEF e
  <2> QED BY <2>1, <2>2, <2>3 DEF PageOK, GetOK, Stays
<1>3. CASE ~d.pending
  <2>1. Ended(d).d = d /\ Ended(d).g = NoGet
    BY <1>3 DEF Ended
  <2> QED BY <2>1 DEF PageOK, GetOK, Stays
<1> QED BY <1>2, <1>3

(* A page that takes a view shows that one, or what it showed before.      *)
LEMMA ConfirmOK ==
  ASSUME NEW S, S \subseteq View, NEW d, DashOK(S, d), NEW v \in S
  PROVE  /\ DashOK(S, Confirm(d, v)) /\ Confirm(d, v).query = d.query
         /\ Confirm(d, v).page \in {d.page, v}
<1>1. d \in Dash /\ (d.page = Blank \/ d.page \in S)
  BY DEF DashOK
<1>2. v \in View
  OBVIOUS
<1> DEFINE x == [d EXCEPT !.page = v]
           y == [d EXCEPT !.stream = "connecting"]
           z == [d EXCEPT !.timer = TRUE]
<1>3. DashOK(S, x) /\ x.query = d.query /\ x.page = v
  BY <1>1, <1>2 DEF DashOK, Dash
<1>4. DashOK(S, y) /\ y.query = d.query /\ y.page = d.page
  BY <1>1 DEF DashOK, Dash, Streams
<1>5. DashOK(S, z) /\ z.query = d.query /\ z.page = d.page
  BY <1>1 DEF DashOK, Dash
<1>6. Confirm(d, v) \in {x, y, z}
  BY DEF Confirm
<1> HIDE DEF x, y, z
<1> QED BY <1>3, <1>4, <1>5, <1>6

(* The first event of a stream, and a heartbeat, change no number.         *)
LEMMA ToldOK ==
  ASSUME NEW S, NEW T, NEW R, NEW d, NEW g, PageOK(S, T, R, d, g),
         NEW told, told.epoch \in Nat,
         told.seq \in Nat,
         NEW x, x = OnReady(d, g, told) \/ x = OnHeartbeat(d, g, told)
  PROVE  Stays(S, T, R, d, x)
<1>1. DashOK(S, d) /\ GetOK(S, T, R, g, d.query) /\ d.query \in Query
  BY DEF PageOK, DashOK, Dash
<1> DEFINE heard == [d EXCEPT !.expected = told.epoch]
           later == [heard EXCEPT !.late = told.seq]
<1>2. DashOK(S, heard) /\ heard.page = d.page /\ heard.query = d.query
  BY <1>1 DEF DashOK, Dash
<1>3. DashOK(S, later) /\ later.page = d.page /\ later.query = d.query
  <2> HIDE DEF heard
  <2>1. heard \in Dash /\ told.seq \in Int
    BY <1>2 DEF DashOK
  <2> QED BY <1>2, <2>1 DEF DashOK, Dash
<1>4. Stays(S, T, R, d, Loads(d, g, FALSE))
  BY LoadsOK
<1>5. Stays(S, T, R, heard, Loads(heard, g, FALSE))
  <2>1. PageOK(S, T, R, heard, g)
    BY <1>1, <1>2 DEF PageOK
  <2> HIDE DEF heard
  <2> QED BY <2>1, LoadsOK
<1>6. x \in {Loads(d, g, FALSE), Loads(heard, g, FALSE), [d |-> d, g |-> g], [d |-> heard, g |-> g],
             [d |-> later, g |-> g]}
  BY DEF OnReady, OnHeartbeat
<1> HIDE DEF heard, later
<1>7. CASE x = Loads(d, g, FALSE)
  BY <1>4, <1>7
<1>8. CASE x = Loads(heard, g, FALSE)
  BY <1>2, <1>5, <1>8 DEF Stays
<1>9. CASE x = [d |-> d, g |-> g]
  BY <1>9 DEF Stays
<1>10. CASE x = [d |-> heard, g |-> g]
  BY <1>1, <1>2, <1>10 DEF PageOK, Stays
<1>11. CASE x = [d |-> later, g |-> g]
  BY <1>1, <1>3, <1>11 DEF PageOK, Stays
<1> QED BY <1>6, <1>7, <1>8, <1>9, <1>10, <1>11

(* A difference makes the page the view it leads to, or changes nothing.   *)
LEMMA OnNumbersOK ==
  ASSUME NEW S, S \subseteq View,
         \A v, w \in S : v.epoch = w.epoch /\ v.rev = w.rev => v = w,
         NEW T, NEW R, NEW d, NEW g, PageOK(S, T, R, d, g),
         NEW base \in S, NEW next \in S, base.epoch = next.epoch,
         NEW x, x = OnNumbers(d, g, Difference(base, next))
  PROVE  /\ PageOK(S, T, R, x.d, x.g) /\ x.d.query = d.query
         /\ \/ x.d.page = d.page
            \/ d.page # Blank /\ x.d.page = next /\ d.page.key = next.key
<1> DEFINE m == Difference(base, next)
<1>1. /\ DashOK(S, d) /\ GetOK(S, T, R, g, d.query) /\ d.query \in Query
      /\ (d.page = Blank \/ d.page \in S)
  BY DEF PageOK, DashOK, Dash
<1>2. base \in View /\ next \in View
  OBVIOUS
<1>3. /\ m.base = base.rev /\ m.view.epoch = next.epoch /\ m.view.key = next.key
  BY <1>2, DifferenceFields
<1>4. CASE x = Loads(d, g, FALSE)
  <2>1. Stays(S, T, R, d, Loads(d, g, FALSE))
    BY LoadsOK
  <2> QED BY <1>4, <2>1 DEF Stays
<1>5. CASE x = [d |-> d, g |-> g]
  BY <1>5
<1>6. CASE /\ x = [d |-> Confirm(d, Merge(d.page, m)), g |-> g]
           /\ d.page # Blank /\ d.page.epoch = m.view.epoch /\ d.page.key = m.view.key
           /\ OnBase(d.page, m)
  <2>1. d.page \in S /\ d.page.epoch = base.epoch /\ d.page.rev = base.rev
    BY <1>1, <1>3, <1>6 DEF OnBase
  <2>2. d.page = base
    BY <2>1
  <2>3. Merge(d.page, m) = next
    BY <1>2, <2>2, MergeOK
  <2>4. x.d = Confirm(d, next) /\ x.g = g
    BY <1>6, <2>3
  <2>5. /\ DashOK(S, Confirm(d, next)) /\ Confirm(d, next).query = d.query
        /\ Confirm(d, next).page \in {d.page, next}
    BY <1>1, ConfirmOK
  <2>6. d.page.key = next.key
    BY <1>3, <1>6
  <2> HIDE DEF m
  <2>7. PageOK(S, T, R, x.d, x.g)
    BY <1>1, <2>4, <2>5 DEF PageOK
  <2> QED BY <1>6, <2>4, <2>5, <2>6, <2>7
<1>7. \/ x = Loads(d, g, FALSE)
      \/ x = [d |-> d, g |-> g]
      \/ /\ x = [d |-> Confirm(d, Merge(d.page, m)), g |-> g]
         /\ d.page # Blank /\ d.page.epoch = m.view.epoch /\ d.page.key = m.view.key
         /\ OnBase(d.page, m)
  BY DEF OnNumbers
<1> QED BY <1>4, <1>5, <1>6, <1>7

-----------------------------------------------------------------------------
(* What steps have in common.                                              *)

(* What is known of a page and of a message stays known.                   *)
LEMMA StillOK ==
  ASSUME NEW S, NEW S2, S \subseteq S2, NEW T, NEW T2, T \subseteq T2,
         NEW R, NEW R2, R \subseteq R2
  PROVE  /\ \A m : IsMessage(S, m) => IsMessage(S2, m)
         /\ \A d, g : PageOK(S, T, R, d, g) => PageOK(S2, T2, R2, d, g)
<1>1. \A m : IsMessage(S, m) => IsMessage(S2, m)
  BY DEF IsMessage
<1>2. ASSUME NEW d, NEW g, PageOK(S, T, R, d, g) PROVE PageOK(S2, T2, R2, d, g)
  <2>1. DashOK(S2, d)
    BY <1>2 DEF PageOK, DashOK
  <2>2. GetOK(S2, T2, R2, g, d.query)
    BY <1>2 DEF PageOK, GetOK
  <2> QED BY <2>1, <2>2 DEF PageOK
<1> QED BY <1>1, <1>2

(* How far a request has got.                                              *)
LEMMA GetCases ==
  ASSUME NEW S, NEW T, NEW R, NEW g, NEW q, GetOK(S, T, R, g, q)
  PROVE  /\ g.pc \in {"none", "asked", "queued", "pinned", "built", "answered"}
         /\ g.pc = "none" => g = NoGet
         /\ g.pc = "asked" => g \in Asked
         /\ g.pc = "queued" => g \in Queued /\ g.range.key[1] = g.query
         /\ g.pc = "pinned" => g \in Pinned /\ g.range.key[1] = g.query /\ g.led \in R
         /\ g.pc = "built" => g \in Built /\ g.view \in T /\ g.view.key[1] = g.query
         /\ g.pc = "answered" => g \in Answered /\ g.view \in S /\ g.view.key[1] = g.query
         /\ g.pc # "none" => g.stale \/ g.query = q
<1>1. CASE g = NoGet
  BY <1>1 DEF NoGet
<1>2. CASE g \in Asked /\ (g.stale \/ g.query = q)
  BY <1>2 DEF Asked
<1>3. CASE g \in Queued /\ g.range.key[1] = g.query /\ (g.stale \/ g.query = q)
  <2>1. g.pc = "queued"
    BY <1>3 DEF Queued
  <2> QED BY <1>3, <2>1
<1>6. CASE g \in Pinned /\ g.range.key[1] = g.query /\ g.led \in R
           /\ (g.stale \/ g.query = q)
  <2>1. g.pc = "pinned"
    BY <1>6 DEF Pinned
  <2> QED BY <1>6, <2>1
<1>4. CASE g \in Built /\ g.view \in T /\ g.view.key[1] = g.query /\ (g.stale \/ g.query = q)
  <2>1. g.pc = "built"
    BY <1>4 DEF Built
  <2> QED BY <1>4, <2>1
<1>5. CASE g \in Answered /\ g.view \in S /\ g.view.key[1] = g.query /\ (g.stale \/ g.query = q)
  <2>1. g.pc = "answered"
    BY <1>5 DEF Answered
  <2> QED BY <1>5, <2>1
<1> QED BY <1>1, <1>2, <1>3, <1>4, <1>5, <1>6 DEF GetOK

(* Steps that neither record nor mark, and take no time.                   *)
Quiet ==
  /\ UNCHANGED <<now, ledger, marking, unmarked>>
  /\ hub' = [hub EXCEPT !.dirty = hub'.dirty] /\ hub'.dirty \in BOOLEAN
  /\ trouble' \in {trouble, trouble + 1}

(* They leave every reading as good as it was.                             *)
LEMMA QuietOK ==
  ASSUME Recording, Quiet
  PROVE  /\ Recording' /\ hub'.epoch = hub.epoch
         /\ \A v \in View \cup Draft : Good(v) => Good(v)'
<1>1. /\ hub'.epoch = hub.epoch /\ hub'.seq = hub.seq /\ hub'.full = hub.full
      /\ hub' \in [epoch : Nat, seq : Nat, full : Nat, dirty : BOOLEAN]
  <2> DEFINE x == hub'.dirty
  <2>1. hub' = [hub EXCEPT !.dirty = x] /\ x \in BOOLEAN
    BY DEF Quiet
  <2> HIDE DEF x
  <2> QED BY <2>1 DEF Recording
<1>2. /\ now' = now /\ ledger' = ledger /\ marking' = marking /\ unmarked' = unmarked
      /\ trouble' \in Nat
  BY DEF Quiet, Recording
<1>3. Recording'
  BY <1>1, <1>2 DEF Recording
<1>4. ASSUME NEW v \in View \cup Draft, Good(v) PROVE Good(v)'
  <2>2. Exact(v)'
    BY <1>2, <1>4, ExactStable DEF Good, Recording, View, Draft
  <2>3. Covers(v) => Covers(v)'
    BY <1>1, <1>2 DEF Covers
  <2> QED BY <1>1, <1>4, <2>2, <2>3 DEF Good
<1> QED BY <1>1, <1>3, <1>4

(* Nor do they change what has a revision.                                 *)
LEMMA QuietIssued ==
  ASSUME Recording, Quiet, NEW S, NEW T, NEW R, NEW n, Issued(S, T, n), sequence' = n
  PROVE  Issued(S, T, sequence)'
<1>1. hub'.epoch = hub.epoch /\ \A v \in View \cup Draft : Good(v) => Good(v)'
  BY QuietOK
<1> QED BY <1>1 DEF Issued

(* What is fixed stays so.                                                 *)
LEMMA QuietFixed ==
  ASSUME NEW R, Fixed(R), Quiet
  PROVE  Fixed(R)'
BY DEF Fixed, Quiet

(* Most steps change neither the views nor the answers that are kept.      *)
LEMMA QuietKnown ==
  ASSUME NEW S, NEW T, NEW R, Known(S, T, R), Quiet, UNCHANGED <<views, sequence,
                                                                 cache, pin>>,
         Sent(S)', Shown(S, T, R)'
  PROVE  Known(S, T, R)'
<1>1. Recording' /\ hub'.epoch = hub.epoch
  BY QuietOK DEF Known
<1>2. Issued(S, T, sequence)'
  BY QuietIssued DEF Known
<1>3. (Held(S, hub.epoch, views) /\ Buffered(S, cache))'
  BY <1>1 DEF Known
<1>4. Fixed(R)'
  BY QuietFixed DEF Known
<1>5. PinOK(R)'
  BY DEF Known, PinOK
<1> QED BY <1>1, <1>2, <1>3, <1>4, <1>5 DEF Known

(* A message is put in a slot, or a slot is emptied.                       *)
LEMMA SentOK ==
  ASSUME NEW S, NEW S2, S \subseteq S2, Sent(S), todo' \subseteq todo,
         \A k \in DOMAIN frames' : IsMessage(S2, frames'[k]),
         NEW b, NEW m, IsMessage(S2, m),
         slot' = slot \/ slot' = [slot EXCEPT ![b] = m]
  PROVE  Sent(S2)'
<1>1. \A x : IsMessage(S, x) => IsMessage(S2, x)
  BY StillOK
<1>2. slot' = [c \in Browser |-> slot'[c]]
  BY DEF Sent
<1>3. \A c \in Browser : IsMessage(S2, slot'[c])
  BY <1>1 DEF Sent
<1> QED BY <1>2, <1>3 DEF Sent

(* A page and its request go on.                                           *)
LEMMA ShownOK ==
  ASSUME NEW S, NEW T, NEW R, Shown(S, T, R), NEW S2, S \subseteq S2,
         NEW T2, T \subseteq T2, NEW R2, R \subseteq R2,
         NEW b \in Browser, NEW d, NEW g, PageOK(S2, T2, R2, d, g),
         dash' = [dash EXCEPT ![b] = d] \/ (dash' = dash /\ d = dash[b]),
         get' = [get EXCEPT ![b] = g] \/ (get' = get /\ g = get[b])
  PROVE  Shown(S2, T2, R2)'
<1>1. \A c \in Browser : PageOK(S2, T2, R2, dash[c], get[c])
  BY StillOK DEF Shown
<1>2. /\ dash' = [c \in Browser |-> dash'[c]]
      /\ get' = [c \in Browser |-> get'[c]]
  BY DEF Shown
<1>3. \A c \in Browser : /\ dash'[c] = IF c = b THEN d ELSE dash[c]
                         /\ get'[c] = IF c = b THEN g ELSE get[c]
  BY DEF Shown
<1>4. \A c \in Browser : PageOK(S2, T2, R2, dash'[c], get'[c])
  BY <1>1, <1>3
<1> QED BY <1>2, <1>4 DEF Shown

(* The publisher's part of a step that puts nothing anywhere.              *)
LEMMA SentSame ==
  ASSUME NEW S, NEW S2, S \subseteq S2, Sent(S), UNCHANGED <<slot, todo, frames>>
  PROVE  Sent(S2)'
<1>1. \A x : IsMessage(S, x) => IsMessage(S2, x)
  BY StillOK
<1> QED BY <1>1 DEF Sent

(* A page that stops, or changes, its stream takes nothing with it.        *)
LEMMA HangupOK ==
  ASSUME NEW S, Sent(S), NEW b, Hangup(b)
  PROVE  Sent(S)'
<1>1. IsMessage(S, None)
  BY DEF IsMessage
<1>2. /\ todo' \subseteq todo /\ slot' = [slot EXCEPT ![b] = None]
      /\ \A k \in DOMAIN frames' : IsMessage(S, frames'[k])
  BY DEF Hangup, Sent
<1> QED BY <1>1, <1>2, SentOK

-----------------------------------------------------------------------------
(* Recording.                                                              *)

(* What is known of the readings is all that has to be shown when only the *)
(* ledger, the clock and the hub's numbers change.                         *)
LEMMA RecordingKnown ==
  ASSUME NEW S, NEW T, NEW R, Known(S, T, R), Recording', hub'.epoch = hub.epoch,
         \A v \in View \cup Draft : Good(v) => Good(v)', Fixed(R)',
         sequence' = sequence, Held(S, hub.epoch, views'),
         pin' = pin, views' = views \/ pin = NoPin,
         UNCHANGED <<cache, slot, dash, get>>,
         todo' \subseteq Browser,
         \A k \in DOMAIN frames' : IsMessage(S, frames'[k])
  PROVE  Known(S, T, R)'
<1>1. Issued(S, T, sequence)'
  BY DEF Known, Issued
<1>2. (Held(S, hub.epoch, views) /\ Buffered(S, cache))'
  BY DEF Known
<1>3. Sent(S)'
  BY DEF Known, Sent
<1>4. Shown(S, T, R)'
  BY DEF Known, Shown
<1>5. PinOK(R)'
  BY DEF Known, PinOK
<1> QED BY <1>1, <1>2, <1>3, <1>4, <1>5 DEF Known

(* While nobody reads no reading is fixed.                                 *)
LEMMA NobodyReads ==
  ASSUME NEW S, NEW T, NEW R, Known(S, T, R), ~Reading
  PROVE  Known(S, T, {})
<1>1. pin = NoPin /\ \A b \in Browser : get[b].pc # "pinned"
  BY DEF Reading
<1>2. ASSUME NEW b \in Browser PROVE PageOK(S, T, {}, dash[b], get[b])
  <2>1. DashOK(S, dash[b]) /\ GetOK(S, T, R, get[b], dash[b].query)
    BY DEF Known, Shown, PageOK
  <2>2. get[b] \notin Pinned
    BY <1>1 DEF Pinned
  <2>3. GetOK(S, T, {}, get[b], dash[b].query)
    BY <2>1, <2>2 DEF GetOK
  <2> QED BY <2>1, <2>3 DEF PageOK
<1>3. Shown(S, T, {})
  BY <1>2 DEF Known, Shown
<1>4. Fixed({}) /\ PinOK({})
  BY <1>1 DEF Fixed, PinOK
<1> QED BY <1>3, <1>4 DEF Known

(* Something is recorded; a usage or metadata only by an ingest, which     *)
(* marks the hub before anybody reads.                                     *)
LEMMA AppendOK ==
  ASSUME Recording, Happens, NEW e \in Entry, ledger' = Append(ledger, e),
         UNCHANGED <<now, hub, trouble>>, unmarked' \in Nat,
         \/ marking = "no" /\ marking' = "all"
         \/ marking = "no" /\ marking' = "numbers" /\ e.kind # "metadata"
         \/ marking' = marking /\ e.kind \in {"activity", "rename"}
  PROVE  /\ Recording' /\ hub'.epoch = hub.epoch
         /\ \A v \in View \cup Draft : Good(v) => Good(v)'
         /\ \A R : Fixed(R) /\ e.kind = "rename" /\ marking' = marking => Fixed(R)'
<1>2. now \in Nat /\ Start <= now
  BY DEF Recording
<1>5. Len(ledger) \in Nat /\ ledger \in Seq(Entry)
  BY LenProperties DEF Recording
<1>6. /\ ledger' \in Seq(Entry) /\ Len(ledger') = Len(ledger) + 1
      /\ \A i \in 1..Len(ledger) : ledger'[i] = ledger[i]
      /\ ledger'[Len(ledger) + 1] = e
  BY <1>5, AppendProperties
<1>7. Len(ledger') <= MaxEvents
  <2>1. Len(ledger) + (now - Start) + trouble < MaxEvents
    BY DEF Happens
  <2>2. Start \in Nat /\ MaxEvents \in Nat /\ trouble \in Nat
    BY StreamAssumption DEF Recording
  <2> DEFINE n == Len(ledger)
  <2>3. n + 1 <= MaxEvents
    <3>1. n \in Nat /\ n + (now - Start) + trouble < MaxEvents
      BY <1>5, <2>1
    <3> HIDE DEF n
    <3> QED BY <1>2, <2>2, <3>1
  <2> QED BY <1>6, <2>3
<1>8. Recording'
  BY <1>6, <1>7 DEF Recording
<1>9. ASSUME NEW v \in View \cup Draft, Good(v) PROVE Good(v)'
  <2>1. v.led \in Nat /\ v.led <= Len(ledger)
    BY <1>9 DEF View, Draft, Good, Exact
  <2>2. Exact(v)'
    BY <1>5, <1>9, <2>1, ExactStable DEF Good
  <2>3. ASSUME Covers(v) PROVE Covers(v)'
    <3>1. ASSUME NEW i \in v.led + 1..Len(ledger')
          PROVE  \/ i \in v.led + 1..Len(ledger) /\ ledger'[i] = ledger[i]
                 \/ ledger'[i] = e
      <4>1. CASE i \in v.led + 1..Len(ledger)
        <5>1. i \in 1..Len(ledger)
          BY <1>5, <2>1, <4>1
        <5> QED BY <1>6, <4>1, <5>1
      <4>2. CASE i = Len(ledger) + 1
        BY <1>6, <4>2
      <4> QED BY <1>5, <1>6, <2>1, <4>1, <4>2
    <3>2. ASSUME v.seq = hub'.seq, marking' = "no",
                 NEW i \in v.led + 1..Len(ledger')
          PROVE  ledger'[i].kind \notin {"usage", "metadata"}
      BY <2>3, <3>1, <3>2 DEF Covers
    <3>3. ASSUME v.full = hub'.full, marking' # "all",
                 NEW i \in v.led + 1..Len(ledger')
          PROVE  ledger'[i].kind # "metadata"
      BY <2>3, <3>1, <3>3 DEF Covers
    <3>4. v.seq <= hub'.seq /\ v.full <= hub'.full
      BY <2>3 DEF Covers
    <3> QED BY <3>2, <3>3, <3>4 DEF Covers
  <2> QED BY <1>9, <2>2, <2>3 DEF Good
<1>10. ASSUME NEW R, Fixed(R), e.kind = "rename", marking' = marking
       PROVE  Fixed(R)'
  <2> SUFFICES ASSUME NEW n \in R
               PROVE  /\ n \in 0..Len(ledger') /\ marking' = "no"
                      /\ \A i \in n + 1..Len(ledger') : ledger'[i].kind = "rename"
    BY DEF Fixed
  <2>1. /\ n \in 0..Len(ledger) /\ marking = "no"
        /\ \A i \in n + 1..Len(ledger) : ledger[i].kind = "rename"
    BY <1>10 DEF Fixed
  <2>2. ASSUME NEW i \in n + 1..Len(ledger') PROVE ledger'[i].kind = "rename"
    <3>1. CASE i \in n + 1..Len(ledger)
      <4>1. i \in 1..Len(ledger)
        BY <1>5, <2>1, <3>1
      <4> QED BY <1>6, <2>1, <3>1, <4>1
    <3>2. CASE i = Len(ledger) + 1
      BY <1>6, <1>10, <3>2
    <3> QED BY <1>5, <1>6, <2>1, <3>1, <3>2
  <2>3. n \in 0..Len(ledger')
    BY <1>5, <1>6, <2>1
  <2> QED BY <1>10, <2>1, <2>2, <2>3
<1> QED BY <1>8, <1>9, <1>10

(* An ingest commits while nobody reads.                                   *)
LEMMA CommitOK ==
  ASSUME NEW S, NEW T, NEW R, Known(S, T, R), Commit
  PROVE  Known(S, T, {})'
<1>1. PICK c \in Conversation : Recorded(c)
  BY DEF Commit
<1>2. Known(S, T, {}) /\ Recording /\ now \in Nat
  BY NobodyReads DEF Commit, Unlocked, Known, Recording
<1>3. PICK e \in Entry :
        /\ ledger' = Append(ledger, e)
        /\ \/ marking' = "all"
           \/ marking' = "numbers" /\ e.kind # "metadata"
           \/ marking' = "no" /\ e.kind = "activity"
  <2>1. CASE Record("metadata", c, 0) /\ marking' = "all"
    <3>1. [kind |-> "metadata", conv |-> c, at |-> 0] \in Entry
      BY DEF Entry, Kinds
    <3> QED BY <2>1, <3>1 DEF Record
  <2>2. CASE Record("activity", c, 0) /\ marking' = "no"
    <3>1. [kind |-> "activity", conv |-> c, at |-> 0] \in Entry
      BY DEF Entry, Kinds
    <3> QED BY <2>2, <3>1 DEF Record
  <2>3. CASE \E t \in 0..now : Record("usage", c, t) /\ marking' = "numbers"
    <3>1. PICK t \in 0..now : Record("usage", c, t) /\ marking' = "numbers"
      BY <2>3
    <3>2. [kind |-> "usage", conv |-> c, at |-> t] \in Entry
      BY <1>2 DEF Entry, Kinds
    <3> QED BY <3>1, <3>2 DEF Record
  <2> QED BY <1>1, <2>1, <2>2, <2>3 DEF Recorded
<1>4. /\ marking = "no" /\ Happens
      /\ UNCHANGED <<now, unmarked, hub, views, sequence, cache, pin, todo, frames,
                     slot, get, dash, trouble>>
  BY DEF Commit, Unlocked, server
<1>5. unmarked' \in Nat
  BY <1>2, <1>4 DEF Recording
<1>6. /\ Recording' /\ hub'.epoch = hub.epoch
      /\ \A v \in View \cup Draft : Good(v) => Good(v)'
  BY <1>2, <1>3, <1>4, <1>5, AppendOK
<1>7. /\ Fixed({})' /\ Held(S, hub.epoch, views') /\ todo' \subseteq Browser
      /\ \A k \in DOMAIN frames' : IsMessage(S, frames'[k])
  BY <1>4 DEF Known, Sent, Fixed
<1> QED BY <1>2, <1>4, <1>6, <1>7, RecordingKnown

(* A rename does not wait for readers.                                     *)
LEMMA RenameOK ==
  ASSUME NEW S, NEW T, NEW R, Known(S, T, R), Rename
  PROVE  Known(S, T, R)'
<1>1. PICK c \in Conversation : Record("rename", c, 0)
  BY DEF Rename
<1>2. Recording /\ Fixed(R)
  BY DEF Known
<1> DEFINE e == [kind |-> "rename", conv |-> c, at |-> 0]
<1>3. e \in Entry /\ e.kind = "rename" /\ ledger' = Append(ledger, e)
  BY <1>1 DEF Entry, Kinds, Record
<1>4. /\ Happens /\ unmarked' = unmarked + 1
      /\ UNCHANGED <<now, marking, hub, views, sequence, cache, pin, todo, frames,
                     slot, get, dash, trouble>>
  BY DEF Rename, server
<1>5. unmarked' \in Nat
  BY <1>2, <1>4 DEF Recording
<1> HIDE DEF e
<1>6. /\ Recording' /\ hub'.epoch = hub.epoch /\ Fixed(R)'
      /\ \A v \in View \cup Draft : Good(v) => Good(v)'
  BY <1>2, <1>3, <1>4, <1>5, AppendOK
<1>7. /\ Held(S, hub.epoch, views') /\ todo' \subseteq Browser
      /\ \A k \in DOMAIN frames' : IsMessage(S, frames'[k])
  BY <1>4 DEF Known, Sent
<1> QED BY <1>4, <1>6, <1>7, RecordingKnown

(* Time passes.                                                            *)
LEMMA TickOK ==
  ASSUME NEW S, NEW T, NEW R, Known(S, T, R), Tick
  PROVE  Known(S, T, R)'
<1>1. /\ now' = now + 1
      /\ UNCHANGED <<ledger, marking, unmarked, hub, views, sequence, cache, pin,
                     todo, frames, slot,
                     get, dash, trouble>>
  BY DEF Tick, source, server
<1>2. now \in Nat /\ Start <= now /\ Start \in Nat
  BY StreamAssumption DEF Known, Recording
<1>3. now' \in Nat /\ Start <= now'
  BY <1>1, <1>2
<1>4. Recording'
  BY <1>1, <1>3 DEF Known, Recording
<1>5. ASSUME NEW v \in View \cup Draft, Good(v) PROVE Good(v)'
  <2>1. Exact(v)'
    BY <1>1, <1>5, ExactStable DEF Good, Known, Recording, View, Draft
  <2> QED BY <1>1, <1>5, <2>1 DEF Good, Covers
<1>6. /\ Held(S, hub.epoch, views') /\ todo' \subseteq Browser /\ Fixed(R)'
      /\ \A k \in DOMAIN frames' : IsMessage(S, frames'[k])
  BY <1>1 DEF Known, Sent, Fixed
<1> QED BY <1>1, <1>4, <1>5, <1>6, RecordingKnown

(* The hub is marked: a reading before it has another sequence number, and *)
(* one before metadata, or a rename, another number for that.              *)
LEMMA MarkedOK ==
  ASSUME Recording, UNCHANGED <<now, ledger, trouble>>, unmarked' \in Nat,
         \/ marking # "no" /\ marking' = "no" /\ hub' = MarkAll
         \/ marking \notin {"no", "all"} /\ marking' = "no" /\ hub' = MarkNumbers
         \/ marking' = marking /\ hub' \in {MarkNumbers, MarkAll}
  PROVE  /\ Recording' /\ hub'.epoch = hub.epoch
         /\ \A v \in View \cup Draft : Good(v) => Good(v)'
         /\ \A R : Fixed(R) => Fixed(R)'
<1> DEFINE full == hub.full
           seq == hub.seq
<1>1. full \in Nat /\ seq \in Nat
  BY DEF Recording
<1>2. /\ hub' \in [epoch : Nat, seq : Nat, full : Nat, dirty : BOOLEAN]
      /\ hub'.epoch = hub.epoch /\ hub'.seq = seq + 1
      /\ marking' \in {"no", "numbers", "all"}
      /\ \/ hub'.full = full + 1
         \/ hub'.full = full /\ (marking' # "all" => marking # "all")
  <2> DEFINE H == [epoch : Nat, seq : Nat, full : Nat, dirty : BOOLEAN]
             m == MarkNumbers
             more == MarkAll
  <2>1. m \in H /\ m.epoch = hub.epoch /\ m.seq = seq + 1 /\ m.full = full
    <3> DEFINE k == hub.seq + 1
    <3>1. hub \in H /\ k \in Nat
      BY <1>1 DEF Recording
    <3>2. m = [hub EXCEPT !.seq = k, !.dirty = TRUE]
      BY DEF MarkNumbers
    <3> HIDE DEF m, k
    <3>3. m \in H /\ m.epoch = hub.epoch /\ m.seq = k /\ m.full = hub.full
      BY <3>1, <3>2
    <3> QED BY <3>3 DEF k
  <2>2. more \in H /\ more.epoch = hub.epoch /\ more.seq = seq + 1 /\ more.full = full + 1
    <3>1. m.full + 1 \in Nat
      BY <1>1, <2>1
    <3>2. m \in H /\ m.epoch = hub.epoch /\ m.seq = seq + 1
      BY <2>1
    <3>3. m.full + 1 = full + 1
      BY <2>1
    <3> DEFINE k == m.full + 1
    <3>4. more = [m EXCEPT !.full = k]
      BY DEF MarkAll
    <3> HIDE DEF m, k, seq, full, more
    <3> QED BY <3>1, <3>2, <3>3, <3>4 DEF k
  <2>3. marking \in {"no", "numbers", "all"}
    BY DEF Recording
  <2>4. \/ marking # "no" /\ marking' = "no" /\ hub' = more
        \/ marking # "all" /\ marking' = "no" /\ hub' = m
        \/ marking' = marking /\ hub' \in {m, more}
    OBVIOUS
  <2> HIDE DEF m, more, seq, full
  <2> QED BY <2>1, <2>2, <2>3, <2>4
<1>3. Recording'
  BY <1>2 DEF Recording
<1>4. ASSUME NEW v \in View \cup Draft, Good(v) PROVE Good(v)'
  <2>2. Exact(v)'
    BY <1>4, ExactStable DEF Good, Recording, View, Draft
  <2>3. ASSUME Covers(v) PROVE Covers(v)'
    <3> DEFINE vs == v.seq
               vf == v.full
    <3>1. vs \in Nat /\ vf \in Nat /\ vs <= seq /\ vf <= full
      BY <2>3 DEF Covers, View, Draft
    <3>2. vs <= seq + 1 /\ vs # seq + 1 /\ vf <= full /\ vf <= full + 1 /\ vf # full + 1
      <4> HIDE DEF vs, vf, seq, full
      <4> QED BY <1>1, <3>1
    <3>3. ASSUME vf = hub'.full, marking' # "all"
          PROVE  \A i \in v.led + 1..Len(ledger) : ledger[i].kind # "metadata"
      <4>1. vf = full /\ marking # "all"
        <5> HIDE DEF vf, full
        <5> QED BY <1>2, <3>2, <3>3
      <4> QED BY <2>3, <4>1 DEF Covers
    <3>4. v.seq <= hub'.seq /\ v.full <= hub'.full /\ v.seq # hub'.seq
      BY <1>2, <3>2
    <3> QED BY <3>3, <3>4 DEF Covers
  <2> QED BY <1>2, <1>4, <2>2, <2>3 DEF Good
<1>5. ASSUME NEW R, Fixed(R) PROVE Fixed(R)'
  <2>1. R # {} => marking = "no"
    BY <1>5 DEF Fixed
  <2>2. R # {} => marking' = "no"
    BY <2>1
  <2> QED BY <1>5, <2>2 DEF Fixed
<1> QED BY <1>2, <1>3, <1>4, <1>5

(* An ingest marks the hub.                                                *)
LEMMA MarkOK ==
  ASSUME NEW S, NEW T, NEW R, Known(S, T, R), Mark
  PROVE  Known(S, T, R)'
<1>1. /\ marking # "no" /\ marking' = "no"
      /\ hub' = IF marking = "all" THEN MarkAll ELSE MarkNumbers
      /\ UNCHANGED <<now, ledger, unmarked, views, sequence, cache, pin, todo,
                     frames, slot, get, dash,
                     trouble>>
  BY DEF Mark
<1>2. /\ Recording' /\ hub'.epoch = hub.epoch /\ Fixed(R)'
      /\ \A v \in View \cup Draft : Good(v) => Good(v)'
  BY <1>1, MarkedOK DEF Known, Recording
<1>4. /\ Held(S, hub.epoch, views') /\ todo' \subseteq Browser
      /\ \A k \in DOMAIN frames' : IsMessage(S, frames'[k])
  BY <1>1 DEF Known, Sent
<1> QED BY <1>1, <1>2, <1>4, RecordingKnown

(* A rename marks it at last, whoever reads.                               *)
LEMMA MarkRenameOK ==
  ASSUME NEW S, NEW T, NEW R, Known(S, T, R), MarkRename
  PROVE  Known(S, T, R)'
<1>1. /\ hub' = MarkAll /\ unmarked > 0 /\ unmarked' = unmarked - 1
      /\ UNCHANGED <<now, ledger, marking, views, sequence, cache, pin, todo, frames,
                     slot, get, dash, trouble>>
  BY DEF MarkRename
<1>2. /\ Recording' /\ hub'.epoch = hub.epoch /\ Fixed(R)'
      /\ \A v \in View \cup Draft : Good(v) => Good(v)'
  <2>1. unmarked' \in Nat
    BY <1>1 DEF Known, Recording
  <2> QED BY <1>1, <2>1, MarkedOK DEF Known
<1>3. /\ Held(S, hub.epoch, views') /\ todo' \subseteq Browser
      /\ \A k \in DOMAIN frames' : IsMessage(S, frames'[k])
  BY <1>1 DEF Known, Sent
<1> QED BY <1>1, <1>2, <1>3, RecordingKnown

(* A window that moved on marks it as well, and drops a view whose range   *)
(* has become another.                                                     *)
LEMMA WindowDueOK ==
  ASSUME NEW S, NEW T, NEW R, Known(S, T, R), WindowDue
  PROVE  Known(S, T, R)'
<1>1. /\ hub' = MarkNumbers /\ pin = NoPin
      /\ UNCHANGED <<now, ledger, marking, unmarked, sequence, cache, pin, todo,
                     frames, slot, get, dash,
                     trouble>>
  BY DEF WindowDue, source
<1>2. /\ Recording' /\ hub'.epoch = hub.epoch /\ Fixed(R)'
      /\ \A v \in View \cup Draft : Good(v) => Good(v)'
  BY <1>1, MarkedOK DEF Known, Recording
<1>4. PICK i \in DOMAIN views : views' = views \/ views' = RemoveAt(views, i)
  BY DEF WindowDue
<1>5. views \in Seq(KeptIn(S, hub.epoch)) /\ Len(views) <= MaxViews
  BY DEF Known, Held
<1>6. i \in 1..Len(views) /\ Len(views) \in Nat
  BY <1>5, LenProperties
<1>7. /\ RemoveAt(views, i) \in Seq(KeptIn(S, hub.epoch))
      /\ Len(RemoveAt(views, i)) = Len(views) - 1
  BY <1>5, <1>6, SeqWithout
<1>8. MaxViews \in Nat
  BY StreamAssumption
<1>9. Held(S, hub.epoch, views')
  BY <1>4, <1>5, <1>6, <1>7, <1>8 DEF Held
<1>10. /\ todo' \subseteq Browser
       /\ \A k \in DOMAIN frames' : IsMessage(S, frames'[k])
  BY <1>1 DEF Known, Sent
<1> QED BY <1>1, <1>2, <1>9, <1>10, RecordingKnown

(* A publication begins.                                                   *)
LEMMA PublishOK ==
  ASSUME NEW S, NEW T, NEW R, Known(S, T, R), Publish
  PROVE  Known(S, T, R)'
<1>1. /\ hub' = [hub EXCEPT !.dirty = FALSE] /\ todo' \subseteq Browser /\ frames' = <<>>
      /\ UNCHANGED <<now, ledger, marking, unmarked, views, sequence, cache, pin,
                     slot, get, dash, trouble>>
  BY DEF Publish, Subscribed, source
<1>2. hub'.dirty = FALSE
  BY <1>1 DEF Known, Recording
<1>3. Quiet
  BY <1>1, <1>2 DEF Quiet
<1>4. /\ Recording' /\ hub'.epoch = hub.epoch /\ Fixed(R)'
      /\ \A v \in View \cup Draft : Good(v) => Good(v)'
  BY <1>3, QuietOK, QuietFixed DEF Known
<1>5. \A k \in DOMAIN frames' : IsMessage(S, frames'[k])
  BY <1>1
<1>6. Held(S, hub.epoch, views')
  BY <1>1 DEF Known
<1> QED BY <1>1, <1>4, <1>5, <1>6, RecordingKnown

-----------------------------------------------------------------------------
(* The steps of the pages.                                                 *)

(* A page moves to the chosen range or to none.                            *)
Chosen ==
  \A b \in Browser :
    LET p == dash'[b].page
    IN  (/\ p # Blank /\ p # dash[b].page
         /\ dash[b].page # Blank => dash[b].page.key[1] # p.key[1])
          => p.key[1] = dash'[b].query

(* One page takes a step, and most of the server none.                     *)
LEMMA PageStep ==
  ASSUME NEW S, NEW T, NEW R, Known(S, T, R), NEW b \in Browser,
         UNCHANGED <<now, ledger, marking, unmarked, hub, views, sequence, cache, pin>>,
         trouble' \in {trouble, trouble + 1}, Sent(S)',
         NEW d, NEW g, PageOK(S, T, R, d, g),
         dash' = [dash EXCEPT ![b] = d] \/ (dash' = dash /\ d = dash[b]),
         get' = [get EXCEPT ![b] = g] \/ (get' = get /\ g = get[b]),
         \/ d.page = dash[b].page
         \/ dash[b].page # Blank /\ d.page.key = dash[b].page.key
         \/ d.page.key[1] = d.query
  PROVE  Known(S, T, R)' /\ Chosen
<1>1. Quiet
  <2>1. hub' = [hub EXCEPT !.dirty = hub'.dirty] /\ hub'.dirty \in BOOLEAN
    BY DEF Known, Recording
  <2> QED BY <2>1 DEF Quiet
<1>2. Shown(S, T, R)'
  BY ShownOK DEF Known
<1>3. Known(S, T, R)'
  BY <1>1, <1>2, QuietKnown
<1>4. \A c \in Browser : dash'[c] = IF c = b THEN d ELSE dash[c]
  BY DEF Known, Shown
<1>5. Chosen
  <2> SUFFICES ASSUME NEW c \in Browser,
                      dash'[c].page # Blank, dash'[c].page # dash[c].page,
                      dash[c].page # Blank => dash[c].page.key[1] # dash'[c].page.key[1]
               PROVE  dash'[c].page.key[1] = dash'[c].query
    BY DEF Chosen
  <2>1. c = b /\ dash'[c] = d
    BY <1>4
  <2> QED BY <2>1
<1> QED BY <1>3, <1>5

(* Every page, and its request.                                            *)
LEMMA PageKnown ==
  ASSUME NEW S, NEW T, NEW R, Known(S, T, R), NEW b \in Browser
  PROVE  /\ PageOK(S, T, R, dash[b], get[b]) /\ DashOK(S, dash[b])
         /\ GetOK(S, T, R, get[b], dash[b].query)
         /\ dash[b] \in Dash
         /\ Recording /\ Sent(S) /\ S \subseteq View
         /\ Told.epoch \in Nat /\ Told.seq \in Nat
<1>1. PageOK(S, T, R, dash[b], get[b])
  BY DEF Known, Shown
<1>2. Recording /\ Sent(S) /\ S \subseteq View
  BY DEF Known, Issued
<1>3. Told.epoch \in Nat /\ Told.seq \in Nat
  BY <1>2 DEF Recording, Told
<1> QED BY <1>1, <1>2, <1>3 DEF PageOK, DashOK

(* A request arrives.                                                      *)
LEMMA ArriveOK ==
  ASSUME NEW S, NEW T, NEW R, Known(S, T, R), NEW b \in Browser, Arrive(b)
  PROVE  Known(S, T, R)' /\ Chosen
<1> DEFINE g == get[b]
           x == [pc |-> "queued", query |-> g.query, stale |-> g.stale,
                 range |-> Resolve(g.query, now), seq |-> hub.seq]
<1>1. /\ PageOK(S, T, R, dash[b], g) /\ DashOK(S, dash[b])
      /\ GetOK(S, T, R, g, dash[b].query) /\ Recording /\ Sent(S)
  BY PageKnown
<1>2. g \in Asked /\ (g.stale \/ g.query = dash[b].query)
  BY <1>1, GetCases DEF Arrive
<1>3. g.query \in Query /\ g.stale \in BOOLEAN
  BY <1>2 DEF Asked
<1>4. Resolve(g.query, now) \in Window /\ Resolve(g.query, now).key[1] = g.query
  BY <1>1, <1>3, ResolveType DEF Recording
<1>5. x \in Queued /\ x.range.key[1] = x.query /\ (x.stale \/ x.query = dash[b].query)
  <2>1. hub.seq \in Nat
    BY <1>1 DEF Recording
  <2> QED BY <1>2, <1>3, <1>4, <2>1 DEF Queued
<1>6. GetOK(S, T, R, x, dash[b].query)
  BY <1>5 DEF GetOK
<1>7. PageOK(S, T, R, dash[b], x)
  BY <1>1, <1>6 DEF PageOK
<1>8. get' = [get EXCEPT ![b] = x]
  BY DEF Arrive
<1>9. /\ UNCHANGED <<now, ledger, marking, unmarked, hub, views, sequence, cache,
                     pin, dash, trouble>>
      /\ UNCHANGED <<slot, todo, frames>>
  BY DEF Arrive, source, server
<1>10. Sent(S)'
  BY <1>1, <1>9, SentSame
<1> HIDE DEF x
<1> QED BY <1>7, <1>8, <1>9, <1>10, PageStep

(* It is answered from the cache.                                          *)
LEMMA HitOK ==
  ASSUME NEW S, NEW T, NEW R, Known(S, T, R), NEW b \in Browser, Hit(b)
  PROVE  Known(S, T, R)' /\ Chosen
<1> DEFINE g == get[b]
<1>1. /\ PageOK(S, T, R, dash[b], g) /\ DashOK(S, dash[b])
      /\ GetOK(S, T, R, g, dash[b].query) /\ Recording /\ Sent(S) /\ S \subseteq View
  BY PageKnown
<1>2. g \in Queued /\ g.range.key[1] = g.query /\ (g.stale \/ g.query = dash[b].query)
  BY <1>1, GetCases DEF Hit
<1>3. PICK i \in Cached(b) :
        get' = [get EXCEPT ![b] = [pc |-> "answered", query |-> g.query,
                                   stale |-> g.stale, view |-> cache[i].view]]
  BY DEF Hit
<1> DEFINE x == [pc |-> "answered", query |-> g.query, stale |-> g.stale,
                 view |-> cache[i].view]
<1>4. cache[i].view \in S /\ cache[i].view.key = g.range.key
  <2>1. cache \in Seq(EncodedIn(S))
    BY DEF Known, Buffered
  <2>2. i \in 1..Len(cache) /\ cache[i].key = g.range.key
    BY <2>1, LenProperties DEF Cached
  <2>3. cache[i] \in EncodedIn(S)
    BY <2>1, <2>2, ElementOfSeq
  <2> QED BY <2>2, <2>3 DEF EncodedIn
<1>5. x \in Answered /\ x.view \in S /\ x.view.key[1] = x.query
      /\ (x.stale \/ x.query = dash[b].query)
  <2>1. g.query \in Query /\ g.stale \in BOOLEAN
    BY <1>2 DEF Queued
  <2> QED BY <1>1, <1>2, <1>4, <2>1 DEF Answered
<1>6. GetOK(S, T, R, x, dash[b].query)
  BY <1>5 DEF GetOK
<1>7. PageOK(S, T, R, dash[b], x)
  BY <1>1, <1>6 DEF PageOK
<1>8. /\ UNCHANGED <<now, ledger, marking, unmarked, hub, views, sequence, cache,
                     pin, dash, trouble>>
      /\ UNCHANGED <<slot, todo, frames>>
  BY DEF Hit, source, server
<1>9. Sent(S)'
  BY <1>1, <1>8, SentSame
<1>10. get' = [get EXCEPT ![b] = x]
  BY <1>3
<1> HIDE DEF x
<1> QED BY <1>7, <1>8, <1>9, <1>10, PageStep

(* The page takes an answer, if it is still for the range chosen.          *)
LEMMA ReceiveOK ==
  ASSUME NEW S, NEW T, NEW R, Known(S, T, R), NEW b \in Browser, Receive(b)
  PROVE  Known(S, T, R)' /\ Chosen
<1> DEFINE g == get[b]
           d == Taken(b)
           e == Ended(d)
<1>1. /\ DashOK(S, dash[b]) /\ GetOK(S, T, R, g, dash[b].query)
      /\ Recording /\ Sent(S) /\ S \subseteq View
  BY PageKnown
<1>2. /\ g.view \in S /\ g.view.key[1] = g.query
      /\ (g.stale \/ g.query = dash[b].query)
  BY <1>1, GetCases DEF Receive
<1>3. /\ DashOK(S, d) /\ d.query = dash[b].query
      /\ d.page = dash[b].page \/ d.page.key[1] = dash[b].query
  <2>1. CASE g.stale
    BY <1>1, <2>1 DEF Taken
  <2>2. CASE ~g.stale
    <3>1. d = Confirm(dash[b], g.view)
      BY <2>2 DEF Taken
    <3>2. /\ DashOK(S, Confirm(dash[b], g.view))
          /\ Confirm(dash[b], g.view).query = dash[b].query
          /\ Confirm(dash[b], g.view).page \in {dash[b].page, g.view}
      <4> DEFINE v == g.view
                 c == dash[b]
      <4>1. S \subseteq View /\ DashOK(S, c) /\ v \in S
        BY <1>1, <1>2
      <4> HIDE DEF v, c
      <4>2. /\ DashOK(S, Confirm(c, v)) /\ Confirm(c, v).query = c.query
            /\ Confirm(c, v).page \in {c.page, v}
        BY <4>1, ConfirmOK
      <4> QED BY <4>2 DEF c, v
    <3>3. g.view.key[1] = dash[b].query
      BY <1>2, <2>2
    <3> HIDE DEF d, g
    <3>4. /\ DashOK(S, d) /\ d.query = dash[b].query
          /\ d.page = dash[b].page \/ d.page = g.view
      BY <3>1, <3>2
    <3> QED BY <3>3, <3>4
  <2> QED BY <2>1, <2>2
<1>4. /\ Become(b, e) /\ Connecting(b, d)
      /\ UNCHANGED <<now, ledger, marking, unmarked, hub, views, sequence, cache,
                     pin, trouble>>
  BY DEF Receive, source
<1> HIDE DEF d
<1>5. Stays(S, T, R, d, e)
  BY <1>3, EndedOK
<1>6. Sent(S)'
  <2>1. CASE Hangup(b)
    BY <1>1, <2>1, HangupOK
  <2>2. CASE UNCHANGED <<slot, todo, frames>>
    BY <1>1, <2>2, SentSame
  <2> QED BY <1>4, <2>1, <2>2 DEF Connecting
<1> HIDE DEF e
<1>7. /\ PageOK(S, T, R, e.d, e.g)
      /\ e.d.page = dash[b].page \/ e.d.page.key[1] = e.d.query
  BY <1>3, <1>5 DEF Stays
<1>8. dash' = [dash EXCEPT ![b] = e.d] /\ get' = [get EXCEPT ![b] = e.g]
  BY <1>4 DEF Become
<1> QED BY <1>4, <1>6, <1>7, <1>8, PageStep

(* The page becomes something that shows the same numbers.                 *)
LEMMA StaysStep ==
  ASSUME NEW S, NEW T, NEW R, Known(S, T, R), NEW b \in Browser,
         UNCHANGED <<now, ledger, marking, unmarked, hub, views, sequence, cache, pin>>,
         trouble' \in {trouble, trouble + 1}, Sent(S)',
         NEW x, Stays(S, T, R, dash[b], x), Become(b, x)
  PROVE  Known(S, T, R)' /\ Chosen
<1>1. PageOK(S, T, R, x.d, x.g) /\ x.d.page = dash[b].page
  BY DEF Stays
<1>2. dash' = [dash EXCEPT ![b] = x.d] /\ get' = [get EXCEPT ![b] = x.g]
  BY DEF Become
<1> QED BY <1>1, <1>2, PageStep

(* A request fails, or nobody waits for it any more.                       *)
LEMMA FailsOK ==
  ASSUME NEW S, NEW T, NEW R, Known(S, T, R), NEW b \in Browser, LoseAnswer(b) \/ Abort(b)
  PROVE  Known(S, T, R)' /\ Chosen
<1>1. Fails(b) /\ trouble' \in {trouble, trouble + 1}
  BY DEF LoseAnswer, Abort, Goes
<1>2. /\ Become(b, Ended(dash[b]))
      /\ UNCHANGED <<now, ledger, marking, unmarked, hub, views, sequence, cache, pin>>
      /\ UNCHANGED <<slot, todo, frames>>
  BY <1>1 DEF Fails, source, server
<1>3. DashOK(S, dash[b]) /\ Sent(S)
  BY PageKnown
<1>4. Stays(S, T, R, dash[b], Ended(dash[b]))
  BY <1>3, EndedOK
<1>5. Sent(S)'
  BY <1>2, <1>3, SentSame
<1> QED BY <1>1, <1>2, <1>4, <1>5, StaysStep

(* A page's own marks and timers are none of its numbers.                  *)
LEMMA MarksOK ==
  ASSUME NEW S, NEW T, NEW R, NEW d, NEW g, PageOK(S, T, R, d, g), NEW e,
         \/ \E s \in Streams : e = [d EXCEPT !.stream = s]
         \/ e = [d EXCEPT !.timer = FALSE]
         \/ e = [d EXCEPT !.late = -1]
  PROVE  Stays(S, T, R, d, [d |-> e, g |-> g])
<1>1. d \in Dash /\ (d.page = Blank \/ d.page \in S) /\ GetOK(S, T, R, g, d.query)
  BY DEF PageOK, DashOK
<1>2. e \in Dash /\ e.page = d.page /\ e.query = d.query
  <2>1. CASE \E s \in Streams : e = [d EXCEPT !.stream = s]
    BY <1>1, <2>1 DEF Dash
  <2>2. CASE e = [d EXCEPT !.timer = FALSE]
    BY <1>1, <2>2 DEF Dash
  <2>3. CASE e = [d EXCEPT !.late = -1]
    <3>1. -1 \in Int
      OBVIOUS
    <3> QED BY <1>1, <2>3, <3>1 DEF Dash
  <2> QED BY <2>1, <2>2, <2>3
<1> QED BY <1>1, <1>2 DEF Stays, PageOK, DashOK

(* One such change after the other.                                        *)
LEMMA StaysTwice ==
  ASSUME NEW S, NEW T, NEW R, NEW d, NEW x, NEW y,
         Stays(S, T, R, d, x), Stays(S, T, R, x.d, y)
  PROVE  Stays(S, T, R, d, y)
BY DEF Stays

(* It makes a request besides.                                             *)
LEMMA MarksLoadOK ==
  ASSUME NEW S, NEW T, NEW R, NEW d, NEW g, NEW e, Stays(S, T, R, d, [d |-> e, g |-> g])
  PROVE  Stays(S, T, R, d, Loads(e, g, FALSE))
<1>1. PageOK(S, T, R, e, g)
  BY DEF Stays
<1>2. Stays(S, T, R, e, Loads(e, g, FALSE))
  BY <1>1, LoadsOK
<1> QED BY <1>2 DEF Stays

(* A stream is opened.                                                     *)
LEMMA RegisterOK ==
  ASSUME NEW S, NEW T, NEW R, Known(S, T, R), NEW b \in Browser, Register(b)
  PROVE  Known(S, T, R)' /\ Chosen
<1> DEFINE d == dash[b]
           g == get[b]
           opened == [d EXCEPT !.stream = "open"]
           same == [d |-> opened, g |-> g]
           asked == IF d.stream = "reconnecting" THEN Loads(opened, g, FALSE) ELSE same
           x == OnReady(asked.d, asked.g, Told)
<1>1. PageOK(S, T, R, d, g) /\ Sent(S) /\ Told.epoch \in Nat /\ Told.seq \in Nat
  BY PageKnown
<1>2. Stays(S, T, R, d, same)
  <2>1. "open" \in Streams
    BY DEF Streams
  <2> HIDE DEF d, g
  <2> QED BY <1>1, <2>1, MarksOK
<1>3. Stays(S, T, R, d, Loads(opened, g, FALSE))
  <2> HIDE DEF opened, d, g
  <2> QED BY <1>2, MarksLoadOK
<1>4. Stays(S, T, R, d, asked)
  <2> HIDE DEF same
  <2> QED BY <1>2, <1>3
<1>5. Stays(S, T, R, asked.d, x)
  <2> HIDE DEF asked
  <2>1. PageOK(S, T, R, asked.d, asked.g)
    BY <1>4 DEF Stays
  <2> DEFINE e == asked.d
             h == asked.g
  <2>2. PageOK(S, T, R, e, h) /\ x = OnReady(e, h, Told)
    BY <2>1
  <2> HIDE DEF e, h, x
  <2>3. Stays(S, T, R, e, x)
    BY <1>1, <2>2, ToldOK
  <2> QED BY <2>3 DEF e
<1>6. Stays(S, T, R, d, x)
  <2> HIDE DEF asked, d, x
  <2> QED BY <1>4, <1>5, StaysTwice
<1>7. /\ Become(b, x) /\ slot' = [slot EXCEPT ![b] = None]
      /\ UNCHANGED <<now, ledger, marking, unmarked, hub, views, sequence, cache,
                     pin, todo, frames,
                     trouble>>
  BY DEF Register, source
<1>8. Sent(S)'
  <2>1. IsMessage(S, None)
    BY DEF IsMessage
  <2>2. todo' \subseteq todo /\ \A k \in DOMAIN frames' : IsMessage(S, frames'[k])
    BY <1>1, <1>7 DEF Sent
  <2> QED BY <1>1, <1>7, <2>1, <2>2, SentOK
<1> HIDE DEF x
<1> QED BY <1>6, <1>7, <1>8, StaysStep

(* A heartbeat is heard.                                                   *)
LEMMA HeartbeatOK ==
  ASSUME NEW S, NEW T, NEW R, Known(S, T, R), NEW b \in Browser, Heartbeat(b)
  PROVE  Known(S, T, R)' /\ Chosen
<1> DEFINE x == OnHeartbeat(dash[b], get[b], Told)
<1>1. /\ PageOK(S, T, R, dash[b], get[b]) /\ Sent(S)
      /\ Told.epoch \in Nat /\ Told.seq \in Nat
  BY PageKnown
<1>2. Stays(S, T, R, dash[b], x)
  BY <1>1, ToldOK
<1>3. /\ Become(b, x)
      /\ UNCHANGED <<now, ledger, marking, unmarked, hub, views, sequence, cache,
                     pin, trouble>>
      /\ UNCHANGED <<slot, todo, frames>>
  BY DEF Heartbeat, source, server
<1>4. Sent(S)'
  BY <1>1, <1>3, SentSame
<1> HIDE DEF x
<1> QED BY <1>2, <1>3, <1>4, StaysStep

(* A message is handled.                                                   *)
LEMMA HandleOK ==
  ASSUME NEW S, NEW T, NEW R, Known(S, T, R), NEW b \in Browser, Handle(b)
  PROVE  Known(S, T, R)' /\ Chosen
<1> DEFINE d == dash[b]
           g == get[b]
           m == slot[b]
           x == IF m.type = "resync" THEN Loads(d, g, FALSE) ELSE OnNumbers(d, g, m)
<1>1. PageOK(S, T, R, d, g) /\ Sent(S) /\ S \subseteq View
  BY PageKnown
<1>2. IsMessage(S, m) /\ m # None
  BY <1>1 DEF Sent, Handle
<1>3. /\ Become(b, x) /\ slot' = [slot EXCEPT ![b] = None]
      /\ UNCHANGED <<now, ledger, marking, unmarked, hub, views, sequence, cache,
                     pin, todo, frames,
                     trouble>>
  BY DEF Handle, source
<1>4. Sent(S)'
  <2>1. IsMessage(S, None)
    BY DEF IsMessage
  <2>2. todo' \subseteq todo /\ \A k \in DOMAIN frames' : IsMessage(S, frames'[k])
    BY <1>1, <1>3 DEF Sent
  <2> QED BY <1>1, <1>3, <2>1, <2>2, SentOK
<1>5. CASE m = Resync
  <2>1. x = Loads(d, g, FALSE)
    BY <1>5 DEF Resync
  <2>2. Stays(S, T, R, d, Loads(d, g, FALSE))
    BY <1>1, LoadsOK
  <2>3. Stays(S, T, R, d, x)
    BY <2>1, <2>2
  <2> HIDE DEF x
  <2> QED BY <1>3, <1>4, <2>3, StaysStep
<1>6. ASSUME NEW base \in S, NEW next \in S, base.epoch = next.epoch,
             m = Difference(base, next)
      PROVE  Known(S, T, R)' /\ Chosen
  <2>1. m.type # "resync"
    BY <1>6 DEF Difference
  <2>2. x = OnNumbers(d, g, Difference(base, next))
    BY <1>6, <2>1
  <2>3. \A v, w \in S : v.epoch = w.epoch /\ v.rev = w.rev => v = w
    BY DEF Known, Issued
  <2> HIDE DEF x, m
  <2>4. /\ PageOK(S, T, R, x.d, x.g)
        /\ \/ x.d.page = d.page
           \/ d.page # Blank /\ x.d.page = next /\ d.page.key = next.key
    <3> HIDE DEF d, g
    <3> QED BY <1>1, <1>6, <2>2, <2>3, OnNumbersOK
  <2>5. \/ x.d.page = dash[b].page
        \/ dash[b].page # Blank /\ x.d.page.key = dash[b].page.key
    BY <2>4
  <2>6. dash' = [dash EXCEPT ![b] = x.d] /\ get' = [get EXCEPT ![b] = x.g]
    BY <1>3 DEF Become
  <2> QED BY <1>3, <1>4, <2>4, <2>5, <2>6, PageStep
<1> QED BY <1>2, <1>5, <1>6 DEF IsMessage

(* A timer fires, or no stream was to be had for too long.                 *)
LEMMA TimersOK ==
  ASSUME NEW S, NEW T, NEW R, Known(S, T, R), NEW b \in Browser,
         Refresh(b) \/ Late(b) \/ Fallback(b)
  PROVE  Known(S, T, R)' /\ Chosen
<1> DEFINE d == dash[b]
           g == get[b]
           e == [d EXCEPT !.timer = FALSE]
           f == [d EXCEPT !.late = -1]
<1>1. PageOK(S, T, R, d, g) /\ Sent(S)
  BY PageKnown
<1>2. Stays(S, T, R, d, [d |-> e, g |-> g]) /\ Stays(S, T, R, d, [d |-> f, g |-> g])
  <2> HIDE DEF d, g
  <2> QED BY <1>1, MarksOK
<1>3. /\ Stays(S, T, R, d, Loads(e, g, FALSE))
      /\ Stays(S, T, R, d, Loads(f, g, FALSE))
      /\ Stays(S, T, R, d, Loads(d, g, FALSE))
  <2> HIDE DEF d, g, e, f
  <2> QED BY <1>1, <1>2, MarksLoadOK, LoadsOK
<1>4. PICK x \in {Loads(e, g, FALSE), Loads(f, g, FALSE), Loads(d, g, FALSE)} :
        Become(b, x) \/ (dash' = [dash EXCEPT ![b] = f] /\ UNCHANGED get)
  <2>1. CASE Refresh(b)
    BY <2>1 DEF Refresh, Reload
  <2>2. CASE Late(b)
    <3>1. Become(b, Loads(f, g, FALSE)) \/ (dash' = [dash EXCEPT ![b] = f] /\ UNCHANGED get)
      BY <2>2 DEF Late, Reload
    <3> QED BY <3>1
  <2>3. CASE Fallback(b)
    BY <2>3 DEF Fallback
  <2> QED BY <2>1, <2>2, <2>3
<1>5. /\ trouble' \in {trouble, trouble + 1}
      /\ UNCHANGED <<now, ledger, marking, unmarked, hub, views, sequence, cache, pin>>
      /\ UNCHANGED <<slot, todo, frames>>
  BY DEF Refresh, Late, Fallback, Reload, Goes, source, server
<1>6. Sent(S)'
  BY <1>1, <1>5, SentSame
<1> HIDE DEF e, f
<1>7. CASE Become(b, x)
  <2>1. Stays(S, T, R, d, x)
    BY <1>3
  <2> QED BY <1>5, <1>6, <1>7, <2>1, StaysStep
<1>8. CASE dash' = [dash EXCEPT ![b] = f] /\ UNCHANGED get
  <2>1. PageOK(S, T, R, f, g) /\ f.page = d.page
    BY <1>2 DEF Stays
  <2> QED BY <1>5, <1>6, <1>8, <2>1, PageStep
<1> QED BY <1>4, <1>7, <1>8

(* A stream breaks.                                                        *)
LEMMA BreakOK ==
  ASSUME NEW S, NEW T, NEW R, Known(S, T, R), NEW b \in Browser, Break(b)
  PROVE  Known(S, T, R)' /\ Chosen
<1> DEFINE d == dash[b]
           g == get[b]
           e == [d EXCEPT !.stream = "reconnecting"]
<1>1. PageOK(S, T, R, d, g) /\ Sent(S)
  BY PageKnown
<1>2. PageOK(S, T, R, e, g) /\ e.page = d.page
  <2>1. "reconnecting" \in Streams
    BY DEF Streams
  <2> HIDE DEF d, g
  <2>2. Stays(S, T, R, d, [d |-> e, g |-> g])
    BY <1>1, <2>1, MarksOK
  <2> QED BY <2>2 DEF Stays
<1>3. Hangup(b)
  BY DEF Break, Hangup
<1>4. Sent(S)'
  BY <1>1, <1>3, HangupOK
<1>5. /\ dash' = [dash EXCEPT ![b] = e]
      /\ UNCHANGED <<now, ledger, marking, unmarked, hub, views, sequence, cache,
                     pin, get>>
      /\ trouble' \in {trouble, trouble + 1}
  BY DEF Break, Goes, source
<1> HIDE DEF e
<1> QED BY <1>2, <1>4, <1>5, PageStep

(* Another range, or the same after a while: the answer to the request     *)
(* that is under way is not wanted any more.                               *)
LEMMA AnewOK ==
  ASSUME NEW S, NEW T, NEW R, Known(S, T, R), NEW b \in Browser, NEW q \in Query, Anew(b, q),
         trouble' \in {trouble, trouble + 1}
  PROVE  Known(S, T, R)' /\ Chosen
<1> DEFINE d == dash[b]
           g == get[b]
           e == [d EXCEPT !.query = q, !.stream = "connecting", !.timer = FALSE]
           x == Loads(e, g, TRUE)
<1>1. DashOK(S, d) /\ GetOK(S, T, R, g, d.query) /\ Sent(S)
  BY PageKnown
<1>2. DashOK(S, e) /\ e.page = d.page
  <2>1. d \in Dash /\ (d.page = Blank \/ d.page \in S)
    BY <1>1 DEF DashOK
  <2>2. "connecting" \in Streams
    BY DEF Streams
  <2> HIDE DEF d
  <2>3. e \in Dash /\ e.page = d.page
    BY <2>1, <2>2 DEF Dash
  <2> HIDE DEF e
  <2> QED BY <2>1, <2>3 DEF DashOK
<1>3. Stays(S, T, R, e, x)
  <2> HIDE DEF d, g, e
  <2> QED BY <1>1, <1>2, ReplacesOK
<1>4. /\ Become(b, x) /\ Hangup(b)
      /\ UNCHANGED <<now, ledger, marking, unmarked, hub, views, sequence, cache, pin>>
  BY DEF Anew, source
<1>5. Sent(S)'
  BY <1>1, <1>4, HangupOK
<1> HIDE DEF e, x
<1>6. PageOK(S, T, R, x.d, x.g) /\ x.d.page = dash[b].page
  BY <1>2, <1>3 DEF Stays
<1>7. dash' = [dash EXCEPT ![b] = x.d] /\ get' = [get EXCEPT ![b] = x.g]
  BY <1>4 DEF Become
<1> QED BY <1>4, <1>5, <1>6, <1>7, PageStep

(* The user chooses a range, or comes back.                                *)
LEMMA ChooseOK ==
  ASSUME NEW S, NEW T, NEW R, Known(S, T, R), NEW b \in Browser,
         Resume(b) \/ \E q \in Query : Choose(b, q)
  PROVE  Known(S, T, R)' /\ Chosen
<1>1. CASE Resume(b)
  <2>1. dash[b].query \in Query
    BY PageKnown DEF Dash
  <2>2. Anew(b, dash[b].query) /\ trouble' \in {trouble, trouble + 1}
    BY <1>1 DEF Resume, Goes
  <2> QED BY <2>1, <2>2, AnewOK
<1>2. CASE \E q \in Query : Choose(b, q)
  <2>1. PICK q \in Query : Anew(b, q) /\ trouble' \in {trouble, trouble + 1}
    BY <1>2 DEF Choose, Goes
  <2> QED BY <2>1, AnewOK
<1> QED BY <1>1, <1>2

(* The page is put aside.                                                  *)
LEMMA SuspendOK ==
  ASSUME NEW S, NEW T, NEW R, Known(S, T, R), NEW b \in Browser, Suspend(b)
  PROVE  Known(S, T, R)' /\ Chosen
<1> DEFINE d == dash[b]
           g == get[b]
           e == [d EXCEPT !.stream = "none", !.timer = FALSE, !.pending = FALSE]
           h == IF g = NoGet THEN g ELSE [g EXCEPT !.stale = TRUE]
<1>1. DashOK(S, d) /\ GetOK(S, T, R, g, d.query) /\ Sent(S)
  BY PageKnown
<1>2. DashOK(S, e) /\ e.page = d.page /\ e.query = d.query
  <2>1. d \in Dash /\ (d.page = Blank \/ d.page \in S)
    BY <1>1 DEF DashOK
  <2>2. "none" \in Streams
    BY DEF Streams
  <2> HIDE DEF d
  <2>3. e \in Dash /\ e.page = d.page /\ e.query = d.query
    BY <2>1, <2>2 DEF Dash
  <2> HIDE DEF e
  <2> QED BY <2>1, <2>3 DEF DashOK
<1>3. GetOK(S, T, R, h, e.query)
  <2>1. CASE g = NoGet
    BY <2>1 DEF GetOK
  <2>2. CASE g # NoGet
    <3> HIDE DEF d, g, e
    <3>1. GetOK(S, T, R, [g EXCEPT !.stale = TRUE], e.query)
      BY <1>1, <2>2, StaleOK
    <3> QED BY <2>2, <3>1
  <2> QED BY <2>1, <2>2
<1>4. PageOK(S, T, R, e, h)
  <2> HIDE DEF e, h
  <2> QED BY <1>2, <1>3 DEF PageOK
<1>5. /\ dash' = [dash EXCEPT ![b] = e]
      /\ get' = [get EXCEPT ![b] = h] \/ (get' = get /\ h = get[b])
      /\ Hangup(b)
      /\ UNCHANGED <<now, ledger, marking, unmarked, hub, views, sequence, cache, pin>>
      /\ trouble' \in {trouble, trouble + 1}
  <2>1. dash' = [dash EXCEPT ![b] = e]
    <3>1. dash' = [dash EXCEPT ![b].stream = "none", ![b].timer = FALSE,
                               ![b].pending = FALSE]
      BY DEF Suspend
    <3>2. dash = [c \in Browser |-> dash[c]]
      BY DEF Known, Shown
    <3> QED BY <3>1, <3>2
  <2>2. get' = [get EXCEPT ![b] = h] \/ (get' = get /\ h = get[b])
    BY DEF Suspend
  <2> QED BY <2>1, <2>2 DEF Suspend, Goes, source
<1>6. Sent(S)'
  BY <1>1, <1>5, HangupOK
<1> HIDE DEF e, h
<1> QED BY <1>2, <1>4, <1>5, <1>6, PageStep

-----------------------------------------------------------------------------
(* The steps of the server.                                                *)

(* No page moves.                                                          *)
LEMMA SameChosen ==
  ASSUME dash' = dash
  PROVE  Chosen
BY DEF Chosen

(* A reading is fixed for a request.                                       *)
LEMMA FixedMore ==
  ASSUME NEW S, NEW T, NEW R, Known(S, T, R), marking = "no"
  PROVE  /\ Known(S, T, R \cup {Len(ledger)})
         /\ Len(ledger) \in Nat
<1> DEFINE n  == Len(ledger)
           R2 == R \cup {n}
<1>1. n \in Nat
  BY LenProperties DEF Known, Recording
<1>2. Fixed(R2)
  <2>1. n + 1..n = {}
    BY <1>1
  <2>2. n \in 0..n
    BY <1>1
  <2> QED BY <2>1, <2>2 DEF Known, Fixed
<1>3. PinOK(R2)
  BY DEF Known, PinOK
<1>4. ASSUME NEW b \in Browser PROVE PageOK(S, T, R2, dash[b], get[b])
  <2>1. PageOK(S, T, R, dash[b], get[b]) /\ R \subseteq R2
    BY DEF Known, Shown
  <2> HIDE DEF R2
  <2> QED BY <2>1, StillOK
<1>5. Shown(S, T, R2)
  BY <1>4 DEF Known, Shown
<1>6. Known(S, T, R2)
  BY <1>2, <1>3, <1>5 DEF Known
<1> QED BY <1>1, <1>6

LEMMA PinRequestOK ==
  ASSUME NEW S, NEW T, NEW R, Known(S, T, R), NEW b \in Browser, Pin(b)
  PROVE  (\E R2 : Known(S, T, R2)') /\ Chosen
<1> DEFINE g  == get[b]
           n  == Len(ledger)
           x  == [pc |-> "pinned", query |-> g.query, stale |-> g.stale,
                  range |-> g.range, seq |-> g.seq, led |-> n]
<1>0. PICK R2 : R2 = R \cup {n}
  OBVIOUS
<1>1. Known(S, T, R2) /\ n \in Nat
  BY <1>0, FixedMore DEF Pin, Unlocked
<1>2. DashOK(S, dash[b]) /\ GetOK(S, T, R2, g, dash[b].query) /\ Sent(S)
  BY <1>1, PageKnown
<1>3. g \in Queued /\ g.range.key[1] = g.query /\ (g.stale \/ g.query = dash[b].query)
  BY <1>2, GetCases DEF Pin
<1>4. PageOK(S, T, R2, dash[b], x)
  <2>1. g.query \in Query /\ g.stale \in BOOLEAN /\ g.range \in Window /\ g.seq \in Nat
    BY <1>3 DEF Queued
  <2>2. x \in Pinned /\ x.range.key[1] = x.query /\ x.led \in R2
    BY <1>0, <1>1, <1>3, <2>1 DEF Pinned
  <2>3. GetOK(S, T, R2, x, dash[b].query)
    BY <1>3, <2>2 DEF GetOK
  <2> QED BY <1>2, <2>3 DEF PageOK
<1>5. /\ get' = [get EXCEPT ![b] = x]
      /\ UNCHANGED <<now, ledger, marking, unmarked, hub, views, sequence, cache, pin,
                     dash, trouble>>
      /\ UNCHANGED <<slot, todo, frames>>
  BY DEF Pin, source, server
<1>6. Sent(S)'
  BY <1>2, <1>5, SentSame
<1> HIDE DEF x
<1> QED BY <1>1, <1>4, <1>5, <1>6, PageStep

(* A view is read for a request.                                           *)
LEMMA ReadOK ==
  ASSUME NEW S, NEW T, NEW R, Known(S, T, R), NEW b \in Browser, Read(b)
  PROVE  (\E S2, T2, R2 : Known(S2, T2, R2)') /\ Chosen
<1> DEFINE g == get[b]
<1>1. /\ DashOK(S, dash[b]) /\ GetOK(S, T, R, g, dash[b].query) /\ Recording /\ Sent(S)
  BY PageKnown
<1>2. /\ g \in Pinned /\ g.range.key[1] = g.query /\ g.led \in R
      /\ (g.stale \/ g.query = dash[b].query)
  BY <1>1, GetCases DEF Read
<1>3. PICK v \in Draft : /\ v = Build(g.range, g.led) /\ v.epoch = hub.epoch
                        /\ v.key = g.range.key /\ Good(v)
  <2>1. g.range \in Window /\ Fixed(R)
    BY <1>2 DEF Pinned, Known
  <2> DEFINE n == g.led
             w == g.range
  <2>2. n \in R /\ w \in Window
    BY <1>2, <2>1
  <2> HIDE DEF g, n, w
  <2>3. /\ Build(w, n) \in Draft /\ Build(w, n).epoch = hub.epoch
        /\ Build(w, n).key = w.key /\ Good(Build(w, n))
    BY <1>1, <2>1, <2>2, BuildOK
  <2> QED BY <2>3 DEF n, w
<1> DEFINE x == [pc |-> "built", query |-> g.query, stale |-> g.stale, seq |-> g.seq,
                 view |-> v]
           T2 == T \cup {v}
<1>4. /\ get' = [get EXCEPT ![b] = x]
      /\ UNCHANGED <<now, ledger, marking, unmarked, hub, views, sequence, cache,
                     pin, dash, trouble>>
      /\ UNCHANGED <<slot, todo, frames>>
  BY <1>3 DEF Read, source, server
<1>5. PageOK(S, T2, R, dash[b], x)
  <2>1. g.query \in Query /\ g.stale \in BOOLEAN /\ g.seq \in Nat
    BY <1>2 DEF Pinned
  <2>2. x \in Built /\ x.view \in T2 /\ x.view.key[1] = x.query
    BY <1>2, <1>3, <2>1 DEF Built
  <2>3. GetOK(S, T2, R, x, dash[b].query)
    BY <1>2, <2>2 DEF GetOK
  <2> QED BY <1>1, <2>3 DEF PageOK
<1> HIDE DEF x
<1>6. Shown(S, T2, R)'
  <2>1. Shown(S, T, R) /\ T \subseteq T2
    BY DEF Known
  <2> HIDE DEF T2
  <2> QED BY <1>4, <1>5, <2>1, ShownOK
<1>7. Issued(S, T2, sequence)
  BY <1>3 DEF Known, Issued
<1>8. Sent(S)'
  BY <1>1, <1>4, SentSame
<1>9. Quiet
  <2>1. hub' = [hub EXCEPT !.dirty = hub'.dirty] /\ hub'.dirty \in BOOLEAN
    BY <1>1, <1>4 DEF Recording
  <2> QED BY <1>4, <2>1 DEF Quiet
<1>10. Recording' /\ Issued(S, T2, sequence)'
  <2>1. Recording'
    BY <1>1, <1>9, QuietOK
  <2>2. sequence' = sequence
    BY <1>4
  <2> HIDE DEF T2
  <2>3. Issued(S, T2, sequence)'
    BY <1>1, <1>7, <1>9, <2>2, QuietIssued
  <2> QED BY <2>1, <2>3
<1>11. (Held(S, hub.epoch, views) /\ Buffered(S, cache))'
  BY <1>4 DEF Known
<1>13. Fixed(R)' /\ PinOK(R)'
  <2>1. Fixed(R)'
    BY <1>9, QuietFixed DEF Known
  <2>2. PinOK(R)'
    BY <1>4 DEF Known, PinOK
  <2> QED BY <2>1, <2>2
<1>12. Known(S, T2, R)'
  BY <1>6, <1>8, <1>10, <1>11, <1>13 DEF Known
<1> QED BY <1>4, <1>12, SameChosen

(* An answer is stored; the oldest one, or its own predecessor, makes room.*)
LEMMA StoreOK ==
  ASSUME NEW S, S \subseteq View, Buffered(S, cache), NEW v \in S, NEW n \in Nat
  PROVE  Buffered(S, Store(v, n))
<1> DEFINE E == EncodedIn(S)
           e == [key |-> v.key, seq |-> n, view |-> v]
           kept == IF Len(cache) >= MaxCached THEN Tail(cache) ELSE cache
           same == {i \in DOMAIN kept : kept[i].key = v.key /\ kept[i].seq = n}
           i == CHOOSE i \in same : TRUE
<1>1. e \in E
  <2>1. v \in View
    OBVIOUS
  <2>2. v.key \in Key
    BY <2>1 DEF View
  <2>3. e \in Encoded
    BY <2>1, <2>2 DEF Encoded
  <2>4. e.view = v /\ e.key = v.key
    OBVIOUS
  <2> HIDE DEF e
  <2> QED BY <2>3, <2>4 DEF EncodedIn
<1>2. cache \in Seq(E) /\ Len(cache) <= MaxCached /\ MaxCached \in Nat \ {0}
  BY StreamAssumption DEF Buffered
<1>3. kept \in Seq(E) /\ Len(kept) + 1 <= MaxCached
  <2> HIDE DEF E
  <2> QED BY <1>2, SeqRoom
<1>4. Len(kept) \in Nat /\ DOMAIN kept = 1..Len(kept)
  BY <1>3, LenProperties
<1>5. Store(v, n) = Append(IF same = {} THEN kept ELSE RemoveAt(kept, i), e)
  BY DEF Store
<1> HIDE DEF E, e, kept
<1>6. CASE same = {}
  <2>1. Store(v, n) = Append(kept, e)
    BY <1>5, <1>6
  <2>2. Store(v, n) \in Seq(E) /\ Len(Store(v, n)) = Len(kept) + 1
    BY <1>1, <1>3, <2>1, AppendProperties
  <2> QED BY <1>3, <2>2 DEF Buffered, E
<1>7. CASE same # {}
  <2>1. i \in 1..Len(kept)
    BY <1>4, <1>7
  <2>2. Store(v, n) = Append(RemoveAt(kept, i), e)
    BY <1>5, <1>7
  <2> HIDE DEF i, same
  <2>3. RemoveAt(kept, i) \in Seq(E) /\ Len(RemoveAt(kept, i)) = Len(kept) - 1
    BY <1>3, <2>1, SeqWithout
  <2>4. /\ Store(v, n) \in Seq(E)
        /\ Len(Store(v, n)) = Len(RemoveAt(kept, i)) + 1
    BY <1>1, <2>2, <2>3, AppendProperties
  <2>5. Len(Store(v, n)) <= MaxCached
    BY <1>2, <1>3, <1>4, <2>3, <2>4
  <2> QED BY <2>4, <2>5 DEF Buffered, E
<1> QED BY <1>6, <1>7

(* A larger set of views leaves the answers that are kept in it.           *)
LEMMA BufferedMore ==
  ASSUME NEW S, NEW S2, S \subseteq S2, Buffered(S, cache)
  PROVE  Buffered(S2, cache)
<1>1. EncodedIn(S) \subseteq EncodedIn(S2)
  BY DEF EncodedIn
<1>2. cache \in Seq(EncodedIn(S2))
  BY <1>1, SeqMonotonic DEF Buffered
<1> QED BY <1>2 DEF Buffered

(* The answer is given: the reading, or a newer view in its place.         *)
LEMMA AnswerOK ==
  ASSUME NEW S, NEW T, NEW R, Known(S, T, R), NEW b \in Browser, Answer(b)
  PROVE  (\E S2, T2, R2 : Known(S2, T2, R2)') /\ Chosen
<1> DEFINE g == get[b]
           v == g.view
           a == Adopt(g.query, v)
           x == [pc |-> "answered", query |-> g.query, stale |-> g.stale,
                 view |-> a.value]
<1>1. DashOK(S, dash[b]) /\ GetOK(S, T, R, g, dash[b].query) /\ Recording /\ Sent(S)
  BY PageKnown
<1>2. /\ g \in Built /\ v \in T /\ v.key[1] = g.query
      /\ (g.stale \/ g.query = dash[b].query)
  BY <1>1, GetCases DEF Answer
<1>3. v \in Draft /\ Good(v) /\ v.epoch = hub.epoch
  BY <1>2 DEF Known, Issued
<1>4. g.query \in Query /\ g.stale \in BOOLEAN /\ g.seq \in Nat
  BY <1>2 DEF Built
<1>5. PICK S2 : Adopted(S, T, S2, a, v)
  <2>1. Issued(S, T, sequence) /\ Held(S, hub.epoch, views)
    BY DEF Known
  <2> HIDE DEF v, g
  <2> QED BY <1>1, <1>3, <1>4, <2>1, AdoptOK
<1>6. /\ views' = a.views /\ sequence' = a.sequence
      /\ cache' = Store(a.value, g.seq) /\ pin = NoPin /\ pin' = NoPin
      /\ get' = [get EXCEPT ![b] = x]
      /\ UNCHANGED <<now, ledger, marking, unmarked, hub, todo, frames, slot, dash,
                     trouble>>
  BY DEF Answer, source
<1> HIDE DEF a
<1>7. /\ S \subseteq S2 /\ Issued(S2, T, a.sequence) /\ Held(S2, hub.epoch, a.views)
      /\ a.value \in S2 /\ a.value.epoch = hub.epoch /\ a.value.key = v.key
  BY <1>5 DEF Adopted
<1>8. S2 \subseteq View /\ a.value \in View
  BY <1>7 DEF Issued
<1>9. Buffered(S2, cache')
  <2>1. Buffered(S2, cache)
    BY <1>7, BufferedMore DEF Known
  <2> HIDE DEF g
  <2> QED BY <1>4, <1>6, <1>7, <1>8, <2>1, StoreOK
<1>10. PageOK(S2, T, R, dash[b], x)
  <2>1. x \in Answered /\ x.view \in S2 /\ x.view.key[1] = x.query
    BY <1>2, <1>4, <1>7, <1>8 DEF Answered
  <2>2. GetOK(S2, T, R, x, dash[b].query)
    BY <1>2, <2>1 DEF GetOK
  <2>3. DashOK(S2, dash[b])
    BY <1>1, <1>7 DEF DashOK
  <2> QED BY <2>2, <2>3 DEF PageOK
<1> HIDE DEF x
<1>11. Shown(S2, T, R)'
  <2>1. Shown(S, T, R)
    BY DEF Known
  <2> QED BY <1>6, <1>7, <1>10, <2>1, ShownOK
<1>12. Sent(S2)'
  BY <1>1, <1>6, <1>7, SentSame
<1>13. Quiet
  <2>1. hub' = [hub EXCEPT !.dirty = hub'.dirty] /\ hub'.dirty \in BOOLEAN
    BY <1>1, <1>6 DEF Recording
  <2> QED BY <1>6, <2>1 DEF Quiet
<1>14. Recording' /\ Issued(S2, T, sequence)'
  BY <1>1, <1>6, <1>7, <1>13, QuietOK, QuietIssued
<1>15. (Held(S2, hub.epoch, views) /\ Buffered(S2, cache))'
  BY <1>6, <1>7, <1>9
<1>17. Fixed(R)' /\ PinOK(R)'
  <2>1. Fixed(R)'
    BY <1>13, QuietFixed DEF Known
  <2>2. PinOK(R)'
    BY <1>6 DEF PinOK
  <2> QED BY <2>1, <2>2
<1>16. Known(S2, T, R)'
  BY <1>11, <1>12, <1>14, <1>15, <1>17 DEF Known
<1> QED BY <1>6, <1>16, SameChosen

(* A subscriber is served.                                                 *)
LEMMA PutOK ==
  ASSUME NEW S, NEW S2, S \subseteq S2, Sent(S), NEW b, NEW key, NEW m,
         IsMessage(S2, m), Put(b, key, m)
  PROVE  Sent(S2)'
<1>1. \A x : IsMessage(S, x) => IsMessage(S2, x)
  BY StillOK
<1>2. \A k \in DOMAIN frames : IsMessage(S2, frames[k])
  BY <1>1 DEF Sent
<1>3. todo' \subseteq todo /\ (slot' = slot \/ slot' = [slot EXCEPT ![b] = m])
  BY DEF Put
<1>4. \A k \in DOMAIN frames' : IsMessage(S2, frames'[k])
  <2>1. CASE todo' = {}
    BY <2>1 DEF Put
  <2>2. CASE todo' # {}
    <3>1. frames' = [k \in DOMAIN frames \cup {key} |-> IF k = key THEN m ELSE frames[k]]
      BY <2>2 DEF Put
    <3> QED BY <1>2, <3>1
  <2> QED BY <2>1, <2>2
<1> QED BY <1>3, <1>4, SentOK

(* The view of a range is brought up to date, and what it has become is    *)
(* the new base.                                                           *)
LEMMA BringOK ==
  ASSUME NEW S, NEW T, NEW R, Known(S, T, R), pin # NoPin, NEW i \in ViewOf(pin.key),
         Bring(i)
  PROVE  /\ \E S2 : /\ S \subseteq S2 /\ Issued(S2, T, sequence')
                    /\ Held(S2, hub.epoch, views') /\ Sent(S2)'
         /\ trouble' \in {trouble, trouble + 1}
<1> DEFINE E == hub.epoch
           q == views[i].query
           prior == views[i].value
           base == views[i].published
           r == pin.range
           n == pin.led
           b == pin.by
           key == pin.key
           v == BuildFrom(prior, r, n)
           a == Adopt(q, v)
<1>1. Recording /\ Issued(S, T, sequence) /\ Held(S, E, views) /\ Sent(S)
  BY DEF Known
<1>2. views[i] \in KeptIn(S, E)
  <2>1. views \in Seq(KeptIn(S, E))
    BY <1>1 DEF Held
  <2>2. i \in 1..Len(views)
    BY <2>1, LenProperties DEF ViewOf
  <2> QED BY <2>1, <2>2, ElementOfSeq
<1>3. /\ q \in Query /\ prior \in S /\ prior.epoch = E /\ base \in S /\ base.epoch = E
      /\ prior \in View /\ Good(prior)
  BY <1>1, <1>2 DEF KeptIn, Kept, Issued
<1>4. r \in Window /\ n \in R /\ prior.led <= n
  <2>1. i \in DOMAIN views
    BY DEF ViewOf
  <2> QED BY <2>1 DEF Known, PinOK
<1>6. v \in Draft /\ v.epoch = E /\ Good(v)
  <2>1. Fixed(R)
    BY DEF Known
  <2> HIDE DEF prior, r, n
  <2> QED BY <1>1, <1>3, <1>4, <2>1, BuildFromOK
<1>7. PICK S2 : Adopted(S, T, S2, a, v)
  <2> HIDE DEF v, q
  <2> QED BY <1>1, <1>3, <1>6, AdoptOK
<1>8. /\ sequence' = a.sequence
      /\ \/ /\ views' = a.views /\ Put(b, key, None) /\ UNCHANGED trouble
         \/ /\ views' = [j \in DOMAIN a.views |->
                 IF a.views[j].key = key
                   THEN [a.views[j] EXCEPT !.published = a.value]
                   ELSE a.views[j]]
            /\ \/ Put(b, key, Difference(base, a.value)) /\ UNCHANGED trouble
               \/ Goes("large change") /\ Put(b, key, Resync)
  <2>1. PICK built \in {v} :
          \E adopted \in {Adopt(q, built)} :
            /\ sequence' = adopted.sequence
            /\ \/ /\ views' = adopted.views /\ Put(b, key, None) /\ UNCHANGED trouble
               \/ /\ views' = [j \in DOMAIN adopted.views |->
                       IF adopted.views[j].key = key
                         THEN [adopted.views[j] EXCEPT !.published = adopted.value]
                         ELSE adopted.views[j]]
                  /\ \/ Put(b, key, Difference(base, adopted.value)) /\ UNCHANGED trouble
                     \/ Goes("large change") /\ Put(b, key, Resync)
    BY DEF Bring
  <2> HIDE DEF v, base, q, b, key
  <2> QED BY <2>1
<1> HIDE DEF a, base, v, b, key
<1>9. /\ S \subseteq S2 /\ Issued(S2, T, sequence') /\ Held(S2, E, a.views)
      /\ a.value \in S2 /\ a.value.epoch = E /\ base \in S2
  BY <1>3, <1>7, <1>8 DEF Adopted
<1>10. a.value \in View
  BY <1>9 DEF Issued
<1>11. Held(S2, E, views')
  <2>1. CASE views' = a.views
    BY <1>9, <2>1
  <2>2. CASE views' = [j \in DOMAIN a.views |->
                 IF a.views[j].key = key
                   THEN [a.views[j] EXCEPT !.published = a.value]
                   ELSE a.views[j]]
    <3> DEFINE K == KeptIn(S2, E)
    <3>1. a.views \in Seq(K) /\ Len(a.views) <= MaxViews
      BY <1>9 DEF Held
    <3>2. DOMAIN a.views = 1..Len(a.views)
      BY <3>1, LenProperties
    <3>3. ASSUME NEW x \in K PROVE [x EXCEPT !.published = a.value] \in K
      BY <1>9, <1>10 DEF KeptIn, Kept
    <3> HIDE DEF K
    <3>4. \A j \in 1..Len(a.views) : views'[j] \in K
      BY <2>2, <3>1, <3>2, <3>3, ElementOfSeq
    <3>5. views' = [j \in 1..Len(a.views) |-> views'[j]]
      BY <2>2, <3>2
    <3>6. views' \in Seq(K) /\ Len(views') = Len(a.views)
      BY <3>1, <3>4, <3>5, SeqMapped
    <3> QED BY <3>1, <3>6 DEF Held, K
  <2> QED BY <1>8, <2>1, <2>2
<1>12. Sent(S2)'
  <2>1. PICK m : Put(b, key, m) /\ IsMessage(S2, m)
    <3>1. IsMessage(S2, None) /\ IsMessage(S2, Resync)
      BY DEF IsMessage
    <3>2. IsMessage(S2, Difference(base, a.value))
      BY <1>3, <1>9 DEF IsMessage
    <3> QED BY <1>8, <3>1, <3>2
  <2> QED BY <1>1, <1>9, <2>1, PutOK
<1>13. trouble' \in {trouble, trouble + 1}
  BY <1>8 DEF Goes
<1> QED BY <1>9, <1>11, <1>12, <1>13

(* What a subscriber is served leaves the requests as they are.            *)
LEMMA ServedKnown ==
  ASSUME NEW S, NEW T, NEW R, Known(S, T, R), NEW S2, S \subseteq S2,
         NEW R2, R \subseteq R2,
         UNCHANGED <<now, ledger, marking, unmarked, hub, cache, get, dash>>,
         Issued(S2, T, sequence'), Held(S2, hub.epoch, views'), Sent(S2)',
         trouble' \in {trouble, trouble + 1}, Fixed(R2), PinOK(R2)'
  PROVE  (\E S3, T3, R3 : Known(S3, T3, R3)') /\ Chosen
<1>1. Quiet
  <2>1. hub' = [hub EXCEPT !.dirty = hub'.dirty] /\ hub'.dirty \in BOOLEAN
    BY DEF Known, Recording
  <2> QED BY <2>1 DEF Quiet
<1>2. Recording' /\ Issued(S2, T, sequence)' /\ Fixed(R2)'
  BY <1>1, QuietOK, QuietIssued, QuietFixed DEF Known
<1>3. (Held(S2, hub.epoch, views) /\ Buffered(S2, cache))'
  <2>1. Buffered(S2, cache)
    BY BufferedMore DEF Known
  <2> QED BY <2>1
<1>4. ASSUME NEW b \in Browser PROVE PageOK(S2, T, R2, dash[b], get[b])
  BY StillOK DEF Known, Shown
<1>5. Shown(S2, T, R2)'
  BY <1>4 DEF Known, Shown
<1>6. Known(S2, T, R2)'
  BY <1>2, <1>3, <1>5 DEF Known
<1> QED BY <1>6, SameChosen

(* One subscriber of a publication is served, or its view pinned.          *)
LEMMA ServeOK ==
  ASSUME NEW S, NEW T, NEW R, Known(S, T, R), NEW b \in Browser, Serve(b)
  PROVE  (\E S2, T2, R2 : Known(S2, T2, R2)') /\ Chosen
<1>1. UNCHANGED <<now, ledger, marking, unmarked, hub, cache, get, dash>> /\ pin = NoPin
  BY DEF Serve, source
<1>2. /\ Recording /\ Sent(S) /\ Issued(S, T, sequence)
      /\ Held(S, hub.epoch, views) /\ Fixed(R)
  BY DEF Known
<1>3. PICK key :
        \/ /\ key \in DOMAIN frames
           /\ Put(b, key, frames[key])
           /\ UNCHANGED <<views, sequence, pin, trouble>>
        \/ /\ Put(b, key, Resync) /\ UNCHANGED <<views, sequence, pin>>
           /\ trouble' \in {trouble, trouble + 1}
        \/ PinRange(b, key)
  BY DEF Serve, Goes
<1>4. CASE key \in DOMAIN frames /\ Put(b, key, frames[key])
           /\ UNCHANGED <<views, sequence, pin, trouble>>
  <2>1. IsMessage(S, frames[key])
    BY <1>2, <1>4 DEF Sent
  <2>2. Sent(S)'
    BY <1>2, <1>4, <2>1, PutOK
  <2>3. PinOK(R)'
    BY <1>1, <1>4 DEF PinOK
  <2> QED BY <1>1, <1>2, <1>4, <2>2, <2>3, ServedKnown
<1>5. CASE /\ Put(b, key, Resync) /\ UNCHANGED <<views, sequence, pin>>
           /\ trouble' \in {trouble, trouble + 1}
  <2>1. IsMessage(S, Resync)
    BY DEF IsMessage
  <2>2. Sent(S)'
    BY <1>2, <1>5, <2>1, PutOK
  <2>3. PinOK(R)'
    BY <1>1, <1>5 DEF PinOK
  <2> QED BY <1>1, <1>2, <1>5, <2>2, <2>3, ServedKnown
<1>6. CASE PinRange(b, key)
  <2>0. PICK R2 : R2 = R \cup {Len(ledger)}
    OBVIOUS
  <2>1. PICK i \in ViewOf(key) :
          /\ pin'.led = Len(ledger)
          /\ pin'.range = Resolve(views[i].query, now)
    BY <1>6 DEF PinRange
  <2>2. /\ UNCHANGED <<views, sequence, todo, frames, slot, trouble>>
        /\ marking = "no"
    BY <1>6 DEF PinRange, Unlocked
  <2>3. Fixed(R2) /\ R \subseteq R2
    BY <2>0, <2>2, FixedMore DEF Known
  <2>4. ASSUME NEW j \in DOMAIN views
        PROVE  views[j] \in KeptIn(S, hub.epoch)
    <3>1. views \in Seq(KeptIn(S, hub.epoch))
      BY <1>2 DEF Held
    <3>2. j \in 1..Len(views)
      BY <3>1, LenProperties
    <3> QED BY <3>1, <3>2, ElementOfSeq
  <2>5. Resolve(views[i].query, now) \in Window
    <3>1. views[i].query \in Query
      BY <2>4 DEF ViewOf, KeptIn, Kept
    <3> QED BY <1>2, <3>1, ResolveType DEF Recording
  <2>6. \A j \in DOMAIN views : views[j].value.led <= Len(ledger)
    BY <1>2, <2>4 DEF KeptIn, Issued, Good, Exact
  <2>7. PinOK(R2)'
    <3>1. pin'.led \in R2 /\ pin'.range \in Window
      BY <2>0, <2>1, <2>5
    <3>2. \A j \in DOMAIN views' : views'[j].value.led <= pin'.led
      BY <2>1, <2>2, <2>6
    <3> QED BY <3>1, <3>2 DEF PinOK
  <2>8. Sent(S)'
    BY <1>2, <2>2, SentSame
  <2>9. /\ Issued(S, T, sequence') /\ Held(S, hub.epoch, views')
        /\ trouble' \in {trouble, trouble + 1}
    BY <1>2, <2>2
  <2> QED BY <1>1, <2>3, <2>7, <2>8, <2>9, ServedKnown
<1> QED BY <1>3, <1>4, <1>5, <1>6

(* The pinned view is read, and its subscriber served.                     *)
LEMMA ServeReadOK ==
  ASSUME NEW S, NEW T, NEW R, Known(S, T, R), ServeRead
  PROVE  (\E S2, T2, R2 : Known(S2, T2, R2)') /\ Chosen
<1>1. /\ UNCHANGED <<now, ledger, marking, unmarked, hub, cache, get, dash>>
      /\ pin # NoPin /\ pin' = NoPin
  BY DEF ServeRead, source
<1>2. PICK i \in ViewOf(pin.key) : Bring(i)
  BY DEF ServeRead
<1>3. PICK S2 : /\ S \subseteq S2 /\ Issued(S2, T, sequence')
                /\ Held(S2, hub.epoch, views') /\ Sent(S2)'
  BY <1>1, <1>2, BringOK
<1>4. trouble' \in {trouble, trouble + 1}
  BY <1>1, <1>2, BringOK
<1>5. PinOK(R)' /\ Fixed(R)
  BY <1>1 DEF PinOK, Known
<1> QED BY <1>1, <1>3, <1>4, <1>5, ServedKnown

(* The server starts again: nothing it sends from now on can be taken for  *)
(* what it sent before.                                                    *)
LEMMA RestartOK ==
  ASSUME NEW S, NEW T, NEW R, Known(S, T, R), Restart
  PROVE  Known(S, {}, {})' /\ Chosen
<1> DEFINE E == hub.epoch
           d(b) == IF dash[b].stream # "open" THEN dash[b]
                   ELSE [dash[b] EXCEPT !.stream = "reconnecting"]
           x(b) == IF get[b].pc \in {"queued", "pinned", "built"} THEN Ended(d(b))
                   ELSE [d |-> d(b), g |-> get[b]]
<1>1. /\ now' = now /\ ledger' = ledger /\ marking' = "no" /\ unmarked' = 0
      /\ trouble' = trouble + 1 /\ pin' = NoPin
      /\ hub' = [epoch |-> E + 1, seq |-> 0, full |-> 0, dirty |-> FALSE]
      /\ views' = <<>> /\ sequence' = 0 /\ cache' = <<>>
      /\ todo' = {} /\ frames' = <<>> /\ slot' = slot
  BY DEF Restart, Goes, NewEpoch
<1>2. /\ dash' = [b \in Browser |-> x(b).d]
      /\ get' = [b \in Browser |-> x(b).g]
  BY DEF Restart
<1>3. Recording /\ Issued(S, T, sequence) /\ Sent(S)
  BY DEF Known
<1>4. E \in Nat /\ E + 1 \in Nat /\ hub'.epoch = E + 1
  BY <1>1, <1>3 DEF Recording
<1>5. Recording'
  <2>1. hub' \in [epoch : Nat, seq : Nat, full : Nat, dirty : BOOLEAN]
    BY <1>1, <1>4
  <2>2. trouble' \in Nat
    BY <1>1, <1>3 DEF Recording
  <2> QED BY <1>1, <1>3, <2>1, <2>2 DEF Recording
<1>6. ASSUME NEW v \in S PROVE Good(v)' /\ v.epoch # hub'.epoch
  <2>1. Good(v) /\ v.epoch \in Nat /\ v.epoch <= E
    BY <1>3 DEF Issued, View, Good
  <2>2. v.epoch <= E + 1 /\ v.epoch # E + 1
    <3> DEFINE y == v.epoch
    <3>1. y \in Nat /\ y <= E
      BY <2>1
    <3> HIDE DEF y, E
    <3>2. y <= E + 1 /\ y # E + 1
      BY <1>4, <3>1
    <3> QED BY <3>2 DEF y
  <2>3. v.led \in Nat
    BY <1>3 DEF Issued, View
  <2>4. Exact(v)'
    BY <1>1, <1>3, <2>1, <2>3, ExactStable DEF Good, Recording
  <2> QED BY <1>4, <2>2, <2>4 DEF Good
<1>7. Issued(S, {}, sequence)'
  <2>1. sequence' \in Nat
    BY <1>1
  <2> QED BY <1>3, <1>6, <2>1 DEF Issued
<1>8. (Held(S, hub.epoch, views) /\ Buffered(S, cache))'
  <2>1. /\ Len(<<>>) = 0
        /\ <<>> \in Seq(KeptIn(S, hub'.epoch)) /\ <<>> \in Seq(EncodedIn(S))
    BY EmptySeq
  <2>2. 0 <= MaxViews /\ 0 <= MaxCached
    BY StreamAssumption
  <2> QED BY <1>1, <2>1, <2>2 DEF Held, Buffered
<1>9. Sent(S)'
  BY <1>1, <1>3 DEF Sent
<1>10. ASSUME NEW b \in Browser
       PROVE  PageOK(S, {}, {}, x(b).d, x(b).g) /\ x(b).d.page = dash[b].page
  <2> DEFINE c == dash[b]
             g == get[b]
             e == d(b)
  <2>1. DashOK(S, c) /\ GetOK(S, T, R, g, c.query)
    BY PageKnown
  <2>2. DashOK(S, e) /\ e.page = c.page /\ e.query = c.query
    <3>1. c \in Dash /\ (c.page = Blank \/ c.page \in S) /\ "reconnecting" \in Streams
      BY <2>1 DEF DashOK, Streams
    <3>2. e = c \/ e = [c EXCEPT !.stream = "reconnecting"]
      OBVIOUS
    <3> HIDE DEF c, e
    <3> QED BY <3>1, <3>2 DEF DashOK, Dash
  <2>3. CASE g.pc \in {"queued", "pinned", "built"}
    <3>1. x(b) = Ended(e)
      BY <2>3
    <3> HIDE DEF e, x
    <3>2. Stays(S, {}, {}, e, Ended(e))
      BY <2>2, EndedOK
    <3> QED BY <2>2, <3>1, <3>2 DEF Stays
  <2>4. CASE g.pc \notin {"queued", "pinned", "built"}
    <3>1. x(b).d = e /\ x(b).g = g
      BY <2>4
    <3> HIDE DEF e, x, g, c
    <3>2. GetOK(S, {}, {}, g, e.query)
      <4>1. g = NoGet \/ (g \in Asked /\ (g.stale \/ g.query = c.query))
              \/ (g \in Answered /\ g.view \in S /\ g.view.key[1] = g.query
                  /\ (g.stale \/ g.query = c.query))
        BY <2>1, <2>4, GetCases
      <4> QED BY <2>2, <4>1 DEF GetOK
    <3> QED BY <2>2, <3>1, <3>2 DEF PageOK, c
  <2> QED BY <2>3, <2>4
<1> HIDE DEF x
<1>11. Shown(S, {}, {})'
  BY <1>2, <1>10 DEF Shown
<1>12. Known(S, {}, {})'
  <2>1. Fixed({})' /\ PinOK({})'
    BY <1>1 DEF Fixed, PinOK
  <2> QED BY <1>5, <1>7, <1>8, <1>9, <1>11, <2>1 DEF Known
<1>13. Chosen
  BY <1>2, <1>10 DEF Chosen
<1> QED BY <1>12, <1>13

-----------------------------------------------------------------------------
(* The theorems.                                                           *)

(* At first no view has a revision.                                        *)
LEMMA InitOK == Init => IInv
<1> SUFFICES ASSUME Init PROVE Known({}, {}, {})
  BY DEF IInv
<1>1. PICK first \in [Browser -> Query] :
        /\ get = [b \in Browser |->
             [pc |-> "asked", query |-> first[b], stale |-> FALSE]]
        /\ dash = [b \in Browser |->
             [page |-> Blank, query |-> first[b],
              stream |-> IF b \in Hidden THEN "none" ELSE "connecting",
              expected |-> -1, pending |-> FALSE, timer |-> FALSE, late |-> -1]]
  BY DEF Init
<1>2. Recording
  <2>1. Start \in Nat /\ MaxEvents \in Nat /\ 0 <= MaxEvents
    BY StreamAssumption
  <2>2. ledger \in Seq(Entry) /\ Len(ledger) = 0
    BY EmptySeq DEF Init
  <2> QED BY <2>1, <2>2 DEF Init, Recording
<1>3. Issued({}, {}, sequence)
  BY DEF Init, Issued
<1>4. Held({}, hub.epoch, views) /\ Buffered({}, cache)
  <2>1. /\ Len(<<>>) = 0
        /\ <<>> \in Seq(KeptIn({}, hub.epoch)) /\ <<>> \in Seq(EncodedIn({}))
    BY EmptySeq
  <2>2. 0 <= MaxViews /\ 0 <= MaxCached
    BY StreamAssumption
  <2> QED BY <2>1, <2>2 DEF Init, Held, Buffered
<1>5. Sent({})
  BY DEF Init, Sent, IsMessage
<1>6. ASSUME NEW b \in Browser PROVE PageOK({}, {}, {}, dash[b], get[b])
  <2>1. first[b] \in Query /\ -1 \in Int
    OBVIOUS
  <2>2. dash[b] \in Dash /\ dash[b].page = Blank /\ dash[b].query = first[b]
    BY <1>1, <2>1 DEF Dash, Streams
  <2>3. get[b] \in Asked /\ get[b].query = first[b]
    BY <1>1, <2>1 DEF Asked
  <2> QED BY <2>2, <2>3 DEF PageOK, DashOK, GetOK
<1>7. Shown({}, {}, {})
  BY <1>1, <1>6 DEF Shown
<1>8. Fixed({}) /\ PinOK({})
  BY DEF Init, Fixed, PinOK
<1> QED BY <1>2, <1>3, <1>4, <1>5, <1>7, <1>8 DEF Known

(* Every step keeps what is known, and moves a page to no other range than *)
(* the one chosen.                                                         *)
LEMMA NextOK ==
  ASSUME NEW S, NEW T, NEW R, Known(S, T, R), Next
  PROVE  (\E S2, T2, R2 : Known(S2, T2, R2)') /\ Chosen
<1>1. CASE Commit
  <2>1. Known(S, T, {})' /\ dash' = dash
    BY <1>1, CommitOK DEF Commit
  <2> QED BY <2>1, SameChosen
<1>2. CASE Tick
  <2>1. Known(S, T, R)' /\ dash' = dash
    BY <1>2, TickOK DEF Tick
  <2> QED BY <2>1, SameChosen
<1>3. CASE Mark
  <2>1. Known(S, T, R)' /\ dash' = dash
    BY <1>3, MarkOK DEF Mark
  <2> QED BY <2>1, SameChosen
<1>4. CASE WindowDue
  <2>1. Known(S, T, R)' /\ dash' = dash
    BY <1>4, WindowDueOK DEF WindowDue
  <2> QED BY <2>1, SameChosen
<1>5. CASE Publish
  <2>1. Known(S, T, R)' /\ dash' = dash
    BY <1>5, PublishOK DEF Publish
  <2> QED BY <2>1, SameChosen
<1>6. CASE Restart
  BY <1>6, RestartOK
<1>7. ASSUME NEW b \in Browser, Serve(b) \/ Pin(b) \/ Read(b) \/ Answer(b)
      PROVE  (\E S2, T2, R2 : Known(S2, T2, R2)') /\ Chosen
  <2>1. Pin(b) => (\E R2 : Known(S, T, R2)') /\ Chosen
    BY PinRequestOK
  <2> QED BY <1>7, <2>1, ServeOK, ReadOK, AnswerOK
<1>10. CASE Rename \/ MarkRename
  <2>1. Known(S, T, R)' /\ dash' = dash
    BY <1>10, RenameOK, MarkRenameOK DEF Rename, MarkRename
  <2> QED BY <2>1, SameChosen
<1>11. CASE ServeRead
  BY <1>11, ServeReadOK
<1>8. ASSUME NEW b \in Browser,
             \/ Arrive(b) \/ Hit(b) \/ Receive(b) \/ Abort(b) \/ LoseAnswer(b)
             \/ Register(b) \/ Heartbeat(b) \/ Handle(b)
             \/ Refresh(b) \/ Late(b) \/ Fallback(b) \/ Break(b)
             \/ (\E q \in Query : Choose(b, q)) \/ Suspend(b) \/ Resume(b)
      PROVE  Known(S, T, R)' /\ Chosen
  BY <1>8, ArriveOK, HitOK, ReceiveOK, FailsOK, RegisterOK, HeartbeatOK, HandleOK,
     TimersOK, BreakOK, ChooseOK, SuspendOK
<1>9. \/ Commit \/ Rename \/ MarkRename \/ Tick \/ Mark \/ WindowDue \/ Publish
      \/ Restart \/ ServeRead
      \/ \E b \in Browser : Serve(b) \/ Pin(b) \/ Read(b) \/ Answer(b)
      \/ \E b \in Browser :
           \/ Arrive(b) \/ Hit(b) \/ Receive(b) \/ Abort(b) \/ LoseAnswer(b)
           \/ Register(b) \/ Heartbeat(b) \/ Handle(b)
           \/ Refresh(b) \/ Late(b) \/ Fallback(b) \/ Break(b)
           \/ (\E q \in Query : Choose(b, q)) \/ Suspend(b) \/ Resume(b)
  BY DEF Next, Publisher, Request
<1> QED BY <1>1, <1>2, <1>3, <1>4, <1>5, <1>6, <1>7, <1>8, <1>9, <1>10, <1>11

(* Nor does a step that changes nothing.                                   *)
LEMMA StutterOK ==
  ASSUME NEW S, NEW T, NEW R, Known(S, T, R), UNCHANGED vars
  PROVE  Known(S, T, R)' /\ Chosen
<1>1. /\ UNCHANGED <<now, ledger, marking, unmarked, hub, views, sequence, cache,
                     pin, dash, get, trouble>>
      /\ UNCHANGED <<slot, todo, frames>>
  BY DEF vars, source, server
<1>2. Quiet
  <2>1. hub' = [hub EXCEPT !.dirty = hub'.dirty] /\ hub'.dirty \in BOOLEAN
    BY <1>1 DEF Known, Recording
  <2> QED BY <1>1, <2>1 DEF Quiet
<1>3. Sent(S)'
  BY <1>1, SentSame DEF Known
<1>4. Shown(S, T, R)'
  BY <1>1 DEF Known, Shown
<1> QED BY <1>1, <1>2, <1>3, <1>4, QuietKnown, SameChosen

(* The invariant is inductive, and what a step may not do it does not do.  *)
LEMMA StepOK == IInv /\ [Next]_vars => IInv' /\ Chosen
<1> SUFFICES ASSUME IInv, [Next]_vars PROVE IInv' /\ Chosen
  OBVIOUS
<1>1. PICK S, T, R : Known(S, T, R)
  BY DEF IInv
<1>2. (\E S2, T2, R2 : Known(S2, T2, R2)') /\ Chosen
  BY <1>1, NextOK, StutterOK
<1>3. IInv'
  BY <1>2 DEF IInv
<1> QED BY <1>2, <1>3

(* Everything that is stored or shown is known.                            *)
LEMMA Inductive == Spec => []IInv
<1>1. Spec => Init /\ [][Next]_vars
  BY DEF Spec
<1>2. IInv /\ [Next]_vars => IInv'
  BY StepOK
<1> QED BY <1>1, <1>2, InitOK, PTL

(* The views of the server, and the pages.                                 *)
LEMMA ViewsKnown ==
  ASSUME NEW S, NEW T, NEW R, Known(S, T, R)
  PROVE  /\ Views \subseteq S
         /\ \A b \in Browser : dash[b].page = Blank \/ dash[b].page \in S
<1>1. ASSUME NEW i \in DOMAIN views PROVE views[i].value \in S /\ views[i].published \in S
  <2>1. views \in Seq(KeptIn(S, hub.epoch))
    BY DEF Known, Held
  <2>2. i \in 1..Len(views)
    BY <2>1, LenProperties
  <2>3. views[i] \in KeptIn(S, hub.epoch)
    BY <2>1, <2>2, ElementOfSeq
  <2> QED BY <2>3 DEF KeptIn
<1>2. ASSUME NEW i \in DOMAIN cache PROVE cache[i].view \in S
  <2>1. cache \in Seq(EncodedIn(S))
    BY DEF Known, Buffered
  <2>2. i \in 1..Len(cache)
    BY <2>1, LenProperties
  <2>3. cache[i] \in EncodedIn(S)
    BY <2>1, <2>2, ElementOfSeq
  <2> QED BY <2>3 DEF EncodedIn
<1>3. Views \subseteq S
  BY <1>1, <1>2 DEF Views
<1>4. \A b \in Browser : dash[b].page = Blank \/ dash[b].page \in S
  BY DEF Known, Shown, PageOK, DashOK
<1> QED BY <1>3, <1>4

(* The variables have their types and the stores of the server their       *)
(* sizes: numericViews, the snapshot cache, the one-slot streams, and the  *)
(* single request of a page.                                               *)
THEOREM Typed == Spec => []TypeOK
<1>1. IInv => TypeOK
  <2> SUFFICES ASSUME NEW S, NEW T, NEW R, Known(S, T, R) PROVE TypeOK
    BY DEF IInv
  <2>1. Recording /\ Held(S, hub.epoch, views) /\ Buffered(S, cache) /\ Sent(S)
    BY DEF Known
  <2>2. ASSUME NEW b \in Browser
        PROVE  /\ slot[b].type \in {"none", "numbers", "resync"}
               /\ get[b].pc \in {"none", "asked", "queued", "pinned", "built", "answered"}
               /\ dash[b].query \in Query
               /\ dash[b].stream \in {"none", "connecting", "reconnecting", "open"}
    <3>1. IsMessage(S, slot[b])
      BY <2>1 DEF Sent
    <3>2. slot[b].type \in {"none", "numbers", "resync"}
      <4>1. \A x, y : Difference(x, y).type = "numbers"
        BY DEF Difference
      <4>2. None.type = "none" /\ Resync.type = "resync"
        BY DEF None, Resync
      <4> QED BY <3>1, <4>1, <4>2 DEF IsMessage
    <3>3. dash[b] \in Dash /\ GetOK(S, T, R, get[b], dash[b].query)
      BY PageKnown
    <3>4. get[b].pc \in {"none", "asked", "queued", "pinned", "built", "answered"}
      BY <3>3, GetCases
    <3> QED BY <3>2, <3>3, <3>4 DEF Dash, Streams
  <2>3. pin.led \in -1..Len(ledger)
    <3>1. Len(ledger) \in Nat
      BY <2>1, LenProperties DEF Recording
    <3>2. CASE pin = NoPin
      BY <3>1, <3>2 DEF NoPin
    <3>3. CASE pin # NoPin
      BY <3>1, <3>3 DEF Known, PinOK, Fixed
    <3> QED BY <3>2, <3>3
  <2> QED BY <2>1, <2>2, <2>3 DEF TypeOK, Recording, Held, Buffered, Sent
<1> QED BY <1>1, Inductive, PTL

(* Reading the touched conversations only (prepareIncremental, mergeRows)  *)
(* never shows in the usage and the metadata of a view's rows.             *)
THEOREM IncrementalIsExact == Spec => []ViewExact
<1>1. IInv => ViewExact
  <2> SUFFICES ASSUME NEW S, NEW T, NEW R, Known(S, T, R) PROVE ViewExact
    BY DEF IInv
  <2>1. \A v \in S : \E shown \in Promise!Older(v.led) :
          v.rows = Promise!Rows(v.led, shown, v.start, v.end)
    BY DEF Known, Issued, Good, Exact
  <2> QED BY <2>1, ViewsKnown DEF ViewExact
<1> QED BY <1>1, Inductive, PTL

(* An epoch and a revision name one view, wherever it is stored, merged    *)
(* from differences or shown: the base check of applyNumbers is enough.    *)
THEOREM RevisionNamesRows == Spec => []SameRevisionSameRows
<1>1. IInv => SameRevisionSameRows
  <2> SUFFICES ASSUME NEW S, NEW T, NEW R, Known(S, T, R) PROVE SameRevisionSameRows
    BY DEF IInv
  <2>1. \A v, w \in S : v.epoch = w.epoch /\ v.rev = w.rev => v = w
    BY DEF Known, Issued
  <2>2. \A v \in Views \cup {dash[b].page : b \in {b \in Browser : dash[b].page # Blank}} :
          v \in S
    BY ViewsKnown
  <2> QED BY <2>1, <2>2 DEF SameRevisionSameRows
<1> QED BY <1>1, Inductive, PTL

(* A heartbeat with the page's own sequence number hides no usage and no   *)
(* metadata that an ingest has marked.                                     *)
THEOREM HeartbeatHidesNothing == Spec => []SeqCovers
<1>1. IInv => SeqCovers
  <2> SUFFICES ASSUME NEW S, NEW T, NEW R, Known(S, T, R), NEW b \in Browser,
                      dash[b].page # Blank, dash[b].page.epoch = hub.epoch,
                      dash[b].page.seq = hub.seq, marking = "no"
               PROVE  \A i \in dash[b].page.led + 1..Len(ledger) :
                        ledger[i].kind \notin {"usage", "metadata"}
    BY DEF IInv, SeqCovers
  <2>1. dash[b].page \in S
    BY ViewsKnown
  <2>2. Good(dash[b].page)
    BY <2>1 DEF Known, Issued
  <2> QED BY <2>2 DEF Good, Covers
<1> QED BY <1>1, Inductive, PTL

(* A late answer for a range that was left is turned away.                 *)
THEOREM LateAnswerTurnedAway == Spec => RangeChosen
<1>1. Spec => Init /\ [][Next]_vars
  BY DEF Spec
<1>2. IInv /\ [Next]_vars =>
        [\A b \in Browser :
           LET p == dash'[b].page
           IN  (/\ p # Blank /\ p # dash[b].page
                /\ dash[b].page # Blank => dash[b].page.key[1] # p.key[1])
                 => p.key[1] = dash'[b].query]_vars
  BY StepOK DEF Chosen
<1> QED BY <1>1, <1>2, Inductive, PTL DEF RangeChosen

(* Every number on a page is one of the ledger: usage and metadata are     *)
(* what a full reading of some part of the ledger over some window gives,  *)
(* and what renames and activities changed is that of the same moment or   *)
(* an earlier one.                                                         *)
PageExact ==
  \A b \in Browser :
    LET p == dash[b].page
    IN  p # Blank =>
          /\ p.led <= Len(ledger)
          /\ \E shown \in Promise!Older(p.led) :
               p.rows = Promise!Rows(p.led, shown, p.start, p.end)

(* So it is for every page, after any restarts and losses.                 *)
THEOREM PagesAreReadings == Spec => []PageExact
<1>1. IInv => PageExact
  <2> SUFFICES ASSUME NEW S, NEW T, NEW R, Known(S, T, R) PROVE PageExact
    BY DEF IInv
  <2>1. \A v \in S :
          /\ v.led <= Len(ledger)
          /\ \E shown \in Promise!Older(v.led) :
               v.rows = Promise!Rows(v.led, shown, v.start, v.end)
    BY DEF Known, Issued, Good, Exact
  <2> QED BY <2>1, ViewsKnown DEF PageExact
<1> QED BY <1>1, Inductive, PTL

=============================================================================
