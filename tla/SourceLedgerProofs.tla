------------------------- MODULE SourceLedgerProofs -------------------------
(***************************************************************************)
(* What is proved of the accounting for any number of files, any forest of *)
(* forks and any amount of use: the state keeps its type, and no file is   *)
(* ever charged more than was used in it.                                  *)
(***************************************************************************)
EXTENDS SourceLedger, FiniteSetTheorems, SequenceTheorems, WellFoundedInduction,
        TLAPS

-----------------------------------------------------------------------------
(* Types.                                                                  *)

(* The last total of a file is a number.                                   *)
LEMMA LastTotalType ==
  ASSUME TypeOK, NEW s \in Source
  PROVE  LastTotal(s) \in Nat
<1>1. log[s] \in Seq(Line)
  BY DEF TypeOK
<1>2. CASE log[s] = <<>>
  BY <1>2 DEF LastTotal
<1>3. CASE log[s] # <<>>
  <2>1. Len(log[s]) \in 1..Len(log[s])
    BY <1>1, <1>3, EmptySeq
  <2>2. log[s][Len(log[s])] \in Line
    BY <1>1, <2>1, ElementOfSeq
  <2> QED BY <1>3, <2>2 DEF LastTotal, Line
<1> QED BY <1>2, <1>3

(* A line is written: it ends the file.                                    *)
WriteStep(s, total, used, line) ==
  /\ line.total = total /\ line.at = spent[s] + used
  /\ log' = [log EXCEPT ![s] = Append(log[s], line)]
  /\ spent' = [spent EXCEPT ![s] = spent[s] + used]
  /\ turn' = [turn EXCEPT ![s] = IF line.turn = 0 THEN turn[s] ELSE line.turn]
  /\ line.turn \in {0, turn[s] + 1} /\ (line.turn = 0 => TurnOptional(s, total))
  /\ UNCHANGED <<erased, gone, row, firstPass, base, queue, source, conv, keys, counted>>

(* That is what writing does.                                              *)
LEMMA WriteEffect ==
  ASSUME TypeOK, NEW s \in Source, NEW total \in Nat, NEW used \in Nat,
         WriteLine(s, total, used)
  PROVE  \E line \in Line : WriteStep(s, total, used, line)
<1>1. PICK name \in {"same", "main", "derived"}, t \in {0, turn[s] + 1} :
        /\ log' = [log EXCEPT ![s] = Append(log[s],
                     [total |-> total, conv |-> name, turn |-> t,
                      at |-> spent[s] + used])]
        /\ turn' = [turn EXCEPT ![s] = IF t = 0 THEN turn[s] ELSE t]
        /\ t = 0 => TurnOptional(s, total)
  <2>1. PICK name \in IF Naming = "never" THEN {"same"} ELSE {"same", "main", "derived"},
             t \in IF Turns THEN {0, turn[s] + 1} ELSE {0} :
          /\ log' = [log EXCEPT ![s] = Append(log[s],
                       [total |-> total, conv |-> name, turn |-> t,
                        at |-> spent[s] + used])]
          /\ turn' = [turn EXCEPT ![s] = IF t = 0 THEN turn[s] ELSE t]
          /\ t = 0 => TurnOptional(s, total)
    BY DEF WriteLine
  <2> QED BY <2>1
<1> DEFINE line == [total |-> total, conv |-> name, turn |-> t,
                    at |-> spent[s] + used]
<1>2. turn[s] \in Nat /\ spent[s] \in Nat /\ turn \in [Source -> Nat]
  BY DEF TypeOK
<1>3. t \in Nat /\ spent[s] + used \in Nat
  BY <1>2
<1>4. line \in Line
  BY <1>3 DEF Line
<1>5. /\ turn' = [turn EXCEPT ![s] = IF line.turn = 0 THEN turn[s] ELSE line.turn]
      /\ line.turn \in {0, turn[s] + 1} /\ (line.turn = 0 => TurnOptional(s, total))
  BY <1>1
<1>6. /\ spent' = [spent EXCEPT ![s] = spent[s] + used]
      /\ UNCHANGED <<erased, gone, row, firstPass, base, queue,
                     source, conv, keys, counted>>
  BY DEF WriteLine, agent, server
<1>7. line.total = total /\ line.at = spent[s] + used
  OBVIOUS
<1>8. WriteStep(s, total, used, line)
  BY <1>1, <1>5, <1>6, <1>7 DEF WriteStep
<1> QED BY <1>4, <1>8

(* Writing keeps the types.                                                *)
LEMMA WriteType ==
  ASSUME TypeOK, NEW s \in Source, NEW total \in Nat, NEW used \in Nat,
         WriteLine(s, total, used)
  PROVE  TypeOK'
<1>1. PICK line \in Line : WriteStep(s, total, used, line)
  BY WriteEffect
<1>2. Append(log[s], line) \in Seq(Line)
  BY AppendProperties DEF TypeOK
<1>3. log' \in [Source -> Seq(Line)]
  BY <1>1, <1>2 DEF TypeOK, WriteStep
<1>4. spent' \in [Source -> Nat] /\ turn' \in [Source -> Nat]
  BY <1>1 DEF TypeOK, WriteStep, Line
<1> QED BY <1>1, <1>3, <1>4 DEF TypeOK, WriteStep

(* Use, Fork and Restart write a line with the total and the use they say. *)
LEMMA Writers ==
  ASSUME TypeOK, NEW s \in Source, Use(s) \/ Fork(s) \/ Restart(s)
  PROVE  \E d \in Nat :
           \/ /\ log[s] # <<>> \/ Parent[s] = NoParent \/ erased[s] > 0
              /\ WriteLine(s, LastTotal(s) + d, d)
           \/ /\ Fork(s)
              /\ \/ LastTotal(Parent[s]) \in Nat /\ WriteLine(s, LastTotal(Parent[s]) + d, d)
                 \/ WriteLine(s, d, d)
           \/ d < LastTotal(s) /\ WriteLine(s, d, d)
<1>1. Delta \subseteq Nat
  BY LedgerAssumption
<1>2. CASE Use(s)
  <2>1. PICK d \in Delta : WriteLine(s, LastTotal(s) + d, d)
    BY <1>2 DEF Use
  <2> QED BY <1>1, <1>2, <2>1 DEF Use
<1>3. CASE Fork(s)
  <2>1. PICK d \in Delta : \/ WriteLine(s, LastTotal(Parent[s]) + d, d)
                           \/ WriteLine(s, d, d)
    BY <1>3 DEF Fork
  <2>2. Parent[s] \in Source
    BY <1>3, LedgerAssumption DEF Fork
  <2>3. LastTotal(Parent[s]) \in Nat
    BY <2>2, LastTotalType
  <2> QED BY <1>1, <1>3, <2>1, <2>3
<1>4. CASE Restart(s)
  <2>1. PICK d \in Delta : d < LastTotal(s) /\ WriteLine(s, d, d)
    BY <1>4 DEF Restart
  <2> QED BY <1>1, <2>1
<1> QED BY <1>2, <1>3, <1>4

(* Codex writes a line.                                                    *)
LEMMA WritersType ==
  ASSUME TypeOK, NEW s \in Source, Use(s) \/ Fork(s) \/ Restart(s)
  PROVE  TypeOK'
<1>1. LastTotal(s) \in Nat
  BY LastTotalType
<1>2. PICK d \in Nat :
           \/ WriteLine(s, LastTotal(s) + d, d)
           \/ LastTotal(Parent[s]) \in Nat /\ WriteLine(s, LastTotal(Parent[s]) + d, d)
           \/ WriteLine(s, d, d)
  BY Writers
<1>3. CASE WriteLine(s, LastTotal(s) + d, d)
  <2>1. LastTotal(s) + d \in Nat
    BY <1>1
  <2> QED BY <1>3, <2>1, WriteType
<1>4. CASE LastTotal(Parent[s]) \in Nat /\ WriteLine(s, LastTotal(Parent[s]) + d, d)
  <2>1. LastTotal(Parent[s]) + d \in Nat
    BY <1>4
  <2> QED BY <1>4, <2>1, WriteType
<1>5. CASE WriteLine(s, d, d)
  BY <1>5, WriteType
<1> QED BY <1>2, <1>3, <1>4, <1>5

(* A file is replaced.                                                     *)
LEMMA RewriteType ==
  ASSUME TypeOK, NEW s \in Source, Rewrite(s)
  PROVE  TypeOK'
<1>1. <<>> \in Seq(Line) /\ Len(log[s]) \in Nat
  BY EmptySeq, LenProperties DEF TypeOK
<1>2. log' \in [Source -> Seq(Line)]
  BY <1>1 DEF Rewrite, TypeOK
<1>3. erased' \in [Source -> Nat]
  <2>1. erased[s] + Len(log[s]) \in Nat
    BY <1>1 DEF TypeOK
  <2> QED BY <2>1 DEF Rewrite, TypeOK
<1>4. gone' \in [Source -> Nat]
  BY DEF Rewrite, TypeOK
<1> QED BY <1>2, <1>3, <1>4 DEF Rewrite, TypeOK, agent, server

-----------------------------------------------------------------------------
(* The agent.                                                              *)

(* A conversation of a file.                                               *)
LEMMA Conversations ==
  ASSUME NEW s \in Source
  PROVE  /\ Main(s) \in Conversation
         /\ \A name \in {"main", "derived"} : <<s, name>> \in Conversation
BY DEF Main, Conversation

(* Where a scan begins, field by field.                                    *)
LEMMA BeginFields ==
  ASSUME TypeOK, NEW s \in Source
  PROVE  /\ Begin(s) \in Row
         /\ row[s] # NoRow => row[s] \in Row
         /\ row[s] = NoRow => /\ Begin(s).offset = 0 /\ Begin(s).gen = 0
                              /\ Begin(s).init = FALSE /\ Begin(s).turn = 0
                              /\ Begin(s).first = 1
         /\ row[s] # NoRow /\ Len(log[s]) < row[s].offset =>
              /\ Begin(s).offset = 0 /\ Begin(s).gen = row[s].gen + 1
              /\ Begin(s).init = FALSE /\ Begin(s).turn = row[s].turn
              /\ Begin(s).first = 1
         /\ row[s] # NoRow /\ ~(Len(log[s]) < row[s].offset) => Begin(s) = row[s]
<1>1. /\ row[s] \in Row \cup {NoRow} /\ Main(s) \in Conversation
      /\ row[s] # NoRow => row[s] \in Row
  BY Conversations DEF TypeOK
<1>2. CASE row[s] = NoRow
  BY <1>1, <1>2 DEF Begin, Row
<1>3. CASE row[s] # NoRow /\ Len(log[s]) < row[s].offset
  <2> DEFINE r == row[s]
  <2>1. r \in Row
    BY <1>1, <1>3
  <2>2. Begin(s) = [r EXCEPT !.offset = 0, !.gen = r.gen + 1, !.last = 0,
                             !.init = FALSE, !.first = 1]
    BY <1>3 DEF Begin
  <2> HIDE DEF r
  <2>3. /\ r = [offset |-> r.offset, gen |-> r.gen, last |-> r.last, init |-> r.init,
                conv |-> r.conv, turn |-> r.turn, first |-> r.first]
        /\ r.gen + 1 \in Nat /\ r.conv \in Conversation /\ r.turn \in Nat
    BY <2>1 DEF Row
  <2>4. Begin(s) = [offset |-> 0, gen |-> r.gen + 1, last |-> 0, init |-> FALSE,
                    conv |-> r.conv, turn |-> r.turn, first |-> 1]
    BY <2>2, <2>3
  <2>5. Begin(s) \in Row
    BY <2>3, <2>4 DEF Row
  <2> QED BY <1>1, <1>3, <2>4, <2>5 DEF r
<1>4. CASE row[s] # NoRow /\ ~(Len(log[s]) < row[s].offset)
  BY <1>1, <1>4 DEF Begin
<1> QED BY <1>1, <1>2, <1>3, <1>4

(* The row after a line was read, field by field.                          *)
LEMMA ReadFields ==
  ASSUME NEW s \in Source, NEW r \in Row, NEW line \in Line
  PROVE  /\ Read(s, r, line) \in Row
         /\ Read(s, r, line).offset = r.offset + 1
         /\ Read(s, r, line).gen = IF r.init /\ line.total < r.last THEN r.gen + 1 ELSE r.gen
         /\ Read(s, r, line).last = line.total
         /\ Read(s, r, line).init = TRUE
         /\ Read(s, r, line).turn = IF line.turn = 0 THEN r.turn ELSE line.turn
         /\ Read(s, r, line).first = r.first
         /\ r.conv[1] = s => Read(s, r, line).conv[1] = s
<1> DEFINE gen  == IF r.init /\ line.total < r.last THEN r.gen + 1 ELSE r.gen
           name == ConvOf(s, line.conv, r.conv)
           t    == IF line.turn = 0 THEN r.turn ELSE line.turn
<1>1. /\ r = [offset |-> r.offset, gen |-> r.gen, last |-> r.last, init |-> r.init,
              conv |-> r.conv, turn |-> r.turn, first |-> r.first]
      /\ r.offset + 1 \in Nat /\ r.gen \in Nat /\ r.gen + 1 \in Nat
      /\ r.conv \in Conversation /\ r.turn \in Nat /\ r.first \in Nat
  BY DEF Row
<1>2. line.total \in Nat /\ line.turn \in Nat /\ line.conv \in {"same", "main", "derived"}
  BY DEF Line
<1>3. gen \in Nat /\ t \in Nat
  BY <1>1, <1>2
<1>4. name \in Conversation
  BY <1>1, <1>2, Conversations DEF ConvOf
<1>5. r.conv[1] = s => name[1] = s
  BY <1>2 DEF ConvOf
<1>6. Read(s, r, line) = [r EXCEPT !.offset = r.offset + 1, !.gen = gen,
                                   !.last = line.total, !.init = TRUE,
                                   !.conv = name, !.turn = t]
  BY DEF Read
<1> HIDE DEF gen, name, t
<1>7. Read(s, r, line) = [offset |-> r.offset + 1, gen |-> gen, last |-> line.total,
                          init |-> TRUE, conv |-> name, turn |-> t, first |-> r.first]
  BY <1>1, <1>6
<1>8. Read(s, r, line) \in Row
  BY <1>1, <1>2, <1>3, <1>4, <1>7 DEF Row
<1> QED BY <1>5, <1>7, <1>8 DEF gen, t

-----------------------------------------------------------------------------
(* Least and greatest numbers.                                             *)

Less == {ss \in Nat \X Nat : ss[1] < ss[2]}

(* A set of natural numbers has a least one.                               *)
LEMMA Least ==
  ASSUME NEW T \in SUBSET Nat, T # {}
  PROVE  \E m \in T : \A n \in T : m <= n
<1>1. IsWellFoundedOn(Less, Nat)
  <2>1. OpToRel(<, Nat) = Less
    BY DEF OpToRel, Less
  <2> QED BY <2>1, NatLessThanWellFounded
<1>2. PICK x \in T : \A y \in T : ~(<<y, x>> \in Less)
  <2>1. T \subseteq Nat
    OBVIOUS
  <2> QED BY <1>1, <2>1, WFMin
<1>3. ASSUME NEW y \in T PROVE x <= y
  <2>1. x \in Nat /\ y \in Nat
    OBVIOUS
  <2>2. ~(y < x)
    <3> SUFFICES ASSUME y < x PROVE FALSE
      OBVIOUS
    <3>1. <<y, x>> \in Nat \X Nat /\ <<y, x>>[1] = y /\ <<y, x>>[2] = x
      BY <2>1
    <3>2. <<y, x>> \in Less
      BY <3>1 DEF Less
    <3> QED BY <3>2, <1>2
  <2> QED BY <2>1, <2>2
<1> QED BY <1>3

(* A set of numbers up to k has a greatest one.                            *)
LEMMA Greatest ==
  ASSUME NEW k \in Nat, NEW S \in SUBSET (1..k), S # {}
  PROVE  \E m \in S : \A n \in S : n <= m
<1> DEFINE T == {i \in Nat : k - i \in S}
<1>1. ASSUME NEW n \in S PROVE k - n \in T
  <2>1. k - n \in Nat /\ k - (k - n) = n
    OBVIOUS
  <2> QED BY <2>1
<1>2. T # {} /\ T \in SUBSET Nat
  BY <1>1
<1>3. PICK i \in T : \A j \in T : i <= j
  BY <1>2, Least
<1>4. k - i \in S /\ i \in Nat
  BY <1>3
<1>5. ASSUME NEW n \in S PROVE n <= k - i
  <2>1. i <= k - n
    BY <1>1, <1>3
  <2> QED BY <2>1, <1>4
<1> QED BY <1>4, <1>5

(* A line names a conversation of its file.                                *)
LEMMA ConvAtType ==
  ASSUME TypeOK, NEW s \in Source, NEW k \in 1..Len(log[s])
  PROVE  /\ ConvAt(s, k) \in Conversation
         /\ ConvAt(s, k)[1] = s
<1> DEFINE named == {j \in 1..k : log[s][j].conv # "same"}
           last  == CHOOSE j \in named : \A i \in named : i <= j
<1>1. CASE named = {} \/ Naming # "in usage lines"
  <2>1. ConvAt(s, k) = Main(s)
    BY <1>1 DEF ConvAt
  <2>2. Main(s)[1] = s
    BY DEF Main
  <2>3. Main(s) \in Conversation
    BY Conversations
  <2> QED BY <2>1, <2>2, <2>3
<1>2. CASE ~(named = {} \/ Naming # "in usage lines")
  <2>1. ConvAt(s, k) = <<s, log[s][last].conv>>
    BY <1>2 DEF ConvAt
  <2>2. named \in SUBSET (1..k) /\ k \in Nat
    OBVIOUS
  <2>3. \E j \in named : \A i \in named : i <= j
    <3> HIDE DEF named
    <3> QED BY <1>2, <2>2, Greatest
  <2>4. last \in named
    <3> HIDE DEF named
    <3> QED BY <2>3
  <2>5. last \in 1..Len(log[s]) /\ log[s][last].conv # "same"
    <3> HIDE DEF last
    <3> QED BY <2>4, LenProperties DEF TypeOK
  <2>6. log[s][last] \in Line
    <3> HIDE DEF last
    <3> QED BY <2>5, ElementOfSeq DEF TypeOK
  <2>7. log[s][last].conv \in {"main", "derived"}
    <3> HIDE DEF last
    <3> QED BY <2>5, <2>6 DEF Line
  <2> HIDE DEF last
  <2> DEFINE name == log[s][last].conv
  <2>8. name \in {"main", "derived"} /\ ConvAt(s, k) = <<s, name>>
    BY <2>1, <2>7
  <2> HIDE DEF name
  <2>9. <<s, name>> \in Conversation /\ <<s, name>>[1] = s
    BY <2>8, Conversations
  <2> QED BY <2>8, <2>9
<1> QED BY <1>1, <1>2

-----------------------------------------------------------------------------
(* What the agent's actions do.                                            *)

(* The baseline of a file: an event each for some of its lines, the last   *)
(* one among them.                                                         *)
LEMMA BaselineSet ==
  ASSUME TypeOK, NEW s \in Source
  PROVE  /\ IsFiniteSet(BaselineEvents(s))
         /\ BaselineEvents(s) \subseteq Event
         /\ \A e \in BaselineEvents(s) : /\ e.type = "baseline" /\ e.src = s
                                         /\ e.conv[1] = s /\ e.epoch = 0
         /\ log[s] = <<>> => BaselineEvents(s) = {}
         /\ log[s] # <<>> => \E e \in BaselineEvents(s) : e.total = LastTotal(s)
<1> DEFINE n == Len(log[s])
           K == {j \in 1..n : \A i \in 1..n : i > j => ConvAt(s, i) # ConvAt(s, j)}
           E(k) == [type |-> "baseline", src |-> s, conv |-> ConvAt(s, k), turn |-> 0,
                    epoch |-> 0, total |-> log[s][k].total, at |-> log[s][k].at]
           S == {E(k) : k \in K}
           f == [k \in K |-> E(k)]
<1>1. n \in Nat /\ (log[s] # <<>> => n \in 1..n)
  BY EmptySeq, LenProperties DEF TypeOK
<1>2. S = BaselineEvents(s)
  BY DEF BaselineEvents
<1>3. ASSUME NEW k \in 1..n
      PROVE  E(k) \in Event /\ E(k).conv[1] = s
  <2>1. log[s][k] \in Line
    BY <1>1, ElementOfSeq DEF TypeOK
  <2>2. ConvAt(s, k) \in Conversation /\ ConvAt(s, k)[1] = s
    BY ConvAtType
  <2>3. log[s][k].total \in Nat /\ log[s][k].at \in Nat
    BY <2>1 DEF Line
  <2> QED BY <2>2, <2>3 DEF Event
<1>4. IsFiniteSet(S)
  <2>1. IsFiniteSet(K)
    <3>1. IsFiniteSet(1..n)
      BY <1>1, FS_Interval
    <3>2. K \in SUBSET (1..n)
      OBVIOUS
    <3> HIDE DEF K, n
    <3> QED BY <3>1, <3>2, FS_Subset
  <2>2. f \in Surjection(K, S)
    <3> HIDE DEF K, E
    <3> QED BY DEF Surjection
  <2> HIDE DEF K, S, f
  <2> QED BY <2>1, <2>2, FS_Surjection
<1>5. S \subseteq Event
  <2> HIDE DEF E, n
  <2> QED BY <1>3
<1>6. \A e \in S : e.type = "baseline" /\ e.src = s /\ e.conv[1] = s /\ e.epoch = 0
  <2> TAKE e \in S
  <2>1. PICK k \in K : e = E(k)
    OBVIOUS
  <2>2. k \in 1..n
    OBVIOUS
  <2>3. E(k).conv[1] = s
    BY <1>3, <2>2
  <2>4. E(k).type = "baseline" /\ E(k).src = s /\ E(k).epoch = 0
    OBVIOUS
  <2> HIDE DEF E
  <2> QED BY <2>1, <2>3, <2>4
<1>7. log[s] = <<>> => S = {}
  <2>1. log[s] = <<>> => n = 0
    BY EmptySeq
  <2>2. n = 0 => K = {}
    OBVIOUS
  <2> HIDE DEF n, K, E
  <2> QED BY <2>1, <2>2
<1>8. log[s] # <<>> => \E e \in S : e.total = LastTotal(s)
  <2> SUFFICES ASSUME log[s] # <<>> PROVE \E e \in S : e.total = LastTotal(s)
    OBVIOUS
  <2>1. n \in K
    BY <1>1
  <2>2. E(n).total = LastTotal(s)
    BY DEF LastTotal
  <2> HIDE DEF n, K, E
  <2> QED BY <2>1, <2>2
<1> HIDE DEF S
<1> QED BY <1>2, <1>4, <1>5, <1>6, <1>7, <1>8

(* A baseline: the row begins in the file, its events join the queue.      *)
BaselineStep(s, r, events) ==
  /\ row[s] = NoRow /\ firstPass
  /\ r.offset \in 0..Len(log[s])
  /\ \A k \in 2..Len(log[s]) :
       k > r.offset => log[s][k].total >= log[s][k - 1].total
  /\ row' = [row EXCEPT ![s] = r]
  /\ r.gen = 0 /\ r.init = FALSE /\ r.conv[1] = s
  /\ r.turn = 0 /\ r.first = r.offset + 1
  /\ queue' = queue \o events
  /\ \A i \in 1..Len(events) :
       /\ events[i] \in BaselineEvents(s)
       /\ events[i].type = "baseline" /\ events[i].src = s
       /\ events[i].conv[1] = s /\ events[i].epoch = 0
  /\ log[s] = <<>> => Len(events) = 0
  /\ log[s] # <<>> =>
       \E i \in 1..Len(events) : events[i].total = LastTotal(s)
  /\ base' = [base EXCEPT ![s] = spent[s]]
  /\ UNCHANGED <<codex, firstPass, server>>

(* That is what it does.                                                   *)
LEMMA BaselineEffect ==
  ASSUME TypeOK, NEW s \in Source, Baseline(s)
  PROVE  \E r \in Row, events \in Seq(Event) : BaselineStep(s, r, events)
<1> DEFINE S == BaselineEvents(s)
<1>1. PICK size \in 0..Len(log[s]) :
           /\ \A k \in 2..Len(log[s]) :
                k > size => log[s][k].total >= log[s][k - 1].total
           /\ row' = [row EXCEPT ![s] =
                    [offset |-> size, gen |-> 0, last |-> 0, init |-> FALSE,
                     conv |-> Main(s), turn |-> 0, first |-> size + 1]]
  BY DEF Baseline
<1> DEFINE r == [offset |-> size, gen |-> 0, last |-> 0, init |-> FALSE,
                 conv |-> Main(s), turn |-> 0, first |-> size + 1]
<1>2. r \in Row
  <2>1. size \in Nat /\ size + 1 \in Nat
    BY LenProperties DEF TypeOK
  <2> QED BY <2>1, Conversations DEF Row
<1>3. PICK events \in Orders(S) : queue' = queue \o events
  BY DEF Baseline
<1>4. /\ IsFiniteSet(S) /\ S \subseteq Event
      /\ \A e \in S : /\ e.type = "baseline" /\ e.src = s
                      /\ e.conv[1] = s /\ e.epoch = 0
      /\ log[s] = <<>> => S = {}
      /\ log[s] # <<>> => \E e \in S : e.total = LastTotal(s)
  BY BaselineSet
<1> HIDE DEF S
<1> DEFINE m == Cardinality(S)
<1>5. m \in Nat /\ (S = {} => m = 0)
  BY <1>4, FS_CardinalityType, FS_EmptySet
<1>6. events \in [1..m -> S] /\ \A e \in S : \E i \in DOMAIN events : events[i] = e
  BY DEF Orders
<1> HIDE DEF m
<1>7. events \in Seq(S) /\ events \in Seq(Event) /\ Len(events) = m
  <2>1. events \in [1..m -> Event]
    BY <1>4, <1>6
  <2>2. Len(events) = m
    BY <1>5, <1>6
  <2>3. events \in Seq(Event) /\ events \in Seq(S)
    BY <1>5, <1>6, <2>1, SeqDef
  <2> QED BY <2>2, <2>3
<1>8. \A i \in 1..Len(events) :
                /\ events[i] \in S
                /\ events[i].type = "baseline" /\ events[i].src = s
                /\ events[i].conv[1] = s /\ events[i].epoch = 0
  <2> TAKE i \in 1..Len(events)
  <2>1. events[i] \in S
    BY <1>6, <1>7
  <2> QED BY <1>4, <2>1
<1>9. log[s] = <<>> => Len(events) = 0
  BY <1>4, <1>5, <1>7
<1>10. log[s] # <<>> => \E i \in 1..Len(events) : events[i].total = LastTotal(s)
  <2> SUFFICES ASSUME log[s] # <<>>
               PROVE  \E i \in 1..Len(events) : events[i].total = LastTotal(s)
    OBVIOUS
  <2>1. PICK e \in S : e.total = LastTotal(s)
    BY <1>4
  <2>2. PICK i \in DOMAIN events : events[i] = e
    BY <1>6
  <2>3. i \in 1..Len(events)
    BY <1>6, <1>7
  <2> QED BY <2>1, <2>2, <2>3
<1>11. /\ row[s] = NoRow /\ firstPass /\ base' = [base EXCEPT ![s] = spent[s]]
       /\ UNCHANGED <<codex, firstPass, server>>
  BY DEF Baseline
<1>12. /\ row' = [row EXCEPT ![s] = r] /\ r.offset = size /\ r.gen = 0
       /\ r.init = FALSE /\ r.conv[1] = s
       /\ r.turn = 0 /\ r.first = r.offset + 1
  BY <1>1 DEF Main
<1> HIDE DEF r
<1>13. BaselineStep(s, r, events)
  BY <1>1, <1>3, <1>8, <1>9, <1>10, <1>11, <1>12 DEF S, BaselineStep
<1> QED BY <1>2, <1>7, <1>13

(* A baseline keeps the types.                                             *)
LEMMA BaselineType ==
  ASSUME TypeOK, NEW s \in Source, Baseline(s)
  PROVE  TypeOK'
<1>1. PICK r \in Row, events \in Seq(Event) : BaselineStep(s, r, events)
  BY BaselineEffect
<1>2. queue' \in Seq(Event)
  BY <1>1, ConcatProperties DEF TypeOK, BaselineStep
<1>3. row' \in [Source -> Row \cup {NoRow}] /\ base' \in [Source -> Nat]
  BY <1>1 DEF TypeOK, BaselineStep
<1> QED BY <1>1, <1>2, <1>3 DEF TypeOK, BaselineStep, codex, server

(* Reading the next line k: the row after it, and the event it becomes.    *)
ScanStep(s, r, e) ==
  LET b == Begin(s)
      k == b.offset + 1
  IN  /\ k \in 1..Len(log[s])
      /\ r.offset = k
      /\ r.gen = IF b.init /\ log[s][k].total < b.last THEN b.gen + 1 ELSE b.gen
      /\ r.last = log[s][k].total
      /\ r.init = TRUE /\ r.first = b.first
      /\ r.turn = IF log[s][k].turn = 0 THEN b.turn ELSE log[s][k].turn
      /\ b.conv[1] = s => r.conv[1] = s
      /\ e.type = "exact" /\ e.src = s /\ e.conv = r.conv
      /\ e.epoch = r.gen /\ e.total = log[s][k].total /\ e.at = log[s][k].at
      /\ e.turn = r.turn
      /\ row[s] # NoRow \/ ~firstPass
      /\ row' = [row EXCEPT ![s] = r]
      /\ queue' = Append(queue, e)
      /\ UNCHANGED <<codex, firstPass, base, server>>

(* That is what a scan does.                                               *)
LEMMA ScanEffect ==
  ASSUME TypeOK, NEW s \in Source, Scan(s)
  PROVE  \E r \in Row, e \in Event : ScanStep(s, r, e)
<1> DEFINE b == Begin(s)
           line == log[s][b.offset + 1]
           r == Read(s, b, line)
           e == [type |-> "exact", src |-> s, conv |-> r.conv, turn |-> r.turn,
                 epoch |-> r.gen, total |-> r.last, at |-> line.at]
<1>1. b \in Row
  BY BeginFields
<1>2. b.offset + 1 \in 1..Len(log[s])
  <2>1. b.offset \in Nat /\ Len(log[s]) \in Nat
    BY <1>1, LenProperties DEF Row, TypeOK
  <2>2. b.offset < Len(log[s])
    BY DEF Scan
  <2> QED BY <2>1, <2>2
<1>3. line \in Line
  <2> HIDE DEF b
  <2> QED BY <1>2, ElementOfSeq DEF TypeOK
<1>4. /\ r \in Row
      /\ r.offset = b.offset + 1
      /\ r.gen = IF b.init /\ line.total < b.last THEN b.gen + 1 ELSE b.gen
      /\ r.last = line.total
      /\ r.init = TRUE /\ r.first = b.first
      /\ r.turn = IF line.turn = 0 THEN b.turn ELSE line.turn
      /\ b.conv[1] = s => r.conv[1] = s
  <2> HIDE DEF b, line
  <2>1. /\ Read(s, b, line) \in Row
        /\ Read(s, b, line).offset = b.offset + 1
        /\ Read(s, b, line).gen = IF b.init /\ line.total < b.last THEN b.gen + 1 ELSE b.gen
        /\ Read(s, b, line).last = line.total
        /\ Read(s, b, line).init = TRUE
        /\ Read(s, b, line).turn = IF line.turn = 0 THEN b.turn ELSE line.turn
        /\ Read(s, b, line).first = b.first
        /\ b.conv[1] = s => Read(s, b, line).conv[1] = s
    BY <1>1, <1>3, ReadFields, ZenonT(40)
  <2> QED BY <2>1
<1>5. /\ row[s] # NoRow \/ ~firstPass
      /\ row' = [row EXCEPT ![s] = r]
      /\ queue' = Append(queue, e)
      /\ UNCHANGED <<codex, firstPass, base, server>>
  BY DEF Scan
<1>6. line.at \in Nat
  BY <1>3 DEF Line
<1> HIDE DEF r, line
<1>7. e \in Event
  BY <1>4, <1>6 DEF Row, Event
<1>8. /\ e.type = "exact" /\ e.src = s /\ e.conv = r.conv
      /\ e.epoch = r.gen /\ e.total = line.total /\ e.at = line.at
      /\ e.turn = r.turn
  BY <1>4
<1> HIDE DEF e
<1>9. ScanStep(s, r, e)
  BY <1>2, <1>4, <1>5, <1>8 DEF line, ScanStep
<1> QED BY <1>4, <1>7, <1>9

(* Reading a line keeps the types.                                         *)
LEMMA ScanType ==
  ASSUME TypeOK, NEW s \in Source, Scan(s)
  PROVE  TypeOK'
<1>1. PICK r \in Row, e \in Event : ScanStep(s, r, e)
  BY ScanEffect
<1>2. queue' \in Seq(Event)
  BY <1>1, AppendProperties DEF TypeOK, ScanStep
<1>3. row' \in [Source -> Row \cup {NoRow}]
  BY <1>1 DEF TypeOK, ScanStep
<1> QED BY <1>1, <1>2, <1>3 DEF TypeOK, ScanStep, codex, server

(* What a backfill makes of the row of a file.                             *)
LEMMA BackfillFields ==
  ASSUME TypeOK, Backfill, NEW s \in Source
  PROVE  /\ row[s] # NoRow =>
              /\ row'[s] \in Row /\ row'[s].offset = 0 /\ row'[s].gen = row[s].gen + 1
              /\ row'[s].init = FALSE /\ row'[s].conv = row[s].conv
              /\ row'[s].turn = row[s].turn /\ row'[s].first = 1
         /\ row[s] = NoRow =>
              row'[s] = IF log[s] # <<>> THEN Begin(s) ELSE NoRow
         /\ base'[s] = IF row'[s] = NoRow THEN base[s] ELSE gone[s]
<1> DEFINE r == row[s]
<1>1. /\ r # NoRow => row'[s] = [r EXCEPT !.offset = 0, !.gen = r.gen + 1, !.last = 0,
                                          !.init = FALSE, !.first = 1]
      /\ r = NoRow => row'[s] = IF log[s] # <<>> THEN Begin(s) ELSE NoRow
      /\ base'[s] = IF row'[s] = NoRow THEN base[s] ELSE gone[s]
  BY DEF Backfill
<1>2. r # NoRow => r \in Row
  BY BeginFields
<1> HIDE DEF r
<1>3. ASSUME r # NoRow
      PROVE  /\ row'[s] \in Row /\ row'[s].offset = 0 /\ row'[s].gen = r.gen + 1
             /\ row'[s].init = FALSE /\ row'[s].conv = r.conv
             /\ row'[s].turn = r.turn /\ row'[s].first = 1
  <2>1. /\ r = [offset |-> r.offset, gen |-> r.gen, last |-> r.last, init |-> r.init,
                conv |-> r.conv, turn |-> r.turn, first |-> r.first]
        /\ r.gen + 1 \in Nat /\ r.conv \in Conversation /\ r.turn \in Nat
    BY <1>2, <1>3 DEF Row
  <2>2. row'[s] = [offset |-> 0, gen |-> r.gen + 1, last |-> 0, init |-> FALSE,
                   conv |-> r.conv, turn |-> r.turn, first |-> 1]
    BY <1>1, <1>3, <2>1
  <2> QED BY <2>1, <2>2 DEF Row
<1> QED BY <1>1, <1>3 DEF r

(* The agent's other actions keep the types.                               *)
LEMMA AgentType ==
  ASSUME TypeOK, EndFirstPass \/ Backfill \/ \E s \in Source : Notice(s)
  PROVE  TypeOK'
<1>1. CASE EndFirstPass
  BY <1>1 DEF EndFirstPass, TypeOK, codex, server
<1>2. CASE Backfill
  <2>1. row' \in [Source -> Row \cup {NoRow}]
    <3>1. ASSUME NEW s \in Source PROVE row'[s] \in Row \cup {NoRow}
      BY <1>2, BackfillFields, BeginFields
    <3>2. DOMAIN row' = Source /\ row' = [s \in Source |-> row'[s]]
      BY <1>2 DEF Backfill
    <3> QED BY <3>1, <3>2
  <2>2. base' \in [Source -> Nat]
    <3>1. ASSUME NEW s \in Source PROVE base'[s] \in Nat
      BY <1>2, BackfillFields DEF TypeOK
    <3>2. DOMAIN base' = Source /\ base' = [s \in Source |-> base'[s]]
      BY <1>2 DEF Backfill
    <3> QED BY <3>1, <3>2
  <2>3. UNCHANGED <<codex, firstPass, queue, server>>
    BY <1>2 DEF Backfill
  <2> QED BY <2>1, <2>2, <2>3 DEF TypeOK, codex, server
<1>3. CASE \E s \in Source : Notice(s)
  <2>1. PICK s \in Source : Notice(s)
    BY <1>3
  <2>2. row' = [row EXCEPT ![s] = Begin(s)] /\ Begin(s) \in Row
    BY <2>1, BeginFields DEF Notice
  <2>3. row' \in [Source -> Row \cup {NoRow}]
    BY <2>2 DEF TypeOK
  <2> QED BY <2>1, <2>3 DEF Notice, TypeOK, codex, server
<1> QED BY <1>1, <1>2, <1>3

-----------------------------------------------------------------------------
(* The server.                                                             *)

(* The event at the head of the queue.                                     *)
LEMMA HeadType ==
  ASSUME TypeOK, queue # <<>>
  PROVE  /\ Head(queue) \in Event /\ Tail(queue) \in Seq(Event)
         /\ Len(queue) \in Nat /\ Len(Tail(queue)) = Len(queue) - 1
         /\ Head(queue) = queue[1]
         /\ \A i \in 1..Len(queue) - 1 : Tail(queue)[i] = queue[i + 1]
<1>1. queue \in Seq(Event)
  BY DEF TypeOK
<1> QED BY <1>1, HeadTailProperties, LenProperties

(* What an event is compared with is a counter.                            *)
LEMMA OldType ==
  ASSUME TypeOK, NEW e \in Event
  PROVE  /\ Old(e) \in Counter
         /\ source[e.src] # NoCounter => Old(e) = source[e.src]
<1>1. e.src \in Source /\ e.conv \in Conversation
  BY DEF Event
<1>2. ParentConv(e) \in Conversation
  <2>1. Parent[e.src] # NoParent => Parent[e.src] \in Source
    BY <1>1, LedgerAssumption
  <2> QED BY <1>1, <2>1, Conversations DEF ParentConv
<1>3. /\ source[e.src] \in Counter \cup {NoCounter}
      /\ conv[e.conv] \in Counter \cup {NoCounter}
      /\ conv[ParentConv(e)] \in Counter \cup {NoCounter}
  BY <1>1, <1>2 DEF TypeOK
<1>4. conv[ParentConv(e)].total \in Nat
  BY <1>3 DEF Counter, NoCounter
<1>5. CASE source[e.src] # NoCounter
  BY <1>3, <1>5 DEF Old
<1>6. CASE source[e.src] = NoCounter /\ conv[e.conv] # NoCounter
  BY <1>3, <1>6 DEF Old
<1>7. CASE source[e.src] = NoCounter /\ conv[e.conv] = NoCounter
  <2>1. Old(e) = [epoch |-> 0,
                  total |-> IF HasParent(e) THEN conv[ParentConv(e)].total ELSE 0]
    BY <1>7 DEF Old
  <2> QED BY <1>4, <1>7, <2>1 DEF Counter
<1> QED BY <1>5, <1>6, <1>7

(* What an exact event that is not a duplicate does.                       *)
LEMMA ExactEffect ==
  ASSUME TypeOK, NEW e \in Event, ApplyExact(e), DedupKey(e) \notin keys
  PROVE  /\ DeltaCounts(e) \in Nat
         /\ keys' = keys \cup {DedupKey(e)}
         /\ counted' = [counted EXCEPT ![e.src] = counted[e.src] + DeltaCounts(e)]
         /\ \E c \in Counter : conv' = [conv EXCEPT ![e.conv] = c]
         /\ source' = IF \/ source[e.src] = NoCounter \/ Reset(e)
                         \/ e.total > Old(e).total
                        THEN [source EXCEPT ![e.src] = [epoch |-> e.epoch,
                                                        total |-> e.total]]
                        ELSE source
<1>1. e.src \in Source /\ e.conv \in Conversation /\ e.total \in Nat /\ e.epoch \in Nat
  BY DEF Event
<1>2. Old(e).epoch \in Nat /\ Old(e).total \in Nat
  BY OldType DEF Counter
<1>3. DeltaCounts(e) \in Nat
  BY <1>1, <1>2 DEF DeltaCounts
<1> DEFINE c == [epoch |-> Old(e).epoch + IF Reset(e) THEN 1 ELSE 0,
                 total |-> e.total]
<1>4. c \in Counter
  BY <1>1, <1>2 DEF Counter
<1>5. conv' = [conv EXCEPT ![e.conv] = c]
  BY DEF ApplyExact
<1> HIDE DEF c
<1>6. \E d \in Counter : conv' = [conv EXCEPT ![e.conv] = d]
  BY <1>4, <1>5
<1> QED BY <1>3, <1>6 DEF ApplyExact

(* What a baseline does.                                                   *)
LEMMA BaselineApplied ==
  ASSUME TypeOK, NEW e \in Event, ApplyBaseline(e)
  PROVE  /\ \E c \in Counter : conv' = [conv EXCEPT ![e.conv] = c]
         /\ \E w \in Counter :
              /\ source' = [source EXCEPT ![e.src] = w]
              /\ source[e.src] = NoCounter => w = [epoch |-> e.epoch, total |-> e.total]
              /\ source[e.src] # NoCounter =>
                   /\ w.epoch >= e.epoch /\ w.epoch >= source[e.src].epoch
                   /\ w.total >= source[e.src].total \/ e.epoch > source[e.src].epoch
                   /\ w.total >= e.total
         /\ UNCHANGED <<keys, counted>>
<1> DEFINE c == [epoch |-> IF conv[e.conv] = NoCounter THEN 0 ELSE conv[e.conv].epoch,
                 total |-> e.total]
           old == source[e.src]
           w == IF old = NoCounter THEN [epoch |-> e.epoch, total |-> e.total]
                ELSE [epoch |-> IF e.epoch > old.epoch THEN e.epoch ELSE old.epoch,
                      total |-> IF e.total > old.total \/ e.epoch > old.epoch
                                  THEN e.total ELSE old.total]
<1>1. /\ e.src \in Source /\ e.conv \in Conversation
      /\ e.total \in Nat /\ e.epoch \in Nat
  BY DEF Event
<1>2. conv[e.conv] \in Counter \cup {NoCounter} /\ old \in Counter \cup {NoCounter}
  BY <1>1 DEF TypeOK
<1>3. c \in Counter
  BY <1>1, <1>2 DEF Counter
<1>4. conv' = [conv EXCEPT ![e.conv] = c]
  BY DEF ApplyBaseline
<1>5. source' = [source EXCEPT ![e.src] = w]
  BY DEF ApplyBaseline
<1>6. UNCHANGED <<keys, counted>>
  BY DEF ApplyBaseline
<1> HIDE DEF c, old
<1>7. CASE old = NoCounter
  <2>1. w = [epoch |-> e.epoch, total |-> e.total] /\ w \in Counter
    BY <1>1, <1>7 DEF Counter
  <2> HIDE DEF w
  <2> QED BY <1>3, <1>4, <1>5, <1>6, <1>7, <2>1 DEF old
<1>8. CASE old # NoCounter
  <2>1. old.epoch \in Nat /\ old.total \in Nat
    BY <1>2, <1>8 DEF Counter
  <2>2. /\ w \in Counter
        /\ w.epoch >= e.epoch /\ w.epoch >= old.epoch
        /\ w.total >= old.total \/ e.epoch > old.epoch
        /\ w.total >= e.total
    BY <1>1, <1>8, <2>1 DEF Counter
  <2> HIDE DEF w
  <2> QED BY <1>3, <1>4, <1>5, <1>6, <1>8, <2>2 DEF old
<1> QED BY <1>7, <1>8

(* Applying an event keeps the types.                                      *)
LEMMA ApplyType ==
  ASSUME TypeOK, Apply
  PROVE  TypeOK'
<1> DEFINE e == Head(queue)
<1>1. queue # <<>> /\ queue' = Tail(queue) /\ UNCHANGED <<codex, agent>>
  BY DEF Apply
<1>2. e \in Event /\ queue' \in Seq(Event)
  BY <1>1, HeadType
<1>3. e.src \in Source /\ e.conv \in Conversation /\ e.epoch \in Nat /\ e.total \in Nat
  BY <1>2 DEF Event
<1>4. /\ source' \in [Source -> Counter \cup {NoCounter}]
      /\ conv' \in [Conversation -> Counter \cup {NoCounter}]
      /\ counted' \in [Source -> Nat]
  <2> HIDE DEF e
  <2>1. CASE ApplyBaseline(e)
    <3>1. PICK c \in Counter : conv' = [conv EXCEPT ![e.conv] = c]
      BY <1>2, <2>1, BaselineApplied
    <3>2. PICK w \in Counter : source' = [source EXCEPT ![e.src] = w]
      BY <1>2, <2>1, BaselineApplied
    <3>3. counted' = counted
      BY <1>2, <2>1, BaselineApplied
    <3> QED BY <3>1, <3>2, <3>3 DEF TypeOK
  <2>2. CASE ApplyExact(e) /\ DedupKey(e) \in keys
    BY <2>2 DEF ApplyExact, TypeOK, server
  <2>3. CASE ApplyExact(e) /\ DedupKey(e) \notin keys
    <3>1. /\ DeltaCounts(e) \in Nat
          /\ counted' = [counted EXCEPT ![e.src] = counted[e.src] + DeltaCounts(e)]
          /\ \/ source' = [source EXCEPT ![e.src] = [epoch |-> e.epoch, total |-> e.total]]
             \/ source' = source
      BY <1>2, <2>3, ExactEffect
    <3>2. PICK c \in Counter : conv' = [conv EXCEPT ![e.conv] = c]
      BY <1>2, <2>3, ExactEffect
    <3>3. [epoch |-> e.epoch, total |-> e.total] \in Counter
      BY <1>3 DEF Counter
    <3>4. source' \in [Source -> Counter \cup {NoCounter}]
      BY <3>1, <3>3 DEF TypeOK
    <3>5. counted' \in [Source -> Nat]
      <4>1. counted[e.src] + DeltaCounts(e) \in Nat
        BY <1>3, <3>1 DEF TypeOK
      <4> QED BY <3>1, <4>1 DEF TypeOK
    <3> QED BY <3>2, <3>4, <3>5 DEF TypeOK
  <2>4. ApplyBaseline(e) \/ ApplyExact(e)
    BY DEF Apply, e
  <2> QED BY <2>1, <2>2, <2>3, <2>4
<1> QED BY <1>1, <1>2, <1>4 DEF TypeOK, codex, agent

(* Every step keeps the types.                                             *)
LEMMA NextType ==
  ASSUME TypeOK, [Next]_vars
  PROVE  TypeOK'
<1>1. CASE UNCHANGED vars
  BY <1>1 DEF TypeOK, vars, codex, agent, server
<1>2. ASSUME NEW s \in Source, Use(s) \/ Fork(s) \/ Restart(s) PROVE TypeOK'
  BY <1>2, WritersType
<1>3. ASSUME NEW s \in Source, Rewrite(s) PROVE TypeOK'
  BY <1>3, RewriteType
<1>4. ASSUME NEW s \in Source, Baseline(s) PROVE TypeOK'
  BY <1>4, BaselineType
<1>5. ASSUME NEW s \in Source, Scan(s) PROVE TypeOK'
  BY <1>5, ScanType
<1>6. CASE EndFirstPass \/ Backfill \/ \E s \in Source : Notice(s)
  BY <1>6, AgentType
<1>7. CASE Apply
  BY <1>7, ApplyType
<1> QED BY <1>1, <1>2, <1>3, <1>4, <1>5, <1>6, <1>7 DEF Next

(* At the beginning nothing is written, read or counted.                   *)
LEMMA InitType == Init => TypeOK
<1> SUFFICES ASSUME Init PROVE TypeOK
  OBVIOUS
<1>1. <<>> \in Seq(Line) /\ <<>> \in Seq(Event)
  BY EmptySeq
<1> QED BY <1>1 DEF Init, TypeOK

(* Whatever Codex writes, the state of agent and server keeps its type: in *)
(* particular no count becomes negative, as DeltaCounts clamps it.         *)
THEOREM LedgerTyped == Spec => []TypeOK
<1>1. Init => TypeOK
  BY InitType
<1>2. TypeOK /\ [Next]_vars => TypeOK'
  BY NextType
<1> QED BY <1>1, <1>2, PTL DEF Spec

=============================================================================
