-------------------------- MODULE LiveStreamProofs --------------------------
(***************************************************************************)
(* Proofs about LiveStream, for any sensors, any command lines, any pipe, any *)
(* batch size and any number of events: type correctness; that a frame holds  *)
(* the newest value of every sensor; that the terminal never goes back to an  *)
(* older one; and that a footer on the pipe means a clean exit.               *)
(***************************************************************************)
EXTENDS LiveStream, WellFoundedInduction, SequenceTheorems, TLAPS

-----------------------------------------------------------------------------
(* The inductive invariants.                                                *)

(* How many events have left the queue, and how many of them are in the map. *)
Taken == Len(owner) - Len(queue)
Folded == IF pc = "drain" THEN Taken - Len(batch) ELSE Taken

(* The queue holds the newest events and the vector being drained those before    *)
(* them, in the order of their occurrence and without a gap.                 *)
InOrder ==
    /\ Len(queue) <= Len(owner)
    /\ \A i \in 1..Len(queue) : queue[i] = Taken + i
    /\ pc = "poll" => batch = <<>>
    /\ pc = "drain" => /\ Len(batch) <= Taken
                       /\ \A i \in 1..Len(batch) : batch[i] = Folded + i

(* e is the newest of the first n events that sensor s produced, or 0. *)
NewestAmong(s, e, n) == /\ e \in 0..n
                        /\ e # 0 => owner[e] = s
                        /\ \A k \in 1..n : k > e => owner[k] # s

UpToDate == \A s \in Sensors : NewestAmong(s, latest[s], Folded)

IsFrame(i) == pipe[i].kind = "frame"

(* From the screen through the frames on their way to the map nothing gets older. *)
NothingGetsOlder == \A s \in Sensors :
    /\ shown[s] <= latest[s]
    /\ \A i \in 1..Len(pipe) : IsFrame(i) => shown[s] <= pipe[i].data[s] /\ pipe[i].data[s] <= latest[s]
    /\ \A i, j \in 1..Len(pipe) :
          (IsFrame(i) /\ IsFrame(j) /\ i < j) => pipe[i].data[s] <= pipe[j].data[s]

(* A sensor with a line on the terminal has a reading there. *)
LinesHoldReadings == \A s \in lines : shown[s] # 0

FooterLast == FooterMeansClean /\ (pc = "footer" => stop)

-----------------------------------------------------------------------------
(* Numbers and sequences.                                                   *)

(* A set of numbers that is not empty and has a bound has a greatest element,   *)
(* which is what Max yields.                                                *)
LEMMA MaxIsGreatest ==
    ASSUME NEW n \in Nat, NEW S, S \subseteq 0..n, S # {}
    PROVE  Max(S) \in S /\ \A y \in S : Max(S) >= y
  <1>. DEFINE gaps == {n - x : x \in S}
  <1>1. gaps \subseteq Nat /\ gaps # {}
    <2>1. \A x \in S : n - x \in Nat
      OBVIOUS
    <2>2. PICK x \in S : TRUE
      OBVIOUS
    <2>3. n - x \in gaps
      OBVIOUS
    <2>. QED
      BY <2>1, <2>3
  <1>2. \E g \in gaps : \A h \in gaps : ~(<<h, g>> \in OpToRel(<, Nat))
    <2>. HIDE DEF gaps
    <2>. QED
      BY <1>1, NatLessThanWellFounded, WFMin
  <1>3. PICK g \in gaps : \A h \in gaps : ~(h < g)
    <2>1. \A h, g \in Nat : h < g => <<h, g>> \in OpToRel(<, Nat)
      BY DEF OpToRel
    <2>. QED
      BY <1>1, <1>2, <2>1
  <1>4. PICK x \in S : g = n - x
    BY <1>3
  <1>5. \A y \in S : x >= y
    <2>. SUFFICES ASSUME NEW y \in S PROVE x >= y
      OBVIOUS
    <2>1. n - y \in gaps /\ ~(n - y < n - x)
      BY <1>3, <1>4
    <2>. QED
      BY <2>1
  <1>. QED
    BY <1>4, <1>5 DEF Max

(* What the streamer prints are lines.                                      *)
LEMMA LinesAreLines ==
    /\ NoReadings \in Readings
    /\ \A k \in {"header", "frame", "footer"}, d \in Readings : Line(k, d) \in Lines
  BY StreamAssumption DEF NoReadings, Readings, Line, Lines

(* Emit puts its line behind the others. *)
LEMMA EmitShape ==
    ASSUME pipe \in Seq(Lines), NEW line \in Lines, Emit(line)
    PROVE  /\ pipe' \in Seq(Lines) /\ Len(pipe') = Len(pipe) + 1 /\ Len(pipe') <= PipeSize
           /\ \A i \in 1..Len(pipe) : pipe'[i] = pipe[i]
           /\ pipe'[Len(pipe) + 1] = line
  BY StreamAssumption, AppendProperties DEF Emit

(* ReadLine takes the first line. *)
LEMMA ReadShape ==
    ASSUME pipe \in Seq(Lines), ReadLine
    PROVE  /\ Head(pipe) = pipe[1] /\ Head(pipe) \in Lines
           /\ pipe' \in Seq(Lines) /\ Len(pipe') = Len(pipe) - 1
           /\ \A i \in 1..Len(pipe') : pipe'[i] = pipe[i + 1]
  <1>1. pipe # <<>> /\ pipe' = Tail(pipe)
    BY DEF ReadLine
  <1>2. Head(pipe) = pipe[1]
    OBVIOUS
  <1>. QED
    BY <1>1, <1>2, HeadTailProperties

(* Where the newest event of a sensor stands in the drained vector. *)
LEMMA AtShape ==
    ASSUME batch \in Seq(Events), NEW s \in Sensors, At(s) # {}
    PROVE  /\ Max(At(s)) \in 1..Len(batch) /\ owner[batch[Max(At(s))]] = s
           /\ \A i \in 1..Len(batch) : i > Max(At(s)) => owner[batch[i]] # s
  <1>1. At(s) \subseteq 0..Len(batch) /\ Len(batch) \in Nat /\ At(s) \subseteq 1..Len(batch)
    BY DEF At
  <1>2. Max(At(s)) \in At(s) /\ \A y \in At(s) : Max(At(s)) >= y
    BY <1>1, MaxIsGreatest
  <1>3. \A i \in 1..Len(batch) : owner[batch[i]] = s => i \in At(s)
    BY DEF At
  <1>. HIDE DEF Max
  <1>4. \A i \in 1..Len(batch) : i > Max(At(s)) => ~(i <= Max(At(s)))
    BY <1>1, <1>2
  <1>. QED
    BY <1>1, <1>2, <1>3, <1>4 DEF At

-----------------------------------------------------------------------------
(* Type correctness.                                                        *)

LEMMA InitType == Init => TypeOK
  <1>. SUFFICES ASSUME Init PROVE TypeOK
    OBVIOUS
  <1>1. /\ queue \in Seq(Events) /\ batch \in Seq(Events) /\ owner \in Seq(Sensors)
        /\ pipe \in Seq(Lines) /\ Len(owner) = 0 /\ Len(pipe) = 0
    BY EmptySeq DEF Init
  <1>2. latest \in Readings /\ shown \in Readings
    BY LinesAreLines DEF Init
  <1>3. /\ argv \in Invocations /\ pc \in PCs /\ stop \in BOOLEAN /\ valid \in BOOLEAN
        /\ enabled \subseteq Sensors /\ dash \in {"reading", "ended"} /\ header \in BOOLEAN
        /\ lines \subseteq Sensors
    BY DEF Init, PCs
  <1>4. 0 <= MaxEvents /\ 0 <= PipeSize
    BY StreamAssumption
  <1>. QED
    BY <1>1, <1>2, <1>3, <1>4 DEF TypeOK

LEMMA NextType == TypeOK /\ [Next]_vars => TypeOK'
  <1>. SUFFICES ASSUME TypeOK, [Next]_vars PROVE TypeOK'
    OBVIOUS
  <1>. USE DEF sourceVars, readerVars, screenVars
  <1>1. CASE UNCHANGED vars
    BY <1>1 DEF vars, TypeOK
  <1>2. CASE Main
    <2>1. pc' \in PCs
      BY <1>2 DEF Main, PCs
    <2>. QED
      BY <1>2, <2>1 DEF Main, TypeOK
  <1>3. CASE Start \/ LoopTop \/ PollReturns \/ Sigpipe \/ Signal \/ EndOfInput \/ CtrlC
    <2>1. batch' \in Seq(Events) /\ enabled' \subseteq Sensors
      <3>1. batch' \in {batch, <<>>} /\ enabled' \in {enabled, {}}
        BY <1>3 DEF Start, LoopTop, PollReturns, Sigpipe, Signal, EndOfInput, CtrlC
      <3>. QED
        BY <3>1, EmptySeq DEF TypeOK
    <2>2. pc' \in PCs
      BY <1>3 DEF Start, LoopTop, PollReturns, Sigpipe, Signal, EndOfInput, CtrlC, Goto, PCs, TypeOK
    <2>. QED
      BY <1>3, <2>1, <2>2
      DEF Start, LoopTop, PollReturns, Sigpipe, Signal, EndOfInput, CtrlC, Goto, TypeOK
  <1>4. CASE EnableSensors
    BY <1>4 DEF EnableSensors, Goto, PCs, TypeOK
  <1>5. CASE EmitHeader \/ EmitFrame \/ EmitFooter
    <2>1. PICK line \in Lines : Emit(line)
      BY <1>5, LinesAreLines DEF EmitHeader, EmitFrame, EmitFooter, TypeOK
    <2>2. pipe' \in Seq(Lines) /\ Len(pipe') <= PipeSize
      BY <2>1, EmitShape DEF TypeOK
    <2>3. pc' \in PCs /\ enabled' \subseteq Sensors
      BY <1>5 DEF EmitHeader, EmitFrame, EmitFooter, Goto, PCs, TypeOK
    <2>. QED
      BY <1>5, <2>2, <2>3 DEF EmitHeader, EmitFrame, EmitFooter, TypeOK
  <1>6. CASE GetEvents
    <2>. DEFINE n == TakeUpTo(BatchSize)
    <2>1. n \in 0..Len(queue)
      BY StreamAssumption DEF TakeUpTo, TypeOK
    <2>2. SubSeq(queue, 1, n) \in Seq(Events) /\ SubSeq(queue, n + 1, Len(queue)) \in Seq(Events)
      <3>. HIDE DEF n
      <3>1. \A i \in 1..Len(queue) : queue[i] \in Events
        BY DEF TypeOK
      <3>2. \A i \in 1..n : queue[i] \in Events
        BY <2>1, <3>1
      <3>3. \A i \in n + 1..Len(queue) : queue[i] \in Events
        BY <2>1, <3>1
      <3>. QED
        BY <2>1, <3>2, <3>3, SubSeqProperties DEF TypeOK
    <2>3. batch' \in Seq(Events)
      <3>. HIDE DEF n
      <3>1. batch' = batch \o SubSeq(queue, 1, n)
        BY <1>6 DEF GetEvents, n
      <3>. QED
        BY <2>2, <3>1, ConcatProperties DEF TypeOK
    <2>. QED
      BY <1>6, <2>2, <2>3 DEF GetEvents, TypeOK
  <1>7. CASE FoldReadings
    <2>1. ASSUME NEW s \in Sensors, At(s) # {}
          PROVE  batch[Max(At(s))] \in 0..MaxEvents
      <3>1. Max(At(s)) \in 1..Len(batch)
        BY <2>1, AtShape DEF TypeOK
      <3>2. batch[Max(At(s))] \in Events
        BY <3>1, ElementOfSeq DEF TypeOK
      <3>. QED
        BY <3>2 DEF Events
    <2>2. latest' \in Readings
      BY <1>7, <2>1 DEF FoldReadings, Readings, TypeOK
    <2>. QED
      BY <1>7, <2>2 DEF FoldReadings, Goto, PCs, TypeOK
  <1>8. ASSUME NEW s \in Sensors, Produce(s) PROVE TypeOK'
    <2>1. owner' \in Seq(Sensors) /\ Len(owner') = Len(owner) + 1
      BY <1>8, AppendProperties DEF Produce, TypeOK
    <2>2. Len(owner) + 1 \in Events
      BY <1>8, StreamAssumption DEF Produce, Events, TypeOK
    <2>3. queue' \in Seq(Events)
      BY <1>8, <2>2, AppendProperties DEF Produce, TypeOK
    <2>. QED
      BY <1>8, <2>1, <2>2, <2>3, StreamAssumption DEF Produce, Events, TypeOK
  <1>9. CASE ReadLine
    <2>1. pipe' \in Seq(Lines) /\ Len(pipe') <= PipeSize /\ Head(pipe) \in Lines
      BY <1>9, ReadShape, StreamAssumption DEF TypeOK
    <2>2. header' \in BOOLEAN /\ dash' \in {"reading", "ended"}
      BY <1>9 DEF ReadLine, TypeOK
    <2>3. lines' \subseteq Sensors /\ shown' \in Readings
      <3>1. CASE UNCHANGED screenVars
        BY <3>1 DEF screenVars, TypeOK
      <3>2. ASSUME NEW last, Draw(Head(pipe).data, last)
            PROVE  lines' \subseteq Sensors /\ shown' \in Readings
        BY <2>1, <3>2 DEF Draw, Lines, Readings, TypeOK
      <3>. QED
        BY <1>9, <3>1, <3>2 DEF ReadLine
    <2>. QED
      BY <1>9, <2>1, <2>2, <2>3 DEF ReadLine, TypeOK
  <1>. QED
    BY <1>1, <1>2, <1>3, <1>4, <1>5, <1>6, <1>7, <1>8, <1>9
    DEF Next, StreamerStep, DashboardStep

(* Every variable of the streamer, of the pipe and of the dashboard keeps its    *)
(* type; no line overruns the pipe and no number an event.                    *)
THEOREM TypeCorrect == Spec => []TypeOK
  BY InitType, NextType, PTL DEF Spec

-----------------------------------------------------------------------------
(* The map is up to date.                                                    *)

LEMMA InitOrder == Init => InOrder /\ UpToDate
  <1>. SUFFICES ASSUME Init PROVE InOrder /\ UpToDate
    OBVIOUS
  <1>1. Len(owner) = 0 /\ Len(queue) = 0 /\ pc = "main"
    BY EmptySeq DEF Init
  <1>2. \A s \in Sensors : latest[s] = 0
    BY DEF Init, NoReadings
  <1>. QED
    BY <1>1, <1>2 DEF InOrder, UpToDate, NewestAmong, Taken, Folded

(* The actions that move no event leave order and map as they are. *)
LEMMA NothingMoves ==
    ASSUME TypeOK, InOrder, UpToDate, UNCHANGED <<owner, queue, latest>>,
           \/ pc' = pc /\ batch' = batch
           \/ pc \notin {"poll", "drain"} /\ pc' \notin {"poll", "drain"}
           \/ pc # "drain" /\ pc' = "poll" /\ batch' = <<>>
           \/ pc = "poll" /\ pc' \in {"drain", "emit"} /\ batch' = batch
    PROVE  InOrder' /\ UpToDate'
  <1>1. Taken' = Taken /\ Taken \in Nat
    BY DEF TypeOK, InOrder, Taken
  <1>2. Folded' = Folded
    BY <1>1, EmptySeq DEF Folded, InOrder
  <1>3. InOrder'
    BY <1>1, <1>2, EmptySeq DEF InOrder
  <1>4. UpToDate'
    BY <1>2 DEF UpToDate, NewestAmong
  <1>. QED
    BY <1>3, <1>4

(* A batch leaves the queue in the order of its events.                     *)
LEMMA DrainStep == TypeOK /\ InOrder /\ UpToDate /\ GetEvents => InOrder' /\ UpToDate'
  <1>. SUFFICES ASSUME TypeOK, InOrder, UpToDate, GetEvents PROVE InOrder' /\ UpToDate'
    OBVIOUS
  <1>. DEFINE n == TakeUpTo(BatchSize)
              front == SubSeq(queue, 1, n)
  <1>1. n \in 0..Len(queue) /\ Len(queue) \in Nat /\ Len(owner) \in Nat /\ Len(batch) \in Nat
    BY StreamAssumption DEF TakeUpTo, TypeOK
  <1>2. /\ batch' = batch \o front /\ queue' = SubSeq(queue, n + 1, Len(queue))
        /\ pc = "drain" /\ UNCHANGED <<pc, owner, latest>>
    BY DEF GetEvents, sourceVars
  <1>. HIDE DEF n
  <1>3. /\ front \in Seq(Events) /\ Len(front) = n /\ \A i \in 1..n : front[i] = queue[i]
    <2>1. \A i \in 1..n : queue[i] \in Events
      BY <1>1, ElementOfSeq DEF TypeOK
    <2>2. \A i \in 1..n - 1 + 1 : front[i] = queue[1 + i - 1]
      BY <1>1, <2>1, SubSeqProperties
    <2>. QED
      BY <1>1, <2>1, <2>2, SubSeqProperties
  <1>4. /\ Len(queue') = Len(queue) - n
        /\ \A i \in 1..Len(queue') : queue'[i] = queue[n + i]
    <2>1. \A i \in n + 1..Len(queue) : queue[i] \in Events
      BY <1>1, ElementOfSeq DEF TypeOK
    <2>2. /\ Len(queue') = IF n + 1 <= Len(queue) THEN Len(queue) - (n + 1) + 1 ELSE 0
          /\ \A i \in 1..Len(queue) - (n + 1) + 1 : queue'[i] = queue[n + 1 + i - 1]
      BY <1>1, <1>2, <2>1, SubSeqProperties
    <2>. QED
      BY <1>1, <2>2
  <1>. HIDE DEF front
  <1>5. /\ Len(batch') = Len(batch) + n
        /\ \A i \in 1..Len(batch) : batch'[i] = batch[i]
        /\ \A i \in Len(batch) + 1..Len(batch) + n : batch'[i] = queue[i - Len(batch)]
    <2>1. /\ Len(batch') = Len(batch) + n
          /\ \A i \in 1..Len(batch) + n :
                 batch'[i] = IF i <= Len(batch) THEN batch[i] ELSE front[i - Len(batch)]
      BY <1>1, <1>2, <1>3, ConcatProperties DEF TypeOK
    <2>. QED
      BY <1>1, <1>3, <2>1
  <1>6. Taken' = Taken + n /\ Folded' = Folded /\ Folded = Taken - Len(batch) /\ Taken \in Nat
    <2>1. Taken' = Taken + n /\ Taken \in Nat
      <3>1. Len(owner') = Len(owner) /\ Len(queue') = Len(queue) - n
        BY <1>2, <1>4
      <3>2. Len(queue) <= Len(owner)
        BY DEF InOrder
      <3>. QED
        BY <1>1, <3>1, <3>2 DEF Taken
    <2>2. Folded = Taken - Len(batch) /\ Folded' = Taken' - Len(batch')
      BY <1>2 DEF Folded
    <2>3. Taken' - Len(batch') = Taken - Len(batch)
      BY <1>1, <1>5, <2>1
    <2>. QED
      BY <2>1, <2>2, <2>3
  <1>7. InOrder'
    <2>1. Len(queue') <= Len(owner')
      BY <1>1, <1>2, <1>4 DEF InOrder
    <2>2. \A i \in 1..Len(queue') : queue'[i] = Taken' + i
      BY <1>1, <1>4, <1>6 DEF InOrder
    <2>3. Len(batch') <= Taken'
      BY <1>1, <1>2, <1>5, <1>6 DEF InOrder
    <2>4. ASSUME NEW i \in 1..Len(batch') PROVE batch'[i] = Folded' + i
      <3>1. CASE i <= Len(batch)
        BY <1>1, <1>2, <1>5, <1>6, <3>1 DEF InOrder
      <3>2. CASE i > Len(batch)
        <4>1. batch'[i] = queue[i - Len(batch)] /\ i - Len(batch) \in 1..Len(queue)
          BY <1>1, <1>5, <3>2
        <4>2. batch'[i] = Taken + (i - Len(batch))
          BY <4>1 DEF InOrder
        <4>. QED
          BY <1>1, <1>6, <4>2
      <3>. QED
        BY <1>1, <1>5, <3>1, <3>2
    <2>. QED
      BY <1>2, <2>1, <2>2, <2>3, <2>4 DEF InOrder
  <1>8. UpToDate'
    BY <1>2, <1>6 DEF UpToDate, NewestAmong
  <1>. QED
    BY <1>7, <1>8

(* Folding a batch makes the map newer, for no sensor older.                *)
LEMMA FoldStep ==
    TypeOK /\ InOrder /\ UpToDate /\ FoldReadings
        => InOrder' /\ UpToDate' /\ \A s \in Sensors : latest[s] <= latest'[s]
  <1>. SUFFICES ASSUME TypeOK, InOrder, UpToDate, FoldReadings
                PROVE  InOrder' /\ UpToDate' /\ \A s \in Sensors : latest[s] <= latest'[s]
    OBVIOUS
  <1>1. pc = "drain" /\ pc' = "emit" /\ UNCHANGED <<owner, queue, batch>>
    BY DEF FoldReadings, Goto, sourceVars
  <1>2. /\ Taken \in Nat /\ Len(batch) \in Nat /\ Folded = Taken - Len(batch) /\ Folded \in Nat
        /\ Folded' = Taken /\ Taken' = Taken
    BY <1>1 DEF TypeOK, InOrder, Taken, Folded
  <1>3. InOrder'
    BY <1>1, <1>2 DEF InOrder
  <1>4. ASSUME NEW s \in Sensors
        PROVE  (NewestAmong(s, latest[s], Taken))' /\ latest[s] <= latest'[s]
    <2>0. /\ latest[s] \in 0..Folded /\ (latest[s] # 0 => owner[latest[s]] = s)
          /\ \A k \in 1..Folded : k > latest[s] => owner[k] # s
      BY DEF UpToDate, NewestAmong
    <2>1. ASSUME NEW k \in 1..Taken, k > Folded
          PROVE  k - Folded \in 1..Len(batch) /\ batch[k - Folded] = k
      <3>1. k - Folded \in 1..Len(batch) /\ k = Folded + (k - Folded)
        BY <1>2, <2>1
      <3>2. batch[k - Folded] = Folded + (k - Folded)
        BY <1>1, <3>1 DEF InOrder
      <3>. QED
        BY <3>1, <3>2
    <2>2. CASE At(s) = {}
      <3>1. latest'[s] = latest[s]
        BY <2>2 DEF FoldReadings
      <3>2. \A i \in 1..Len(batch) : owner[batch[i]] # s
        BY <2>2 DEF At, TypeOK
      <3>3. \A k \in 1..Taken : k > Folded => owner[k] # s
        BY <2>1, <3>2
      <3>4. \A k \in 1..Taken : k > latest[s] => owner[k] # s
        BY <1>2, <2>0, <3>3
      <3>. QED
        BY <1>1, <1>2, <2>0, <3>1, <3>4 DEF NewestAmong, TypeOK
    <2>3. CASE At(s) # {}
      <3>. DEFINE m == Max(At(s))
      <3>1. latest'[s] = batch[m]
        BY <2>3 DEF FoldReadings
      <3>2. /\ m \in 1..Len(batch) /\ owner[batch[m]] = s
            /\ \A i \in 1..Len(batch) : i > m => owner[batch[i]] # s
        BY <2>3, AtShape DEF TypeOK
      <3>. HIDE DEF m
      <3>3. batch[m] = Folded + m
        BY <1>1, <3>2 DEF InOrder
      <3>4. \A k \in 1..Taken : k > batch[m] => owner[k] # s
        <4>. SUFFICES ASSUME NEW k \in 1..Taken, k > batch[m] PROVE owner[k] # s
          OBVIOUS
        <4>1. k - Folded \in 1..Len(batch) /\ batch[k - Folded] = k /\ k - Folded > m
          BY <1>2, <2>1, <3>2, <3>3
        <4>. QED
          BY <3>2, <4>1
      <3>5. batch[m] \in 0..Taken /\ latest[s] <= batch[m]
        BY <1>2, <2>0, <3>2, <3>3
      <3>. QED
        BY <1>1, <1>2, <3>1, <3>2, <3>4, <3>5 DEF NewestAmong
    <2>. QED
      BY <2>2, <2>3
  <1>5. UpToDate'
    BY <1>2, <1>4 DEF UpToDate, NewestAmong
  <1>. QED
    BY <1>3, <1>4, <1>5

(* An event is newer than all that came before it.                          *)
LEMMA ProduceStep ==
    ASSUME TypeOK, InOrder, UpToDate, NEW s \in Sensors, Produce(s)
    PROVE  InOrder' /\ UpToDate'
  <1>1. /\ owner' = Append(owner, s) /\ queue' = Append(queue, Len(owner) + 1)
        /\ UNCHANGED <<pc, batch, latest>>
    BY DEF Produce
  <1>2. /\ Len(owner) \in Nat /\ Len(queue) \in Nat /\ Len(batch) \in Nat
        /\ Len(owner') = Len(owner) + 1 /\ Len(queue') = Len(queue) + 1
        /\ \A k \in 1..Len(owner) : owner'[k] = owner[k]
        /\ \A i \in 1..Len(queue) : queue'[i] = queue[i]
        /\ queue'[Len(queue) + 1] = Len(owner) + 1
    <2>1. Len(owner) + 1 \in Events
      BY StreamAssumption DEF Produce, Events, TypeOK
    <2>2. /\ Len(queue') = Len(queue) + 1 /\ queue'[Len(queue) + 1] = Len(owner) + 1
          /\ \A i \in 1..Len(queue) : queue'[i] = queue[i]
      BY <1>1, <2>1, AppendProperties DEF TypeOK
    <2>3. Len(owner') = Len(owner) + 1 /\ \A k \in 1..Len(owner) : owner'[k] = owner[k]
      BY <1>1, AppendProperties DEF TypeOK
    <2>. QED
      BY <2>2, <2>3 DEF TypeOK
  <1>3. Taken' = Taken /\ Folded' = Folded /\ Taken \in 0..Len(owner)
    BY <1>1, <1>2 DEF Taken, Folded, InOrder
  <1>4. InOrder'
    <2>1. ASSUME NEW i \in 1..Len(queue') PROVE queue'[i] = Taken' + i
      <3>1. CASE i \in 1..Len(queue)
        BY <1>2, <1>3, <3>1 DEF InOrder
      <3>2. CASE i = Len(queue) + 1
        <4>1. queue'[i] = Len(owner) + 1
          BY <1>2, <3>2
        <4>2. Taken' + i = Len(owner) + 1
          BY <1>2, <1>3, <3>2 DEF Taken
        <4>. QED
          BY <4>1, <4>2
      <3>. QED
        BY <1>2, <3>1, <3>2
    <2>. QED
      BY <1>1, <1>2, <1>3, <2>1 DEF InOrder
  <1>5. UpToDate'
    <2>1. Folded \in 0..Len(owner)
      BY <1>2, <1>3 DEF InOrder, Folded
    <2>2. \A k \in 1..Folded : owner'[k] = owner[k]
      BY <1>2, <2>1
    <2>. QED
      BY <1>1, <1>2, <1>3, <2>1, <2>2 DEF UpToDate, NewestAmong
  <1>. QED
    BY <1>4, <1>5

LEMMA NextOrder == TypeOK /\ InOrder /\ UpToDate /\ [Next]_vars => InOrder' /\ UpToDate'
  <1>. SUFFICES ASSUME TypeOK, InOrder, UpToDate, [Next]_vars PROVE InOrder' /\ UpToDate'
    OBVIOUS
  <1>. USE DEF sourceVars, readerVars, screenVars
  <1>1. CASE UNCHANGED vars \/ ReadLine \/ EndOfInput \/ CtrlC
    BY <1>1, NothingMoves DEF vars, ReadLine, EndOfInput, CtrlC
  <1>2. CASE Main \/ Start \/ EmitHeader \/ EnableSensors \/ EmitFrame \/ EmitFooter \/ Sigpipe
    <2>1. UNCHANGED <<owner, queue, latest, batch>>
      BY <1>2 DEF Main, Start, EmitHeader, EnableSensors, EmitFrame, EmitFooter, Sigpipe
    <2>2. pc \notin {"poll", "drain"} /\ pc' \notin {"poll", "drain"}
      BY <1>2 DEF Main, Start, EmitHeader, EnableSensors, EmitFrame, EmitFooter, Sigpipe, Goto
    <2>. QED
      BY <2>1, <2>2, NothingMoves
  <1>3. CASE LoopTop
    <2>1. /\ UNCHANGED <<owner, queue, latest>> /\ batch' = <<>> /\ pc = "top"
          /\ pc' = "footer" \/ pc' = "poll"
      BY <1>3 DEF LoopTop
    <2>. QED
      BY <2>1, NothingMoves
  <1>4. CASE PollReturns
    BY <1>4, NothingMoves DEF PollReturns, Goto
  <1>5. CASE Signal
    <2>1. UNCHANGED <<owner, queue, latest, batch>>
      BY <1>5 DEF Signal
    <2>2. \/ pc \in {"main", "start"} /\ pc' = "killed"
          \/ pc' = pc
          \/ pc = "poll" /\ pc' \in {"drain", "emit"}
      BY <1>5 DEF Signal
    <2>. QED
      BY <2>1, <2>2, NothingMoves
  <1>6. ASSUME NEW s \in Sensors, Produce(s) PROVE InOrder' /\ UpToDate'
    BY <1>6, ProduceStep
  <1>. QED
    BY <1>1, <1>2, <1>3, <1>4, <1>5, <1>6, DrainStep, FoldStep
    DEF Next, StreamerStep, DashboardStep

(* The value that is the newest of those taken from the queue is what Newest names. *)
LEMMA NewestIsLatest ==
    ASSUME TypeOK, InOrder, NEW s \in Sensors, NEW e, NewestAmong(s, e, Taken)
    PROVE  Newest(s) = e
  <1>. DEFINE S == {0} \cup {k \in DOMAIN owner : owner[k] = s /\ \A i \in DOMAIN queue : queue[i] # k}
  <1>1. Len(owner) \in Nat /\ Len(queue) \in Nat /\ Taken \in 0..Len(owner) /\ Taken = Len(owner) - Len(queue)
    BY DEF TypeOK, InOrder, Taken
  <1>2. ASSUME NEW k \in 1..Len(owner), \A i \in DOMAIN queue : queue[i] # k
        PROVE  k <= Taken
    <2>1. CASE k > Taken
      <3>1. k - Taken \in 1..Len(queue)
        BY <1>1, <2>1
      <3>2. queue[k - Taken] = k
        BY <1>1, <3>1 DEF InOrder
      <3>. QED
        BY <1>2, <3>1, <3>2 DEF TypeOK
    <2>. QED
      BY <1>1, <2>1
  <1>3. \A k \in S : k <= e
    BY <1>1, <1>2 DEF NewestAmong, TypeOK
  <1>4. e \in S
    <2>1. e # 0 => e \in 1..Len(owner) /\ \A i \in 1..Len(queue) : queue[i] # e
      BY <1>1 DEF NewestAmong, InOrder
    <2>. QED
      BY <2>1 DEF NewestAmong, TypeOK
  <1>5. S \subseteq 0..Len(owner)
    BY <1>1 DEF TypeOK
  <1>6. Max(S) \in S /\ Max(S) >= e
    <2>. HIDE DEF S
    <2>. QED
      BY <1>1, <1>4, <1>5, MaxIsGreatest
  <1>7. Max(S) = e
    <2>. DEFINE m == Max(S)
    <2>1. m \in 0..Len(owner) /\ m <= e /\ m >= e /\ e \in Nat
      <3>1. e \in 0..Taken
        BY DEF NewestAmong
      <3>. HIDE DEF S
      <3>2. m \in S /\ m >= e
        BY <1>6
      <3>. HIDE DEF m
      <3>. QED
        BY <1>1, <1>3, <1>5, <3>1, <3>2
    <2>. HIDE DEF m
    <2>2. m = e
      BY <1>1, <2>1
    <2>. QED
      BY <2>2 DEF m
  <1>. QED
    BY <1>7 DEF Newest

(* "Map handle -> latest reading so we always emit the most recent value": the    *)
(* frame about to be printed is the newest event of every sensor among those  *)
(* that have left the queue, however many batches a drain takes and wherever  *)
(* the signal comes.                                                        *)
THEOREM FramesAreFresh == Spec => []FrameIsNewest
  <1>1. TypeOK /\ InOrder /\ UpToDate => FrameIsNewest
    <2>. SUFFICES ASSUME TypeOK, InOrder, UpToDate, pc = "emit", NEW s \in Sensors
                  PROVE  latest[s] = Newest(s)
      BY DEF FrameIsNewest
    <2>1. NewestAmong(s, latest[s], Taken)
      BY DEF UpToDate, Folded
    <2>. QED
      BY <2>1, NewestIsLatest
  <1>. QED
    BY <1>1, InitOrder, NextOrder, TypeCorrect, PTL DEF Spec

-----------------------------------------------------------------------------
(* What is on the pipe.                                                      *)

(* Every step leaves the pipe alone, puts one line behind the others - a header,  *)
(* a frame of the map as it is, a footer - or takes the first.                *)
LEMMA PipeSteps ==
    ASSUME TypeOK, [Next]_vars
    PROVE  \/ pipe' = pipe /\ UNCHANGED screenVars
           \/ /\ ReadLine
           \/ /\ pc \in {"header", "emit", "footer"} /\ UNCHANGED <<latest, screenVars, stop>>
              /\ \E line \in Lines :
                     /\ Emit(line)
                     /\ line.kind = "frame" => line.data = latest
                     /\ line.kind = "footer" => pc = "footer" /\ pc' = "exited"
  <1>. USE DEF sourceVars, readerVars, screenVars
  <1>1. CASE EmitHeader
    <2>. DEFINE line == Line("header", NoReadings)
    <2>1. line \in Lines /\ line.kind = "header"
      BY LinesAreLines DEF Line
    <2>. QED
      BY <1>1, <2>1 DEF EmitHeader, Goto
  <1>2. CASE EmitFrame
    <2>. DEFINE line == Line("frame", latest)
    <2>1. line \in Lines /\ line.kind = "frame" /\ line.data = latest
      BY LinesAreLines DEF Line, TypeOK
    <2>. QED
      BY <1>2, <2>1 DEF EmitFrame, Goto
  <1>3. CASE EmitFooter
    <2>. DEFINE line == Line("footer", NoReadings)
    <2>1. line \in Lines /\ line.kind = "footer"
      BY LinesAreLines DEF Line
    <2>. QED
      BY <1>3, <2>1 DEF EmitFooter, Goto
  <1>4. CASE \/ UNCHANGED vars \/ Main \/ Start \/ EnableSensors \/ LoopTop \/ PollReturns \/ GetEvents
             \/ FoldReadings \/ Sigpipe \/ EndOfInput \/ Signal \/ CtrlC
             \/ \E s \in Sensors : Produce(s)
    BY <1>4 DEF vars, Main, Start, EnableSensors, LoopTop, PollReturns, GetEvents, FoldReadings,
                Sigpipe, EndOfInput, Signal, CtrlC, Produce
  <1>. QED
    BY <1>1, <1>2, <1>3, <1>4 DEF Next, StreamerStep, DashboardStep

(* The map itself only moves forward. *)
LEMMA MapGrows ==
    ASSUME TypeOK, InOrder, UpToDate, [Next]_vars, NEW s \in Sensors
    PROVE  latest[s] <= latest'[s] /\ latest[s] \in Nat /\ latest'[s] \in Nat
  <1>1. latest[s] \in Nat /\ latest'[s] \in Nat
    <2>1. TypeOK'
      BY NextType
    <2>. QED
      BY <2>1, StreamAssumption DEF TypeOK, Readings
  <1>2. CASE FoldReadings
    BY <1>1, <1>2, FoldStep
  <1>3. CASE ~FoldReadings
    <2>1. latest' = latest
      BY <1>3 DEF Next, StreamerStep, DashboardStep, vars, sourceVars, readerVars, screenVars, Main, Start, EmitHeader,
         EnableSensors, LoopTop, PollReturns, GetEvents, EmitFrame, EmitFooter, Sigpipe, ReadLine,
         EndOfInput, Signal, CtrlC, Produce
    <2>. QED
      BY <1>1, <2>1
  <1>. QED
    BY <1>1, <1>2, <1>3

(* The numbers of a line are numbers. *)
LEMMA DataType ==
    ASSUME TypeOK, NEW s \in Sensors
    PROVE  /\ shown[s] \in Nat
           /\ \A i \in 1..Len(pipe) : pipe[i].data[s] \in Nat
  <1>1. \A i \in 1..Len(pipe) : pipe[i] \in Lines
    BY ElementOfSeq DEF TypeOK
  <1>. QED
    BY <1>1, StreamAssumption DEF TypeOK, Lines, Readings

(* A line that is read leaves the screen alone, or is a frame that is drawn. *)
LEMMA ReadDraws ==
    ASSUME TypeOK, ReadLine
    PROVE  \/ UNCHANGED screenVars
           \/ pipe[1].kind = "frame" /\ \E last \in Nat : Draw(pipe[1].data, last)
  <1>1. Head(pipe) = pipe[1]
    BY ReadShape DEF TypeOK
  <1>2. {0} \cup {Place[s] : s \in Sensors} \subseteq Nat
    BY StreamAssumption
  <1>. QED
    BY <1>1, <1>2 DEF ReadLine

LEMMA NextOlder ==
    TypeOK /\ InOrder /\ UpToDate /\ NothingGetsOlder /\ [Next]_vars => NothingGetsOlder'
  <1>. SUFFICES ASSUME TypeOK, InOrder, UpToDate, NothingGetsOlder, [Next]_vars, NEW s \in Sensors
                PROVE  /\ shown'[s] <= latest'[s]
                       /\ \A i \in 1..Len(pipe') : pipe'[i].kind = "frame" =>
                              shown'[s] <= pipe'[i].data[s] /\ pipe'[i].data[s] <= latest'[s]
                       /\ \A i, j \in 1..Len(pipe') :
                              (pipe'[i].kind = "frame" /\ pipe'[j].kind = "frame" /\ i < j) =>
                                  pipe'[i].data[s] <= pipe'[j].data[s]
    BY DEF NothingGetsOlder, IsFrame
  <1>0. /\ latest[s] <= latest'[s] /\ latest[s] \in Nat /\ latest'[s] \in Nat
        /\ shown[s] \in Nat /\ \A i \in 1..Len(pipe) : pipe[i].data[s] \in Nat
        /\ Len(pipe) \in Nat
    BY MapGrows, DataType DEF TypeOK
  <1>1. /\ shown[s] <= latest[s]
        /\ \A i \in 1..Len(pipe) : pipe[i].kind = "frame" =>
               shown[s] <= pipe[i].data[s] /\ pipe[i].data[s] <= latest[s]
        /\ \A i, j \in 1..Len(pipe) :
               (pipe[i].kind = "frame" /\ pipe[j].kind = "frame" /\ i < j) =>
                   pipe[i].data[s] <= pipe[j].data[s]
    BY DEF NothingGetsOlder, IsFrame
  <1>2. CASE pipe' = pipe /\ shown' = shown
    BY <1>0, <1>1, <1>2
  <1>3. CASE ReadLine
    <2>1. /\ Head(pipe) = pipe[1] /\ Len(pipe') = Len(pipe) - 1
          /\ \A i \in 1..Len(pipe') : pipe'[i] = pipe[i + 1]
      BY <1>3, ReadShape DEF TypeOK
    <2>2. Len(pipe) >= 1 /\ latest' = latest
      BY <1>0, <1>3, EmptySeq DEF ReadLine, sourceVars, TypeOK
    <2>3. shown'[s] = shown[s] \/ (pipe[1].kind = "frame" /\ shown'[s] = pipe[1].data[s])
      BY <1>3, ReadDraws DEF screenVars, Draw
    <2>4. shown[s] <= shown'[s] /\ shown'[s] \in Nat /\ shown'[s] <= latest'[s]
      BY <1>0, <1>1, <2>2, <2>3
    <2>5. ASSUME NEW i \in 1..Len(pipe'), pipe'[i].kind = "frame"
          PROVE  shown'[s] <= pipe'[i].data[s] /\ pipe'[i].data[s] <= latest'[s]
      <3>1. pipe'[i] = pipe[i + 1] /\ i + 1 \in 1..Len(pipe) /\ 1 \in 1..Len(pipe) /\ 1 < i + 1
        BY <1>0, <2>1, <2>2
      <3>. QED
        BY <1>0, <1>1, <2>2, <2>3, <2>5, <3>1
    <2>6. ASSUME NEW i \in 1..Len(pipe'), NEW j \in 1..Len(pipe'), i < j,
                 pipe'[i].kind = "frame", pipe'[j].kind = "frame"
          PROVE  pipe'[i].data[s] <= pipe'[j].data[s]
      <3>1. /\ pipe'[i] = pipe[i + 1] /\ i + 1 \in 1..Len(pipe)
            /\ pipe'[j] = pipe[j + 1] /\ j + 1 \in 1..Len(pipe) /\ i + 1 < j + 1
        BY <1>0, <2>1, <2>6
      <3>. QED
        BY <1>1, <2>6, <3>1
    <2>. QED
      BY <2>4, <2>5, <2>6
  <1>4. ASSUME UNCHANGED <<latest, shown>>, NEW line \in Lines, Emit(line),
               line.kind = "frame" => line.data = latest
        PROVE  /\ shown'[s] <= latest'[s]
               /\ \A i \in 1..Len(pipe') : pipe'[i].kind = "frame" =>
                      shown'[s] <= pipe'[i].data[s] /\ pipe'[i].data[s] <= latest'[s]
               /\ \A i, j \in 1..Len(pipe') :
                      (pipe'[i].kind = "frame" /\ pipe'[j].kind = "frame" /\ i < j) =>
                          pipe'[i].data[s] <= pipe'[j].data[s]
    <2>1. /\ Len(pipe') = Len(pipe) + 1
          /\ \A i \in 1..Len(pipe) : pipe'[i] = pipe[i]
          /\ pipe'[Len(pipe) + 1] = line
      BY <1>4, EmitShape DEF TypeOK
    <2>2. ASSUME NEW i \in 1..Len(pipe'), pipe'[i].kind = "frame"
          PROVE  /\ shown[s] <= pipe'[i].data[s] /\ pipe'[i].data[s] <= latest[s]
                 /\ i = Len(pipe) + 1 => pipe'[i].data = latest
      <3>1. CASE i \in 1..Len(pipe)
        BY <1>0, <1>1, <2>1, <2>2, <3>1
      <3>2. CASE i = Len(pipe) + 1
        BY <1>0, <1>1, <1>4, <2>1, <2>2, <3>2
      <3>. QED
        BY <1>0, <2>1, <3>1, <3>2
    <2>3. ASSUME NEW i \in 1..Len(pipe'), NEW j \in 1..Len(pipe'), i < j,
                 pipe'[i].kind = "frame", pipe'[j].kind = "frame"
          PROVE  pipe'[i].data[s] <= pipe'[j].data[s]
      <3>1. i \in 1..Len(pipe) /\ pipe'[i] = pipe[i]
        BY <1>0, <2>1, <2>3
      <3>2. CASE j \in 1..Len(pipe)
        BY <1>1, <2>1, <2>3, <3>1, <3>2
      <3>3. CASE j = Len(pipe) + 1
        BY <1>1, <2>2, <2>3, <3>1, <3>3
      <3>. QED
        BY <1>0, <2>1, <3>2, <3>3
    <2>. QED
      BY <1>1, <1>4, <2>2, <2>3
  <1>. QED
    BY <1>2, <1>3, <1>4, PipeSteps DEF screenVars

LEMMA NextLines == TypeOK /\ LinesHoldReadings /\ [Next]_vars => LinesHoldReadings'
  <1>. SUFFICES ASSUME TypeOK, LinesHoldReadings, [Next]_vars PROVE LinesHoldReadings'
    OBVIOUS
  <1>1. CASE UNCHANGED screenVars
    BY <1>1 DEF screenVars, LinesHoldReadings
  <1>2. ASSUME NEW last \in Nat, Draw(pipe[1].data, last) PROVE LinesHoldReadings'
    BY <1>2 DEF Draw, LinesHoldReadings
  <1>. QED
    BY <1>1, <1>2, PipeSteps, ReadDraws DEF screenVars

LEMMA InitOlder == Init => NothingGetsOlder /\ LinesHoldReadings /\ FooterLast
  <1>. SUFFICES ASSUME Init PROVE NothingGetsOlder /\ LinesHoldReadings /\ FooterLast
    OBVIOUS
  <1>1. pipe = <<>> /\ Len(pipe) = 0 /\ DOMAIN pipe = {} /\ pc = "main"
    BY EmptySeq DEF Init
  <1>2. \A s \in Sensors : shown[s] = 0 /\ latest[s] = 0
    BY DEF Init, NoReadings
  <1>3. lines = {}
    BY DEF Init
  <1>. QED
    BY <1>1, <1>2, <1>3 DEF NothingGetsOlder, LinesHoldReadings, FooterLast, FooterMeansClean

(* No step follows a reading on the terminal with an older one of its sensor, or    *)
(* takes its line away while one below it stays, however many frames are under *)
(* way, whichever of them json.loads refuses and wherever each is cut off.     *)
THEOREM ScreenOnlyAdvances == Spec => ScreenNeverGoesBack
  <1>. DEFINE Advances == \A s \in Sensors :
                  /\ shown'[s] >= shown[s]
                  /\ s \in lines \ lines' => \A u \in lines' : Place[u] < Place[s]
  <1>1. TypeOK /\ NothingGetsOlder /\ LinesHoldReadings /\ [Next]_vars => [Advances]_vars
    <2>. SUFFICES ASSUME TypeOK, NothingGetsOlder, LinesHoldReadings, [Next]_vars, NEW s \in Sensors
                  PROVE  /\ shown'[s] >= shown[s]
                         /\ s \in lines \ lines' => \A u \in lines' : Place[u] < Place[s]
      OBVIOUS
    <2>1. shown[s] \in Nat /\ \A u \in Sensors : Place[u] \in Nat
      BY DataType, StreamAssumption
    <2>2. CASE UNCHANGED screenVars
      BY <2>1, <2>2 DEF screenVars
    <2>3. ASSUME ReadLine, pipe[1].kind = "frame", NEW last \in Nat, Draw(pipe[1].data, last)
          PROVE  /\ shown'[s] >= shown[s]
                 /\ s \in lines \ lines' => \A u \in lines' : Place[u] < Place[s]
      <3>1. 1 \in 1..Len(pipe)
        BY <2>3, EmptySeq DEF ReadLine, TypeOK
      <3>2. pipe[1].data[s] \in Nat /\ shown[s] <= pipe[1].data[s]
        BY <2>3, <3>1, DataType DEF NothingGetsOlder, IsFrame
      <3>3. shown'[s] \in {shown[s], pipe[1].data[s]}
        BY <2>3 DEF Draw
      <3>4. ASSUME s \in lines, s \notin lines', NEW u \in lines' PROVE Place[u] < Place[s]
        <4>1. pipe[1].data[s] # 0
          BY <2>1, <3>2, <3>4 DEF LinesHoldReadings
        <4>2. ~(Place[s] <= last) /\ Place[u] <= last /\ u \in Sensors
          BY <2>3, <3>4, <4>1 DEF Draw
        <4>. QED
          BY <2>1, <4>2
      <3>. QED
        BY <2>1, <3>2, <3>3, <3>4
    <2>. QED
      BY <2>2, <2>3, PipeSteps, ReadDraws DEF screenVars
  <1>. QED
    BY <1>1, InitOrder, NextOrder, InitOlder, NextOlder, NextLines, TypeCorrect, PTL
    DEF Spec, ScreenNeverGoesBack

LEMMA NextFooter == TypeOK /\ FooterLast /\ [Next]_vars => FooterLast'
  <1>. SUFFICES ASSUME TypeOK, FooterLast, [Next]_vars PROVE FooterLast'
    OBVIOUS
  <1>0. /\ Len(pipe) \in Nat /\ DOMAIN pipe = 1..Len(pipe)
        /\ Len(pipe') \in Nat /\ DOMAIN pipe' = 1..Len(pipe')
    <2>1. TypeOK'
      BY NextType
    <2>. QED
      BY <2>1 DEF TypeOK
  <1>1. (pc' = "footer" => stop') /\ (pc = "exited" => pc' = "exited") /\ (stop => stop')
    BY DEF Next, StreamerStep, DashboardStep, vars, sourceVars, readerVars, screenVars, Main, Start, EmitHeader,
       EnableSensors, LoopTop, PollReturns, GetEvents, FoldReadings, EmitFrame, EmitFooter, Sigpipe,
       ReadLine, EndOfInput, Signal, CtrlC, Produce, Goto, Ended, FooterLast
  <1>2. ASSUME NEW i \in 1..Len(pipe'), pipe'[i].kind = "footer"
        PROVE  i = Len(pipe') /\ stop' /\ pc' = "exited"
    <2>1. CASE pipe' = pipe
      BY <1>0, <1>1, <1>2, <2>1 DEF FooterLast, FooterMeansClean
    <2>2. CASE ReadLine
      <3>1. Len(pipe') = Len(pipe) - 1 /\ pipe'[i] = pipe[i + 1]
        BY <2>2, ReadShape DEF TypeOK
      <3>2. i + 1 \in DOMAIN pipe
        BY <1>0, <3>1
      <3>3. pipe[i + 1].kind = "footer"
        BY <1>2, <3>1
      <3>4. i + 1 = Len(pipe) /\ stop /\ pc = "exited"
        BY <3>2, <3>3 DEF FooterLast, FooterMeansClean
      <3>5. i = Len(pipe')
        <4>1. i + 1 = Len(pipe) /\ Len(pipe') = Len(pipe) - 1
          BY <3>1, <3>4
        <4>2. Len(pipe) \in Nat /\ Len(pipe') \in Nat
          BY <1>0
        <4>. QED
          BY <4>1, <4>2
      <3>6. stop' /\ pc' = "exited"
        BY <1>1, <3>4
      <3>. QED
        BY <3>5, <3>6
    <2>3. ASSUME pc \in {"header", "emit", "footer"}, NEW line \in Lines, Emit(line), stop' = stop,
                 line.kind = "footer" => pc = "footer" /\ pc' = "exited"
          PROVE  i = Len(pipe') /\ stop' /\ pc' = "exited"
      <3>1. /\ Len(pipe') = Len(pipe) + 1
            /\ \A k \in 1..Len(pipe) : pipe'[k] = pipe[k]
            /\ pipe'[Len(pipe) + 1] = line
        BY <2>3, EmitShape DEF TypeOK
      <3>2. i \notin 1..Len(pipe)
        BY <1>0, <1>2, <2>3, <3>1 DEF FooterLast, FooterMeansClean
      <3>3. i = Len(pipe) + 1 /\ line.kind = "footer"
        BY <1>0, <1>2, <3>1, <3>2
      <3>. QED
        BY <2>3, <3>1, <3>3 DEF FooterLast
    <2>. QED
      BY <2>1, <2>2, <2>3, PipeSteps
  <1>. QED
    BY <1>0, <1>1, <1>2 DEF FooterLast, FooterMeansClean

(* "Footer so a consumer can detect a clean exit": nothing follows a footer, and   *)
(* whoever sees one knows that a signal came and the loop was left.           *)
THEOREM FooterIsClean == Spec => []FooterMeansClean
  <1>1. FooterLast => FooterMeansClean
    BY DEF FooterLast
  <1>. QED
    BY <1>1, InitOlder, NextFooter, TypeCorrect, PTL DEF Spec
=============================================================================
