----------------------------- MODULE LiveStream -----------------------------
(***************************************************************************)
(* scripts/live-dashboard.sh: cppbench --stream on the device                *)
(* (bench/stream/streamer.cpp over bench/sensors/sensors.cpp), the pipe, and *)
(* scripts/dashboard.py on the host.                                        *)
(*                                                                          *)
(* The streamer is one thread; it interleaves with the sensor service that   *)
(* fills its event queue, with the signal that sets g_stop at any instant,   *)
(* and with the reader of its output, who may go away.                      *)
(***************************************************************************)
EXTENDS CommandLine, FiniteSetsExt

CONSTANTS
    Invocations,   \* the argument vectors cppbench may be started with
    Sensors,       \* sensors of the device
    Mode,          \* Mode[s]: reporting mode 0 continuous, 1 on-change, 2 one-shot, 3 special
    Place,         \* Place[s]: where in the list of sensors the dashboard draws s
    NonFinite,     \* events whose values hold a NaN or an infinity
    BatchSize,     \* events one getEvents call returns at most (64)
    PipeSize,      \* bound: lines that fit between the two programs
    MaxEvents      \* bound: sensor events in a behaviour

ASSUME StreamAssumption == /\ Mode \in [Sensors -> 0..3]
                           /\ Place \in [Sensors -> Nat \ {0}]
                           /\ \A s, t \in Sensors : Place[s] = Place[t] => s = t
                           /\ BatchSize \in Nat \ {0} /\ PipeSize \in Nat \ {0}
                           /\ MaxEvents \in Nat
                           /\ Invocations # {}
                           /\ NonFinite \subseteq 1..MaxEvents

VARIABLES
    argv,         \* its arguments
    pc,           \* where cppbench is
    stop,         \* g_stop
    valid,        \* sampler.valid()
    enabled,      \* sensors the event queue delivers
    owner,        \* owner[e]: the sensor that produced event e, in order of time
    queue,        \* the sensor event queue
    batch,        \* the vector drain() accumulates
    latest,       \* latest[s]: event held by the map, 0 when it has no entry
    pipe,         \* lines on their way to the dashboard
    dash,         \* dashboard.py: "reading" or "ended"
    header,       \* and whether it has seen a header
    lines,        \* the sensors that have a line on the terminal
    shown         \* shown[s]: the last reading drawn of s, 0 if there was none

screenVars == <<lines, shown>>
readerVars == <<dash, header, screenVars>>
sourceVars == <<argv, valid, enabled, owner>>
vars == <<pc, stop, sourceVars, queue, batch, latest, pipe, readerVars>>

Events == 1..MaxEvents
Readings == [Sensors -> 0..MaxEvents]
NoReadings == [s \in Sensors |-> 0]
Lines == [kind : {"header", "frame", "footer"}, data : Readings]
Line(k, d) == [kind |-> k, data |-> d]

PCs == {"main",     \* exec'ed
        "start",    \* at the top of run(), signal handlers not installed
        "header", "enable",
        "top",      \* while (!g_stop.load())
        "poll",     \* inside ALooper_pollOnce or usleep
        "drain",    \* the getEvents loop
        "emit",     \* the frame is built, printf and fflush to come
        "footer",
        "exited", "refused", "killed"}  \* status 0, status 2, a signal
Ended == pc \in {"exited", "refused", "killed"}

TypeOK ==
    /\ argv \in Invocations /\ pc \in PCs
    /\ stop \in BOOLEAN
    /\ valid \in BOOLEAN
    /\ enabled \subseteq Sensors
    /\ owner \in Seq(Sensors) /\ Len(owner) <= MaxEvents
    /\ queue \in Seq(Events) /\ batch \in Seq(Events)
    /\ latest \in Readings
    /\ pipe \in Seq(Lines) /\ Len(pipe) <= PipeSize
    /\ dash \in {"reading", "ended"} /\ header \in BOOLEAN
    /\ lines \subseteq Sensors /\ shown \in Readings

Init ==
    /\ argv \in Invocations /\ pc = "main" /\ stop = FALSE
    /\ valid \in BOOLEAN /\ enabled = {} /\ owner = <<>>
    /\ queue = <<>> /\ batch = <<>> /\ latest = NoReadings
    /\ pipe = <<>>
    /\ dash = "reading" /\ header = FALSE
    /\ lines = {} /\ shown = NoReadings

Goto(from, to) == pc = from /\ pc' = to

-----------------------------------------------------------------------------
(* cppbench --stream *)

(* main up to bench::stream::run; whatever else it prints holds no line of a      *)
(* kind that the dashboard knows.                                           *)
Main == /\ pc = "main"
        /\ pc' = CASE Task(Parse(argv)) = "stream" -> "start"
                  [] Task(Parse(argv)) = "refused" -> "refused"
                  [] OTHER -> "exited"
        /\ UNCHANGED <<stop, sourceVars, queue, batch, latest, pipe, readerVars>>

IntervalMs == Parse(argv).interval_ms

(* run() begins by installing the handlers. *)
Start == /\ Goto("start", "header")
         /\ UNCHANGED <<stop, sourceVars, queue, batch, latest, pipe, readerVars>>

(* printf and fflush: they block while the pipe is full and somebody reads it. *)
Emit(line) == Len(pipe) < PipeSize /\ pipe' = Append(pipe, line)

EmitHeader == /\ Goto("header", "enable")
              /\ Emit(Line("header", NoReadings))
              /\ UNCHANGED <<stop, sourceVars, queue, batch, latest, readerVars>>

(* The default configuration passes over one-shot and special sensors.  Every  *)
(* enable may fail, and nobody looks.                                       *)
EnableSensors ==
    /\ Goto("enable", "top")
    /\ enabled' \in SUBSET {s \in Sensors : valid /\ Mode[s] \in {0, 1}}
    /\ UNCHANGED <<stop, argv, valid, owner, queue, batch, latest, pipe, readerVars>>

TopOnce == \* mutant: do ... while, with the flag read before the loop only
    /\ Goto("top", "poll")
    /\ batch' = <<>>
    /\ UNCHANGED <<stop, sourceVars, queue, latest, pipe, readerVars>>

LoopTop == /\ pc = "top"
           /\ pc' = IF stop THEN "footer" ELSE "poll"
           /\ batch' = <<>>
           /\ UNCHANGED <<stop, sourceVars, queue, latest, pipe, readerVars>>

(* pollOnce returns once an event is there, or when the interval has run out,    *)
(* which may be at any time unless the interval is negative: that never runs   *)
(* out.  Without a sampler usleep sleeps it out, a negative one converted to   *)
(* an unsigned number of microseconds, 71 minutes at most.                   *)
PollReturns ==
    /\ Goto("poll", IF valid THEN "drain" ELSE "emit")
    /\ valid /\ IntervalMs < 0 => queue # <<>>
    /\ UNCHANGED <<stop, sourceVars, queue, batch, latest, pipe, readerVars>>

TakeUpTo(n) == IF n < Len(queue) THEN n ELSE Len(queue)

GetEvents ==
    /\ pc = "drain" /\ queue # <<>>
    /\ LET n == TakeUpTo(BatchSize) IN
         /\ batch' = batch \o SubSeq(queue, 1, n)
         /\ queue' = SubSeq(queue, n + 1, Len(queue))
    /\ UNCHANGED <<pc, stop, sourceVars, latest, pipe, readerVars>>

(* The positions of sensor s in the drained vector. *)
At(s) == {i \in DOMAIN batch : owner[batch[i]] = s}

FoldFirst == \* mutant: latest.emplace, which keeps the entry it finds
    /\ Goto("drain", "emit") /\ queue = <<>>
    /\ latest' = [s \in Sensors |-> IF latest[s] # 0 \/ At(s) = {} THEN latest[s] ELSE batch[Min(At(s))]]
    /\ UNCHANGED <<stop, sourceVars, queue, batch, pipe, readerVars>>

FoldByMode == \* mutant: the map is keyed by the reporting mode
    /\ Goto("drain", "emit") /\ queue = <<>>
    /\ latest' = [m \in {Mode[s] : s \in Sensors} |-> Len(batch)]
    /\ UNCHANGED <<stop, sourceVars, queue, batch, pipe, readerVars>>

FoldFresh == \* mutant: the map is a local of the loop body
    /\ Goto("drain", "emit") /\ queue = <<>>
    /\ latest' = [s \in Sensors |-> IF At(s) = {} THEN 0 ELSE batch[Max(At(s))]]
    /\ UNCHANGED <<stop, sourceVars, queue, batch, pipe, readerVars>>

(* getEvents finds nothing: latest[r.handle] = r, in the order drained. *)
FoldReadings ==
    /\ Goto("drain", "emit") /\ queue = <<>>
    /\ latest' = [s \in Sensors |-> IF At(s) = {} THEN latest[s] ELSE batch[Max(At(s))]]
    /\ UNCHANGED <<stop, sourceVars, queue, batch, pipe, readerVars>>

EmitFrame ==
    /\ Goto("emit", "top")
    /\ Emit(Line("frame", latest))
    /\ UNCHANGED <<stop, sourceVars, queue, batch, latest, readerVars>>

FooterInLoop == \* mutant: the footer is emitted inside the loop
    /\ Goto("footer", "top")
    /\ Emit(Line("footer", NoReadings))
    /\ UNCHANGED <<stop, sourceVars, queue, batch, latest, readerVars>>

(* The footer, then the sampler's destructor disables the sensors. *)
EmitFooter ==
    /\ Goto("footer", "exited")
    /\ Emit(Line("footer", NoReadings))
    /\ enabled' = {}
    /\ UNCHANGED <<stop, argv, valid, owner, queue, batch, latest, readerVars>>

(* Nobody reads any more: once the buffers in between are full the write        *)
(* raises SIGPIPE, for which no handler is installed.                       *)
Sigpipe == /\ pc \in {"header", "emit", "footer"} /\ dash = "ended"
           /\ pc' = "killed" /\ enabled' = {}
           /\ UNCHANGED <<stop, argv, valid, owner, queue, batch, latest, pipe, readerVars>>

-----------------------------------------------------------------------------
(* The sensor service and the signal *)

Produce(s) == /\ ~Ended /\ s \in enabled
              /\ Len(owner) < MaxEvents
              /\ owner' = Append(owner, s)
              /\ queue' = Append(queue, Len(owner) + 1)
              /\ UNCHANGED <<pc, stop, argv, valid, enabled, batch, latest, pipe, readerVars>>

(* SIGINT or SIGTERM: fatal before install_signal_handlers, a flag after it.   *)
(* It cuts a poll or a sleep short only if that has already begun.          *)
Signal == /\ ~Ended /\ ~stop
          /\ \/ pc \in {"main", "start"} /\ pc' = "killed" /\ UNCHANGED stop
             \/ /\ stop' = TRUE
                /\ pc' = IF pc = "poll" THEN (IF valid THEN "drain" ELSE "emit") ELSE pc
                /\ pc \notin {"main", "start"}
          /\ UNCHANGED <<sourceVars, queue, batch, latest, pipe, readerVars>>

-----------------------------------------------------------------------------
(* dashboard.py *)

(* json.h prints a NaN as nan, which json.loads refuses. *)
Parses(line) == \A s \in Sensors : line.data[s] \notin NonFinite

(* render_frame: the sensors of the frame, by type, below lines whose number    *)
(* follows the zones that could be read; what the terminal has no room for is *)
(* cut off behind the sensor at place last, or before the first.             *)
Draw(data, last) ==
    /\ lines' = {s \in Sensors : data[s] # 0 /\ Place[s] <= last}
    /\ shown' = [s \in Sensors |-> IF s \in lines' THEN data[s] ELSE shown[s]]

(* One line of stdin: json.loads or skip, then by kind. *)
ReadLine ==
    /\ dash = "reading" /\ pipe # <<>>
    /\ pipe' = Tail(pipe)
    /\ LET line == Head(pipe) IN
         /\ header' = (header \/ line.kind = "header")
         /\ dash' = IF line.kind = "footer" THEN "ended" ELSE "reading"
         /\ IF line.kind = "frame" /\ header /\ Parses(line)
            THEN \E last \in {0} \cup {Place[s] : s \in Sensors} : Draw(line.data, last)
            ELSE UNCHANGED screenVars
    /\ UNCHANGED <<pc, stop, sourceVars, queue, batch, latest>>

(* End of file, or KeyboardInterrupt. *)
EndOfInput == /\ dash = "reading" /\ pipe = <<>> /\ Ended
              /\ dash' = "ended"
              /\ UNCHANGED <<pc, stop, sourceVars, queue, batch, latest, pipe, header, screenVars>>

CtrlC == /\ dash = "reading"
         /\ dash' = "ended"
         /\ UNCHANGED <<pc, stop, sourceVars, queue, batch, latest, pipe, header, screenVars>>

-----------------------------------------------------------------------------
StreamerStep == \/ Main \/ Start \/ EmitHeader \/ EnableSensors \/ LoopTop \/ PollReturns \/ GetEvents
                \/ FoldReadings \/ EmitFrame \/ EmitFooter \/ Sigpipe
DashboardStep == ReadLine \/ EndOfInput

Next == StreamerStep \/ DashboardStep \/ Signal \/ CtrlC \/ \E s \in Sensors : Produce(s)

(* Both programs run when they can; a poll whose timeout is not negative ends.   *)
(* Signals, Ctrl-C and sensor events are never owed, and events come slower   *)
(* than they are drained (MaxEvents).                                        *)
Fairness == WF_vars(StreamerStep) /\ WF_vars(DashboardStep)

Spec == Init /\ [][Next]_vars /\ Fairness

-----------------------------------------------------------------------------
(* "Map handle -> latest reading so we always emit the most recent value": the   *)
(* frame about to be printed holds, for every sensor, the newest event that  *)
(* has left the queue, over any number of drains and batches.               *)
Newest(s) == Max({0} \cup {e \in DOMAIN owner : owner[e] = s /\ \A i \in DOMAIN queue : queue[i] # e})
FrameIsNewest == pc = "emit" => \A s \in Sensors : latest[s] = Newest(s)

(* A reading on the terminal is never followed by an older one of its sensor,    *)
(* also when its line was cut off in between.  A line that was there is missing *)
(* from the next screen only if the terminal had no room for it: then no line  *)
(* is drawn below its place either.                                         *)
ScreenNeverGoesBack == [][\A s \in Sensors :
    /\ shown'[s] >= shown[s]
    /\ s \in lines \ lines' => \A u \in lines' : Place[u] < Place[s]]_vars

(* "Footer so a consumer can detect a clean exit": a footer is the last line,    *)
(* behind a signal and a finished run; a killed streamer leaves none.        *)
FooterMeansClean ==
    \A i \in DOMAIN pipe : pipe[i].kind = "footer" => (i = Len(pipe) /\ stop /\ pc = "exited")

(* "until SIGINT", and live-dashboard.sh: "The remote cppbench process receives    *)
(* SIGPIPE when the local pipe closes": a signal ends the streamer, wherever  *)
(* in its loop it comes, and so does a reader that goes away, without any      *)
(* signal; unless the streamer waits for a reader that never reads, or has    *)
(* been told to wait for events without end: then a signal between the test   *)
(* of g_stop and the poll is not noticed before the next event.              *)
StreamerEnds == ((stop \/ dash = "ended") /\ IntervalMs >= 0) ~> Ended

(* "bash scripts/live-dashboard.sh <adb-serial>    # specific device": the        *)
(* arguments the script documents make cppbench stream.                      *)
UsageStreams == pc # "refused"
=============================================================================
