------------------------------ MODULE Dispatch ------------------------------
(***************************************************************************)
(* Native calls into libcppandroidtest.so: the benchmark dispatch loop       *)
(* (bench/registry.h) run by nativeRunBenchmarks (jni.cpp), the diagnostic   *)
(* tag it publishes (bench/diag.h) and the crash report that quotes the tag. *)
(*                                                                          *)
(* A caller is a Dispatchers.IO thread inside a native call (or the cppbench *)
(* process, which is a single caller).  Callers interleave freely: the only  *)
(* shared state is the atomic current_bench and the file                    *)
(* benchmarks-latest.json.                                                  *)
(***************************************************************************)
EXTENDS BenchRegistry

CONSTANTS
    Callers,    \* the threads that may be inside a native call
    Idle,       \* the tag "(idle)"
    NoReport    \* no crash dump on disk

ASSUME TagAssumption == Idle \notin Names /\ NoReport \notin [running : Names \cup {Idle}, blame : Names \cup {Idle}]

VARIABLES
    pc,             \* pc[c]: where c is in its native call
    filter,         \* filter[c]: the filter of c's latest call
    slot,           \* slot[c]: the slot the fold over the tuple is at
    results,        \* results[c]: the vector dispatch() accumulates
    reply,          \* reply[c]: the slots listed by the string handed to Kotlin
    current_bench,  \* diag::current_bench
    latest,         \* benchmarks-latest.json: what it holds
    report          \* the crash dump: who was running, whom it blames

vars == <<pc, filter, slot, results, reply, current_bench, latest, report>>

PCs == {"idle",      \* not in a native call
        "clusters",  \* detect_clusters()
        "select",    \* try_one: the two early returns
        "running",   \* b.run_per_cluster(), tagged
        "assemble",  \* build_env_info() and the JSON tree
        "open",      \* maybe_persist: about to open the file
        "write",     \* maybe_persist: file truncated, not written
        "other",     \* a sensor, camera or hwcaps call
        "ok", "error"}

Tags == Names \cup {Idle}
Reports == [running : Tags, blame : Tags]

(* The file is absent, truncated, one whole document, or the bytes of one    *)
(* document over a longer one.                                              *)
LatestFile == [state : {"absent", "truncated", "whole", "mixed"}, slots : Seq(Slots)]

TypeOK ==
    /\ pc \in [Callers -> PCs]
    /\ filter \in [Callers -> Filters]
    /\ slot \in [Callers -> 1..Len(Registry) + 1]
    /\ results \in [Callers -> Seq(Slots)]
    /\ reply \in [Callers -> Seq(Slots)]
    /\ current_bench \in Tags
    /\ latest \in LatestFile
    /\ report \in Reports \cup {NoReport}

Init ==
    /\ pc = [c \in Callers |-> "idle"]
    /\ filter = [c \in Callers |-> DefaultFilter]
    /\ slot = [c \in Callers |-> 1]
    /\ results = [c \in Callers |-> <<>>]
    /\ reply = [c \in Callers |-> <<>>]
    /\ current_bench = Idle
    /\ latest = [state |-> "absent", slots |-> <<>>]
    /\ report = NoReport

Goto(c, from, to) == pc[c] = from /\ pc' = [pc EXCEPT ![c] = to]

Free(c) == pc[c] \in {"idle", "ok", "error"}

-----------------------------------------------------------------------------
(* nativeRunBenchmarks *)

Call(c) == \E f \in Filters :
    /\ Free(c)
    /\ pc' = [pc EXCEPT ![c] = "clusters"]
    /\ filter' = [filter EXCEPT ![c] = f]
    /\ slot' = [slot EXCEPT ![c] = 1]
    /\ results' = [results EXCEPT ![c] = <<>>]
    /\ reply' = [reply EXCEPT ![c] = <<>>]
    /\ UNCHANGED <<current_bench, latest, report>>

DetectClusters(c) ==
    /\ Goto(c, "clusters", "select")
    /\ UNCHANGED <<filter, slot, results, reply, current_bench, latest, report>>

SkipSkippingOne(c) == \* mutant: the fold loses a slot
    /\ pc[c] = "select"
    /\ slot[c] \in Slots
    /\ ~Selected(filter[c], slot[c])
    /\ slot' = [slot EXCEPT ![c] = @ + 2]
    /\ UNCHANGED <<pc, filter, results, reply, current_bench, latest, report>>

SkipInPlace(c) == \* mutant: an early return that never moves on
    /\ pc[c] = "select"
    /\ slot[c] \in Slots
    /\ ~Selected(filter[c], slot[c])
    /\ UNCHANGED vars

(* An early return of try_one: the tag is not touched. *)
Skip(c) ==
    /\ pc[c] = "select"
    /\ slot[c] \in Slots
    /\ ~Selected(filter[c], slot[c])
    /\ slot' = [slot EXCEPT ![c] = @ + 1]
    /\ UNCHANGED <<pc, filter, results, reply, current_bench, latest, report>>

TagAfterwards(c) == \* mutant: set_current moved below run_per_cluster
    /\ Goto(c, "select", "running")
    /\ slot[c] \in Slots
    /\ Selected(filter[c], slot[c])
    /\ UNCHANGED <<filter, slot, results, reply, current_bench, latest, report>>

(* set_current(B::name), then the wrapper runs. *)
Tag(c) ==
    /\ Goto(c, "select", "running")
    /\ slot[c] \in Slots
    /\ Selected(filter[c], slot[c])
    /\ current_bench' = Registry[slot[c]]
    /\ UNCHANGED <<filter, slot, results, reply, latest, report>>

FinishTagged(c) == \* mutant: the tag is not reset
    /\ Goto(c, "running", "select")
    /\ results' = [results EXCEPT ![c] = Append(@, slot[c])]
    /\ slot' = [slot EXCEPT ![c] = @ + 1]
    /\ UNCHANGED <<filter, reply, current_bench, latest, report>>

(* The wrapper returns: emplace_back, set_current("(idle)"). *)
Finish(c) ==
    /\ Goto(c, "running", "select")
    /\ results' = [results EXCEPT ![c] = Append(@, slot[c])]
    /\ slot' = [slot EXCEPT ![c] = @ + 1]
    /\ current_bench' = Idle
    /\ UNCHANGED <<filter, reply, latest, report>>

EndOfTuple(c) ==
    /\ Goto(c, "select", "assemble")
    /\ slot[c] \notin Slots
    /\ UNCHANGED <<filter, slot, results, reply, current_bench, latest, report>>

(* The string is built.  An empty external dir skips maybe_persist. *)
Assemble(c) ==
    /\ \/ Goto(c, "assemble", "open") /\ UNCHANGED reply
       \/ Goto(c, "assemble", "ok") /\ reply' = [reply EXCEPT ![c] = results[c]]
    /\ UNCHANGED <<filter, slot, results, current_bench, latest, report>>

OpenLatestKeeping(c) == \* mutant: opened without truncation
    /\ Goto(c, "open", "write")
    /\ UNCHANGED <<filter, slot, results, reply, current_bench, latest, report>>

(* std::ofstream f(path) truncates, or fails and only logs. *)
OpenLatest(c) ==
    /\ \/ /\ Goto(c, "open", "write")
          /\ latest' = [state |-> "truncated", slots |-> <<>>]
          /\ UNCHANGED reply
       \/ /\ Goto(c, "open", "ok")
          /\ reply' = [reply EXCEPT ![c] = results[c]]
          /\ UNCHANGED latest
    /\ UNCHANGED <<filter, slot, results, current_bench, report>>

(* f << content from offset 0: over a file another caller has filled in the  *)
(* meantime the tail of a longer document may survive.  Whether the stream   *)
(* failed (a full disk) is not looked at; what it wrote of the document then  *)
(* leaves a truncated file truncated.                                       *)
WriteLatest(c) ==
    /\ Goto(c, "write", "ok")
    /\ reply' = [reply EXCEPT ![c] = results[c]]
    /\ \/ latest' = [state |-> "whole", slots |-> results[c]]
       \/ UNCHANGED latest
       \/ /\ latest.state \in {"whole", "mixed"}
          /\ latest' = [state |-> "mixed", slots |-> <<>>]
    /\ UNCHANGED <<filter, slot, results, current_bench, report>>

(* Anything up to opening the file may throw (bad_alloc, an iostream); both   *)
(* handlers return the error envelope and neither resets the tag.           *)
Throw(c) ==
    /\ pc[c] \in {"clusters", "running", "assemble", "open"}
    /\ pc' = [pc EXCEPT ![c] = "error"]
    /\ UNCHANGED <<filter, slot, results, reply, current_bench, latest, report>>

(* nativeHwcaps, nativeEnumerateSensors, nativeEnumerateCameras: native code *)
(* that never sets the tag.                                                 *)
CallOther(c) ==
    /\ Free(c)
    /\ pc' = [pc EXCEPT ![c] = "other"]
    /\ reply' = [reply EXCEPT ![c] = <<>>]
    /\ UNCHANGED <<filter, slot, results, current_bench, latest, report>>

ReturnOther(c) ==
    /\ Goto(c, "other", "idle")
    /\ UNCHANGED <<filter, slot, results, reply, current_bench, latest, report>>

-----------------------------------------------------------------------------
(* A fatal signal in thread c: on_fatal_signal writes the dump with the tag  *)
(* it reads, and the process is gone.  The next process starts from static   *)
(* initialisation; only the two files survive.                              *)
RunningIn(c) == IF pc[c] = "running" THEN Registry[slot[c]] ELSE Idle

Crash(c) ==
    /\ ~Free(c)
    /\ report' = [running |-> RunningIn(c), blame |-> current_bench]
    /\ pc' = [d \in Callers |-> "idle"]
    /\ reply' = [d \in Callers |-> <<>>]
    /\ slot' = [d \in Callers |-> 1]
    /\ results' = [d \in Callers |-> <<>>]
    /\ current_bench' = Idle
    /\ UNCHANGED <<filter, latest>>

Step(c) == \/ DetectClusters(c) \/ Skip(c) \/ Tag(c) \/ Finish(c) \/ EndOfTuple(c)
           \/ Assemble(c) \/ OpenLatest(c) \/ WriteLatest(c) \/ ReturnOther(c)

Next == \E c \in Callers :
    \/ Call(c) \/ CallOther(c) \/ Step(c) \/ Throw(c) \/ Crash(c)

(* A native call is ordinary code on a live thread: it keeps running.  A     *)
(* throw, a crash and a new call are never owed.                            *)
Fairness == \A c \in Callers : WF_vars(Step(c))

Spec == Init /\ [][Next]_vars /\ Fairness

-----------------------------------------------------------------------------
(* With one caller, a crash inside a benchmark's code names that benchmark,   *)
(* whatever earlier calls did or threw (diag.h: the handler reads the tag to  *)
(* identify the bench that triggered the signal).                           *)
RunningBenchBlamed ==
    (report # NoReport /\ report.running # Idle) => report.blame = report.running

(* With one caller, a call that ran something and returned a result leaves    *)
(* the tag at "(idle)", also when an earlier call threw with its tag set.    *)
ResultMeansIdleTag ==
    \A c \in Callers : (pc[c] = "ok" /\ reply[c] # <<>>) => current_bench = Idle

(* With one caller, benchmarks-latest.json is missing, cut short by a crash   *)
(* or a failed write, or one run's document in full, never two documents on  *)
(* top of each other.                                                       *)
LatestIsOneRun == latest.state # "mixed"

(* Callers of nativeRunBenchmarks get what BenchService promises, however     *)
(* many of them run at once: nobody's vector or filter leaks into another's  *)
(* answer and a throw never yields a partial list.                          *)
StatusOf(c) == IF pc[c] \in {"ok", "error"} THEN pc[c]
               ELSE IF pc[c] \in {"idle", "other"} THEN "idle" ELSE "pending"

BS == INSTANCE BenchService WITH request <- filter,
                                 status <- [c \in Callers |-> StatusOf(c)]
ImplementsService == BS!SSpec

(* Every native call ends: with a string, an error envelope, or the process.  *)
CallReturns == \A c \in Callers : ~Free(c) ~> Free(c)
=============================================================================
