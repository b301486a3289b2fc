----------------------------- MODULE KernelGate -----------------------------
(***************************************************************************)
(* The rows of neon_fma, dot_int8, i8mm, sve2 and stream for one metric, on    *)
(* one device: the run-time gate on AT_HWCAP (bench/hwcaps.cpp), best_of over *)
(* the kernel, the sentinel -1 where it was not allowed to run, the error     *)
(* object of a stream row without memory, and scripts/aggregate-runs.py,     *)
(* which pools the rows of several runs.                                     *)
(*                                                                          *)
(* Cores may differ in what they execute, and the kernel may deny userspace   *)
(* more than the silicon does.  A thread that is not pinned may be moved      *)
(* between the gate and the kernel, or between two calls of it.  Every       *)
(* cluster is represented by the CPU its row is pinned to.                   *)
(***************************************************************************)
EXTENDS Integers, Sequences

CONSTANTS
    NClusters,           \* how many clusters the device has
    Warmup, Iterations,  \* of the benchmark's configuration
    Rates,               \* rates a call may measure
    MaxRuns              \* bound: runs that are aggregated

ASSUME GateAssumption == /\ NClusters \in Nat \ {0} /\ Warmup \in Nat
                         /\ Iterations \in Nat \ {0} /\ MaxRuns \in Nat \ {0}
                         /\ Rates \subseteq Nat

VARIABLES
    gatePc,     \* "row", "call", "collect" or "killed" (by SIGILL)
    metric,     \* the metric under way
    built,      \* its kernel is compiled in for this ABI
    has,        \* has[c]: features of cluster c that the metric needs
    denied,     \* features the kernel keeps from userspace
    core,       \* the CPU the thread is on
    held,       \* the pin to it succeeded
    calls,      \* calls of the kernel by best_of, warm-up included
    best,       \* best_of's result
    timed,      \* history, timed[c]: rates measured by the timed calls of c's rows
    doc,        \* the run's document: a rate per cluster so far
    docs,       \* the files handed to aggregate-runs.py
    collected,  \* how many of them collect() has been through
    pool        \* pool[c]: the samples of cluster c

gateVars == <<gatePc, metric, built, has, denied, core, held, calls, best, timed, doc, docs,
              collected, pool>>

CPU == 1..NClusters
Sentinel == -1
Absent == -2    \* the row has no such metric
Values == Rates \cup {Sentinel, Absent}

(* The HWCAP bits a metric's gate asks for; the instructions need the same. *)
Needs == [copy |-> {}, fp32 |-> {}, fp16 |-> {"ASIMDHP"}, dot |-> {"ASIMDDP"}, smmla |-> {"I8MM"},
          svmla |-> {"SVE", "SVE2"}]

(* What a core executes, and what AT_HWCAP reports: features of all cores. *)
Executes(c) == has[c] \ denied
Hwcap == {f \in Needs[metric] : \A c \in CPU : f \in Executes(c)}

GateTypeOK ==
    /\ gatePc \in {"row", "call", "collect", "killed"}
    /\ metric \in DOMAIN Needs /\ built \in BOOLEAN
    /\ has \in [CPU -> SUBSET Needs[metric]] /\ denied \subseteq Needs[metric]
    /\ core \in CPU /\ held \in BOOLEAN
    /\ calls \in 0..Warmup + Iterations
    /\ best \in Rates \cup {Sentinel} /\ timed \in [CPU -> SUBSET Rates]
    /\ doc \in Seq(Values) /\ Len(doc) <= NClusters
    /\ \A r \in DOMAIN docs : docs[r] \in [CPU -> Values]
    /\ collected \in 0..Len(docs)
    /\ \A c \in CPU : pool[c] \in Seq(Rates) /\ Len(pool[c]) <= collected

GateInit ==
    /\ gatePc = "row" /\ metric \in DOMAIN Needs /\ built \in BOOLEAN
    /\ metric = "copy" => built     \* plain C++, on every ABI
    /\ has \in [CPU -> SUBSET Needs[metric]] /\ denied \in SUBSET Needs[metric]
    /\ core \in CPU /\ held = FALSE
    /\ calls = 0 /\ best = Sentinel /\ timed = [c \in CPU |-> {}]
    /\ doc = <<>> /\ docs = <<>>
    /\ collected = 0 /\ pool = [c \in CPU |-> <<>>]

Cluster == Len(doc) + 1     \* the one whose row is under way

GateHere == Needs[metric] \subseteq Executes(core) \* mutant: asks the core it is on

(* has_neon_fp16, has_dotprod, has_i8mm, has_sve2 *)
Gate == Needs[metric] \subseteq Hwcap

(* The pin, then the gate: the row is the sentinel unless the kernel is           *)
(* compiled in and permitted.  (The stub that stands in for a missing fp32    *)
(* kernel returns the sentinel, which best_of hands on.)  run_stream needs    *)
(* three arrays, and without them answers with an error only.                *)
StartKernelRow ==
    /\ gatePc = "row" /\ Cluster <= NClusters
    /\ held' \in BOOLEAN
    /\ core' = IF held' THEN Cluster ELSE core
    /\ best' = Sentinel /\ calls' = 0
    /\ \/ built /\ Gate /\ gatePc' = "call" /\ UNCHANGED doc
       \/ ~(built /\ Gate) /\ UNCHANGED gatePc /\ doc' = Append(doc, Sentinel)
       \/ metric = "copy" /\ UNCHANGED gatePc /\ doc' = Append(doc, Absent)
    /\ UNCHANGED <<metric, built, has, denied, timed, docs, collected, pool>>

(* One call of measure_*: warm-up or timed; a core that does not execute its     *)
(* instructions raises SIGILL.                                              *)
CallKernel ==
    /\ gatePc = "call" /\ calls < Warmup + Iterations
    /\ calls' = calls + 1
    /\ IF Needs[metric] \subseteq Executes(core)
       THEN \E v \in Rates :
              /\ best' = IF calls >= Warmup /\ v > best THEN v ELSE best
              /\ timed' = IF calls >= Warmup THEN [timed EXCEPT ![Cluster] = @ \cup {v}] ELSE timed
              /\ UNCHANGED gatePc
       ELSE gatePc' = "killed" /\ UNCHANGED <<best, timed>>
    /\ UNCHANGED <<metric, built, has, denied, core, held, doc, docs, collected, pool>>

EndKernelRow ==
    /\ gatePc = "call" /\ calls = Warmup + Iterations
    /\ doc' = Append(doc, best)
    /\ gatePc' = "row"
    /\ UNCHANGED <<metric, built, has, denied, core, held, calls, best, timed, docs, collected, pool>>

(* The document is written; another run follows, or the runs are aggregated. *)
EndOfRun ==
    /\ gatePc = "row" /\ Len(doc) = NClusters
    /\ docs' = Append(docs, doc) /\ doc' = <<>>
    /\ gatePc' \in IF Len(docs') < MaxRuns THEN {"row", "collect"} ELSE {"collect"}
    /\ UNCHANGED <<metric, built, has, denied, core, held, calls, best, timed, collected, pool>>

(* The scheduler moves a thread that is not pinned. *)
Wander == /\ gatePc = "call" /\ ~held
          /\ core' \in CPU \ {core}
          /\ UNCHANGED <<gatePc, metric, built, has, denied, held, calls, best, timed, doc, docs,
                         collected, pool>>

CollectAll == \* mutant: only rows without the metric are skipped
    /\ gatePc = "collect" /\ collected < Len(docs)
    /\ collected' = collected + 1
    /\ pool' = [c \in CPU |-> LET v == docs[collected'][c]
                              IN  IF v # Absent THEN Append(pool[c], v) ELSE pool[c]]
    /\ UNCHANGED <<gatePc, metric, built, has, denied, core, held, calls, best, timed, doc, docs>>

(* collect() on the next file: skipped if it cannot be read, otherwise one        *)
(* sample per row that holds the metric and is no sentinel; "pinned" is not   *)
(* looked at.                                                               *)
Collect ==
    /\ gatePc = "collect" /\ collected < Len(docs)
    /\ collected' = collected + 1
    /\ \/ pool' = [c \in CPU |-> LET v == docs[collected'][c]
                                 IN  IF v # Absent /\ v >= 0 THEN Append(pool[c], v) ELSE pool[c]]
       \/ UNCHANGED pool
    /\ UNCHANGED <<gatePc, metric, built, has, denied, core, held, calls, best, timed, doc, docs>>

GateNext == \/ StartKernelRow \/ CallKernel \/ EndKernelRow \/ EndOfRun
            \/ Wander \/ Collect

GateSpec == GateInit /\ [][GateNext]_gateVars

(* CMakeLists.txt, of the kernels behind a gate: "they're never invoked on a        *)
(* non-DotProd core" - nor any other on a core that cannot execute it,       *)
(* wherever the thread is moved after the gate and whatever the kernel        *)
(* denies.  Otherwise the row costs the whole process.                       *)
NoIllegalInstruction == gatePc # "killed"

(* Every number that goes into a median was measured by a timed call for a row    *)
(* that names that cluster, wherever an unpinned row ran: neither the sentinel   *)
(* of a row whose kernel did not run, nor a warm-up, nor a failed allocation    *)
(* gets into the pool.                                                      *)
PoolIsMeasured == \A c \in CPU : \A i \in DOMAIN pool[c] : pool[c][i] \in timed[c]
=============================================================================
