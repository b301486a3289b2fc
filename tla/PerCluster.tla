----------------------------- MODULE PerCluster -----------------------------
(***************************************************************************)
(* One native job seen from the scheduler: detect_clusters, then for each     *)
(* selected benchmark the loop of its run_*_per_cluster - pin the thread,    *)
(* measure, append a row that says where and whether the pin succeeded.      *)
(*                                                                          *)
(* The thread belongs to the pool of Dispatchers.IO (or is cppbench's main    *)
(* thread); its affinity mask is the kernel's and outlives the row, the      *)
(* benchmark and the job: nothing in the code restores it.  Meanwhile cores   *)
(* are taken offline (thermal core control) and come back.                   *)
(***************************************************************************)
EXTENDS Clusters

CONSTANTS
    Benches,      \* the selected benchmarks, as the way each one places itself
    MaxHotplug,   \* bound: cores taken offline in a behaviour
    MaxJobs       \* bound: jobs one pool thread serves

(* "cluster": pin_to_cluster(c), once per cluster (stream, latency);           *)
(* "cpu": pin_to_cpu(c.max_id), once per cluster (neon_fma, dot_int8, i8mm,   *)
(* sve2, perf_counters); "big": pin_to_cpu of the last cluster (sustained).   *)
ASSUME PlacementAssumption == /\ N > 0
                              /\ Benches \in Seq({"cluster", "cpu", "big"})
                              /\ MaxHotplug \in Nat /\ MaxJobs \in Nat \ {0}

VARIABLES
    online,     \* CPUs the kernel schedules on
    mask,       \* affinity mask of the thread
    cpu,        \* CPU it is on
    bench,      \* index of the benchmark under way
    idx,        \* index of the cluster under way, 0 before the benchmark's loop
    measuring,  \* the row's measurement is running
    pinned,     \* what the latest pin_to_* answered
    ran,        \* history: CPUs the row under way has run on
    disturbed,  \* history: the kernel had to override the mask meanwhile
    rows,       \* the rows of this job
    hotplugs, jobs

threadVars == <<online, mask, cpu, hotplugs>>
rowVars == <<bench, idx, measuring, pinned, ran, disturbed, rows>>
placeVars == <<cvars, threadVars, rowVars, jobs>>

Row == [bench : DOMAIN Benches, cpus : SUBSET CPUs, pinned : BOOLEAN,
        ran : SUBSET CPUs, disturbed : BOOLEAN]

PlaceTypeOK ==
    /\ ClusterTypeOK
    /\ online \subseteq CPUs /\ online # {}
    /\ mask \subseteq CPUs /\ cpu \in mask \cap online
    /\ bench \in 1..Len(Benches) + 1 /\ idx \in 0..N + 1 /\ measuring \in BOOLEAN
    /\ pinned \in BOOLEAN /\ ran \subseteq CPUs /\ disturbed \in BOOLEAN
    /\ rows \in Seq(Row)
    /\ hotplugs \in 0..MaxHotplug /\ jobs \in 0..MaxJobs

PlaceInit ==
    /\ ClusterInit
    /\ online = CPUs /\ mask = CPUs /\ cpu \in CPUs
    /\ bench = 1 /\ idx = 0 /\ measuring = FALSE
    /\ pinned = FALSE /\ ran = {} /\ disturbed = FALSE /\ rows = <<>>
    /\ hotplugs = 0 /\ jobs = 1

Detect == DetectClusters /\ UNCHANGED <<threadVars, rowVars, jobs>>

Running == at = "done" /\ bench \in DOMAIN Benches

Target(b, c) == IF Benches[b] = "cluster" THEN c.min_id..c.max_id ELSE {c.max_id}

(* The loop over the clusters; sustained takes clusters.back() only. *)
EnterBench == /\ Running /\ idx = 0
              /\ idx' = IF Benches[bench] = "big" THEN Len(out) ELSE 1
              /\ UNCHANGED <<cvars, threadVars, bench, measuring, pinned, ran, disturbed, rows, jobs>>

PinUnchecked(k) == \* mutant: the row says it is pinned whatever the kernel said
    /\ pinned' = TRUE
    /\ IF k \cap online # {} THEN mask' = k /\ cpu' \in k \cap online
                             ELSE UNCHANGED <<mask, cpu>>

(* sched_setaffinity: EINVAL if no CPU of the set can be scheduled on now, and  *)
(* the thread stays where it was; otherwise it is moved at once.             *)
Pin(k) ==
    IF k \cap online # {}
    THEN pinned' = TRUE /\ mask' = k /\ cpu' \in k \cap online
    ELSE pinned' = FALSE /\ UNCHANGED <<mask, cpu>>

StartRow ==
    /\ Running /\ ~measuring /\ idx \in DOMAIN out
    /\ Pin(Target(bench, out[idx]))
    /\ measuring' = TRUE /\ ran' = {cpu'} /\ disturbed' = FALSE
    /\ UNCHANGED <<cvars, online, hotplugs, bench, idx, rows, jobs>>

EndRow ==
    /\ measuring
    /\ rows' = Append(rows, [bench |-> bench, cpus |-> Target(bench, out[idx]),
                             pinned |-> pinned, ran |-> ran, disturbed |-> disturbed])
    /\ measuring' = FALSE /\ idx' = idx + 1
    /\ UNCHANGED <<cvars, threadVars, bench, pinned, ran, disturbed, jobs>>

EndBench ==
    /\ Running /\ ~measuring /\ idx > Len(out)
    /\ bench' = bench + 1 /\ idx' = 0
    /\ UNCHANGED <<cvars, threadVars, measuring, pinned, ran, disturbed, rows, jobs>>

(* The thread goes back to its pool and takes the next job, its mask as it is.  *)
NextJob ==
    /\ at = "done" /\ bench \notin DOMAIN Benches
    /\ jobs < MaxJobs /\ jobs' = jobs + 1
    /\ at' = "read" /\ next' = 0 /\ freq' = [c \in {} |-> 0]
    /\ key' = -1 /\ start' = 0 /\ prev' = 0 /\ out' = <<>>
    /\ bench' = 1 /\ idx' = 0 /\ rows' = <<>>
    /\ UNCHANGED <<cpufreq, threadVars, measuring, pinned, ran, disturbed>>

-----------------------------------------------------------------------------
(* The kernel *)

(* The scheduler moves the thread within its mask. *)
Migrate == /\ measuring
           /\ cpu' \in (mask \cap online) \ {cpu}
           /\ ran' = ran \cup {cpu'}
           /\ UNCHANGED <<cvars, online, mask, hotplugs, bench, idx, measuring, pinned,
                          disturbed, rows, jobs>>

(* A core goes down.  A thread left without a CPU has its mask widened to all.  *)
Offline == \E c \in online :
    /\ online # {c}
    /\ hotplugs < MaxHotplug /\ hotplugs' = hotplugs + 1
    /\ online' = online \ {c}
    /\ IF mask \subseteq {c} \cup (CPUs \ online)
       THEN mask' = CPUs /\ disturbed' = TRUE
       ELSE UNCHANGED <<mask, disturbed>>
    /\ IF cpu = c THEN cpu' \in mask' \cap online' ELSE UNCHANGED cpu
    /\ ran' = IF measuring THEN ran \cup {cpu'} ELSE ran
    /\ UNCHANGED <<cvars, bench, idx, measuring, pinned, rows, jobs>>

Online == \E c \in CPUs \ online :
    /\ online' = online \cup {c}
    /\ UNCHANGED <<cvars, mask, cpu, hotplugs, rowVars, jobs>>

JobStep == Detect \/ EnterBench \/ StartRow \/ EndRow \/ EndBench

PlaceNext == JobStep \/ NextJob \/ Migrate \/ Offline \/ Online

PlaceSpec == PlaceInit /\ [][PlaceNext]_placeVars

-----------------------------------------------------------------------------
(* A row that says it was pinned was measured on the CPUs it names and nowhere    *)
(* else, unless the kernel had to take the last of them away meanwhile: no   *)
(* mask left by an earlier row, benchmark or job gets into it.               *)
RowsTellWhere == \A i \in DOMAIN rows :
    (rows[i].pinned /\ ~rows[i].disturbed) => rows[i].ran \subseteq rows[i].cpus
=============================================================================
