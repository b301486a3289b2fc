------------------------------ MODULE Clusters ------------------------------
(***************************************************************************)
(* detect_clusters() of bench/affinity.cpp: one read of cpuinfo_max_freq per *)
(* CPU, the buckets of a std::map, and one pass over each bucket that cuts   *)
(* it wherever the CPU numbers are not consecutive.                         *)
(***************************************************************************)
EXTENDS Integers, Sequences

CONSTANTS N,       \* num_cpus(): configured CPUs, online or not
          Freqs    \* the maximal frequencies sysfs may report, in kHz

ASSUME ClusterAssumption == N \in Nat /\ Freqs \subseteq Nat \ {0}

CPUs == 0..N - 1
Unreadable == 0
CpuCluster == [min_id : CPUs, max_id : CPUs, max_freq_khz : Freqs \cup {Unreadable}]

VARIABLES
    cpufreq,   \* cpufreq[c]: what the file of CPU c would say
    at,        \* where the function is: "read", "bucket", "scan", "sort", "done"
    next,      \* the next CPU to read
    freq,      \* by_freq, as a map from the CPUs read so far to their keys
    key,       \* kv.first of the bucket being cut, -1 before the first
    start,     \* first CPU of the island being scanned
    prev,      \* last CPU of it seen so far
    out        \* the vector

cvars == <<cpufreq, at, next, freq, key, start, prev, out>>

ClusterTypeOK ==
    /\ cpufreq \in [CPUs -> Freqs]
    /\ at \in {"read", "bucket", "scan", "sort", "done"}
    /\ next \in 0..N
    /\ freq \in [0..next - 1 -> Freqs \cup {Unreadable}]
    /\ key \in Freqs \cup {Unreadable, -1}
    /\ start \in 0..N /\ prev \in 0..N
    /\ out \in Seq(CpuCluster)

ClusterInit ==
    /\ cpufreq \in [CPUs -> Freqs]
    /\ at = "read" /\ next = 0 /\ freq = [c \in {} |-> 0]
    /\ key = -1 /\ start = 0 /\ prev = 0 /\ out = <<>>

-----------------------------------------------------------------------------
(* read_max_freq: a CPU that is hotplugged off, or whose file may not be read,  *)
(* answers 0.                                                               *)
ReadMaxFreq ==
    /\ at = "read" /\ next < N
    /\ \E f \in {cpufreq[next], Unreadable} :
          freq' = [c \in 0..next |-> IF c = next THEN f ELSE freq[c]]
    /\ next' = next + 1
    /\ UNCHANGED <<cpufreq, at, key, start, prev, out>>

AllRead == /\ at = "read" /\ next = N
           /\ at' = "bucket"
           /\ UNCHANGED <<cpufreq, next, freq, key, start, prev, out>>

Bucket(k) == {c \in DOMAIN freq : freq[c] = k}
Keys == {freq[c] : c \in DOMAIN freq}
First(c, S) == c \in S /\ \A d \in S : c <= d

(* The loop over the map, in ascending order of its keys. *)
NextBucket ==
    /\ at = "bucket"
    /\ \E k \in Keys : First(k, {l \in Keys : l > key}) /\ key' = k
    /\ \E c \in Bucket(key') : First(c, Bucket(key')) /\ start' = c /\ prev' = c
    /\ at' = "scan"
    /\ UNCHANGED <<cpufreq, next, freq, out>>

NoBucketLeft == /\ at = "bucket"
                /\ \A k \in Keys : k <= key
                /\ at' = "sort"
                /\ UNCHANGED <<cpufreq, next, freq, key, start, prev, out>>

Island == [min_id |-> start, max_id |-> prev, max_freq_khz |-> key]
Rest == {c \in Bucket(key) : c > prev}

ScanCpuUncut == \* mutant: the test for a gap is dropped
    /\ at = "scan"
    /\ \E c \in Rest : First(c, Rest) /\ prev' = c
    /\ UNCHANGED <<cpufreq, at, next, freq, key, start, out>>

(* One turn of the inner loop: a gap ends the island. *)
ScanCpu ==
    /\ at = "scan"
    /\ \E c \in Rest :
          /\ First(c, Rest)
          /\ prev' = c
          /\ IF c # prev + 1 THEN out' = Append(out, Island) /\ start' = c
                             ELSE UNCHANGED <<out, start>>
    /\ UNCHANGED <<cpufreq, at, next, freq, key>>

EndOfBucket == /\ at = "scan" /\ Rest = {}
               /\ out' = Append(out, Island)
               /\ at' = "bucket"
               /\ UNCHANGED <<cpufreq, next, freq, key, start, prev>>

Ascending(s) == \A i, j \in DOMAIN s : i < j => s[i].max_freq_khz <= s[j].max_freq_khz
Reorderings(s) == {[i \in DOMAIN s |-> s[p[i]]] :
                      p \in {q \in [DOMAIN s -> DOMAIN s] : \A i, j \in DOMAIN s : q[i] = q[j] => i = j}}

(* std::sort by max_freq_khz, which promises nothing about equal elements. *)
SortClusters == /\ at = "sort"
                /\ \E s \in Reorderings(out) : Ascending(s) /\ out' = s
                /\ at' = "done"
                /\ UNCHANGED <<cpufreq, next, freq, key, start, prev>>

DetectClusters == \/ ReadMaxFreq \/ AllRead \/ NextBucket \/ NoBucketLeft
                  \/ ScanCpu \/ EndOfBucket \/ SortClusters

-----------------------------------------------------------------------------
(* What affinity.h calls a cluster once the layout is not contiguous: a longest  *)
(* run of consecutive CPUs that gave the same answer.                       *)
Islands == {k \in CpuCluster :
    /\ \A c \in k.min_id..k.max_id : freq[c] = k.max_freq_khz
    /\ k.min_id <= k.max_id
    /\ k.min_id > 0 => freq[k.min_id - 1] # k.max_freq_khz
    /\ k.max_id < N - 1 => freq[k.max_id + 1] # k.max_freq_khz}

(* detect_clusters returns every island of equal answers once and nothing else,  *)
(* in ascending order of the answers, and a cluster that names a frequency    *)
(* holds only CPUs of that frequency.  It is not said that a cluster is one  *)
(* kind of core: CPUs that could not be read answer 0 and come first, and     *)
(* neighbours among them form one island whatever they are.  Then [0] is not *)
(* the LITTLE cluster of affinity.h, and a loop that pins max_id sees one    *)
(* kind of the island's cores.                                              *)
ClustersAreIslands ==
    at = "done" => /\ {out[i] : i \in DOMAIN out} = Islands
                   /\ \A i, j \in DOMAIN out : out[i] = out[j] => i = j
                   /\ Ascending(out)
                   /\ \A i \in DOMAIN out : out[i].max_freq_khz # Unreadable =>
                         \A c \in out[i].min_id..out[i].max_id : cpufreq[c] = out[i].max_freq_khz
=============================================================================
