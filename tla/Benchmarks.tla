----------------------------- MODULE Benchmarks -----------------------------
(***************************************************************************)
(* The parts of a benchmark job: where its rows are measured (PerCluster),    *)
(* and what runs between StartRow and EndRow - the counters of a              *)
(* perf_counters row, the chain of a latency row, the kernels of the          *)
(* arithmetic and stream rows, the chunks of the sustained row and the sysfs  *)
(* readings behind each of them.                                            *)
(*                                                                          *)
(* The parts share no state: ~PerfGroup closes its descriptors, the buffers   *)
(* of a row are freed in it, a chunk size lives as long as its call; only the *)
(* thread's mask passes from row to row, and that is PerCluster's.  So a      *)
(* behaviour follows one of them.                                            *)
(***************************************************************************)
EXTENDS PerCluster, PerfGroup, LatencyChain, KernelGate, Sustained, Sysfs

VARIABLE part   \* which one it is

Parts == {"placement", "perf_counters", "latency", "kernel", "sustained", "sysfs"}

vars == <<part, placeVars, perfVars, chainVars, gateVars, susVars, sysVars>>

TypeOK == /\ part \in Parts
          /\ PlaceTypeOK /\ PerfTypeOK /\ ChainTypeOK /\ GateTypeOK /\ SusTypeOK /\ SysTypeOK

(* The device is fixed for the parts that do not look at it. *)
Init ==
    /\ part \in Parts
    /\ PlaceInit /\ PerfInit /\ ChainInit /\ GateInit /\ SusInit /\ SysInit
    /\ part # "placement" => cpu = 0 /\ \A c \in CPUs : cpufreq[c] = Max(Freqs)
    /\ part # "kernel" => metric = "copy" /\ core = 1
    /\ part # "sustained" => speed = TopSpeed
    /\ part # "sysfs" => /\ withTemp = {}
                         /\ \A z \in ZoneIds : temperature[z] = INT32_MIN
                         /\ \A c \in Cpus : frequency[c] = 0

Next ==
    \/ /\ part = "placement" /\ PlaceNext
       /\ UNCHANGED <<part, perfVars, chainVars, gateVars, susVars, sysVars>>
    \/ /\ part = "perf_counters" /\ PerfNext
       /\ UNCHANGED <<part, placeVars, chainVars, gateVars, susVars, sysVars>>
    \/ /\ part = "latency" /\ ChainNext
       /\ UNCHANGED <<part, placeVars, perfVars, gateVars, susVars, sysVars>>
    \/ /\ part = "kernel" /\ GateNext
       /\ UNCHANGED <<part, placeVars, perfVars, chainVars, susVars, sysVars>>
    \/ /\ part = "sustained" /\ SusNext
       /\ UNCHANGED <<part, placeVars, perfVars, chainVars, gateVars, sysVars>>
    \/ /\ part = "sysfs" /\ SysNext
       /\ UNCHANGED <<part, placeVars, perfVars, chainVars, gateVars, susVars>>

Spec == Init /\ [][Next]_vars
=============================================================================
