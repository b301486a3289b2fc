----------------------------- MODULE Sustained -----------------------------
(***************************************************************************)
(* The loop of run_sustained (bench/cpu/sustained.cpp): FMA chunks until the   *)
(* duration is over, a row of temperatures and frequencies behind each, and   *)
(* the next chunk scaled to take the sample interval again.  Underneath, the *)
(* thermal governor changes the core's speed at any instant and other threads *)
(* take the core away for a while.                                          *)
(*                                                                          *)
(* Time is counted in ticks, speeds in iterations per tick.  The doubles that *)
(* hold the ratio are exact rationals here: chunks stay so far below 2^52     *)
(* iterations that they can differ by one iteration at most.                *)
(***************************************************************************)
EXTENDS Naturals

CONSTANTS
    Speeds,      \* speeds the governor may choose
    TopSpeed,    \* no speed is higher
    Delays,      \* ticks a preempted chunk may lose
    Interval,    \* target_chunk_ns
    Duration,    \* duration_sec
    FirstInner,  \* cfg.inner_iters_per_chunk
    MinInner,    \* 1024
    Settle       \* undisturbed chunks after which the cadence is back

ASSUME ScaleAssumption ==
    /\ Speeds \subseteq Nat \ {0} /\ TopSpeed \in Nat /\ \A s \in Speeds : s <= TopSpeed
    /\ Delays \subseteq Nat /\ Duration \in Nat /\ Settle \in Nat
    /\ Interval \in Nat \ {0} /\ FirstInner \in Nat \ {0} /\ MinInner \in Nat \ {0}

(* The shortest chunk takes a tick, but no more than the interval, at any speed:  *)
(* 8192 FMAs are neither below the clock's resolution nor above 250 ms.      *)
ASSUME FloorAssumption == \A s \in Speeds : s <= MinInner /\ MinInner <= s * Interval

VARIABLES
    susPc,    \* "loop", "sample" or "done"
    inner,    \* iterations of the next chunk
    speed,    \* of the core, at present
    chunk,    \* chunk_ns of the latest chunk
    elapsed,  \* now_ns() - t_start
    calm      \* history: chunks since the core was last disturbed, up to Settle

susVars == <<susPc, inner, speed, chunk, elapsed, calm>>

SusTypeOK ==
    /\ susPc \in {"loop", "sample", "done"}
    /\ inner \in Nat \ {0} /\ speed \in Speeds
    /\ chunk \in Nat /\ elapsed \in Nat
    /\ calm \in 0..Settle

SusInit ==
    /\ susPc = "loop" /\ inner = FirstInner /\ speed \in Speeds
    /\ chunk = 0 /\ elapsed = 0 /\ calm = 0

(* Ticks that inner iterations take when the speed goes from s to t meanwhile. *)
Between(s, t) == IF s <= t THEN (inner \div t)..(inner \div s) ELSE (inner \div s)..(inner \div t)

(* run_fma_chunk at one speed, by itself. *)
CalmChunk ==
    /\ chunk' = inner \div speed
    /\ calm' = IF calm < Settle THEN calm + 1 ELSE Settle
    /\ UNCHANGED speed

(* The same while the frequency changes or the core serves others. *)
DisturbedChunk ==
    /\ speed' \in Speeds
    /\ \E d \in Delays \cup {0}, t \in Between(speed, speed') :
          /\ chunk' = t + d
          /\ d > 0 \/ speed' # speed
    /\ calm' = 0

(* while (now_ns() < t_end_target): the chunk, and the reading of sysfs behind it, *)
(* whose time is small beside it.                                            *)
RunChunk ==
    /\ susPc = "loop" /\ elapsed < Duration
    /\ CalmChunk \/ DisturbedChunk
    /\ elapsed' = elapsed + chunk'
    /\ susPc' = "sample"
    /\ UNCHANGED inner

AtLeast(n, m) == IF m < n THEN n ELSE m

(* inner times the ratio of target to measured time, within 1/4 and 4. *)
Scaled == IF Interval >= 4 * chunk THEN 4 * inner
          ELSE IF 4 * Interval <= chunk THEN inner \div 4
          ELSE (inner * Interval) \div chunk

RescaleInverted == \* mutant: the ratio of measured to target time
    /\ susPc = "sample" /\ susPc' = "loop"
    /\ inner' = IF chunk > 0 THEN AtLeast(MinInner, (inner * chunk) \div Interval) ELSE inner
    /\ UNCHANGED <<speed, chunk, elapsed, calm>>

RescaleUnbounded == \* mutant: the floor of 1024 iterations is dropped
    /\ susPc = "sample" /\ susPc' = "loop"
    /\ inner' = IF chunk > 0 THEN Scaled ELSE inner
    /\ UNCHANGED <<speed, chunk, elapsed, calm>>

(* The end of the loop's body. *)
Rescale ==
    /\ susPc = "sample" /\ susPc' = "loop"
    /\ inner' = IF chunk > 0 THEN AtLeast(MinInner, Scaled) ELSE inner
    /\ UNCHANGED <<speed, chunk, elapsed, calm>>

EndOfDuration ==
    /\ susPc = "loop" /\ elapsed >= Duration
    /\ susPc' = "done"
    /\ UNCHANGED <<inner, speed, chunk, elapsed, calm>>

SusNext == RunChunk \/ Rescale \/ EndOfDuration

SusSpec == SusInit /\ [][SusNext]_susVars

-----------------------------------------------------------------------------
(* No sequence of throttling and preemption makes the chunk vanish or grow: after *)
(* any number of rescalings it has between 1024 iterations and what the       *)
(* fastest core does in the interval and four ticks, or is the configured     *)
(* one.  A chunk of zero iterations would never grow again.                  *)
ChunkBounded ==
    /\ inner >= MinInner \/ inner = FirstInner
    /\ inner <= AtLeast(AtLeast(MinInner, FirstInner), TopSpeed * (Interval + 4))

(* "This keeps the cadence honest as the chip throttles - otherwise late chunks   *)
(* would balloon to seconds each": from whatever size and speed, Settle       *)
(* chunks after the last disturbance one takes the interval, up to the four   *)
(* ticks that truncation may cost.                                           *)
CadenceReturns == calm >= Settle => chunk \in Interval..Interval + 3
=============================================================================
