------------------------------- MODULE Sysfs -------------------------------
(***************************************************************************)
(* The sysfs readings of a sustained row and of a streamer's frame            *)
(* (bench/thermal/sysfs.cpp), up to the numbers that scripts/dashboard.py      *)
(* draws.  The zones are listed once and named in the header; a frame holds    *)
(* bare numbers, told apart by their position only.  Meanwhile temperatures   *)
(* and frequencies change, a driver refuses to be read, a CPU goes offline.   *)
(***************************************************************************)
EXTENDS Integers, Sequences, SequencesExt, FiniteSets

CONSTANTS
    ZoneIds,   \* thermal_zoneN directories of the device
    NumCpus,   \* num_cpus()
    Temps,     \* temperatures a zone may have
    Khz        \* frequencies a CPU may run at

ASSUME SysfsAssumption == /\ ZoneIds \subseteq Nat /\ IsFiniteSet(ZoneIds) /\ NumCpus \in Nat
                          /\ Temps \subseteq Nat /\ Khz \subseteq Nat \ {0}

INT32_MIN == -1   \* the number for a failed read: no temperature, in TLC's range

VARIABLES
    sysPc,        \* "list", "frame" (between two), "temps", "freqs" or "drawn"
    withTemp,     \* zones that have a temp file
    zones,        \* list_thermal_zones(): directory entries so far, then sorted
    temperature,  \* of each zone at present, INT32_MIN while it cannot be read
    frequency,    \* of each CPU at present, 0 while it is offline
    temps_mc,     \* the frame's arrays
    freqs_khz,
    drawnTemps,   \* what the dashboard shows: pairs of a zone and a temperature
    drawnFreqs,   \* and of a CPU and a frequency
    hadTemp,      \* history: temperatures of each zone since the frame was begun
    hadFreq       \* history: the same of the frequencies

frameVars == <<temps_mc, freqs_khz>>
drawnVars == <<drawnTemps, drawnFreqs>>
sourceSysVars == <<withTemp, temperature, frequency, hadTemp, hadFreq>>
sysVars == <<sysPc, zones, frameVars, drawnVars, sourceSysVars>>

Cpus == 0..NumCpus - 1
TempValues == Temps \cup {INT32_MIN}
FreqValues == Khz \cup {0}

SysTypeOK ==
    /\ sysPc \in {"list", "frame", "temps", "freqs", "drawn"}
    /\ withTemp \subseteq ZoneIds
    /\ zones \in Seq(withTemp)
    /\ temperature \in [ZoneIds -> TempValues] /\ frequency \in [Cpus -> FreqValues]
    /\ temps_mc \in Seq(TempValues) /\ freqs_khz \in Seq(FreqValues)
    /\ drawnTemps \subseteq ZoneIds \X Temps /\ drawnFreqs \subseteq Cpus \X FreqValues
    /\ hadTemp \in [ZoneIds -> SUBSET TempValues] /\ hadFreq \in [Cpus -> SUBSET FreqValues]

SysInit ==
    /\ sysPc = "list" /\ withTemp \in SUBSET ZoneIds /\ zones = <<>>
    /\ temperature \in [ZoneIds -> TempValues] /\ frequency \in [Cpus -> FreqValues]
    /\ temps_mc = <<>> /\ freqs_khz = <<>>
    /\ drawnTemps = {} /\ drawnFreqs = {}
    /\ hadTemp = [z \in ZoneIds |-> {}] /\ hadFreq = [c \in Cpus |-> {}]

(* readdir, in whatever order the directory has; an entry without a temp file is  *)
(* passed over.                                                             *)
ReadDir == /\ sysPc = "list"
           /\ \E z \in withTemp \ ToSet(zones) : zones' = Append(zones, z)
           /\ UNCHANGED <<sysPc, frameVars, drawnVars, sourceSysVars>>

Sorted(s) == \A i, j \in DOMAIN s : i < j => s[i] < s[j]

(* The end of the directory, or opendir or readdir has failed; the sort by index. *)
CloseDir == /\ sysPc = "list"
            /\ zones' \in {s \in [DOMAIN zones -> ToSet(zones)] :
                             Sorted(s) /\ ToSet(s) = ToSet(zones)}
            /\ sysPc' = "frame"
            /\ UNCHANGED <<frameVars, drawnVars, sourceSysVars>>

BeginFrame == /\ sysPc \in {"frame", "drawn"}
              /\ sysPc' = "temps"
              /\ temps_mc' = <<>> /\ freqs_khz' = <<>>
              /\ hadTemp' = [z \in ZoneIds |-> {temperature[z]}]
              /\ hadFreq' = [c \in Cpus |-> {frequency[c]}]
              /\ UNCHANGED <<zones, drawnVars, withTemp, temperature, frequency>>

SampleReadable == \* mutant: a zone that cannot be read is left out
    /\ sysPc = "temps"
    /\ LET readable == SelectSeq(zones, LAMBDA z : temperature[z] # INT32_MIN)
       IN  temps_mc' = [i \in DOMAIN readable |-> temperature[readable[i]]]
    /\ sysPc' = "freqs"
    /\ UNCHANGED <<zones, freqs_khz, drawnVars, sourceSysVars>>

(* One turn of the loop of sample_temps_mc, or its end. *)
SampleTemps ==
    /\ sysPc = "temps"
    /\ IF Len(temps_mc) < Len(zones)
       THEN /\ temps_mc' = Append(temps_mc, temperature[zones[Len(temps_mc) + 1]])
            /\ UNCHANGED sysPc
       ELSE sysPc' = "freqs" /\ UNCHANGED temps_mc
    /\ UNCHANGED <<zones, freqs_khz, drawnVars, sourceSysVars>>

(* render_thermals: zone and number by position, failed reads left out. *)
DrawTemps == {<<zones[i], temps_mc[i]>> :
                 i \in {k \in DOMAIN zones \cap DOMAIN temps_mc : temps_mc[k] # INT32_MIN}}

(* render_freqs: the position is the CPU; an offline one shows 0. *)
DrawFreqs == {<<i - 1, freqs_khz[i]>> : i \in DOMAIN freqs_khz}

(* One turn of the loop of sample_cpu_freqs_khz; then the frame is drawn. *)
SampleFreqs ==
    /\ sysPc = "freqs"
    /\ IF Len(freqs_khz) < NumCpus
       THEN /\ freqs_khz' = Append(freqs_khz, frequency[Len(freqs_khz)])
            /\ UNCHANGED <<sysPc, drawnVars>>
       ELSE /\ drawnTemps' = DrawTemps /\ drawnFreqs' = DrawFreqs
            /\ sysPc' = "drawn" /\ UNCHANGED freqs_khz
    /\ UNCHANGED <<zones, temps_mc, sourceSysVars>>

-----------------------------------------------------------------------------
(* The device: histories are kept while a frame is sampled. *)
Sampling == sysPc \in {"temps", "freqs"}

ZoneChanges == \E z \in ZoneIds, t \in TempValues :
    /\ temperature[z] # t
    /\ temperature' = [temperature EXCEPT ![z] = t]
    /\ hadTemp' = IF Sampling THEN [hadTemp EXCEPT ![z] = @ \cup {t}] ELSE hadTemp
    /\ UNCHANGED <<sysPc, zones, frameVars, drawnVars, withTemp, frequency, hadFreq>>

CpuChanges == \E c \in Cpus, f \in FreqValues :
    /\ frequency[c] # f
    /\ frequency' = [frequency EXCEPT ![c] = f]
    /\ hadFreq' = IF Sampling THEN [hadFreq EXCEPT ![c] = @ \cup {f}] ELSE hadFreq
    /\ UNCHANGED <<sysPc, zones, frameVars, drawnVars, withTemp, temperature, hadTemp>>

SysNext == \/ ReadDir \/ CloseDir \/ BeginFrame \/ SampleTemps \/ SampleFreqs
           \/ ZoneChanges \/ CpuChanges

SysSpec == SysInit /\ [][SysNext]_sysVars

-----------------------------------------------------------------------------
(* "Output indices match the zones vector": in the lines render_thermals      *)
(* returns, before the screen cuts them to its height, a number beside the   *)
(* name of a zone or a CPU was read from that very one while the frame was   *)
(* sampled, and a zone of the header that could be read all the while is     *)
(* there, in whatever order the directory came and whichever reads failed.   *)
DrawnFromItsSource ==
    sysPc = "drawn" =>
        /\ \A d \in drawnTemps : d[2] \in hadTemp[d[1]]
        /\ \A d \in drawnFreqs : d[2] \in hadFreq[d[1]]
        /\ \A z \in ToSet(zones) :
              INT32_MIN \notin hadTemp[z] => \E t \in Temps : <<z, t>> \in drawnTemps
=============================================================================
