----------------------------- MODULE PerfGroup -----------------------------
(***************************************************************************)
(* One row of run_perf_counters_per_cluster (bench/cpu/perf_counters.cpp):    *)
(* the PerfGroup it fills, the kernel's side of the group, and the events    *)
(* that occur in the thread all the while.                                  *)
(*                                                                          *)
(* The kernel may refuse any event.  The first it accepts leads the group:    *)
(* while the leader is disabled, or the group is off the PMU because others  *)
(* need it (multiplexing), no member counts.                                *)
(***************************************************************************)
EXTENDS Naturals, Sequences

CONSTANTS
    Wanted,     \* the events run_perf_counters_per_cluster adds, in order
    MaxOccur    \* bound: occurrences of each event in a row

Events == {Wanted[i] : i \in DOMAIN Wanted}

ASSUME PerfAssumption == /\ MaxOccur \in Nat
                         /\ Wanted \in Seq(Events)
                         /\ \A i, j \in DOMAIN Wanted : Wanted[i] = Wanted[j] => i = j

VARIABLES
    perfPc,     \* "add", "reset", "start", "work", "stop", "read" or "done"
    added,      \* calls of add() so far
    events,     \* impl_->events; impl_->fds is parallel to it
    group,      \* the kernel's members: event and count, leader first
    leaderOn,   \* the leader is enabled
    onPmu,      \* the group is on the PMU
    timeLost,   \* time_enabled and time_running of the group differ
    occurred,   \* history: occurrences of each event so far
    truth,      \* history: those between start() and stop()
    available,  \* pmu_available of the row
    readFailed, \* history: the read() system call failed
    samples     \* the row's samples

perfVars == <<perfPc, added, events, group, leaderOn, onPmu, timeLost, occurred, truth,
              available, readFailed, samples>>

Counts == [Events -> 0..MaxOccur]
NoCounts == [e \in Events |-> 0]
Member == [ev : Events, count : 0..MaxOccur]
Sample == [ev : Events, value : 0..MaxOccur, time_scaled : BOOLEAN]

PerfTypeOK ==
    /\ perfPc \in {"add", "reset", "start", "work", "stop", "read", "done"}
    /\ added \in 0..Len(Wanted)
    /\ events \in Seq(Events) /\ Len(events) = Len(group)
    /\ group \in Seq(Member)
    /\ leaderOn \in BOOLEAN /\ onPmu \in BOOLEAN /\ timeLost \in BOOLEAN
    /\ occurred \in Counts /\ truth \in Counts
    /\ available \in BOOLEAN /\ readFailed \in BOOLEAN
    /\ samples \in Seq(Sample)

PerfInit ==
    /\ perfPc = "add" /\ added = 0
    /\ events = <<>> /\ group = <<>> /\ leaderOn = FALSE /\ onPmu = TRUE /\ timeLost = FALSE
    /\ occurred = NoCounts /\ truth = NoCounts
    /\ available = FALSE /\ readFailed = FALSE /\ samples = <<>>

NoLeader == group = <<>>    \* leader_fd < 0

Join(e) == /\ events' = Append(events, e)
           /\ group' = Append(group, [ev |-> e, count |-> 0])

\* mutant: attr.disabled set for the first event wanted, accepted or not
AddFirstDisabled ==
    /\ perfPc = "add" /\ added < Len(Wanted)
    /\ added' = added + 1
    /\ \/ Join(Wanted[added + 1]) /\ leaderOn' = (IF NoLeader THEN added > 0 ELSE leaderOn)
       \/ UNCHANGED <<events, group, leaderOn>>
    /\ UNCHANGED <<perfPc, onPmu, timeLost, occurred, truth, available, readFailed, samples>>

(* add(): perf_event_open with the leader's fd, or -1 and disabled = 1 as long   *)
(* as there is none; a refused event leaves no trace.  The caller ignores    *)
(* the answer.                                                              *)
Add ==
    /\ perfPc = "add" /\ added < Len(Wanted)
    /\ added' = added + 1
    /\ \/ Join(Wanted[added + 1]) /\ leaderOn' = (~NoLeader /\ leaderOn)
       \/ UNCHANGED <<events, group, leaderOn>>
    /\ UNCHANGED <<perfPc, onPmu, timeLost, occurred, truth, available, readFailed, samples>>

(* available(), and the row of a group that is not. *)
Configured ==
    /\ perfPc = "add" /\ added = Len(Wanted)
    /\ available' = ~NoLeader
    /\ perfPc' = IF NoLeader THEN "done" ELSE "reset"
    /\ UNCHANGED <<added, events, group, leaderOn, onPmu, timeLost, occurred, truth,
                   readFailed, samples>>

Reset ==
    /\ perfPc = "reset" /\ perfPc' = "start"
    /\ group' = [i \in DOMAIN group |-> [group[i] EXCEPT !.count = 0]]
    /\ UNCHANGED <<added, events, leaderOn, onPmu, timeLost, occurred, truth, available,
                   readFailed, samples>>

(* The group may have to wait for the PMU from the first moment. *)
StartGroup ==
    /\ perfPc = "start" /\ perfPc' = "work"
    /\ leaderOn' = TRUE
    /\ onPmu' \in BOOLEAN /\ timeLost' = ~onPmu'
    /\ UNCHANGED <<added, events, group, occurred, truth, available, readFailed, samples>>

WorkDone ==
    /\ perfPc = "work" /\ perfPc' = "stop"
    /\ UNCHANGED <<added, events, group, leaderOn, onPmu, timeLost, occurred, truth, available,
                   readFailed, samples>>

StopGroup ==
    /\ perfPc = "stop" /\ perfPc' = "read"
    /\ leaderOn' = FALSE
    /\ UNCHANGED <<added, events, group, onPmu, timeLost, occurred, truth, available,
                   readFailed, samples>>

(* read(): one buffer with the values in the kernel's order, matched with        *)
(* impl_->events by position; nothing if the call fails or the numbers of    *)
(* members differ.                                                          *)
ReadGroup ==
    /\ perfPc = "read" /\ perfPc' = "done"
    /\ readFailed' \in BOOLEAN
    /\ samples' = IF readFailed' \/ Len(group) # Len(events) THEN <<>>
                  ELSE [i \in DOMAIN group |-> [ev |-> events[i], value |-> group[i].count,
                                                time_scaled |-> timeLost]]
    /\ UNCHANGED <<added, events, group, leaderOn, onPmu, timeLost, occurred, truth, available>>

-----------------------------------------------------------------------------
(* The kernel *)

Occur(e) ==
    /\ perfPc # "done"
    /\ occurred[e] < MaxOccur
    /\ occurred' = [occurred EXCEPT ![e] = @ + 1]
    /\ truth' = IF perfPc \in {"work", "stop"} THEN [truth EXCEPT ![e] = @ + 1] ELSE truth
    /\ group' = IF leaderOn /\ onPmu
                THEN [i \in DOMAIN group |-> IF group[i].ev = e
                                             THEN [group[i] EXCEPT !.count = @ + 1] ELSE group[i]]
                ELSE group
    /\ UNCHANGED <<perfPc, added, events, leaderOn, onPmu, timeLost, available, readFailed, samples>>

(* Multiplexing: another group takes the PMU, or gives it back. *)
Rotate == /\ leaderOn
          /\ onPmu' = ~onPmu /\ timeLost' = TRUE
          /\ UNCHANGED <<perfPc, added, events, group, leaderOn, occurred, truth, available,
                         readFailed, samples>>

PerfNext == \/ Add \/ Configured \/ Reset \/ StartGroup \/ WorkDone \/ StopGroup \/ ReadGroup
            \/ Rotate \/ \E e \in Events : Occur(e)

PerfSpec == PerfInit /\ [][PerfNext]_perfVars

(* A row with counters has one sample per event the kernel accepted, in the        *)
(* order added, and none but those; each holds what happened of that very    *)
(* event between start() and stop(), exactly unless the row says that the    *)
(* group was multiplexed - whichever adds failed, the first included.        *)
SamplesTellTheirEvent ==
    (perfPc = "done" /\ available /\ ~readFailed) =>
        /\ Len(samples) = Len(group)
        /\ \A i \in DOMAIN samples :
              LET s == samples[i] IN
              /\ s.ev = group[i].ev
              /\ s.value <= truth[s.ev]
              /\ ~s.time_scaled => s.value = truth[s.ev]
=============================================================================
