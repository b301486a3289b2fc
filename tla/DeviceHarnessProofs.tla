------------------------ MODULE DeviceHarnessProofs ------------------------
(***************************************************************************)
(* Proofs about DeviceHarness, for any device, any cpufreq policies and any  *)
(* number of runs and reboots: type correctness; which devices are left      *)
(* alone; what a success of full and full-stats says of the governors.       *)
(***************************************************************************)
EXTENDS DeviceHarness, SequenceTheorems, TLAPS

StepNames == {"require", "report", "root", "push", "run", "pin", "show", "unpin", "aggregate",
              "resolve_apk", "install", "clear", "launch", "tap_hwcaps", "check_hwcaps",
              "tap_run", "poll_run"}

-----------------------------------------------------------------------------
(* The commands as sequences of steps.                                      *)

(* Joining two lines of steps keeps each step at its place.                 *)
LEMMA Joined ==
    ASSUME NEW s \in Seq(StepNames), NEW t \in Seq(StepNames)
    PROVE  /\ s \o t \in Seq(StepNames) /\ Len(s \o t) = Len(s) + Len(t)
           /\ \A i \in 1..Len(s) : (s \o t)[i] = s[i]
           /\ \A i \in 1..Len(t) : (s \o t)[Len(s) + i] = t[i]
  BY ConcatProperties

(* What bench n runs: root, push, then n runs.                              *)
LEMMA BenchShape ==
    ASSUME NEW n \in Nat
    PROVE  /\ Bench(n) \in Seq(StepNames) /\ Len(Bench(n)) = n + 2
           /\ Bench(n)[1] = "root" /\ Bench(n)[2] = "push"
           /\ \A i \in 3..n + 2 : Bench(n)[i] = "run"
  <1>. DEFINE r == [i \in 1..n |-> "run"]
  <1>1. r \in Seq(StepNames) /\ Len(r) = n /\ \A i \in 1..n : r[i] = "run"
    BY DEF StepNames
  <1>. HIDE DEF r
  <1>2. /\ <<"root", "push">> \in Seq(StepNames) /\ Len(<<"root", "push">>) = 2
    BY DEF StepNames
  <1>3. Bench(n) = <<"root", "push">> \o r
    BY DEF Bench, r
  <1>. QED
    BY <1>1, <1>2, <1>3, ConcatProperties

(* full and full-stats: rooted twice, pinned, measured, rooted again, unpinned. *)
FullShape(c, n) ==
    /\ c \in Seq(StepNames) /\ Len(c) >= n + 9
    /\ c[1] = "require" /\ c[2] = "root" /\ c[3] = "root" /\ c[4] = "pin" /\ c[5] = "show"
    /\ c[6] = "root" /\ c[7] = "push"
    /\ \A i \in 8..n + 7 : c[i] = "run"
    /\ \A i \in n + 8..Len(c) - 2 : c[i] = "aggregate"
    /\ c[Len(c) - 1] = "root" /\ c[Len(c)] = "unpin"

(* What full and full-stats do up to the end of their n measurements.        *)
MeasureShape(c, n) ==
    /\ c \in Seq(StepNames) /\ Len(c) = n + 7
    /\ c[1] = "require" /\ c[2] = "root" /\ c[3] = "root" /\ c[4] = "pin" /\ c[5] = "show"
    /\ c[6] = "root" /\ c[7] = "push"
    /\ \A i \in 8..n + 7 : c[i] = "run"

(* Where full and full-stats pin, measure and unpin.                        *)
LEMMA FullCommandShape ==
    /\ FullShape(Command["full"], 1) /\ Len(Command["full"]) = 10
    /\ FullShape(Command["full_stats"], Runs) /\ Len(Command["full_stats"]) = Runs + 10
  <1>. DEFINE head == <<"require", "root">> \o PinPerf
  <1>1. /\ head \in Seq(StepNames) /\ Len(head) = 5
        /\ head[1] = "require" /\ head[2] = "root" /\ head[3] = "root"
        /\ head[4] = "pin" /\ head[5] = "show"
    BY DEF PinPerf, StepNames
  <1>2. /\ Unpin \in Seq(StepNames) /\ Len(Unpin) = 2
        /\ Unpin[1] = "root" /\ Unpin[2] = "unpin"
    BY DEF Unpin, StepNames
  <1>3. Command["full"] = head \o Bench(1) \o Unpin
    BY DEF Command
  <1>4. Command["full_stats"] = head \o Bench(Runs) \o <<"aggregate">> \o Unpin
    BY DEF Command
  <1>. HIDE DEF head
  <1>5. ASSUME NEW n \in Nat PROVE MeasureShape(head \o Bench(n), n)
    <2>. DEFINE b == Bench(n)
                q == head \o b
    <2>1. /\ b \in Seq(StepNames) /\ Len(b) = n + 2 /\ b[1] = "root" /\ b[2] = "push"
          /\ \A i \in 3..n + 2 : b[i] = "run"
      BY BenchShape
    <2>. HIDE DEF b
    <2>2. /\ q \in Seq(StepNames) /\ Len(q) = 5 + (n + 2)
          /\ \A i \in 1..5 : q[i] = head[i]
          /\ \A i \in 1..n + 2 : q[5 + i] = b[i]
      <3>1. /\ head \o b \in Seq(StepNames) /\ Len(head \o b) = Len(head) + Len(b)
            /\ \A i \in 1..Len(head) : (head \o b)[i] = head[i]
            /\ \A i \in 1..Len(b) : (head \o b)[Len(head) + i] = b[i]
        BY <1>1, <2>1, Joined, Zenon
      <3>. QED
        BY <1>1, <2>1, <3>1
    <2>. HIDE DEF q
    <2>3. q[1] = "require" /\ q[2] = "root" /\ q[3] = "root" /\ q[4] = "pin" /\ q[5] = "show"
      BY <1>1, <2>2
    <2>4. q[6] = "root" /\ q[7] = "push"
      <3>1. q[5 + 1] = b[1] /\ q[5 + 2] = b[2]
        BY <2>2
      <3>. QED
        BY <2>1, <3>1
    <2>5. ASSUME NEW i \in 8..n + 7 PROVE q[i] = "run"
      <3>1. i - 5 \in 3..n + 2 /\ 5 + (i - 5) = i
        OBVIOUS
      <3>2. q[5 + (i - 5)] = b[i - 5]
        BY <2>2, <3>1
      <3>. QED
        BY <2>1, <3>1, <3>2
    <2>. QED
      BY <2>2, <2>3, <2>4, <2>5 DEF q, b, MeasureShape
  <1>6. FullShape(Command["full"], 1) /\ Len(Command["full"]) = 10
    <2>. DEFINE q == head \o Bench(1)
                c == q \o Unpin
    <2>1. MeasureShape(q, 1)
      BY <1>5
    <2>. HIDE DEF q
    <2>2. /\ c \in Seq(StepNames) /\ Len(c) = 10
          /\ \A i \in 1..8 : c[i] = q[i]
          /\ c[8 + 1] = "root" /\ c[8 + 2] = "unpin"
      <3>1. q \in Seq(StepNames) /\ Len(q) = 8
        BY <2>1 DEF MeasureShape
      <3>2. /\ q \o Unpin \in Seq(StepNames) /\ Len(q \o Unpin) = Len(q) + Len(Unpin)
            /\ \A i \in 1..Len(q) : (q \o Unpin)[i] = q[i]
            /\ \A i \in 1..Len(Unpin) : (q \o Unpin)[Len(q) + i] = Unpin[i]
        BY <1>2, <3>1, Joined, Zenon
      <3>. QED
        BY <1>2, <3>1, <3>2
    <2>. HIDE DEF c
    <2>3. FullShape(c, 1)
      BY <2>1, <2>2 DEF FullShape, MeasureShape
    <2>. QED
      BY <1>3, <2>2, <2>3 DEF c, q
  <1>7. FullShape(Command["full_stats"], Runs) /\ Len(Command["full_stats"]) = Runs + 10
    <2>. DEFINE q == head \o Bench(Runs)
                r == q \o <<"aggregate">>
                c == r \o Unpin
    <2>0. Runs \in Nat
      BY HarnessAssumption
    <2>1. MeasureShape(q, Runs)
      BY <1>5, <2>0
    <2>. HIDE DEF q
    <2>2. /\ r \in Seq(StepNames) /\ Len(r) = Runs + 8
          /\ \A i \in 1..Runs + 7 : r[i] = q[i]
          /\ r[Runs + 7 + 1] = "aggregate"
      <3>1. /\ <<"aggregate">> \in Seq(StepNames) /\ Len(<<"aggregate">>) = 1
            /\ <<"aggregate">>[1] = "aggregate"
        BY DEF StepNames
      <3>. QED
        BY <2>0, <2>1, <3>1, Joined DEF MeasureShape
    <2>. HIDE DEF r
    <2>3. /\ c \in Seq(StepNames) /\ Len(c) = Runs + 10
          /\ \A i \in 1..Runs + 8 : c[i] = r[i]
          /\ c[Runs + 8 + 1] = "root" /\ c[Runs + 8 + 2] = "unpin"
      <3>1. /\ r \o Unpin \in Seq(StepNames) /\ Len(r \o Unpin) = Len(r) + Len(Unpin)
            /\ \A i \in 1..Len(r) : (r \o Unpin)[i] = r[i]
            /\ \A i \in 1..Len(Unpin) : (r \o Unpin)[Len(r) + i] = Unpin[i]
        BY <1>2, <2>2, Joined, Zenon
      <3>. QED
        BY <1>2, <2>0, <2>2, <3>1
    <2>. HIDE DEF c
    <2>4. FullShape(c, Runs)
      BY <2>0, <2>1, <2>2, <2>3 DEF FullShape, MeasureShape
    <2>. QED
      BY <1>4, <2>3, <2>4 DEF c, r, q
  <1>. QED
    BY <1>6, <1>7

(* Every command begins by checking the device and pushes cppbench only after  *)
(* it has asked for root.                                                   *)
Guarded(c) == /\ c \in Seq(StepNames) /\ Len(c) >= 1 /\ c[1] = "require"
              /\ \A i \in 1..Len(c) : c[i] = "push" => \E k \in 1..i - 1 : c[k] = "root"

(* A line that is guarded stays so when steps other than a push follow.     *)
LEMMA GuardedConcat ==
    ASSUME NEW c, Guarded(c), NEW d \in Seq(StepNames), \A i \in 1..Len(d) : d[i] # "push"
    PROVE  Guarded(c \o d)
  <1>1. /\ c \o d \in Seq(StepNames) /\ Len(c \o d) = Len(c) + Len(d)
        /\ \A i \in 1..Len(c) : (c \o d)[i] = c[i]
        /\ \A i \in 1..Len(d) : (c \o d)[Len(c) + i] = d[i]
    BY Joined DEF Guarded
  <1>. DEFINE q == c \o d
  <1>. HIDE DEF q
  <1>2. /\ q \in Seq(StepNames) /\ Len(q) = Len(c) + Len(d)
        /\ \A i \in 1..Len(c) : q[i] = c[i]
        /\ \A i \in 1..Len(d) : q[Len(c) + i] = d[i]
    BY <1>1 DEF q
  <1>3. Len(c) \in Nat /\ Len(d) \in Nat
    BY DEF Guarded
  <1>4. ASSUME NEW i \in 1..Len(q), q[i] = "push" PROVE \E k \in 1..i - 1 : q[k] = "root"
    <2>1. i \in 1..Len(c)
      <3>1. ASSUME i > Len(c) PROVE FALSE
        <4>1. i - Len(c) \in 1..Len(d) /\ Len(c) + (i - Len(c)) = i
          BY <1>2, <1>3, <3>1
        <4>2. q[Len(c) + (i - Len(c))] = d[i - Len(c)]
          BY <1>2, <4>1
        <4>. QED
          BY <1>4, <4>1, <4>2
      <3>. QED
        BY <1>3, <3>1
    <2>. QED
      BY <1>2, <1>3, <1>4, <2>1 DEF Guarded
  <1>5. Guarded(q)
    BY <1>2, <1>3, <1>4 DEF Guarded
  <1>. QED
    BY <1>5 DEF q

(* A bench behind the identity gate is guarded.                             *)
LEMMA GuardedBench ==
    ASSUME NEW n \in Nat PROVE Guarded(<<"require">> \o Bench(n))
  <1>. DEFINE b == Bench(n)
              q == <<"require">> \o b
  <1>1. /\ b \in Seq(StepNames) /\ Len(b) = n + 2 /\ b[1] = "root" /\ b[2] = "push"
        /\ \A i \in 3..n + 2 : b[i] = "run"
    BY BenchShape
  <1>2. <<"require">> \in Seq(StepNames) /\ Len(<<"require">>) = 1 /\ <<"require">>[1] = "require"
    BY DEF StepNames
  <1>. HIDE DEF b
  <1>3. /\ <<"require">> \o b \in Seq(StepNames)
        /\ Len(<<"require">> \o b) = Len(<<"require">>) + Len(b)
        /\ \A i \in 1..Len(<<"require">>) : (<<"require">> \o b)[i] = <<"require">>[i]
        /\ \A i \in 1..Len(b) : (<<"require">> \o b)[Len(<<"require">>) + i] = b[i]
    BY <1>1, <1>2, Joined, Zenon
  <1>4. /\ q \in Seq(StepNames) /\ Len(q) = n + 3 /\ q[1] = "require"
        /\ \A i \in 1..n + 2 : q[1 + i] = b[i]
    BY <1>1, <1>2, <1>3
  <1>. HIDE DEF q
  <1>5. q[2] = "root"
    <2>1. q[1 + 1] = b[1]
      BY <1>4
    <2>. QED
      BY <1>1, <2>1
  <1>6. Guarded(q)
    <2>1. \A i \in 1..n + 3 : i = 1 \/ i = 2 \/ 2 \in 1..i - 1
      OBVIOUS
    <2>2. \A i \in 1..n + 3 : q[i] = "push" => 2 \in 1..i - 1
      BY <1>4, <1>5, <2>1
    <2>. QED
      BY <1>4, <1>5, <2>2 DEF Guarded
  <1>. QED
    BY <1>6 DEF q, b

LEMMA GuardedFull ==
    ASSUME NEW c, NEW n \in Nat, FullShape(c, n) PROVE Guarded(c)
  <1>1. \A i \in 1..Len(c) : c[i] = "push" => 2 \in 1..i - 1
    <2>. SUFFICES ASSUME NEW i \in 1..Len(c), c[i] = "push" PROVE i > 2
      OBVIOUS
    <2>. QED
      BY DEF FullShape
  <1>. QED
    BY <1>1 DEF FullShape, Guarded

(* Every command of the script is guarded.                                  *)
LEMMA CommandGuarded ==
    ASSUME NEW n \in DOMAIN Command PROVE Guarded(Command[n])
  <1>. DEFINE NoPush(d) == d \in Seq(StepNames) /\ \A i \in 1..Len(d) : d[i] # "push"
  <1>0. /\ Guarded(<<"require">>) /\ NoPush(<<"report">>) /\ NoPush(<<"root">>)
        /\ NoPush(<<"install">>) /\ NoPush(<<"aggregate">>) /\ NoPush(PinPerf) /\ NoPush(Unpin)
    BY DEF Guarded, StepNames, PinPerf, Unpin
  <1>a. ASSUME NEW c, Guarded(c), NEW d, NoPush(d) PROVE Guarded(c \o d)
    BY <1>a, GuardedConcat
  <1>. HIDE DEF NoPush
  <1>1. n \in {"probe", "root", "install"} => Guarded(Command[n])
    <2>1. /\ Command["probe"] = <<"require">> \o <<"report">>
          /\ Command["root"] = <<"require">> \o <<"root">>
          /\ Command["install"] = <<"require">> \o <<"install">>
      BY DEF Command
    <2>. QED
      BY <1>0, <1>a, <2>1
  <1>2. n = "pin_perf" => Guarded(Command[n])
    <2>1. Command["pin_perf"] = <<"require">> \o PinPerf
      BY DEF Command
    <2>. QED
      BY <1>0, <1>a, <2>1
  <1>3. n = "unpin" => Guarded(Command[n])
    <2>1. Command["unpin"] = <<"require">> \o Unpin
      BY DEF Command
    <2>. QED
      BY <1>0, <1>a, <2>1
  <1>4. n = "bench" => Guarded(Command[n])
    BY GuardedBench DEF Command
  <1>5. n = "bench_stats" => Guarded(Command[n])
    <2>1. Guarded(<<"require">> \o Bench(Runs))
      BY GuardedBench, HarnessAssumption
    <2>2. Guarded(<<"require">> \o Bench(Runs) \o <<"aggregate">>)
      BY <1>0, <1>a, <2>1
    <2>. QED
      BY <2>2 DEF Command
  <1>6. n \in {"full", "full_stats"} => Guarded(Command[n])
    BY FullCommandShape, GuardedFull, HarnessAssumption
  <1>7. n = "ui_test" => Guarded(Command[n])
    BY DEF Guarded, Command, StepNames
  <1>8. DOMAIN Command = {"probe", "root", "pin_perf", "unpin", "install", "bench", "bench_stats",
                          "full", "full_stats", "ui_test"}
    BY DEF Command
  <1>. QED
    BY <1>1, <1>2, <1>3, <1>4, <1>5, <1>6, <1>7, <1>8

-----------------------------------------------------------------------------
(* The inductive invariants.                                                *)

(* No step but the first is ever reached on the wrong device.                *)
CheckedFirst == (status = "running" /\ step > 1) \/ touched => RightDevice

(* A device without a root method and without su: no command gets past its     *)
(* first call of ensure_root, and pushing comes later.                       *)
Unrootable == device.method = "none" /\ device.su = "never"
StaysUnrooted ==
    Unrootable => /\ ~root /\ ~waiting /\ slot = "normal" /\ ~pushed
                  /\ \A p \in Policies : governor[p] = "schedutil"
                  /\ status = "running" => \A i \in 1..step - 1 : Command[cmd][i] # "root"

Restoring == {"full", "full_stats", "unpin"}

(* Success is only reported past the last step of the command.               *)
OkAtEnd == status = "ok" => step > Len(Command[cmd])

(* A restoring command that is through has just unpinned, and nothing pins     *)
(* again before the next command.                                           *)
UnpinnedAtEnd ==
    (cmd \in Restoring /\ status \in {"running", "ok"} /\ step > Len(Command[cmd])) =>
        \A p \in Policies : governor[p] = "schedutil"

(* full and full-stats on a device that does not reboot by itself: root, once   *)
(* there, stays; so do the governors between pin and unpin; so every          *)
(* measurement is taken pinned.                                             *)
PinnedWhileMeasuring ==
    (cmd \in {"full", "full_stats"} /\ status \in {"running", "ok"} /\ ~rebooted) =>
        /\ step > 2 => root
        /\ (step > 4 /\ step <= Len(Command[cmd])) => \A p \in Policies : governor[p] = "performance"
        /\ measured # "unpinned"
        /\ step > 8 => measured = "pinned"

-----------------------------------------------------------------------------
(* What a line of the script does to where the script is, and which line may   *)
(* change what.                                                             *)

(* ensure_root's own reboot, the one step that neither advances nor aborts.    *)
ToRecovery == /\ At("root") /\ ~waiting /\ ~root /\ device.method = "recovery"
              /\ step' = step /\ status' = "running"
              /\ ~root' /\ slot' = "recovery" /\ pushed' = pushed
              /\ \A p \in Policies : governor'[p] = "schedutil"

Passed(s) == At(s) /\ step' = step + 1 /\ status' = "running"

(* What any line of a command can do to the script's place and the device.  *)
LEMMA LineFrame ==
    ASSUME ScriptStep, ~Exit0
    PROVE  /\ status = "running" /\ step <= Len(Command[cmd])
           /\ UNCHANGED <<cmd, device, rebooted, reboots>>
           /\ \/ step' = step + 1 /\ status' = "running" /\ ~waiting'
              \/ step' = step /\ status' = "failed" /\ ~waiting'
              \/ ToRecovery
           /\ ToRecovery \/ UNCHANGED <<root, slot, power>>
           /\ At("require") => touched' = touched
           /\ At("require") => status' = "failed" \/ RightDevice
           /\ pushed' = pushed \/ Passed("push")
           /\ At("root") => step' = step \/ root
           /\ governor' = governor \/ PinPerfStep \/ UnpinStep \/ ToRecovery
           /\ measured' = measured \/ (RunCppbench /\ Passed("run"))
           /\ At("pin") => PinPerfStep
           /\ At("unpin") => UnpinStep
           /\ At("run") => RunCppbench
  <1>. USE DEF At, Advance, Abort, historyVars, deviceVars, Passed
  <1>1. CASE RequireDevice
    BY <1>1 DEF RequireDevice
  <1>2. CASE EnsureRoot
    BY <1>2 DEF EnsureRoot, ToRecovery, GoDown
  <1>3. CASE AwaitRoot
    BY <1>3 DEF AwaitRoot
  <1>4. CASE PinPerfStep
    BY <1>4 DEF PinPerfStep, SetGovernor
  <1>5. CASE ShowGovernors
    BY <1>5 DEF ShowGovernors
  <1>6. CASE UnpinStep
    BY <1>6 DEF UnpinStep, SetGovernor
  <1>7. CASE PushCppbench
    BY <1>7 DEF PushCppbench
  <1>8. CASE RunCppbench
    BY <1>8 DEF RunCppbench
  <1>9. CASE LocalStep
    BY <1>9 DEF LocalStep
  <1>10. CASE Install
    BY <1>10 DEF Install, Uninstalled
  <1>11. CASE ClearFiles \/ Launch \/ TapHwcaps \/ CheckHwcaps \/ TapRun \/ PollRun
    BY <1>11 DEF ClearFiles, Launch, TapHwcaps, CheckHwcaps, TapRun, PollRun
  <1>. QED
    BY <1>1, <1>2, <1>3, <1>4, <1>5, <1>6, <1>7, <1>8, <1>9, <1>10, <1>11 DEF ScriptStep

(* Where a running script stands.                                           *)
LEMMA StepFacts ==
    ASSUME TypeOK
    PROVE  /\ cmd \in DOMAIN Command /\ Len(Command[cmd]) \in Nat /\ step \in Nat /\ step >= 1
           /\ Guarded(Command[cmd])
           /\ status = "running" /\ step = 1 => At("require")
           /\ At("require") => \A s : At(s) => s = "require"
  <1>1. Guarded(Command[cmd])
    BY CommandGuarded DEF TypeOK
  <1>. QED
    BY <1>1 DEF TypeOK, At, Guarded

-----------------------------------------------------------------------------
(* Type correctness.                                                        *)

LEMMA InitType == Init => TypeOK
  <1>. SUFFICES ASSUME Init PROVE TypeOK
    OBVIOUS
  <1>1. "full" \in DOMAIN Command
    BY DEF Command
  <1>2. Len(Command["full"]) = 10
    BY FullCommandShape
  <1>3. 0 \in 0..MaxReboots
    BY HarnessAssumption
  <1>4. slot \in {"normal", "recovery"}
    BY DEF Init
  <1>5. /\ waiting \in BOOLEAN /\ root \in BOOLEAN /\ pushed \in BOOLEAN /\ hwcapsFile \in BOOLEAN
        /\ touched \in BOOLEAN /\ rebooted \in BOOLEAN
    BY DEF Init
  <1>6. /\ device \in Devices /\ cmd = "full" /\ step = 1 /\ status = "idle" /\ power = "up"
        /\ governor \in [Policies -> {"performance", "schedutil"}] /\ reboots = 0 /\ app = "none"
        /\ measured = "nothing"
    BY DEF Init
  <1>. QED
    BY <1>1, <1>2, <1>3, <1>4, <1>5, <1>6 DEF TypeOK

LEMMA NextType == TypeOK /\ [Next]_vars => TypeOK'
  <1>. SUFFICES ASSUME TypeOK, [Next]_vars PROVE TypeOK'
    OBVIOUS
  <1>1. CASE UNCHANGED vars
    BY <1>1 DEF vars, scriptVars, deviceVars, historyVars, TypeOK
  <1>2. CASE Start
    <2>1. cmd' \in DOMAIN Command /\ Guarded(Command[cmd'])
      BY <1>2, CommandGuarded DEF Start
    <2>2. 1 \in 1..Len(Command[cmd']) + 1
      BY <2>1 DEF Guarded
    <2>. QED
      BY <1>2, <2>1, <2>2 DEF Start, deviceVars, TypeOK
  <1>3. CASE Exit0
    BY <1>3 DEF Exit0, deviceVars, historyVars, TypeOK
  <1>4. CASE ScriptStep /\ ~Exit0
    <2>1. /\ cmd' \in DOMAIN Command /\ step' \in 1..Len(Command[cmd']) + 1 /\ cmd' = cmd
          /\ status' \in {"idle", "running", "ok", "failed"} /\ device' = device
          /\ reboots' = reboots /\ rebooted' = rebooted
      BY <1>4, LineFrame, StepFacts DEF ToRecovery, TypeOK
    <2>2. /\ waiting' \in BOOLEAN /\ power' \in {"off", "adb", "up"} /\ root' \in BOOLEAN
          /\ (root' => power' = "up") /\ slot' \in {"normal", "recovery"}
      <3>1. CASE EnsureRoot
        <4>1. CASE UNCHANGED deviceVars /\ waiting' = FALSE
          BY <4>1 DEF deviceVars, TypeOK
        <4>2. CASE GoDown("recovery") /\ waiting' = TRUE
          BY <4>2 DEF GoDown
        <4>. QED
          BY <3>1, <4>1, <4>2 DEF EnsureRoot, Advance, Abort
      <3>2. CASE ~EnsureRoot
        <4>1. UNCHANGED <<root, slot, power>> /\ waiting' = FALSE
          BY <1>4, <3>2 DEF ScriptStep, RequireDevice, AwaitRoot, PinPerfStep, ShowGovernors,
             UnpinStep, PushCppbench, RunCppbench, LocalStep, Install, Uninstalled, ClearFiles, Launch, TapHwcaps,
             CheckHwcaps, TapRun, PollRun, SetGovernor, Advance, Abort, deviceVars
        <4>. QED
          BY <4>1 DEF TypeOK
      <3>. QED
        BY <3>1, <3>2
    <2>3. governor' \in [Policies -> {"performance", "schedutil"}]
      <3>1. CASE governor' = governor
        BY <3>1 DEF TypeOK
      <3>2. CASE PinPerfStep \/ UnpinStep
        BY <3>2 DEF PinPerfStep, UnpinStep, SetGovernor, TypeOK
      <3>3. CASE EnsureRoot
        BY <3>3 DEF EnsureRoot, GoDown, deviceVars, TypeOK
      <3>. QED
        BY <1>4, <3>1, <3>2, <3>3, LineFrame DEF ScriptStep, RequireDevice, AwaitRoot, ShowGovernors,
           PushCppbench, RunCppbench, LocalStep, Install, ClearFiles, Launch, TapHwcaps, CheckHwcaps,
           TapRun, PollRun, deviceVars
    <2>4. /\ pushed' \in BOOLEAN /\ hwcapsFile' \in BOOLEAN /\ touched' \in BOOLEAN
          /\ app' \in {"none", "queued", "running", "opened", "latest", "copied"}
      <3>1. CASE EnsureRoot
        BY <3>1 DEF EnsureRoot, GoDown, deviceVars, TypeOK
      <3>2. CASE PinPerfStep \/ UnpinStep
        BY <3>2 DEF PinPerfStep, UnpinStep, SetGovernor, TypeOK
      <3>3. CASE PushCppbench \/ RunCppbench \/ Install
        BY <3>3 DEF PushCppbench, RunCppbench, Install, Uninstalled, deviceVars, TypeOK
      <3>4. CASE ClearFiles \/ Launch \/ TapHwcaps \/ CheckHwcaps \/ TapRun \/ PollRun
        BY <3>4 DEF ClearFiles, Launch, TapHwcaps, CheckHwcaps, TapRun, PollRun, deviceVars,
                    historyVars, TypeOK
      <3>5. CASE RequireDevice \/ AwaitRoot \/ ShowGovernors \/ LocalStep
        BY <3>5 DEF RequireDevice, AwaitRoot, ShowGovernors, LocalStep, deviceVars, historyVars, TypeOK
      <3>. QED
        BY <1>4, <3>1, <3>2, <3>3, <3>4, <3>5 DEF ScriptStep
    <2>5. measured' \in {"nothing", "pinned", "unpinned"}
      BY <1>4, LineFrame DEF RunCppbench, TypeOK
    <2>. QED
      BY <2>1, <2>2, <2>3, <2>4, <2>5 DEF TypeOK
  <1>5. CASE AppStep
    BY <1>5 DEF AppStep, scriptVars, historyVars, TypeOK
  <1>6. CASE Boot
    <2>1. UNCHANGED <<scriptVars, device, slot, governor, pushed, app, hwcapsFile, reboots, historyVars>>
      BY <1>6 DEF Boot
    <2>2. power' \in {"adb", "up"} /\ root' \in BOOLEAN /\ (root' => power' = "up")
      BY <1>6 DEF Boot, TypeOK
    <2>. QED
      BY <2>1, <2>2 DEF scriptVars, historyVars, TypeOK
  <1>7. CASE Reboot
    <2>1. /\ UNCHANGED <<scriptVars, touched, measured, device, pushed, hwcapsFile>>
          /\ rebooted' = TRUE /\ power' = "off" /\ root' = FALSE /\ slot' = "normal"
          /\ governor' = [p \in Policies |-> "schedutil"]
          /\ app' \in {app, "none"}
      BY <1>7 DEF Reboot, GoDown
    <2>2. reboots' \in 0..MaxReboots
      BY <1>7, HarnessAssumption DEF Reboot, TypeOK
    <2>3. governor' \in [Policies -> {"performance", "schedutil"}]
      BY <2>1
    <2>. QED
      BY <2>1, <2>2, <2>3 DEF scriptVars, TypeOK
  <1>. QED
    BY <1>1, <1>2, <1>3, <1>4, <1>5, <1>6, <1>7 DEF Next

(* TypeOK always holds: the script never runs past the end of its command, and  *)
(* su only ever works on a device that is up.                                *)
THEOREM TypeCorrect == Spec => []TypeOK
  BY InitType, NextType, PTL DEF Spec

-----------------------------------------------------------------------------
(* Safety.                                                                  *)

(* The app and a boot leave the script, the governors and the files alone.  *)
LEMMA DeviceFrame ==
    ASSUME UNCHANGED vars \/ AppStep \/ Boot
    PROVE  /\ UNCHANGED <<cmd, step, status, waiting, touched, rebooted, measured>>
           /\ UNCHANGED <<device, slot, governor, pushed>>
           /\ root' = root \/ (power # "up" /\ (root' => SuIn(slot)))
  BY DEF vars, AppStep, Boot, scriptVars, deviceVars, historyVars

LEMMA NextChecked == TypeOK /\ CheckedFirst /\ [Next]_vars => CheckedFirst'
  <1>. SUFFICES ASSUME TypeOK, CheckedFirst, [Next]_vars PROVE CheckedFirst'
    OBVIOUS
  <1>. USE DEF CheckedFirst
  <1>0. device' = device => (RightDevice' <=> RightDevice)
    BY Zenon DEF RightDevice
  <1>1. CASE UNCHANGED vars \/ AppStep \/ Boot
    BY <1>0, <1>1, DeviceFrame
  <1>2. CASE Start
    <2>1. ~touched' /\ ~(step' > 1)
      BY <1>2 DEF Start
    <2>. QED
      BY <2>1
  <1>3. CASE Exit0
    BY <1>0, <1>3 DEF Exit0, deviceVars, historyVars
  <1>4. CASE ScriptStep /\ ~Exit0
    <2>1. device' = device
      BY <1>4, LineFrame
    <2>2. CASE step > 1
      BY <1>0, <1>4, <2>1, <2>2, LineFrame
    <2>3. CASE step = 1
      <3>1. At("require")
        BY <1>4, <2>3, LineFrame, StepFacts
      <3>2. touched' = touched /\ (status' = "failed" \/ RightDevice)
        BY <1>4, <3>1, LineFrame
      <3>. QED
        BY <1>0, <2>1, <3>2
    <2>4. step > 1 \/ step = 1
      BY DEF TypeOK
    <2>. QED
      BY <2>2, <2>3, <2>4
  <1>5. CASE Reboot
    BY <1>0, <1>5 DEF Reboot, GoDown, scriptVars
  <1>. QED
    BY <1>1, <1>2, <1>3, <1>4, <1>5 DEF Next

(* WrongDeviceUntouched: no command changes anything on a device that answers   *)
(* under a registered serial with another codename.                          *)
THEOREM WrongDeviceLeftAlone == Spec => []WrongDeviceUntouched
  <1>1. Init => CheckedFirst
    BY DEF Init, CheckedFirst
  <1>2. CheckedFirst => WrongDeviceUntouched
    BY DEF CheckedFirst, WrongDeviceUntouched, RightDevice
  <1>. QED
    BY <1>1, <1>2, NextChecked, TypeCorrect, PTL DEF Spec

LEMMA NextUnrooted == TypeOK /\ StaysUnrooted /\ [Next]_vars => StaysUnrooted'
  <1>. SUFFICES ASSUME TypeOK, [Next]_vars, Unrootable', Unrootable => StaysUnrooted
                PROVE  StaysUnrooted'
    BY DEF StaysUnrooted
  <1>. USE DEF StaysUnrooted, Unrootable
  <1>1. CASE UNCHANGED vars \/ AppStep \/ Boot
    BY <1>1, DeviceFrame DEF SuIn
  <1>2. CASE Start
    BY <1>2 DEF Start, deviceVars
  <1>3. CASE Exit0
    BY <1>3 DEF Exit0, deviceVars
  <1>4. CASE ScriptStep /\ ~Exit0
    <2>1. Unrootable /\ ~ToRecovery /\ cmd' = cmd
      BY <1>4, LineFrame DEF ToRecovery
    <2>2. status = "running" /\ ~root /\ ~root' /\ slot' = slot /\ ~waiting'
      BY <1>4, <2>1, LineFrame
    <2>3. \A i \in 1..step' - 1 : Command[cmd][i] # "root"
      <3>1. \A i \in 1..step - 1 : Command[cmd][i] # "root"
        BY <2>1, <2>2
      <3>2. CASE step' = step
        BY <3>1, <3>2
      <3>3. CASE step' = step + 1
        <4>1. ~At("root")
          BY <1>4, <2>2, <3>3, LineFrame, StepFacts
        <4>2. Command[cmd][step] # "root"
          BY <1>4, <4>1, LineFrame DEF At
        <4>. QED
          BY <3>1, <3>3, <4>2, StepFacts
      <3>. QED
        BY <1>4, <2>1, <3>2, <3>3, LineFrame
    <2>4. ~pushed'
      <3>1. ~At("push")
        BY <2>1, <2>2, StepFacts DEF At, Guarded
      <3>. QED
        BY <1>4, <2>1, <3>1, LineFrame DEF Passed
    <2>5. \A p \in Policies : governor'[p] = "schedutil"
      <3>1. PinPerfStep \/ UnpinStep => governor' = governor
        BY <2>2 DEF PinPerfStep, UnpinStep, SetGovernor
      <3>. QED
        BY <1>4, <2>1, <3>1, LineFrame
    <2>. QED
      BY <2>1, <2>2, <2>3, <2>4, <2>5
  <1>5. CASE Reboot
    BY <1>5 DEF Reboot, GoDown, scriptVars
  <1>. QED
    BY <1>1, <1>2, <1>3, <1>4, <1>5 DEF Next

(* NoRootNoChange: without a root method and without su, no sequence of          *)
(* commands boots the recovery, moves a governor or pushes cppbench.         *)
THEOREM UnrootedLeftAlone == Spec => []NoRootNoChange
  <1>1. Init => StaysUnrooted
    BY DEF Init, StaysUnrooted, Unrootable
  <1>2. StaysUnrooted => NoRootNoChange
    BY DEF StaysUnrooted, NoRootNoChange, Unrootable
  <1>. QED
    BY <1>1, <1>2, NextUnrooted, TypeCorrect, PTL DEF Spec

(* A success proves nothing of a policy whose governor the kernel refused: the  *)
(* loop of writes has the status of its last one.  So two of the theorems     *)
(* suppose that the kernel accepts governor g for every policy.             *)
Accepts(g) == \A p \in Policies : g \in Supports[p]

(* The commands that promise to restore end with the unpin.                 *)
LEMMA RestoringEndsInUnpin ==
    ASSUME NEW c \in Restoring
    PROVE  Len(Command[c]) \in Nat /\ Len(Command[c]) >= 1 /\ Command[c][Len(Command[c])] = "unpin"
  <1>1. CASE c = "full"
    BY <1>1, FullCommandShape DEF FullShape
  <1>2. CASE c = "full_stats"
    BY <1>2, FullCommandShape, HarnessAssumption DEF FullShape
  <1>3. CASE c = "unpin"
    <2>1. /\ <<"require">> \in Seq(StepNames) /\ Len(<<"require">>) = 1
          /\ Unpin \in Seq(StepNames) /\ Len(Unpin) = 2 /\ Unpin[2] = "unpin"
      BY DEF Unpin, StepNames
    <2>2. Command["unpin"] = <<"require">> \o Unpin
      BY DEF Command
    <2>3. /\ Len(<<"require">> \o Unpin) = Len(<<"require">>) + Len(Unpin)
          /\ \A i \in 1..Len(Unpin) : (<<"require">> \o Unpin)[Len(<<"require">>) + i] = Unpin[i]
      BY <2>1, Joined, Zenon
    <2>4. Len(<<"require">> \o Unpin) = 3 /\ (<<"require">> \o Unpin)[1 + 2] = "unpin"
      BY <2>1, <2>3
    <2>. QED
      BY <1>3, <2>2, <2>4
  <1>. QED
    BY <1>1, <1>2, <1>3 DEF Restoring

LEMMA NextOkAtEnd == OkAtEnd /\ [Next]_vars => OkAtEnd'
  <1>. SUFFICES ASSUME OkAtEnd, [Next]_vars PROVE OkAtEnd'
    OBVIOUS
  <1>. USE DEF OkAtEnd
  <1>1. CASE UNCHANGED vars \/ AppStep \/ Boot
    BY <1>1, DeviceFrame
  <1>2. CASE Start \/ Exit0
    BY <1>2 DEF Start, Exit0
  <1>3. CASE ScriptStep /\ ~Exit0
    BY <1>3, LineFrame DEF ToRecovery
  <1>4. CASE Reboot
    BY <1>4 DEF Reboot, scriptVars
  <1>. QED
    BY <1>1, <1>2, <1>3, <1>4 DEF Next

LEMMA NextUnpinned ==
    ASSUME Accepts("schedutil")
    PROVE  TypeOK /\ UnpinnedAtEnd /\ [Next]_vars => UnpinnedAtEnd'
  <1>. SUFFICES ASSUME TypeOK, UnpinnedAtEnd, [Next]_vars PROVE UnpinnedAtEnd'
    OBVIOUS
  <1>. USE DEF UnpinnedAtEnd
  <1>1. CASE UNCHANGED vars \/ AppStep \/ Boot
    BY <1>1, DeviceFrame
  <1>2. CASE Start
    <2>1. cmd' \in Restoring => ~(step' > Len(Command[cmd']))
      BY <1>2, RestoringEndsInUnpin DEF Start
    <2>. QED
      BY <1>2, <2>1 DEF Start
  <1>3. CASE Exit0
    BY <1>3 DEF Exit0, deviceVars
  <1>4. CASE ScriptStep /\ ~Exit0
    <2>1. status = "running" /\ step <= Len(Command[cmd]) /\ cmd' = cmd /\ status' # "ok"
      BY <1>4, LineFrame DEF ToRecovery
    <2>2. ASSUME cmd \in Restoring, status' = "running", step' > Len(Command[cmd])
          PROVE  \A p \in Policies : governor'[p] = "schedutil"
      <3>1. step' = step + 1 /\ step = Len(Command[cmd])
        BY <1>4, <2>1, <2>2, LineFrame, StepFacts DEF ToRecovery
      <3>2. At("unpin")
        BY <2>1, <2>2, <3>1, RestoringEndsInUnpin DEF At
      <3>3. UnpinStep
        BY <1>4, <3>2, LineFrame
      <3>4. root
        BY <2>1, <2>2, <3>3 DEF UnpinStep, SetGovernor, Abort
      <3>. QED
        BY <3>3, <3>4 DEF UnpinStep, SetGovernor, Accepts
    <2>. QED
      BY <2>1, <2>2
  <1>5. CASE Reboot
    BY <1>5 DEF Reboot, GoDown, scriptVars
  <1>. QED
    BY <1>1, <1>2, <1>3, <1>4, <1>5 DEF Next

(* SuccessRestores: a full, full-stats or unpin that reports success leaves      *)
(* every policy at schedutil, wherever the device rebooted, if its kernel     *)
(* accepts schedutil for each of them.                                      *)
THEOREM SuccessHasRestored ==
    ASSUME Accepts("schedutil")
    PROVE  Spec => []SuccessRestores
  <1>1. Init => UnpinnedAtEnd /\ OkAtEnd
    BY DEF Init, UnpinnedAtEnd, OkAtEnd
  <1>2. TypeOK /\ UnpinnedAtEnd /\ [Next]_vars => UnpinnedAtEnd'
    BY NextUnpinned
  <1>3. UnpinnedAtEnd /\ OkAtEnd => SuccessRestores
    BY DEF UnpinnedAtEnd, OkAtEnd, SuccessRestores, Restoring
  <1>. QED
    BY <1>1, <1>2, <1>3, NextOkAtEnd, TypeCorrect, PTL DEF Spec

(* Where full and full-stats stand when they pin, measure and unpin.          *)
LEMMA FullPositions ==
    ASSUME TypeOK, cmd \in {"full", "full_stats"}, Runs # 0
    PROVE  /\ At("pin") <=> status = "running" /\ step = 4
           /\ At("unpin") <=> status = "running" /\ step = Len(Command[cmd])
           /\ At("run") => step > 7 /\ step < Len(Command[cmd])
           /\ status = "running" /\ step = 8 => At("run")
           /\ status = "running" /\ step = 2 => At("root")
           /\ Len(Command[cmd]) > 9
  <1>1. PICK n \in Nat : n # 0 /\ FullShape(Command[cmd], n)
    BY FullCommandShape, HarnessAssumption
  <1>. DEFINE c == Command[cmd]
  <1>. HIDE DEF c
  <1>2. FullShape(c, n) /\ Len(c) \in Nat
    BY <1>1 DEF c, FullShape
  <1>3. \A i \in 1..Len(c) : /\ c[i] = "pin" <=> i = 4
                             /\ c[i] = "unpin" <=> i = Len(c)
                             /\ c[i] = "run" => i > 7 /\ i < Len(c)
    <2>. SUFFICES ASSUME NEW i \in 1..Len(c)
                  PROVE  /\ c[i] = "pin" <=> i = 4
                         /\ c[i] = "unpin" <=> i = Len(c)
                         /\ c[i] = "run" => i > 7 /\ i < Len(c)
      OBVIOUS
    <2>1. CASE i \in 1..7
      <3>1. i = 1 \/ i = 2 \/ i = 3 \/ i = 4 \/ i = 5 \/ i = 6 \/ i = 7
        BY <2>1
      <3>2. Len(c) > 7
        BY <1>1, <1>2 DEF FullShape
      <3>3. c[i] \notin {"unpin", "run"} /\ (c[i] = "pin" <=> i = 4)
        BY <1>2, <3>1 DEF FullShape
      <3>. QED
        BY <1>2, <2>1, <3>2, <3>3
    <2>2. CASE i \in 8..n + 7
      BY <1>2, <2>2 DEF FullShape
    <2>3. CASE i \in n + 8..Len(c) - 2
      BY <1>1, <1>2, <2>3 DEF FullShape
    <2>4. CASE i = Len(c) - 1 \/ i = Len(c)
      BY <1>1, <1>2, <2>4 DEF FullShape
    <2>. QED
      BY <1>2, <2>1, <2>2, <2>3, <2>4
  <1>4. c[8] = "run" /\ c[2] = "root" /\ Len(c) > 9
    BY <1>1, <1>2 DEF FullShape
  <1>5. step \in Nat /\ step >= 1
    BY StepFacts
  <1>6. \A s : At(s) <=> status = "running" /\ step \in 1..Len(c) /\ c[step] = s
    BY <1>2, <1>5 DEF At, c
  <1>. QED
    BY <1>2, <1>3, <1>4, <1>5, <1>6 DEF c

LEMMA NextPinned ==
    ASSUME Accepts("performance"), Runs # 0
    PROVE  TypeOK /\ PinnedWhileMeasuring /\ [Next]_vars => PinnedWhileMeasuring'
  <1>. SUFFICES ASSUME TypeOK, PinnedWhileMeasuring, [Next]_vars PROVE PinnedWhileMeasuring'
    OBVIOUS
  <1>. USE DEF PinnedWhileMeasuring
  <1>1. CASE UNCHANGED vars \/ AppStep \/ Boot
    BY <1>1, DeviceFrame DEF TypeOK
  <1>2. CASE Start
    BY <1>2 DEF Start
  <1>3. CASE Exit0
    BY <1>3 DEF Exit0, deviceVars, historyVars
  <1>4. CASE ScriptStep /\ ~Exit0
    <2>. SUFFICES ASSUME cmd \in {"full", "full_stats"}, status' = "running", ~rebooted
                  PROVE  /\ step' > 2 => root'
                         /\ (step' > 4 /\ step' <= Len(Command[cmd])) =>
                                \A p \in Policies : governor'[p] = "performance"
                         /\ measured' # "unpinned"
                         /\ step' > 8 => measured' = "pinned"
      BY <1>4, LineFrame DEF ToRecovery
    <2>1. /\ status = "running" /\ step <= Len(Command[cmd]) /\ cmd' = cmd
          /\ step \in Nat /\ step >= 1 /\ Len(Command[cmd]) \in Nat
      BY <1>4, LineFrame, StepFacts
    <2>2. /\ step > 2 => root
          /\ (step > 4 /\ step <= Len(Command[cmd])) => \A p \in Policies : governor[p] = "performance"
          /\ measured # "unpinned"
          /\ step > 8 => measured = "pinned"
      BY <2>1
    <2>3. CASE ToRecovery
      <3>1. step' = step /\ ~(step > 2)
        BY <2>2, <2>3 DEF ToRecovery
      <3>2. measured' = measured
        BY <1>4, <2>3, LineFrame DEF ToRecovery, Passed, At
      <3>. QED
        BY <2>1, <2>2, <3>1, <3>2
    <2>4. CASE ~ToRecovery
      <3>1. step' = step + 1 /\ root' = root
        BY <1>4, <2>4, LineFrame
      <3>2. step' > 2 => root'
        BY <1>4, <2>1, <2>2, <3>1, FullPositions, LineFrame
      <3>3. (step' > 4 /\ step' <= Len(Command[cmd])) =>
                \A p \in Policies : governor'[p] = "performance"
        <4>. SUFFICES ASSUME step' > 4, step' <= Len(Command[cmd])
                      PROVE  \A p \in Policies : governor'[p] = "performance"
          OBVIOUS
        <4>1. CASE step = 4
          <5>1. PinPerfStep /\ root
            BY <1>4, <2>1, <2>2, <4>1, FullPositions, LineFrame
          <5>. QED
            BY <5>1 DEF PinPerfStep, SetGovernor, Accepts
        <4>2. CASE step # 4
          <5>1. ~At("pin") /\ ~At("unpin")
            BY <2>1, <3>1, <4>2, FullPositions
          <5>2. governor' = governor
            BY <1>4, <2>4, <5>1, LineFrame DEF PinPerfStep, UnpinStep
          <5>. QED
            BY <2>1, <2>2, <3>1, <4>2, <5>2
        <4>. QED
          BY <4>1, <4>2
      <3>4. measured' # "unpinned" /\ (step' > 8 => measured' = "pinned")
        <4>1. CASE At("run")
          <5>1. RunCppbench /\ \A p \in Policies : governor[p] = "performance"
            BY <1>4, <2>1, <2>2, <4>1, FullPositions, LineFrame
          <5>2. measured' = "pinned"
            BY <2>2, <5>1 DEF RunCppbench, Abort
          <5>. QED
            BY <5>2
        <4>2. CASE ~At("run")
          <5>1. measured' = measured /\ step # 8
            BY <1>4, <2>1, <4>2, FullPositions, LineFrame DEF Passed
          <5>. QED
            BY <2>1, <2>2, <3>1, <5>1
        <4>. QED
          BY <4>1, <4>2
      <3>. QED
        BY <3>2, <3>3, <3>4
    <2>. QED
      BY <2>3, <2>4
  <1>5. CASE Reboot
    BY <1>5 DEF Reboot
  <1>. QED
    BY <1>1, <1>2, <1>3, <1>4, <1>5 DEF Next

(* MeasuredPinned: a full or full-stats that reports success has measured, and   *)
(* always with every policy at performance, unless the device rebooted by     *)
(* itself; if its kernel accepts that governor everywhere and at least one    *)
(* run is asked for.                                                        *)
THEOREM SuccessWasPinned ==
    ASSUME Accepts("performance"), Runs # 0
    PROVE  Spec => []MeasuredPinned
  <1>1. Init => OkAtEnd /\ PinnedWhileMeasuring
    BY DEF Init, OkAtEnd, PinnedWhileMeasuring
  <1>2. TypeOK /\ PinnedWhileMeasuring /\ [Next]_vars => PinnedWhileMeasuring'
    BY NextPinned
  <1>3. TypeOK /\ OkAtEnd /\ PinnedWhileMeasuring => MeasuredPinned
    <2>. SUFFICES ASSUME TypeOK, OkAtEnd, PinnedWhileMeasuring, status = "ok",
                         cmd \in {"full", "full_stats"}, ~rebooted
                  PROVE  measured = "pinned"
      BY DEF MeasuredPinned
    <2>1. step > Len(Command[cmd]) /\ step \in Nat /\ Len(Command[cmd]) \in Nat
      BY StepFacts DEF OkAtEnd
    <2>2. Len(Command[cmd]) > 9
      BY FullPositions
    <2>. QED
      BY <2>1, <2>2 DEF PinnedWhileMeasuring
  <1>. QED
    BY <1>1, <1>2, <1>3, NextOkAtEnd, TypeCorrect, PTL DEF Spec
=============================================================================
