--------------------------- MODULE DeviceHarness ---------------------------
(***************************************************************************)
(* scripts/device-harness.sh against one physical device.  The script is a    *)
(* straight line of steps under "set -euo pipefail": a failing step ends it  *)
(* with a non-zero status, whatever it has already done to the device.  The  *)
(* device lives its own life: it boots, may reboot by itself and, during     *)
(* ui-test, the app writes its files while the script looks for them.        *)
(***************************************************************************)
EXTENDS Naturals, Sequences

CONSTANTS
    Policies,     \* cpufreq policies of the device
    LastPolicy,   \* the one the shell glob expands to last
    Supports,     \* Supports[p]: governors the kernel accepts for policy p
    Devices,      \* the devices that may answer under the serial
    Runs,         \* number of runs of bench-stats
    MaxReboots    \* bound: spontaneous reboots in a behaviour

ASSUME HarnessAssumption ==
    /\ LastPolicy \in Policies
    /\ Supports \in [Policies -> SUBSET {"performance", "schedutil"}]
    /\ Devices \subseteq [codename : STRING, want : STRING, method : {"recovery", "magisk", "none"},
                           su : {"always", "recovery", "never"}]
    /\ Runs \in Nat /\ MaxReboots \in Nat

VARIABLES
    device,     \* its codename, when su works on it, and what the registry has under its
                \* serial: the codename ("" if none) and the root method
    cmd,        \* the command being run, or last run
    step,       \* position in Steps(cmd)
    status,     \* "idle", "running", "ok" or "failed"
    waiting,    \* ensure_root has rebooted the device and waits for it
    power,      \* "off", "adb" (adbd answers, boot not completed) or "up"
    root,       \* su works
    slot,       \* the slot being booted: "normal" or "recovery"
    governor,   \* governor[p]
    pushed,     \* cppbench is at $REMOTE
    reboots,    \* spontaneous reboots so far
    app,        \* what the app's external files dir shows of the Run job
    hwcapsFile, \* and whether a hwcaps-*.json is there
    touched,    \* history: this command changed something on the device
    rebooted,   \* history: the device rebooted by itself during this command
    measured    \* history: governors during the last benchmark run of this command

deviceVars == <<device, power, root, slot, governor, pushed, app, hwcapsFile>>
scriptVars == <<cmd, step, status, waiting>>
historyVars == <<touched, rebooted, measured>>
vars == <<scriptVars, deviceVars, reboots, historyVars>>

(* main: the steps of each command, with the calls of its functions in line. *)
Bench(n) == <<"root", "push">> \o [i \in 1..n |-> "run"]
PinPerf == <<"root", "pin", "show">>
Unpin == <<"root", "unpin">>
Command == [
    probe          |-> <<"require", "report">>,
    root           |-> <<"require", "root">>,
    pin_perf       |-> <<"require">> \o PinPerf,
    unpin          |-> <<"require">> \o Unpin,
    install        |-> <<"require", "install">>,
    bench          |-> <<"require">> \o Bench(1),
    bench_stats    |-> <<"require">> \o Bench(Runs) \o <<"aggregate">>,
    full           |-> <<"require", "root">> \o PinPerf \o Bench(1) \o Unpin,
    full_stats     |-> <<"require", "root">> \o PinPerf \o Bench(Runs) \o <<"aggregate">> \o Unpin,
    ui_test        |-> <<"require", "resolve_apk", "install", "root", "clear", "launch",
                         "tap_hwcaps", "check_hwcaps", "tap_run", "poll_run">>]

TypeOK ==
    /\ device \in Devices
    /\ cmd \in DOMAIN Command
    /\ step \in 1..Len(Command[cmd]) + 1
    /\ status \in {"idle", "running", "ok", "failed"}
    /\ waiting \in BOOLEAN
    /\ power \in {"off", "adb", "up"}
    /\ root \in BOOLEAN /\ (root => power = "up")
    /\ slot \in {"normal", "recovery"}
    /\ governor \in [Policies -> {"performance", "schedutil"}]
    /\ pushed \in BOOLEAN
    /\ reboots \in 0..MaxReboots
    /\ app \in {"none", "queued", "running", "opened", "latest", "copied"}
    /\ hwcapsFile \in BOOLEAN
    /\ touched \in BOOLEAN /\ rebooted \in BOOLEAN
    /\ measured \in {"nothing", "pinned", "unpinned"}

Init ==
    /\ device \in Devices
    /\ cmd = "full" /\ step = 1 /\ status = "idle" /\ waiting = FALSE
    /\ power = "up"
    /\ root \in BOOLEAN /\ (root => device.su # "never")
    /\ slot = IF root /\ device.su = "recovery" THEN "recovery" ELSE "normal"
    /\ governor = [p \in Policies |-> "schedutil"]
    /\ pushed = FALSE /\ reboots = 0 /\ app = "none" /\ hwcapsFile = FALSE
    /\ touched = FALSE /\ rebooted = FALSE /\ measured = "nothing"

Start == /\ status # "running"
         /\ cmd' \in DOMAIN Command
         /\ step' = 1 /\ status' = "running"
         /\ touched' = FALSE /\ rebooted' = FALSE /\ measured' = "nothing"
         /\ UNCHANGED <<waiting, deviceVars, reboots>>

At(s) == status = "running" /\ step <= Len(Command[cmd]) /\ Command[cmd][step] = s

Advance == /\ step' = step + 1
           /\ waiting' = FALSE
           /\ UNCHANGED <<cmd, status>>

(* errexit, or an explicit exit 1. *)
Abort == /\ status' = "failed"
         /\ waiting' = FALSE
         /\ UNCHANGED <<cmd, step>>

Exit0 == /\ status = "running" /\ step > Len(Command[cmd])
         /\ status' = "ok"
         /\ UNCHANGED <<cmd, step, waiting, deviceVars, reboots, historyVars>>

-----------------------------------------------------------------------------
CodenameUnchecked == TRUE \* mutant: the comparison is dropped

(* get-state, then the codename is compared only if the registry has one. *)
RightDevice == device.want = "" \/ device.codename = device.want

RequireDevice ==
    /\ At("require")
    /\ IF power # "off" /\ RightDevice THEN Advance ELSE Abort
    /\ UNCHANGED <<deviceVars, reboots, historyVars>>

(* The new kernel starts with its own governors and without root. *)
GoDown(s) == /\ power' = "off" /\ root' = FALSE /\ slot' = s
             /\ governor' = [p \in Policies |-> "schedutil"]
             /\ app' = IF app \in {"queued", "running"} THEN "none" ELSE app
             /\ UNCHANGED <<device, pushed, hwcapsFile>>

EnsureRootAnyMethod == \* mutant: the case on the root method is dropped
    /\ At("root") /\ ~waiting
    /\ \/ root /\ Advance /\ UNCHANGED <<deviceVars, touched>>
       \/ ~root /\ power = "off" /\ Abort /\ UNCHANGED <<deviceVars, touched>>
       \/ /\ ~root /\ power # "off"
          /\ GoDown("recovery")
          /\ touched' = TRUE /\ waiting' = TRUE
          /\ UNCHANGED <<cmd, step, status>>
    /\ UNCHANGED <<reboots, rebooted, measured>>

(* Root already active is enough; otherwise only the recovery method helps. *)
EnsureRoot ==
    /\ At("root") /\ ~waiting
    /\ \/ root /\ Advance /\ UNCHANGED <<deviceVars, touched>>
       \/ ~root /\ (device.method # "recovery" \/ power = "off") /\ Abort
                /\ UNCHANGED <<deviceVars, touched>>
       \/ /\ ~root /\ device.method = "recovery" /\ power # "off"
          /\ GoDown("recovery")
          /\ touched' = TRUE /\ waiting' = TRUE
          /\ UNCHANGED <<cmd, step, status>>
    /\ UNCHANGED <<reboots, rebooted, measured>>

AwaitRootForever == \* mutant: polling without a last look
    /\ At("root") /\ waiting /\ root
    /\ Advance
    /\ UNCHANGED <<deviceVars, reboots, historyVars>>

(* wait-for-device blocks while the device is off; then at most 80 polls of    *)
(* sys.boot_completed, and one last look at su.                             *)
AwaitRoot ==
    /\ At("root") /\ waiting /\ power # "off"
    /\ IF root THEN Advance ELSE Abort
    /\ UNCHANGED <<deviceVars, reboots, historyVars>>

SetGovernorOnce(g) == \* mutant: only the policy named last is written
    IF root
    THEN /\ governor' = [governor EXCEPT ![LastPolicy] =
                             IF g \in Supports[LastPolicy] THEN g ELSE @]
         /\ touched' = TRUE
         /\ IF g \in Supports[LastPolicy] THEN Advance ELSE Abort
    ELSE Abort /\ UNCHANGED <<governor, touched>>

(* for p in policy*; do echo g > $p/scaling_governor; done: the status of the  *)
(* loop is that of its last echo.                                           *)
SetGovernor(g) ==
    IF root
    THEN /\ governor' = [p \in Policies |-> IF g \in Supports[p] THEN g ELSE governor[p]]
         /\ touched' = TRUE
         /\ IF g \in Supports[LastPolicy] THEN Advance ELSE Abort
    ELSE Abort /\ UNCHANGED <<governor, touched>>

PinPerfStep == /\ At("pin") /\ SetGovernor("performance")
               /\ UNCHANGED <<device, power, root, slot, pushed, app, hwcapsFile, reboots, rebooted, measured>>

(* pin_perf prints what it has set, again as root. *)
ShowGovernors == /\ At("show")
                 /\ IF root THEN Advance ELSE Abort
                 /\ UNCHANGED <<deviceVars, reboots, historyVars>>

UnpinNothing == \* mutant: restores the governor it finds
    /\ At("unpin") /\ Advance
    /\ UNCHANGED <<deviceVars, reboots, historyVars>>

UnpinStep == /\ At("unpin") /\ SetGovernor("schedutil")
             /\ UNCHANGED <<device, power, root, slot, pushed, app, hwcapsFile, reboots, rebooted, measured>>

(* resolve_cppbench may have to download and fail; so may the push. *)
PushCppbench ==
    /\ At("push")
    /\ \/ power # "off" /\ Advance /\ pushed' = TRUE /\ touched' = TRUE
       \/ Abort /\ UNCHANGED <<pushed, touched>>
    /\ UNCHANGED <<device, power, root, slot, governor, app, hwcapsFile, reboots, rebooted, measured>>

(* asroot "$REMOTE ..." | tr | > out: under pipefail a crash of cppbench, a     *)
(* dropped connection or a full disk all end the script here.               *)
RunCppbench ==
    /\ At("run")
    /\ \/ /\ root /\ pushed /\ Advance
          /\ measured' = IF \A p \in Policies : governor[p] = "performance"
                         THEN (IF measured = "unpinned" THEN "unpinned" ELSE "pinned")
                         ELSE "unpinned"
       \/ Abort /\ UNCHANGED measured
    /\ UNCHANGED <<deviceVars, reboots, touched, rebooted>>

LocalStepFallThrough == \* mutant: the step after a local step is skipped
    /\ \E s \in {"report", "aggregate", "resolve_apk"} : At(s)
    /\ step' = step + 2
    /\ UNCHANGED <<cmd, status, waiting, deviceVars, reboots, historyVars>>

(* Steps that change nothing on the device: probe's queries, aggregate-runs.py,   *)
(* and resolve_apk, which may have to download.                             *)
LocalStep == /\ \E s \in {"report", "aggregate", "resolve_apk"} : At(s)
             /\ Advance \/ Abort
             /\ UNCHANGED <<deviceVars, reboots, historyVars>>

(* install_apk, and the uninstall ("|| true") and install of ui_test.  The      *)
(* uninstall takes the app's files with it, whatever the install then does.  *)
Uninstalled == cmd = "ui_test" /\ app' = "none" /\ hwcapsFile' = FALSE

Install ==
    /\ At("install")
    /\ \/ /\ power # "off" /\ (Advance \/ Abort)
          /\ touched' = TRUE
          /\ Uninstalled \/ UNCHANGED <<app, hwcapsFile>>
       \/ Abort /\ UNCHANGED <<app, hwcapsFile, touched>>
    /\ UNCHANGED <<device, power, root, slot, governor, pushed, reboots, rebooted, measured>>

-----------------------------------------------------------------------------
(* ui_test: the script taps, the app works, the script looks for files *)

ClearFiles ==   \* "|| true": never fails
    /\ At("clear") /\ Advance
    /\ IF root THEN hwcapsFile' = FALSE /\ app' = "none" ELSE UNCHANGED <<hwcapsFile, app>>
    /\ UNCHANGED <<device, power, root, slot, governor, pushed, reboots, historyVars>>

Launch == /\ At("launch")
          /\ (power = "up" /\ Advance) \/ Abort
          /\ UNCHANGED <<deviceVars, reboots, historyVars>>

(* The hwcaps job takes no time worth telling apart: its file appears within   *)
(* the sleep of two seconds, or the app has failed to write it.             *)
TapHwcaps == /\ At("tap_hwcaps")
             /\ \/ power = "up" /\ Advance /\ hwcapsFile' \in BOOLEAN
                \/ Abort /\ UNCHANGED hwcapsFile
             /\ UNCHANGED <<device, power, root, slot, governor, pushed, app, reboots, historyVars>>

CheckHwcaps == /\ At("check_hwcaps")
               /\ IF root /\ hwcapsFile THEN Advance ELSE Abort
               /\ UNCHANGED <<deviceVars, reboots, historyVars>>

TapRun == /\ At("tap_run")
          /\ \/ power = "up" /\ Advance /\ app' = "queued"
             \/ Abort /\ UNCHANGED app
          /\ UNCHANGED <<device, power, root, slot, governor, pushed, hwcapsFile, reboots, historyVars>>

(* Thirty looks for benchmarks-*.json, two seconds apart. *)
PollRun == /\ At("poll_run")
           /\ (root /\ app \in {"opened", "latest", "copied"} /\ Advance) \/ Abort
           /\ UNCHANGED <<deviceVars, reboots, historyVars>>

(* The app's Run job: the native run, maybe_persist opening and writing         *)
(* benchmarks-latest.json, finishJob's copy.  It can die at any point.       *)
AppStep ==
    /\ power = "up"
    /\ \/ app = "queued" /\ app' = "running"
       \/ app = "running" /\ app' \in {"opened", "none"}
       \/ app = "opened" /\ app' = "latest"
       \/ app = "latest" /\ app' = "copied"
    /\ UNCHANGED <<scriptVars, device, power, root, slot, governor, pushed, hwcapsFile, reboots, historyVars>>

-----------------------------------------------------------------------------
(* The device *)

SuIn(s) == device.su = "always" \/ (device.su = "recovery" /\ s = "recovery")

Boot == /\ power # "up"
        /\ power' = IF power = "off" THEN "adb" ELSE "up"
        /\ \/ root' = FALSE
           \/ power = "adb" /\ SuIn(slot) /\ root' = TRUE
        /\ UNCHANGED <<scriptVars, device, slot, governor, pushed, app, hwcapsFile, reboots, historyVars>>

Reboot == /\ power = "up" /\ reboots < MaxReboots
          /\ reboots' = reboots + 1
          /\ rebooted' = TRUE
          /\ GoDown("normal")
          /\ UNCHANGED <<scriptVars, touched, measured>>

ScriptStep == \/ RequireDevice \/ EnsureRoot \/ AwaitRoot \/ PinPerfStep \/ ShowGovernors \/ UnpinStep
              \/ PushCppbench \/ RunCppbench \/ LocalStep \/ Install \/ ClearFiles
              \/ Launch \/ TapHwcaps \/ CheckHwcaps \/ TapRun \/ PollRun \/ Exit0

Next == Start \/ ScriptStep \/ AppStep \/ Boot \/ Reboot

(* The shell runs its next line; a device that is off comes back.  The second  *)
(* is an assumption on the device: wait-for-device has no timeout of its own *)
(* (the workflow that drives the script gives up after 20 minutes).          *)
Fairness == WF_vars(ScriptStep) /\ WF_vars(Boot)

Spec == Init /\ [][Next]_vars /\ Fairness

-----------------------------------------------------------------------------
(* A device that is not the one the registry expects under its serial is        *)
(* neither rebooted, written to nor installed on, whatever the command       *)
(* (require_device runs before everything else).                            *)
WrongDeviceUntouched == (device.want # "" /\ device.codename # device.want) => ~touched

(* "root_method=none so it's never rooted/modified": a device without a root     *)
(* method and without su is never rebooted to recovery, its governors keep    *)
(* their setting and no cppbench is pushed, through any sequence of commands. *)
NoRootNoChange ==
    (device.method = "none" /\ device.su = "never") =>
        slot = "normal" /\ ~pushed /\ \A p \in Policies : governor[p] = "schedutil"

(* When full or full-stats reports success on a device whose policies accept     *)
(* both governors, every policy is back at schedutil, also if the device      *)
(* rebooted on the way.                                                     *)
SuccessRestores ==
    (status = "ok" /\ cmd \in {"full", "full_stats", "unpin"}) =>
        \A p \in Policies : governor[p] = "schedutil"

(* The numbers of a full or full-stats run that reports success were all taken   *)
(* with every policy at "performance", unless the device rebooted by itself. *)
MeasuredPinned ==
    (status = "ok" /\ cmd \in {"full", "full_stats"} /\ ~rebooted) => measured = "pinned"

(* No command hangs: the wait for root and the polls are bounded. *)
CommandEnds == status = "running" ~> status # "running"

(* Header: "Governor changes are restored on 'restore'/'full'": once a full has   *)
(* ended no policy is left at "performance".                                *)
FullRestores ==
    (status \in {"ok", "failed"} /\ cmd = "full" /\ power = "up") =>
        \A p \in Policies : governor[p] = "schedutil"

(* Header, SAFETY: "Refuses to act on a device whose codename isn't in the        *)
(* registry": no command changes anything on such a device.                  *)
UnknownDeviceRefused == device.want = "" => ~touched
=============================================================================
