---------------------------- MODULE CommandLine ----------------------------
(***************************************************************************)
(* main() of cppbench (bench/bench_main.cpp): the loop over argv and what the  *)
(* program does in the end; and the command line that scripts/                *)
(* live-dashboard.sh makes of its own.  An argument is a name and, behind an   *)
(* "=", at most one value; numbers have been through atoi.                     *)
(***************************************************************************)
EXTENDS Integers, Sequences, SequencesExt

Bare(n) == [name |-> n, value |-> <<>>]
WithValue(n, v) == [name |-> n, value |-> <<v>>]

(* CliArgs, and whether the loop has returned from main. *)
Defaults == [json |-> FALSE, list |-> FALSE, stream |-> FALSE, dump_sensors |-> FALSE,
             dump_cameras |-> FALSE, filter |-> "", iters |-> 0, elems |-> 0,
             interval_ms |-> 250, sensor_rate_us |-> 50000, returned |-> "no"]

Flag == "--list" :> "list" @@ "--json" :> "json" @@ "--stream" :> "stream"
        @@ "--sensors" :> "dump_sensors" @@ "--cameras" :> "dump_cameras"
Setting == "--filter" :> "filter" @@ "--iters" :> "iters" @@ "--elems" :> "elems"
           @@ "--interval-ms" :> "interval_ms" @@ "--sensor-rate-us" :> "sensor_rate_us"

(* One turn of the loop.  A flag with a value and a setting without one are as   *)
(* unknown as any other word.                                               *)
TakeArgument(args, a) ==
    IF args.returned # "no" THEN args
    ELSE IF a.value = <<>> /\ a.name \in {"--help", "-h"}
         THEN [args EXCEPT !.returned = "help"]
    ELSE IF a.value = <<>> /\ a.name \in DOMAIN Flag
         THEN [args EXCEPT ![Flag[a.name]] = TRUE]
    ELSE IF a.value # <<>> /\ a.name \in DOMAIN Setting
         THEN [args EXCEPT ![Setting[a.name]] = a.value[1]]
    ELSE [args EXCEPT !.returned = "refused"]

Parse(argv) == FoldLeft(TakeArgument, Defaults, argv)

(* What main does with them: one thing, the first of these that was asked for. *)
Task(args) ==
    IF args.returned # "no" THEN args.returned
    ELSE IF args.list THEN "list"
    ELSE IF args.dump_sensors THEN "sensors"
    ELSE IF args.dump_cameras THEN "cameras"
    ELSE IF args.stream THEN "stream"
    ELSE "benchmarks"

(* live-dashboard.sh: the first argument is taken for the serial of the device,   *)
(* but not shifted away: "$@" hands it to cppbench with the others.            *)
LiveDashboard(args) == <<Bare("--stream")>> \o args
=============================================================================
