---------------------------- MODULE MCLiveStream ----------------------------
(***************************************************************************)
(* TLC instance of LiveStream: a continuous, an on-change and a one-shot     *)
(* sensor; the third event carries a NaN in the run that has one.           *)
(***************************************************************************)
EXTENDS LiveStream

CONSTANTS accel, light, motion

MCMode == [s \in Sensors |-> CASE s = accel -> 0 [] s = light -> 1 [] s = motion -> 2]
MCPlace == [s \in Sensors |-> CASE s = accel -> 1 [] s = light -> 2 [] s = motion -> 3]
Third == {3} \cap 1..MaxEvents

(* Typed in an adb shell: with the interval as it is, with a negative one, with    *)
(* another task that comes first, and in a form that main does not know.       *)
Direct == {<<Bare("--stream")>>, <<Bare("--stream"), WithValue("--interval-ms", -1)>>,
           <<Bare("--stream"), Bare("--list")>>, <<Bare("--stream"), Bare("--interval-ms")>>}

(* As the script documents it, without an argument and with a serial. *)
Documented == {LiveDashboard(<<>>), LiveDashboard(<<Bare("serial")>>)}
=============================================================================
