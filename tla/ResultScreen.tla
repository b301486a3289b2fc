---------------------------- MODULE ResultScreen ----------------------------
(***************************************************************************)
(* What the user of MainActivity is promised about results, activity by      *)
(* activity: a screen works on at most one job at a time; what it comes to   *)
(* show is the job it is working on; the report of a crash may only appear   *)
(* when the screen is created; nothing that was started by an earlier        *)
(* screen ever appears.                                                     *)
(***************************************************************************)
EXTENDS Naturals

CONSTANTS Jobs,       \* every job ever tapped
          Nothing,    \* the screen shows no result, works on no job
          Dumps       \* what the crash banner may show

VARIABLES screen,     \* number of the current activity; 0 when there is none
          working,    \* the job the screen waits for
          shown       \* the result the Upload button would send

rvars == <<screen, working, shown>>

RInit == screen = 0 /\ working = Nothing /\ shown = Nothing

Open == /\ screen = 0
        /\ screen' \in Nat \ {0}
        /\ working' = Nothing
        /\ shown' \in Dumps \cup {Nothing}

Request == /\ screen # 0
           /\ working = Nothing
           /\ working' \in Jobs \ {shown}
           /\ UNCHANGED <<screen, shown>>

Deliver == /\ working # Nothing
           /\ shown' = working
           /\ working' = Nothing
           /\ UNCHANGED screen

Close == /\ screen # 0
         /\ screen' = 0
         /\ working' = Nothing
         /\ shown' = Nothing

RNext == Open \/ Request \/ Deliver \/ Close

RSpec == RInit /\ [][RNext]_rvars
=============================================================================
