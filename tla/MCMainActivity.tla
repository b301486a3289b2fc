--------------------------- MODULE MCMainActivity ---------------------------
(* TLC instance of MainActivity.  Two jobs are an orphan and the new activity's  *)
(* own; three uploads overflow a history of two.                            *)
EXTENDS MainActivity

CONSTANTS hwcaps, sensors
=============================================================================
