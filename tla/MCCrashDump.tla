---------------------------- MODULE MCCrashDump ----------------------------
(***************************************************************************)
(* TLC instances of CrashDump: the benchmark thread alone, or next to a       *)
(* second native thread (an orphan or another library's thread).             *)
(***************************************************************************)
EXTENDS CrashDump

CONSTANTS bench, orphan, SIGSEGV, SIGILL, i8mm
=============================================================================
