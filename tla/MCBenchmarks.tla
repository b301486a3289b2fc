---------------------------- MODULE MCBenchmarks ----------------------------
(* Three CPUs of at most two speeds are the smallest machine with a frequency     *)
(* whose CPUs are not contiguous.  Three events, each occurring up to twice;  *)
(* buffers of one line (rounded up to two slots) and of four, walked twice,   *)
(* further than once around; two clusters that agree or differ in every       *)
(* feature, two runs aggregated; a core that is throttled to a quarter and     *)
(* loses as much as four intervals to others; two zones and two CPUs that can *)
(* change places in a frame.                                                *)
EXTENDS Benchmarks

MCBenches == <<"cluster", "cpu", "big">>
MCWanted == <<"cpu_cycles", "cache_misses", "page_faults">>
MCSizesBytes == <<64, 256>>
=============================================================================
