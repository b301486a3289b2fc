----------------------------- MODULE MCDispatch -----------------------------
(***************************************************************************)
(* TLC instance of Dispatch: the real registry, and filters of every kind.   *)
(***************************************************************************)
EXTENDS Dispatch

CONSTANTS app1, app2

MCRegistry == <<"stream", "latency", "neon_fma", "dot_int8", "i8mm", "sve2",
                "perf_counters", "sustained">>
MCOptIn == {"i8mm", "sve2", "sustained"}

Naming(ns) == [empty |-> FALSE, names |-> ns]

(* The default suite; a filter that names nothing; one and two opt-ins; a     *)
(* default bench next to an opt-in; everything.                             *)
MCFilters == {DefaultFilter, Naming({}), Naming({"sustained"}), Naming({"i8mm", "sve2"}),
              Naming({"stream", "sve2"}), Naming(Names)}

(* A shorter table for two callers: two default benches and one opt-in.      *)
SmallRegistry == <<"stream", "i8mm", "perf_counters">>
SmallOptIn == {"i8mm"}
SmallFilters == {DefaultFilter, Naming({"stream", "i8mm"})}
=============================================================================
