--------------------------- MODULE BenchRegistry ---------------------------
(***************************************************************************)
(* The static table of benchmarks (bench/registry.h) and the question it    *)
(* answers for every slot: does this filter run this benchmark?             *)
(*                                                                          *)
(* A filter is a string the user types; the code only ever asks whether it  *)
(* is empty and whether it contains a benchmark's name as a substring, so   *)
(* a filter is a record of exactly these two answers.                       *)
(***************************************************************************)
EXTENDS Naturals, Sequences

CONSTANTS
    Registry,   \* the tuple Registry: benchmark names in dispatch order
    OptIn,      \* the names whose wrapper answers opt_in() = true
    Filters     \* the filters callers may pass

DefaultFilter == [empty |-> TRUE, names |-> {}]

Slots == 1..Len(Registry)
Names == {Registry[s] : s \in Slots}

(* Filters are well formed: the empty string contains no name.  No other    *)
(* relation is assumed, a non-empty filter may name nothing at all.         *)
ASSUME RegistryAssumption ==
    /\ Registry \in Seq(STRING)
    /\ OptIn \subseteq Names
    /\ DefaultFilter \in Filters
    /\ \A f \in Filters : /\ f \in [empty : BOOLEAN, names : SUBSET Names]
                          /\ f.empty => f.names = {}

(* wanted(): an empty filter wants everything. *)
Wanted(f, name) == f.empty \/ name \in f.names

SelectedUngated(f, s) == Wanted(f, Registry[s]) \* mutant: no opt-in gate

(* The two early returns of try_one, in order. *)
Selected(f, s) == /\ Wanted(f, Registry[s])
                  /\ Registry[s] \in OptIn => Registry[s] \in f.names

(* A list of slots that is increasing and covers exactly the set S. *)
Enumerates(r, S) ==
    /\ \A i, j \in DOMAIN r : i < j => r[i] < r[j]
    /\ {r[i] : i \in DOMAIN r} = S
=============================================================================
