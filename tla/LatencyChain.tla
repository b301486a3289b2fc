---------------------------- MODULE LatencyChain ----------------------------
(***************************************************************************)
(* run_latency() of bench/cpu/latency.cpp: for each buffer size build_chain   *)
(* shuffles the cache-line slots, links every slot to the next one of the    *)
(* shuffled order, and chase() follows the pointers, a fixed number of loads *)
(* from the entry, once per warm-up and once per timed iteration.            *)
(* Addresses are slot numbers; times are left out.                          *)
(***************************************************************************)
EXTENDS Integers, Sequences

CONSTANTS
    Line,        \* LINE: bytes of a slot
    SizesBytes,  \* cfg.sizes_bytes
    Walks,       \* cfg.warmup + cfg.iterations
    ChaseSteps   \* cfg.chase_steps

ASSUME ChainAssumption == /\ Line \in Nat \ {0} /\ SizesBytes \in Seq(Nat)
                          /\ Walks \in Nat /\ ChaseSteps \in Nat

VARIABLES
    chainPc,  \* "size", "link", "walk" or "done"
    which,    \* index into SizesBytes
    nodes,    \* slots of the buffer
    order,    \* the shuffled vector
    pointer,  \* pointer[s]: what the first word of slot s points to
    filled,   \* the loop index i: pointers written so far
    walks,    \* calls of chase() so far
    p,        \* chase's p
    loads,    \* loads of this walk
    seen,     \* history: slots this walk has visited
    again,    \* history: it has come upon one of them a second time
    report    \* nodes_per_size, 0 where there was no memory

chainVars == <<chainPc, which, nodes, order, pointer, filled, walks, p, loads, seen, again, report>>

Slot == 0..nodes - 1
Garbage == -1

(* A buffer of less than two lines still gets two slots. *)
NodesFor(bytes) == IF bytes \div Line < 2 THEN 2 ELSE bytes \div Line

(* What std::shuffle may make of 0, 1, .., n - 1. *)
Orders(n) == {o \in [0..n - 1 -> 0..n - 1] :
                 /\ \A j, k \in 0..n - 1 : o[j] = o[k] => j = k
                 /\ \A s \in 0..n - 1 : \E k \in 0..n - 1 : o[k] = s}

ChainTypeOK ==
    /\ chainPc \in {"size", "link", "walk", "done"}
    /\ which \in 1..Len(SizesBytes) + 1
    /\ nodes \in Nat \ {0, 1}
    /\ order \in [Slot -> Slot]
    /\ pointer \in [Slot -> Slot \cup {Garbage}]
    /\ filled \in 0..nodes
    /\ walks \in 0..Walks /\ loads \in 0..ChaseSteps
    /\ p \in Slot /\ seen \subseteq Slot /\ again \in BOOLEAN
    /\ report \in Seq(Nat) /\ Len(report) = which - 1

ChainInit ==
    /\ chainPc = "size" /\ which = 1 /\ nodes = 2
    /\ order = [s \in 0..1 |-> s] /\ pointer = [s \in 0..1 |-> Garbage] /\ filled = 0
    /\ walks = 0 /\ p = 0 /\ loads = 0 /\ seen = {} /\ again = FALSE
    /\ report = <<>>

AllocFailsSilently == \* mutant: "continue" before the three push_backs
    /\ chainPc = "size" /\ which \in DOMAIN SizesBytes
    /\ which' = which + 1
    /\ UNCHANGED <<chainPc, nodes, order, pointer, filled, walks, p, loads, seen, again, report>>

(* posix_memalign fails: the size is reported with -1 ns and no nodes. *)
AllocFails ==
    /\ chainPc = "size" /\ which \in DOMAIN SizesBytes
    /\ report' = Append(report, 0)
    /\ which' = which + 1
    /\ UNCHANGED <<chainPc, nodes, order, pointer, filled, walks, p, loads, seen, again>>

(* The buffer is fresh memory; order is iota, shuffled. *)
Shuffle ==
    /\ chainPc = "size" /\ which \in DOMAIN SizesBytes
    /\ nodes' = NodesFor(SizesBytes[which])
    /\ order' \in Orders(nodes')
    /\ pointer' = [s \in 0..nodes' - 1 |-> Garbage]
    /\ filled' = 0 /\ walks' = 0
    /\ p' = 0 /\ loads' = 0 /\ seen' = {} /\ again' = FALSE
    /\ chainPc' = "link"
    /\ UNCHANGED <<which, report>>

(* (i + 1) % nodes, for an i below nodes. *)
After(i) == IF i + 1 = nodes THEN 0 ELSE i + 1

LinkFromShuffled == \* mutant: the shuffled vector taken for the successors themselves
    /\ chainPc = "link" /\ filled < nodes
    /\ pointer' = [pointer EXCEPT ![filled] = order[filled]]
    /\ filled' = filled + 1
    /\ UNCHANGED <<chainPc, which, nodes, order, walks, p, loads, seen, again, report>>

(* *slot_addr(order[i]) = slot_addr(order[(i + 1) % nodes]) *)
Link ==
    /\ chainPc = "link" /\ filled < nodes
    /\ pointer' = [pointer EXCEPT ![order[filled]] = order[After(filled)]]
    /\ filled' = filled + 1
    /\ UNCHANGED <<chainPc, which, nodes, order, walks, p, loads, seen, again, report>>

(* The chain is linked, or the walk under way has made its last load. *)
BetweenWalks == \/ chainPc = "link" /\ filled = nodes
                \/ chainPc = "walk" /\ loads = ChaseSteps

StartWalk ==
    /\ BetweenWalks /\ walks < Walks
    /\ walks' = walks + 1
    /\ p' = order[0] /\ loads' = 0
    /\ seen' = {order[0]} /\ again' = FALSE
    /\ chainPc' = "walk"
    /\ UNCHANGED <<which, nodes, order, pointer, filled, report>>

(* p = *p *)
Load ==
    /\ chainPc = "walk" /\ loads < ChaseSteps
    /\ p' = pointer[p] /\ loads' = loads + 1
    /\ seen' = seen \cup {p'}
    /\ again' = (again \/ p' \in seen)
    /\ UNCHANGED <<chainPc, which, nodes, order, pointer, filled, walks, report>>

NextSize ==
    /\ BetweenWalks /\ walks = Walks
    /\ report' = Append(report, nodes)
    /\ which' = which + 1
    /\ chainPc' = "size"
    /\ UNCHANGED <<nodes, order, pointer, filled, walks, p, loads, seen, again>>

EndOfSizes ==
    /\ chainPc = "size" /\ which \notin DOMAIN SizesBytes
    /\ chainPc' = "done"
    /\ UNCHANGED <<which, nodes, order, pointer, filled, walks, p, loads, seen, again, report>>

ChainNext == AllocFails \/ Shuffle \/ Link \/ StartWalk \/ Load \/ NextSize \/ EndOfSizes

ChainSpec == ChainInit /\ [][ChainNext]_chainVars

(* "Following all of them visits every node exactly once": a walk comes upon a   *)
(* slot for the second time only when it has seen all slots of the buffer,   *)
(* so the loads are spread over the working set that is reported.           *)
ChainVisitsEverySlot == (chainPc = "walk" /\ again) => seen = Slot
=============================================================================
