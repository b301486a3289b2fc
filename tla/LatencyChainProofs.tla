------------------------- MODULE LatencyChainProofs -------------------------
(***************************************************************************)
(* Proofs about LatencyChain: for every buffer size, number of walks and      *)
(* loads, and every outcome of the shuffle, the linked slots are one cycle.  *)
(*                                                                          *)
(* The invariant keeps the position k of p in the shuffled order: as long as  *)
(* the walk has not seen every slot it has seen exactly the positions up to  *)
(* k.  The next pointer leads to position k + 1, which is new because the    *)
(* shuffled vector repeats nothing; after the last position nothing is left  *)
(* to see because it leaves nothing out.                                     *)
(***************************************************************************)
EXTENDS LatencyChain, TLAPS

(* The pointers written so far follow the shuffled order, in a buffer whose size  *)
(* is one of those asked for.                                               *)
LinkInv ==
    /\ order \in Orders(nodes)
    /\ chainPc \in {"link", "walk"} =>
          \A k \in Slot : k < filled => pointer[order[k]] = order[After(k)]
    /\ chainPc = "walk" => filled = nodes
    /\ chainPc \in {"link", "walk"} => which \in DOMAIN SizesBytes

(* Where the walk is and what it has seen. *)
WalkInv ==
    chainPc = "walk" =>
        \E k \in Slot : /\ p = order[k]
                        /\ seen = Slot \/ (~again /\ seen = {order[j] : j \in 0..k})

ChainInv == ChainTypeOK /\ LinkInv /\ WalkInv

(* Every buffer has at least two slots. *)
LEMMA NodesForSize ==
    ASSUME NEW bytes \in Nat
    PROVE  NodesFor(bytes) \in Nat \ {0, 1}
BY ChainAssumption DEF NodesFor

LEMMA ChainInitInv == ChainInit => ChainInv
<1> SUFFICES ASSUME ChainInit PROVE ChainInv
    OBVIOUS
<1>1. ChainTypeOK
    <2>1. Len(SizesBytes) \in Nat /\ Walks \in Nat /\ ChaseSteps \in Nat
        BY ChainAssumption
    <2>2. nodes = 2 /\ Slot = 0..1
        BY DEF ChainInit, Slot
    <2>3. order \in [Slot -> Slot] /\ pointer \in [Slot -> Slot \cup {Garbage}]
        BY <2>2 DEF ChainInit
    <2>4. report \in Seq(Nat) /\ Len(report) = which - 1
        BY DEF ChainInit
    <2>5. which \in 1..Len(SizesBytes) + 1 /\ walks \in 0..Walks /\ loads \in 0..ChaseSteps
        BY <2>1 DEF ChainInit
    <2>6. nodes \in Nat \ {0, 1} /\ filled \in 0..nodes /\ p \in Slot /\ seen \subseteq Slot
        BY <2>2 DEF ChainInit
    <2> QED BY <2>3, <2>4, <2>5, <2>6 DEF ChainInit, ChainTypeOK
<1>2. LinkInv
    BY DEF ChainInit, LinkInv, Orders, Slot
<1>3. WalkInv
    BY DEF ChainInit, WalkInv
<1> QED BY <1>1, <1>2, <1>3 DEF ChainInv

(* One turn of the link loop. *)
LEMMA LinkKeepsInv == ChainInv /\ Link => ChainInv'
<1> SUFFICES ASSUME ChainInv, Link PROVE ChainInv'
    OBVIOUS
<1> USE DEF ChainInv
<1>1. After(filled) \in Slot /\ filled \in Slot
    BY DEF Link, ChainTypeOK, After, Slot
<1>2. ChainTypeOK'
    <2>1. Slot' = Slot /\ order[filled] \in Slot /\ order[After(filled)] \in Slot
        BY <1>1 DEF Link, ChainTypeOK, Slot
    <2>2. pointer' \in [Slot -> Slot \cup {Garbage}]
        BY <2>1 DEF Link, ChainTypeOK
    <2>3. filled' \in 0..nodes
        BY DEF Link, ChainTypeOK
    <2> QED BY <2>1, <2>2, <2>3 DEF Link, ChainTypeOK
<1>3. LinkInv'
    <2>1. (order \in Orders(nodes))' /\ (chainPc = "walk" => filled = nodes)'
        BY DEF Link, LinkInv, Orders
    <2>2. ASSUME NEW k \in Slot, k < filled'
          PROVE  pointer'[order[k]] = order[After(k)]
        <3>1. order[k] \in Slot /\ order[filled] \in Slot
            BY <1>1 DEF ChainTypeOK
        <3>2. CASE k = filled
            BY <1>1, <3>1, <3>2 DEF Link, ChainTypeOK
        <3>3. CASE k < filled
            <4>1. order[k] # order[filled]
                BY <1>1, <3>3 DEF LinkInv, Orders, Slot
            <4>2. pointer[order[k]] = order[After(k)]
                BY <3>3 DEF Link, LinkInv
            <4> QED BY <1>1, <3>1, <4>1, <4>2 DEF Link, ChainTypeOK
        <3> QED BY <1>1, <2>2, <3>2, <3>3 DEF Link, ChainTypeOK, Slot
    <2> QED BY <2>1, <2>2 DEF Link, LinkInv, Slot, After
<1>4. WalkInv'
    BY DEF Link, WalkInv
<1> QED BY <1>2, <1>3, <1>4

(* A dependent load moves to the next position of the shuffled order. *)
LEMMA LoadKeepsInv == ChainInv /\ Load => ChainInv'
<1> SUFFICES ASSUME ChainInv, Load PROVE ChainInv'
    OBVIOUS
<1> USE DEF ChainInv
<1>1. PICK k \in Slot : /\ p = order[k]
                        /\ seen = Slot \/ (~again /\ seen = {order[j] : j \in 0..k})
    BY DEF Load, WalkInv
<1>2. nodes \in Nat \ {0, 1} /\ order \in [Slot -> Slot] /\ seen \subseteq Slot
    BY DEF ChainTypeOK
<1>3. After(k) \in Slot
    BY <1>2 DEF After, Slot
<1>4. pointer[p] = order[After(k)]
    BY <1>1, <1>2 DEF Load, LinkInv, Slot
<1>5. p' = order[After(k)] /\ p' \in Slot
    BY <1>2, <1>3, <1>4 DEF Load
<1>6. ChainTypeOK'
    <2>1. UNCHANGED <<chainPc, which, nodes, order, pointer, filled, walks, report, Slot>>
        BY DEF Load, Slot
    <2>2. loads' \in 0..ChaseSteps
        BY ChainAssumption DEF Load, ChainTypeOK
    <2>3. p' \in Slot /\ seen' \subseteq Slot /\ again' \in BOOLEAN
        BY <1>2, <1>5 DEF Load, ChainTypeOK
    <2> QED BY <2>1, <2>2, <2>3 DEF ChainTypeOK
<1>7. LinkInv'
    BY DEF Load, LinkInv, Orders, Slot, After
<1>8. seen' = Slot \/ (~again' /\ seen' = {order[j] : j \in 0..After(k)})
    <2>1. CASE seen = Slot
        BY <2>1, <1>5 DEF Load
    <2>2. CASE ~again /\ seen = {order[j] : j \in 0..k} /\ k = nodes - 1
        <3>1. ASSUME NEW s \in Slot PROVE s \in seen
            <4>1. PICK j \in Slot : order[j] = s
                BY DEF LinkInv, Orders, Slot
            <4>2. j \in 0..k
                BY <2>2 DEF Slot
            <4> QED BY <2>2, <4>1, <4>2
        <3>2. seen = Slot
            BY <1>2, <3>1
        <3> QED BY <3>2, <2>1
    <2>3. CASE ~again /\ seen = {order[j] : j \in 0..k} /\ k # nodes - 1
        <3>1. After(k) = k + 1
            BY <1>2, <2>3 DEF After, Slot
        <3>2. ASSUME NEW j \in 0..k PROVE order[j] # order[k + 1]
            <4>1. j \in Slot /\ k + 1 \in Slot /\ j # k + 1
                BY <1>2, <1>3, <3>1 DEF Slot
            <4>2. \A a, b \in Slot : order[a] = order[b] => a = b
                BY DEF LinkInv, Orders, Slot
            <4> QED BY <4>1, <4>2
        <3>3. p' \notin seen
            BY <1>5, <2>3, <3>1, <3>2
        <3>4. {order[j] : j \in 0..k + 1} = {order[j] : j \in 0..k} \cup {order[k + 1]}
            BY DEF Slot
        <3> QED BY <1>5, <2>3, <3>1, <3>3, <3>4 DEF Load
    <2> QED BY <1>1, <2>1, <2>2, <2>3
<1>9. WalkInv'
    <2>1. Slot' = Slot /\ order' = order
        BY DEF Load, Slot
    <2> QED BY <1>3, <1>5, <1>8, <2>1 DEF WalkInv
<1> QED BY <1>6, <1>7, <1>9

(* A fresh buffer, shuffled. *)
LEMMA ShuffleKeepsInv == ChainInv /\ Shuffle => ChainInv'
<1> SUFFICES ASSUME ChainInv, Shuffle PROVE ChainInv'
    OBVIOUS
<1> USE DEF ChainInv
<1>1. nodes' \in Nat \ {0, 1}
    BY NodesForSize, ChainAssumption DEF Shuffle
<1>2. ChainTypeOK'
    <2>0. 0 \in 0..nodes' - 1
        <3>1. \A n \in Nat \ {0, 1} : 0 \in 0..n - 1
            OBVIOUS
        <3> QED BY <1>1, <3>1
    <2>1. Slot' = 0..nodes' - 1 /\ 0 \in Slot'
        BY <2>0 DEF Slot
    <2>2. order' \in [Slot' -> Slot'] /\ pointer' \in [Slot' -> Slot' \cup {Garbage}]
        BY <2>1 DEF Shuffle, Orders
    <2>3. filled' \in 0..nodes' /\ walks' \in 0..Walks /\ loads' \in 0..ChaseSteps
        BY <1>1, ChainAssumption DEF Shuffle
    <2>4. p' \in Slot' /\ seen' \subseteq Slot' /\ again' \in BOOLEAN /\ chainPc' = "link"
        BY <2>1 DEF Shuffle
    <2>5. UNCHANGED <<which, report>>
        BY DEF Shuffle
    <2> QED BY <1>1, <2>2, <2>3, <2>4, <2>5 DEF ChainTypeOK
<1>3. LinkInv'
    BY <1>1 DEF Shuffle, LinkInv, Slot
<1>4. WalkInv'
    BY DEF Shuffle, WalkInv
<1> QED BY <1>2, <1>3, <1>4

(* Every walk starts at the entry, with the whole chain linked. *)
LEMMA StartWalkKeepsInv == ChainInv /\ StartWalk => ChainInv'
<1> SUFFICES ASSUME ChainInv, StartWalk PROVE ChainInv'
    OBVIOUS
<1> USE DEF ChainInv
<1>1. 0 \in Slot /\ order[0] \in Slot
    BY DEF ChainTypeOK, Slot
<1>2. ChainTypeOK'
    <2>1. UNCHANGED <<which, nodes, order, pointer, filled, report, Slot>> /\ chainPc' = "walk"
        BY DEF StartWalk, Slot
    <2>2. walks' \in 0..Walks /\ loads' \in 0..ChaseSteps
        BY ChainAssumption DEF StartWalk, ChainTypeOK
    <2>3. p' \in Slot /\ seen' \subseteq Slot /\ again' \in BOOLEAN
        BY <1>1 DEF StartWalk
    <2> QED BY <2>1, <2>2, <2>3 DEF ChainTypeOK
<1>3. LinkInv'
    BY DEF StartWalk, BetweenWalks, LinkInv, Orders, Slot, After
<1>4. WalkInv'
    <2>1. Slot' = Slot /\ order' = order /\ p' = order[0] /\ seen' = {order[0]} /\ ~again'
        BY DEF StartWalk, Slot
    <2>2. {order[j] : j \in 0..0} = {order[0]}
        OBVIOUS
    <2> QED BY <1>1, <2>1, <2>2 DEF WalkInv
<1> QED BY <1>2, <1>3, <1>4

(* The invariant is inductive. *)
LEMMA ChainNextInv == ChainInv /\ [ChainNext]_chainVars => ChainInv'
<1> SUFFICES ASSUME ChainInv, [ChainNext]_chainVars PROVE ChainInv'
    OBVIOUS
<1>1. CASE AllocFails \/ NextSize \/ EndOfSizes
    <2>1. ChainTypeOK'
        <3>1. UNCHANGED <<nodes, order, pointer, filled, walks, p, loads, seen, again, Slot>>
            BY <1>1 DEF AllocFails, NextSize, EndOfSizes, Slot
        <3>2. chainPc' \in {"size", "done"}
            BY <1>1 DEF AllocFails, NextSize, EndOfSizes
        <3>3. (which \in 1..Len(SizesBytes) + 1 /\ report \in Seq(Nat) /\ Len(report) = which - 1)'
            <4>1. Len(SizesBytes) \in Nat /\ DOMAIN SizesBytes = 1..Len(SizesBytes)
                BY ChainAssumption
            <4>2. /\ which \in 1..Len(SizesBytes) + 1 /\ nodes \in Nat
                  /\ report \in Seq(Nat) /\ Len(report) = which - 1
                BY DEF ChainInv, ChainTypeOK
            <4>3. CASE AllocFails
                BY <4>1, <4>2, <4>3 DEF AllocFails
            <4>4. CASE NextSize
                <5>1. which \in DOMAIN SizesBytes
                    BY <4>4 DEF ChainInv, NextSize, BetweenWalks, ChainTypeOK, LinkInv
                <5> QED BY <4>1, <4>2, <4>4, <5>1 DEF NextSize
            <4>5. CASE EndOfSizes
                BY <4>2, <4>5 DEF EndOfSizes
            <4> QED BY <1>1, <4>3, <4>4, <4>5
        <3> QED BY <3>1, <3>2, <3>3 DEF ChainInv, ChainTypeOK
    <2>2. chainPc' \in {"size", "done"} /\ UNCHANGED <<nodes, order>>
        BY <1>1 DEF ChainInv, AllocFails, NextSize, EndOfSizes, LinkInv
    <2>3. LinkInv'
        BY <2>2 DEF ChainInv, LinkInv, Orders
    <2>4. WalkInv'
        BY <2>2 DEF WalkInv
    <2> QED BY <2>1, <2>3, <2>4 DEF ChainInv
<1>2. CASE Shuffle BY <1>2, ShuffleKeepsInv
<1>3. CASE Link BY <1>3, LinkKeepsInv
<1>4. CASE StartWalk BY <1>4, StartWalkKeepsInv
<1>5. CASE Load BY <1>5, LoadKeepsInv
<1>6. CASE UNCHANGED chainVars
    <2>1. UNCHANGED chainVars /\ UNCHANGED Slot
        BY <1>6 DEF chainVars, Slot
    <2>2. ChainTypeOK'
        BY <2>1 DEF ChainInv, ChainTypeOK, chainVars
    <2>3. UNCHANGED <<chainPc, which, nodes, order, pointer, filled, p, seen, again, Slot>>
        BY <2>1 DEF chainVars
    <2>4. UNCHANGED Orders(nodes) /\ \A i : UNCHANGED After(i)
        BY <2>3 DEF Orders, After
    <2>5. LinkInv'
        BY <2>3, <2>4 DEF ChainInv, LinkInv
    <2>6. WalkInv'
        BY <2>3 DEF ChainInv, WalkInv
    <2> QED BY <2>2, <2>5, <2>6 DEF ChainInv
<1> QED BY <1>1, <1>2, <1>3, <1>4, <1>5, <1>6 DEF ChainNext

(* Indices, pointers and the parallel result lists are always in range: chase()  *)
(* never follows a word that build_chain has not written, and every size has *)
(* its entry in the report.                                                 *)
THEOREM ChainTypeCorrect == ChainSpec => []ChainTypeOK
<1>1. ChainInv => ChainTypeOK
    BY DEF ChainInv
<1> QED BY ChainInitInv, ChainNextInv, <1>1, PTL DEF ChainSpec

(* latency.cpp, "following all of them visits every node exactly once": a walk    *)
(* that meets a slot again has seen the whole buffer.                        *)
THEOREM ChaseVisitsEverySlot == ChainSpec => []ChainVisitsEverySlot
<1>1. ChainInv => ChainVisitsEverySlot
    BY DEF ChainInv, WalkInv, ChainVisitsEverySlot
<1> QED BY ChainInitInv, ChainNextInv, <1>1, PTL DEF ChainSpec
=============================================================================
