----------------------------- MODULE RowProofs -----------------------------
(***************************************************************************)
(* Proofs about what runs inside a row - the gated kernels, the counters, the *)
(* sustained chunks, the sysfs readings - and about Benchmarks, which puts     *)
(* the parts of a job together: for any number of clusters, runs, events,      *)
(* zones and CPUs, and any rates, speeds and delays.                         *)
(***************************************************************************)
EXTENDS Benchmarks, LatencyChainProofs, PlacementProofs, SequenceTheorems, TLAPS

-----------------------------------------------------------------------------
(* KernelGate: a kernel that is called may be executed on every core.         *)

Allowed == gatePc \in {"call", "killed"} => \A c \in CPU : Needs[metric] \subseteq Executes(c)

(* No kernel is ever called on a core that cannot execute it, wherever the       *)
(* scheduler moves the thread after the gate: AT_HWCAP speaks for all cores.  *)
THEOREM GatedKernelsRun == GateSpec => []NoIllegalInstruction
  <1>. DEFINE Inv == core \in CPU /\ Allowed /\ NoIllegalInstruction
  <1>1. GateInit => Inv
    BY DEF GateInit, Allowed, NoIllegalInstruction
  <1>2. Inv /\ [GateNext]_gateVars => Inv'
    <2>. SUFFICES ASSUME Inv, [GateNext]_gateVars PROVE Inv'
      OBVIOUS
    <2>1. CASE UNCHANGED gateVars
      BY <2>1 DEF gateVars, Allowed, NoIllegalInstruction, Executes
    <2>2. CASE StartKernelRow
      <3>1. Gate => \A c \in CPU : Needs[metric] \subseteq Executes(c)
        BY DEF Gate, Hwcap
      <3>2. core' \in CPU
        BY <2>2, GateAssumption DEF StartKernelRow, Cluster, CPU
      <3>. QED
        BY <2>2, <3>1, <3>2 DEF StartKernelRow, Allowed, NoIllegalInstruction, Executes
    <2>3. CASE CallKernel
      BY <2>3 DEF CallKernel, Allowed, NoIllegalInstruction, Executes
    <2>4. CASE EndKernelRow \/ EndOfRun \/ Wander \/ Collect
      BY <2>4 DEF EndKernelRow, EndOfRun, Wander, Collect, Allowed, NoIllegalInstruction, Executes
    <2>. QED
      BY <2>1, <2>2, <2>3, <2>4 DEF GateNext
  <1>. QED
    BY <1>1, <1>2, PTL DEF GateSpec

(* The types, with those of the files, and a row left for the kernel under way.  *)
GateTypes == /\ GateTypeOK /\ docs \in Seq([CPU -> Values])
             /\ gatePc = "call" => Len(doc) < NClusters

(* The sentinel and the absent metric are values, but no rates.             *)
LEMMA GateConstants ==
    /\ NClusters \in Nat \ {0} /\ Warmup + Iterations \in Nat
    /\ Sentinel \in Values /\ Absent \in Values /\ Rates \subseteq Values
    /\ \A v \in Values : v >= 0 => v \in Rates
  BY GateAssumption DEF Values, Sentinel, Absent

LEMMA GateInitTypes == GateInit => GateTypes
  <1>. SUFFICES ASSUME GateInit PROVE GateTypes
    OBVIOUS
  <1>1. /\ doc \in Seq(Values) /\ Len(doc) = 0 /\ docs \in Seq([CPU -> Values])
        /\ DOMAIN docs = {} /\ Len(docs) = 0
    BY EmptySeq DEF GateInit
  <1>2. \A c \in CPU : pool[c] \in Seq(Rates) /\ Len(pool[c]) = 0
    BY EmptySeq DEF GateInit
  <1>3. /\ gatePc = "row" /\ metric \in DOMAIN Needs /\ built \in BOOLEAN /\ held \in BOOLEAN
        /\ has \in [CPU -> SUBSET Needs[metric]] /\ denied \subseteq Needs[metric]
        /\ core \in CPU /\ calls = 0 /\ best = Sentinel /\ collected = 0
        /\ timed \in [CPU -> SUBSET Rates]
    BY DEF GateInit
  <1>. QED
    BY <1>1, <1>2, <1>3, GateConstants DEF GateTypes, GateTypeOK

LEMMA GateNextTypes == GateTypes /\ [GateNext]_gateVars => GateTypes'
  <1>. SUFFICES ASSUME GateTypes, [GateNext]_gateVars PROVE GateTypes'
    OBVIOUS
  <1>. USE DEF GateTypes, GateTypeOK
  <1>1. CASE UNCHANGED gateVars
    BY <1>1 DEF gateVars
  <1>2. CASE StartKernelRow
    <2>1. doc' = doc \/ \E v \in Values : doc' = Append(doc, v)
      BY <1>2, GateConstants DEF StartKernelRow
    <2>2. doc' \in Seq(Values) /\ Len(doc') \in {Len(doc), Len(doc) + 1}
      <3>1. ASSUME NEW v \in Values, doc' = Append(doc, v)
            PROVE  doc' \in Seq(Values) /\ Len(doc') = Len(doc) + 1
        BY <3>1, AppendProperties
      <3>. QED
        BY <2>1, <3>1
    <2>3. Len(doc) < NClusters /\ Len(doc) \in Nat
      BY <1>2, GateConstants DEF StartKernelRow, Cluster
    <2>4. core' \in CPU
      BY <1>2, <2>3, GateConstants DEF StartKernelRow, Cluster, CPU
    <2>5. Len(doc') <= NClusters /\ (gatePc' = "call" => Len(doc') < NClusters)
      BY <1>2, <2>2, <2>3, GateConstants DEF StartKernelRow
    <2>6. gatePc' \in {"row", "call"} /\ 0 \in 0..Warmup + Iterations
      BY <1>2, GateConstants DEF StartKernelRow
    <2>. QED
      BY <1>2, <2>2, <2>4, <2>5, <2>6 DEF StartKernelRow
  <1>3. CASE CallKernel
    <2>1. best' \in Rates \cup {Sentinel} /\ timed' \in [CPU -> SUBSET Rates]
      BY <1>3 DEF CallKernel
    <2>2. calls' \in 0..Warmup + Iterations
      BY <1>3, GateConstants DEF CallKernel
    <2>3. gatePc' \in {"call", "killed"}
      BY <1>3 DEF CallKernel
    <2>. QED
      BY <1>3, <2>1, <2>2, <2>3 DEF CallKernel
  <1>4. CASE EndKernelRow
    <2>1. doc' \in Seq(Values) /\ Len(doc') = Len(doc) + 1
      BY <1>4, GateConstants, AppendProperties DEF EndKernelRow
    <2>2. Len(doc') <= NClusters
      BY <1>4, <2>1, GateConstants DEF EndKernelRow
    <2>. QED
      BY <1>4, <2>1, <2>2 DEF EndKernelRow
  <1>5. CASE EndOfRun
    <2>1. doc \in [CPU -> Values]
      BY <1>5, LenProperties DEF EndOfRun, CPU
    <2>2. docs' \in Seq([CPU -> Values]) /\ Len(docs') = Len(docs) + 1
      BY <1>5, <2>1, AppendProperties DEF EndOfRun
    <2>3. \A r \in DOMAIN docs' : docs'[r] \in [CPU -> Values]
      BY <2>2, ElementOfSeq
    <2>4. doc' \in Seq(Values) /\ Len(doc') = 0
      BY <1>5, EmptySeq DEF EndOfRun
    <2>5. gatePc' \in {"row", "collect"} /\ collected' \in 0..Len(docs')
      BY <1>5, <2>2 DEF EndOfRun
    <2>. QED
      BY <1>5, <2>2, <2>3, <2>4, <2>5, GateConstants DEF EndOfRun
  <1>6. CASE Wander
    BY <1>6 DEF Wander
  <1>7. CASE Collect
    <2>1. collected' = collected + 1 /\ collected' \in 1..Len(docs)
      BY <1>7 DEF Collect
    <2>2. docs[collected'] \in [CPU -> Values]
      BY <2>1, ElementOfSeq
    <2>3. ASSUME NEW c \in CPU
          PROVE  pool'[c] \in Seq(Rates) /\ Len(pool'[c]) <= collected'
      <3>. DEFINE v == docs[collected'][c]
      <3>1. CASE pool'[c] = pool[c]
        BY <2>1, <3>1
      <3>2. CASE v >= 0 /\ pool'[c] = Append(pool[c], v)
        <4>1. v \in Rates
          BY <2>2, <3>2, GateConstants
        <4>2. pool'[c] \in Seq(Rates) /\ Len(pool'[c]) = Len(pool[c]) + 1
          BY <3>2, <4>1, AppendProperties
        <4>. QED
          BY <2>1, <4>2
      <3>. QED
        BY <1>7, <3>1, <3>2 DEF Collect
    <2>. QED
      BY <1>7, <2>1, <2>3 DEF Collect
  <1>. QED
    BY <1>1, <1>2, <1>3, <1>4, <1>5, <1>6, <1>7 DEF GateNext

(* A number in the pool, in a file or in the document under way was measured by   *)
(* a timed call for a row of that cluster, or is none.                        *)
Measured(c, v) == v \in {Sentinel, Absent} \/ v \in timed[c]

RowsMeasured ==
    /\ gatePc = "call" => best = Sentinel \/ best \in timed[Cluster]
    /\ \A c \in 1..Len(doc) : Measured(c, doc[c])
    /\ \A r \in 1..Len(docs) : \A c \in CPU : Measured(c, docs[r][c])

LEMMA GateNextMeasured ==
    GateTypes /\ RowsMeasured /\ PoolIsMeasured /\ [GateNext]_gateVars
        => RowsMeasured' /\ PoolIsMeasured'
  <1>. SUFFICES ASSUME GateTypes, RowsMeasured, PoolIsMeasured, [GateNext]_gateVars
                PROVE  RowsMeasured' /\ PoolIsMeasured'
    OBVIOUS
  <1>0. /\ Len(doc) \in Nat /\ Len(docs) \in Nat /\ Len(doc) <= NClusters
        /\ gatePc = "call" => Cluster \in CPU
        /\ \A c \in CPU : Len(pool[c]) \in Nat /\ DOMAIN pool[c] = 1..Len(pool[c])
    BY GateConstants DEF GateTypes, GateTypeOK, Cluster, CPU
  <1>1. CASE UNCHANGED gateVars \/ Wander
    BY <1>1 DEF gateVars, Wander, RowsMeasured, PoolIsMeasured, Measured, Cluster
  <1>2. CASE StartKernelRow
    <2>1. UNCHANGED <<timed, docs, pool>> /\ best' = Sentinel
      BY <1>2 DEF StartKernelRow
    <2>2. doc' = doc \/ doc' = Append(doc, Sentinel) \/ doc' = Append(doc, Absent)
      BY <1>2 DEF StartKernelRow
    <2>3. \A c \in 1..Len(doc') : (Measured(c, doc[c]))'
      <3>1. ASSUME NEW v \in {Sentinel, Absent}, doc' = Append(doc, v)
            PROVE  \A c \in 1..Len(doc') : (Measured(c, doc[c]))'
        <4>1. /\ Len(doc') = Len(doc) + 1 /\ doc'[Len(doc) + 1] = v
              /\ \A c \in 1..Len(doc) : doc'[c] = doc[c]
          BY <3>1, GateConstants, AppendProperties DEF GateTypes, GateTypeOK
        <4>. QED
          BY <1>0, <2>1, <4>1 DEF RowsMeasured, Measured
      <3>. QED
        BY <2>1, <2>2, <3>1 DEF RowsMeasured, Measured
    <2>. QED
      BY <2>1, <2>3 DEF RowsMeasured, PoolIsMeasured, Measured
  <1>3. CASE CallKernel
    <2>1. \A c \in CPU : timed[c] \subseteq timed'[c]
      BY <1>3 DEF CallKernel, GateTypes, GateTypeOK
    <2>2. UNCHANGED <<doc, docs, pool>>
      BY <1>3 DEF CallKernel
    <2>3. gatePc' = "call" => best' = Sentinel \/ best' \in timed'[Cluster]
      BY <1>0, <1>3, <2>1 DEF CallKernel, RowsMeasured, GateTypes, GateTypeOK
    <2>4. \A c \in 1..Len(doc) : (Measured(c, doc[c]))'
      <3>. SUFFICES ASSUME NEW c \in 1..Len(doc)
                    PROVE  doc[c] \in {Sentinel, Absent} \/ doc[c] \in timed'[c]
        BY <2>2 DEF Measured
      <3>1. c \in CPU
        BY <1>0, GateConstants DEF CPU
      <3>2. Measured(c, doc[c])
        BY DEF RowsMeasured
      <3>. QED
        BY <2>1, <3>1, <3>2 DEF Measured
    <2>5. \A r \in 1..Len(docs) : \A c \in CPU : (Measured(c, docs[r][c]))'
      BY <2>1, <2>2 DEF RowsMeasured, Measured
    <2>6. PoolIsMeasured'
      BY <2>1, <2>2 DEF PoolIsMeasured
    <2>. QED
      BY <2>2, <2>3, <2>4, <2>5, <2>6 DEF RowsMeasured, Cluster
  <1>4. CASE EndKernelRow
    <2>1. UNCHANGED <<timed, docs, pool, best>> /\ gatePc = "call" /\ gatePc' = "row"
      BY <1>4 DEF EndKernelRow
    <2>2. /\ Len(doc') = Len(doc) + 1 /\ doc'[Len(doc) + 1] = best
          /\ \A c \in 1..Len(doc) : doc'[c] = doc[c]
      BY <1>4, GateConstants, AppendProperties DEF EndKernelRow, GateTypes, GateTypeOK
    <2>3. \A c \in 1..Len(doc') : (Measured(c, doc[c]))'
      BY <1>0, <2>1, <2>2 DEF RowsMeasured, Measured, Cluster
    <2>. QED
      BY <2>1, <2>3 DEF RowsMeasured, PoolIsMeasured, Measured
  <1>5. CASE EndOfRun
    <2>1. UNCHANGED <<timed, pool>> /\ doc' = <<>> /\ Len(doc) = NClusters
      BY <1>5 DEF EndOfRun
    <2>2. /\ Len(docs') = Len(docs) + 1 /\ docs'[Len(docs) + 1] = doc
          /\ \A r \in 1..Len(docs) : docs'[r] = docs[r]
      <3>1. doc \in [CPU -> Values]
        BY <2>1, LenProperties DEF CPU, GateTypes, GateTypeOK
      <3>. QED
        BY <1>5, <3>1, AppendProperties DEF EndOfRun, GateTypes
    <2>3. \A r \in 1..Len(docs') : \A c \in CPU : (Measured(c, docs[r][c]))'
      BY <1>0, <2>1, <2>2 DEF RowsMeasured, Measured, CPU
    <2>4. Len(doc') = 0 /\ gatePc' # "call"
      BY <1>5, <2>1, EmptySeq DEF EndOfRun
    <2>. QED
      BY <2>1, <2>3, <2>4 DEF RowsMeasured, PoolIsMeasured
  <1>6. CASE Collect
    <2>1. UNCHANGED <<timed, doc, docs, gatePc>> /\ gatePc = "collect"
      BY <1>6 DEF Collect
    <2>2. collected' \in 1..Len(docs)
      BY <1>6 DEF Collect, GateTypes, GateTypeOK
    <2>3. ASSUME NEW c \in CPU, NEW i \in DOMAIN pool'[c]
          PROVE  pool'[c][i] \in timed[c]
      <3>. DEFINE v == docs[collected'][c]
      <3>1. CASE pool'[c] = pool[c]
        BY <2>3, <3>1 DEF PoolIsMeasured
      <3>2. CASE v >= 0 /\ pool'[c] = Append(pool[c], v)
        <4>1. v \in Rates
          <5>1. docs[collected'] \in [CPU -> Values]
            BY <2>2, ElementOfSeq DEF GateTypes
          <5>. QED
            BY <3>2, <5>1, GateConstants
        <4>2. /\ DOMAIN pool'[c] = 1..Len(pool[c]) + 1 /\ pool'[c][Len(pool[c]) + 1] = v
              /\ \A j \in 1..Len(pool[c]) : pool'[c][j] = pool[c][j]
          <5>1. /\ Append(pool[c], v) \in Seq(Rates) /\ Len(Append(pool[c], v)) = Len(pool[c]) + 1
                /\ Append(pool[c], v)[Len(pool[c]) + 1] = v
                /\ \A j \in 1..Len(pool[c]) : Append(pool[c], v)[j] = pool[c][j]
            BY <4>1, AppendProperties DEF GateTypes, GateTypeOK
          <5>. QED
            BY <3>2, <5>1
        <4>3. v \in timed[c]
          BY <2>2, <3>2, GateAssumption DEF RowsMeasured, Measured, Sentinel, Absent
        <4>. QED
          BY <1>0, <2>3, <4>2, <4>3 DEF PoolIsMeasured
      <3>. QED
        BY <1>6, <3>1, <3>2 DEF Collect
    <2>. QED
      BY <2>1, <2>3 DEF RowsMeasured, PoolIsMeasured, Measured
  <1>. QED
    BY <1>1, <1>2, <1>3, <1>4, <1>5, <1>6 DEF GateNext

(* Every number that aggregate-runs.py takes a median of was measured by a timed   *)
(* call for a row of that cluster, over any number of runs, clusters, warm-ups  *)
(* and unreadable files: no sentinel, no missing metric and no warm-up.        *)
THEOREM MediansAreMeasured == GateSpec => []PoolIsMeasured
  <1>1. GateInit => RowsMeasured /\ PoolIsMeasured
    <2>. SUFFICES ASSUME GateInit PROVE RowsMeasured /\ PoolIsMeasured
      OBVIOUS
    <2>1. Len(doc) = 0 /\ Len(docs) = 0 /\ gatePc = "row" /\ \A c \in CPU : DOMAIN pool[c] = {}
      BY EmptySeq DEF GateInit
    <2>. QED
      BY <2>1 DEF RowsMeasured, PoolIsMeasured
  <1>. QED
    BY <1>1, GateInitTypes, GateNextTypes, GateNextMeasured, PTL DEF GateSpec

-----------------------------------------------------------------------------
(* Sustained: how far a chunk can go astray.                                  *)

(* Integer division, as C++ does it for numbers that are not negative.      *)
LEMMA DivBounds ==
    ASSUME NEW a \in Nat, NEW b \in Nat \ {0}
    PROVE  a \div b \in Nat /\ b * (a \div b) <= a /\ a < b * (a \div b + 1)
  OBVIOUS

(* Arithmetic that the steps below need about primed variables.             *)
LEMMA PlusMonotone ==
    ASSUME NEW a \in Nat, NEW b \in Nat, NEW c \in Nat
    PROVE  a + c \in Nat /\ b + c \in Nat /\ (a <= b => a + c <= b + c)
  OBVIOUS

(* A product grows with its factors.                                        *)
LEMMA TimesMonotone ==
    ASSUME NEW a \in Nat, NEW b \in Nat, NEW c \in Nat, NEW d \in Nat, a <= b, c <= d
    PROVE  a * c <= b * d
  <1>1. a * c <= b * c
    BY SMTT(30)
  <1>2. b * c <= b * d
    BY SMTT(30)
  <1>3. a * c \in Nat /\ b * c \in Nat /\ b * d \in Nat
    OBVIOUS
  <1>. QED
    BY <1>1, <1>2, <1>3

(* A chunk of inner iterations takes as long as the fastest core needs for it, a   *)
(* tick more or less.                                                       *)
ChunkTakesTime == susPc = "sample" => inner < TopSpeed * (chunk + 1)

(* The numbers of a typed state and of the configuration.                   *)
LEMMA SusTypes ==
    ASSUME SusTypeOK
    PROVE  /\ inner \in Nat \ {0} /\ chunk \in Nat /\ speed \in Nat \ {0} /\ speed <= TopSpeed
           /\ TopSpeed \in Nat /\ Interval \in Nat \ {0} /\ MinInner \in Nat \ {0}
           /\ FirstInner \in Nat \ {0}
  BY ScaleAssumption DEF SusTypeOK

(* However it is disturbed, a chunk takes no less than the fastest core needs. *)
LEMMA ChunkTime ==
    ASSUME SusTypeOK, RunChunk
    PROVE  chunk' \in Nat /\ inner < TopSpeed * (chunk' + 1)
  <1>1. \E s \in Speeds : chunk' \in Nat /\ chunk' >= inner \div s
    <2>1. ASSUME NEW s \in Speeds PROVE inner \div s \in Nat
      BY <2>1, SusTypes, ScaleAssumption, DivBounds
    <2>2. CASE CalmChunk
      <3>1. chunk' = inner \div speed /\ speed \in Speeds
        BY <2>2 DEF CalmChunk, SusTypeOK
      <3>. QED
        BY <2>1, <3>1
    <2>3. CASE DisturbedChunk
      <3>1. PICK d \in Delays \cup {0}, t \in Between(speed, speed') : chunk' = t + d
        BY <2>3 DEF DisturbedChunk
      <3>2. speed \in Speeds /\ speed' \in Speeds /\ d \in Nat
        BY <2>3, ScaleAssumption DEF DisturbedChunk, SusTypeOK
      <3>3. \E s \in {speed, speed'} : t \in Nat /\ t >= inner \div s
        <4>1. inner \div speed \in Nat /\ inner \div speed' \in Nat
          BY <2>1, <3>2
        <4>. QED
          BY <4>1 DEF Between
      <3>4. PICK s \in {speed, speed'} : t \in Nat /\ t >= inner \div s
        BY <3>3
      <3>5. s \in Speeds /\ inner \div s \in Nat
        BY <2>1, <3>2
      <3>6. chunk' \in Nat /\ chunk' >= inner \div s
        <4>. DEFINE q == inner \div s
        <4>. HIDE DEF q
        <4>. QED
          BY <3>1, <3>2, <3>4, <3>5 DEF q
      <3>. QED
        BY <3>5, <3>6
    <2>. QED
      BY <2>2, <2>3 DEF RunChunk
  <1>2. PICK s \in Speeds : chunk' \in Nat /\ chunk' >= inner \div s
    BY <1>1
  <1>. DEFINE q == inner \div s
  <1>3. s \in Nat \ {0} /\ s <= TopSpeed /\ TopSpeed \in Nat /\ inner \in Nat
    BY SusTypes, ScaleAssumption
  <1>4. q \in Nat /\ inner < s * (q + 1)
    BY <1>3, DivBounds
  <1>5. chunk' \in Nat /\ q \in Nat
    BY <1>2, <1>4
  <1>6. chunk' >= q
    BY <1>2
  <1>. HIDE DEF q
  <1>. DEFINE a == q + 1
              b == chunk' + 1
  <1>7. a \in Nat /\ b \in Nat /\ a <= b
    BY <1>5, <1>6, PlusMonotone
  <1>. HIDE DEF a, b
  <1>8. s * a <= TopSpeed * b /\ s * a \in Nat /\ TopSpeed * b \in Nat
    BY <1>3, <1>7, TimesMonotone
  <1>9. inner < s * a
    BY <1>4 DEF a
  <1>10. inner < TopSpeed * b
    BY <1>3, <1>8, <1>9
  <1>. QED
    BY <1>5, <1>10 DEF b

(* The new size is no more than the old one, or than the fastest core does in the  *)
(* interval and four ticks.                                                 *)
LEMMA ScaledBound ==
    ASSUME SusTypeOK, chunk > 0, inner < TopSpeed * (chunk + 1)
    PROVE  Scaled \in Nat /\ (Scaled <= inner \/ Scaled <= TopSpeed * (Interval + 4))
  <1>1. /\ inner \in Nat \ {0} /\ chunk \in Nat \ {0} /\ TopSpeed \in Nat /\ Interval \in Nat \ {0}
    BY SusTypes
  <1>2. CASE Interval >= 4 * chunk
    <2>1. Scaled = 4 * inner
      BY <1>2 DEF Scaled
    <2>2. TopSpeed * (4 * chunk + 4) <= TopSpeed * (Interval + 4)
      BY <1>1, <1>2, TimesMonotone
    <2>3. 4 * (TopSpeed * (chunk + 1)) = TopSpeed * (4 * chunk + 4)
      BY <1>1
    <2>4. TopSpeed * (chunk + 1) \in Nat /\ TopSpeed * (Interval + 4) \in Nat
      BY <1>1
    <2>. QED
      BY <1>1, <2>1, <2>2, <2>3, <2>4
  <1>3. CASE ~(Interval >= 4 * chunk) /\ 4 * Interval <= chunk
    <2>1. Scaled = inner \div 4
      BY <1>3 DEF Scaled
    <2>. QED
      BY <1>1, <2>1
  <1>4. CASE ~(Interval >= 4 * chunk) /\ ~(4 * Interval <= chunk)
    <2>. DEFINE q == (inner * Interval) \div chunk
    <2>1. Scaled = q
      BY <1>4 DEF Scaled
    <2>2. inner * Interval \in Nat
      BY <1>1
    <2>3. q \in Nat /\ chunk * q <= inner * Interval
      BY <1>1, <2>2, DivBounds
    <2>. HIDE DEF q
    <2>4. inner * Interval <= (TopSpeed * (chunk + 1)) * Interval
      BY <1>1, SMTT(30)
    <2>5. (TopSpeed * (chunk + 1)) * Interval = TopSpeed * (chunk * Interval + Interval)
      BY <1>1, SMTT(30)
    <2>6. TopSpeed * (chunk * Interval + Interval) <= TopSpeed * (chunk * (Interval + 4))
      <3>1. chunk * Interval + Interval <= chunk * Interval + 4 * chunk
        BY <1>1, <1>4
      <3>2. chunk * Interval + 4 * chunk = chunk * (Interval + 4)
        BY <1>1
      <3>3. chunk * Interval + Interval \in Nat /\ chunk * (Interval + 4) \in Nat
        BY <1>1
      <3>. QED
        BY <1>1, <3>1, <3>2, <3>3, TimesMonotone
    <2>7. TopSpeed * (chunk * (Interval + 4)) = chunk * (TopSpeed * (Interval + 4))
      BY <1>1, SMTT(30)
    <2>8. chunk * q <= chunk * (TopSpeed * (Interval + 4))
      <3>1. /\ chunk * q \in Nat /\ TopSpeed * (chunk * Interval + Interval) \in Nat
            /\ TopSpeed * (chunk * (Interval + 4)) \in Nat
        BY <1>1, <2>3
      <3>. QED
        BY <2>2, <2>3, <2>4, <2>5, <2>6, <2>7, <3>1
    <2>9. q <= TopSpeed * (Interval + 4)
      <3>. DEFINE limit == TopSpeed * (Interval + 4)
      <3>1. limit \in Nat /\ chunk * q <= chunk * limit
        BY <1>1, <2>8
      <3>. HIDE DEF limit
      <3>2. q <= limit
        BY <1>1, <2>3, <3>1, SMTT(30)
      <3>. QED
        BY <3>2 DEF limit
    <2>. QED
      BY <2>1, <2>3, <2>9
  <1>. QED
    BY <1>2, <1>3, <1>4

(* std::max.                                                                *)
LEMMA LargerOfTwo ==
    ASSUME NEW n \in Nat, NEW m \in Nat
    PROVE  AtLeast(n, m) \in Nat /\ AtLeast(n, m) >= n /\ AtLeast(n, m) >= m /\ AtLeast(n, m) \in {n, m}
  BY DEF AtLeast

LEMMA SusInitInv == SusInit => SusTypeOK /\ ChunkBounded /\ ChunkTakesTime
  <1>. SUFFICES ASSUME SusInit PROVE SusTypeOK /\ ChunkBounded /\ ChunkTakesTime
    OBVIOUS
  <1>1. SusTypeOK
    BY ScaleAssumption DEF SusInit, SusTypeOK
  <1>. DEFINE a == AtLeast(MinInner, FirstInner)
              limit == TopSpeed * (Interval + 4)
  <1>2. a \in Nat /\ a >= FirstInner /\ limit \in Nat /\ FirstInner \in Nat
    <2>1. /\ MinInner \in Nat /\ FirstInner \in Nat /\ TopSpeed \in Nat /\ Interval \in Nat
      BY <1>1, SusTypes
    <2>2. a \in Nat /\ a >= FirstInner
      BY <2>1, LargerOfTwo
    <2>. QED
      BY <2>1, <2>2
  <1>. HIDE DEF a, limit
  <1>3. inner = FirstInner /\ AtLeast(a, limit) >= a /\ AtLeast(a, limit) \in Nat
    BY <1>2, LargerOfTwo DEF SusInit
  <1>. QED
    BY <1>1, <1>2, <1>3 DEF SusInit, ChunkBounded, ChunkTakesTime, a, limit

LEMMA SusNextInv ==
    SusTypeOK /\ ChunkBounded /\ ChunkTakesTime /\ [SusNext]_susVars
        => SusTypeOK' /\ ChunkBounded' /\ ChunkTakesTime'
  <1>. SUFFICES ASSUME SusTypeOK, ChunkBounded, ChunkTakesTime, [SusNext]_susVars
                PROVE  SusTypeOK' /\ ChunkBounded' /\ ChunkTakesTime'
    OBVIOUS
  <1>1. CASE UNCHANGED susVars \/ EndOfDuration
    BY <1>1 DEF susVars, EndOfDuration, SusTypeOK, ChunkBounded, ChunkTakesTime
  <1>2. CASE RunChunk
    <2>1. chunk' \in Nat /\ inner < TopSpeed * (chunk' + 1)
      BY <1>2, ChunkTime
    <2>2. speed' \in Speeds /\ calm' \in 0..Settle
      BY <1>2, ScaleAssumption DEF RunChunk, CalmChunk, DisturbedChunk, SusTypeOK
    <2>3. inner' = inner /\ susPc' = "sample" /\ elapsed' = elapsed + chunk'
      BY <1>2 DEF RunChunk
    <2>. QED
      <3>1. elapsed' \in Nat
        <4>1. elapsed \in Nat /\ chunk' \in Nat
          BY <2>1 DEF SusTypeOK
        <4>. QED
          BY <2>3, <4>1, PlusMonotone
      <3>2. SusTypeOK'
        BY <2>1, <2>2, <2>3, <3>1 DEF SusTypeOK
      <3>3. ChunkBounded' /\ ChunkTakesTime'
        BY <2>1, <2>3 DEF ChunkBounded, ChunkTakesTime
      <3>. QED
        BY <3>2, <3>3
  <1>3. CASE Rescale
    <2>. DEFINE a == AtLeast(MinInner, FirstInner)
                limit == TopSpeed * (Interval + 4)
                top == AtLeast(a, limit)
    <2>1. /\ MinInner \in Nat \ {0} /\ a \in Nat /\ limit \in Nat /\ top \in Nat
          /\ a >= MinInner /\ top >= a /\ top >= limit
      <3>1. MinInner \in Nat \ {0} /\ a \in Nat /\ a >= MinInner /\ limit \in Nat
        <4>1. /\ MinInner \in Nat \ {0} /\ FirstInner \in Nat /\ TopSpeed \in Nat /\ Interval \in Nat
          BY SusTypes
        <4>2. a \in Nat /\ a >= MinInner
          BY <4>1, LargerOfTwo
        <4>. QED
          BY <4>1, <4>2
      <3>. HIDE DEF a, limit
      <3>. QED
        BY <3>1, LargerOfTwo
    <2>2. inner \in Nat /\ inner <= top /\ (inner >= MinInner \/ inner = FirstInner)
      BY SusTypes DEF ChunkBounded
    <2>3. CASE chunk = 0
      <3>1. UNCHANGED <<inner, speed, chunk, elapsed, calm>> /\ susPc' = "loop"
        BY <1>3, <2>3 DEF Rescale
      <3>. QED
        BY <3>1 DEF SusTypeOK, ChunkBounded, ChunkTakesTime
    <2>4. CASE chunk > 0
      <3>1. Scaled \in Nat /\ (Scaled <= inner \/ Scaled <= limit)
        BY <1>3, <2>4, ScaledBound DEF Rescale, ChunkTakesTime
      <3>2. inner' = AtLeast(MinInner, Scaled)
        BY <1>3, <2>4 DEF Rescale
      <3>. HIDE DEF top, limit, a
      <3>3. inner' \in Nat /\ inner' >= MinInner /\ inner' \in {MinInner, Scaled}
        BY <2>1, <3>1, <3>2, LargerOfTwo
      <3>4. inner' <= top
        BY <2>1, <2>2, <3>1, <3>3
      <3>5. UNCHANGED <<speed, chunk, elapsed, calm>> /\ susPc' = "loop"
        BY <1>3 DEF Rescale
      <3>6. inner' \in Nat \ {0}
        BY <2>1, <3>3
      <3>. QED
        BY <3>3, <3>4, <3>5, <3>6 DEF SusTypeOK, ChunkBounded, ChunkTakesTime, top, limit, a
    <2>. QED
      BY <2>3, <2>4, SusTypes
  <1>. QED
    BY <1>1, <1>2, <1>3 DEF SusNext

(* No schedule of throttling and preemption starves or bloats a chunk: for any     *)
(* speeds, delays and settings its size stays between the floor and what the   *)
(* fastest core does in the interval and four ticks.                         *)
THEOREM ChunksStayInBounds == SusSpec => []ChunkBounded
  BY SusInitInv, SusNextInv, PTL DEF SusSpec

-----------------------------------------------------------------------------
(* Sustained: the way back to the cadence.  A chunk that is too short by more   *)
(* than a factor of four grows fourfold, one that is too long shrinks to a     *)
(* quarter, and from in between the next one is on target.                   *)

OnTarget(c) == c \in Interval..Interval + 3

Limit == AtLeast(AtLeast(MinInner, FirstInner), TopSpeed * (Interval + 4))

(* Where a chunk of c ticks can be after as many calm ones as w is a power of four:  *)
(* what is too short has grown to w at least, what is too long was w times that. *)
Phase(w, c) ==
    \/ OnTarget(c)
    \/ /\ 4 * c <= Interval /\ w <= c
    \/ /\ Interval < 4 * c /\ c < 4 * Interval
       /\ w <= Interval \/ Interval * w <= Limit
    \/ /\ 4 * Interval <= c /\ c * w <= Limit

(* A quotient is no less than any number that fits,                         *)
LEMMA DivAtLeast ==
    ASSUME NEW a \in Nat, NEW b \in Nat \ {0}, NEW q \in Nat, b * q <= a
    PROVE  q <= a \div b
  <1>. DEFINE d == a \div b
  <1>1. d \in Nat /\ a < b * (d + 1)
    BY DivBounds
  <1>. HIDE DEF d
  <1>2. ASSUME d + 1 <= q PROVE FALSE
    <2>1. b * (d + 1) <= b * q
      BY <1>1, <1>2, TimesMonotone
    <2>2. b * (d + 1) \in Nat /\ b * q \in Nat
      BY <1>1
    <2>. QED
      BY <1>1, <2>1, <2>2
  <1>3. q <= d
    BY <1>1, <1>2
  <1>. QED
    BY <1>3 DEF d

(* and no more than one whose successor does not.                           *)
LEMMA DivAtMost ==
    ASSUME NEW a \in Nat, NEW b \in Nat \ {0}, NEW q \in Nat, a < b * (q + 1)
    PROVE  a \div b <= q
  <1>. DEFINE d == a \div b
  <1>1. d \in Nat /\ b * d <= a
    BY DivBounds
  <1>. HIDE DEF d
  <1>2. ASSUME q + 1 <= d PROVE FALSE
    <2>1. b * (q + 1) <= b * d
      BY <1>1, <1>2, TimesMonotone
    <2>2. b * (q + 1) \in Nat /\ b * d \in Nat
      BY <1>1
    <2>. QED
      BY <1>1, <2>1, <2>2
  <1>3. d <= q
    BY <1>1, <1>2
  <1>. QED
    BY <1>3 DEF d

(* A quarter of the interval or less: four times the iterations take four times   *)
(* the ticks, and up to three that the division had cut off.                  *)
LEMMA ShortChunkGrows ==
    ASSUME NEW n \in Nat, NEW s \in Nat \ {0}, NEW c \in Nat, s * c <= n, n < s * (c + 1)
    PROVE  (4 * n) \div s \in 4 * c..4 * c + 3
  <1>1. s * (4 * c) = 4 * (s * c) /\ s * ((4 * c + 3) + 1) = 4 * (s * (c + 1))
    BY SMTT(30)
  <1>2. s * c \in Nat /\ s * (c + 1) \in Nat /\ s * (4 * c) \in Nat /\ s * ((4 * c + 3) + 1) \in Nat
    OBVIOUS
  <1>3. s * (4 * c) <= 4 * n /\ 4 * n < s * ((4 * c + 3) + 1)
    BY <1>1, <1>2
  <1>4. 4 * c \in Nat /\ 4 * c + 3 \in Nat /\ 4 * n \in Nat
    OBVIOUS
  <1>5. 4 * c <= (4 * n) \div s /\ (4 * n) \div s <= 4 * c + 3
    BY <1>3, <1>4, DivAtLeast, DivAtMost
  <1>6. (4 * n) \div s \in Nat
    BY <1>4, DivBounds
  <1>. QED
    BY <1>5, <1>6

(* Four intervals or more: a quarter of the iterations take at most a quarter of   *)
(* the ticks, and still the interval.                                       *)
LEMMA LongChunkShrinks ==
    ASSUME NEW n \in Nat, NEW s \in Nat \ {0}, NEW c \in Nat, NEW i \in Nat,
           s * c <= n, n < s * (c + 1), 4 * i <= c
    PROVE  /\ s * i <= n \div 4
           /\ i <= (n \div 4) \div s /\ 4 * ((n \div 4) \div s) <= c
  <1>. DEFINE m == n \div 4
              d == m \div s
  <1>1. m \in Nat /\ 4 * m <= n /\ n < 4 * (m + 1)
    OBVIOUS
  <1>. HIDE DEF m
  <1>2. d \in Nat /\ s * d <= m
    BY <1>1, DivBounds
  <1>3. s * (4 * i) <= s * c /\ s * (4 * i) = 4 * (s * i) /\ s * i \in Nat /\ s * c \in Nat
    <2>1. s * (4 * i) <= s * c
      BY TimesMonotone
    <2>2. s * (4 * i) = 4 * (s * i)
      BY SMTT(30)
    <2>. QED
      BY <2>1, <2>2
  <1>4. s * i <= m
    BY <1>1, <1>3
  <1>5. i <= d
    BY <1>1, <1>4, DivAtLeast
  <1>. HIDE DEF d
  <1>6. ASSUME c + 1 <= 4 * d PROVE FALSE
    <2>1. s * (c + 1) <= s * (4 * d)
      BY <1>2, <1>6, TimesMonotone
    <2>2. s * (4 * d) = 4 * (s * d)
      BY <1>2, SMTT(30)
    <2>3. s * (c + 1) \in Nat /\ s * d \in Nat
      BY <1>2
    <2>. QED
      BY <1>1, <1>2, <2>1, <2>2, <2>3
  <1>7. 4 * d <= c
    BY <1>2, <1>6
  <1>. QED
    BY <1>4, <1>5, <1>7 DEF d, m

(* In between, the ratio is exact but for what the two divisions cut off. *)
LEMMA NearChunkLands ==
    ASSUME NEW n \in Nat, NEW s \in Nat \ {0}, NEW c \in Nat \ {0}, NEW i \in Nat \ {0},
           s * c <= n, n < s * (c + 1), i < 4 * c
    PROVE  /\ s * i <= (n * i) \div c
           /\ ((n * i) \div c) \div s \in i..i + 3
  <1>. DEFINE q == (n * i) \div c
  <1>0. n * i \in Nat
    OBVIOUS
  <1>1. q \in Nat /\ c * q <= n * i
    BY <1>0, DivBounds
  <1>2. c * (s * i) <= n * i
    <2>1. (s * c) * i <= n * i
      BY TimesMonotone
    <2>2. (s * c) * i = c * (s * i)
      BY SMTT(30)
    <2>. QED
      BY <2>1, <2>2
  <1>3. s * i \in Nat
    OBVIOUS
  <1>4. s * i <= q
    BY <1>0, <1>2, <1>3, DivAtLeast
  <1>. HIDE DEF q
  <1>5. c * q < c * (s * (i + 4))
    <2>1. n <= s * c + (s - 1)
      <3>1. s * (c + 1) = s * c + s /\ s * c \in Nat
        OBVIOUS
      <3>. QED
        BY <3>1
    <2>2. n * i <= (s * c + (s - 1)) * i
      <3>1. s * c + (s - 1) \in Nat
        OBVIOUS
      <3>. QED
        BY <2>1, <3>1, TimesMonotone
    <2>3. (s * c + (s - 1)) * i = c * (s * i) + (s - 1) * i
      BY SMTT(30)
    <2>4. (s - 1) * i <= s * (4 * c - 1)
      <3>1. s - 1 \in Nat /\ s - 1 <= s /\ 4 * c - 1 \in Nat /\ i <= 4 * c - 1
        OBVIOUS
      <3>. QED
        BY <3>1, TimesMonotone
    <2>5. s * (4 * c - 1) < s * (4 * c)
      BY SMTT(30)
    <2>6. c * (s * i) + s * (4 * c) = c * (s * (i + 4))
      BY SMTT(30)
    <2>7. /\ c * q \in Nat /\ c * (s * i) \in Nat /\ (s - 1) * i \in Int
          /\ s * (4 * c - 1) \in Int /\ s * (4 * c) \in Int /\ (s * c + (s - 1)) * i \in Int
          /\ c * (s * (i + 4)) \in Int
      BY <1>1
    <2>. QED
      BY <1>0, <1>1, <2>2, <2>3, <2>4, <2>5, <2>6, <2>7
  <1>6. q < s * (i + 4)
    <2>1. ASSUME s * (i + 4) <= q PROVE FALSE
      <3>1. s * (i + 4) \in Nat
        OBVIOUS
      <3>2. c * (s * (i + 4)) <= c * q
        BY <1>1, <2>1, <3>1, TimesMonotone
      <3>3. c * (s * (i + 4)) \in Nat /\ c * q \in Nat
        BY <1>1, <3>1
      <3>. QED
        BY <1>5, <3>2, <3>3
    <2>2. s * (i + 4) \in Nat
      OBVIOUS
    <2>. QED
      BY <1>1, <2>1, <2>2
  <1>7. i <= q \div s /\ q \div s <= i + 3
    <2>1. (i + 3) + 1 = i + 4 /\ i + 3 \in Nat
      OBVIOUS
    <2>2. q \div s <= i + 3
      BY <1>1, <1>6, <2>1, DivAtMost
    <2>. QED
      BY <1>1, <1>4, <2>2, DivAtLeast
  <1>8. q \div s \in Nat
    BY <1>1, DivBounds
  <1>. QED
    BY <1>4, <1>7, <1>8 DEF q

(* The longest chunk is a number.                                           *)
LEMMA LimitIsNatural == Limit \in Nat
  <1>1. /\ FirstInner \in Nat /\ TopSpeed \in Nat /\ MinInner \in Nat /\ Interval \in Nat
    BY ScaleAssumption
  <1>2. TopSpeed * (Interval + 4) \in Nat
    BY <1>1
  <1>. DEFINE a == AtLeast(MinInner, FirstInner)
              b == TopSpeed * (Interval + 4)
  <1>3. a \in Nat
    BY <1>1, LargerOfTwo
  <1>. HIDE DEF a, b
  <1>4. b \in Nat
    BY <1>2 DEF b
  <1>5. AtLeast(a, b) \in Nat
    BY <1>3, <1>4, LargerOfTwo
  <1>. QED
    BY <1>5 DEF Limit, a, b

(* A chunk above the floor takes a tick at least, and the floor no more than the interval. *)
LEMMA ChunkOfInner ==
    ASSUME SusTypeOK, MinInner <= inner, chunk = inner \div speed
    PROVE  /\ chunk \in Nat \ {0} /\ speed * chunk <= inner /\ inner < speed * (chunk + 1)
           /\ MinInner <= speed * Interval
  <1>1. /\ inner \in Nat /\ speed \in Nat \ {0} /\ MinInner \in Nat /\ Interval \in Nat
    BY SusTypes
  <1>2. speed <= MinInner /\ MinInner <= speed * Interval
    BY FloorAssumption DEF SusTypeOK
  <1>3. speed * 1 <= inner
    BY <1>1, <1>2
  <1>4. 1 <= inner \div speed
    BY <1>1, <1>3, DivAtLeast
  <1>. DEFINE d == inner \div speed
  <1>5. d \in Nat /\ speed * d <= inner /\ inner < speed * (d + 1)
    BY <1>1, DivBounds
  <1>. HIDE DEF d
  <1>6. chunk = d /\ 1 <= d
    BY <1>4 DEF d
  <1>. QED
    BY <1>2, <1>5, <1>6

(* Rescaling takes a chunk one phase on, and leaves what is on target there. *)
LEMMA RescalePhase ==
    ASSUME SusTypeOK, MinInner <= inner, chunk = inner \div speed,
           NEW w \in Nat \ {0}, Phase(w, chunk)
    PROVE  LET d == AtLeast(MinInner, Scaled) \div speed
           IN  Phase(4 * w, d) /\ (OnTarget(chunk) => OnTarget(d))
  <1>. DEFINE c == chunk
              s == speed
              i == Interval
  <1>1. /\ inner \in Nat \ {0} /\ s \in Nat \ {0} /\ i \in Nat \ {0} /\ MinInner \in Nat
        /\ c \in Nat \ {0} /\ s * c <= inner /\ inner < s * (c + 1) /\ MinInner <= s * i
    BY ChunkOfInner, SusTypes
  <1>2. Limit \in Nat
    BY LimitIsNatural
  <1>3. ASSUME NEW n \in Nat, MinInner <= n PROVE AtLeast(MinInner, n) = n
    BY <1>1, <1>3 DEF AtLeast
  <1>4. CASE 4 * c <= i
    <2>. DEFINE d == (4 * inner) \div s
    <2>1. AtLeast(MinInner, Scaled) = 4 * inner
      <3>1. Scaled = 4 * inner
        BY <1>4 DEF Scaled
      <3>2. 4 * inner \in Nat /\ MinInner <= 4 * inner
        BY <1>1
      <3>. QED
        BY <1>3, <3>1, <3>2
    <2>2. d \in 4 * c..4 * c + 3
      BY <1>1, ShortChunkGrows
    <2>. HIDE DEF d
    <2>3. w <= c /\ ~OnTarget(c)
      BY <1>1, <1>4 DEF Phase, OnTarget
    <2>. DEFINE z == 4 * w
    <2>4. d \in Nat /\ z \in Nat /\ z <= d /\ d <= i + 3
      BY <1>1, <1>4, <2>2, <2>3
    <2>. HIDE DEF z
    <2>5. ASSUME ~(i <= d)
          PROVE  \/ 4 * d <= i /\ z <= d
                 \/ i < 4 * d /\ d < 4 * i /\ z <= i
      BY <1>1, <2>4, <2>5
    <2>6. i <= d => OnTarget(d)
      BY <1>1, <2>4 DEF OnTarget
    <2>7. Phase(z, d)
      BY <2>5, <2>6, Zenon DEF Phase
    <2>8. Phase(4 * w, d)
      BY <2>7 DEF z
    <2>. QED
      BY <2>1, <2>3, <2>8 DEF d
  <1>5. CASE 4 * i <= c
    <2>. DEFINE m == inner \div 4
                d == m \div s
    <2>1. s * i <= m /\ i <= d /\ 4 * d <= c
      BY <1>1, <1>5, LongChunkShrinks
    <2>2. m \in Nat /\ d \in Nat
      BY <1>1, DivBounds
    <2>3. Scaled = m
      <3>1. ~(Interval >= 4 * chunk)
        BY <1>1, <1>5
      <3>. QED
        BY <1>5, <3>1 DEF Scaled
    <2>. HIDE DEF m
    <2>4. AtLeast(MinInner, Scaled) = m
      <3>1. s * i \in Nat
        BY <1>1
      <3>2. MinInner <= m
        BY <1>1, <2>1, <2>2, <3>1
      <3>. QED
        BY <1>3, <2>2, <2>3, <3>2
    <2>. HIDE DEF d
    <2>5. OnTarget(c) => OnTarget(d)
      BY <1>1, <2>1, <2>2 DEF OnTarget
    <2>6. ASSUME ~OnTarget(d) PROVE Phase(4 * w, d)
      <3>1. c * w <= Limit
        BY <1>1, <1>5, <2>5, <2>6 DEF Phase
      <3>2. d * (4 * w) <= Limit
        <4>1. (4 * d) * w <= c * w
          BY <1>1, <2>1, <2>2, TimesMonotone
        <4>2. d * (4 * w) = (4 * d) * w
          BY <2>2, SMTT(30)
        <4>3. (4 * d) * w \in Nat /\ c * w \in Nat
          BY <1>1, <2>2
        <4>. QED
          BY <1>2, <3>1, <4>1, <4>2, <4>3
      <3>3. CASE 4 * i <= d
        BY <3>2, <3>3 DEF Phase
      <3>4. CASE d < 4 * i
        <4>1. i < 4 * d
          BY <1>1, <2>1, <2>2
        <4>2. i * (4 * w) <= d * (4 * w)
          BY <1>1, <2>1, <2>2, TimesMonotone
        <4>3. i * (4 * w) \in Nat /\ d * (4 * w) \in Nat
          BY <1>1, <2>2
        <4>4. i * (4 * w) <= Limit
          BY <1>2, <3>2, <4>2, <4>3
        <4>. QED
          BY <3>4, <4>1, <4>4 DEF Phase
      <3>. QED
        BY <1>1, <2>2, <3>3, <3>4
    <2>7. Phase(4 * w, d)
      BY <2>6 DEF Phase
    <2>. QED
      BY <2>4, <2>5, <2>7 DEF d
  <1>6. CASE i < 4 * c /\ c < 4 * i
    <2>. DEFINE q == (inner * i) \div c
                d == q \div s
    <2>1. s * i <= q /\ d \in i..i + 3
      BY <1>1, <1>6, NearChunkLands
    <2>2. q \in Nat
      <3>1. inner * i \in Nat
        BY <1>1
      <3>. QED
        BY <1>1, <3>1, DivBounds
    <2>3. Scaled = q
      <3>1. ~(Interval >= 4 * chunk) /\ ~(4 * Interval <= chunk)
        BY <1>1, <1>6
      <3>. QED
        BY <3>1 DEF Scaled
    <2>. HIDE DEF q
    <2>4. AtLeast(MinInner, Scaled) = q
      <3>1. s * i \in Nat
        BY <1>1
      <3>2. MinInner <= q
        BY <1>1, <2>1, <2>2, <3>1
      <3>. QED
        BY <1>3, <2>2, <2>3, <3>2
    <2>5. OnTarget(d)
      BY <2>1 DEF OnTarget
    <2>. HIDE DEF d
    <2>6. Phase(4 * w, d)
      BY <2>5 DEF Phase
    <2>. QED
      BY <2>4, <2>5, <2>6 DEF d
  <1>. QED
    BY <1>1, <1>4, <1>5, <1>6

NextCalm == IF calm < Settle THEN calm + 1 ELSE Settle

(* The size that a chunk is about to have, or had, is where the calm has got to. *)
Approaching(power) ==
    calm >= 1 =>
        /\ susPc = "sample" => chunk = inner \div speed /\ Phase(power[calm - 1], chunk)
        /\ susPc = "loop" => Phase(power[NextCalm - 1], inner \div speed)

(* Wherever the speed and other threads have taken it, the chunk is back on the   *)
(* interval after Settle undisturbed turns, if four to the power of Settle - 1  *)
(* exceeds the interval in ticks and the number of times that the longest    *)
(* possible chunk has the interval: logarithmically many turns are enough.    *)
(* The configured first chunk has to be no shorter than the floor (it has 2^20 *)
(* iterations, the floor 2^10): one of zero ticks would never be rescaled.    *)
THEOREM CadenceComesBack ==
    ASSUME NEW power \in [Nat -> Nat \ {0}],
           power[0] = 1, \A k \in Nat : power[k + 1] = 4 * power[k],
           Settle # 0, MinInner <= FirstInner,
           Interval < power[Settle - 1], Limit < Interval * power[Settle - 1]
    PROVE  SusSpec => []CadenceReturns
  <1>. DEFINE Inv == /\ SusTypeOK /\ ChunkBounded /\ ChunkTakesTime
                     /\ Approaching(power) /\ CadenceReturns
  <1>1. /\ Settle \in Nat \ {0} /\ Interval \in Nat \ {0} /\ Limit \in Nat /\ MinInner \in Nat
        /\ FirstInner \in Nat
    BY ScaleAssumption, LimitIsNatural
  <1>2. SusInit => Inv
    <2>. SUFFICES ASSUME SusInit PROVE Inv
      OBVIOUS
    <2>1. calm = 0
      BY DEF SusInit
    <2>. QED
      BY <1>1, <2>1, SusInitInv DEF Approaching, CadenceReturns
  <1>3. ASSUME NEW c \in Nat, Phase(power[Settle - 1], c) PROVE OnTarget(c)
    <2>. DEFINE w == power[Settle - 1]
    <2>1. w \in Nat \ {0} /\ Interval < w /\ Limit < Interval * w
      BY <1>1
    <2>2. Phase(w, c)
      BY <1>3
    <2>. HIDE DEF w
    <2>3. ~(4 * c <= Interval /\ w <= c)
      BY <1>1, <2>1
    <2>4. ~(w <= Interval \/ Interval * w <= Limit)
      <3>1. Interval * w \in Nat
        BY <1>1, <2>1
      <3>. QED
        BY <1>1, <2>1, <3>1
    <2>5. ~(4 * Interval <= c /\ c * w <= Limit)
      <3>. SUFFICES ASSUME 4 * Interval <= c, c * w <= Limit PROVE FALSE
        OBVIOUS
      <3>1. Interval <= c
        BY <1>1
      <3>2. Interval * w <= c * w
        BY <1>1, <2>1, <3>1, TimesMonotone
      <3>3. Interval * w \in Nat /\ c * w \in Nat
        BY <1>1, <2>1
      <3>. DEFINE a == Interval * w
                  b == c * w
      <3>4. a \in Nat /\ b \in Nat /\ a <= b /\ b <= Limit /\ Limit < a
        BY <2>1, <3>2, <3>3
      <3>. HIDE DEF a, b
      <3>. QED
        BY <1>1, <3>4
    <2>. QED
      BY <2>2, <2>3, <2>4, <2>5 DEF Phase
  <1>4. Inv /\ [SusNext]_susVars => Inv'
    <2>. SUFFICES ASSUME Inv, [SusNext]_susVars PROVE Inv'
      OBVIOUS
    <2>1. SusTypeOK' /\ ChunkBounded' /\ ChunkTakesTime'
      BY SusNextInv
    <2>2. /\ inner \in Nat \ {0} /\ speed \in Nat \ {0} /\ calm \in Nat /\ calm <= Settle
          /\ MinInner <= inner /\ inner <= Limit
      <3>1. MinInner <= inner
        BY <1>1, SusTypes DEF ChunkBounded
      <3>. QED
        BY <1>1, <3>1, SusTypes DEF ChunkBounded, Limit, SusTypeOK
    <2>3. CASE UNCHANGED susVars \/ EndOfDuration
      <3>1. UNCHANGED <<inner, speed, chunk, calm>> /\ (susPc' = susPc \/ susPc' = "done")
        BY <2>3 DEF susVars, EndOfDuration
      <3>2. NextCalm' = NextCalm
        BY <3>1 DEF NextCalm
      <3>. QED
        BY <2>1, <3>1, <3>2 DEF Approaching, CadenceReturns
    <2>4. CASE RunChunk /\ CalmChunk
      <3>. DEFINE d == inner \div speed
      <3>1. /\ susPc = "loop" /\ susPc' = "sample" /\ UNCHANGED <<inner, speed>>
            /\ chunk' = d /\ calm' = NextCalm
        BY <2>4 DEF RunChunk, CalmChunk, NextCalm
      <3>2. d \in Nat /\ speed * d <= inner
        BY <2>2, DivBounds
      <3>3. Phase(power[NextCalm - 1], d)
        <4>1. CASE calm >= 1
          BY <3>1, <4>1 DEF Approaching
        <4>2. CASE calm = 0
          <5>1. NextCalm - 1 = 0
            BY <1>1, <4>2 DEF NextCalm
          <5>2. 1 <= d
            <6>1. speed <= MinInner
              BY FloorAssumption DEF SusTypeOK
            <6>2. speed * 1 <= inner
              BY <1>1, <2>2, <6>1
            <6>. QED
              BY <2>2, <6>2, DivAtLeast
          <5>. HIDE DEF d
          <5>3. d <= Limit
            <6>1. 1 * d <= speed * d
              BY <2>2, <3>2, TimesMonotone
            <6>2. speed * d \in Nat
              BY <2>2, <3>2
            <6>. QED
              BY <1>1, <2>2, <3>2, <6>1, <6>2
          <5>4. Phase(1, d)
            BY <1>1, <3>2, <5>2, <5>3 DEF Phase
          <5>. QED
            BY <5>1, <5>4
        <4>. QED
          BY <2>2, <4>1, <4>2
      <3>. HIDE DEF d
      <3>4. CadenceReturns'
        <4>. SUFFICES ASSUME NextCalm >= Settle PROVE OnTarget(d)
          BY <3>1 DEF CadenceReturns, OnTarget
        <4>1. NextCalm = Settle
          BY <1>1, <2>2 DEF NextCalm
        <4>. QED
          BY <1>3, <3>2, <3>3, <4>1
      <3>5. Approaching(power)'
        BY <3>1, <3>3 DEF Approaching, d
      <3>. QED
        BY <2>1, <3>4, <3>5
    <2>5. CASE RunChunk /\ ~CalmChunk
      <3>1. calm' = 0
        BY <2>5 DEF RunChunk, DisturbedChunk
      <3>. QED
        BY <1>1, <2>1, <3>1 DEF Approaching, CadenceReturns
    <2>6. CASE Rescale
      <3>1. UNCHANGED <<speed, chunk, calm>> /\ susPc = "sample" /\ susPc' = "loop"
        BY <2>6 DEF Rescale
      <3>2. CadenceReturns'
        BY <3>1 DEF CadenceReturns
      <3>3. ASSUME calm >= 1 PROVE Phase(power[NextCalm - 1], inner' \div speed)
        <4>. DEFINE k == calm - 1
                    w == power[k]
                    m == AtLeast(MinInner, Scaled)
        <4>1. chunk = inner \div speed /\ Phase(w, chunk)
          BY <3>1, <3>3 DEF Approaching
        <4>2. chunk > 0
          BY <2>2, <4>1, ChunkOfInner
        <4>3. inner' = m
          BY <2>6, <4>2 DEF Rescale
        <4>4. k \in Nat /\ w \in Nat \ {0} /\ k + 1 = calm
          BY <2>2, <3>3
        <4>5. Phase(4 * w, m \div speed) /\ (OnTarget(chunk) => OnTarget(m \div speed))
          <5>. HIDE DEF w
          <5>. QED
            BY <2>2, <4>1, <4>4, RescalePhase
        <4>6. CASE calm < Settle
          <5>1. NextCalm - 1 = calm
            BY <2>2, <4>6 DEF NextCalm
          <5>2. power[calm] = 4 * w
            BY <4>4
          <5>. QED
            BY <4>3, <4>5, <5>1, <5>2
        <4>7. CASE calm = Settle
          <5>1. OnTarget(chunk)
            BY <1>1, <4>7 DEF CadenceReturns, OnTarget
          <5>. QED
            BY <4>3, <4>5, <5>1 DEF Phase
        <4>. QED
          BY <1>1, <2>2, <4>6, <4>7
      <3>4. Approaching(power)'
        BY <3>1, <3>3 DEF Approaching, NextCalm
      <3>. QED
        BY <2>1, <3>2, <3>4
    <2>. QED
      BY <2>3, <2>4, <2>5, <2>6 DEF SusNext
  <1>5. Inv => CadenceReturns
    OBVIOUS
  <1>. QED
    BY <1>2, <1>4, <1>5, PTL DEF SusSpec

-----------------------------------------------------------------------------
(* PerfGroup: the counts of a group follow its events.                        *)

(* A function on an initial segment of the numbers is a sequence.           *)
LEMMA FunctionIsSeq ==
    ASSUME NEW S, NEW n \in Nat, NEW f \in [1..n -> S]
    PROVE  f \in Seq(S) /\ Len(f) = n /\ DOMAIN f = 1..n
  OBVIOUS

(* Before the leader is enabled nothing counts; while it is, a count lags behind   *)
(* only if the group has been off the PMU, and the row will say so.           *)
CountsFollow ==
    /\ \A i \in 1..Len(group) : group[i].ev = events[i]
    /\ \A e \in Events : truth[e] <= occurred[e]
    /\ perfPc \in {"add", "reset", "start"} =>
          /\ ~leaderOn
          /\ \A e \in Events : truth[e] = 0
          /\ \A i \in 1..Len(group) : group[i].count = 0
    /\ perfPc \in {"work", "stop"} => leaderOn /\ (~timeLost => onPmu)
    /\ perfPc \in {"read", "done"} => ~leaderOn
    /\ perfPc \in {"work", "stop", "read"} =>
          \A i \in 1..Len(group) :
              /\ group[i].count <= truth[group[i].ev]
              /\ ~timeLost => group[i].count = truth[group[i].ev]

PerfInv == PerfTypeOK /\ CountsFollow

LEMMA PerfInitInv == PerfInit => PerfInv /\ SamplesTellTheirEvent
  <1>. SUFFICES ASSUME PerfInit PROVE PerfInv /\ SamplesTellTheirEvent
    OBVIOUS
  <1>1. /\ events \in Seq(Events) /\ group \in Seq(Member) /\ samples \in Seq(Sample)
        /\ Len(events) = 0 /\ Len(group) = 0
    BY EmptySeq DEF PerfInit
  <1>2. occurred \in Counts /\ truth \in Counts /\ \A e \in Events : truth[e] = 0 /\ occurred[e] = 0
    BY PerfAssumption DEF PerfInit, NoCounts, Counts
  <1>3. Len(Wanted) \in Nat
    BY PerfAssumption
  <1>4. /\ perfPc = "add" /\ added = 0 /\ leaderOn = FALSE /\ onPmu = TRUE /\ timeLost = FALSE
        /\ available = FALSE /\ readFailed = FALSE
    BY DEF PerfInit
  <1>5. PerfTypeOK
    <2>1. added \in 0..Len(Wanted)
      BY <1>3, <1>4
    <2>. QED
      BY <1>1, <1>2, <1>4, <2>1 DEF PerfTypeOK
  <1>6. CountsFollow /\ SamplesTellTheirEvent
    BY <1>1, <1>2, <1>4 DEF CountsFollow, SamplesTellTheirEvent
  <1>. QED
    BY <1>5, <1>6 DEF PerfInv

LEMMA AddKeepsInv == PerfInv /\ Add => PerfInv'
  <1>. SUFFICES ASSUME PerfInv, Add PROVE PerfInv'
    OBVIOUS
  <1>. USE DEF PerfInv
  <1>0. /\ Len(group) \in Nat /\ Len(events) = Len(group) /\ added \in Nat /\ Len(Wanted) \in Nat
        /\ group \in Seq(Member) /\ events \in Seq(Events)
        /\ added' = added + 1 /\ added < Len(Wanted) /\ perfPc = "add"
        /\ UNCHANGED <<perfPc, onPmu, timeLost, occurred, truth, available, readFailed, samples>>
    BY PerfAssumption DEF PerfTypeOK, Add
  <1>1. CASE UNCHANGED <<events, group, leaderOn>>
    BY <1>0, <1>1 DEF PerfTypeOK, CountsFollow
  <1>2. CASE Join(Wanted[added + 1]) /\ leaderOn' = (~NoLeader /\ leaderOn)
    <2>. DEFINE e == Wanted[added + 1]
                m == [ev |-> e, count |-> 0]
    <2>1. e \in Events /\ m \in Member
      BY <1>0, PerfAssumption DEF Events, Member
    <2>2. m.ev = e /\ m.count = 0 /\ events' = Append(events, e) /\ group' = Append(group, m)
      BY <1>2 DEF Join
    <2>. HIDE DEF e, m
    <2>3. /\ events' \in Seq(Events) /\ Len(events') = Len(events) + 1
          /\ events'[Len(events) + 1] = e /\ \A i \in 1..Len(events) : events'[i] = events[i]
      BY <1>0, <2>1, <2>2, AppendProperties
    <2>4. /\ group' \in Seq(Member) /\ Len(group') = Len(group) + 1
          /\ group'[Len(group) + 1] = m /\ \A i \in 1..Len(group) : group'[i] = group[i]
      BY <1>0, <2>1, <2>2, AppendProperties
    <2>5. leaderOn' = FALSE
      BY <1>0, <1>2 DEF CountsFollow, PerfTypeOK
    <2>6. \A i \in 1..Len(group') : group'[i].ev = events'[i] /\ group'[i].count = 0
      BY <1>0, <2>2, <2>3, <2>4 DEF CountsFollow
    <2>7. PerfTypeOK'
      <3>1. added' \in 0..Len(Wanted) /\ Len(events') = Len(group')
        BY <1>0, <2>3, <2>4
      <3>. QED
        BY <1>0, <2>3, <2>4, <2>5, <3>1 DEF PerfTypeOK
    <2>8. CountsFollow'
      BY <1>0, <2>5, <2>6 DEF CountsFollow
    <2>. QED
      BY <2>7, <2>8
  <1>. QED
    BY <1>1, <1>2 DEF Add

(* The steps of the row that leave the members where they are. *)
LEMMA RowKeepsInv ==
    PerfInv /\ (Configured \/ StartGroup \/ WorkDone \/ StopGroup \/ Rotate) => PerfInv'
  <1>. SUFFICES ASSUME PerfInv, Configured \/ StartGroup \/ WorkDone \/ StopGroup \/ Rotate PROVE PerfInv'
    OBVIOUS
  <1>1. PerfTypeOK'
    BY DEF PerfInv, PerfTypeOK, Configured, StartGroup, WorkDone, StopGroup, Rotate
  <1>2. CASE Configured
    BY <1>2 DEF PerfInv, PerfTypeOK, CountsFollow, Configured
  <1>3. CASE StartGroup
    <2>1. \A i \in 1..Len(group) : group[i] \in Member
      BY ElementOfSeq DEF PerfInv, PerfTypeOK
    <2>2. \A i \in 1..Len(group) : group[i].count = 0 /\ truth[group[i].ev] = 0
      BY <1>3, <2>1 DEF PerfInv, CountsFollow, StartGroup, Member
    <2>3. /\ UNCHANGED <<events, group, occurred, truth>> /\ perfPc' = "work" /\ leaderOn' = TRUE
          /\ ~timeLost' => onPmu'
      BY <1>3 DEF StartGroup
    <2>4. \A i \in 1..Len(group') : /\ group'[i].count <= truth'[group'[i].ev]
                                    /\ group'[i].count = truth'[group'[i].ev]
      BY <2>2, <2>3
    <2>5. /\ \A i \in 1..Len(group') : group'[i].ev = events'[i]
          /\ \A e \in Events : truth'[e] <= occurred'[e]
      BY <2>3 DEF PerfInv, CountsFollow
    <2>6. leaderOn' /\ (~timeLost' => onPmu')
      BY <2>3
    <2>7. perfPc' \notin {"add", "reset", "start"} /\ perfPc' \notin {"read", "done"}
      BY <2>3
    <2>8. \A i \in 1..Len(group') : /\ group'[i].count <= truth'[group'[i].ev]
                                    /\ ~timeLost' => group'[i].count = truth'[group'[i].ev]
      BY <2>4, Zenon
    <2>9. ~(perfPc' \in {"add", "reset", "start"}) /\ ~(perfPc' \in {"read", "done"})
      BY <2>7
    <2>10. CountsFollow'
      BY <2>5, <2>6, <2>8, <2>9, Zenon DEF CountsFollow
    <2>. QED
      BY <1>1, <2>10, Zenon DEF PerfInv
  <1>4. CASE WorkDone \/ StopGroup
    BY <1>4 DEF PerfInv, PerfTypeOK, CountsFollow, WorkDone, StopGroup
  <1>5. CASE Rotate
    BY <1>5 DEF PerfInv, PerfTypeOK, CountsFollow, Rotate
  <1>. QED
    BY <1>1, <1>2, <1>3, <1>4, <1>5 DEF PerfInv

(* The samples are the members as they stand. *)
LEMMA ReadKeepsInv == PerfInv /\ ReadGroup => PerfInv' /\ SamplesTellTheirEvent'
  <1>. SUFFICES ASSUME PerfInv, ReadGroup PROVE PerfInv' /\ SamplesTellTheirEvent'
    OBVIOUS
  <1>0. /\ Len(group) \in Nat /\ DOMAIN group = 1..Len(group) /\ Len(events) = Len(group)
        /\ \A i \in 1..Len(group) : group[i] \in Member /\ events[i] \in Events
        /\ perfPc = "read" /\ perfPc' = "done" /\ readFailed' \in BOOLEAN
        /\ UNCHANGED <<added, events, group, leaderOn, onPmu, timeLost, occurred, truth, available>>
    BY ElementOfSeq DEF PerfInv, PerfTypeOK, ReadGroup
  <1>. DEFINE all == [i \in 1..Len(group) |-> [ev |-> events[i], value |-> group[i].count,
                                              time_scaled |-> timeLost]]
  <1>1. (samples' = <<>> /\ readFailed') \/ samples' = all
    BY <1>0 DEF ReadGroup
  <1>2. all \in [1..Len(group) -> Sample]
    BY <1>0 DEF Member, Sample, PerfInv, PerfTypeOK
  <1>3. \A i \in 1..Len(group) :
            all[i].ev = events[i] /\ all[i].value = group[i].count /\ all[i].time_scaled = timeLost
    BY DEF all
  <1>. HIDE DEF all
  <1>4. all \in Seq(Sample) /\ Len(all) = Len(group) /\ DOMAIN all = 1..Len(group)
    BY <1>0, <1>2, FunctionIsSeq
  <1>5. samples' \in Seq(Sample)
    BY <1>1, <1>4, EmptySeq
  <1>6. PerfInv'
    BY <1>0, <1>5 DEF PerfInv, PerfTypeOK, CountsFollow
  <1>7. SamplesTellTheirEvent'
    <2>. SUFFICES ASSUME samples' = all, NEW i \in 1..Len(group)
                  PROVE  /\ all[i].ev = group[i].ev /\ all[i].value <= truth[all[i].ev]
                         /\ ~all[i].time_scaled => all[i].value = truth[all[i].ev]
      BY <1>0, <1>1, <1>4 DEF SamplesTellTheirEvent
    <2>. QED
      BY <1>0, <1>3 DEF PerfInv, CountsFollow
  <1>. QED
    BY <1>6, <1>7

LEMMA ResetKeepsInv == PerfInv /\ Reset => PerfInv'
  <1>. SUFFICES ASSUME PerfInv, Reset PROVE PerfInv'
    OBVIOUS
  <1>0. /\ Len(group) \in Nat /\ DOMAIN group = 1..Len(group) /\ Len(events) = Len(group)
        /\ \A i \in 1..Len(group) : group[i] \in Member
        /\ perfPc = "reset" /\ perfPc' = "start"
        /\ UNCHANGED <<added, events, leaderOn, onPmu, timeLost, occurred, truth, available,
                       readFailed, samples>>
    BY ElementOfSeq DEF PerfInv, PerfTypeOK, Reset
  <1>. DEFINE zeroed == [i \in 1..Len(group) |-> [group[i] EXCEPT !.count = 0]]
  <1>1. group' = zeroed
    BY <1>0 DEF Reset
  <1>2. /\ zeroed \in [1..Len(group) -> Member]
        /\ \A i \in 1..Len(group) : zeroed[i].ev = group[i].ev /\ zeroed[i].count = 0
    BY <1>0, PerfAssumption DEF Member
  <1>. HIDE DEF zeroed
  <1>3. group' \in Seq(Member) /\ Len(group') = Len(group)
    BY <1>0, <1>1, <1>2, FunctionIsSeq
  <1>4. PerfTypeOK'
    BY <1>0, <1>3 DEF PerfInv, PerfTypeOK
  <1>5. CountsFollow'
    BY <1>0, <1>1, <1>2, <1>3 DEF PerfInv, CountsFollow
  <1>. QED
    BY <1>4, <1>5 DEF PerfInv

(* An event occurs: its members count it if the group is enabled and on the PMU. *)
LEMMA OccurKeepsInv == ASSUME PerfInv, NEW e \in Events, Occur(e) PROVE PerfInv'
  <1>0. /\ Len(group) \in Nat /\ DOMAIN group = 1..Len(group) /\ Len(events) = Len(group)
        /\ \A i \in 1..Len(group) : group[i] \in Member
        /\ occurred \in Counts /\ truth \in Counts /\ MaxOccur \in Nat
        /\ UNCHANGED <<perfPc, added, events, leaderOn, onPmu, timeLost, available, readFailed, samples>>
    BY ElementOfSeq, PerfAssumption DEF PerfInv, PerfTypeOK, Occur
  <1>. DEFINE counting == leaderOn /\ onPmu
              between == perfPc \in {"work", "stop"}
              counted == [i \in 1..Len(group) |-> IF group[i].ev = e
                                               THEN [group[i] EXCEPT !.count = @ + 1] ELSE group[i]]
  <1>1. /\ perfPc # "done" /\ occurred[e] < MaxOccur
        /\ occurred' = [occurred EXCEPT ![e] = @ + 1]
        /\ between => truth' = [truth EXCEPT ![e] = @ + 1]
        /\ ~between => truth' = truth
        /\ counting => group' = counted
        /\ ~counting => group' = group
    BY <1>0 DEF Occur
  <1>2. counting => between
    BY <1>1 DEF PerfInv, PerfTypeOK, CountsFollow
  <1>3. occurred' \in Counts
    BY <1>0, <1>1 DEF Counts
  <1>4. truth' \in Counts /\ \A f \in Events : truth'[f] <= occurred'[f]
    <2>1. \A f \in Events : truth[f] <= occurred[f]
      BY DEF PerfInv, CountsFollow
    <2>2. CASE between
      BY <1>0, <1>1, <2>1, <2>2 DEF Counts
    <2>3. CASE ~between
      BY <1>0, <1>1, <2>1, <2>3 DEF Counts
    <2>. QED
      BY <2>2, <2>3
  <1>. HIDE DEF counting, between
  <1>5. CASE ~counting
    <2>1. PerfTypeOK'
      BY <1>0, <1>1, <1>3, <1>4, <1>5 DEF PerfInv, PerfTypeOK
    <2>2. ASSUME perfPc \in {"work", "stop", "read"}, NEW i \in 1..Len(group)
          PROVE  /\ group[i].count <= truth'[group[i].ev]
                 /\ ~timeLost => group[i].count = truth'[group[i].ev]
      <3>1. /\ group[i].count <= truth[group[i].ev] /\ group[i].count \in Nat /\ group[i].ev \in Events
            /\ ~timeLost => group[i].count = truth[group[i].ev]
        BY <1>0, <2>2 DEF PerfInv, CountsFollow, Member
      <3>2. CASE between
        <4>1. timeLost /\ truth' = [truth EXCEPT ![e] = @ + 1]
          BY <1>1, <1>5, <3>2 DEF PerfInv, PerfTypeOK, CountsFollow, counting, between
        <4>2. truth[group[i].ev] <= truth'[group[i].ev] /\ truth[group[i].ev] \in Nat
              /\ truth'[group[i].ev] \in Nat
          BY <1>0, <3>1, <4>1 DEF Counts
        <4>. QED
          BY <3>1, <4>1, <4>2
      <3>3. CASE ~between
        BY <1>1, <3>1, <3>3
      <3>. QED
        BY <3>2, <3>3
    <2>3. perfPc \in {"add", "reset", "start"} => \A f \in Events : truth'[f] = 0
      BY <1>1 DEF PerfInv, CountsFollow, between
    <2>4. CountsFollow'
      BY <1>0, <1>1, <1>4, <1>5, <2>2, <2>3 DEF PerfInv, CountsFollow
    <2>. QED
      BY <2>1, <2>4 DEF PerfInv
  <1>6. CASE counting
    <2>1. between /\ group' = counted /\ truth' = [truth EXCEPT ![e] = @ + 1]
      BY <1>1, <1>2, <1>6
    <2>2. ASSUME NEW i \in 1..Len(group)
          PROVE  /\ counted[i] \in Member /\ counted[i].ev = group[i].ev
                 /\ counted[i].count <= truth'[counted[i].ev]
                 /\ ~timeLost => counted[i].count = truth'[counted[i].ev]
      <3>1. /\ group[i] \in Member /\ group[i].count <= truth[group[i].ev]
            /\ ~timeLost => group[i].count = truth[group[i].ev]
        BY <1>0, <2>1 DEF PerfInv, CountsFollow, between
      <3>2. truth[e] < MaxOccur
        BY <1>0, <1>1 DEF PerfInv, CountsFollow, Counts
      <3>3. CASE group[i].ev = e
        <4>1. counted[i] = [group[i] EXCEPT !.count = @ + 1]
          BY <3>3
        <4>2. group[i].count \in Nat /\ truth[e] \in Nat /\ truth'[e] = truth[e] + 1
          BY <1>0, <2>1, <3>1 DEF Member, Counts
        <4>. HIDE DEF counted
        <4>3. counted[i].ev = e /\ counted[i].count = group[i].count + 1
          BY <3>1, <3>3, <4>1 DEF Member
        <4>4. group[i].count + 1 \in 0..MaxOccur
          BY <1>0, <3>1, <3>2, <3>3, <4>2
        <4>5. counted[i] \in Member
          BY <3>1, <4>1, <4>4 DEF Member
        <4>. QED
          BY <3>1, <3>3, <4>2, <4>3, <4>5
      <3>4. CASE group[i].ev # e
        <4>1. counted[i] = group[i]
          BY <3>4
        <4>2. truth'[group[i].ev] = truth[group[i].ev]
          BY <1>0, <2>1, <3>1, <3>4 DEF Member, Counts
        <4>. QED
          BY <3>1, <4>1, <4>2
      <3>. QED
        BY <3>3, <3>4
    <2>3. counted \in [1..Len(group) -> Member]
      BY <2>2
    <2>. HIDE DEF counted
    <2>4. group' \in Seq(Member) /\ Len(group') = Len(group)
      BY <1>0, <2>1, <2>3, FunctionIsSeq
    <2>5. PerfTypeOK'
      BY <1>0, <1>3, <1>4, <2>4 DEF PerfInv, PerfTypeOK
    <2>6. CountsFollow'
      BY <1>0, <1>4, <2>1, <2>2, <2>4 DEF PerfInv, CountsFollow, between
    <2>. QED
      BY <2>5, <2>6 DEF PerfInv
  <1>. QED
    BY <1>5, <1>6

LEMMA PerfNextInv ==
    PerfInv /\ SamplesTellTheirEvent /\ [PerfNext]_perfVars => PerfInv' /\ SamplesTellTheirEvent'
  <1>. SUFFICES ASSUME PerfInv, SamplesTellTheirEvent, [PerfNext]_perfVars
                PROVE  PerfInv' /\ SamplesTellTheirEvent'
    OBVIOUS
  <1>1. CASE UNCHANGED perfVars
    BY <1>1 DEF perfVars, PerfInv, PerfTypeOK, CountsFollow, SamplesTellTheirEvent
  <1>2. CASE ReadGroup
    BY <1>2, ReadKeepsInv
  <1>3. CASE ~ReadGroup /\ ~UNCHANGED perfVars
    <2>1. PerfInv'
      BY <1>3, AddKeepsInv, RowKeepsInv, ResetKeepsInv, OccurKeepsInv DEF PerfNext
    <2>2. perfPc' = "done" => ~available'
      BY <1>3 DEF PerfNext, Add, Configured, Reset, StartGroup, WorkDone, StopGroup, Rotate, Occur,
                  PerfInv, PerfTypeOK, CountsFollow
    <2>. QED
      BY <2>1, <2>2 DEF SamplesTellTheirEvent
  <1>. QED
    BY <1>1, <1>2, <1>3

(* The types of a counter row hold for any list of events. *)
THEOREM CountersAreTyped == PerfSpec => []PerfTypeOK
  <1>1. PerfInv => PerfTypeOK
    BY DEF PerfInv
  <1>. QED
    BY <1>1, PerfInitInv, PerfNextInv, PTL DEF PerfSpec

(* Whichever events the kernel refuses - the first, which would have led the      *)
(* group, included - and however often the group is rotated off the PMU: every *)
(* sample is of the event it names, and exact unless the row says otherwise.   *)
THEOREM SamplesAreTheirEvents == PerfSpec => []SamplesTellTheirEvent
  BY PerfInitInv, PerfNextInv, PTL DEF PerfSpec
-----------------------------------------------------------------------------
(* Sysfs: every number of a frame lies in the history of its own zone or CPU.  *)

FrameFollows ==
    /\ Sampling => /\ \A z \in ZoneIds : temperature[z] \in hadTemp[z]
                   /\ \A c \in Cpus : frequency[c] \in hadFreq[c]
                   /\ Len(temps_mc) <= Len(zones)
                   /\ \A i \in 1..Len(temps_mc) : temps_mc[i] \in hadTemp[zones[i]]
                   /\ Len(freqs_khz) <= NumCpus
                   /\ \A i \in 1..Len(freqs_khz) : freqs_khz[i] \in hadFreq[i - 1]
    /\ sysPc = "freqs" => Len(temps_mc) = Len(zones)

SysInv == SysTypeOK /\ FrameFollows /\ DrawnFromItsSource

(* What the sequences of a typed state are made of. *)
LEMMA SysTypes ==
    SysTypeOK => /\ Len(zones) \in Nat /\ DOMAIN zones = 1..Len(zones)
                 /\ Len(temps_mc) \in Nat /\ DOMAIN temps_mc = 1..Len(temps_mc)
                 /\ Len(freqs_khz) \in Nat /\ DOMAIN freqs_khz = 1..Len(freqs_khz)
                 /\ \A i \in 1..Len(zones) : zones[i] \in withTemp /\ zones[i] \in ZoneIds
                 /\ \A i \in 1..Len(temps_mc) : temps_mc[i] \in TempValues
                 /\ \A i \in 1..Len(freqs_khz) : freqs_khz[i] \in FreqValues
                 /\ NumCpus \in Nat
  <1>. SUFFICES ASSUME SysTypeOK
                PROVE  /\ Len(zones) \in Nat /\ DOMAIN zones = 1..Len(zones)
                       /\ Len(temps_mc) \in Nat /\ DOMAIN temps_mc = 1..Len(temps_mc)
                       /\ Len(freqs_khz) \in Nat /\ DOMAIN freqs_khz = 1..Len(freqs_khz)
                       /\ \A i \in 1..Len(zones) : zones[i] \in withTemp /\ zones[i] \in ZoneIds
                       /\ \A i \in 1..Len(temps_mc) : temps_mc[i] \in TempValues
                       /\ \A i \in 1..Len(freqs_khz) : freqs_khz[i] \in FreqValues
                       /\ NumCpus \in Nat
    OBVIOUS
  <1>1. /\ zones \in Seq(withTemp) /\ withTemp \subseteq ZoneIds
        /\ temps_mc \in Seq(TempValues) /\ freqs_khz \in Seq(FreqValues)
    BY DEF SysTypeOK
  <1>2. \A i \in 1..Len(zones) : zones[i] \in withTemp /\ zones[i] \in ZoneIds
    BY <1>1, ElementOfSeq
  <1>3. \A i \in 1..Len(temps_mc) : temps_mc[i] \in TempValues
    BY <1>1, ElementOfSeq
  <1>4. \A i \in 1..Len(freqs_khz) : freqs_khz[i] \in FreqValues
    BY <1>1, ElementOfSeq
  <1>5. NumCpus \in Nat
    BY SysfsAssumption
  <1>. QED
    BY <1>1, <1>2, <1>3, <1>4, <1>5

LEMMA SysInitInv == SysInit => SysInv
  <1>. SUFFICES ASSUME SysInit PROVE SysInv
    OBVIOUS
  <1>1. /\ zones \in Seq(withTemp) /\ temps_mc \in Seq(TempValues) /\ freqs_khz \in Seq(FreqValues)
    BY EmptySeq DEF SysInit
  <1>. QED
    BY <1>1 DEF SysInit, SysInv, SysTypeOK, FrameFollows, Sampling, DrawnFromItsSource

(* The directory is read before any frame is begun. *)
LEMMA ListingKeepsInv == SysInv /\ (ReadDir \/ CloseDir) => SysInv'
  <1>. SUFFICES ASSUME SysInv, ReadDir \/ CloseDir PROVE SysInv'
    OBVIOUS
  <1>1. zones' \in Seq(withTemp)
    <2>1. CASE ReadDir
      <3>1. PICK z \in withTemp \ ToSet(zones) : zones' = Append(zones, z)
        BY <2>1 DEF ReadDir
      <3>. QED
        BY <3>1, AppendProperties DEF SysInv, SysTypeOK
    <2>2. CASE CloseDir
      <3>1. ToSet(zones) \subseteq withTemp /\ DOMAIN zones = 1..Len(zones) /\ Len(zones) \in Nat
        BY SysTypes DEF SysInv, ToSet
      <3>2. zones' \in [1..Len(zones) -> withTemp]
        BY <2>2, <3>1 DEF CloseDir
      <3>. QED
        BY <3>1, <3>2, FunctionIsSeq
    <2>. QED
      BY <2>1, <2>2
  <1>2. /\ UNCHANGED <<frameVars, drawnVars, sourceSysVars>> /\ sysPc' \in {"list", "frame"}
    BY DEF ReadDir, CloseDir
  <1>3. SysTypeOK'
    BY <1>1, <1>2 DEF SysInv, SysTypeOK, frameVars, drawnVars, sourceSysVars
  <1>. QED
    BY <1>2, <1>3 DEF SysInv, FrameFollows, Sampling, DrawnFromItsSource

LEMMA BeginKeepsInv == SysInv /\ BeginFrame => SysInv'
  <1>. SUFFICES ASSUME SysInv, BeginFrame PROVE SysInv'
    OBVIOUS
  <1>1. /\ temps_mc' \in Seq(TempValues) /\ Len(temps_mc') = 0
        /\ freqs_khz' \in Seq(FreqValues) /\ Len(freqs_khz') = 0
    BY EmptySeq DEF BeginFrame
  <1>2. /\ UNCHANGED <<zones, drawnVars, withTemp, temperature, frequency>> /\ sysPc' = "temps"
        /\ hadTemp' = [z \in ZoneIds |-> {temperature[z]}]
        /\ hadFreq' = [c \in Cpus |-> {frequency[c]}]
    BY DEF BeginFrame
  <1>3. SysTypeOK'
    BY <1>1, <1>2 DEF SysInv, SysTypeOK, drawnVars
  <1>4. FrameFollows'
    <2>1. /\ \A z \in ZoneIds : temperature'[z] \in hadTemp'[z]
          /\ \A c \in Cpus : frequency'[c] \in hadFreq'[c]
      BY <1>2
    <2>2. Len(temps_mc') <= Len(zones') /\ Len(freqs_khz') <= NumCpus
      BY <1>1, <1>2, SysTypes DEF SysInv
    <2>. QED
      BY <1>1, <1>2, <2>1, <2>2 DEF FrameFollows
  <1>. QED
    BY <1>2, <1>3, <1>4 DEF SysInv, DrawnFromItsSource

LEMMA SampleTempsKeepsInv == SysInv /\ SampleTemps => SysInv'
  <1>. SUFFICES ASSUME SysInv, SampleTemps PROVE SysInv'
    OBVIOUS
  <1>. DEFINE n == Len(temps_mc)
              t == temperature[zones[n + 1]]
  <1>1. /\ sysPc = "temps" /\ UNCHANGED <<zones, freqs_khz, drawnVars, sourceSysVars>>
        /\ n \in Nat /\ Len(zones) \in Nat /\ n <= Len(zones)
    BY SysTypes DEF SampleTemps, SysInv, FrameFollows, Sampling
  <1>2. CASE n < Len(zones) /\ temps_mc' = Append(temps_mc, t) /\ UNCHANGED sysPc
    <2>1. zones[n + 1] \in ZoneIds
      BY <1>1, <1>2, SysTypes DEF SysInv
    <2>2. t \in TempValues /\ t \in hadTemp[zones[n + 1]]
      BY <1>1, <2>1 DEF SysInv, SysTypeOK, FrameFollows, Sampling
    <2>. HIDE DEF t
    <2>3. /\ temps_mc' \in Seq(TempValues) /\ Len(temps_mc') = n + 1
          /\ temps_mc'[n + 1] = t /\ \A i \in 1..n : temps_mc'[i] = temps_mc[i]
      BY <1>2, <2>2, AppendProperties DEF SysInv, SysTypeOK
    <2>. HIDE DEF n
    <2>4. \A i \in 1..Len(temps_mc') : temps_mc'[i] \in hadTemp[zones[i]]
      <3>. SUFFICES ASSUME NEW i \in 1..n + 1 PROVE temps_mc'[i] \in hadTemp[zones[i]]
        BY <2>3
      <3>1. i \in 1..n \/ i = n + 1
        BY <1>1
      <3>. QED
        BY <1>1, <2>2, <2>3, <3>1 DEF SysInv, FrameFollows, Sampling, n
    <2>5. Len(temps_mc') <= Len(zones)
      BY <1>1, <1>2, <2>3
    <2>6. SysTypeOK'
      BY <1>1, <1>2, <2>3 DEF SysInv, SysTypeOK, drawnVars, sourceSysVars
    <2>7. FrameFollows'
      BY <1>1, <1>2, <2>4, <2>5 DEF SysInv, FrameFollows, Sampling, sourceSysVars
    <2>. QED
      BY <1>1, <1>2, <2>6, <2>7 DEF SysInv, DrawnFromItsSource
  <1>3. CASE n >= Len(zones) /\ sysPc' = "freqs" /\ UNCHANGED temps_mc
    <2>1. SysTypeOK'
      BY <1>1, <1>3 DEF SysInv, SysTypeOK, drawnVars, sourceSysVars
    <2>2. FrameFollows'
      BY <1>1, <1>3 DEF SysInv, FrameFollows, Sampling, sourceSysVars
    <2>. QED
      BY <1>3, <2>1, <2>2 DEF SysInv, DrawnFromItsSource
  <1>. QED
    BY <1>1, <1>2, <1>3 DEF SampleTemps

(* The last turn of the loop draws the frame. *)
LEMMA SampleFreqsKeepsInv == SysInv /\ SampleFreqs => SysInv'
  <1>. SUFFICES ASSUME SysInv, SampleFreqs PROVE SysInv'
    OBVIOUS
  <1>. DEFINE n == Len(freqs_khz)
              f == frequency[n]
  <1>1. /\ sysPc = "freqs" /\ UNCHANGED <<zones, temps_mc, sourceSysVars>>
        /\ n \in Nat /\ NumCpus \in Nat /\ n <= NumCpus /\ Len(temps_mc) = Len(zones)
    BY SysTypes DEF SampleFreqs, SysInv, FrameFollows, Sampling
  <1>2. CASE n < NumCpus /\ freqs_khz' = Append(freqs_khz, f) /\ UNCHANGED <<sysPc, drawnVars>>
    <2>1. n \in Cpus
      BY <1>1, <1>2 DEF Cpus
    <2>2. f \in FreqValues /\ f \in hadFreq[n]
      BY <1>1, <2>1 DEF SysInv, SysTypeOK, FrameFollows, Sampling
    <2>. HIDE DEF f
    <2>3. /\ freqs_khz' \in Seq(FreqValues) /\ Len(freqs_khz') = n + 1
          /\ freqs_khz'[n + 1] = f /\ \A i \in 1..n : freqs_khz'[i] = freqs_khz[i]
      BY <1>2, <2>2, AppendProperties DEF SysInv, SysTypeOK
    <2>. HIDE DEF n
    <2>4. \A i \in 1..Len(freqs_khz') : freqs_khz'[i] \in hadFreq[i - 1]
      <3>. SUFFICES ASSUME NEW i \in 1..n + 1 PROVE freqs_khz'[i] \in hadFreq[i - 1]
        BY <2>3
      <3>1. n \in Nat
        BY <1>1
      <3>2. i \in 1..n \/ i = n + 1
        BY <3>1
      <3>3. (n + 1) - 1 = n
        BY <3>1
      <3>. QED
        BY <1>1, <2>2, <2>3, <3>2, <3>3 DEF SysInv, FrameFollows, Sampling, n
    <2>5. Len(freqs_khz') <= NumCpus
      BY <1>1, <1>2, <2>3
    <2>6. SysTypeOK'
      BY <1>1, <1>2, <2>3 DEF SysInv, SysTypeOK, drawnVars, sourceSysVars
    <2>7. FrameFollows'
      BY <1>1, <1>2, <2>4, <2>5 DEF SysInv, FrameFollows, Sampling, sourceSysVars
    <2>. QED
      BY <1>1, <1>2, <2>6, <2>7 DEF SysInv, DrawnFromItsSource
  <1>3. CASE /\ n >= NumCpus /\ drawnTemps' = DrawTemps /\ drawnFreqs' = DrawFreqs
             /\ sysPc' = "drawn" /\ UNCHANGED freqs_khz
    <2>. DEFINE shown == {k \in DOMAIN zones \cap DOMAIN temps_mc : temps_mc[k] # INT32_MIN}
    <2>1. \A k \in shown : /\ zones[k] \in ZoneIds /\ temps_mc[k] \in Temps
                          /\ temps_mc[k] \in hadTemp[zones[k]]
      BY <1>1, SysTypes DEF SysInv, FrameFollows, Sampling, TempValues
    <2>2. \A i \in DOMAIN freqs_khz : /\ i - 1 \in Cpus /\ freqs_khz[i] \in FreqValues
                                      /\ freqs_khz[i] \in hadFreq[i - 1]
      BY <1>1, SysTypes DEF SysInv, FrameFollows, Sampling, Cpus
    <2>3. /\ drawnTemps' \subseteq ZoneIds \X Temps
          /\ \A d \in drawnTemps' : d[2] \in hadTemp[d[1]]
      BY <1>3, <2>1 DEF DrawTemps
    <2>4. /\ drawnFreqs' \subseteq Cpus \X FreqValues
          /\ \A d \in drawnFreqs' : d[2] \in hadFreq[d[1]]
      BY <1>3, <2>2 DEF DrawFreqs
    <2>5. ASSUME NEW z \in ToSet(zones), INT32_MIN \notin hadTemp[z]
          PROVE  \E t \in Temps : <<z, t>> \in drawnTemps'
      <3>1. PICK i \in DOMAIN zones : zones[i] = z
        BY DEF ToSet
      <3>2. i \in DOMAIN temps_mc /\ temps_mc[i] \in hadTemp[z]
        BY <1>1, <3>1, SysTypes DEF SysInv, FrameFollows, Sampling
      <3>3. i \in shown
        BY <2>5, <3>1, <3>2
      <3>. QED
        BY <1>3, <2>1, <3>1, <3>3 DEF DrawTemps
    <2>6. SysTypeOK'
      BY <1>1, <1>3, <2>3, <2>4 DEF SysInv, SysTypeOK, sourceSysVars
    <2>7. DrawnFromItsSource'
      BY <1>1, <2>3, <2>4, <2>5 DEF DrawnFromItsSource, sourceSysVars
    <2>. QED
      BY <1>3, <2>6, <2>7 DEF SysInv, FrameFollows, Sampling
  <1>. QED
    BY <1>1, <1>2, <1>3 DEF SampleFreqs

(* A value that changes while a frame is sampled is added to its history. *)
LEMMA DeviceKeepsInv == SysInv /\ (ZoneChanges \/ CpuChanges) => SysInv'
  <1>. SUFFICES ASSUME SysInv, ZoneChanges \/ CpuChanges PROVE SysInv'
    OBVIOUS
  <1>1. CASE ZoneChanges
    <2>1. PICK z \in ZoneIds, t \in TempValues :
             /\ temperature' = [temperature EXCEPT ![z] = t]
             /\ hadTemp' = IF Sampling THEN [hadTemp EXCEPT ![z] = @ \cup {t}] ELSE hadTemp
             /\ UNCHANGED <<sysPc, zones, frameVars, drawnVars, withTemp, frequency, hadFreq>>
      BY <1>1 DEF ZoneChanges
    <2>2. SysTypeOK'
      BY <2>1 DEF SysInv, SysTypeOK, frameVars, drawnVars
    <2>3. \A y \in ZoneIds : hadTemp[y] \subseteq hadTemp'[y]
      BY <2>1 DEF SysInv, SysTypeOK
    <2>4. Sampling => \A y \in ZoneIds : temperature'[y] \in hadTemp'[y]
      BY <2>1 DEF SysInv, SysTypeOK, FrameFollows
    <2>5. FrameFollows'
      <3>1. UNCHANGED <<sysPc, zones, temps_mc, freqs_khz, frequency, hadFreq>>
        BY <2>1 DEF frameVars
      <3>2. ASSUME Sampling
            PROVE  \A i \in 1..Len(temps_mc) : temps_mc[i] \in hadTemp'[zones[i]]
        <4>. SUFFICES ASSUME NEW i \in 1..Len(temps_mc) PROVE temps_mc[i] \in hadTemp'[zones[i]]
          OBVIOUS
        <4>1. Len(temps_mc) \in Nat /\ Len(zones) \in Nat /\ Len(temps_mc) <= Len(zones)
          BY <3>2, SysTypes DEF SysInv, FrameFollows
        <4>2. i \in 1..Len(zones)
          BY <4>1
        <4>3. zones[i] \in ZoneIds
          BY <4>2, SysTypes DEF SysInv
        <4>. QED
          BY <2>3, <3>2, <4>3 DEF SysInv, FrameFollows
      <3>. QED
        BY <2>4, <3>1, <3>2 DEF SysInv, FrameFollows, Sampling
    <2>6. DrawnFromItsSource'
      BY <2>1 DEF SysInv, DrawnFromItsSource, Sampling, frameVars, drawnVars
    <2>. QED
      BY <2>2, <2>5, <2>6 DEF SysInv
  <1>2. CASE CpuChanges
    <2>1. PICK c \in Cpus, f \in FreqValues :
             /\ frequency' = [frequency EXCEPT ![c] = f]
             /\ hadFreq' = IF Sampling THEN [hadFreq EXCEPT ![c] = @ \cup {f}] ELSE hadFreq
             /\ UNCHANGED <<sysPc, zones, frameVars, drawnVars, withTemp, temperature, hadTemp>>
      BY <1>2 DEF CpuChanges
    <2>2. SysTypeOK'
      BY <2>1 DEF SysInv, SysTypeOK, frameVars, drawnVars
    <2>3. \A y \in Cpus : hadFreq[y] \subseteq hadFreq'[y]
      BY <2>1 DEF SysInv, SysTypeOK
    <2>4. Sampling => \A y \in Cpus : frequency'[y] \in hadFreq'[y]
      BY <2>1 DEF SysInv, SysTypeOK, FrameFollows
    <2>5. \A i \in 1..Len(freqs_khz) : Len(freqs_khz) <= NumCpus => i - 1 \in Cpus
      BY SysTypes DEF SysInv, Cpus
    <2>6. FrameFollows'
      BY <2>1, <2>3, <2>4, <2>5 DEF SysInv, FrameFollows, Sampling, frameVars
    <2>7. DrawnFromItsSource'
      BY <2>1 DEF SysInv, DrawnFromItsSource, Sampling, frameVars, drawnVars
    <2>. QED
      BY <2>2, <2>6, <2>7 DEF SysInv
  <1>. QED
    BY <1>1, <1>2

LEMMA SysNextInv == SysInv /\ [SysNext]_sysVars => SysInv'
  <1>. SUFFICES ASSUME SysInv, [SysNext]_sysVars PROVE SysInv'
    OBVIOUS
  <1>1. CASE UNCHANGED sysVars
    BY <1>1 DEF sysVars, frameVars, drawnVars, sourceSysVars, SysInv, SysTypeOK, FrameFollows,
                Sampling, DrawnFromItsSource
  <1>. QED
    BY <1>1, ListingKeepsInv, BeginKeepsInv, SampleTempsKeepsInv, SampleFreqsKeepsInv,
       DeviceKeepsInv DEF SysNext

(* Positions are enough: for any number of zones and CPUs, whatever order the    *)
(* directory has and whichever reads fail, a number the dashboard draws beside *)
(* a name was read from that zone or CPU in that frame.                      *)
THEOREM NumbersHaveTheirNames == SysSpec => [](SysTypeOK /\ DrawnFromItsSource)
  <1>1. SysInv => SysTypeOK /\ DrawnFromItsSource
    BY DEF SysInv
  <1>. QED
    BY <1>1, SysInitInv, SysNextInv, PTL DEF SysSpec

-----------------------------------------------------------------------------
(* Benchmarks: a behaviour of the whole is a behaviour of each part, which      *)
(* stands still while another one is followed.                              *)

(* A step of the whole is a step of each part or leaves it alone.           *)
LEMMA PartsOfTheRow ==
    [Next]_vars => /\ [PlaceNext]_placeVars /\ [PerfNext]_perfVars /\ [ChainNext]_chainVars
                   /\ [GateNext]_gateVars /\ [SusNext]_susVars /\ [SysNext]_sysVars
                   /\ part' = part
  <1>1. Next => /\ [PlaceNext]_placeVars /\ [PerfNext]_perfVars /\ [ChainNext]_chainVars
                /\ [GateNext]_gateVars /\ [SusNext]_susVars /\ [SysNext]_sysVars
                /\ part' = part
    BY Zenon DEF Next
  <1>2. UNCHANGED vars => UNCHANGED <<part, placeVars, perfVars, chainVars, gateVars, susVars, sysVars>>
    BY DEF vars
  <1>. QED
    BY <1>1, <1>2

(* Every part keeps its own promises in the composition: Spec implements the     *)
(* specification of each.                                                   *)
THEOREM EveryPartRuns ==
    Spec => PlaceSpec /\ PerfSpec /\ ChainSpec /\ GateSpec /\ SusSpec /\ SysSpec
  <1>1. Init => PlaceInit /\ PerfInit /\ ChainInit /\ GateInit /\ SusInit /\ SysInit
    BY DEF Init
  <1>. QED
    BY <1>1, PartsOfTheRow, PTL
       DEF Spec, PlaceSpec, PerfSpec, ChainSpec, GateSpec, SusSpec, SysSpec

(* The types of all parts together. *)
THEOREM BenchmarksAreTyped == Spec => []TypeOK
  <1>1. Init => part \in Parts
    BY DEF Init
  <1>2. part \in Parts /\ [Next]_vars => (part \in Parts)'
    BY PartsOfTheRow
  <1>3. Spec => [](part \in Parts)
    BY <1>1, <1>2, PTL DEF Spec
  <1>4. SusSpec => []SusTypeOK
    BY SusInitInv, SusNextInv, PTL DEF SusSpec
  <1>5. GateSpec => []GateTypeOK
    <2>1. GateTypes => GateTypeOK
      BY DEF GateTypes
    <2>. QED
      BY <2>1, GateInitTypes, GateNextTypes, PTL DEF GateSpec
  <1>6. SysSpec => []SysTypeOK
    BY NumbersHaveTheirNames, PTL
  <1>. QED
    BY <1>3, <1>4, <1>5, <1>6, EveryPartRuns, PlacementIsTyped, CountersAreTyped, ChainTypeCorrect,
       PTL DEF TypeOK

(* What a benchmark job's report is worth: in every behaviour of the whole the    *)
(* clusters are the machine's, rows tell where they ran, samples and medians    *)
(* are of what they name, no kernel is killed for its instructions, the chase  *)
(* visits its whole buffer, chunks stay bounded and names go with numbers.   *)
THEOREM ReportsAreTrue ==
    Spec => [](/\ ClustersAreIslands /\ RowsTellWhere /\ SamplesTellTheirEvent
               /\ ChainVisitsEverySlot /\ NoIllegalInstruction /\ PoolIsMeasured
               /\ ChunkBounded /\ DrawnFromItsSource)
  BY EveryPartRuns, ClustersAreTheIslands, RowsSayWhereTheyRan, SamplesAreTheirEvents,
     ChaseVisitsEverySlot, GatedKernelsRun, MediansAreMeasured, ChunksStayInBounds,
     NumbersHaveTheirNames, PTL
=============================================================================
