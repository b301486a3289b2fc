-------------------------- MODULE PlacementProofs --------------------------
(***************************************************************************)
(* Proofs about Clusters and PerCluster, for any number of CPUs, frequencies, *)
(* benchmarks, hotplugged cores and jobs.                                    *)
(*                                                                          *)
(* While detect_clusters runs, the vector holds exactly the islands that lie  *)
(* behind the scan: those of the buckets below the key, and of the bucket of   *)
(* the key those that end before the island being scanned.                   *)
(***************************************************************************)
EXTENDS PerCluster, FunctionTheorems, FiniteSetTheorems, SequenceTheorems, TLAPS

Found == {out[i] : i \in DOMAIN out}

Distinct(s) == \A i, j \in DOMAIN s : s[i] = s[j] => i = j

Below == {k \in Islands : k.max_freq_khz < key}
Here == {k \in Islands : k.max_freq_khz = key}

(* The island being scanned: CPUs of the bucket, and none of it just before them. *)
Scanning == /\ start \in CPUs /\ prev \in CPUs /\ start <= prev
            /\ key \in Freqs \cup {Unreadable}
            /\ \A c \in start..prev : freq[c] = key
            /\ start > 0 => freq[start - 1] # key

FoundSoFar ==
    /\ at = "read" => Len(out) = 0 /\ key = -1
    /\ at # "read" => next = N
    /\ at = "bucket" => Found = Below \cup Here
    /\ at = "scan" => Scanning /\ Found = Below \cup {k \in Here : k.max_id < start}
    /\ at \in {"sort", "done"} => Found = Islands
    /\ at = "done" => Ascending(out)
    /\ Distinct(out)

ClusterInv == ClusterTypeOK /\ FoundSoFar
(* The vector holds clusters.                                               *)
LEMMA ElementOfOut ==
    ClusterTypeOK => /\ Len(out) \in Nat /\ DOMAIN out = 1..Len(out)
                     /\ \A i \in DOMAIN out : out[i] \in CpuCluster
  BY DEF ClusterTypeOK

(* A cluster is its three fields.                                           *)
LEMMA SameCluster ==
    ASSUME NEW k \in CpuCluster, NEW l \in CpuCluster,
           k.min_id = l.min_id, k.max_id = l.max_id, k.max_freq_khz = l.max_freq_khz
    PROVE  k = l
  BY DEF CpuCluster

(* What is known of an island, CPUs being numbers. *)
LEMMA IslandFields ==
    ASSUME ClusterTypeOK, next = N, NEW k \in Islands
    PROVE  /\ k \in CpuCluster /\ k.min_id \in CPUs /\ k.max_id \in CPUs /\ k.min_id <= k.max_id
           /\ k.min_id \in Int /\ k.max_id \in Int
           /\ k.max_freq_khz \in Freqs \cup {Unreadable} /\ k.max_freq_khz \in Nat
           /\ freq[k.max_id] = k.max_freq_khz /\ k.max_freq_khz \in Keys
  <1>1. /\ k \in CpuCluster /\ k.min_id \in CPUs /\ k.max_id \in CPUs
        /\ k.max_freq_khz \in Freqs \cup {Unreadable}
    BY DEF Islands, CpuCluster
  <1>2. /\ k.min_id <= k.max_id
        /\ \A c \in k.min_id..k.max_id : freq[c] = k.max_freq_khz
    BY DEF Islands
  <1>3. k.min_id \in Int /\ k.max_id \in Int
    BY <1>1 DEF CPUs
  <1>4. freq[k.max_id] = k.max_freq_khz
    BY <1>2, <1>3
  <1>5. DOMAIN freq = CPUs
    BY DEF ClusterTypeOK, CPUs
  <1>6. k.max_freq_khz \in Nat
    <2>1. Freqs \subseteq Nat /\ Unreadable \in Nat
      BY ClusterAssumption DEF Unreadable
    <2>. QED
      BY <1>1, <2>1, Zenon
  <1>. QED
    BY <1>1, <1>2, <1>3, <1>4, <1>5, <1>6 DEF Keys

(* Two islands with the same last CPU are one. *)
LEMMA IslandOfItsEnd ==
    ASSUME ClusterTypeOK, next = N, NEW k \in Islands, NEW l \in Islands, k.max_id = l.max_id
    PROVE  k = l
  <1>. DEFINE m == k.max_freq_khz
              a == k.min_id
              b == l.min_id
              e == k.max_id
  <1>1. k.max_freq_khz = l.max_freq_khz
    BY IslandFields
  <1>2. a \in Int /\ b \in Int /\ e \in Int /\ a <= e /\ b <= e /\ a >= 0 /\ b >= 0
    BY IslandFields DEF CPUs
  <1>3. /\ \A c \in a..e : freq[c] = m
        /\ \A c \in b..e : freq[c] = m
        /\ a > 0 => freq[a - 1] # m
        /\ b > 0 => freq[b - 1] # m
    BY <1>1 DEF Islands
  <1>. HIDE DEF m, a, b, e
  <1>4. ~(a < b)
    BY <1>2, <1>3
  <1>5. ~(b < a)
    BY <1>2, <1>3
  <1>6. a = b
    BY <1>2, <1>4, <1>5
  <1>. QED
    BY <1>1, <1>6, SameCluster, IslandFields DEF a, b

(* An island that no CPU of its bucket continues is an island of the machine,   *)
(* and the only one that ends in the part scanned.                           *)
LEMMA CutIsland ==
    ASSUME ClusterTypeOK, next = N, Scanning, prev < N - 1 => freq[prev + 1] # key
    PROVE  /\ Island \in CpuCluster /\ Island \in Here
           /\ \A k \in Here : start <= k.max_id /\ k.max_id <= prev => k = Island
  <1>1. Island \in CpuCluster
    BY DEF Scanning, Island, CpuCluster
  <1>2. /\ Island.min_id = start /\ Island.max_id = prev /\ Island.max_freq_khz = key
    BY DEF Island
  <1>3. Island \in Islands
    BY <1>1, <1>2 DEF Islands, Scanning
  <1>4. ASSUME NEW k \in Here, start <= k.max_id, k.max_id <= prev PROVE k = Island
    <2>. DEFINE e == k.max_id
    <2>1. k \in Islands /\ k.max_freq_khz = key
      BY DEF Here
    <2>2. /\ e \in Int /\ prev \in Int /\ start \in Int /\ N \in Nat
          /\ e <= prev /\ start <= e /\ prev <= N - 1
      BY <1>4, <2>1, IslandFields, ClusterAssumption DEF Scanning, CPUs
    <2>3. e < N - 1 => freq[e + 1] # key
      BY <2>1 DEF Islands
    <2>4. \A c \in start..prev : freq[c] = key
      BY DEF Scanning
    <2>. HIDE DEF e
    <2>5. e = prev
      BY <2>2, <2>3, <2>4
    <2>. QED
      BY <1>2, <1>3, <2>1, <2>5, IslandOfItsEnd DEF e
  <1>. QED
    BY <1>1, <1>2, <1>3, <1>4 DEF Here

LEMMA ClusterInitInv == ClusterInit => ClusterInv
  <1>. SUFFICES ASSUME ClusterInit PROVE ClusterInv
    OBVIOUS
  <1>1. out \in Seq(CpuCluster) /\ Len(out) = 0 /\ DOMAIN out = {}
    BY EmptySeq DEF ClusterInit
  <1>2. freq \in [0..next - 1 -> Freqs \cup {Unreadable}]
    BY DEF ClusterInit
  <1>3. 0 \in 0..N
    BY ClusterAssumption
  <1>4. ClusterTypeOK
    BY <1>1, <1>2, <1>3 DEF ClusterInit, ClusterTypeOK
  <1>5. FoundSoFar
    BY <1>1 DEF ClusterInit, FoundSoFar, Distinct
  <1>. QED
    BY <1>4, <1>5 DEF ClusterInv

LEMMA ReadingKeepsInv == ClusterInv /\ (ReadMaxFreq \/ AllRead) => ClusterInv'
  <1>. SUFFICES ASSUME ClusterInv, ReadMaxFreq \/ AllRead PROVE ClusterInv'
    OBVIOUS
  <1>. USE DEF ClusterInv
  <1>1. CASE ReadMaxFreq
    <2>1. next \in Nat /\ next < N /\ N \in Nat /\ next' = next + 1
      BY <1>1, ClusterAssumption DEF ReadMaxFreq, ClusterTypeOK
    <2>2. PICK f \in {cpufreq[next], Unreadable} :
             freq' = [c \in 0..next |-> IF c = next THEN f ELSE freq[c]]
      BY <1>1 DEF ReadMaxFreq
    <2>3. f \in Freqs \cup {Unreadable}
      BY <2>1 DEF ClusterTypeOK, CPUs
    <2>4. \A c \in 0..next : c # next => c \in 0..next - 1
      BY <2>1
    <2>5. freq' \in [0..next -> Freqs \cup {Unreadable}]
      BY <2>2, <2>3, <2>4 DEF ClusterTypeOK
    <2>6. next + 1 \in 0..N /\ (next + 1) - 1 = next
      BY <2>1
    <2>7. UNCHANGED <<cpufreq, at, key, start, prev, out>> /\ at = "read"
      BY <1>1 DEF ReadMaxFreq
    <2>8. ClusterTypeOK'
      BY <2>1, <2>5, <2>6, <2>7 DEF ClusterTypeOK
    <2>9. FoundSoFar'
      BY <2>7 DEF FoundSoFar, Distinct
    <2>. QED
      BY <2>8, <2>9
  <1>2. CASE AllRead
    <2>1. /\ UNCHANGED <<cpufreq, next, freq, key, start, prev, out>> /\ next = N
          /\ at' = "bucket" /\ Len(out) = 0 /\ key = -1
      BY <1>2 DEF AllRead, FoundSoFar
    <2>2. ClusterTypeOK'
      BY <2>1 DEF ClusterTypeOK
    <2>3. Found = {} /\ Below = {} /\ Here = {}
      BY <2>1, ElementOfOut, IslandFields DEF Found, Below, Here
    <2>4. Found' = Found /\ Below' = Below /\ Here' = Here
      BY <2>1 DEF Found, Below, Here, Islands
    <2>5. Distinct(out)'
      BY <2>1 DEF FoundSoFar
    <2>. QED
      BY <2>1, <2>2, <2>3, <2>4, <2>5 DEF FoundSoFar
  <1>. QED
    BY <1>1, <1>2
(* The next bucket starts behind everything found, at its least CPU. *)
LEMMA NextBucketKeepsInv == ClusterInv /\ NextBucket => ClusterInv'
  <1>. SUFFICES ASSUME ClusterInv, NextBucket PROVE ClusterInv'
    OBVIOUS
  <1>1. /\ at = "bucket" /\ at' = "scan" /\ UNCHANGED <<cpufreq, next, freq, out>> /\ next = N
        /\ ClusterTypeOK /\ Found = Below \cup Here /\ Distinct(out)
    BY DEF NextBucket, ClusterInv, FoundSoFar
  <1>2. /\ key' \in Keys /\ key' > key /\ \A l \in Keys : l > key => key' <= l
    BY DEF NextBucket, First
  <1>3. /\ start' \in Bucket(key') /\ prev' = start' /\ \A d \in Bucket(key') : start' <= d
    BY DEF NextBucket, First
  <1>. DEFINE m == key'
              c == start'
  <1>4. DOMAIN freq = CPUs /\ \A d \in CPUs : freq[d] \in Freqs \cup {Unreadable}
    BY <1>1 DEF ClusterTypeOK, CPUs
  <1>5. /\ m \in Freqs \cup {Unreadable} /\ m \in Nat /\ key \in Int
        /\ \A l \in Keys : l \in Nat
    <2>1. Freqs \subseteq Nat /\ Unreadable \in Nat
      BY ClusterAssumption DEF Unreadable
    <2>2. Freqs \cup {Unreadable, -1} \subseteq Int
      BY <2>1
    <2>. QED
      BY <1>1, <1>2, <1>4, <2>1, <2>2 DEF Keys, ClusterTypeOK
  <1>6. /\ c \in CPUs /\ freq[c] = m /\ \A d \in CPUs : freq[d] = m => c <= d
    BY <1>3, <1>4 DEF Bucket
  <1>7. c \in Int /\ c >= 0 /\ c <= N - 1 /\ N \in Nat
    BY <1>6, ClusterAssumption DEF CPUs
  <1>8. ClusterTypeOK'
    <2>1. CPUs \subseteq 0..N
      BY ClusterAssumption DEF CPUs
    <2>. QED
      BY <1>1, <1>3, <1>5, <1>6, <2>1 DEF ClusterTypeOK
  <1>9. Scanning'
    <2>1. c > 0 => freq[c - 1] # m
      <3>1. \A d \in CPUs : d > 0 => d - 1 \in CPUs /\ ~(d <= d - 1)
        BY ClusterAssumption DEF CPUs
      <3>. QED
        BY <1>6, <3>1
    <2>2. \A d \in c..c : freq[d] = m
      BY <1>6, <1>7
    <2>3. c <= c
      BY <1>7
    <2>. QED
      BY <1>1, <1>3, <1>5, <1>6, <2>1, <2>2, <2>3 DEF Scanning
  <1>10. Found' = Below' \cup {k \in Here' : k.max_id < c}
    <2>1. Found' = Found /\ Islands' = Islands
      BY <1>1 DEF Found, Islands
    <2>2. ASSUME NEW k \in Islands
          PROVE  k.max_freq_khz <= key <=>
                   k.max_freq_khz < m \/ (k.max_freq_khz = m /\ k.max_id < c)
      <3>1. /\ k.max_freq_khz \in Nat /\ k.max_freq_khz \in Keys /\ k.max_id \in CPUs
            /\ freq[k.max_id] = k.max_freq_khz /\ k.max_id \in Int
        BY <1>1, IslandFields
      <3>2. k.max_freq_khz = m => ~(k.max_id < c)
        BY <1>6, <1>7, <3>1
      <3>3. k.max_freq_khz <= key => k.max_freq_khz < m
        BY <1>2, <1>5, <3>1
      <3>4. k.max_freq_khz < m => k.max_freq_khz <= key
        BY <1>2, <1>5, <3>1
      <3>. QED
        BY <3>2, <3>3, <3>4
    <2>3. \A k \in Islands : k.max_freq_khz <= key <=> k.max_freq_khz < key \/ k.max_freq_khz = key
      BY <1>1, <1>5, IslandFields
    <2>4. Found = {k \in Islands : k.max_freq_khz <= key}
      BY <1>1, <2>3 DEF Below, Here
    <2>5. Below' = {k \in Islands : k.max_freq_khz < m} /\ Here' = {k \in Islands : k.max_freq_khz = m}
      BY <2>1 DEF Below, Here
    <2>. QED
      BY <2>1, <2>2, <2>4, <2>5
  <1>11. Distinct(out)'
    BY <1>1
  <1>. QED
    BY <1>1, <1>8, <1>9, <1>10, <1>11 DEF ClusterInv, FoundSoFar

LEMMA NoBucketLeftKeepsInv == ClusterInv /\ NoBucketLeft => ClusterInv'
  <1>. SUFFICES ASSUME ClusterInv, NoBucketLeft PROVE ClusterInv'
    OBVIOUS
  <1>1. /\ at = "bucket" /\ at' = "sort" /\ UNCHANGED <<cpufreq, next, freq, key, start, prev, out>>
        /\ next = N /\ \A k \in Keys : k <= key
        /\ ClusterTypeOK /\ Found = Below \cup Here /\ Distinct(out)
    BY DEF NoBucketLeft, ClusterInv, FoundSoFar
  <1>2. ClusterTypeOK'
    BY <1>1 DEF ClusterTypeOK
  <1>3. key \in Int
    <2>1. Freqs \cup {Unreadable, -1} \subseteq Int
      BY ClusterAssumption DEF Unreadable
    <2>. QED
      BY <1>1, <2>1 DEF ClusterTypeOK
  <1>4. \A k \in Islands : k.max_freq_khz < key \/ k.max_freq_khz = key
    BY <1>1, <1>3, IslandFields
  <1>5. Found = Islands
    BY <1>1, <1>4 DEF Below, Here
  <1>6. Found' = Islands' /\ Distinct(out)'
    BY <1>1, <1>5 DEF Found, Islands
  <1>. QED
    BY <1>1, <1>2, <1>6 DEF ClusterInv, FoundSoFar

(* Cutting an island off appends one that was not there. *)
LEMMA AppendIsland ==
    ASSUME ClusterTypeOK, next = N, Scanning, prev < N - 1 => freq[prev + 1] # key,
           Found = Below \cup {k \in Here : k.max_id < start}, Distinct(out),
           out' = Append(out, Island)
    PROVE  /\ out' \in Seq(CpuCluster) /\ Distinct(out)'
           /\ Found' = Below \cup {k \in Here : k.max_id <= prev}
  <1>. DEFINE n == Len(out)
  <1>1. out \in Seq(CpuCluster) /\ n \in Nat /\ DOMAIN out = 1..n
    BY ElementOfOut DEF ClusterTypeOK
  <1>2. Island \in CpuCluster /\ Island \in Here
    BY CutIsland
  <1>3. /\ out' \in Seq(CpuCluster) /\ Len(out') = n + 1
        /\ out'[n + 1] = Island /\ \A i \in 1..n : out'[i] = out[i]
    BY <1>1, <1>2, AppendProperties
  <1>4. DOMAIN out' = 1..n + 1
    BY <1>3
  <1>. HIDE DEF n
  <1>5. Island \notin Found
    <2>1. Island.max_freq_khz = key /\ Island.max_id = prev
      BY DEF Island
    <2>2. ~(prev < start) /\ ~(key < key)
      <3>1. start \in Int /\ prev \in Int /\ start <= prev
        BY DEF Scanning, CPUs
      <3>2. key \in Int
        <4>1. Freqs \cup {Unreadable} \subseteq Int
          BY ClusterAssumption DEF Unreadable
        <4>. QED
          BY <4>1 DEF Scanning
      <3>. QED
        BY <3>1, <3>2
    <2>. QED
      BY <2>1, <2>2 DEF Below
  <1>6. \A i \in 1..n + 1 : i \in 1..n \/ i = n + 1
    BY <1>1
  <1>7. 1..n \subseteq 1..n + 1 /\ n + 1 \in 1..n + 1
    BY <1>1
  <1>8. Found' = Found \cup {Island}
    BY <1>1, <1>3, <1>4, <1>6, <1>7 DEF Found
  <1>9. Distinct(out)'
    <2>1. \A i \in 1..n : out'[i] # Island
      BY <1>1, <1>3, <1>5 DEF Found
    <2>. QED
      BY <1>1, <1>3, <1>4, <1>6, <2>1 DEF Distinct
  <1>10. \A k \in Here : k.max_id <= prev <=> k.max_id < start \/ k = Island
    <2>. SUFFICES ASSUME NEW k \in Here
                  PROVE  k.max_id <= prev <=> k.max_id < start \/ k = Island
      OBVIOUS
    <2>1. k.max_id \in Int /\ start \in Int /\ prev \in Int /\ start <= prev
      BY IslandFields DEF Here, Scanning, CPUs
    <2>2. Island.max_id = prev
      BY DEF Island
    <2>3. start <= k.max_id /\ k.max_id <= prev => k = Island
      BY CutIsland
    <2>. QED
      BY <2>1, <2>2, <2>3
  <1>. QED
    BY <1>2, <1>3, <1>8, <1>9, <1>10

(* A gap closes an island, anything else extends it.                        *)
LEMMA ScanKeepsInv == ClusterInv /\ ScanCpu => ClusterInv'
  <1>. SUFFICES ASSUME ClusterInv, ScanCpu PROVE ClusterInv'
    OBVIOUS
  <1>1. /\ at = "scan" /\ UNCHANGED <<cpufreq, at, next, freq, key>> /\ next = N
        /\ ClusterTypeOK /\ Scanning /\ Distinct(out)
        /\ Found = Below \cup {k \in Here : k.max_id < start}
    BY DEF ScanCpu, ClusterInv, FoundSoFar
  <1>2. PICK c \in Rest : /\ First(c, Rest) /\ prev' = c
                          /\ IF c # prev + 1 THEN out' = Append(out, Island) /\ start' = c
                                             ELSE UNCHANGED <<out, start>>
    BY DEF ScanCpu
  <1>3. DOMAIN freq = CPUs
    BY <1>1 DEF ClusterTypeOK, CPUs
  <1>4. /\ c \in CPUs /\ freq[c] = key /\ c > prev
        /\ \A d \in CPUs : freq[d] = key /\ d > prev => c <= d
    BY <1>2, <1>3 DEF First, Rest, Bucket
  <1>5. /\ c \in Int /\ prev \in Int /\ start \in Int /\ N \in Nat
        /\ 0 <= start /\ start <= prev /\ prev < c /\ c <= N - 1
    BY <1>1, <1>4, ClusterAssumption DEF Scanning, CPUs
  <1>6. CPUs \subseteq 0..N
    BY ClusterAssumption DEF CPUs
  <1>7. Islands' = Islands /\ Below' = Below /\ Here' = Here
    BY <1>1 DEF Islands, Below, Here
  <1>8. CASE c = prev + 1
    <2>1. UNCHANGED <<out, start>> /\ prev' = c
      BY <1>2, <1>8
    <2>2. \A d \in start..c : freq[d] = key
      <3>1. \A d \in start..c : d \in start..prev \/ d = c
        BY <1>5, <1>8
      <3>. QED
        BY <1>1, <1>4, <3>1 DEF Scanning
    <2>3. start <= c
      BY <1>5
    <2>4. Scanning'
      BY <1>1, <1>4, <2>1, <2>2, <2>3 DEF Scanning
    <2>5. ClusterTypeOK'
      BY <1>1, <1>4, <1>6, <2>1 DEF ClusterTypeOK
    <2>6. Found' = Below' \cup {k \in Here' : k.max_id < start'} /\ Distinct(out)'
      BY <1>1, <1>7, <2>1 DEF Found
    <2>. QED
      BY <1>1, <2>4, <2>5, <2>6 DEF ClusterInv, FoundSoFar
  <1>9. CASE c # prev + 1
    <2>1. out' = Append(out, Island) /\ start' = c /\ prev' = c
      BY <1>2, <1>9
    <2>2. freq[prev + 1] # key
      <3>1. prev + 1 \in CPUs /\ prev + 1 > prev /\ ~(c <= prev + 1)
        BY <1>5, <1>9 DEF CPUs
      <3>. QED
        BY <1>4, <3>1
    <2>3. freq[c - 1] # key
      <3>1. c - 1 \in CPUs /\ c - 1 > prev /\ ~(c <= c - 1)
        BY <1>5, <1>9 DEF CPUs
      <3>. QED
        BY <1>4, <3>1
    <2>4. /\ out' \in Seq(CpuCluster) /\ Distinct(out)'
          /\ Found' = Below \cup {k \in Here : k.max_id <= prev}
      BY <1>1, <2>1, <2>2, AppendIsland
    <2>5. Scanning'
      <3>1. \A d \in c..c : freq[d] = key
        BY <1>4, <1>5
      <3>2. c <= c
        BY <1>5
      <3>. QED
        BY <1>1, <1>4, <2>1, <2>3, <3>1, <3>2 DEF Scanning
    <2>6. ClusterTypeOK'
      BY <1>1, <1>4, <1>6, <2>1, <2>4 DEF ClusterTypeOK
    <2>7. \A k \in Here : k.max_id <= prev <=> k.max_id < c
      <3>. SUFFICES ASSUME NEW k \in Here PROVE k.max_id <= prev <=> k.max_id < c
        OBVIOUS
      <3>1. k.max_id \in CPUs /\ k.max_id \in Int /\ freq[k.max_id] = key
        BY <1>1, IslandFields DEF Here
      <3>2. k.max_id > prev => c <= k.max_id
        BY <1>4, <3>1
      <3>. QED
        BY <1>5, <3>1, <3>2
    <2>8. Found' = Below' \cup {k \in Here' : k.max_id < start'}
      BY <1>7, <2>1, <2>4, <2>7
    <2>. QED
      BY <1>1, <2>4, <2>5, <2>6, <2>8 DEF ClusterInv, FoundSoFar
  <1>. QED
    BY <1>8, <1>9

(* With the last CPU of a bucket its last island is complete.               *)
LEMMA EndOfBucketKeepsInv == ClusterInv /\ EndOfBucket => ClusterInv'
  <1>. SUFFICES ASSUME ClusterInv, EndOfBucket PROVE ClusterInv'
    OBVIOUS
  <1>1. /\ at = "scan" /\ at' = "bucket" /\ UNCHANGED <<cpufreq, next, freq, key, start, prev>>
        /\ next = N /\ ClusterTypeOK /\ Scanning /\ Distinct(out)
        /\ Found = Below \cup {k \in Here : k.max_id < start}
        /\ out' = Append(out, Island) /\ Rest = {}
    BY DEF EndOfBucket, ClusterInv, FoundSoFar
  <1>2. \A d \in CPUs : freq[d] = key => ~(d > prev)
    BY <1>1 DEF Rest, Bucket, ClusterTypeOK, CPUs
  <1>3. prev \in Int /\ prev >= 0 /\ N \in Nat
    BY <1>1, ClusterAssumption DEF Scanning, CPUs
  <1>4. prev < N - 1 => freq[prev + 1] # key
    <2>1. prev < N - 1 => prev + 1 \in CPUs /\ prev + 1 > prev
      BY <1>3 DEF CPUs
    <2>. QED
      BY <1>2, <2>1
  <1>5. /\ out' \in Seq(CpuCluster) /\ Distinct(out)'
        /\ Found' = Below \cup {k \in Here : k.max_id <= prev}
    BY <1>1, <1>4, AppendIsland
  <1>6. \A k \in Here : k.max_id <= prev
    <2>. SUFFICES ASSUME NEW k \in Here PROVE k.max_id <= prev
      OBVIOUS
    <2>1. k.max_id \in CPUs /\ k.max_id \in Int /\ freq[k.max_id] = key
      BY <1>1, IslandFields DEF Here
    <2>. QED
      BY <1>2, <1>3, <2>1
  <1>7. Below' = Below /\ Here' = Here
    BY <1>1 DEF Islands, Below, Here
  <1>8. ClusterTypeOK'
    BY <1>1, <1>5 DEF ClusterTypeOK
  <1>9. Found' = Below' \cup Here'
    BY <1>5, <1>6, <1>7
  <1>. QED
    BY <1>1, <1>5, <1>8, <1>9 DEF ClusterInv, FoundSoFar

(* A sort loses nothing and repeats nothing: a reordering is a permutation. *)
LEMMA ReorderedOut ==
    ASSUME NEW S, NEW s \in Seq(S), Distinct(s), NEW t \in Reorderings(s)
    PROVE  /\ t \in Seq(S) /\ Distinct(t) /\ DOMAIN t = DOMAIN s
           /\ {t[i] : i \in DOMAIN t} = {s[i] : i \in DOMAIN s}
  <1>. DEFINE n == Len(s)
              D == 1..n
  <1>1. n \in Nat /\ DOMAIN s = D /\ \A i \in D : s[i] \in S
    OBVIOUS
  <1>2. PICK p \in [D -> D] : /\ \A i, j \in D : p[i] = p[j] => i = j
                              /\ t = [i \in D |-> s[p[i]]]
    BY <1>1 DEF Reorderings
  <1>3. IsFiniteSet(D)
    BY <1>1, FS_Interval
  <1>4. p \in Injection(D, D)
    BY <1>2, Fun_IsInj
  <1>5. p \in Surjection(D, D)
    BY <1>3, <1>4, FS_Injection
  <1>6. \A j \in D : \E i \in D : p[i] = j
    BY <1>5 DEF Surjection
  <1>7. t \in [D -> S]
    BY <1>1, <1>2
  <1>8. t \in Seq(S) /\ DOMAIN t = D
    BY <1>1, <1>7
  <1>. HIDE DEF D
  <1>9. \A i \in D : p[i] \in D /\ t[i] = s[p[i]]
    BY <1>2
  <1>10. Distinct(t)
    <2>. SUFFICES ASSUME NEW i \in D, NEW j \in D, t[i] = t[j] PROVE i = j
      BY <1>8 DEF Distinct
    <2>1. p[i] = p[j]
      BY <1>1, <1>9 DEF Distinct
    <2>. QED
      BY <1>2, <2>1
  <1>11. {t[i] : i \in D} = {s[i] : i \in D}
    BY <1>6, <1>9
  <1>. QED
    BY <1>1, <1>8, <1>10, <1>11

LEMMA SortKeepsInv == ClusterInv /\ SortClusters => ClusterInv'
  <1>. SUFFICES ASSUME ClusterInv, SortClusters PROVE ClusterInv'
    OBVIOUS
  <1>1. /\ at = "sort" /\ at' = "done" /\ UNCHANGED <<cpufreq, next, freq, key, start, prev>>
        /\ next = N /\ ClusterTypeOK /\ Found = Islands /\ Distinct(out)
        /\ out' \in Reorderings(out) /\ Ascending(out')
    BY DEF SortClusters, ClusterInv, FoundSoFar
  <1>2. out' \in Seq(CpuCluster) /\ Distinct(out') /\ {out'[i] : i \in DOMAIN out'} = Found
    <2>1. out \in Seq(CpuCluster)
      BY <1>1 DEF ClusterTypeOK
    <2>2. \A t \in Reorderings(out) : /\ t \in Seq(CpuCluster) /\ Distinct(t)
                                      /\ {t[i] : i \in DOMAIN t} = {out[i] : i \in DOMAIN out}
      BY <1>1, <2>1, ReorderedOut
    <2>. QED
      BY <1>1, <2>2 DEF Found
  <1>3. ClusterTypeOK'
    BY <1>1, <1>2 DEF ClusterTypeOK
  <1>4. Found' = Islands' /\ Distinct(out)' /\ Ascending(out)'
    BY <1>1, <1>2 DEF Found, Islands
  <1>. QED
    BY <1>1, <1>3, <1>4 DEF ClusterInv, FoundSoFar

LEMMA DetectKeepsInv == ClusterInv /\ DetectClusters => ClusterInv'
  BY ReadingKeepsInv, NextBucketKeepsInv, NoBucketLeftKeepsInv, ScanKeepsInv,
     EndOfBucketKeepsInv, SortKeepsInv DEF DetectClusters
(* Nothing but detect_clusters touches the clusters.                        *)
LEMMA ClustersStay == ClusterInv /\ UNCHANGED cvars => ClusterInv'
  <1>. SUFFICES ASSUME ClusterInv, UNCHANGED cvars PROVE ClusterInv'
    OBVIOUS
  <1>1. UNCHANGED <<cpufreq, at, next, freq, key, start, prev, out>>
    BY DEF cvars
  <1>2. ClusterTypeOK'
    BY <1>1 DEF ClusterInv, ClusterTypeOK
  <1>3. /\ Found' = Found /\ Islands' = Islands /\ Scanning' = Scanning
        /\ Distinct(out)' = Distinct(out) /\ Ascending(out)' = Ascending(out)
    BY <1>1 DEF Found, Islands, Scanning
  <1>4. Below' = Below /\ Here' = Here
    BY <1>1, <1>3 DEF Below, Here
  <1>5. FoundSoFar'
    BY <1>1, <1>3, <1>4 DEF ClusterInv, FoundSoFar
  <1>. QED
    BY <1>2, <1>5 DEF ClusterInv

(* There are no more clusters than CPUs: no two end at the same one. *)
LEMMA FewClusters == ClusterInv /\ at = "done" => Len(out) \in Nat /\ Len(out) <= N
  <1>. SUFFICES ASSUME ClusterInv, at = "done" PROVE Len(out) \in Nat /\ Len(out) <= N
    OBVIOUS
  <1>1. /\ ClusterTypeOK /\ next = N /\ Found = Islands /\ Distinct(out)
        /\ Len(out) \in Nat /\ DOMAIN out = 1..Len(out) /\ N \in Nat
    BY ElementOfOut, ClusterAssumption DEF ClusterInv, FoundSoFar
  <1>. DEFINE D == 1..Len(out)
              g == [i \in D |-> out[i].max_id]
  <1>2. \A i \in D : out[i] \in Islands
    BY <1>1 DEF Found
  <1>3. \A i \in D : out[i].max_id \in CPUs
    BY <1>1, <1>2, IslandFields
  <1>4. g \in [D -> CPUs] /\ \A i \in D : g[i] = out[i].max_id
    BY <1>3
  <1>5. \A i, j \in D : g[i] = g[j] => i = j
    <2>. SUFFICES ASSUME NEW i \in D, NEW j \in D, g[i] = g[j] PROVE i = j
      OBVIOUS
    <2>1. out[i] = out[j]
      BY <1>1, <1>2, <1>4, IslandOfItsEnd
    <2>. QED
      BY <1>1, <2>1 DEF Distinct
  <1>. HIDE DEF g
  <1>6. g \in Injection(D, CPUs)
    BY <1>4, <1>5, Fun_IsInj
  <1>7. IsFiniteSet(CPUs) /\ Cardinality(CPUs) = N
    <2>1. N \in Nat /\ 0 \in Int /\ N - 1 \in Int
      BY ClusterAssumption
    <2>2. /\ IsFiniteSet(0..N - 1)
          /\ Cardinality(0..N - 1) = IF 0 > N - 1 THEN 0 ELSE N - 1 - 0 + 1
      BY <2>1, FS_Interval
    <2>. QED
      BY <2>1, <2>2 DEF CPUs
  <1>8. Cardinality(D) = Len(out)
    <2>1. Cardinality(1..Len(out)) = IF 1 > Len(out) THEN 0 ELSE Len(out) - 1 + 1
      BY <1>1, FS_Interval
    <2>. QED
      BY <1>1, <2>1
  <1>. HIDE DEF D
  <1>9. Cardinality(D) <= Cardinality(CPUs)
    BY <1>6, <1>7, FS_Injection
  <1>. QED
    BY <1>1, <1>7, <1>8, <1>9

-----------------------------------------------------------------------------
(* PerCluster: the row under way.                                            *)

(* While a row is measured, a thread that was pinned for it and not disturbed    *)
(* has exactly the mask of the row and has run nowhere else.                 *)
RowUnderWay ==
    /\ measuring =>
          /\ at = "done" /\ bench \in DOMAIN Benches /\ idx \in DOMAIN out
          /\ (pinned /\ ~disturbed) => /\ mask = Target(bench, out[idx])
                                       /\ ran \subseteq Target(bench, out[idx])
    /\ at # "done" => idx = 0
    /\ at = "done" => idx <= Len(out) + 1

PlaceInv == ClusterInv /\ PlaceTypeOK /\ RowUnderWay /\ RowsTellWhere

(* A pin asks for CPUs of the machine.                                      *)
LEMMA TargetsAreCPUs ==
    ASSUME NEW b \in DOMAIN Benches, NEW c \in CpuCluster
    PROVE  Target(b, c) \subseteq CPUs
  <1>1. c.min_id \in CPUs /\ c.max_id \in CPUs /\ N \in Nat
    BY ClusterAssumption DEF CpuCluster
  <1>2. c.min_id..c.max_id \subseteq CPUs
    BY <1>1 DEF CPUs
  <1>. QED
    BY <1>1, <1>2 DEF Target

LEMMA PlaceInitInv == PlaceInit => PlaceInv
  <1>. SUFFICES ASSUME PlaceInit PROVE PlaceInv
    OBVIOUS
  <1>1. ClusterInv
    BY ClusterInitInv DEF PlaceInit
  <1>2. rows \in Seq(Row) /\ DOMAIN rows = {}
    BY EmptySeq DEF PlaceInit
  <1>3. /\ 1 \in 1..Len(Benches) + 1 /\ 0 \in 0..N + 1 /\ 0 \in 0..MaxHotplug /\ 1 \in 0..MaxJobs
        /\ 0 \in CPUs
    BY PlacementAssumption, ClusterAssumption DEF CPUs
  <1>4. /\ online = CPUs /\ mask = CPUs /\ cpu \in CPUs /\ bench = 1 /\ idx = 0 /\ jobs = 1
        /\ measuring = FALSE /\ pinned = FALSE /\ ran = {} /\ disturbed = FALSE /\ hotplugs = 0
        /\ at = "read"
    BY DEF PlaceInit, ClusterInit
  <1>5. PlaceTypeOK
    <2>1. online \subseteq CPUs /\ online # {}
      BY <1>3, <1>4
    <2>2. cpu \in mask \cap online /\ mask \subseteq CPUs /\ ran \subseteq CPUs
      BY <1>4
    <2>3. /\ bench \in 1..Len(Benches) + 1 /\ idx \in 0..N + 1 /\ hotplugs \in 0..MaxHotplug
          /\ jobs \in 0..MaxJobs
      BY <1>3, <1>4
    <2>. QED
      BY <1>1, <1>2, <1>4, <2>1, <2>2, <2>3 DEF PlaceTypeOK, ClusterInv
  <1>. QED
    BY <1>1, <1>2, <1>4, <1>5 DEF PlaceInv, RowUnderWay, RowsTellWhere

LEMMA DetectKeepsPlace == PlaceInv /\ Detect => PlaceInv'
  <1>. SUFFICES ASSUME PlaceInv, Detect PROVE PlaceInv'
    OBVIOUS
  <1>1. ClusterInv'
    BY DetectKeepsInv DEF PlaceInv, Detect
  <1>2. at # "done"
    BY DEF Detect, DetectClusters, ReadMaxFreq, AllRead, NextBucket, NoBucketLeft, ScanCpu,
           EndOfBucket, SortClusters
  <1>3. UNCHANGED <<online, mask, cpu, hotplugs, bench, idx, measuring, pinned, ran, disturbed, rows, jobs>>
    BY DEF Detect, threadVars, rowVars
  <1>4. PlaceTypeOK' /\ RowsTellWhere'
    BY <1>1, <1>3 DEF PlaceInv, ClusterInv, PlaceTypeOK, RowsTellWhere
  <1>5. Len(out') \in Nat
    BY <1>1 DEF ClusterInv, ClusterTypeOK
  <1>6. idx = 0 /\ 0 <= Len(out') + 1 /\ ~measuring
    BY <1>2, <1>5 DEF PlaceInv, RowUnderWay
  <1>7. RowUnderWay'
    BY <1>3, <1>6 DEF RowUnderWay
  <1>. QED
    BY <1>1, <1>4, <1>7 DEF PlaceInv

LEMMA EnterKeepsPlace == PlaceInv /\ (EnterBench \/ EndBench) => PlaceInv'
  <1>. SUFFICES ASSUME PlaceInv, EnterBench \/ EndBench PROVE PlaceInv'
    OBVIOUS
  <1>1. /\ UNCHANGED <<cvars, threadVars, measuring, pinned, ran, disturbed, rows, jobs>>
        /\ at = "done" /\ bench \in DOMAIN Benches /\ (EndBench => ~measuring)
        /\ bench' = bench \/ bench' = bench + 1
        /\ idx' \in {0, 1, Len(out)}
        /\ EnterBench => idx = 0
    BY DEF EnterBench, EndBench, Running
  <1>2. ClusterInv'
    BY <1>1, ClustersStay DEF PlaceInv
  <1>3. Len(out) \in Nat /\ Len(out) <= N /\ N \in Nat \ {0} /\ DOMAIN out = 1..Len(out)
    BY <1>1, FewClusters, ElementOfOut, PlacementAssumption, ClusterAssumption DEF PlaceInv, ClusterInv
  <1>4. ~measuring
    BY <1>1, <1>3 DEF PlaceInv, RowUnderWay
  <1>5. \A i \in {0, 1, Len(out)} : i \in 0..N + 1 /\ i <= Len(out) + 1
    <2>1. Len(out) \in Nat /\ Len(out) <= N /\ N \in Nat
      BY <1>3
    <2>2. \A i \in {0, 1, Len(out)} : i \in Nat /\ i <= Len(out) + 1
      BY <2>1
    <2>. QED
      BY <2>1, <2>2
  <1>6. bench \in 1..Len(Benches) + 1 /\ bench + 1 \in 1..Len(Benches) + 1
    BY <1>1, PlacementAssumption
  <1>7. PlaceTypeOK'
    BY <1>1, <1>2, <1>5, <1>6 DEF PlaceInv, ClusterInv, PlaceTypeOK, threadVars
  <1>8. RowUnderWay' /\ RowsTellWhere'
    BY <1>1, <1>4, <1>5 DEF PlaceInv, RowUnderWay, RowsTellWhere, cvars
  <1>. QED
    BY <1>2, <1>7, <1>8 DEF PlaceInv

LEMMA StartRowKeepsPlace == PlaceInv /\ StartRow => PlaceInv'
  <1>. SUFFICES ASSUME PlaceInv, StartRow PROVE PlaceInv'
    OBVIOUS
  <1>. DEFINE t == Target(bench, out[idx])
  <1>1. /\ UNCHANGED <<cvars, online, hotplugs, bench, idx, rows, jobs>>
        /\ at = "done" /\ bench \in DOMAIN Benches /\ idx \in DOMAIN out
        /\ measuring' = TRUE /\ ran' = {cpu'} /\ disturbed' = FALSE /\ Pin(t)
    BY DEF StartRow, Running
  <1>2. ClusterInv'
    BY <1>1, ClustersStay DEF PlaceInv
  <1>3. t \subseteq CPUs
    BY <1>1, TargetsAreCPUs, ElementOfOut DEF PlaceInv, ClusterInv
  <1>4. UNCHANGED <<at, out>>
    BY <1>1 DEF cvars
  <1>5. Target(bench', out'[idx']) = t
    BY <1>1, <1>4 DEF Target
  <1>. HIDE DEF t
  <1>6. /\ pinned' \in BOOLEAN /\ mask' \subseteq CPUs /\ cpu' \in mask' \cap online
        /\ cpu' \in CPUs
        /\ pinned' => mask' = t /\ cpu' \in t
    BY <1>1, <1>3 DEF Pin, PlaceInv, PlaceTypeOK
  <1>7. PlaceTypeOK'
    BY <1>1, <1>2, <1>6 DEF PlaceInv, ClusterInv, PlaceTypeOK
  <1>8. RowUnderWay'
    BY <1>1, <1>4, <1>5, <1>6 DEF PlaceInv, RowUnderWay
  <1>9. RowsTellWhere'
    BY <1>1 DEF PlaceInv, RowsTellWhere
  <1>. QED
    BY <1>2, <1>7, <1>8, <1>9 DEF PlaceInv

LEMMA EndRowKeepsPlace == PlaceInv /\ EndRow => PlaceInv'
  <1>. SUFFICES ASSUME PlaceInv, EndRow PROVE PlaceInv'
    OBVIOUS
  <1>. DEFINE row == [bench |-> bench, cpus |-> Target(bench, out[idx]),
                      pinned |-> pinned, ran |-> ran, disturbed |-> disturbed]
              n == Len(rows)
  <1>1. /\ UNCHANGED <<cvars, threadVars, bench, pinned, ran, disturbed, jobs>>
        /\ at = "done" /\ bench \in DOMAIN Benches /\ idx \in DOMAIN out
        /\ measuring' = FALSE /\ idx' = idx + 1 /\ rows' = Append(rows, row)
        /\ (pinned /\ ~disturbed) => ran \subseteq Target(bench, out[idx])
    BY DEF EndRow, PlaceInv, RowUnderWay
  <1>2. ClusterInv'
    BY <1>1, ClustersStay DEF PlaceInv
  <1>3. row \in Row /\ ((row.pinned /\ ~row.disturbed) => row.ran \subseteq row.cpus)
    <2>1. Target(bench, out[idx]) \subseteq CPUs
      BY <1>1, TargetsAreCPUs, ElementOfOut DEF PlaceInv, ClusterInv
    <2>. QED
      BY <1>1, <2>1 DEF Row, PlaceInv, PlaceTypeOK
  <1>. HIDE DEF row
  <1>4. rows \in Seq(Row) /\ n \in Nat /\ DOMAIN rows = 1..n
    BY DEF PlaceInv, PlaceTypeOK
  <1>5. /\ rows' \in Seq(Row) /\ Len(rows') = n + 1
        /\ rows'[n + 1] = row /\ \A i \in 1..n : rows'[i] = rows[i]
    BY <1>1, <1>3, <1>4, AppendProperties
  <1>6. DOMAIN rows' = 1..n + 1
    BY <1>5
  <1>. HIDE DEF n
  <1>7. \A i \in 1..n + 1 : i \in 1..n \/ i = n + 1
    BY <1>4
  <1>8. RowsTellWhere'
    BY <1>3, <1>4, <1>5, <1>6, <1>7 DEF PlaceInv, RowsTellWhere
  <1>9. Len(out) \in Nat /\ Len(out) <= N /\ N \in Nat /\ idx \in 1..Len(out)
    BY <1>1, FewClusters, ElementOfOut, ClusterAssumption DEF PlaceInv, ClusterInv
  <1>10. idx + 1 \in 0..N + 1 /\ idx + 1 <= Len(out) + 1
    BY <1>9
  <1>11. PlaceTypeOK'
    BY <1>1, <1>2, <1>5, <1>10 DEF PlaceInv, ClusterInv, PlaceTypeOK, threadVars
  <1>12. RowUnderWay'
    BY <1>1, <1>10 DEF RowUnderWay, cvars
  <1>. QED
    BY <1>2, <1>8, <1>11, <1>12 DEF PlaceInv

(* The thread's next job starts detect_clusters over again. *)
LEMMA NextJobKeepsPlace == PlaceInv /\ NextJob => PlaceInv'
  <1>. SUFFICES ASSUME PlaceInv, NextJob PROVE PlaceInv'
    OBVIOUS
  <1>1. /\ UNCHANGED <<cpufreq, threadVars, measuring, pinned, ran, disturbed>>
        /\ at = "done" /\ bench \notin DOMAIN Benches /\ jobs < MaxJobs /\ jobs' = jobs + 1
        /\ at' = "read" /\ next' = 0 /\ key' = -1 /\ start' = 0 /\ prev' = 0 /\ freq' = [c \in {} |-> 0]
        /\ out' = <<>> /\ rows' = <<>> /\ bench' = 1 /\ idx' = 0
    BY DEF NextJob
  <1>2. /\ out' \in Seq(CpuCluster) /\ Len(out') = 0 /\ DOMAIN out' = {}
        /\ rows' \in Seq(Row) /\ DOMAIN rows' = {}
    BY <1>1, EmptySeq
  <1>3. /\ 1 \in 1..Len(Benches) + 1 /\ 0 \in 0..N + 1 /\ 0 \in 0..N
        /\ \A j \in 0..MaxJobs : j < MaxJobs => j + 1 \in 0..MaxJobs
    BY PlacementAssumption, ClusterAssumption
  <1>4. freq' \in [0..next' - 1 -> Freqs \cup {Unreadable}]
    <2>1. 0..0 - 1 = {}
      OBVIOUS
    <2>2. [c \in {} |-> 0] \in [{} -> Freqs \cup {Unreadable}]
      OBVIOUS
    <2>. QED
      BY <1>1, <2>1, <2>2
  <1>5. ClusterTypeOK'
    BY <1>1, <1>2, <1>3, <1>4 DEF PlaceInv, PlaceTypeOK, ClusterTypeOK
  <1>6. FoundSoFar'
    BY <1>1, <1>2 DEF FoundSoFar, Distinct
  <1>7. ~measuring
    BY <1>1 DEF PlaceInv, RowUnderWay
  <1>8. PlaceTypeOK'
    BY <1>1, <1>2, <1>3, <1>5 DEF PlaceInv, PlaceTypeOK, threadVars
  <1>9. RowUnderWay' /\ RowsTellWhere'
    BY <1>1, <1>2, <1>7 DEF RowUnderWay, RowsTellWhere
  <1>. QED
    BY <1>5, <1>6, <1>8, <1>9 DEF PlaceInv, ClusterInv

LEMMA MigrateKeepsPlace == PlaceInv /\ Migrate => PlaceInv'
  <1>. SUFFICES ASSUME PlaceInv, Migrate PROVE PlaceInv'
    OBVIOUS
  <1>1. /\ UNCHANGED <<cvars, online, mask, hotplugs, bench, idx, measuring, pinned, disturbed, rows, jobs>>
        /\ cpu' \in mask /\ cpu' \in online /\ ran' = ran \cup {cpu'}
    BY DEF Migrate
  <1>2. ClusterInv'
    BY <1>1, ClustersStay DEF PlaceInv
  <1>3. PlaceTypeOK'
    BY <1>1, <1>2 DEF PlaceInv, ClusterInv, PlaceTypeOK
  <1>4. UNCHANGED <<at, out>>
    BY <1>1 DEF cvars
  <1>5. RowUnderWay' /\ RowsTellWhere'
    BY <1>1, <1>4 DEF PlaceInv, RowUnderWay, RowsTellWhere, Target
  <1>. QED
    BY <1>2, <1>3, <1>5 DEF PlaceInv

LEMMA HotplugKeepsPlace == PlaceInv /\ (Offline \/ Online) => PlaceInv'
  <1>. SUFFICES ASSUME PlaceInv, Offline \/ Online PROVE PlaceInv'
    OBVIOUS
  <1>1. UNCHANGED <<cvars, bench, idx, measuring, pinned, rows, jobs>>
    BY DEF Offline, Online, rowVars
  <1>2. ClusterInv' /\ UNCHANGED <<at, out>>
    BY <1>1, ClustersStay DEF PlaceInv, cvars
  <1>3. RowsTellWhere'
    BY <1>1 DEF PlaceInv, RowsTellWhere
  <1>4. CASE Offline
    <2>1. PICK c \in online :
             /\ online # {c} /\ hotplugs < MaxHotplug /\ hotplugs' = hotplugs + 1
             /\ online' = online \ {c}
             /\ IF mask \subseteq {c} \cup (CPUs \ online)
                THEN mask' = CPUs /\ disturbed' = TRUE
                ELSE UNCHANGED <<mask, disturbed>>
             /\ IF cpu = c THEN cpu' \in mask' \cap online' ELSE UNCHANGED cpu
             /\ ran' = IF measuring THEN ran \cup {cpu'} ELSE ran
      BY <1>4 DEF Offline
    <2>2. \A h \in 0..MaxHotplug : h < MaxHotplug => h + 1 \in 0..MaxHotplug
      BY PlacementAssumption
    <2>3. /\ mask \subseteq CPUs /\ online \subseteq CPUs /\ cpu \in mask /\ cpu \in online
          /\ ran \subseteq CPUs /\ disturbed \in BOOLEAN
      BY DEF PlaceInv, PlaceTypeOK
    <2>4. online' \subseteq CPUs /\ online' # {}
      BY <2>1, <2>3
    <2>5. /\ mask' \subseteq CPUs /\ disturbed' \in BOOLEAN
          /\ ~disturbed' => mask' = mask /\ ~disturbed
      BY <2>1, <2>3
    <2>6. cpu' \in mask' /\ cpu' \in online'
      BY <2>1, <2>3
    <2>7. ran' \subseteq ran \cup {cpu'}
      BY <2>1
    <2>8. PlaceTypeOK'
      BY <1>1, <1>2, <2>1, <2>2, <2>3, <2>4, <2>5, <2>6, <2>7 DEF PlaceInv, ClusterInv, PlaceTypeOK
    <2>9. RowUnderWay'
      BY <1>1, <1>2, <2>5, <2>6, <2>7 DEF PlaceInv, RowUnderWay, Target
    <2>. QED
      BY <1>2, <1>3, <2>8, <2>9 DEF PlaceInv
  <1>5. CASE Online
    <2>1. /\ online \subseteq online' /\ online' \subseteq CPUs
          /\ UNCHANGED <<mask, cpu, hotplugs, ran, disturbed>>
      BY <1>5 DEF Online, PlaceInv, PlaceTypeOK, rowVars
    <2>2. PlaceTypeOK'
      <3>1. online' \subseteq CPUs /\ online' # {}
        BY <2>1 DEF PlaceInv, PlaceTypeOK
      <3>. QED
        BY <1>1, <1>2, <2>1, <3>1 DEF PlaceInv, ClusterInv, PlaceTypeOK
    <2>3. RowUnderWay'
      BY <1>1, <1>2, <2>1 DEF PlaceInv, RowUnderWay, Target
    <2>. QED
      BY <1>2, <1>3, <2>2, <2>3 DEF PlaceInv
  <1>. QED
    BY <1>4, <1>5

LEMMA PlaceNextInv == PlaceInv /\ [PlaceNext]_placeVars => PlaceInv'
  <1>. SUFFICES ASSUME PlaceInv, [PlaceNext]_placeVars PROVE PlaceInv'
    OBVIOUS
  <1>1. CASE UNCHANGED placeVars
    <2>1. /\ ClusterInv' /\ UNCHANGED <<at, out>>
          /\ UNCHANGED <<online, mask, cpu, hotplugs, bench, idx, measuring, pinned, ran, disturbed,
                         rows, jobs>>
      BY <1>1, ClustersStay DEF PlaceInv, placeVars, threadVars, rowVars, cvars
    <2>. QED
      BY <2>1 DEF PlaceInv, ClusterInv, PlaceTypeOK, RowUnderWay, RowsTellWhere, Target
  <1>. QED
    BY <1>1, DetectKeepsPlace, EnterKeepsPlace, StartRowKeepsPlace, EndRowKeepsPlace,
       NextJobKeepsPlace, MigrateKeepsPlace, HotplugKeepsPlace DEF PlaceNext, JobStep

(* The types of a job's placement hold for any machine; among them that the      *)
(* loops over the clusters stay in the vector, which never exceeds the CPUs.  *)
THEOREM PlacementIsTyped == PlaceSpec => []PlaceTypeOK
  <1>1. PlaceInv => PlaceTypeOK
    BY DEF PlaceInv
  <1>. QED
    BY <1>1, PlaceInitInv, PlaceNextInv, PTL DEF PlaceSpec

(* A CPU has answered with its frequency or not at all. *)
AnswersAreTrue == \A c \in DOMAIN freq : freq[c] \in {cpufreq[c], Unreadable}

LEMMA NextAnswers == PlaceInv /\ AnswersAreTrue /\ [PlaceNext]_placeVars => AnswersAreTrue'
  <1>. SUFFICES ASSUME PlaceInv, AnswersAreTrue, [PlaceNext]_placeVars PROVE AnswersAreTrue'
    OBVIOUS
  <1>1. CASE UNCHANGED <<freq, cpufreq>>
    BY <1>1 DEF AnswersAreTrue
  <1>2. CASE ReadMaxFreq
    <2>1. PICK f \in {cpufreq[next], Unreadable} :
             freq' = [c \in 0..next |-> IF c = next THEN f ELSE freq[c]]
      BY <1>2 DEF ReadMaxFreq
    <2>2. DOMAIN freq = 0..next - 1 /\ next \in Nat /\ cpufreq' = cpufreq
      BY <1>2, ClusterAssumption DEF ReadMaxFreq, PlaceInv, ClusterInv, ClusterTypeOK
    <2>3. \A c \in 0..next : c # next => c \in 0..next - 1
      BY <2>2
    <2>. QED
      BY <2>1, <2>2, <2>3 DEF AnswersAreTrue
  <1>3. CASE NextJob
    BY <1>3 DEF NextJob, AnswersAreTrue
  <1>4. CASE ~ReadMaxFreq /\ ~NextJob
    <2>1. UNCHANGED <<freq, cpufreq>>
      BY <1>4 DEF PlaceNext, JobStep, Detect, DetectClusters, AllRead, NextBucket, NoBucketLeft,
                  ScanCpu, EndOfBucket, SortClusters, EnterBench, StartRow, EndRow, EndBench,
                  Migrate, Offline, Online, placeVars, cvars
    <2>. QED
      BY <1>1, <2>1
  <1>. QED
    BY <1>2, <1>3, <1>4

(* For any number of CPUs in any arrangement, whichever reads of cpufreq fail    *)
(* and however std::sort orders equal elements, detect_clusters returns the   *)
(* islands of equal answers, each once, in ascending order, and those that    *)
(* name a frequency hold CPUs of that frequency only.                        *)
THEOREM ClustersAreTheIslands == PlaceSpec => []ClustersAreIslands
  <1>1. PlaceInv /\ AnswersAreTrue => ClustersAreIslands
    <2>. SUFFICES ASSUME PlaceInv, AnswersAreTrue, at = "done" PROVE ClustersAreIslands
      BY DEF ClustersAreIslands
    <2>1. /\ Found = Islands /\ Distinct(out) /\ Ascending(out)
          /\ next = N /\ ClusterTypeOK /\ N \in Nat
      BY ClusterAssumption DEF PlaceInv, ClusterInv, FoundSoFar
    <2>2. ASSUME NEW i \in DOMAIN out, out[i].max_freq_khz # Unreadable,
                 NEW c \in out[i].min_id..out[i].max_id
          PROVE  cpufreq[c] = out[i].max_freq_khz
      <3>1. /\ out[i] \in Islands /\ freq[c] = out[i].max_freq_khz
            /\ out[i].min_id \in CPUs /\ out[i].max_id \in CPUs
        BY <2>1, <2>2 DEF Found, Islands, CpuCluster
      <3>2. c \in DOMAIN freq
        BY <2>1, <3>1 DEF ClusterTypeOK, CPUs
      <3>. QED
        BY <2>2, <3>1, <3>2 DEF AnswersAreTrue
    <2>. QED
      BY <2>1, <2>2 DEF ClustersAreIslands, Found, Distinct
  <1>2. PlaceInit => AnswersAreTrue
    BY DEF PlaceInit, ClusterInit, AnswersAreTrue
  <1>. QED
    BY <1>1, <1>2, PlaceInitInv, PlaceNextInv, NextAnswers, PTL DEF PlaceSpec

(* However masks are left behind by rows, benchmarks and jobs, and cores come    *)
(* and go: a row that says it was pinned ran where it says, unless the kernel *)
(* overrode the mask while it was measured.                                  *)
THEOREM RowsSayWhereTheyRan == PlaceSpec => []RowsTellWhere
  <1>1. PlaceInv => RowsTellWhere
    BY DEF PlaceInv
  <1>. QED
    BY <1>1, PlaceInitInv, PlaceNextInv, PTL DEF PlaceSpec
=============================================================================
