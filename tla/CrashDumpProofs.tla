-------------------------- MODULE CrashDumpProofs --------------------------
(***************************************************************************)
(* Proofs about CrashDump, for any set of threads, signals and benchmark     *)
(* names and any number of restarts: type correctness; that a complete dump  *)
(* blames the benchmark that faulted; and that a complete dump is kept until *)
(* it is shown, but for the dangers that Trouble names.                     *)
(***************************************************************************)
EXTENDS CrashDump, FiniteSetTheorems, TLAPS

-----------------------------------------------------------------------------
(* The inductive invariants.                                                *)

(* Every inode was created by a thread that opened the file in this process,   *)
(* or by one of an earlier process; and the name and every fd lead to one of *)
(* the inodes created.                                                      *)
FilesCounted ==
    /\ inodes <= (process - 1) * Cardinality(Threads) + Cardinality(Opened)
    /\ \A t \in Threads : /\ thread[t].st \in {"run", "open"} => thread[t].fd = Unlinked
                          /\ thread[t].st \in {"build", "write"} => thread[t].fd # Unlinked
    /\ reader \in {"read", "delete"} => linked # Unlinked

(* While the benchmark thread is in the handler its tag stays what it was.     *)
TagHeld == \A t \in Threads :
    /\ (InHandler(t) /\ thread[t].ran # Idle) => t = Dispatcher
    /\ (thread[t].st \in {"open", "build"} /\ thread[t].ran # Idle) => tag = thread[t].ran
    /\ (thread[t].st = "write" /\ thread[t].ran # Idle) => thread[t].buf = thread[t].ran

(* In a process without trouble nobody writes while the dump is read and       *)
(* deleted, one thread at most opens it, its fd is the file under the dump's  *)
(* name and still empty, and what is about to be deleted has been shown.     *)
Untroubled == process \notin troubled =>
    /\ reader # "idle" => \A t \in Threads : ~Writing(t)
    /\ \A t, u \in Opened : t = u
    /\ \A t \in Threads : Writing(t) => thread[t].fd = linked /\ content[linked].state = "empty"
    /\ reader = "delete" => Whole(linked) \cap unseen = {}

(* There is an inode for every handler that any process may run.            *)
LEMMA Counting ==
    /\ Cardinality(Threads) \in Nat /\ Cardinality(Threads) >= 1
    /\ Cardinality(Threads) * MaxProcesses \in Nat
    /\ Cardinality(Inodes) = Cardinality(Threads) * MaxProcesses
  <1>1. Cardinality(Threads) \in Nat /\ Cardinality(Threads) # 0
    BY CrashAssumption, FS_CardinalityType, FS_EmptySet
  <1>2. MaxProcesses \in Nat
    BY CrashAssumption
  <1>3. Cardinality(Threads) * MaxProcesses \in Nat
    BY <1>1, <1>2
  <1>. DEFINE n == Cardinality(Threads) * MaxProcesses
  <1>4. Cardinality(1..n) = n
    BY <1>3, FS_Interval
  <1>. QED
    BY <1>1, <1>3, <1>4 DEF Inodes

(* There is an inode left for a thread that has yet to open the file.         *)
LEMMA InodeLeft ==
    ASSUME TypeOK, FilesCounted, NEW t \in Threads, thread[t].st = "open"
    PROVE  inodes + 1 \in Inodes
  <1>. DEFINE n == Cardinality(Threads)
              k == Cardinality(Opened)
  <1>1. k \in Nat /\ k < n
    <2>1. IsFiniteSet(Threads) /\ Opened \subseteq Threads /\ t \notin Opened
      BY CrashAssumption DEF FilesCounted, Opened
    <2>2. IsFiniteSet(Opened) /\ Opened # Threads
      BY <2>1, FS_Subset
    <2>. QED
      BY <2>1, <2>2, FS_Subset, FS_CardinalityType
  <1>2. n \in Nat /\ process - 1 \in 0..MaxProcesses - 1 /\ MaxProcesses \in Nat
    BY Counting, CrashAssumption DEF TypeOK
  <1>3. inodes \in Nat /\ inodes <= (process - 1) * n + k
    BY Counting DEF TypeOK, FilesCounted
  <1>. HIDE DEF n, k
  <1>4. (process - 1) * n + n <= MaxProcesses * n
    <2>. DEFINE p == process - 1
    <2>1. p \in Nat /\ p + 1 <= MaxProcesses
      BY <1>2
    <2>. HIDE DEF p
    <2>2. (p + 1) * n <= MaxProcesses * n /\ (p + 1) * n = p * n + n /\ p * n \in Nat
      BY <1>2, <2>1, SMTT(30)
    <2>. QED
      BY <1>2, <2>2 DEF p
  <1>5. MaxProcesses * n = n * MaxProcesses /\ (process - 1) * n \in Nat /\ n * MaxProcesses \in Nat
    BY <1>2
  <1>6. inodes + 1 <= n * MaxProcesses
    BY <1>1, <1>2, <1>3, <1>4, <1>5
  <1>. QED
    BY <1>3, <1>5, <1>6 DEF n, Inodes

-----------------------------------------------------------------------------
(* Type correctness, together with the count of files.                       *)

ThreadRecord == [st : ThreadStates, sig : Signals \cup {NoSignal},
                 fd : Inodes \cup {Unlinked}, buf : Tags, ran : Tags]

LEMMA FreshType == Fresh \in ThreadRecord /\ NoDump \in Dumps
  BY CrashAssumption DEF Fresh, ThreadRecord, ThreadStates, NoDump, Dumps, Tags, Faults

LEMMA InitType == Init => TypeOK
  <1>. SUFFICES ASSUME Init PROVE TypeOK
    OBVIOUS
  <1>1. /\ thread \in [Threads -> ThreadRecord] /\ content \in [Inodes -> Dumps]
        /\ tag \in Tags /\ process \in 1..MaxProcesses /\ inodes \in 0..Cardinality(Inodes)
    BY FreshType, Counting, CrashAssumption DEF Init, Tags
  <1>. QED
    BY <1>1 DEF Init, TypeOK, ThreadRecord

LEMMA NextType == TypeOK /\ FilesCounted /\ [Next]_vars => TypeOK'
  <1>. SUFFICES ASSUME TypeOK, FilesCounted, [Next]_vars PROVE TypeOK'
    OBVIOUS
  <1>0. /\ thread \in [Threads -> ThreadRecord] /\ content \in [Inodes -> Dumps]
    BY DEF TypeOK, ThreadRecord
  <1>1. CASE UNCHANGED vars
    BY <1>1 DEF vars, procVars, fileVars, history, TypeOK
  <1>2. CASE SetCurrent
    BY <1>2 DEF SetCurrent, procVars, fileVars, history, TypeOK, Tags
  <1>3. CASE Startup
    BY <1>3 DEF Startup, Trouble, fileVars, TypeOK
  <1>4. CASE ReaderStep
    <2>1. content' \in [Inodes -> Dumps]
      BY <1>0, <1>4, FreshType DEF ReaderStep, FindDump, ReadDump, DeleteDump, Free, fileVars
    <2>. QED
      BY <1>4, <2>1 DEF ReaderStep, FindDump, ReadDump, DeleteDump, EndCheck, fileVars, history, TypeOK
  <1>5. CASE Restart
    <2>1. thread' \in [Threads -> ThreadRecord]
      BY <1>5, FreshType DEF Restart
    <2>2. process' \in 1..MaxProcesses /\ process < process' /\ process' \in Nat
      BY <1>5, CrashAssumption DEF Restart, TypeOK
    <2>3. content' \in [Inodes -> Dumps]
      BY <1>0, <1>5, FreshType DEF Restart
    <2>4. unseen' \subseteq (1..process') \X Threads /\ troubled' \subseteq 1..process'
      <3>1. 1..process \subseteq 1..process'
        BY <2>2 DEF TypeOK
      <3>. QED
        BY <1>5, <3>1 DEF Restart, history, TypeOK
    <2>. QED
      BY <1>5, <2>1, <2>2, <2>3, <2>4 DEF Restart, TypeOK, ThreadRecord, Tags
  <1>6. ASSUME NEW t \in Threads, OpenDump(t) PROVE TypeOK'
    <2>1. CASE UNCHANGED <<fileVars, troubled>> /\ Move(t, "open", "reset")
      BY <1>6, <2>1 DEF OpenDump, Move, procVars, fileVars, TypeOK, ThreadStates
    <2>2. ASSUME NEW i, i \in IF linked # Unlinked THEN {linked} ELSE {inodes + 1},
                 thread[t].st = "open",
                 thread' = [thread EXCEPT ![t].st = "build", ![t].fd = i],
                 linked' = i, inodes' = IF linked # Unlinked THEN inodes ELSE i,
                 content' = [content EXCEPT ![i] = NoDump],
                 troubled' \in {troubled, troubled \cup {process}}
          PROVE  TypeOK'
      <3>1. i \in Inodes
        BY <2>2, InodeLeft DEF TypeOK
      <3>2. thread' \in [Threads -> ThreadRecord]
        <4>. DEFINE opening == [thread EXCEPT ![t].st = "build"]
        <4>1. opening \in [Threads -> ThreadRecord]
          BY <1>0 DEF ThreadRecord, ThreadStates
        <4>2. thread' = [opening EXCEPT ![t].fd = i]
          BY <2>2
        <4>. HIDE DEF opening
        <4>. QED
          BY <3>1, <4>1, <4>2 DEF ThreadRecord
      <3>3. inodes' \in 0..Cardinality(Inodes)
        BY <2>2, <3>1, Counting DEF TypeOK, Inodes
      <3>4. content' \in [Inodes -> Dumps]
        BY <1>0, <2>2, FreshType
      <3>5. /\ UNCHANGED <<procVars, disposition, tag, reader, unseen>>
            /\ process \in 1..process
        BY <1>6 DEF OpenDump, TypeOK
      <3>. QED
        BY <2>2, <3>1, <3>2, <3>3, <3>4, <3>5 DEF procVars, TypeOK, ThreadRecord
    <2>. QED
      BY <1>6, <2>1, <2>2 DEF OpenDump, Trouble
  <1>7. ASSUME NEW t \in Threads, BuildDump(t) PROVE TypeOK'
    <2>1. thread' \in [Threads -> ThreadRecord]
      <3>. DEFINE leaving == [thread EXCEPT ![t].st = "write"]
      <3>1. leaving \in [Threads -> ThreadRecord]
        BY <1>0 DEF ThreadRecord, ThreadStates
      <3>2. thread' = [leaving EXCEPT ![t].buf = tag]
        BY <1>7 DEF BuildDump
      <3>. HIDE DEF leaving
      <3>. QED
        BY <3>1, <3>2 DEF ThreadRecord, TypeOK
    <2>. QED
      BY <1>7, <2>1 DEF BuildDump, procVars, fileVars, history, TypeOK, ThreadRecord
  <1>8. ASSUME NEW t \in Threads, WriteDump(t) PROVE TypeOK'
    <2>. DEFINE i == thread[t].fd
                mine == [state |-> "whole", by |-> <<process, t>>, tag |-> thread[t].buf,
                         ran |-> thread[t].ran]
    <2>1. mine \in Dumps /\ [mine EXCEPT !.state = "mixed"] \in Dumps
      BY <1>0 DEF ThreadRecord, Dumps, Faults, TypeOK
    <2>2. content' \in [Inodes -> Dumps]
      <3>. HIDE DEF mine
      <3>1. \/ content' = [content EXCEPT ![i] = mine]
            \/ content' = [content EXCEPT ![i] = [mine EXCEPT !.state = "mixed"]]
            \/ content' = content
        BY <1>8 DEF WriteDump, mine
      <3>. QED
        BY <1>0, <2>1, <3>1
    <2>3. thread' \in [Threads -> ThreadRecord]
      BY <1>0, <1>8 DEF WriteDump, Move, ThreadRecord, ThreadStates
    <2>. QED
      BY <1>8, <2>2, <2>3 DEF WriteDump, procVars, TypeOK, ThreadRecord
  <1>9. ASSUME NEW t \in Threads, ResetDisposition(t) \/ Raise(t) \/ ExitNow(t) PROVE TypeOK'
    <2>1. thread' \in [Threads -> ThreadRecord]
      BY <1>0, <1>9 DEF ResetDisposition, Raise, ExitNow, Move, ThreadRecord, ThreadStates
    <2>. QED
      BY <1>9, <2>1 DEF ResetDisposition, Raise, ExitNow, procVars, fileVars, history, TypeOK, ThreadRecord
  <1>10. ASSUME NEW t \in Threads, NEW s \in Signals, Fault(t, s) PROVE TypeOK'
    <2>1. EnterHandler(t, s) \in ThreadRecord
      BY DEF EnterHandler, Ran, ThreadRecord, ThreadStates, TypeOK, Tags
    <2>2. thread' \in [Threads -> ThreadRecord]
      BY <1>0, <1>10, <2>1 DEF Fault
    <2>. QED
      BY <1>10, <2>2 DEF Fault, fileVars, history, TypeOK, ThreadRecord
  <1>. QED
    BY <1>1, <1>2, <1>3, <1>4, <1>5, <1>6, <1>7, <1>8, <1>9, <1>10 DEF Next, HandlerStep

(* A fault or a step of a handler leaves the other threads where they are.     *)
LEMMA OthersStay ==
    ASSUME TypeOK, NEW t \in Threads, HandlerStep(t) \/ \E s \in Signals : Fault(t, s),
           NEW u \in Threads, u # t
    PROVE  thread'[u] = thread[u]
  <1>1. CASE OpenDump(t)
    BY <1>1 DEF OpenDump, Move, TypeOK
  <1>2. CASE BuildDump(t) \/ WriteDump(t) \/ ResetDisposition(t) \/ Raise(t) \/ ExitNow(t)
    BY <1>2 DEF BuildDump, WriteDump, ResetDisposition, Raise, ExitNow, Move, TypeOK
  <1>3. ASSUME NEW s \in Signals, Fault(t, s) PROVE thread'[u] = thread[u]
    BY <1>3 DEF Fault, TypeOK
  <1>. QED
    BY <1>1, <1>2, <1>3 DEF HandlerStep

(* The one thread that moves, action by action.                              *)
LEMMA Mover ==
    ASSUME TypeOK, NEW t \in Threads, HandlerStep(t) \/ \E s \in Signals : Fault(t, s)
    PROVE  /\ UNCHANGED <<process, tag, reader>>
           /\ \/ /\ thread[t].st = "run" /\ thread'[t].st \in {"run", "open", "reset"}
                 /\ thread'[t].fd = Unlinked \/ thread'[t] = thread[t]
                 /\ thread'[t] = thread[t] \/ thread'[t].ran = Ran(t)
                 /\ UNCHANGED <<fileVars, history>>
              \/ /\ thread[t].st = "open" /\ thread'[t].st = "build"
                 /\ thread'[t].fd \in Inodes \cup {inodes + 1} /\ linked' = thread'[t].fd
                 /\ linked # Unlinked => linked' = linked
                 /\ inodes' \in {inodes, inodes + 1}
                 /\ content' = [content EXCEPT ![linked'] = NoDump]
                 /\ thread'[t].ran = thread[t].ran
                 /\ unseen' = unseen
                 /\ Trouble(reader # "idle" \/ Opened # {} \/ Whole(linked') \cap unseen # {})
              \/ /\ thread[t].st = "build" /\ thread'[t].st = "write" /\ thread'[t].buf = tag
                 /\ thread'[t].fd = thread[t].fd /\ thread'[t].ran = thread[t].ran
                 /\ UNCHANGED <<fileVars, history>>
              \/ /\ thread[t].st = "write" /\ thread'[t].st = "reset"
                 /\ thread'[t].ran = thread[t].ran /\ thread'[t].fd = thread[t].fd
                 /\ WriteDump(t)
              \/ /\ thread[t].st \in {"open", "reset", "raise", "exit"}
                 /\ thread'[t].st \in {"reset", "raise", "exit"}
                 /\ thread'[t].ran = thread[t].ran /\ thread'[t].fd = thread[t].fd
                 /\ UNCHANGED <<fileVars, history>>
  <1>1. CASE OpenDump(t)
    <2>1. CASE UNCHANGED <<fileVars, troubled>> /\ Move(t, "open", "reset")
      BY <1>1, <2>1 DEF OpenDump, Move, procVars, history, TypeOK
    <2>2. ASSUME NEW i, i \in IF linked # Unlinked THEN {linked} ELSE {inodes + 1},
                 thread[t].st = "open",
                 thread' = [thread EXCEPT ![t].st = "build", ![t].fd = i],
                 linked' = i, inodes' = IF linked # Unlinked THEN inodes ELSE i,
                 content' = [content EXCEPT ![i] = NoDump], unseen' = unseen,
                 Trouble(reader # "idle" \/ Opened # {} \/ Whole(i) \cap unseen # {})
          PROVE  /\ thread[t].st = "open" /\ thread'[t].st = "build"
                 /\ thread'[t].fd \in Inodes \cup {inodes + 1} /\ linked' = thread'[t].fd
                 /\ linked # Unlinked => linked' = linked
                 /\ inodes' \in {inodes, inodes + 1}
                 /\ content' = [content EXCEPT ![linked'] = NoDump]
                 /\ thread'[t].ran = thread[t].ran
                 /\ unseen' = unseen
                 /\ Trouble(reader # "idle" \/ Opened # {} \/ Whole(linked') \cap unseen # {})
      BY <2>2 DEF TypeOK
    <2>. QED
      BY <1>1, <2>1, <2>2 DEF OpenDump, procVars
  <1>2. CASE BuildDump(t)
    BY <1>2 DEF BuildDump, procVars, TypeOK
  <1>3. CASE WriteDump(t)
    BY <1>3 DEF WriteDump, Move, procVars, TypeOK
  <1>4. CASE ResetDisposition(t) \/ Raise(t) \/ ExitNow(t)
    BY <1>4 DEF ResetDisposition, Raise, ExitNow, Move, procVars, TypeOK
  <1>5. ASSUME NEW s \in Signals, Fault(t, s)
        PROVE  /\ UNCHANGED <<process, tag, reader, fileVars, history>>
               /\ thread[t].st = "run"
               /\ thread'[t] = thread[t] \/ thread'[t] = EnterHandler(t, s)
    BY <1>5 DEF Fault, InHandler, TypeOK
  <1>6. ASSUME NEW s \in Signals
        PROVE  /\ EnterHandler(t, s).st \in {"open", "reset"} /\ EnterHandler(t, s).fd = Unlinked
               /\ EnterHandler(t, s).ran = Ran(t)
    BY DEF EnterHandler
  <1>. QED
    BY <1>1, <1>2, <1>3, <1>4, <1>5, <1>6 DEF HandlerStep

-----------------------------------------------------------------------------
(* The count of files is inductive.                                          *)

LEMMA InitFiles == Init => FilesCounted
  <1>. SUFFICES ASSUME Init PROVE FilesCounted
    OBVIOUS
  <1>1. Opened = {} /\ process = 1 /\ inodes = 0 /\ reader = "idle"
    BY DEF Init, Opened, Fresh
  <1>2. Cardinality(Opened) = 0
    BY <1>1, FS_EmptySet
  <1>3. \A t \in Threads : thread[t] = Fresh
    BY DEF Init
  <1>. QED
    BY <1>1, <1>2, <1>3, Counting DEF FilesCounted, Fresh

LEMMA NextFiles == TypeOK /\ FilesCounted /\ [Next]_vars => FilesCounted'
  <1>. SUFFICES ASSUME TypeOK, FilesCounted, [Next]_vars PROVE FilesCounted'
    OBVIOUS
  <1>. DEFINE n == Cardinality(Threads)
              k == Cardinality(Opened)
  <1>0. /\ IsFiniteSet(Opened) /\ k \in Nat /\ k <= n /\ n \in Nat
        /\ process - 1 \in Nat /\ (process - 1) * n \in Nat /\ inodes \in Nat
    <2>1. IsFiniteSet(Threads) /\ Opened \subseteq Threads
      BY CrashAssumption DEF Opened
    <2>2. IsFiniteSet(Opened) /\ k <= n /\ k \in Nat /\ n \in Nat
      BY <2>1, FS_Subset, FS_CardinalityType
    <2>3. process - 1 \in Nat /\ inodes \in Nat
      BY Counting, CrashAssumption DEF TypeOK
    <2>. QED
      BY <2>2, <2>3
  <1>1. ASSUME UNCHANGED <<process, thread, inodes>>,
               reader' \in {"read", "delete"} => linked' # Unlinked
        PROVE  FilesCounted'
    BY <1>1 DEF FilesCounted, Opened
  <1>2. CASE UNCHANGED vars \/ SetCurrent \/ Startup \/ ReaderStep
    <2>1. UNCHANGED <<process, thread, inodes>>
      BY <1>2 DEF vars, procVars, fileVars, SetCurrent, Startup,
                  ReaderStep, FindDump, ReadDump, DeleteDump
    <2>2. reader' \in {"read", "delete"} => linked' # Unlinked
      BY <1>2 DEF vars, procVars, fileVars, SetCurrent, Startup,
                  ReaderStep, FindDump, ReadDump, DeleteDump, EndCheck, FilesCounted
    <2>. QED
      BY <1>1, <2>1, <2>2
  <1>3. CASE Restart
    <2>1. /\ process' = process + 1 /\ inodes' = inodes /\ reader' = "idle"
          /\ \A t \in Threads : thread'[t] = Fresh
      BY <1>3 DEF Restart
    <2>2. Opened' = {} /\ Cardinality(Opened') = 0
      BY <2>1, FS_EmptySet DEF Opened, Fresh
    <2>3. inodes <= (process - 1) * n + n
      BY <1>0 DEF FilesCounted
    <2>4. (process - 1) * n + n = (process' - 1) * n
      <3>. DEFINE p == process - 1
      <3>1. p \in Nat /\ process' - 1 = p + 1
        BY <1>0, <2>1 DEF TypeOK
      <3>. HIDE DEF p, n
      <3>2. p * n + n = (p + 1) * n
        BY <1>0, <3>1, SMTT(30)
      <3>. QED
        BY <3>1, <3>2 DEF p
    <2>5. inodes' <= (process' - 1) * n + Cardinality(Opened')
      <3>. HIDE DEF n
      <3>. QED
        BY <1>0, <2>1, <2>2, <2>3, <2>4
    <2>. QED
      BY <2>1, <2>5 DEF FilesCounted, Fresh
  <1>4. ASSUME NEW t \in Threads, HandlerStep(t) \/ \E s \in Signals : Fault(t, s)
        PROVE  FilesCounted'
    <2>1. \A u \in Threads : u # t => thread'[u] = thread[u]
      BY <1>4, OthersStay
    <2>2. process' = process /\ reader' = reader
      BY <1>4, Mover
    <2>3. /\ thread'[t].st \in {"run", "open"} => thread'[t].fd = Unlinked
          /\ thread'[t].st \in {"build", "write"} => thread'[t].fd # Unlinked
      BY <1>4, Mover DEF FilesCounted, TypeOK, Inodes, Unlinked
    <2>4. linked # Unlinked => linked' # Unlinked
      BY <1>4, Mover DEF WriteDump, fileVars
    <2>5. CASE thread[t].st = "open" /\ thread'[t].st = "build"
      <3>1. t \notin Opened /\ Opened' = Opened \cup {t}
        BY <2>1, <2>3, <2>5 DEF FilesCounted, Opened
      <3>2. Cardinality(Opened') = k + 1
        BY <1>0, <3>1, FS_AddElement
      <3>3. inodes' <= inodes + 1
        BY <1>0, <1>4, <2>5, Mover
      <3>4. inodes' \in Nat
        BY <1>0, <1>4, <2>5, Mover
      <3>5. inodes' <= (process' - 1) * n + Cardinality(Opened')
        <4>. HIDE DEF n
        <4>1. inodes <= (process - 1) * n + k
          BY DEF FilesCounted, n
        <4>. QED
          BY <1>0, <2>2, <3>2, <3>3, <3>4, <4>1
      <3>. QED
        BY <2>1, <2>2, <2>3, <2>4, <3>5 DEF FilesCounted
    <2>6. CASE ~(thread[t].st = "open" /\ thread'[t].st = "build")
      <3>1. inodes' = inodes
        BY <1>4, <2>6, Mover DEF WriteDump, fileVars
      <3>2. thread'[t].fd = thread[t].fd
        BY <1>4, <2>6, Mover DEF FilesCounted
      <3>3. Opened' = Opened
        BY <2>1, <3>2 DEF Opened
      <3>. QED
        BY <2>1, <2>2, <2>3, <2>4, <3>1, <3>3 DEF FilesCounted
    <2>. QED
      BY <2>5, <2>6
  <1>. QED
    BY <1>2, <1>3, <1>4 DEF Next

(* Every variable keeps its type: for any number of threads and of restarts    *)
(* the handlers never create more files than there are handlers to run.      *)
THEOREM TypeCorrect == Spec => []TypeOK
  <1>1. Init => TypeOK /\ FilesCounted
    BY InitType, InitFiles
  <1>2. TypeOK /\ FilesCounted /\ [Next]_vars => (TypeOK /\ FilesCounted)'
    BY NextType, NextFiles
  <1>. QED
    BY <1>1, <1>2, PTL DEF Spec

-----------------------------------------------------------------------------
(* The blame.                                                               *)

LEMMA NextTag == TypeOK /\ TagHeld /\ [Next]_vars => TagHeld'
  <1>. SUFFICES ASSUME TypeOK, TagHeld, [Next]_vars PROVE TagHeld'
    OBVIOUS
  <1>1. CASE UNCHANGED vars \/ Startup \/ ReaderStep
    BY <1>1 DEF vars, Startup, ReaderStep, FindDump, ReadDump, DeleteDump, TagHeld, InHandler
  <1>2. CASE SetCurrent
    BY <1>2 DEF SetCurrent, TagHeld, InHandler
  <1>3. CASE Restart
    BY <1>3 DEF Restart, TagHeld, InHandler, Fresh
  <1>4. ASSUME NEW t \in Threads, HandlerStep(t) \/ \E s \in Signals : Fault(t, s)
        PROVE  TagHeld'
    <2>1. \A u \in Threads : u # t => thread'[u] = thread[u]
      BY <1>4, OthersStay
    <2>2. tag' = tag
      BY <1>4, Mover
    <2>3. /\ (thread'[t].st # "run" /\ thread'[t].ran # Idle) => t = Dispatcher
          /\ (thread'[t].st \in {"open", "build"} /\ thread'[t].ran # Idle) => tag = thread'[t].ran
          /\ (thread'[t].st = "write" /\ thread'[t].ran # Idle) => thread'[t].buf = thread'[t].ran
      BY <1>4, Mover DEF TagHeld, InHandler, Ran
    <2>. QED
      BY <2>1, <2>2, <2>3 DEF TagHeld, InHandler
  <1>. QED
    BY <1>1, <1>2, <1>3, <1>4 DEF Next

LEMMA NextBlame == TypeOK /\ TagHeld /\ DumpTellsFault /\ [Next]_vars => DumpTellsFault'
  <1>. SUFFICES ASSUME TypeOK, TagHeld, DumpTellsFault, [Next]_vars,
                       NEW i \in Inodes, content'[i].state = "whole", content'[i].ran # Idle
                PROVE  content'[i].tag = content'[i].ran
    BY DEF DumpTellsFault
  <1>1. CASE content' = content
    BY <1>1 DEF DumpTellsFault
  <1>2. ASSUME NEW t \in Threads, WriteDump(t)
        PROVE  content'[i].tag = content'[i].ran
    <2>. DEFINE j == thread[t].fd
                mine == [state |-> "whole", by |-> <<process, t>>, tag |-> thread[t].buf,
                         ran |-> thread[t].ran]
    <2>1. thread[t].ran # Idle => thread[t].buf = thread[t].ran
      BY <1>2 DEF WriteDump, Move, TagHeld
    <2>2. CASE content' = [content EXCEPT ![j] = mine]
      BY <2>1, <2>2 DEF DumpTellsFault, TypeOK
    <2>3. CASE content' = [content EXCEPT ![j] = [mine EXCEPT !.state = "mixed"]]
      BY <2>3 DEF DumpTellsFault, TypeOK
    <2>. QED
      BY <1>1, <1>2, <2>2, <2>3 DEF WriteDump
  <1>3. ASSUME NEW t \in Threads, HandlerStep(t) \/ \E s \in Signals : Fault(t, s)
        PROVE  content'[i].tag = content'[i].ran
    <2>1. CASE content' = [content EXCEPT ![linked'] = NoDump]
      BY <2>1 DEF NoDump, DumpTellsFault, TypeOK
    <2>. QED
      BY <1>1, <1>2, <1>3, <2>1, Mover DEF fileVars
  <1>4. CASE UNCHANGED vars \/ SetCurrent \/ Startup \/ FindDump \/ ReadDump
    BY <1>1, <1>4 DEF vars, fileVars, SetCurrent, Startup, FindDump, ReadDump
  <1>5. CASE DeleteDump \/ Restart
    <2>1. content'[i] = content[i]
      BY <1>5 DEF DeleteDump, Restart, Free, NoDump, TypeOK
    <2>. QED
      BY <2>1 DEF DumpTellsFault
  <1>. QED
    BY <1>3, <1>4, <1>5 DEF Next, ReaderStep

(* A complete dump of a fault inside a benchmark names that benchmark, however  *)
(* many threads fault and relaunch meanwhile and whatever was written over    *)
(* it: diag::set_current cannot run between the fault and the write.         *)
THEOREM BlameIsRight == Spec => []DumpTellsFault
  <1>1. Init => TagHeld /\ DumpTellsFault
    BY DEF Init, TagHeld, DumpTellsFault, Fresh, InHandler, NoDump
  <1>. QED
    BY <1>1, NextTag, NextBlame, TypeCorrect, PTL DEF Spec

-----------------------------------------------------------------------------
(* The dump is kept.                                                        *)

LEMMA NextUntroubled == TypeOK /\ FilesCounted /\ Untroubled /\ [Next]_vars => Untroubled'
  <1>. SUFFICES ASSUME TypeOK, FilesCounted, Untroubled, [Next]_vars PROVE Untroubled'
    OBVIOUS
  <1>1. CASE UNCHANGED vars \/ SetCurrent
    BY <1>1 DEF vars, procVars, fileVars, history, SetCurrent, Untroubled, Writing, Opened, Whole
  <1>2. CASE Startup
    BY <1>2 DEF Startup, Trouble, fileVars, Untroubled, Writing, Opened, Whole
  <1>3. CASE Restart
    <2>1. process' \notin troubled'
      BY <1>3 DEF Restart, history, TypeOK
    <2>2. reader' = "idle" /\ \A t \in Threads : thread'[t] = Fresh
      BY <1>3 DEF Restart
    <2>. QED
      BY <2>2 DEF Untroubled, Writing, Opened, Fresh
  <1>4. CASE FindDump \/ ReadDump
    BY <1>4 DEF FindDump, ReadDump, EndCheck, fileVars, history, Untroubled, Writing, Opened, Whole
  <1>5. CASE DeleteDump
    BY <1>5 DEF DeleteDump, EndCheck, history, Untroubled, Writing, Opened
  <1>6. ASSUME NEW t \in Threads, HandlerStep(t) \/ \E s \in Signals : Fault(t, s),
               process' \notin troubled'
        PROVE  Untroubled'
    <2>1. \A u \in Threads : u # t => thread'[u] = thread[u]
      BY <1>6, OthersStay
    <2>2. UNCHANGED <<process, reader>> /\ process \notin troubled
      <3>1. troubled \subseteq troubled'
        BY <1>6, Mover DEF Trouble, WriteDump, history
      <3>2. process' = process /\ reader' = reader
        BY <1>6, Mover
      <3>. QED
        BY <1>6, <3>1, <3>2
    <2>3. CASE /\ thread[t].st = "open" /\ thread'[t].st = "build"
               /\ linked' = thread'[t].fd
               /\ content' = [content EXCEPT ![linked'] = NoDump]
               /\ Trouble(reader # "idle" \/ Opened # {} \/ Whole(linked') \cap unseen # {})
      <3>1. reader = "idle" /\ Opened = {}
        BY <1>6, <2>2, <2>3 DEF Trouble
      <3>2. linked' \in Inodes /\ content'[linked'].state = "empty"
        BY <1>6, <2>3, NextType DEF TypeOK, FilesCounted, NoDump, Next
      <3>3. \A u \in Threads : u # t => ~Writing(u)' /\ u \notin Opened'
        BY <2>1, <3>1 DEF FilesCounted, Writing, Opened
      <3>. QED
        BY <2>2, <2>3, <3>1, <3>2, <3>3 DEF Untroubled, Opened
    <2>4. CASE thread[t].st = "write" /\ WriteDump(t)
      <3>1. t \in Opened /\ Writing(t) /\ reader = "idle"
        BY <2>2, <2>4 DEF FilesCounted, Opened, Writing, Untroubled
      <3>2. thread'[t].st = "reset" /\ thread'[t].fd = thread[t].fd
        BY <2>4 DEF WriteDump, Move, TypeOK
      <3>3. Opened' = Opened
        BY <2>1, <3>2 DEF Opened
      <3>4. \A u \in Threads : ~Writing(u)'
        BY <2>1, <2>2, <3>1, <3>2 DEF FilesCounted, Opened, Writing, Untroubled
      <3>. QED
        BY <2>2, <3>1, <3>3, <3>4 DEF Untroubled
    <2>5. CASE /\ UNCHANGED <<fileVars, history>> /\ thread'[t].fd = thread[t].fd
               /\ Writing(t)' => Writing(t)
      <3>1. Opened' = Opened /\ \A u \in Threads : Writing(u)' => Writing(u)
        BY <2>1, <2>5 DEF Opened, Writing
      <3>2. \A u \in Threads : thread'[u].fd = thread[u].fd
        BY <2>1, <2>5
      <3>. QED
        BY <2>2, <2>5, <3>1, <3>2 DEF Untroubled, fileVars, history, Whole
    <2>. QED
      BY <1>6, <2>3, <2>4, <2>5, Mover DEF FilesCounted, Writing
  <1>. QED
    BY <1>1, <1>2, <1>3, <1>4, <1>5, <1>6 DEF Next, ReaderStep, Untroubled

(* What is not lost before a step is not lost by it.                         *)
LEMMA NextKept ==
    TypeOK /\ FilesCounted /\ Untroubled /\ DumpKept /\ [Next]_vars => DumpKept'
  <1>. SUFFICES ASSUME TypeOK, FilesCounted, Untroubled, DumpKept, [Next]_vars,
                       NEW f \in unseen', \A p \in f[1]..process' : p \notin troubled'
                PROVE  Held(f)'
    BY DEF DumpKept
  <1>1. /\ process \in Nat /\ process' \in Nat /\ process <= process'
        /\ troubled \subseteq troubled'
    <2>1. process \in Nat
      BY DEF TypeOK
    <2>2. CASE UNCHANGED vars \/ SetCurrent \/ Startup \/ ReaderStep
      BY <2>1, <2>2 DEF vars, procVars, history, SetCurrent, Startup, Trouble, ReaderStep,
                        FindDump, ReadDump, DeleteDump
    <2>3. CASE Restart
      BY <2>1, <2>3 DEF Restart, history
    <2>4. ASSUME NEW t \in Threads, HandlerStep(t) \/ \E s \in Signals : Fault(t, s)
          PROVE  process' = process /\ troubled \subseteq troubled'
      BY <2>4, Mover DEF Trouble, WriteDump, history
    <2>. QED
      BY <2>1, <2>2, <2>3, <2>4 DEF Next
  <1>2. ASSUME f \in unseen
        PROVE  Held(f) /\ process \notin troubled /\ process' \notin troubled'
    <2>1. f[1] \in 1..process
      BY <1>2 DEF TypeOK
    <2>2. process \in f[1]..process' /\ process' \in f[1]..process'
      BY <1>1, <2>1
    <2>3. \A p \in f[1]..process : p \notin troubled
      BY <1>1, <2>1
    <2>. QED
      BY <1>1, <1>2, <2>2, <2>3 DEF DumpKept
  <1>3. CASE UNCHANGED vars \/ SetCurrent \/ Startup \/ FindDump \/ ReadDump
    <2>1. f \in unseen /\ UNCHANGED fileVars
      BY <1>3 DEF vars, SetCurrent, Startup, FindDump, ReadDump, history
    <2>. QED
      BY <1>2, <2>1 DEF Held, Whole, fileVars
  <1>4. CASE Restart
    <2>1. f \in unseen /\ linked' = linked /\ (linked \in Inodes => content'[linked] = content[linked])
      BY <1>4 DEF Restart, history
    <2>. QED
      BY <1>2, <2>1 DEF Held, Whole, TypeOK
  <1>5. CASE DeleteDump
    <2>1. f \in unseen /\ Whole(linked) \cap unseen = {}
      BY <1>2, <1>5 DEF DeleteDump, history, Untroubled
    <2>. QED
      BY <1>2, <2>1 DEF Held
  <1>6. ASSUME NEW t \in Threads, HandlerStep(t) \/ \E s \in Signals : Fault(t, s)
        PROVE  Held(f)'
    <2>1. CASE UNCHANGED <<fileVars, history>>
      BY <1>2, <2>1 DEF fileVars, history, Held, Whole
    <2>2. CASE /\ unseen' = unseen
               /\ linked # Unlinked => linked' = linked
               /\ Trouble(reader # "idle" \/ Opened # {} \/ Whole(linked') \cap unseen # {})
      <3>1. process' = process
        BY <1>6, Mover
      <3>2. Whole(linked') \cap unseen = {}
        BY <1>2, <2>2, <3>1 DEF Trouble
      <3>. QED
        BY <1>2, <2>2, <3>2 DEF Held
    <2>3. CASE thread[t].st = "write" /\ WriteDump(t)
      <3>1. process' = process /\ linked' = linked /\ thread[t].fd # Unlinked
        BY <2>3 DEF WriteDump, procVars, FilesCounted
      <3>2. process \notin troubled
        <4>1. CASE f \in unseen
          BY <1>2, <4>1
        <4>2. CASE f \notin unseen
          <5>1. f[1] = process
            BY <2>3, <4>2 DEF WriteDump
          <5>. QED
            BY <1>1, <3>1, <5>1
        <4>. QED
          BY <4>1, <4>2
      <3>3. thread[t].fd = linked /\ content[linked].state = "empty" /\ linked \in Inodes
        BY <2>3, <3>1, <3>2 DEF Untroubled, Writing, TypeOK
      <3>4. f \notin unseen
        BY <1>2, <3>3 DEF Held, Whole
      <3>5. /\ f = <<process, t>>
            /\ content' = [content EXCEPT ![linked] =
                  [state |-> "whole", by |-> <<process, t>>, tag |-> thread[t].buf,
                   ran |-> thread[t].ran]]
        BY <2>3, <3>3, <3>4 DEF WriteDump
      <3>. QED
        BY <3>1, <3>3, <3>5 DEF Held, Whole, TypeOK
    <2>. QED
      BY <1>6, <2>1, <2>2, <2>3, Mover
  <1>. QED
    BY <1>3, <1>4, <1>5, <1>6 DEF Next, ReaderStep

(* A dump that was written completely is under its name until a screen has     *)
(* shown it, over any number of faults, failed reads, failed deletes,         *)
(* relaunches and restarts, unless its process or a later one was in one of   *)
(* the dangers of Trouble: O_TRUNC cleared a dump nobody had seen or another  *)
(* handler was writing, or the start-up check met a handler at work.  Each of *)
(* them can lose a dump; nothing else does.                                 *)
THEOREM DumpIsKept == Spec => []DumpKept
  <1>1. Init => Untroubled /\ DumpKept /\ FilesCounted
    BY InitFiles DEF Init, Untroubled, DumpKept, Fresh, Writing, Opened
  <1>. QED
    BY <1>1, InitType, NextType, NextFiles, NextUntroubled, NextKept, PTL DEF Spec
=============================================================================
