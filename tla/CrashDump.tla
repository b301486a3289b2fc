----------------------------- MODULE CrashDump -----------------------------
(***************************************************************************)
(* The fatal-signal handler of jni.cpp and the start-up check of             *)
(* MainActivity.kt that consumes its dump, system call by system call.       *)
(*                                                                          *)
(* While one thread is in the handler every other thread of the process      *)
(* keeps running: it may fault too, and the main thread may be creating an   *)
(* activity: the first one, or after a relaunch that left the faulting call  *)
(* as an orphan.  The kernel's part is what Linux does: SA_RESETHAND puts the     *)
(* signal back to SIG_DFL on delivery, and without SA_NODEFER the signal is   *)
(* blocked in the handling thread.                                          *)
(***************************************************************************)
EXTENDS Naturals, FiniteSets

CONSTANTS
    Threads,        \* native threads that may fault
    Dispatcher,     \* the one that runs benchmarks and sets the tag
    Signals,        \* the signals install_signal_handlers names
    Names,          \* benchmark names
    Idle,           \* "(idle)"
    NoSignal,       \* no signal
    MaxProcesses    \* bound: processes in a behaviour

ASSUME CrashAssumption == /\ Dispatcher \in Threads
                          /\ IsFiniteSet(Threads)
                          /\ Idle \notin Names /\ NoSignal \notin Signals
                          /\ MaxProcesses \in Nat \ {0}

Tags == Names \cup {Idle}

(* Every handler creates at most one file, and a thread faults at most once   *)
(* in the life of its process.                                              *)
Inodes == 1..(Cardinality(Threads) * MaxProcesses)
Unlinked == 0

(* A fault is named by the process and the thread it happened in.            *)
Faults == (1..MaxProcesses) \X Threads

VARIABLES
    process,      \* number of the current process
    ended,        \* how it ended: "no", "signal" (tombstone) or "exit"
    disposition,  \* disposition[s]: "handler" or "default"
    pathSet,      \* g_crash_dump_path is set
    created,      \* an onCreate of this process has returned
    thread,       \* thread[t]: where t is, its signal, its fd and its buffer
    tag,          \* diag::current_bench
    linked,       \* the inode last-native-crash.json names, or Unlinked
    inodes,       \* how many inodes were created
    content,      \* content[i]: what inode i holds
    reader,       \* checkForPreviousCrash on the main thread
    unseen,       \* history: the faults whose whole dump was written, and put on no
                  \*   screen since
    troubled      \* history: the processes in which a dump was in danger, see Trouble

fileVars == <<linked, inodes, content>>
procVars == <<process, ended, pathSet, created>>
history == <<unseen, troubled>>
vars == <<procVars, disposition, thread, tag, fileVars, reader, history>>

(* A dump's text is the tag it names and, in its time, signal and addresses,   *)
(* the fault it tells of; "ran" is a history field: what the faulting thread *)
(* was really running.                                                      *)
NoDump == [state |-> "empty", by |-> <<1, Dispatcher>>, tag |-> Idle, ran |-> Idle]
Dumps == [state : {"empty", "whole", "mixed"}, by : Faults, tag : Tags, ran : Tags]

ThreadStates == {"run", "open", "build", "write", "reset", "raise", "exit"}
Fresh == [st |-> "run", sig |-> NoSignal, fd |-> Unlinked, buf |-> Idle, ran |-> Idle]

TypeOK ==
    /\ process \in 1..MaxProcesses
    /\ ended \in {"no", "signal", "exit"}
    /\ disposition \in [Signals -> {"handler", "default"}]
    /\ pathSet \in BOOLEAN /\ created \in BOOLEAN
    /\ thread \in [Threads -> [st : ThreadStates, sig : Signals \cup {NoSignal},
                               fd : Inodes \cup {Unlinked}, buf : Tags, ran : Tags]]
    /\ tag \in Tags
    /\ linked \in Inodes \cup {Unlinked}
    /\ inodes \in 0..Cardinality(Inodes)
    /\ content \in [Inodes -> Dumps]
    /\ reader \in {"idle", "find", "read", "delete"}
    /\ unseen \subseteq (1..process) \X Threads
    /\ troubled \subseteq 1..process

(* JNI_OnLoad has installed the handlers; no activity has been created yet. *)
Init ==
    /\ process = 1 /\ ended = "no"
    /\ disposition = [s \in Signals |-> "handler"]
    /\ pathSet = FALSE /\ created = FALSE
    /\ thread = [t \in Threads |-> Fresh]
    /\ tag = Idle
    /\ linked = Unlinked /\ inodes = 0
    /\ content = [i \in Inodes |-> NoDump]
    /\ reader = "idle"
    /\ unseen = {} /\ troubled = {}

Live == ended = "no"
InHandler(t) == thread[t].st # "run"
Move(t, from, to) == /\ Live
                     /\ thread[t].st = from
                     /\ thread' = [thread EXCEPT ![t].st = to]

-----------------------------------------------------------------------------
(* The healthy process *)

(* set_current, before and after a benchmark: jobs are tapped once an onCreate *)
(* has returned, and one left by an earlier activity goes on through the next. *)
SetCurrent == /\ Live /\ created /\ ~InHandler(Dispatcher)
              /\ IF tag = Idle THEN tag' \in Names ELSE tag' = Idle
              /\ UNCHANGED <<procVars, disposition, thread, fileVars, reader, history>>

(* The thread has the dump open, or had it open in this process.              *)
Writing(t) == thread[t].st \in {"build", "write"}
Opened == {t \in Threads : thread[t].fd # Unlinked}

(* The faults of which inode i holds the whole dump: one or none.             *)
Whole(i) == IF content[i].state = "whole" THEN {content[i].by} ELSE {}

(* What lets a dump get lost: the check reads and deletes while a handler has  *)
(* the file open, or a handler truncates what another one of its process is   *)
(* writing, or what no screen has shown.                                    *)
Trouble(happens) == troubled' = IF happens THEN troubled \cup {process} ELSE troubled

(* onCreate begins with nativeSetCrashDir; checkForPreviousCrash is its end.  *)
(* A relaunch may begin another one at any time.                            *)
Startup ==
    /\ Live /\ reader = "idle"
    /\ pathSet' = TRUE
    /\ reader' = "find"
    /\ Trouble(\E t \in Threads : Writing(t))
    /\ UNCHANGED <<process, ended, created, disposition, thread, tag, fileVars, unseen>>

EndCheck == reader' = "idle" /\ created' = TRUE

(* dump.exists() *)
FindDump == /\ Live /\ reader = "find"
            /\ IF linked # Unlinked THEN reader' = "read" /\ UNCHANGED created ELSE EndCheck
            /\ UNCHANGED <<process, ended, pathSet, disposition, thread, tag, fileVars, history>>

ReadOrDelete == /\ Live /\ reader = "read" \* mutant: a failed read does not return
                /\ \/ unseen' = unseen \ Whole(linked)
                   \/ UNCHANGED unseen
                /\ reader' = "delete"
                /\ UNCHANGED <<procVars, disposition, thread, tag, fileVars, troubled>>

(* dump.readText(), shown on the screen whatever it holds, or returns. *)
ReadDump == /\ Live /\ reader = "read"
            /\ \/ unseen' = unseen \ Whole(linked) /\ reader' = "delete" /\ UNCHANGED created
               \/ UNCHANGED unseen /\ EndCheck
            /\ UNCHANGED <<process, ended, pathSet, disposition, thread, tag, fileVars, troubled>>

(* The kernel frees an inode that has neither a name nor an open descriptor. *)
Free(i) == [content EXCEPT ![i] = NoDump]
InUse(i) == \E t \in Threads : Writing(t) /\ thread[t].fd = i

(* dump.delete(), whose failure nobody looks at. *)
DeleteDump == /\ Live /\ reader = "delete"
              /\ \/ UNCHANGED <<linked, content>>
                 \/ /\ linked' = Unlinked
                    /\ content' = IF InUse(linked) THEN content ELSE Free(linked)
              /\ EndCheck
              /\ UNCHANGED <<process, ended, pathSet, disposition, thread, tag, inodes, history>>

-----------------------------------------------------------------------------
(* The fatal signal *)

Ran(t) == IF t = Dispatcher THEN tag ELSE Idle

EnterHandler(t, s) == [st |-> IF pathSet THEN "open" ELSE "reset", sig |-> s,
                       fd |-> Unlinked, buf |-> Idle, ran |-> Ran(t)]

(* The kernel delivers s to the thread that caused it: to the handler, once    *)
(* (SA_RESETHAND); a second time to the default action, death.  Without a    *)
(* path the handler writes nothing.  The handlers are the process's: any      *)
(* native thread may fault, also before and during the first onCreate; the   *)
(* one of the benchmarks exists only after it.                              *)
Fault(t, s) ==
    /\ Live /\ ~InHandler(t)
    /\ t = Dispatcher => created
    /\ IF disposition[s] = "default"
       THEN /\ ended' = "signal"
            /\ UNCHANGED <<disposition, thread>>
       ELSE /\ disposition' = [disposition EXCEPT ![s] = "default"]
            /\ thread' = [thread EXCEPT ![t] = EnterHandler(t, s)]
            /\ UNCHANGED ended
    /\ UNCHANGED <<process, pathSet, created, tag, fileVars, reader, history>>

(* open(O_WRONLY | O_CREAT | O_TRUNC): the dump of an earlier fault is gone.    *)
(* If it fails the dump is skipped.                                         *)
OpenDump(t) ==
    /\ \/ \E i \in IF linked # Unlinked THEN {linked} ELSE {inodes + 1} :
              /\ Live /\ thread[t].st = "open"
              /\ thread' = [thread EXCEPT ![t].st = "build", ![t].fd = i]
              /\ linked' = i
              /\ inodes' = IF linked # Unlinked THEN inodes ELSE i
              /\ content' = [content EXCEPT ![i] = NoDump]
              /\ Trouble(reader # "idle" \/ Opened # {} \/ Whole(i) \cap unseen # {})
       \/ Move(t, "open", "reset") /\ UNCHANGED <<fileVars, troubled>>
    /\ UNCHANGED <<procVars, disposition, tag, reader, unseen>>

BuildUntagged(t) == \* mutant: the tag is reset before it is read
    /\ Live /\ thread[t].st = "build"
    /\ thread' = [thread EXCEPT ![t].st = "write", ![t].buf = Idle]
    /\ UNCHANGED <<procVars, disposition, tag, fileVars, reader, history>>

(* diag::get_current() and snprintf into the stack buffer. *)
BuildDump(t) ==
    /\ Live /\ thread[t].st = "build"
    /\ thread' = [thread EXCEPT ![t].st = "write", ![t].buf = tag]
    /\ UNCHANGED <<procVars, disposition, tag, fileVars, reader, history>>

(* One write() at offset 0, then close().  Over another handler's text the    *)
(* tail of the longer one may survive.  A failing write is ignored.         *)
WriteDump(t) ==
    LET i == thread[t].fd
        mine == [state |-> "whole", by |-> <<process, t>>, tag |-> thread[t].buf,
                 ran |-> thread[t].ran] IN
    /\ Move(t, "write", "reset")
    /\ \/ content' = [content EXCEPT ![i] = mine] /\ unseen' = unseen \cup {<<process, t>>}
       \/ /\ content[i].state # "empty"
          /\ content' = [content EXCEPT ![i] = [mine EXCEPT !.state = "mixed"]]
          /\ UNCHANGED unseen
       \/ UNCHANGED <<content, unseen>>
    /\ UNCHANGED <<procVars, disposition, tag, linked, inodes, reader, troubled>>

ResetToIgnore(t) == \* mutant: SIG_IGN for SIG_DFL
    /\ Move(t, "reset", "raise")
    /\ disposition' = [disposition EXCEPT ![thread[t].sig] = "ignore"]
    /\ UNCHANGED <<procVars, tag, fileVars, reader, history>>

(* std::signal(sig, SIG_DFL): the mask is not touched. *)
ResetDisposition(t) ==
    /\ Move(t, "reset", "raise")
    /\ disposition' = [disposition EXCEPT ![thread[t].sig] = "default"]
    /\ UNCHANGED <<procVars, tag, fileVars, reader, history>>

(* std::raise(sig): the signal is blocked in this thread for as long as its    *)
(* handler runs, so it stays pending and raise() returns.                   *)
Raise(t) ==
    /\ Move(t, "raise", "exit")
    /\ UNCHANGED <<procVars, disposition, tag, fileVars, reader, history>>

ReturnFromHandler(t) == \* mutant: no _exit, the faulting instruction is retried
    /\ Live /\ thread[t].st = "exit"
    /\ thread' = [thread EXCEPT ![t] = Fresh]
    /\ UNCHANGED <<procVars, disposition, tag, fileVars, reader, history>>

(* _exit(128 + sig) *)
ExitNow(t) ==
    /\ Live /\ thread[t].st = "exit"
    /\ ended' = "exit"
    /\ UNCHANGED <<process, pathSet, created, disposition, thread, tag, fileVars, reader, history>>

(* The user starts the app again: a new process, the file as it was left. *)
Restart ==
    /\ ~Live
    /\ process < MaxProcesses
    /\ process' = process + 1
    /\ ended' = "no"
    /\ disposition' = [s \in Signals |-> "handler"]
    /\ pathSet' = FALSE /\ created' = FALSE
    /\ thread' = [t \in Threads |-> Fresh]
    /\ tag' = Idle
    /\ reader' = "idle"
    /\ content' = [i \in Inodes |-> IF i = linked THEN content[i] ELSE NoDump]
    /\ UNCHANGED <<linked, inodes, history>>

HandlerStep(t) == \/ OpenDump(t) \/ BuildDump(t) \/ WriteDump(t)
                  \/ ResetDisposition(t) \/ Raise(t) \/ ExitNow(t)
ReaderStep == FindDump \/ ReadDump \/ DeleteDump

Next == \/ SetCurrent \/ Startup \/ ReaderStep \/ Restart
        \/ \E t \in Threads : HandlerStep(t) \/ \E s \in Signals : Fault(t, s)

(* Threads that can run do run; faults, relaunches and restarts are not owed. *)
Fairness == WF_vars(ReaderStep) /\ \A t \in Threads : WF_vars(HandlerStep(t))

Spec == Init /\ [][Next]_vars /\ Fairness

-----------------------------------------------------------------------------
(* A complete dump of a fault inside a benchmark names that benchmark, not one  *)
(* that ran or was reset since, and not what another thread's handler wrote  *)
(* over it.                                                                 *)
DumpTellsFault == \A i \in Inodes :
    (content[i].state = "whole" /\ content[i].ran # Idle) => content[i].tag = content[i].ran

(* The whole dump of fault f is on disk under its name.                        *)
Held(f) == linked # Unlinked /\ f \in Whole(linked)

(* A dump that was written completely stays on disk until a screen has shown   *)
(* it, across later faults, failing reads and deletes, and restarts, unless   *)
(* in its process or a later one a handler had the file open while the start- *)
(* up check ran or another handler had opened it, or truncated a dump that   *)
(* no screen had shown.  Those three do lose dumps: open() in jni.cpp clears *)
(* the file and checkForPreviousCrash deletes it unconditionally.           *)
DumpKept == \A f \in unseen : (\A p \in f[1]..process : p \notin troubled) => Held(f)

(* jni.cpp: "MainActivity checks for the dump on next startup and offers to    *)
(* upload it": no completely written dump disappears before it is shown.      *)
DumpNotLost == \A f \in unseen : Held(f)

(* Every fault ends the process, whichever other threads fault meanwhile and   *)
(* whichever call of the handler fails.                                     *)
FaultEndsProcess == (\E t \in Threads : InHandler(t)) ~> ~Live

(* jni.cpp: the handlers "re-raise so the OS still gets a proper tombstone":   *)
(* no process that faulted goes away by a plain exit.                       *)
TombstoneProduced == ended # "exit"
=============================================================================
