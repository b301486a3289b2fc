---------------------------- MODULE MainActivity ----------------------------
(***************************************************************************)
(* The Android screen (MainActivity.kt): its main thread, the coroutines it  *)
(* launches on Dispatchers.IO, the files it leaves behind, and the life      *)
(* cycle that runs underneath.                                              *)
(*                                                                          *)
(* Main-thread callbacks are atomic with respect to each other; coroutines   *)
(* interleave with them at every suspension and blocking call.  The          *)
(* manifest handles orientation changes only, so any other configuration     *)
(* change, or Back followed by a relaunch, destroys the activity: its         *)
(* lifecycleScope is cancelled, but a native call or an HTTP request already *)
(* running cannot be interrupted and goes on as an orphan of a dead activity *)
(* until its next suspension point.                                         *)
(***************************************************************************)
EXTENDS Naturals, Sequences, FiniteSets

CONSTANTS
    MaxJobs,         \* bound: jobs tapped in a behaviour
    MaxUploads,      \* bound: uploads tapped in a behaviour
    Kinds,           \* job kinds: a benchmark filter, "hwcaps", ...
    NativeCrash,     \* the kind "native-crash"
    CrashText,       \* the text of a complete crash dump
    Empty,           \* the empty string
    None,            \* no job, no file
    MaxUrlHistory,   \* MAX_URL_HISTORY
    MaxActivities    \* bound: activities created in a behaviour

(* Jobs and uploads (and the URLs of these) are numbered as they are tapped. *)
Jobs == 1..MaxJobs
Uploads == 1..MaxUploads

ASSUME SizeAssumption == /\ MaxJobs \in Nat /\ MaxUploads \in Nat
                         /\ MaxUrlHistory \in Nat \ {0}
                         /\ MaxActivities \in Nat
ASSUME NameAssumption == /\ NativeCrash \notin Kinds
                         /\ CrashText \notin Jobs /\ Empty \notin Jobs /\ None \notin Jobs
                         /\ CrashText # Empty /\ None # CrashText /\ None # Empty

VARIABLES
    processUp,      \* the app's process is running
    activity,       \* number of the latest activity
    alive,          \* that activity exists
    busy,           \* the job buttons are disabled
    uploadEnabled,  \* uploadBtn.isEnabled
    lastJson,       \* the result the upload button would send
    lastKind,       \* and the label it would file it under
    urlHistory,     \* the history bar, newest first
    job,            \* job[j]: a coroutine started by triggerBenchmarks or triggerJob
    upload,         \* upload[u]: a coroutine started by uploadLast
    server,         \* uploads the paste service has stored
    uploadLog,      \* upload-log.txt
    dumpFile,       \* last-native-crash.json: None, Empty (torn) or CrashText
    ioFailed        \* history: the log failed this activity since it was created

uiVars == <<activity, alive, busy, uploadEnabled, lastJson, lastKind, urlHistory>>
diskVars == <<uploadLog, dumpFile, ioFailed>>
vars == <<processUp, uiVars, job, upload, server, diskVars>>

JobStates == {"new",        \* not tapped yet
              "launched",   \* coroutine created, not yet on an IO thread
              "native",     \* inside the native call
              "saved",      \* result in hand, waiting for withContext(Main)
              "done",       \* the Main block ran
              "dropped"}    \* cancelled, or gone with the process
UploadStates == {"new", "launched", "posting",
                 "stored",     \* the service has the paste, no answer yet
                 "answered",   \* httpPost returned a URL
                 "failed",     \* httpPost returned an error text
                 "done", "dropped"}

Results == Jobs \cup {CrashText, Empty}
Labels == Kinds \cup {NativeCrash, Empty}
Entry == [kind : Labels, url : Uploads]

TypeOK ==
    /\ processUp \in BOOLEAN
    /\ activity \in 0..MaxActivities
    /\ alive \in BOOLEAN
    /\ busy \in BOOLEAN
    /\ uploadEnabled \in BOOLEAN
    /\ lastJson \in Results
    /\ lastKind \in Labels
    /\ urlHistory \in Seq(Entry)
    /\ job \in [Jobs -> [st : JobStates, kind : Labels, act : 0..MaxActivities]]
    /\ upload \in [Uploads -> [st : UploadStates, payload : Results, label : Labels,
                               act : 0..MaxActivities]]
    /\ server \subseteq Uploads
    /\ uploadLog \in Seq(Entry)
    /\ dumpFile \in {None, Empty, CrashText}
    /\ ioFailed \in BOOLEAN

Init ==
    /\ processUp = FALSE /\ activity = 0 /\ alive = FALSE
    /\ busy = FALSE /\ uploadEnabled = FALSE
    /\ lastJson = Empty /\ lastKind = Empty /\ urlHistory = <<>>
    /\ job = [j \in Jobs |-> [st |-> "new", kind |-> Empty, act |-> 0]]
    /\ upload = [u \in Uploads |->
                    [st |-> "new", payload |-> Empty, label |-> Empty, act |-> 0]]
    /\ server = {} /\ uploadLog = <<>>
    /\ dumpFile = None /\ ioFailed = FALSE

JobPending(j) == job[j].st \in {"launched", "native", "saved"}
UploadPending(u) == upload[u].st \in {"launched", "posting", "stored", "answered", "failed"}

(* The coroutine that the next tap creates. *)
NextOf(cs, i) == cs[i].st = "new" /\ \A k \in 1..i - 1 : cs[k].st # "new"

(* lifecycleScope of the activity that launched coroutine c is not cancelled. *)
ScopeActive(c) == alive /\ c.act = activity

Shorter(a, b) == IF a < b THEN a ELSE b

\* mutant of Newest: the last lines are taken but left in the order of the file
NewestUnreversed(log) == SubSeq(log, 1 + Len(log) - Shorter(MaxUrlHistory, Len(log)), Len(log))

(* f.readLines().asReversed().take(MAX_URL_HISTORY) *)
Newest(log) == [i \in 1..Shorter(MaxUrlHistory, Len(log)) |-> log[Len(log) + 1 - i]]

(* urlHistory.addFirst(entry), then removeLast() down to MAX_URL_HISTORY. *)
AddFirst(e, h) == SubSeq(<<e>> \o h, 1, Shorter(MaxUrlHistory, Len(h) + 1))

-----------------------------------------------------------------------------
(* Life cycle *)

\* mutant of Create: the dump is deleted even when it could not be read
CreateAlwaysDeleting ==
    /\ ~alive
    /\ activity < MaxActivities
    /\ processUp' = TRUE
    /\ activity' = activity + 1
    /\ alive' = TRUE
    /\ busy' = FALSE
    /\ urlHistory' = Newest(uploadLog) /\ ioFailed' = FALSE
    /\ \/ lastJson' = Empty /\ lastKind' = Empty /\ uploadEnabled' = FALSE
       \/ /\ dumpFile # None
          /\ lastJson' = dumpFile /\ lastKind' = NativeCrash /\ uploadEnabled' = TRUE
    /\ dumpFile' = None
    /\ UNCHANGED <<job, upload, server, uploadLog>>

(* onCreate: a fresh activity object, buildUi (upload button disabled),       *)
(* loadUrlHistory, checkForPreviousCrash.                                   *)
Create ==
    /\ ~alive
    /\ activity < MaxActivities
    /\ processUp' = TRUE
    /\ activity' = activity + 1
    /\ alive' = TRUE
    /\ busy' = FALSE
    \* loadUrlHistory: readLines may fail and leaves the history empty
    /\ \/ urlHistory' = Newest(uploadLog) /\ ioFailed' = FALSE
       \/ urlHistory' = <<>> /\ ioFailed' = TRUE
    \* checkForPreviousCrash: no dump, or unreadable, returns early
    /\ \/ /\ lastJson' = Empty /\ lastKind' = Empty /\ uploadEnabled' = FALSE
          /\ UNCHANGED dumpFile
       \/ /\ dumpFile # None
          /\ lastJson' = dumpFile /\ lastKind' = NativeCrash /\ uploadEnabled' = TRUE
          /\ dumpFile' \in {None, dumpFile}     \* File.delete() may fail
    /\ UNCHANGED <<job, upload, server, uploadLog>>

(* onDestroy: the scope is cancelled, coroutines not yet started never start. *)
Destroy ==
    /\ alive
    /\ alive' = FALSE
    /\ busy' = FALSE /\ uploadEnabled' = FALSE
    /\ lastJson' = Empty /\ lastKind' = Empty /\ urlHistory' = <<>>
    /\ job' = [j \in Jobs |-> IF job[j].st = "launched"
                              THEN [job[j] EXCEPT !.st = "dropped"] ELSE job[j]]
    /\ upload' = [u \in Uploads |-> IF upload[u].st = "launched"
                                    THEN [upload[u] EXCEPT !.st = "dropped"] ELSE upload[u]]
    /\ UNCHANGED <<processUp, activity, server, diskVars>>

(* The process is gone, with every activity and coroutine in it.  A native     *)
(* crash in a job leaves a dump, whole or torn; a kill by the system leaves   *)
(* none.                                                                    *)
ProcessDies ==
    /\ processUp
    /\ processUp' = FALSE
    /\ alive' = FALSE
    /\ busy' = FALSE /\ uploadEnabled' = FALSE
    /\ lastJson' = Empty /\ lastKind' = Empty /\ urlHistory' = <<>>
    /\ job' = [j \in Jobs |-> IF JobPending(j)
                              THEN [job[j] EXCEPT !.st = "dropped"] ELSE job[j]]
    /\ upload' = [u \in Uploads |-> IF UploadPending(u)
                                    THEN [upload[u] EXCEPT !.st = "dropped"] ELSE upload[u]]
    /\ \/ UNCHANGED dumpFile
       \/ /\ \E j \in Jobs : job[j].st = "native"
          /\ dumpFile' \in {CrashText, Empty}
    /\ UNCHANGED <<activity, server, uploadLog, ioFailed>>

-----------------------------------------------------------------------------
(* Jobs: triggerBenchmarks, triggerJob, finishJob *)

\* mutant of TapJob: the buttons are only disabled once the coroutine runs
TapJobUnguarded(j) == \E k \in Kinds :
    /\ alive
    /\ NextOf(job, j)
    /\ busy' = TRUE
    /\ job' = [job EXCEPT ![j] = [st |-> "launched", kind |-> k, act |-> activity]]
    /\ UNCHANGED <<processUp, activity, alive, uploadEnabled, lastJson, lastKind, urlHistory,
                   upload, server, diskVars>>

(* The button handler: setBusy(true), then the coroutine is launched. *)
TapJob(j) == \E k \in Kinds :
    /\ alive /\ ~busy
    /\ NextOf(job, j)
    /\ busy' = TRUE
    /\ job' = [job EXCEPT ![j] = [st |-> "launched", kind |-> k, act |-> activity]]
    /\ UNCHANGED <<processUp, activity, alive, uploadEnabled, lastJson, lastKind, urlHistory,
                   upload, server, diskVars>>

MoveJob(j, from, to) == /\ job[j].st = from
                        /\ job' = [job EXCEPT ![j].st = to]
                        /\ UNCHANGED <<processUp, upload, server>>

EnterNative(j) == MoveJob(j, "launched", "native") /\ UNCHANGED <<uiVars, diskVars>>

(* A result, an error envelope or runCatching's errorJson: a string anyway;     *)
(* then prettify and the local copy "$kind-$ts.json", which nothing in the    *)
(* app reads back and whose failure is silent.  An orphan gets here too:     *)
(* nothing on the way suspends.                                             *)
LeaveNative(j) == MoveJob(j, "native", "saved") /\ UNCHANGED <<uiVars, diskVars>>

\* mutant of FinishJob: posted to the main looper outside the activity's scope
FinishJobUnscoped(j) ==
    /\ MoveJob(j, "saved", "done")
    /\ alive
    /\ lastJson' = j /\ lastKind' = job[j].kind
    /\ uploadEnabled' = TRUE /\ busy' = FALSE
    /\ UNCHANGED <<activity, alive, urlHistory, diskVars>>

\* mutant of FinishJob: lastKind is assigned when the job is tapped next, not here
FinishJobUnlabelled(j) ==
    /\ MoveJob(j, "saved", "done")
    /\ ScopeActive(job[j])
    /\ lastJson' = j
    /\ uploadEnabled' = TRUE /\ busy' = FALSE
    /\ UNCHANGED <<activity, alive, lastKind, urlHistory, diskVars>>

\* mutant of FinishJob: setBusy(false) is forgotten
FinishJobStillBusy(j) ==
    /\ MoveJob(j, "saved", "done")
    /\ ScopeActive(job[j])
    /\ lastJson' = j /\ lastKind' = job[j].kind
    /\ uploadEnabled' = TRUE
    /\ UNCHANGED <<activity, alive, busy, urlHistory, diskVars>>

(* The withContext(Main) block of finishJob. *)
FinishJob(j) ==
    /\ MoveJob(j, "saved", "done")
    /\ ScopeActive(job[j])
    /\ lastJson' = j
    /\ lastKind' = job[j].kind
    /\ uploadEnabled' = TRUE
    /\ busy' = FALSE
    /\ UNCHANGED <<activity, alive, urlHistory, diskVars>>

(* withContext in a cancelled scope throws instead. *)
AbandonJob(j) == /\ MoveJob(j, "saved", "dropped")
                 /\ ~ScopeActive(job[j])
                 /\ UNCHANGED <<uiVars, diskVars>>

-----------------------------------------------------------------------------
(* Uploads: uploadLast, httpPost, recordUpload *)

(* The button handler: payload and label are captured here, on the main       *)
(* thread.  With an empty lastJson it only toasts.                          *)
TapUpload(u) ==
    /\ alive /\ uploadEnabled
    /\ NextOf(upload, u)
    /\ lastJson # Empty
    /\ upload' = [upload EXCEPT ![u] = [st |-> "launched", payload |-> lastJson,
                                        label |-> lastKind, act |-> activity]]
    /\ uploadEnabled' = FALSE
    /\ UNCHANGED <<processUp, activity, alive, busy, lastJson, lastKind, urlHistory,
                   job, server, diskVars>>

MoveUpload(u, from, to) == /\ upload[u].st = from
                           /\ upload' = [upload EXCEPT ![u].st = to]
                           /\ UNCHANGED <<processUp, job>>

StartPost(u) == MoveUpload(u, "launched", "posting") /\ UNCHANGED <<server, uiVars, diskVars>>

(* The service stores the body before the client hears of it. *)
ServerStores(u) == /\ MoveUpload(u, "posting", "stored")
                   /\ server' = server \cup {u}
                   /\ UNCHANGED <<uiVars, diskVars>>

PostAnswered(u) == MoveUpload(u, "stored", "answered") /\ UNCHANGED <<server, uiVars, diskVars>>

(* No connection, a 15 s timeout, an HTTP error or an answer that is no URL:  *)
(* the body may or may not have been stored.                                *)
PostFails(u) == /\ \E from \in {"posting", "stored"} : MoveUpload(u, from, "failed")
                /\ UNCHANGED <<server, uiVars, diskVars>>

\* mutant of RecordUpload: filed under lastKind as it is when the answer arrives
RecordUploadLate(u) ==
    LET e == [kind |-> lastKind, url |-> u] IN
    /\ urlHistory' = AddFirst(e, urlHistory)
    /\ \/ uploadLog' = Append(uploadLog, e) /\ UNCHANGED ioFailed
       \/ ioFailed' = TRUE /\ UNCHANGED uploadLog

(* recordUpload: the clipboard, which the app only writes, the history bar and   *)
(* the log; the append fails silently.                                      *)
RecordUpload(u) ==
    LET e == [kind |-> upload[u].label, url |-> u] IN
    /\ urlHistory' = AddFirst(e, urlHistory)
    /\ \/ uploadLog' = Append(uploadLog, e) /\ UNCHANGED ioFailed
       \/ ioFailed' = TRUE /\ UNCHANGED uploadLog

\* mutant of FinishUpload: the button is enabled again in the success branch only
FinishUploadStuck(u) ==
    /\ ScopeActive(upload[u])
    /\ \/ MoveUpload(u, "answered", "done") /\ RecordUpload(u) /\ uploadEnabled' = TRUE
       \/ /\ MoveUpload(u, "failed", "done")
          /\ UNCHANGED <<urlHistory, uploadLog, ioFailed, uploadEnabled>>
    /\ UNCHANGED <<activity, alive, busy, lastJson, lastKind, server, dumpFile>>

\* mutant of FinishUpload: an error text goes to the history like a URL
FinishUploadUnchecked(u) ==
    /\ ScopeActive(upload[u])
    /\ \/ MoveUpload(u, "answered", "done") /\ RecordUpload(u)
       \/ /\ MoveUpload(u, "failed", "done")
          /\ urlHistory' = AddFirst([kind |-> upload[u].label, url |-> None], urlHistory)
          /\ UNCHANGED <<uploadLog, ioFailed>>
    /\ uploadEnabled' = TRUE
    /\ UNCHANGED <<activity, alive, busy, lastJson, lastKind, server, dumpFile>>

(* The withContext(Main) block of uploadLast. *)
FinishUpload(u) ==
    /\ ScopeActive(upload[u])
    /\ \/ MoveUpload(u, "answered", "done") /\ RecordUpload(u)
       \/ /\ MoveUpload(u, "failed", "done")
          /\ UNCHANGED <<urlHistory, uploadLog, ioFailed>>
    /\ uploadEnabled' = TRUE
    /\ UNCHANGED <<activity, alive, busy, lastJson, lastKind, server, dumpFile>>

AbandonUpload(u) ==
    /\ ~ScopeActive(upload[u])
    /\ \E from \in {"answered", "failed"} : MoveUpload(u, from, "dropped")
    /\ UNCHANGED <<server, uiVars, diskVars>>

-----------------------------------------------------------------------------
JobStep(j) == EnterNative(j) \/ LeaveNative(j) \/ FinishJob(j) \/ AbandonJob(j)
UploadStep(u) == \/ StartPost(u) \/ ServerStores(u) \/ PostAnswered(u) \/ PostFails(u)
                 \/ FinishUpload(u) \/ AbandonUpload(u)

Next == \/ Create \/ Destroy \/ ProcessDies
        \/ \E j \in Jobs : TapJob(j) \/ JobStep(j)
        \/ \E u \in Uploads : TapUpload(u) \/ UploadStep(u)

(* Threads and the main looper keep running; native calls return (Dispatch);  *)
(* connect and read timeouts end every request.  Taps, relaunches, kills and  *)
(* crashes are never owed.                                                  *)
Fairness == /\ \A j \in Jobs : WF_vars(JobStep(j))
            /\ \A u \in Uploads : WF_vars(UploadStep(u))

Spec == Init /\ [][Next]_vars /\ Fairness

-----------------------------------------------------------------------------
(* The job buttons are disabled exactly while one job of this activity is     *)
(* under way, and there is never a second one: neither an orphan's end nor   *)
(* an upload's can unlock or lock them (setBusy in triggerJob/finishJob).    *)
BusyIffOneJob ==
    LET mine == {j \in Jobs : JobPending(j) /\ alive /\ job[j].act = activity}
    IN  /\ busy <=> mine # {}
        /\ \A i, j \in mine : i = j

(* What the upload button would send was produced for this very activity:     *)
(* one of its own finished jobs under that job's kind, or a crash dump under  *)
(* "native-crash".                                                          *)
ShownResultIsOwn ==
    IF lastJson \in Jobs
    THEN job[lastJson].st = "done" /\ job[lastJson].act = activity /\ lastKind = job[lastJson].kind
    ELSE lastKind = NativeCrash \/ (lastKind = Empty /\ lastJson = Empty /\ ~uploadEnabled)

(* Whoever opens a URL of the history bar or of upload-log.txt finds a        *)
(* document of the kind it is filed under, and the service did store it,     *)
(* however jobs finished while the request was in flight.                   *)
KindOf(r) == IF r \in Jobs THEN job[r].kind ELSE NativeCrash
Entries(s) == {s[i] : i \in DOMAIN s}
UrlsAreLabelled ==
    \A e \in Entries(urlHistory) \cup Entries(uploadLog) :
        e.url \in server /\ e.kind = KindOf(upload[e.url].payload)

(* The history bar always shows what a relaunch would load from the log       *)
(* (recordUpload against loadUrlHistory), unless the log could not be read   *)
(* or written since the activity was created.                               *)
HistoryIsNewestOfLog == (alive /\ ~ioFailed) => urlHistory = Newest(uploadLog)

(* A result that can be uploaded is never locked away: the upload button is   *)
(* disabled only while an upload of this activity is under way.             *)
UploadNotStuck ==
    (alive /\ lastJson # Empty /\ ~uploadEnabled) =>
        \E u \in Uploads : UploadPending(u) /\ upload[u].act = activity

(* A complete crash dump leaves the disk only by being put on the screen, or  *)
(* under a newer dump.                                                      *)
DumpDeletedOnlyWhenShown ==
    [][(dumpFile # None /\ dumpFile' = None) => (lastJson' = dumpFile /\ alive')]_vars

(* Every tapped job gives the buttons back, if the activity lives. *)
BusyEnds == \A a \in 1..MaxActivities :
    (alive /\ activity = a /\ busy) ~> ~(alive /\ activity = a /\ busy)

(* Each screen behaves as ResultScreen promises, orphans notwithstanding. *)
Working == IF \E j \in Jobs : JobPending(j) /\ alive /\ job[j].act = activity
           THEN CHOOSE j \in Jobs : JobPending(j) /\ job[j].act = activity
           ELSE None
Shown == IF alive /\ (lastJson # Empty \/ uploadEnabled) THEN lastJson ELSE None
RS == INSTANCE ResultScreen WITH
        screen <- IF alive THEN activity ELSE 0, working <- Working, shown <- Shown,
        Nothing <- None, Dumps <- {CrashText, Empty}
ImplementsResultScreen == RS!RSpec

=============================================================================
