------------------------- MODULE MainActivityProofs -------------------------
(***************************************************************************)
(* Proofs about MainActivity, for any number of jobs, uploads and            *)
(* activities and any length of the history bar: type correctness; that the *)
(* buttons follow the jobs; that results, uploads and log entries keep the  *)
(* label of the job that produced them; that no dump is lost on the way to  *)
(* the screen; and that every screen implements ResultScreen.               *)
(***************************************************************************)
EXTENDS MainActivity, SequenceTheorems, TLAPS

(* The bounds are numbers.                                                  *)
LEMMA BoundFacts ==
    /\ Jobs \subseteq Nat /\ Uploads \subseteq Nat
    /\ MaxUrlHistory \in Nat \ {0} /\ MaxActivities \in Nat
  BY SizeAssumption DEF Jobs, Uploads

-----------------------------------------------------------------------------
(* The history bar and the log as data.                                     *)

(* A log of entries reads back as entries, its newest lines first.           *)
LEMMA NewestType ==
    ASSUME NEW S, NEW log \in Seq(S)
    PROVE  /\ Newest(log) \in Seq(S)
           /\ Len(Newest(log)) = Shorter(MaxUrlHistory, Len(log))
           /\ \A i \in 1..Shorter(MaxUrlHistory, Len(log)) :
                  Newest(log)[i] = log[Len(log) + 1 - i]
  <1>. DEFINE n == Shorter(MaxUrlHistory, Len(log))
  <1>1. Len(log) \in Nat /\ n \in Nat /\ n <= Len(log)
    BY BoundFacts DEF Shorter
  <1>2. \A i \in 1..n : log[Len(log) + 1 - i] \in S
    BY <1>1
  <1>3. Newest(log) \in [1..n -> S]
    BY <1>2 DEF Newest
  <1>. QED
    BY <1>1, <1>3 DEF Newest

(* addFirst and the trim to the bound, entry by entry.                      *)
LEMMA AddFirstType ==
    ASSUME NEW S, NEW h \in Seq(S), NEW e \in S
    PROVE  /\ AddFirst(e, h) \in Seq(S)
           /\ Len(AddFirst(e, h)) = Shorter(MaxUrlHistory, Len(h) + 1)
           /\ AddFirst(e, h)[1] = e
           /\ \A i \in 2..Shorter(MaxUrlHistory, Len(h) + 1) : AddFirst(e, h)[i] = h[i - 1]
  <1>. DEFINE n == Shorter(MaxUrlHistory, Len(h) + 1)
              q == <<e>> \o h
  <1>1. Len(h) \in Nat /\ n \in 1..Len(h) + 1
    BY BoundFacts DEF Shorter
  <1>2. /\ q \in Seq(S) /\ Len(q) = Len(h) + 1
        /\ \A i \in 1..Len(h) + 1 : q[i] = IF i = 1 THEN e ELSE h[i - 1]
    OBVIOUS
  <1>3. /\ SubSeq(q, 1, n) \in Seq(S) /\ Len(SubSeq(q, 1, n)) = n
        /\ \A i \in 1..n : SubSeq(q, 1, n)[i] = q[i]
    BY <1>1, <1>2, SubSeqProperties
  <1>. QED
    BY <1>1, <1>2, <1>3 DEF AddFirst

(* What the bar shows after an upload is what it would load from the log      *)
(* after the append: addFirst and removeLast against asReversed and take.    *)
LEMMA AddFirstIsNewest ==
    ASSUME NEW S, NEW log \in Seq(S), NEW e \in S
    PROVE  AddFirst(e, Newest(log)) = Newest(Append(log, e))
  <1>. DEFINE a == AddFirst(e, Newest(log))
              b == Newest(Append(log, e))
              n == Shorter(MaxUrlHistory, Len(log) + 1)
  <1>1. /\ Append(log, e) \in Seq(S) /\ Len(Append(log, e)) = Len(log) + 1
        /\ Len(log) \in Nat
        /\ \A i \in 1..Len(log) : Append(log, e)[i] = log[i]
        /\ Append(log, e)[Len(log) + 1] = e
    OBVIOUS
  <1>2. /\ b \in Seq(S) /\ Len(b) = n
        /\ \A i \in 1..n : b[i] = Append(log, e)[Len(log) + 2 - i]
    <2>. DEFINE q == Append(log, e)
    <2>1. q \in Seq(S) /\ Len(q) = Len(log) + 1
      BY <1>1
    <2>. HIDE DEF q
    <2>2. /\ Newest(q) \in Seq(S) /\ Len(Newest(q)) = Shorter(MaxUrlHistory, Len(q))
          /\ \A i \in 1..Shorter(MaxUrlHistory, Len(q)) : Newest(q)[i] = q[Len(q) + 1 - i]
      BY <2>1, NewestType
    <2>3. \A i \in 1..n : Len(q) + 1 - i = Len(log) + 2 - i
      BY <1>1, <2>1, BoundFacts DEF Shorter
    <2>. QED
      BY <2>1, <2>2, <2>3 DEF q
  <1>3. /\ Newest(log) \in Seq(S)
        /\ Len(Newest(log)) = Shorter(MaxUrlHistory, Len(log))
    BY NewestType
  <1>4. Shorter(MaxUrlHistory, Len(Newest(log)) + 1) = n
    BY <1>1, <1>3, BoundFacts DEF Shorter
  <1>5. /\ a \in Seq(S) /\ Len(a) = n
        /\ a[1] = e
        /\ \A i \in 2..n : a[i] = Newest(log)[i - 1]
    <2>. DEFINE h == Newest(log)
    <2>1. h \in Seq(S)
      BY <1>3
    <2>. HIDE DEF h
    <2>2. /\ AddFirst(e, h) \in Seq(S)
          /\ Len(AddFirst(e, h)) = Shorter(MaxUrlHistory, Len(h) + 1)
          /\ AddFirst(e, h)[1] = e
          /\ \A i \in 2..Shorter(MaxUrlHistory, Len(h) + 1) : AddFirst(e, h)[i] = h[i - 1]
      BY <2>1, AddFirstType
    <2>3. a = AddFirst(e, h) /\ Shorter(MaxUrlHistory, Len(h) + 1) = n
      BY <1>4 DEF h
    <2>. HIDE DEF a, n
    <2>. QED
      BY <2>2, <2>3 DEF h
  <1>6. ASSUME NEW i \in 1..n PROVE a[i] = b[i]
    <2>1. CASE i = 1
      BY <2>1, <1>1, <1>2, <1>5
    <2>2. CASE i # 1
      <3>1. i - 1 \in 1..Shorter(MaxUrlHistory, Len(log))
        BY <2>2, <1>1, BoundFacts DEF Shorter
      <3>2. Newest(log)[i - 1] = log[Len(log) + 1 - (i - 1)]
        BY <3>1, NewestType
      <3>3. /\ Len(log) + 1 - (i - 1) = Len(log) + 2 - i
            /\ Len(log) + 2 - i \in 1..Len(log)
        BY <3>1, <1>1, BoundFacts DEF Shorter
      <3>. QED
        BY <2>2, <3>2, <3>3, <1>1, <1>2, <1>5
    <2>. QED
      BY <2>1, <2>2
  <1>. QED
    BY <1>2, <1>5, <1>6, SeqEqual

-----------------------------------------------------------------------------
(* The inductive invariant.  Beyond the properties it relates what a          *)
(* coroutine carries to the activities and to the jobs there have been.     *)

(* Nothing is owned by an activity that has not been created yet.            *)
ScreensNumbered ==
    /\ \A j \in Jobs : job[j].act <= activity
    /\ \A u \in Uploads : upload[u].act <= activity
    /\ alive => activity # 0

(* An upload of the present activity was tapped with a result on the screen,  *)
(* and a result is never taken off again.                                   *)
UploadHasResult ==
    \A u \in Uploads : (UploadPending(u) /\ alive /\ upload[u].act = activity) => lastJson # Empty

(* An upload carries the label of what it carries, and a job's result only    *)
(* when that job is over: its kind never changes again.                     *)
UploadLabelled ==
    \A u \in Uploads : upload[u].st # "new" =>
        /\ upload[u].label = KindOf(upload[u].payload)
        /\ upload[u].payload \in Jobs => job[upload[u].payload].st = "done"

(* The service knows of the uploads that were sent, and of every one whose     *)
(* URL the app may get to see.                                              *)
StoredWasSent ==
    \A u \in Uploads : /\ u \in server => upload[u].st # "new"
                       /\ upload[u].st \in {"stored", "answered"} => u \in server

Inv == /\ TypeOK /\ ScreensNumbered /\ BusyIffOneJob
       /\ ShownResultIsOwn /\ UploadHasResult /\ UploadNotStuck
       /\ UploadLabelled /\ StoredWasSent /\ UrlsAreLabelled
       /\ HistoryIsNewestOfLog

JobRecord == [st : JobStates, kind : Labels, act : 0..MaxActivities]
UploadRecord == [st : UploadStates, payload : Results, label : Labels, act : 0..MaxActivities]

LEMMA InitInv == Init => Inv
  <1>. SUFFICES ASSUME Init PROVE Inv
    OBVIOUS
  <1>. USE DEF Init
  <1>1. TypeOK
    <2>1. /\ Empty \in Labels /\ Empty \in Results /\ <<>> \in Seq(Entry)
          /\ 0 \in 0..MaxActivities /\ "new" \in JobStates /\ "new" \in UploadStates
      BY SizeAssumption DEF Labels, Results, JobStates, UploadStates
    <2>2. job \in [Jobs -> JobRecord] /\ upload \in [Uploads -> UploadRecord]
      BY <2>1 DEF JobRecord, UploadRecord
    <2>. QED
      BY <2>1, <2>2 DEF TypeOK, JobRecord, UploadRecord
  <1>2. ScreensNumbered /\ BusyIffOneJob /\ UploadHasResult /\ UploadNotStuck
    BY DEF ScreensNumbered, BusyIffOneJob, UploadHasResult, UploadNotStuck, JobPending, UploadPending
  <1>3. ShownResultIsOwn
    BY NameAssumption DEF ShownResultIsOwn
  <1>4. UploadLabelled /\ StoredWasSent /\ HistoryIsNewestOfLog
    BY DEF UploadLabelled, StoredWasSent, HistoryIsNewestOfLog
  <1>5. UrlsAreLabelled
    <2>1. Entries(urlHistory) \cup Entries(uploadLog) = {}
      BY DEF Entries
    <2>. QED
      BY <2>1 DEF UrlsAreLabelled
  <1>. QED
    BY <1>1, <1>2, <1>3, <1>4, <1>5 DEF Inv

-----------------------------------------------------------------------------
(* Type correctness, one step per action.                                   *)

LEMMA NextType == TypeOK /\ [Next]_vars => TypeOK'
  <1>. SUFFICES ASSUME TypeOK, [Next]_vars PROVE TypeOK'
    OBVIOUS
  <1>. USE DEF TypeOK, uiVars, diskVars
  <1>1. CASE UNCHANGED vars
    BY <1>1 DEF vars
  <1>2. CASE Create
    <2>1. Newest(uploadLog) \in Seq(Entry) /\ <<>> \in Seq(Entry)
      BY NewestType
    <2>2. activity + 1 \in 0..MaxActivities
      BY <1>2, BoundFacts DEF Create
    <2>3. urlHistory' \in Seq(Entry) /\ ioFailed' \in BOOLEAN
      BY <1>2, <2>1 DEF Create
    <2>4. lastJson' \in Results /\ lastKind' \in Labels /\ uploadEnabled' \in BOOLEAN
      BY <1>2 DEF Create, Results, Labels
    <2>5. dumpFile' \in {None, Empty, CrashText}
      BY <1>2 DEF Create
    <2>. QED
      BY <1>2, <2>2, <2>3, <2>4, <2>5 DEF Create
  <1>3. CASE Destroy \/ ProcessDies
    <2>1. job' \in [Jobs -> JobRecord]
      <3>1. \A j \in Jobs : job[j] \in JobRecord /\ [job[j] EXCEPT !.st = "dropped"] \in JobRecord
        BY DEF JobRecord, JobStates
      <3>. QED
        BY <1>3, <3>1 DEF Destroy, ProcessDies
    <2>2. upload' \in [Uploads -> UploadRecord]
      <3>1. \A u \in Uploads : /\ upload[u] \in UploadRecord
                               /\ [upload[u] EXCEPT !.st = "dropped"] \in UploadRecord
        BY DEF UploadRecord, UploadStates
      <3>. QED
        BY <1>3, <3>1 DEF Destroy, ProcessDies
    <2>3. dumpFile' \in {None, Empty, CrashText}
      BY <1>3 DEF Destroy, ProcessDies
    <2>4. Empty \in Labels /\ Empty \in Results /\ <<>> \in Seq(Entry)
      BY DEF Labels, Results
    <2>5. /\ processUp' \in BOOLEAN /\ alive' \in BOOLEAN /\ busy' \in BOOLEAN
          /\ uploadEnabled' \in BOOLEAN
      BY <1>3 DEF Destroy, ProcessDies
    <2>6. /\ lastJson' = Empty /\ lastKind' = Empty /\ urlHistory' = <<>>
          /\ UNCHANGED <<activity, server, uploadLog, ioFailed>>
      BY <1>3 DEF Destroy, ProcessDies
    <2>. QED
      BY <2>1, <2>2, <2>3, <2>4, <2>5, <2>6 DEF JobRecord, UploadRecord
  <1>4. ASSUME NEW j \in Jobs, TapJob(j) PROVE TypeOK'
    BY <1>4 DEF TapJob, JobStates, Labels
  <1>5. ASSUME NEW j \in Jobs, JobStep(j) PROVE TypeOK'
    <2>1. job' \in [Jobs -> JobRecord]
      <3>1. PICK to \in JobStates : job' = [job EXCEPT ![j].st = to]
        BY <1>5 DEF JobStep, EnterNative, LeaveNative, FinishJob, AbandonJob, MoveJob, JobStates
      <3>. QED
        BY <3>1 DEF JobRecord
    <2>2. j \in Results /\ job[j].kind \in Labels
      BY DEF Results
    <2>3. /\ lastJson' \in Results /\ lastKind' \in Labels
          /\ busy' \in BOOLEAN /\ uploadEnabled' \in BOOLEAN
      BY <1>5, <2>2 DEF JobStep, EnterNative, LeaveNative, FinishJob, AbandonJob
    <2>4. UNCHANGED <<processUp, activity, alive, urlHistory, upload, diskVars, server>>
      BY <1>5 DEF JobStep, EnterNative, LeaveNative, FinishJob, AbandonJob, MoveJob
    <2>. QED
      BY <2>1, <2>3, <2>4 DEF JobRecord
  <1>6. ASSUME NEW u \in Uploads, TapUpload(u) PROVE TypeOK'
    BY <1>6 DEF TapUpload, UploadStates
  <1>7. ASSUME NEW u \in Uploads,
               StartPost(u) \/ ServerStores(u) \/ PostAnswered(u) \/ PostFails(u) \/ AbandonUpload(u)
        PROVE TypeOK'
    <2>1. upload' \in [Uploads -> UploadRecord]
      <3>1. PICK to \in UploadStates : upload' = [upload EXCEPT ![u].st = to]
        BY <1>7 DEF StartPost, ServerStores, PostAnswered, PostFails, AbandonUpload, MoveUpload,
                    UploadStates
      <3>. QED
        BY <3>1 DEF UploadRecord
    <2>2. server' \subseteq Uploads /\ UNCHANGED <<processUp, job, uiVars, diskVars>>
      BY <1>7 DEF StartPost, ServerStores, PostAnswered, PostFails, AbandonUpload, MoveUpload
    <2>. QED
      BY <2>1, <2>2 DEF UploadRecord
  <1>8. ASSUME NEW u \in Uploads, FinishUpload(u) PROVE TypeOK'
    <2>1. [kind |-> upload[u].label, url |-> u] \in Entry
      BY DEF Entry
    <2>2. AddFirst([kind |-> upload[u].label, url |-> u], urlHistory) \in Seq(Entry)
      BY <2>1, AddFirstType
    <2>3. Append(uploadLog, [kind |-> upload[u].label, url |-> u]) \in Seq(Entry)
      BY <2>1
    <2>4. urlHistory' \in Seq(Entry) /\ uploadLog' \in Seq(Entry) /\ ioFailed' \in BOOLEAN
      BY <1>8, <2>2, <2>3 DEF FinishUpload, RecordUpload
    <2>5. upload' \in [Uploads -> [st : UploadStates, payload : Results, label : Labels,
                                   act : 0..MaxActivities]]
      BY <1>8 DEF FinishUpload, MoveUpload, UploadStates
    <2>. QED
      BY <1>8, <2>4, <2>5 DEF FinishUpload, MoveUpload
  <1>. QED
    BY <1>1, <1>2, <1>3, <1>4, <1>5, <1>6, <1>7, <1>8 DEF Next, UploadStep

(* TypeOK always holds: no order of taps, answers, deaths and relaunches       *)
(* brings a coroutine, a label or the history bar out of its range.         *)
THEOREM TypeCorrect == Spec => []TypeOK
  <1>1. Init => TypeOK
    BY InitInv DEF Inv
  <1>. QED
    BY <1>1, NextType, PTL DEF Spec

-----------------------------------------------------------------------------
(* The other conjuncts of the invariant, one lemma each.                     *)

(* What every step leaves alone: only a tap touches a job that has not been   *)
(* tapped, only a tap sets its kind and activity; the same for an upload.    *)
LEMMA UploadStepFrame ==
    ASSUME TypeOK, NEW u \in Uploads, UploadStep(u)
    PROVE  /\ UNCHANGED <<activity, alive, busy, lastJson, lastKind, job, dumpFile>>
           /\ server' \in {server, server \cup {u}}
           /\ FinishUpload(u) \/ UNCHANGED <<uploadEnabled, urlHistory, uploadLog, ioFailed>>
           /\ upload[u].st # "new" /\ upload'[u].st # "new"
           /\ upload'[u].st \in {"stored", "answered"} => u \in server' \/ upload[u].st = "stored"
           /\ \A v \in Uploads : /\ upload'[v].payload = upload[v].payload
                                 /\ upload'[v].label = upload[v].label
                                 /\ upload'[v].act = upload[v].act
                                 /\ v # u => upload'[v] = upload[v]
  <1>1. /\ UNCHANGED <<activity, alive, busy, lastJson, lastKind, job, dumpFile>>
        /\ server' \in {server, server \cup {u}}
        /\ FinishUpload(u) \/ UNCHANGED <<uploadEnabled, urlHistory, uploadLog, ioFailed>>
        /\ upload[u].st # "new"
    BY DEF UploadStep, StartPost, ServerStores, PostAnswered, PostFails, FinishUpload,
           AbandonUpload, MoveUpload, UploadStates, uiVars, diskVars
  <1>2. PICK to \in UploadStates \ {"new"} :
            /\ upload' = [upload EXCEPT ![u].st = to]
            /\ to \in {"stored", "answered"} => u \in server' \/ upload[u].st = "stored"
    BY DEF UploadStep, StartPost, ServerStores, PostAnswered, PostFails, FinishUpload,
           AbandonUpload, MoveUpload, UploadStates
  <1>. QED
    BY <1>1, <1>2 DEF TypeOK

(* What a step of a job leaves alone.                                       *)
LEMMA JobStepFrame ==
    ASSUME TypeOK, NEW j \in Jobs, JobStep(j)
    PROVE  /\ UNCHANGED <<activity, alive, urlHistory, uploadLog, ioFailed, upload, server, dumpFile>>
           /\ FinishJob(j) \/ UNCHANGED <<busy, uploadEnabled, lastJson, lastKind>>
           /\ JobPending(j)
           /\ FinishJob(j) => job'[j].st = "done"
           /\ ~FinishJob(j) /\ ~AbandonJob(j) => job'[j].st \in {"native", "saved"}
           /\ ~FinishJob(j) => job'[j].st # "done"
           /\ \A i \in Jobs : /\ job'[i].kind = job[i].kind /\ job'[i].act = job[i].act
                              /\ i # j => job'[i] = job[i]
  <1>1. /\ UNCHANGED <<activity, alive, urlHistory, uploadLog, ioFailed, upload, server, dumpFile>>
        /\ FinishJob(j) \/ UNCHANGED <<busy, uploadEnabled, lastJson, lastKind>>
        /\ JobPending(j)
    BY DEF JobStep, EnterNative, LeaveNative, FinishJob, AbandonJob, MoveJob, JobPending,
           uiVars, diskVars
  <1>2. PICK to \in JobStates :
            /\ job' = [job EXCEPT ![j].st = to]
            /\ FinishJob(j) => to = "done"
            /\ ~FinishJob(j) /\ ~AbandonJob(j) => to \in {"native", "saved"}
            /\ ~FinishJob(j) => to # "done"
    <2>1. CASE FinishJob(j)
      BY <2>1 DEF FinishJob, MoveJob, JobStates
    <2>2. CASE ~FinishJob(j) /\ (EnterNative(j) \/ LeaveNative(j))
      BY <2>2 DEF EnterNative, LeaveNative, MoveJob, JobStates
    <2>3. CASE ~FinishJob(j) /\ AbandonJob(j)
      BY <2>3 DEF AbandonJob, MoveJob, JobStates
    <2>. QED
      BY <2>1, <2>2, <2>3 DEF JobStep
  <1>. QED
    BY <1>1, <1>2 DEF TypeOK

(* What the end of an activity or of the process leaves alone.              *)
LEMMA EndFrame ==
    ASSUME TypeOK, Destroy \/ ProcessDies
    PROVE  /\ ~alive' /\ ~busy' /\ ~uploadEnabled' /\ lastJson' = Empty /\ lastKind' = Empty
           /\ urlHistory' = <<>>
           /\ UNCHANGED <<activity, server, uploadLog, ioFailed>>
           /\ \A i \in Jobs : /\ job'[i].kind = job[i].kind /\ job'[i].act = job[i].act
                              /\ job'[i].st # job[i].st => JobPending(i) /\ job'[i].st = "dropped"
           /\ \A v \in Uploads : /\ upload'[v].payload = upload[v].payload
                                 /\ upload'[v].label = upload[v].label
                                 /\ upload'[v].act = upload[v].act
                                 /\ upload'[v].st # upload[v].st =>
                                        UploadPending(v) /\ upload'[v].st = "dropped"
  BY DEF Destroy, ProcessDies, TypeOK, JobPending, UploadPending, diskVars

LEMMA NextScreens == TypeOK /\ ScreensNumbered /\ [Next]_vars => ScreensNumbered'
  <1>. SUFFICES ASSUME TypeOK, ScreensNumbered, [Next]_vars PROVE ScreensNumbered'
    OBVIOUS
  <1>. USE DEF ScreensNumbered, uiVars, diskVars
  <1>0. /\ activity \in Nat
        /\ \A j \in Jobs : job[j].act \in Nat
        /\ \A u \in Uploads : upload[u].act \in Nat
    BY BoundFacts DEF TypeOK
  <1>1. CASE UNCHANGED vars
    BY <1>1 DEF vars
  <1>2. CASE Create
    BY <1>0, <1>2 DEF Create
  <1>3. CASE Destroy \/ ProcessDies
    BY <1>3, EndFrame
  <1>4. ASSUME NEW j \in Jobs, TapJob(j) PROVE ScreensNumbered'
    BY <1>0, <1>4 DEF TapJob, TypeOK
  <1>5. ASSUME NEW j \in Jobs, JobStep(j) PROVE ScreensNumbered'
    BY <1>5, JobStepFrame
  <1>6. ASSUME NEW u \in Uploads, TapUpload(u) PROVE ScreensNumbered'
    BY <1>0, <1>6 DEF TapUpload, TypeOK
  <1>7. ASSUME NEW u \in Uploads, UploadStep(u) PROVE ScreensNumbered'
    BY <1>7, UploadStepFrame
  <1>. QED
    BY <1>1, <1>2, <1>3, <1>4, <1>5, <1>6, <1>7 DEF Next

(* Job j is under way for the activity on the screen.                        *)
Own(j) == JobPending(j) /\ alive /\ job[j].act = activity

(* BusyIffOneJob in terms of the jobs of the present activity.              *)
LEMMA BusyMeans ==
    BusyIffOneJob <=> /\ busy <=> \E j \in Jobs : Own(j)
                      /\ \A i, j \in Jobs : Own(i) /\ Own(j) => i = j
  BY DEF BusyIffOneJob, Own

LEMMA NextBusy ==
    TypeOK /\ ScreensNumbered /\ BusyIffOneJob /\ [Next]_vars => BusyIffOneJob'
  <1>. SUFFICES ASSUME TypeOK, ScreensNumbered, [Next]_vars,
                       busy <=> \E j \in Jobs : Own(j),
                       \A i, j \in Jobs : Own(i) /\ Own(j) => i = j
                PROVE  /\ busy' <=> \E j \in Jobs : Own(j)'
                       /\ \A i, j \in Jobs : Own(i)' /\ Own(j)' => i = j
    <2>1. BusyIffOneJob' <=> /\ busy' <=> \E j \in Jobs : Own(j)'
                             /\ \A i, j \in Jobs : Own(i)' /\ Own(j)' => i = j
      BY DEF BusyIffOneJob, Own
    <2>. QED
      BY <2>1, BusyMeans
  <1>. USE DEF Own, JobPending
  <1>1. CASE UNCHANGED vars
    BY <1>1 DEF vars, uiVars
  <1>2. CASE Create
    <2>1. \A j \in Jobs : ~Own(j)'
      <3>1. \A j \in Jobs : job[j].act \in Nat /\ activity \in Nat
        BY BoundFacts DEF TypeOK
      <3>. QED
        BY <1>2, <3>1 DEF Create, ScreensNumbered
    <2>. QED
      BY <1>2, <2>1 DEF Create
  <1>3. CASE Destroy \/ ProcessDies
    BY <1>3, EndFrame
  <1>4. ASSUME NEW j \in Jobs, TapJob(j)
        PROVE  /\ busy' <=> \E i \in Jobs : Own(i)'
               /\ \A i, k \in Jobs : Own(i)' /\ Own(k)' => i = k
    <2>1. Own(j)' /\ \A i \in Jobs \ {j} : Own(i)' <=> Own(i)
      BY <1>4 DEF TapJob, TypeOK
    <2>2. busy' /\ \A i \in Jobs : ~Own(i)
      BY <1>4 DEF TapJob
    <2>. QED
      BY <2>1, <2>2
  <1>5. ASSUME NEW j \in Jobs, JobStep(j)
        PROVE  /\ busy' <=> \E i \in Jobs : Own(i)'
               /\ \A i, k \in Jobs : Own(i)' /\ Own(k)' => i = k
    <2>1. \A i \in Jobs \ {j} : Own(i)' <=> Own(i)
      BY <1>5, JobStepFrame
    <2>2. CASE FinishJob(j)
      <3>1. Own(j) /\ ~Own(j)' /\ ~busy'
        BY <1>5, <2>2, JobStepFrame DEF FinishJob, ScopeActive
      <3>. QED
        BY <2>1, <3>1
    <2>3. CASE ~FinishJob(j)
      <3>1. Own(j)' <=> Own(j)
        BY <1>5, <2>3, JobStepFrame DEF AbandonJob, ScopeActive
      <3>2. busy' = busy
        BY <1>5, <2>3, JobStepFrame
      <3>. QED
        BY <2>1, <3>1, <3>2
    <2>. QED
      BY <2>2, <2>3
  <1>6. ASSUME NEW u \in Uploads, TapUpload(u) \/ UploadStep(u)
        PROVE  UNCHANGED <<activity, alive, busy, job>>
    BY <1>6, UploadStepFrame DEF TapUpload
  <1>. QED
    BY <1>1, <1>2, <1>3, <1>4, <1>5, <1>6 DEF Next

LEMMA NextShown == TypeOK /\ ScreensNumbered /\ ShownResultIsOwn /\ UploadHasResult /\ [Next]_vars
                       => ShownResultIsOwn'
  <1>. SUFFICES ASSUME TypeOK, ScreensNumbered, ShownResultIsOwn, UploadHasResult, [Next]_vars
                PROVE  ShownResultIsOwn'
    OBVIOUS
  <1>. USE DEF ShownResultIsOwn
  <1>1. CASE UNCHANGED vars
    BY <1>1 DEF vars, uiVars
  <1>2. CASE Create
    BY <1>2, NameAssumption DEF Create, TypeOK
  <1>3. CASE Destroy \/ ProcessDies
    BY <1>3, EndFrame, NameAssumption
  <1>4. ASSUME NEW j \in Jobs, TapJob(j) PROVE ShownResultIsOwn'
    <2>1. lastJson # j
      BY <1>4 DEF TapJob, NextOf
    <2>. QED
      BY <1>4, <2>1 DEF TapJob, TypeOK
  <1>5. ASSUME NEW j \in Jobs, JobStep(j) PROVE ShownResultIsOwn'
    <2>1. CASE FinishJob(j)
      BY <1>5, <2>1, JobStepFrame DEF FinishJob, ScopeActive
    <2>2. CASE ~FinishJob(j)
      BY <1>5, <2>2, JobStepFrame DEF JobPending
    <2>. QED
      BY <2>1, <2>2
  <1>6. ASSUME NEW u \in Uploads, TapUpload(u) PROVE ShownResultIsOwn'
    BY <1>6 DEF TapUpload
  <1>7. ASSUME NEW u \in Uploads, UploadStep(u) PROVE ShownResultIsOwn'
    <2>1. CASE FinishUpload(u)
      <3>1. lastJson # Empty
        BY <2>1 DEF FinishUpload, ScopeActive, MoveUpload, UploadHasResult, UploadPending
      <3>. QED
        BY <1>7, <3>1, UploadStepFrame
    <2>2. CASE ~FinishUpload(u)
      BY <1>7, <2>2, UploadStepFrame
    <2>. QED
      BY <2>1, <2>2
  <1>. QED
    BY <1>1, <1>2, <1>3, <1>4, <1>5, <1>6, <1>7 DEF Next

LEMMA NextUploadHasResult ==
    TypeOK /\ ScreensNumbered /\ UploadHasResult /\ [Next]_vars => UploadHasResult'
  <1>. SUFFICES ASSUME TypeOK, ScreensNumbered, UploadHasResult, [Next]_vars
                PROVE  UploadHasResult'
    OBVIOUS
  <1>. USE DEF UploadHasResult, UploadPending
  <1>1. CASE UNCHANGED vars
    BY <1>1 DEF vars, uiVars
  <1>2. CASE Create
    <2>1. \A u \in Uploads : upload[u].act \in Nat /\ activity \in Nat
      BY BoundFacts DEF TypeOK
    <2>. QED
      BY <1>2, <2>1 DEF Create, ScreensNumbered
  <1>3. CASE Destroy \/ ProcessDies
    BY <1>3, EndFrame
  <1>4. ASSUME NEW j \in Jobs, TapJob(j) PROVE UploadHasResult'
    BY <1>4 DEF TapJob
  <1>5. ASSUME NEW j \in Jobs, JobStep(j) PROVE UploadHasResult'
    BY <1>5, JobStepFrame, NameAssumption DEF FinishJob
  <1>6. ASSUME NEW u \in Uploads, TapUpload(u) PROVE UploadHasResult'
    BY <1>6 DEF TapUpload
  <1>7. ASSUME NEW u \in Uploads, UploadStep(u) PROVE UploadHasResult'
    <2>1. \A v \in Uploads : UploadPending(v)' => UploadPending(v)
      <3>1. UploadPending(u)
        BY <1>7 DEF UploadStep, StartPost, ServerStores, PostAnswered, PostFails, FinishUpload,
                    AbandonUpload, MoveUpload
      <3>. QED
        BY <1>7, <3>1, UploadStepFrame
    <2>. QED
      BY <1>7, <2>1, UploadStepFrame
  <1>. QED
    BY <1>1, <1>2, <1>3, <1>4, <1>5, <1>6, <1>7 DEF Next

LEMMA NextUploadNotStuck ==
    TypeOK /\ ScreensNumbered /\ UploadNotStuck /\ [Next]_vars => UploadNotStuck'
  <1>. SUFFICES ASSUME TypeOK, ScreensNumbered, UploadNotStuck, [Next]_vars
                PROVE  UploadNotStuck'
    OBVIOUS
  <1>. USE DEF UploadNotStuck, UploadPending
  <1>1. CASE UNCHANGED vars
    BY <1>1 DEF vars, uiVars
  <1>2. CASE Create
    BY <1>2 DEF Create
  <1>3. CASE Destroy \/ ProcessDies
    BY <1>3, EndFrame
  <1>4. ASSUME NEW j \in Jobs, TapJob(j) PROVE UploadNotStuck'
    BY <1>4 DEF TapJob
  <1>5. ASSUME NEW j \in Jobs, JobStep(j) PROVE UploadNotStuck'
    BY <1>5, JobStepFrame DEF FinishJob
  <1>6. ASSUME NEW u \in Uploads, TapUpload(u) PROVE UploadNotStuck'
    <2>1. upload'[u].st = "launched" /\ upload'[u].act = activity /\ activity' = activity
      BY <1>6 DEF TapUpload, TypeOK
    <2>. QED
      BY <2>1
  <1>7. ASSUME NEW u \in Uploads, UploadStep(u) PROVE UploadNotStuck'
    <2>1. CASE FinishUpload(u)
      BY <2>1 DEF FinishUpload
    <2>2. CASE AbandonUpload(u)
      BY <1>7, <2>2, UploadStepFrame DEF AbandonUpload, ScopeActive, diskVars, uiVars
    <2>3. CASE StartPost(u) \/ ServerStores(u) \/ PostAnswered(u) \/ PostFails(u)
      <3>1. UploadPending(u)' /\ UNCHANGED uiVars
        BY <2>3 DEF StartPost, ServerStores, PostAnswered, PostFails, MoveUpload, TypeOK
      <3>. QED
        BY <1>7, <3>1, UploadStepFrame DEF uiVars
    <2>. QED
      BY <1>7, <2>1, <2>2, <2>3 DEF UploadStep
  <1>. QED
    BY <1>1, <1>2, <1>3, <1>4, <1>5, <1>6, <1>7 DEF Next

LEMMA NextUploadLabelled ==
    TypeOK /\ ShownResultIsOwn /\ UploadLabelled /\ [Next]_vars => UploadLabelled'
  <1>. SUFFICES ASSUME TypeOK, ShownResultIsOwn, UploadLabelled, [Next]_vars
                PROVE  UploadLabelled'
    OBVIOUS
  <1>. USE DEF UploadLabelled, KindOf
  <1>1. CASE UNCHANGED vars
    BY <1>1 DEF vars
  <1>2. CASE Create
    BY <1>2 DEF Create
  <1>3. CASE Destroy \/ ProcessDies
    BY <1>3, EndFrame DEF JobPending, UploadPending
  <1>4. ASSUME NEW j \in Jobs, TapJob(j) PROVE UploadLabelled'
    <2>1. /\ upload' = upload /\ job[j].st # "done"
          /\ \A i \in Jobs \ {j} : job'[i] = job[i]
      BY <1>4 DEF TapJob, NextOf, TypeOK
    <2>. QED
      BY <2>1
  <1>5. ASSUME NEW j \in Jobs, JobStep(j) PROVE UploadLabelled'
    BY <1>5, JobStepFrame DEF JobPending
  <1>6. ASSUME NEW u \in Uploads, TapUpload(u) PROVE UploadLabelled'
    <2>1. /\ job' = job /\ lastJson # Empty
          /\ upload'[u].label = lastKind /\ upload'[u].payload = lastJson
          /\ \A v \in Uploads \ {u} : upload'[v] = upload[v]
      BY <1>6 DEF TapUpload, TypeOK
    <2>2. lastKind = KindOf(lastJson) /\ (lastJson \in Jobs => job[lastJson].st = "done")
      BY <2>1 DEF ShownResultIsOwn
    <2>. QED
      BY <2>1, <2>2
  <1>7. ASSUME NEW u \in Uploads, UploadStep(u) PROVE UploadLabelled'
    BY <1>7, UploadStepFrame
  <1>. QED
    BY <1>1, <1>2, <1>3, <1>4, <1>5, <1>6, <1>7 DEF Next

LEMMA NextStored == TypeOK /\ StoredWasSent /\ [Next]_vars => StoredWasSent'
  <1>. SUFFICES ASSUME TypeOK, StoredWasSent, [Next]_vars PROVE StoredWasSent'
    OBVIOUS
  <1>. USE DEF StoredWasSent
  <1>1. CASE UNCHANGED vars
    BY <1>1 DEF vars
  <1>2. CASE Create
    BY <1>2 DEF Create
  <1>3. CASE Destroy \/ ProcessDies
    BY <1>3, EndFrame DEF UploadPending
  <1>4. ASSUME NEW j \in Jobs, TapJob(j) \/ JobStep(j) PROVE StoredWasSent'
    BY <1>4, JobStepFrame DEF TapJob
  <1>5. ASSUME NEW u \in Uploads, TapUpload(u) PROVE StoredWasSent'
    BY <1>5 DEF TapUpload, TypeOK
  <1>6. ASSUME NEW u \in Uploads, UploadStep(u) PROVE StoredWasSent'
    BY <1>6, UploadStepFrame
  <1>. QED
    BY <1>1, <1>2, <1>3, <1>4, <1>5, <1>6 DEF Next

(* Nothing gets into the bar or the log but what was there and what is added. *)
LEMMA EntriesOfNewest ==
    ASSUME NEW S, NEW q \in Seq(S)
    PROVE  Entries(Newest(q)) \subseteq Entries(q)
  <1>. SUFFICES ASSUME NEW i \in DOMAIN Newest(q) PROVE Newest(q)[i] \in Entries(q)
    BY DEF Entries
  <1>1. i \in 1..Shorter(MaxUrlHistory, Len(q)) /\ Newest(q)[i] = q[Len(q) + 1 - i]
    BY NewestType
  <1>2. Len(q) + 1 - i \in DOMAIN q
    BY <1>1, BoundFacts DEF Shorter
  <1>. QED
    BY <1>1, <1>2 DEF Entries

(* The bar gains one entry and may lose some.                               *)
LEMMA EntriesOfAddFirst ==
    ASSUME NEW S, NEW q \in Seq(S), NEW e \in S
    PROVE  Entries(AddFirst(e, q)) \subseteq Entries(q) \cup {e}
  <1>. DEFINE f == AddFirst(e, q)
              n == Shorter(MaxUrlHistory, Len(q) + 1)
  <1>1. f \in Seq(S) /\ Len(f) = n /\ f[1] = e /\ \A i \in 2..n : f[i] = q[i - 1]
    BY AddFirstType
  <1>2. n \in Nat /\ n <= Len(q) + 1 /\ Len(q) \in Nat
    BY BoundFacts DEF Shorter
  <1>. HIDE DEF f, n
  <1>3. \A i \in 2..n : f[i] \in Entries(q)
    BY <1>1, <1>2 DEF Entries
  <1>4. \A i \in DOMAIN f : i = 1 \/ i \in 2..n
    BY <1>1, <1>2
  <1>5. Entries(f) \subseteq Entries(q) \cup {e}
    BY <1>1, <1>3, <1>4 DEF Entries
  <1>. QED
    BY <1>5 DEF f

(* The log gains one entry.                                                 *)
LEMMA EntriesOfAppend ==
    ASSUME NEW S, NEW q \in Seq(S), NEW e \in S
    PROVE  Entries(Append(q, e)) = Entries(q) \cup {e}
  <1>1. /\ DOMAIN Append(q, e) = 1..Len(q) + 1 /\ DOMAIN q = 1..Len(q) /\ Len(q) \in Nat
        /\ \A i \in 1..Len(q) : Append(q, e)[i] = q[i]
        /\ Append(q, e)[Len(q) + 1] = e
    OBVIOUS
  <1>. QED
    BY <1>1 DEF Entries

(* The document behind entry e is on the service and of the kind it says.    *)
TellsKind(e) == e.url \in server /\ e.kind = KindOf(upload[e.url].payload)

LEMMA NextUrls ==
    TypeOK /\ UploadLabelled /\ StoredWasSent /\ UrlsAreLabelled /\ [Next]_vars => UrlsAreLabelled'
  <1>. SUFFICES ASSUME TypeOK, UploadLabelled, StoredWasSent, UrlsAreLabelled, [Next]_vars
                PROVE  UrlsAreLabelled'
    OBVIOUS
  <1>1. \A e \in Entries(urlHistory) \cup Entries(uploadLog) : TellsKind(e)
    BY DEF UrlsAreLabelled, TellsKind
  <1>2. \A e : TellsKind(e) => TellsKind(e)'
    <2>. SUFFICES ASSUME NEW e, TellsKind(e) PROVE TellsKind(e)'
      OBVIOUS
    <2>. DEFINE v == e.url
    <2>1. /\ v \in Uploads /\ v \in server /\ upload[v].st # "new"
          /\ upload[v].payload \in Jobs => job[upload[v].payload].st = "done"
      BY DEF TellsKind, TypeOK, StoredWasSent, UploadLabelled
    <2>2. v \in server' /\ upload'[v].payload = upload[v].payload
      <3>1. CASE UNCHANGED vars \/ Create
        BY <2>1, <3>1 DEF vars, Create
      <3>2. CASE Destroy \/ ProcessDies
        BY <2>1, <3>2, EndFrame
      <3>3. ASSUME NEW j \in Jobs, TapJob(j) \/ JobStep(j)
            PROVE v \in server' /\ upload'[v].payload = upload[v].payload
        BY <2>1, <3>3, JobStepFrame DEF TapJob
      <3>4. ASSUME NEW u \in Uploads, TapUpload(u)
            PROVE v \in server' /\ upload'[v].payload = upload[v].payload
        BY <2>1, <3>4 DEF TapUpload, NextOf, TypeOK
      <3>5. ASSUME NEW u \in Uploads, UploadStep(u)
            PROVE v \in server' /\ upload'[v].payload = upload[v].payload
        BY <2>1, <3>5, UploadStepFrame
      <3>. QED
        BY <3>1, <3>2, <3>3, <3>4, <3>5 DEF Next
    <2>3. \A i \in Jobs : job[i].st = "done" => job'[i].kind = job[i].kind
      <3>1. CASE UNCHANGED vars \/ Create
        BY <3>1 DEF vars, Create
      <3>2. CASE Destroy \/ ProcessDies
        BY <3>2, EndFrame
      <3>3. ASSUME NEW j \in Jobs, TapJob(j)
            PROVE \A i \in Jobs : job[i].st = "done" => job'[i].kind = job[i].kind
        BY <3>3 DEF TapJob, NextOf, TypeOK
      <3>4. ASSUME NEW j \in Jobs, JobStep(j)
            PROVE \A i \in Jobs : job[i].st = "done" => job'[i].kind = job[i].kind
        BY <3>4, JobStepFrame
      <3>5. ASSUME NEW u \in Uploads, TapUpload(u) \/ UploadStep(u) PROVE job' = job
        BY <3>5, UploadStepFrame DEF TapUpload
      <3>. QED
        BY <3>1, <3>2, <3>3, <3>4, <3>5 DEF Next
    <2>. QED
      BY <2>1, <2>2, <2>3 DEF TellsKind, KindOf
  <1>3. \A e \in Entries(urlHistory') \cup Entries(uploadLog') :
            e \in Entries(urlHistory) \cup Entries(uploadLog) \/ TellsKind(e)
    <2>0. /\ Entries(<<>>) = {}
          /\ Entries(Newest(uploadLog)) \subseteq Entries(uploadLog)
      <3>1. Entries(<<>>) = {}
        BY DEF Entries
      <3>. QED
        BY <3>1, EntriesOfNewest DEF TypeOK
    <2>1. CASE UNCHANGED vars \/ Create
      BY <2>0, <2>1 DEF vars, uiVars, diskVars, Create
    <2>2. CASE Destroy \/ ProcessDies
      BY <2>0, <2>2, EndFrame
    <2>3. ASSUME NEW j \in Jobs, TapJob(j) \/ JobStep(j) PROVE UNCHANGED <<urlHistory, uploadLog>>
      BY <2>3, JobStepFrame DEF TapJob, diskVars
    <2>4. ASSUME NEW u \in Uploads, TapUpload(u) \/ (UploadStep(u) /\ ~FinishUpload(u))
          PROVE  UNCHANGED <<urlHistory, uploadLog>>
      BY <2>4, UploadStepFrame DEF TapUpload, diskVars
    <2>5. ASSUME NEW u \in Uploads, FinishUpload(u)
          PROVE \A e \in Entries(urlHistory') \cup Entries(uploadLog') :
                    e \in Entries(urlHistory) \cup Entries(uploadLog) \/ TellsKind(e)
      <3>. DEFINE e == [kind |-> upload[u].label, url |-> u]
      <3>1. CASE UNCHANGED <<urlHistory, uploadLog>>
        BY <3>1
      <3>2. CASE RecordUpload(u) /\ upload[u].st = "answered"
        <4>1. e \in Entry
          BY DEF TypeOK, Entry
        <4>2. TellsKind(e)
          BY <3>2 DEF TellsKind, UploadLabelled, StoredWasSent
        <4>3. /\ Entries(urlHistory') \subseteq Entries(urlHistory) \cup {e}
              /\ Entries(uploadLog') \subseteq Entries(uploadLog) \cup {e}
          <5>1. /\ Entries(AddFirst(e, urlHistory)) \subseteq Entries(urlHistory) \cup {e}
                /\ Entries(Append(uploadLog, e)) = Entries(uploadLog) \cup {e}
            BY <4>1, EntriesOfAddFirst, EntriesOfAppend DEF TypeOK
          <5>. QED
            BY <3>2, <5>1 DEF RecordUpload
        <4>. QED
          BY <4>2, <4>3
      <3>. QED
        BY <2>5, <3>1, <3>2 DEF FinishUpload, MoveUpload
    <2>. QED
      BY <2>1, <2>2, <2>3, <2>4, <2>5 DEF Next, UploadStep
  <1>4. \A e \in Entries(urlHistory') \cup Entries(uploadLog') : TellsKind(e)'
    BY <1>1, <1>2, <1>3
  <1>. QED
    BY <1>4 DEF UrlsAreLabelled, TellsKind, Entries

LEMMA NextHistory == TypeOK /\ HistoryIsNewestOfLog /\ [Next]_vars => HistoryIsNewestOfLog'
  <1>. SUFFICES ASSUME TypeOK, HistoryIsNewestOfLog, [Next]_vars PROVE HistoryIsNewestOfLog'
    OBVIOUS
  <1>. USE DEF HistoryIsNewestOfLog
  <1>1. CASE UNCHANGED vars
    BY <1>1 DEF vars, uiVars, diskVars
  <1>2. CASE Create
    BY <1>2 DEF Create
  <1>3. CASE Destroy \/ ProcessDies
    BY <1>3, EndFrame
  <1>4. ASSUME NEW j \in Jobs, TapJob(j) \/ JobStep(j) PROVE HistoryIsNewestOfLog'
    BY <1>4, JobStepFrame DEF TapJob, diskVars
  <1>5. ASSUME NEW u \in Uploads, TapUpload(u) \/ (UploadStep(u) /\ ~FinishUpload(u))
        PROVE  HistoryIsNewestOfLog'
    BY <1>5, UploadStepFrame DEF TapUpload, diskVars
  <1>6. ASSUME NEW u \in Uploads, FinishUpload(u) PROVE HistoryIsNewestOfLog'
    <2>1. CASE UNCHANGED <<urlHistory, uploadLog, ioFailed>>
      BY <1>6, <2>1 DEF FinishUpload
    <2>2. CASE RecordUpload(u)
      <3>. DEFINE e == [kind |-> upload[u].label, url |-> u]
      <3>1. AddFirst(e, Newest(uploadLog)) = Newest(Append(uploadLog, e))
        <4>1. e \in Entry
          BY DEF TypeOK, Entry
        <4>. QED
          BY <4>1, AddFirstIsNewest DEF TypeOK
      <3>2. alive' = alive /\ urlHistory' = AddFirst(e, urlHistory)
        BY <1>6, <2>2 DEF FinishUpload, RecordUpload
      <3>3. \/ uploadLog' = Append(uploadLog, e) /\ ioFailed' = ioFailed
            \/ ioFailed' = TRUE
        BY <2>2 DEF RecordUpload
      <3>. QED
        BY <3>1, <3>2, <3>3
    <2>. QED
      BY <1>6, <2>1, <2>2 DEF FinishUpload
  <1>. QED
    BY <1>1, <1>2, <1>3, <1>4, <1>5, <1>6 DEF Next, UploadStep

LEMMA NextInv == Inv /\ [Next]_vars => Inv'
  BY NextType, NextScreens, NextBusy, NextShown, NextUploadHasResult, NextUploadNotStuck,
     NextUploadLabelled, NextStored, NextUrls, NextHistory DEF Inv

(* All parts of the invariant hold together; what follows is read off them. *)
THEOREM Invariance == Spec => []Inv
  BY InitInv, NextInv, PTL DEF Spec

(* BusyIffOneJob: the job buttons are disabled exactly while one job of the    *)
(* activity on the screen is under way, however many orphans and uploads     *)
(* end in the meantime.                                                     *)
THEOREM ButtonsFollowTheJob == Spec => []BusyIffOneJob
  <1>1. Inv => BusyIffOneJob
    BY DEF Inv
  <1>. QED
    BY <1>1, Invariance, PTL

(* ShownResultIsOwn: what the upload button would send was produced for this   *)
(* activity, and under the label it is shown with.                          *)
THEOREM ResultIsOwn == Spec => []ShownResultIsOwn
  <1>1. Inv => ShownResultIsOwn
    BY DEF Inv
  <1>. QED
    BY <1>1, Invariance, PTL

(* UploadNotStuck: the upload button is locked, with a result to send, only     *)
(* while an upload of this activity is under way.                           *)
THEOREM UploadComesBack == Spec => []UploadNotStuck
  <1>1. Inv => UploadNotStuck
    BY DEF Inv
  <1>. QED
    BY <1>1, Invariance, PTL

(* UrlsAreLabelled: every URL in the bar and in the log is filed under the     *)
(* kind of what the service stored for it.                                  *)
THEOREM UrlsTellTheirKind == Spec => []UrlsAreLabelled
  <1>1. Inv => UrlsAreLabelled
    BY DEF Inv
  <1>. QED
    BY <1>1, Invariance, PTL

(* HistoryIsNewestOfLog: the bar kept up to date by recordUpload is the one    *)
(* loadUrlHistory would read back, until the log fails.                     *)
THEOREM BarIsTheLog == Spec => []HistoryIsNewestOfLog
  <1>1. Inv => HistoryIsNewestOfLog
    BY DEF Inv
  <1>. QED
    BY <1>1, Invariance, PTL

(* DumpDeletedOnlyWhenShown: no step takes a crash dump off the disk without   *)
(* putting it on the screen.                                                *)
THEOREM DumpReachesTheScreen == Spec => DumpDeletedOnlyWhenShown
  <1>1. ASSUME [Next]_vars, dumpFile # None, dumpFile' = None
        PROVE  lastJson' = dumpFile /\ alive'
    <2>1. CASE UNCHANGED vars
      BY <1>1, <2>1 DEF vars, diskVars
    <2>2. CASE Create
      BY <1>1, <2>2 DEF Create
    <2>3. CASE Destroy \/ ProcessDies
      BY <1>1, <2>3, NameAssumption DEF Destroy, ProcessDies, diskVars
    <2>4. ASSUME NEW j \in Jobs, TapJob(j) \/ JobStep(j) PROVE dumpFile' = dumpFile
      BY <2>4 DEF TapJob, JobStep, EnterNative, LeaveNative, FinishJob, AbandonJob, diskVars
    <2>5. ASSUME NEW u \in Uploads, TapUpload(u) \/ UploadStep(u) PROVE dumpFile' = dumpFile
      BY <2>5 DEF TapUpload, UploadStep, StartPost, ServerStores, PostAnswered, PostFails,
                  FinishUpload, AbandonUpload, diskVars
    <2>. QED
      BY <1>1, <2>1, <2>2, <2>3, <2>4, <2>5 DEF Next
  <1>2. [Next]_vars =>
            [(dumpFile # None /\ dumpFile' = None) => (lastJson' = dumpFile /\ alive')]_vars
    BY <1>1
  <1>. QED
    BY <1>2, PTL DEF Spec, DumpDeletedOnlyWhenShown

-----------------------------------------------------------------------------
(* Every screen implements ResultScreen, step by step.                       *)

Screen == IF alive THEN activity ELSE 0

(* The job the abstract screen waits for is the one that locks the buttons. *)
LEMMA WorkingFacts ==
    BusyIffOneJob => /\ ~busy => Working = None
                     /\ \A j \in Jobs : Own(j) => Working = j
                     /\ (\A j \in Jobs : ~Own(j)) => Working = None
  <1>. SUFFICES ASSUME BusyIffOneJob
                PROVE  /\ \A j \in Jobs : Own(j) => Working = j
                       /\ (\A j \in Jobs : ~Own(j)) => Working = None
    BY BusyMeans
  <1>1. ASSUME NEW j \in Jobs, Own(j) PROVE Working = j
    <2>1. /\ alive
          /\ \A i \in Jobs : JobPending(i) /\ job[i].act = activity => i = j
      BY <1>1, BusyMeans DEF Own
    <2>2. (CHOOSE i \in Jobs : JobPending(i) /\ job[i].act = activity) = j
      BY <1>1, <2>1 DEF Own
    <2>. QED
      BY <1>1, <2>2 DEF Working, Own
  <1>2. (\A j \in Jobs : ~Own(j)) => Working = None
    BY DEF Working, Own
  <1>. QED
    BY <1>1, <1>2

(* The same after a step.                                                   *)
LEMMA WorkingFactsPrime ==
    BusyIffOneJob' => /\ ~busy' => Working' = None
                      /\ \A j \in Jobs : Own(j)' => Working' = j
                      /\ (\A j \in Jobs : ~Own(j)') => Working' = None
  <1>1. (BusyIffOneJob => /\ ~busy => Working = None
                          /\ \A j \in Jobs : Own(j) => Working = j
                          /\ (\A j \in Jobs : ~Own(j)) => Working = None)'
    BY WorkingFacts, PTL
  <1>. QED
    BY <1>1

(* A step in which no job of this activity begins or ends leaves Working.     *)
LEMMA WorkingKept ==
    ASSUME BusyIffOneJob, BusyIffOneJob', \A j \in Jobs : Own(j)' <=> Own(j)
    PROVE  Working' = Working
  BY WorkingFacts, WorkingFactsPrime

(* Every step is one of the abstract screen's or changes nothing it knows of. *)
LEMMA ScreenStep == Inv /\ Inv' /\ [Next]_vars => [RS!RNext]_(RS!rvars)
  <1>. SUFFICES ASSUME Inv, Inv', [Next]_vars,
                       ~ UNCHANGED <<Screen, Working, Shown>>
                PROVE  RS!RNext
    BY DEF RS!rvars, Screen
  <1>. USE DEF Inv
  <1>0. \A j \in Jobs : j # None /\ j # Empty
    BY NameAssumption
  <1>1. CASE UNCHANGED vars
    <2>1. UNCHANGED <<Screen, Working, Shown>>
      BY <1>1 DEF vars, uiVars, Screen, Working, Shown, JobPending
    <2>. QED
      BY <2>1
  <1>2. CASE Create
    <2>1. Screen = 0 /\ Screen' = activity + 1 /\ activity + 1 \in Nat \ {0}
      BY <1>2, BoundFacts DEF Create, Screen, TypeOK
    <2>2. Working' = None
      BY <1>2, WorkingFactsPrime DEF Create
    <2>3. Shown' \in {CrashText, Empty} \cup {None}
      BY <1>2 DEF Create, Shown, TypeOK
    <2>. QED
      BY <2>1, <2>2, <2>3 DEF RS!RNext, RS!Open, Screen
  <1>3. CASE Destroy \/ ProcessDies
    <2>1. Working' = None /\ Screen' = 0 /\ Shown' = None
      BY <1>3, EndFrame, WorkingFactsPrime DEF Screen, Shown
    <2>2. CASE alive
      <3>1. Screen # 0
        BY <2>2 DEF Screen, ScreensNumbered
      <3>. QED
        BY <2>1, <3>1 DEF RS!RNext, RS!Close, Screen
    <2>3. CASE ~alive
      <3>1. Working = None /\ Screen = 0 /\ Shown = None
        BY <2>3, WorkingFacts DEF Own, Screen, Shown
      <3>. QED
        BY <2>1, <3>1
    <2>. QED
      BY <2>2, <2>3
  <1>4. ASSUME NEW j \in Jobs, TapJob(j) PROVE RS!RNext
    <2>1. Screen # 0 /\ Screen' = Screen /\ Shown' = Shown
      BY <1>4 DEF TapJob, Screen, ScreensNumbered, Shown
    <2>2. Working = None
      BY <1>4, WorkingFacts DEF TapJob
    <2>3. Working' = j
      <3>1. Own(j)'
        BY <1>4 DEF TapJob, Own, JobPending, TypeOK
      <3>. QED
        BY <3>1, WorkingFactsPrime
    <2>4. Shown # j
      BY <1>0, <1>4 DEF Shown, ShownResultIsOwn, TapJob, NextOf
    <2>. QED
      BY <2>1, <2>2, <2>3, <2>4 DEF RS!RNext, RS!Request, Screen
  <1>5. ASSUME NEW j \in Jobs, JobStep(j) PROVE RS!RNext
    <2>1. CASE FinishJob(j)
      <3>1. Working = j
        <4>1. Own(j)
          BY <1>5, <2>1, JobStepFrame DEF FinishJob, ScopeActive, Own
        <4>. QED
          BY <4>1, WorkingFacts
      <3>2. Working' = None /\ Shown' = j /\ Screen' = Screen
        BY <1>0, <2>1, WorkingFactsPrime DEF FinishJob, ScopeActive, Shown, Screen
      <3>. QED
        BY <1>0, <3>1, <3>2 DEF RS!RNext, RS!Deliver, Screen
    <2>2. CASE ~FinishJob(j)
      <3>1. \A i \in Jobs : Own(i)' <=> Own(i)
        <4>1. \A i \in Jobs \ {j} : Own(i)' <=> Own(i)
          BY <1>5, JobStepFrame DEF Own, JobPending
        <4>2. Own(j)' <=> Own(j)
          BY <1>5, <2>2, JobStepFrame DEF Own, JobPending, AbandonJob, ScopeActive
        <4>. QED
          BY <4>1, <4>2
      <3>2. Working' = Working
        BY <3>1, WorkingKept
      <3>3. Screen' = Screen /\ Shown' = Shown
        BY <1>5, <2>2, JobStepFrame DEF Screen, Shown
      <3>. QED
        BY <3>2, <3>3
    <2>. QED
      BY <2>1, <2>2
  <1>6. ASSUME NEW u \in Uploads, TapUpload(u) \/ UploadStep(u) PROVE RS!RNext
    <2>1. UNCHANGED <<activity, alive, lastJson, job>>
      BY <1>6, UploadStepFrame DEF TapUpload
    <2>2. Working' = Working
      BY <2>1, WorkingKept DEF Own, JobPending
    <2>3. uploadEnabled' # uploadEnabled => lastJson # Empty
      BY <1>6, UploadStepFrame
         DEF TapUpload, FinishUpload, ScopeActive, MoveUpload, UploadHasResult, UploadPending
    <2>4. Screen' = Screen /\ Shown' = Shown
      BY <2>1, <2>3 DEF Screen, Shown
    <2>. QED
      BY <2>2, <2>4
  <1>. QED
    BY <1>1, <1>2, <1>3, <1>4, <1>5, <1>6 DEF Next

(* ImplementsResultScreen: a screen waits for one job at a time and comes to   *)
(* show that job and no other; what an earlier activity began never appears. *)
THEOREM EveryScreenKeepsItsPromise == Spec => ImplementsResultScreen
  <1>1. Init => RS!RInit
    <2>. SUFFICES ASSUME Init PROVE RS!RInit
      OBVIOUS
    <2>. QED
      BY DEF Init, RS!RInit, Working, Shown
  <1>2. Inv /\ Inv' /\ [Next]_vars => [RS!RNext]_(RS!rvars)
    BY ScreenStep
  <1>. QED
    BY <1>1, <1>2, Invariance, PTL DEF Spec, ImplementsResultScreen, RS!RSpec
=============================================================================
