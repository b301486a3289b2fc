--------------------------- MODULE DispatchProofs ---------------------------
(***************************************************************************)
(* Proofs about Dispatch, for every registry, set of filters and set of      *)
(* callers that satisfy the assumptions: type correctness; the answer every  *)
(* caller gets (refinement of BenchService); and, for a single caller, what  *)
(* a crash report blames, where the tag is left and what the file holds.    *)
(***************************************************************************)
EXTENDS Dispatch, TLAPS

(* Slots are numbers, and a filter selects some of them.                    *)
LEMMA RegistryFacts ==
    /\ Len(Registry) \in Nat
    /\ Slots \subseteq Nat
    /\ \A s \in Slots : Registry[s] \in Names /\ Registry[s] # Idle
    /\ \A s \in Slots : s \in 1..Len(Registry) + 1 /\ s + 1 \in 1..Len(Registry) + 1
  <1>1. Len(Registry) \in Nat
    BY RegistryAssumption
  <1>2. \A s \in Slots : Registry[s] \in Names
    BY DEF Names
  <1>. QED
    BY <1>1, <1>2, TagAssumption DEF Slots

-----------------------------------------------------------------------------
(* Type correctness.  It needs one fact more: a thread inside a benchmark     *)
(* stands at a slot of the registry that its filter selects.                *)

RunningSelected ==
    \A c \in Callers : pc[c] = "running" => slot[c] \in Slots /\ Selected(filter[c], slot[c])

TypeInv == TypeOK /\ RunningSelected

LEMMA InitTypeInv == Init => TypeInv
  <1>. SUFFICES ASSUME Init PROVE TypeInv
    OBVIOUS
  <1>1. 1 \in 1..Len(Registry) + 1 /\ <<>> \in Seq(Slots)
    BY RegistryFacts
  <1>2. DefaultFilter \in Filters
    BY RegistryAssumption
  <1>3. TypeOK
    BY <1>1, <1>2 DEF Init, TypeOK, PCs, Tags, LatestFile
  <1>. QED
    BY <1>3 DEF Init, TypeInv, RunningSelected

LEMMA NextTypeInv == TypeInv /\ [Next]_vars => TypeInv'
  <1>. SUFFICES ASSUME TypeOK, RunningSelected, [Next]_vars PROVE TypeOK' /\ RunningSelected'
    BY DEF TypeInv
  <1>0. <<>> \in Seq(Slots) /\ 1 \in 1..Len(Registry) + 1
    BY RegistryFacts
  <1>1. CASE UNCHANGED vars
    BY <1>1 DEF TypeOK, RunningSelected, vars
  <1>2. ASSUME NEW c \in Callers, Call(c) PROVE TypeOK' /\ RunningSelected'
    BY <1>0, <1>2 DEF TypeOK, RunningSelected, Call, PCs
  <1>3. ASSUME NEW c \in Callers,
               DetectClusters(c) \/ EndOfTuple(c) \/ CallOther(c) \/ ReturnOther(c) \/ Throw(c)
        PROVE TypeOK' /\ RunningSelected'
    BY <1>0, <1>3
       DEF TypeOK, RunningSelected, DetectClusters, EndOfTuple, CallOther, ReturnOther, Throw, Goto, PCs
  <1>4. ASSUME NEW c \in Callers, Skip(c) PROVE TypeOK' /\ RunningSelected'
    BY <1>4, RegistryFacts DEF TypeOK, RunningSelected, Skip
  <1>5. ASSUME NEW c \in Callers, Tag(c) PROVE TypeOK' /\ RunningSelected'
    BY <1>5, RegistryFacts DEF TypeOK, RunningSelected, Tag, Goto, PCs, Tags
  <1>6. ASSUME NEW c \in Callers, Finish(c) PROVE TypeOK' /\ RunningSelected'
    <2>1. slot[c] \in Slots
      BY <1>6 DEF RunningSelected, Finish, Goto
    <2>2. Append(results[c], slot[c]) \in Seq(Slots)
      BY <2>1 DEF TypeOK
    <2>. QED
      BY <1>6, <2>1, <2>2, RegistryFacts DEF TypeOK, RunningSelected, Finish, Goto, PCs, Tags
  <1>7. ASSUME NEW c \in Callers, Assemble(c) PROVE TypeOK' /\ RunningSelected'
    BY <1>7 DEF TypeOK, RunningSelected, Assemble, Goto, PCs
  <1>8. ASSUME NEW c \in Callers, OpenLatest(c) \/ WriteLatest(c) PROVE TypeOK' /\ RunningSelected'
    <2>1. latest' \in LatestFile
      <3>1. \A st \in {"absent", "truncated", "whole", "mixed"}, q \in Seq(Slots) :
                [state |-> st, slots |-> q] \in LatestFile
        BY DEF LatestFile
      <3>2. latest \in LatestFile /\ results[c] \in Seq(Slots)
        BY DEF TypeOK
      <3>3. CASE OpenLatest(c)
        BY <1>0, <3>1, <3>2, <3>3 DEF OpenLatest
      <3>4. CASE WriteLatest(c)
        BY <1>0, <3>1, <3>2, <3>4 DEF WriteLatest
      <3>. QED
        BY <1>8, <3>3, <3>4
    <2>2. /\ pc' \in [Callers -> PCs] /\ reply' \in [Callers -> Seq(Slots)]
          /\ UNCHANGED <<filter, slot, results, current_bench, report>>
          /\ \A d \in Callers : pc'[d] = "running" => pc[d] = "running"
      BY <1>8 DEF OpenLatest, WriteLatest, Goto, PCs, TypeOK
    <2>. QED
      BY <2>1, <2>2 DEF TypeOK, RunningSelected
  <1>9. ASSUME NEW c \in Callers, Crash(c) PROVE TypeOK' /\ RunningSelected'
    <2>1. RunningIn(c) \in Tags
      BY RegistryFacts DEF RunningSelected, RunningIn, Tags
    <2>2. report' \in Reports
      BY <1>9, <2>1 DEF Crash, Reports, TypeOK
    <2>. QED
      BY <1>0, <1>9, <2>2 DEF TypeOK, RunningSelected, Crash, PCs, Tags
  <1>. QED
    BY <1>1, <1>2, <1>3, <1>4, <1>5, <1>6, <1>7, <1>8, <1>9 DEF Next, Step

(* TypeOK always holds: no interleaving of calls, throws and crashes moves     *)
(* the fold past the end of the tuple, lists a slot that does not exist, or  *)
(* leaves a tag that is neither a benchmark's name nor "(idle)".             *)
THEOREM TypeCorrect == Spec => []TypeOK
  <1>1. Spec => []TypeInv
    BY InitTypeInv, NextTypeInv, PTL DEF Spec
  <1>2. TypeInv => TypeOK
    BY DEF TypeInv
  <1>. QED
    BY <1>1, <1>2, PTL

-----------------------------------------------------------------------------
(* One caller: cppbench, or an app none of whose native calls outlives its    *)
(* activity.                                                                *)

SingleCaller == \A c, d \in Callers : c = d

(* The tag is the running benchmark's name while one runs, and "(idle)" as     *)
(* soon as a call has a result to list; the file is cut short only between   *)
(* its truncation and its rewrite.                                          *)
Listed(c) == pc[c] \in {"select", "assemble", "open", "write"} /\ results[c] # <<>>

TagInv == /\ \A c \in Callers : pc[c] = "running" => current_bench = Registry[slot[c]]
          /\ \A c \in Callers : Listed(c) => current_bench = Idle
          /\ \A c \in Callers : pc[c] = "clusters" => results[c] = <<>>
          /\ ResultMeansIdleTag
          /\ RunningBenchBlamed

FileInv == /\ \A c \in Callers : pc[c] = "write" => latest.state = "truncated"
           /\ LatestIsOneRun

LEMMA InitTagInv == Init => TagInv
  BY DEF Init, TagInv, Listed, ResultMeansIdleTag, RunningBenchBlamed

LEMMA NextTagInv == SingleCaller /\ TypeInv /\ TagInv /\ [Next]_vars => TagInv'
  <1>. SUFFICES ASSUME SingleCaller, TypeInv, TagInv, [Next]_vars PROVE TagInv'
    OBVIOUS
  <1>. USE DEF TagInv, Listed, ResultMeansIdleTag, RunningBenchBlamed
  <1>0. /\ pc \in [Callers -> PCs] /\ slot \in [Callers -> 1..Len(Registry) + 1]
        /\ results \in [Callers -> Seq(Slots)] /\ reply \in [Callers -> Seq(Slots)]
    BY DEF TypeInv, TypeOK
  <1>1. CASE UNCHANGED vars
    BY <1>1 DEF vars
  <1>2. ASSUME NEW c \in Callers, Call(c) \/ Step(c) \/ Throw(c) \/ CallOther(c) PROVE TagInv'
    <2>0. \A d \in Callers : d = c
      BY SingleCaller DEF SingleCaller
    <2>1. UNCHANGED report
      BY <1>2 DEF Call, Step, Throw, CallOther, DetectClusters, Skip, Tag, Finish, EndOfTuple,
                  Assemble, OpenLatest, WriteLatest, ReturnOther
    <2>2. CASE Call(c)
      BY <1>0, <2>0, <2>1, <2>2 DEF Call
    <2>3. CASE DetectClusters(c) \/ EndOfTuple(c) \/ Throw(c) \/ CallOther(c) \/ ReturnOther(c)
      BY <1>0, <2>0, <2>1, <2>3 DEF DetectClusters, EndOfTuple, Throw, CallOther, ReturnOther, Goto
    <2>4. CASE Skip(c)
      BY <1>0, <2>0, <2>1, <2>4 DEF Skip
    <2>5. CASE Tag(c)
      BY <1>0, <2>0, <2>1, <2>5 DEF Tag, Goto
    <2>6. CASE Finish(c)
      BY <1>0, <2>0, <2>1, <2>6 DEF Finish, Goto
    <2>7. CASE Assemble(c)
      BY <1>0, <2>0, <2>1, <2>7 DEF Assemble, Goto
    <2>8. CASE OpenLatest(c)
      BY <1>0, <2>0, <2>1, <2>8 DEF OpenLatest, Goto
    <2>9. CASE WriteLatest(c)
      BY <1>0, <2>0, <2>1, <2>9 DEF WriteLatest, Goto
    <2>. QED
      BY <1>2, <2>2, <2>3, <2>4, <2>5, <2>6, <2>7, <2>8, <2>9 DEF Step
  <1>3. ASSUME NEW c \in Callers, Crash(c) PROVE TagInv'
    <2>1. report'.running = RunningIn(c) /\ report'.blame = current_bench
      BY <1>3 DEF Crash
    <2>2. RunningIn(c) # Idle => current_bench = RunningIn(c)
      BY DEF RunningIn
    <2>. QED
      BY <1>3, <2>1, <2>2 DEF Crash
  <1>. QED
    BY <1>1, <1>2, <1>3 DEF Next

LEMMA InitFileInv == Init => FileInv
  BY DEF Init, FileInv, LatestIsOneRun

LEMMA NextFileInv == SingleCaller /\ TypeInv /\ FileInv /\ [Next]_vars => FileInv'
  <1>. SUFFICES ASSUME SingleCaller, TypeInv, FileInv, [Next]_vars PROVE FileInv'
    OBVIOUS
  <1>. USE DEF FileInv, LatestIsOneRun
  <1>0. pc \in [Callers -> PCs]
    BY DEF TypeInv, TypeOK
  <1>1. CASE UNCHANGED vars
    BY <1>1 DEF vars
  <1>2. ASSUME NEW c \in Callers, OpenLatest(c) PROVE FileInv'
    BY <1>0, <1>2, SingleCaller DEF OpenLatest, Goto, SingleCaller
  <1>3. ASSUME NEW c \in Callers, WriteLatest(c) PROVE FileInv'
    BY <1>0, <1>3, SingleCaller DEF WriteLatest, Goto, SingleCaller
  <1>4. ASSUME NEW c \in Callers, UNCHANGED latest, \A d \in Callers : pc'[d] = "write" => pc[d] = "write"
        PROVE FileInv'
    BY <1>4
  <1>5. ASSUME NEW c \in Callers,
               Call(c) \/ CallOther(c) \/ Throw(c) \/ Crash(c) \/ DetectClusters(c) \/ Skip(c) \/ Tag(c)
                 \/ Finish(c) \/ EndOfTuple(c) \/ Assemble(c) \/ ReturnOther(c)
        PROVE UNCHANGED latest /\ \A d \in Callers : pc'[d] = "write" => pc[d] = "write"
    BY <1>0, <1>5 DEF Call, CallOther, Throw, Crash, DetectClusters, Skip, Tag, Finish, EndOfTuple,
                      Assemble, ReturnOther, Goto
  <1>. QED
    BY <1>1, <1>2, <1>3, <1>4, <1>5 DEF Next, Step

(* With a single caller a crash inside a benchmark's code always blames that  *)
(* benchmark: Tag publishes the name before the wrapper runs and nothing but *)
(* the wrapper's own return takes it back.                                  *)
THEOREM CrashBlamesRunning == SingleCaller => (Spec => []RunningBenchBlamed)
  <1>. SUFFICES ASSUME SingleCaller PROVE Spec => []RunningBenchBlamed
    OBVIOUS
  <1>1. TypeInv /\ TagInv /\ [Next]_vars => TagInv'
    BY NextTagInv
  <1>2. TagInv => RunningBenchBlamed
    BY DEF TagInv
  <1>. QED
    BY <1>1, <1>2, InitTypeInv, NextTypeInv, InitTagInv, PTL DEF Spec

(* With a single caller a call that returned results has left the tag idle,   *)
(* even after calls that threw with their tag still set.                    *)
THEOREM TagIdleAfterResult == SingleCaller => (Spec => []ResultMeansIdleTag)
  <1>. SUFFICES ASSUME SingleCaller PROVE Spec => []ResultMeansIdleTag
    OBVIOUS
  <1>1. TypeInv /\ TagInv /\ [Next]_vars => TagInv'
    BY NextTagInv
  <1>2. TagInv => ResultMeansIdleTag
    BY DEF TagInv
  <1>. QED
    BY <1>1, <1>2, InitTypeInv, NextTypeInv, InitTagInv, PTL DEF Spec

(* With a single caller benchmarks-latest.json never mixes two documents,     *)
(* whichever step a crash of the process falls on.                          *)
THEOREM LatestFileIsOneRun == SingleCaller => (Spec => []LatestIsOneRun)
  <1>. SUFFICES ASSUME SingleCaller PROVE Spec => []LatestIsOneRun
    OBVIOUS
  <1>1. TypeInv /\ FileInv /\ [Next]_vars => FileInv'
    BY NextFileInv
  <1>2. FileInv => LatestIsOneRun
    BY DEF FileInv
  <1>. QED
    BY <1>1, <1>2, InitTypeInv, NextTypeInv, InitFileInv, PTL DEF Spec

-----------------------------------------------------------------------------
(* Any number of callers: the answers.  A call's vector lists exactly the      *)
(* selected slots it has passed; nothing but the call's own return fills the *)
(* reply.                                                                   *)

SelectedBelow(f, n) == {s \in Slots : s < n /\ Selected(f, s)}

Progress(c) ==
    /\ pc[c] = "clusters" => slot[c] = 1 /\ results[c] = <<>>
    /\ pc[c] \in {"select", "running"} =>
           Enumerates(results[c], SelectedBelow(filter[c], slot[c]))
    /\ pc[c] \in {"assemble", "open", "write"} =>
           Enumerates(results[c], BS!Requested(filter[c]))
    /\ reply[c] # <<>> => pc[c] = "ok"

AnswerInv == \A c \in Callers : Progress(c)

(* Appending a number above all those listed keeps a list increasing. *)
LEMMA EnumeratesAppend ==
    ASSUME NEW S \in SUBSET Nat, NEW r \in Seq(Slots), NEW n \in Slots,
           Enumerates(r, S), \A s \in S : s < n
    PROVE  Enumerates(Append(r, n), S \cup {n})
  <1>. DEFINE q == Append(r, n)
  <1>0. /\ Len(r) \in Nat /\ DOMAIN r = 1..Len(r) /\ DOMAIN q = 1..Len(r) + 1
        /\ \A i \in 1..Len(r) : q[i] = r[i]
        /\ q[Len(r) + 1] = n
    OBVIOUS
  <1>1. /\ Len(r) \in Nat /\ DOMAIN r = 1..Len(r) /\ DOMAIN q = 1..Len(r) + 1
        /\ \A i \in 1..Len(r) : q[i] = r[i] /\ r[i] \in S /\ r[i] \in Nat
        /\ q[Len(r) + 1] = n
    BY <1>0 DEF Enumerates
  <1>2. ASSUME NEW i \in DOMAIN q, NEW j \in DOMAIN q, i < j PROVE q[i] < q[j]
    <2>1. CASE j = Len(r) + 1
      BY <1>1, <1>2, <2>1
    <2>2. CASE j # Len(r) + 1
      BY <1>1, <1>2, <2>2 DEF Enumerates
    <2>. QED
      BY <2>1, <2>2
  <1>3. {q[i] : i \in DOMAIN q} = S \cup {n}
    BY <1>1 DEF Enumerates
  <1>. QED
    BY <1>2, <1>3 DEF Enumerates

(* What an empty or a naming filter stands for is what try_one lets through. *)
LEMMA RequestedIsSelected ==
    ASSUME NEW f \in Filters
    PROVE  BS!Requested(f) = {s \in Slots : Selected(f, s)}
  BY RegistryAssumption DEF BS!Requested, BS!Slots, Slots, Selected, Wanted

(* The next slot joins those below it if its filter selects it.             *)
LEMMA SelectedBelowStep ==
    ASSUME NEW f \in Filters, NEW n \in Slots
    PROVE  /\ Selected(f, n) => SelectedBelow(f, n + 1) = SelectedBelow(f, n) \cup {n}
           /\ ~Selected(f, n) => SelectedBelow(f, n + 1) = SelectedBelow(f, n)
  <1>1. \A s \in Slots : s < n + 1 <=> (s < n \/ s = n)
    BY RegistryFacts
  <1>2. ~(n < n)
    BY RegistryFacts
  <1>. QED
    BY <1>1, <1>2 DEF SelectedBelow

(* At the end of the tuple all selected slots are below.                    *)
LEMMA SelectedBelowEnds ==
    ASSUME NEW f \in Filters
    PROVE  /\ SelectedBelow(f, 1) = {}
           /\ SelectedBelow(f, Len(Registry) + 1) = BS!Requested(f)
  BY RequestedIsSelected, RegistryFacts DEF SelectedBelow, Slots

LEMMA InitAnswerInv == Init => AnswerInv
  BY DEF Init, AnswerInv, Progress

LEMMA NextAnswerInv == TypeInv /\ AnswerInv /\ [Next]_vars => AnswerInv'
  <1>. SUFFICES ASSUME TypeInv, AnswerInv, [Next]_vars, NEW d \in Callers PROVE Progress(d)'
    BY DEF AnswerInv
  <1>0. /\ pc \in [Callers -> PCs] /\ slot \in [Callers -> 1..Len(Registry) + 1]
        /\ filter \in [Callers -> Filters]
        /\ results \in [Callers -> Seq(Slots)] /\ reply \in [Callers -> Seq(Slots)]
        /\ Progress(d)
    BY DEF TypeInv, TypeOK, AnswerInv
  <1>. USE DEF Progress
  <1>1. CASE UNCHANGED vars
    BY <1>0, <1>1 DEF vars
  <1>2. ASSUME NEW c \in Callers, c # d, ~Crash(c), Call(c) \/ Step(c) \/ Throw(c) \/ CallOther(c)
        PROVE Progress(d)'
    <2>1. /\ pc'[d] = pc[d] /\ slot'[d] = slot[d] /\ filter'[d] = filter[d]
          /\ results'[d] = results[d] /\ reply'[d] = reply[d]
      BY <1>0, <1>2 DEF Call, Step, Throw, CallOther, DetectClusters, Skip, Tag, Finish, EndOfTuple,
                        Assemble, OpenLatest, WriteLatest, ReturnOther, Goto
    <2>. QED
      BY <1>0, <2>1
  <1>3. ASSUME NEW c \in Callers, Crash(c) PROVE Progress(d)'
    BY <1>0, <1>3 DEF Crash
  <1>4. CASE Call(d) \/ Throw(d) \/ CallOther(d) \/ ReturnOther(d)
    BY <1>0, <1>4 DEF Call, Throw, CallOther, ReturnOther, Goto
  <1>5. CASE DetectClusters(d)
    <2>1. Enumerates(<<>>, SelectedBelow(filter[d], 1))
      BY <1>0, SelectedBelowEnds DEF Enumerates
    <2>. QED
      BY <1>0, <1>5, <2>1 DEF DetectClusters, Goto
  <1>6. CASE Skip(d)
    <2>1. SelectedBelow(filter[d], slot[d] + 1) = SelectedBelow(filter[d], slot[d])
      BY <1>0, <1>6, SelectedBelowStep DEF Skip
    <2>2. slot'[d] = slot[d] + 1 /\ pc'[d] = "select" /\ UNCHANGED <<filter, results, reply>>
      BY <1>0, <1>6 DEF Skip
    <2>. QED
      BY <1>0, <1>6, <2>1, <2>2 DEF Skip
  <1>7. CASE Tag(d)
    BY <1>0, <1>7 DEF Tag, Goto
  <1>8. CASE Finish(d)
    <2>1. slot[d] \in Slots /\ Selected(filter[d], slot[d])
      BY <1>8 DEF TypeInv, RunningSelected, Finish, Goto
    <2>2. Enumerates(results[d], SelectedBelow(filter[d], slot[d]))
      BY <1>0, <1>8 DEF Finish, Goto
    <2>3. /\ SelectedBelow(filter[d], slot[d]) \in SUBSET Nat
          /\ \A s \in SelectedBelow(filter[d], slot[d]) : s < slot[d]
      BY RegistryFacts DEF SelectedBelow
    <2>4. Enumerates(Append(results[d], slot[d]), SelectedBelow(filter[d], slot[d]) \cup {slot[d]})
      BY <1>0, <2>1, <2>2, <2>3, EnumeratesAppend
    <2>5. SelectedBelow(filter[d], slot[d] + 1) = SelectedBelow(filter[d], slot[d]) \cup {slot[d]}
      BY <1>0, <2>1, SelectedBelowStep
    <2>6. /\ pc'[d] = "select" /\ slot'[d] = slot[d] + 1
          /\ results'[d] = Append(results[d], slot[d]) /\ UNCHANGED <<filter, reply>>
      BY <1>0, <1>8 DEF Finish, Goto
    <2>. QED
      BY <1>0, <1>8, <2>4, <2>5, <2>6 DEF Finish, Goto
  <1>9. CASE EndOfTuple(d)
    <2>0. slot[d] \in 1..Len(Registry) + 1 /\ slot[d] \notin 1..Len(Registry) /\ Len(Registry) \in Nat
      BY <1>0, <1>9, RegistryAssumption DEF EndOfTuple, Slots
    <2>1. slot[d] = Len(Registry) + 1
      BY <2>0
    <2>2. SelectedBelow(filter[d], slot[d]) = BS!Requested(filter[d])
      BY <1>0, <2>1, SelectedBelowEnds
    <2>. QED
      BY <1>0, <1>9, <2>2 DEF EndOfTuple, Goto
  <1>10. CASE Assemble(d) \/ OpenLatest(d) \/ WriteLatest(d)
    BY <1>0, <1>10 DEF Assemble, OpenLatest, WriteLatest, Goto
  <1>. QED
    BY <1>1, <1>2, <1>3, <1>4, <1>5, <1>6, <1>7, <1>8, <1>9, <1>10 DEF Next, Step

(* Every behaviour of the dispatch loop is one of BenchService: however many   *)
(* callers run at once, a call is answered by all it asked for, in registry  *)
(* order and once each, or by an error, or dies with the process.           *)
THEOREM DispatchImplementsService == Spec => ImplementsService
  <1>. DEFINE status == [c \in Callers |-> StatusOf(c)]
  <1>1. Init => BS!SInit
    BY DEF Init, BS!SInit, StatusOf, DefaultFilter, BS!DefaultFilter
  <1>2. TypeInv /\ AnswerInv /\ [Next]_vars => [BS!SNext]_(BS!svars)
    <2>. SUFFICES ASSUME TypeInv, AnswerInv, [Next]_vars PROVE [BS!SNext]_(BS!svars)
      OBVIOUS
    <2>. USE DEF BS!svars
    <2>0. /\ pc \in [Callers -> PCs] /\ filter \in [Callers -> Filters]
          /\ reply \in [Callers -> Seq(Slots)]
          /\ \A c \in Callers : reply[c] # <<>> => pc[c] = "ok"
          /\ \A c \in Callers : pc[c] \in {"assemble", "open", "write"} =>
                                    Enumerates(results[c], BS!Requested(filter[c]))
      BY DEF TypeInv, TypeOK, AnswerInv, Progress
    <2>1. CASE UNCHANGED vars
      BY <2>1 DEF vars, StatusOf
    <2>2. ASSUME NEW c \in Callers, Call(c) PROVE BS!Submit(c)
      BY <2>0, <2>2 DEF Call, BS!Submit, StatusOf, Free
    <2>3. ASSUME NEW c \in Callers, Throw(c) PROVE BS!AnswerError(c)
      BY <2>0, <2>3 DEF Throw, BS!AnswerError, StatusOf
    <2>4. ASSUME NEW c \in Callers, CallOther(c) PROVE BS!Forget(c) \/ UNCHANGED <<filter, status, reply>>
      BY <2>0, <2>4 DEF CallOther, Free, BS!Forget, StatusOf
    <2>5. ASSUME NEW c \in Callers, Crash(c) PROVE BS!DropAll
      BY <2>0, <2>5 DEF Crash, BS!DropAll, StatusOf
    <2>6. ASSUME NEW c \in Callers,
                 DetectClusters(c) \/ Skip(c) \/ Tag(c) \/ Finish(c) \/ EndOfTuple(c) \/ ReturnOther(c)
          PROVE UNCHANGED <<filter, status, reply>>
      BY <2>0, <2>6 DEF DetectClusters, Skip, Tag, Finish, EndOfTuple, ReturnOther, Goto, StatusOf
    <2>7. ASSUME NEW c \in Callers, Assemble(c) \/ OpenLatest(c) \/ WriteLatest(c)
          PROVE BS!AnswerOk(c) \/ UNCHANGED <<filter, status, reply>>
      <3>1. pc[c] \in {"assemble", "open", "write"} /\ UNCHANGED filter
        BY <2>7 DEF Assemble, OpenLatest, WriteLatest, Goto
      <3>2. CASE pc' = [pc EXCEPT ![c] = "ok"] /\ reply' = [reply EXCEPT ![c] = results[c]]
        <4>1. reply'[c] = results[c]
          BY <2>0, <3>2
        <4>2. BS!Enumerates(reply'[c], BS!Requested(filter[c]))
          BY <2>0, <3>1, <4>1 DEF Enumerates, BS!Enumerates
        <4>3. status[c] = "pending" /\ status' = [status EXCEPT ![c] = "ok"]
          BY <2>0, <3>1, <3>2 DEF StatusOf
        <4>4. reply' = [reply EXCEPT ![c] = reply'[c]]
          BY <2>0, <3>2
        <4>. QED
          BY <3>1, <4>2, <4>3, <4>4 DEF BS!AnswerOk
      <3>3. CASE (\E to \in {"open", "write"} : pc' = [pc EXCEPT ![c] = to]) /\ UNCHANGED reply
        BY <2>0, <3>1, <3>3 DEF StatusOf
      <3>. QED
        BY <2>7, <3>2, <3>3 DEF Assemble, OpenLatest, WriteLatest, Goto
    <2>. QED
      BY <2>1, <2>2, <2>3, <2>4, <2>5, <2>6, <2>7 DEF Next, Step, BS!SNext
  <1>. QED
    BY <1>1, <1>2, InitTypeInv, NextTypeInv, InitAnswerInv, NextAnswerInv, PTL
       DEF Spec, ImplementsService, BS!SSpec
=============================================================================
