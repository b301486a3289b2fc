---------------------------- MODULE BenchService ----------------------------
(***************************************************************************)
(* What a caller of nativeRunBenchmarks is promised, with no view of the    *)
(* dispatch loop: a request is answered once, either by an error envelope   *)
(* or by every benchmark the request stands for, each once and in registry  *)
(* order - never by part of them, nor by somebody else's results.  A native *)
(* crash drops every request in flight.                                     *)
(***************************************************************************)
EXTENDS BenchRegistry

CONSTANT Callers

VARIABLES request,  \* request[c]: the filter of c's latest call
          status,   \* status[c]: "idle", "pending", "ok" or "error"
          reply     \* reply[c]: the slots in c's latest answer

svars == <<request, status, reply>>

(* An empty filter stands for the default suite, any other filter for the   *)
(* benchmarks it names, opt-in ones included.                               *)
Requested(f) == IF f.empty THEN {s \in Slots : Registry[s] \notin OptIn}
                           ELSE {s \in Slots : Registry[s] \in f.names}

SInit == /\ request = [c \in Callers |-> DefaultFilter]
         /\ status = [c \in Callers |-> "idle"]
         /\ reply = [c \in Callers |-> <<>>]

Submit(c) == \E f \in Filters :
    /\ status[c] # "pending"
    /\ request' = [request EXCEPT ![c] = f]
    /\ status' = [status EXCEPT ![c] = "pending"]
    /\ reply' = [reply EXCEPT ![c] = <<>>]

AnswerOk(c) ==
    /\ status[c] = "pending"
    /\ status' = [status EXCEPT ![c] = "ok"]
    /\ reply' = [reply EXCEPT ![c] = reply'[c]]
    /\ Enumerates(reply'[c], Requested(request[c]))
    /\ UNCHANGED request

AnswerError(c) ==
    /\ status[c] = "pending"
    /\ status' = [status EXCEPT ![c] = "error"]
    /\ UNCHANGED <<request, reply>>

(* The caller is done with an answer and turns to something else. *)
Forget(c) ==
    /\ status[c] \in {"ok", "error"}
    /\ status' = [status EXCEPT ![c] = "idle"]
    /\ reply' = [reply EXCEPT ![c] = <<>>]
    /\ UNCHANGED request

(* The process dies; nobody is owed an answer any more. *)
DropAll == /\ status' = [c \in Callers |-> "idle"]
           /\ reply' = [c \in Callers |-> <<>>]
           /\ UNCHANGED request

SNext == DropAll \/ \E c \in Callers : Submit(c) \/ AnswerOk(c) \/ AnswerError(c) \/ Forget(c)

SSpec == SInit /\ [][SNext]_svars
=============================================================================
