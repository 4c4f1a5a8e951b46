-------------------------------- MODULE Waiting --------------------------------
(***************************************************************************)
(* The waits of the SDK on semaphores and the threads they hold.           *)
(* getAllServiceAddress() and getDiDDocument block the thread of their     *)
(* caller until a handler on the delegate queue of URLSession.shared       *)
(* signals; lastBlockTimeStamp() blocks a thread of the cooperative pool   *)
(* until a task that needs a thread of the same pool signals, or for 30    *)
(* seconds.  An application may call any of them from a completion, that   *)
(* is, on the thread the SDK calls the completion on.                      *)
(***************************************************************************)
EXTENDS Integers, FiniteSets

CONSTANTS
    Jobs,      \* functions of the SDK the applications call
    Kind,      \* Kind[j]: what job j is
    PoolSize,  \* threads of the cooperative pool: one per processor
    Answers    \* the kinds of answer the services give

(* "open" makes a delegator or wallet object, "verify" a token's check;    *)
(* the others are the signing steps of createDID and deleteDID.            *)
Kinds == {"open", "verify", "create", "removeKey", "removeAddress"}

(* With a result, a transport error, a JSON object without result, a body  *)
(* that is not JSON, JSON that is no object.                               *)
AnswerKinds == {"result", "error", "noResult", "notJson", "notObject"}

ASSUME WaitingAssumption ==
    /\ IsFiniteSet(Jobs) /\ Kind \in [Jobs -> Kinds]
    /\ PoolSize \in Nat \ {0}
    /\ Answers \subseteq AnswerKinds

VARIABLES
    registryAddress,  \* the service addresses are known
    job,              \* job[j]: where it is, the thread it holds, how it ended
    fetch,            \* fetch[j]: the block fetch task of a signing step
    reply,            \* reply[j]: {the answer whose handler has not run}
    overdue,          \* signing steps whose 30 seconds are over
    unsignalled,      \* jobs whose handler ran and called nobody (history)
    refused,          \* signing steps the node gave no block in time (history)
    peak,             \* most pool threads ever held by jobs at once (history)
    trapped           \* a forced cast failed and the process ended

vars == <<registryAddress, job, fetch, reply, overdue, unsignalled, refused, peak, trapped>>

Ats == {"idle", "queued", "waiting", "requested", "posted", "polling", "ended"}

Places == {"none", "own", "main", "pool", "queue"}

Fetches == {"none", "ready", "asking", "found", "missing", "over"}

Outcomes == {"none", "done", "notReady", "noTxId", "delegatorError", "reported"}

Init ==
    /\ registryAddress \in BOOLEAN
    /\ job = [j \in Jobs |-> [at |-> "idle", on |-> "none", end |-> "none"]]
    /\ fetch = [j \in Jobs |-> "none"]
    /\ reply = [j \in Jobs |-> {}]
    /\ overdue = {} /\ unsignalled = {} /\ refused = {} /\ peak = 0
    /\ trapped = FALSE

-----------------------------------------------------------------------------
(* Threads. *)

Holding(p) == {j \in Jobs : job[j].on = p}

(* Mutant: a task needs a thread beside the one it was made on. *)
PoolHasSpareThread == Cardinality(Holding("pool")) + 1 < PoolSize

PoolHasThread == Cardinality(Holding("pool")) < PoolSize

QueueIsFree == Holding("queue") = {}

MainIsFree == Holding("main") = {}

Signs(j) == Kind[j] \notin {"open", "verify"}

Ended(why) == [at |-> "ended", on |-> "none", end |-> why]

(* What becomes of job i when it is called on thread p.  Signing is left   *)
(* to a task; the others keep the thread until they return.                *)
CalledOn(i, p) ==
    IF Signs(i) THEN [at |-> "queued", on |-> "none", end |-> "none"]
    ELSE IF Kind[i] = "open" /\ registryAddress THEN Ended("done")
    ELSE [at |-> "waiting", on |-> p, end |-> "none"]

Idle == {j \in Jobs : job[j].at = "idle"}

(* Job j ends on thread p and gives it up; where the SDK calls a           *)
(* completion, the application may make its next call.                     *)
Complete(j, why, p) ==
    \/ job' = [job EXCEPT ![j] = Ended(why)]
    \/ \E i \in Idle : job' = [job EXCEPT ![j] = Ended(why), ![i] = CalledOn(i, p)]

(* A function that blocked its caller returns to it. *)
Return(j) == job' = [job EXCEPT ![j] = Ended("done")]

-----------------------------------------------------------------------------
(* The application calls a function of the SDK: on a thread of its own, on *)
(* the main thread, or in a task on the pool.                              *)
Call(j) ==
    /\ job[j].at = "idle"
    /\ \E p \in {"own", "main", "pool"} :
        /\ p = "pool" => PoolHasThread
        /\ p = "main" => MainIsFree
        /\ job' = [job EXCEPT ![j] = CalledOn(j, p)]
    /\ UNCHANGED <<registryAddress, fetch, reply, overdue, unsignalled, refused>>

(* A signing function runs in its task: it ends when the addresses are     *)
(* missing, and otherwise starts the fetch and waits.                      *)
StartSigning(j) ==
    /\ job[j].at = "queued" /\ PoolHasThread
    /\ IF registryAddress
         THEN /\ job' = [job EXCEPT ![j].at = "waiting", ![j].on = "pool"]
              /\ fetch' = [fetch EXCEPT ![j] = "ready"]
         ELSE Complete(j, "notReady", "pool") /\ UNCHANGED fetch
    /\ UNCHANGED <<registryAddress, reply, overdue, unsignalled, refused>>

(* The fetch task asks the node, which takes a thread only to begin ...    *)
AskForBlock(j) ==
    /\ fetch[j] = "ready" /\ PoolHasThread
    /\ fetch' = [fetch EXCEPT ![j] = "asking"]
    /\ UNCHANGED <<registryAddress, job, reply, overdue, unsignalled, refused>>

NodeAnswers(j) ==
    /\ fetch[j] = "asking"
    /\ \/ fetch' = [fetch EXCEPT ![j] = "found"] /\ UNCHANGED refused
       \/ fetch' = [fetch EXCEPT ![j] = "missing"] /\ refused' = refused \cup {j}
    /\ UNCHANGED <<registryAddress, job, reply, overdue, unsignalled>>

(* Mutant: the task keeps its thread while the request is on its way. *)
BlockArrivesKeepingThread(j) ==
    /\ fetch[j] \in {"found", "missing"} /\ PoolHasThread
    /\ fetch' = [fetch EXCEPT ![j] = "over"]
    /\ IF job[j].at # "waiting" THEN UNCHANGED job
       ELSE IF fetch[j] = "missing" THEN Complete(j, "notReady", "pool")
       ELSE job' = [job EXCEPT ![j].at = "requested"]
    /\ UNCHANGED <<registryAddress, reply, overdue, unsignalled, refused>>

(* ... and to go on.  It wakes the signing function, if that still waits:  *)
(* with a block it signs, hands its request to URLSession and returns.     *)
BlockArrives(j) ==
    /\ fetch[j] \in {"found", "missing"} /\ PoolHasThread
    /\ fetch' = [fetch EXCEPT ![j] = "over"]
    /\ IF job[j].at # "waiting" THEN UNCHANGED job
       ELSE IF fetch[j] = "missing" THEN Complete(j, "notReady", "pool")
       ELSE job' = [job EXCEPT ![j].at = "requested", ![j].on = "none"]
    /\ UNCHANGED <<registryAddress, reply, overdue, unsignalled, refused>>

(* Thirty seconds are long for what needs only a thread: they pass only    *)
(* when no fetch task can run.  A node that has not answered is late.      *)
Awaiting == {j \in Jobs : job[j].at = "waiting" /\ Signs(j)}

SecondsPass ==
    /\ Awaiting \ overdue # {}
    /\ \A j \in Jobs : fetch[j] \in {"ready", "found", "missing"} => ~PoolHasThread
    /\ overdue' = overdue \cup Awaiting
    /\ refused' = refused \cup {j \in Awaiting : fetch[j] = "asking"}
    /\ UNCHANGED <<registryAddress, job, fetch, reply, unsignalled>>

(* Mutant: semaPhore.wait() without limit. *)
NeverTimesOut(j) ==
    /\ j \in overdue /\ fetch[j] = "over" /\ job[j].at = "waiting"
    /\ Complete(j, "notReady", "pool")
    /\ UNCHANGED <<registryAddress, fetch, reply, overdue, unsignalled, refused>>

TimeOut(j) ==
    /\ j \in overdue /\ job[j].at = "waiting"
    /\ Complete(j, "notReady", "pool")
    /\ UNCHANGED <<registryAddress, fetch, reply, overdue, unsignalled, refused>>

-----------------------------------------------------------------------------
(* URLSession.shared: answers arrive, and their handlers run one at a time *)
(* on the delegate queue.                                                  *)

AwaitsReply(j) ==
    \/ job[j].at = "waiting" /\ ~Signs(j)
    \/ job[j].at = "requested"

Receive(j) ==
    /\ AwaitsReply(j) /\ reply[j] = {} /\ j \notin unsignalled
    /\ \E a \in Answers : reply' = [reply EXCEPT ![j] = {a}]
    /\ UNCHANGED <<registryAddress, job, fetch, overdue, unsignalled, refused>>

(* The handler of an answer runs. *)
HandledReply(j, a) ==
    /\ reply[j] = {a} /\ QueueIsFree
    /\ reply' = [reply EXCEPT ![j] = {}]

(* No branch of the handler, or of what it calls, is for the answer. *)
CallNobody(j) ==
    /\ unsignalled' = unsignalled \cup {j}
    /\ UNCHANGED <<registryAddress, job, trapped>>

(* A forced cast of what is not a dictionary. *)
Trap ==
    /\ trapped' = TRUE
    /\ UNCHANGED <<registryAddress, job, unsignalled>>

(* Mutant: an error does not signal. *)
HandleRegistryErrorSilently(j, a) ==
    IF a = "result" THEN Return(j) /\ registryAddress' = TRUE /\ UNCHANGED <<unsignalled, trapped>>
    ELSE UNCHANGED <<registryAddress, job, unsignalled, trapped>>

(* get_all_service_addresses: a JSON-RPC error is passed on as the bytes   *)
(* of the answer, a body that is not JSON as nothing at all.               *)
HandleRegistry(j, a) ==
    CASE a = "result" ->
           Return(j) /\ registryAddress' = TRUE /\ UNCHANGED <<unsignalled, trapped>>
      [] a = "error" -> Return(j) /\ UNCHANGED <<registryAddress, unsignalled, trapped>>
      [] a = "notJson" -> CallNobody(j)
      [] a \in {"noResult", "notObject"} -> Trap

(* The resolver's answer: an object without document still signals. *)
HandleDocument(j, a) ==
    IF a \in {"result", "error", "noResult"}
      THEN Return(j) /\ UNCHANGED <<registryAddress, unsignalled, trapped>>
      ELSE CallNobody(j)

(* Mutant: removeAddress is no exception to an answer without id. *)
HandleTxIdAllAlike(j, a) ==
    CASE a = "result" ->
           /\ job' = [job EXCEPT ![j].at = IF Kind[j] = "create" THEN "polling" ELSE "posted"]
           /\ UNCHANGED <<registryAddress, unsignalled, trapped>>
      [] a = "error" ->
           /\ Complete(j, "delegatorError", "queue")
           /\ UNCHANGED <<registryAddress, unsignalled, trapped>>
      [] a \in {"noResult", "notJson"} -> UNCHANGED <<registryAddress, job, unsignalled, trapped>>
      [] a = "notObject" -> Trap

(* The answer to a signing step's request.  After deleteDID's requests a   *)
(* block on the main queue starts the task that polls.                     *)
HandleTxId(j, a) ==
    CASE a = "result" ->
           /\ job' = [job EXCEPT ![j].at = IF Kind[j] = "create" THEN "polling" ELSE "posted"]
           /\ UNCHANGED <<registryAddress, unsignalled, trapped>>
      [] a = "error" ->
           /\ Complete(j, "delegatorError", "queue")
           /\ UNCHANGED <<registryAddress, unsignalled, trapped>>
      [] a \in {"noResult", "notJson"} ->
           IF Kind[j] = "removeAddress"
             THEN /\ Complete(j, "noTxId", "queue")
                  /\ UNCHANGED <<registryAddress, unsignalled, trapped>>
             ELSE CallNobody(j)
      [] a = "notObject" -> Trap

Handle(j) ==
    /\ \E a \in AnswerKinds :
        /\ HandledReply(j, a)
        /\ CASE Kind[j] = "open" -> HandleRegistry(j, a)
             [] Kind[j] = "verify" -> HandleDocument(j, a)
             [] Signs(j) -> HandleTxId(j, a)
    /\ UNCHANGED <<fetch, overdue, refused>>

(* The block that deleteDID posted to the main queue. *)
RunOnMain(j) ==
    /\ job[j].at = "posted" /\ MainIsFree
    /\ job' = [job EXCEPT ![j].at = "polling"]
    /\ UNCHANGED <<registryAddress, fetch, reply, overdue, unsignalled, refused>>

(* Polling gives its thread back between polls; when it is over the        *)
(* completion runs on the pool.                                            *)
Report(j) ==
    /\ job[j].at = "polling" /\ PoolHasThread
    /\ Complete(j, "reported", "pool")
    /\ UNCHANGED <<registryAddress, fetch, reply, overdue, unsignalled, refused>>

-----------------------------------------------------------------------------

(* The most threads of the pool jobs have held at once. *)
NotePeak == peak' = LET n == Cardinality({j \in Jobs : job'[j].on = "pool"})
                    IN  IF n > peak THEN n ELSE peak

Untrapped == ~trapped /\ UNCHANGED trapped /\ NotePeak

Run(j) ==
    \/ StartSigning(j) \/ AskForBlock(j) \/ NodeAnswers(j) \/ BlockArrives(j)
    \/ TimeOut(j) \/ Receive(j) \/ RunOnMain(j) \/ Report(j)

(* What goes on by itself once it has been called. *)
Proceed(j) ==
    \/ Run(j) /\ Untrapped
    \/ ~trapped /\ Handle(j) /\ NotePeak

TimePasses == SecondsPass /\ Untrapped

Next ==
    \/ \E j \in Jobs : Proceed(j) \/ (Call(j) /\ Untrapped)
    \/ TimePasses

Spec == Init /\ [][Next]_vars

-----------------------------------------------------------------------------
(* Fairness: the runtime runs a task when a thread is free, URLSession     *)
(* answers or times out, time passes.                                      *)
FairSpec ==
    /\ Spec
    /\ \A j \in Jobs : WF_vars(Proceed(j))
    /\ WF_vars(TimePasses)

-----------------------------------------------------------------------------
(* Properties. *)

(* Every variable keeps its type, and exactly the jobs that wait on a      *)
(* semaphore hold a thread; polling and requests hold none.                *)
TypeOK ==
    /\ registryAddress \in BOOLEAN /\ trapped \in BOOLEAN /\ peak \in 0..PoolSize
    /\ job \in [Jobs -> [at : Ats, on : Places, end : Outcomes]]
    /\ fetch \in [Jobs -> Fetches] /\ reply \in [Jobs -> SUBSET AnswerKinds]
    /\ overdue \subseteq Jobs /\ unsignalled \subseteq Jobs /\ refused \subseteq Jobs
    /\ \A j \in Jobs : job[j].on # "none" <=> job[j].at = "waiting"
    /\ Cardinality(Holding("queue")) <= 1 /\ Cardinality(Holding("main")) <= 1

(* A signing step ends in notReady only when the service addresses were    *)
(* missing, when the node had no block or was late with it, or when the    *)
(* jobs held every thread of the pool at once; up to one job less than     *)
(* threads, a healthy node is enough.                                      *)
NotReadyHasCause ==
    \A j \in Jobs : job[j].end = "notReady" =>
        fetch[j] = "none" \/ j \in refused \/ peak = PoolSize

(* lastBlockTimeStamp() always returns, whatever else holds threads of the *)
(* pool, the main thread or the delegate queue.                            *)
SigningStepEnds ==
    \A j \in Jobs : Signs(j) /\ job[j].at = "waiting" ~> job[j].at # "waiting" \/ trapped

(* getAllServiceAddress() and getDiDDocument return, except for an answer  *)
(* whose handler calls nobody, and when some job was called from a         *)
(* completion on the delegate queue and now blocks the queue it waits for. *)
EveryWaitEnds ==
    \A j \in Jobs : job[j].at = "waiting" ~>
        job[j].at # "waiting" \/ trapped \/ j \in unsignalled \/ ~QueueIsFree

(* With answers whose handlers call somebody, and no blocking call from a  *)
(* completion on the delegate queue, everything ends that was called, on   *)
(* whichever thread: waits on the main thread only delay a deletion that   *)
(* goes on by way of the main queue, and waits on the pool a signing step. *)
EveryJobEnds ==
    \A j \in Jobs : job[j].at # "idle" ~>
        job[j].at = "ended" \/ trapped \/ unsignalled # {} \/ ~QueueIsFree

=============================================================================
