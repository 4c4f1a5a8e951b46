----------------------------- MODULE WaitingProofs -----------------------------
(***************************************************************************)
(* Proofs about Waiting, for any finite set of jobs, any pool of threads   *)
(* and any answers of the services.                                        *)
(***************************************************************************)
EXTENDS Waiting, FiniteSetTheorems, TLAPS

Job == [at : Ats, on : Places, end : Outcomes]

(* A job is well formed: only a wait holds a thread, the wait of a signing *)
(* step one of the pool, only signing steps are queued and make requests,  *)
(* and only what is over has an end.                                       *)
Formed(j, r) ==
    /\ r \in Job
    /\ r.on # "none" <=> r.at = "waiting"
    /\ Signs(j) /\ r.at = "waiting" => r.on = "pool"
    /\ r.at \in {"queued", "requested", "posted", "polling"} => Signs(j)
    /\ r.at # "ended" => r.end = "none"

JobsOK == job \in [Jobs -> Job] /\ \A j \in Jobs : Formed(j, job[j])

(* No thread is held twice, and peak has seen them all. *)
ThreadsOK ==
    /\ peak \in 0..PoolSize /\ Cardinality(Holding("pool")) <= peak
    /\ Cardinality(Holding("queue")) <= 1 /\ Cardinality(Holding("main")) <= 1

RestOK ==
    /\ registryAddress \in BOOLEAN /\ trapped \in BOOLEAN
    /\ fetch \in [Jobs -> Fetches] /\ reply \in [Jobs -> SUBSET AnswerKinds]
    /\ overdue \subseteq Jobs /\ unsignalled \subseteq Jobs /\ refused \subseteq Jobs
    /\ \A j \in Jobs : fetch[j] # "none" \/ j \in overdue => Signs(j)

(* Why signing step j may end in notReady while it waits. *)
HasCause(j) == j \in refused \/ peak = PoolSize

(* Where the causes are noted: no fetch before the wait, and for the wait  *)
(* a fetch that is not over; a missing block and a late one have a cause.  *)
CausesOK ==
    /\ \A j \in Jobs : job[j].at \in {"idle", "queued"} => fetch[j] = "none"
    /\ \A j \in Jobs : Signs(j) /\ job[j].at = "waiting" =>
          fetch[j] \in {"ready", "asking", "found", "missing"}
    /\ \A j \in Jobs : fetch[j] = "missing" \/ j \in overdue => HasCause(j)
    /\ NotReadyHasCause

(* Only who waits for a reply has one.                                     *)
ReplyOK == \A j \in Jobs : reply[j] # {} => AwaitsReply(j)

WaitInv == JobsOK /\ ThreadsOK /\ RestOK /\ CausesOK /\ ReplyOK

-----------------------------------------------------------------------------
(* Sets of jobs. *)

(* A set that takes in one element at most has one more at most. *)
LEMMA OneMore ==
  ASSUME NEW A, IsFiniteSet(A), NEW x, NEW B, B \subseteq A \cup {x}
  PROVE  Cardinality(B) <= Cardinality(A) + 1
<1>1. IsFiniteSet(A \cup {x}) /\ Cardinality(A \cup {x}) <= Cardinality(A) + 1 /\ Cardinality(A) \in Nat
  BY FS_AddElement, FS_CardinalityType
<1>2. Cardinality(B) <= Cardinality(A \cup {x}) /\ Cardinality(B) \in Nat
  BY <1>1, FS_Subset, FS_CardinalityType
<1>3. Cardinality(A \cup {x}) \in Nat
  BY <1>1, FS_CardinalityType
<1> QED
  BY <1>1, <1>2, <1>3

(* One that loses an element for the one it takes in has no more. *)
LEMMA Exchanged ==
  ASSUME NEW A, IsFiniteSet(A), NEW y \in A, NEW x, NEW B, B \subseteq (A \ {y}) \cup {x}
  PROVE  Cardinality(B) <= Cardinality(A)
<1>1. IsFiniteSet(A \ {y}) /\ Cardinality(A \ {y}) = Cardinality(A) - 1
  BY FS_RemoveElement
<1>2. Cardinality(B) <= Cardinality(A \ {y}) + 1
  BY <1>1, OneMore
<1>3. Cardinality(A) \in Nat
  BY FS_CardinalityType
<1> QED
  BY <1>1, <1>2, <1>3

(* Those who hold a thread are finitely many. *)
LEMMA HoldersFinite ==
  ASSUME NEW p
  PROVE  /\ IsFiniteSet(Holding(p)) /\ Cardinality(Holding(p)) \in Nat
         /\ IsFiniteSet(Holding(p)') /\ Cardinality(Holding(p)') \in Nat
<1>1. IsFiniteSet(Jobs) /\ Holding(p) \subseteq Jobs /\ Holding(p)' \subseteq Jobs
  BY WaitingAssumption DEF Holding
<1> QED
  BY <1>1, FS_Subset, FS_CardinalityType

(* Threads may be given up freely. *)
LEMMA NoMoreHold ==
  ASSUME NEW p, Holding(p)' \subseteq Holding(p)
  PROVE  Cardinality(Holding(p)') <= Cardinality(Holding(p))
BY HoldersFinite, FS_Subset

(* What peak notes is within the pool when the jobs are. *)
LEMMA PeakNoted ==
  ASSUME WaitInv, NotePeak, Cardinality(Holding("pool")') <= PoolSize
  PROVE  /\ peak' \in 0..PoolSize /\ peak <= peak'
         /\ Cardinality(Holding("pool")') <= peak'
         /\ peak = PoolSize => peak' = PoolSize
<1>1. Cardinality(Holding("pool")') = Cardinality({j \in Jobs : job'[j].on = "pool"})
  BY DEF Holding
<1>2. Cardinality(Holding("pool")') \in Nat /\ PoolSize \in Nat /\ peak \in 0..PoolSize
  BY HoldersFinite, WaitingAssumption DEF WaitInv, ThreadsOK
<1> QED
  BY <1>1, <1>2 DEF NotePeak

-----------------------------------------------------------------------------
(* Jobs that are called. *)

(* A job that is called is well formed, over only when it had nothing to   *)
(* wait for, and holds no other thread than that of its caller.            *)
LEMMA CalledIsFormed ==
  ASSUME NEW i \in Jobs, NEW p \in Places \ {"none"}
  PROVE  /\ Formed(i, CalledOn(i, p))
         /\ CalledOn(i, p).on \in {"none", p}
         /\ CalledOn(i, p).at # "idle" /\ CalledOn(i, p).end # "notReady"
         /\ Signs(i) => CalledOn(i, p).at = "queued"
<1>1. CASE Signs(i)
  BY <1>1 DEF CalledOn, Formed, Job, Ats, Places, Outcomes
<1>2. CASE ~Signs(i)
  BY <1>2 DEF CalledOn, Ended, Formed, Job, Ats, Places, Outcomes
<1> QED
  BY <1>1, <1>2

(* What a completion may have done to the jobs: j has ended, and at most   *)
(* one idle job has been called on the thread.                             *)
LEMMA Completed ==
  ASSUME JobsOK, NEW j \in Jobs, job[j].at # "idle", NEW why \in Outcomes,
         NEW p \in Places \ {"none"}, Complete(j, why, p)
  PROVE  /\ JobsOK'
         /\ job'[j] = Ended(why)
         /\ \A k \in Jobs \ {j} :
               job'[k] = job[k] \/ (job[k].at = "idle" /\ job'[k] = CalledOn(k, p))
         /\ \E i \in Jobs : \A q \in Places \ {"none"} :
               Holding(q)' \subseteq (Holding(q) \ {j}) \cup (IF q = p THEN {i} ELSE {})
<1>1. Formed(j, Ended(why))
  BY DEF Formed, Ended, Job, Ats, Places, Outcomes
<1>2. CASE job' = [job EXCEPT ![j] = Ended(why)]
  <2>1. JobsOK' /\ job'[j] = Ended(why) /\ \A k \in Jobs \ {j} : job'[k] = job[k]
    BY <1>1, <1>2 DEF JobsOK, Formed, Signs
  <2>2. \A q \in Places \ {"none"} : Holding(q)' \subseteq Holding(q) \ {j}
    BY <2>1 DEF Holding, Ended
  <2> QED
    BY <2>1, <2>2
<1>3. ASSUME NEW i \in Idle, job' = [job EXCEPT ![j] = Ended(why), ![i] = CalledOn(i, p)]
      PROVE  /\ JobsOK'
             /\ job'[j] = Ended(why)
             /\ \A k \in Jobs \ {j} :
                   job'[k] = job[k] \/ (job[k].at = "idle" /\ job'[k] = CalledOn(k, p))
             /\ \A q \in Places \ {"none"} :
                   Holding(q)' \subseteq (Holding(q) \ {j}) \cup (IF q = p THEN {i} ELSE {})
  <2>1. i \in Jobs /\ i # j /\ job[i].at = "idle"
    BY DEF Idle
  <2>2. /\ Formed(i, CalledOn(i, p)) /\ CalledOn(i, p).on \in {"none", p}
        /\ CalledOn(i, p) \in Job
    BY <2>1, CalledIsFormed DEF Formed
  <2>3. /\ job'[j] = Ended(why) /\ job'[i] = CalledOn(i, p)
        /\ \A k \in Jobs \ {i, j} : job'[k] = job[k]
    BY <1>3, <2>1 DEF JobsOK
  <2>4. JobsOK'
    <3>1. job' \in [Jobs -> Job]
      BY <1>1, <1>3, <2>1, <2>2 DEF JobsOK, Formed
    <3>2. \A k \in Jobs : Formed(k, job'[k])
      BY <1>1, <2>2, <2>3 DEF JobsOK
    <3> QED
      BY <3>1, <3>2 DEF JobsOK, Formed, Signs
  <2>5. \A q \in Places \ {"none"} :
            Holding(q)' \subseteq (Holding(q) \ {j}) \cup (IF q = p THEN {i} ELSE {})
    BY <2>2, <2>3 DEF Holding, Ended
  <2> QED
    BY <2>1, <2>3, <2>4, <2>5
<1>4. Idle \subseteq Jobs
  BY DEF Idle
<1> QED
  BY <1>2, <1>3, <1>4 DEF Complete

-----------------------------------------------------------------------------
(* What every step owes. *)

(* Causes stay. *)
LEMMA CausesStay ==
  ASSUME WaitInv, NotePeak, Cardinality(Holding("pool")') <= PoolSize, refused \subseteq refused'
  PROVE  \A j \in Jobs : HasCause(j) => HasCause(j)'
BY PeakNoted DEF HasCause

(* The causes are noted after a step that gives a fetch only to a job that *)
(* waits, and an end in notReady only to one with a cause or without fetch.*)
LEMMA CausesNoted ==
  ASSUME WaitInv,
         \A k \in Jobs : HasCause(k) => HasCause(k)',
         \A k \in Jobs : job'[k].at \in {"idle", "queued"} => fetch'[k] = "none",
         \A k \in Jobs : Signs(k) /\ job'[k].at = "waiting" =>
             fetch'[k] \in {"ready", "asking", "found", "missing"},
         \A k \in Jobs : fetch'[k] = "missing" \/ k \in overdue' =>
             fetch[k] = "missing" \/ k \in overdue \/ HasCause(k)',
         \A k \in Jobs : job'[k].end = "notReady" =>
             \/ job[k].end = "notReady" /\ (fetch[k] = "none" => fetch'[k] = "none")
             \/ fetch'[k] = "none" \/ HasCause(k)'
  PROVE  CausesOK'
<1>1. \A k \in Jobs : fetch'[k] = "missing" \/ k \in overdue' => HasCause(k)'
  BY DEF WaitInv, CausesOK
<1>2. \A k \in Jobs : job[k].end = "notReady" => fetch[k] = "none" \/ HasCause(k)
  BY DEF WaitInv, CausesOK, NotReadyHasCause, HasCause
<1>3. \A k \in Jobs : job'[k].end = "notReady" => fetch'[k] = "none" \/ HasCause(k)'
  BY <1>2
<1>4. NotReadyHasCause'
  BY <1>3 DEF NotReadyHasCause, HasCause
<1> QED
  BY <1>1, <1>4 DEF CausesOK, Signs

(* The threads after a step in which no job takes one. *)
LEMMA ThreadsGivenUp ==
  ASSUME WaitInv, NotePeak, \A q \in Places \ {"none"} : Holding(q)' \subseteq Holding(q)
  PROVE  ThreadsOK' /\ Cardinality(Holding("pool")') <= PoolSize
<1>1. \A q \in {"pool", "queue", "main"} : Cardinality(Holding(q)') <= Cardinality(Holding(q))
  BY NoMoreHold DEF Places
<1>2. \A q \in {"pool", "queue", "main"} :
          Cardinality(Holding(q)) \in Nat /\ Cardinality(Holding(q)') \in Nat
  BY HoldersFinite
<1>3. /\ Cardinality(Holding("pool")) <= PoolSize /\ Cardinality(Holding("queue")) <= 1
      /\ Cardinality(Holding("main")) <= 1
  BY <1>2, WaitingAssumption DEF WaitInv, ThreadsOK
<1>4. /\ Cardinality(Holding("pool")') <= PoolSize /\ Cardinality(Holding("queue")') <= 1
      /\ Cardinality(Holding("main")') <= 1
  BY <1>1, <1>2, <1>3, WaitingAssumption
<1> QED
  BY <1>4, PeakNoted DEF ThreadsOK

(* ... and in which one job takes a thread of p, where there is room.      *)
LEMMA ThreadTaken ==
  ASSUME WaitInv, NotePeak, NEW p \in Places \ {"none"}, NEW i,
         \A q \in Places \ {"none"} : Holding(q)' \subseteq Holding(q) \cup (IF q = p THEN {i} ELSE {}),
         p = "pool" => PoolHasThread, p = "queue" => QueueIsFree, p = "main" => MainIsFree
  PROVE  ThreadsOK' /\ Cardinality(Holding("pool")') <= PoolSize
<1>1. \A q \in {"pool", "queue", "main"} :
          Cardinality(Holding(q)) \in Nat /\ Cardinality(Holding(q)') \in Nat
  BY HoldersFinite
<1>2. \A q \in {"pool", "queue", "main"} : q # p => Cardinality(Holding(q)') <= Cardinality(Holding(q))
  BY NoMoreHold DEF Places
<1>3. \A q \in {"pool", "queue", "main"} : Cardinality(Holding(q)') <= Cardinality(Holding(q)) + 1
  <2>1. \A q \in {"pool", "queue", "main"} :
            IsFiniteSet(Holding(q)) /\ Holding(q)' \subseteq Holding(q) \cup {i}
    BY HoldersFinite DEF Places
  <2> QED
    BY <2>1, OneMore
<1>4. /\ p = "queue" => Cardinality(Holding("queue")) = 0
      /\ p = "main" => Cardinality(Holding("main")) = 0
  BY FS_EmptySet DEF QueueIsFree, MainIsFree
<1>5. /\ Cardinality(Holding("pool")) <= PoolSize /\ Cardinality(Holding("queue")) <= 1
      /\ Cardinality(Holding("main")) <= 1
  BY <1>1, WaitingAssumption DEF WaitInv, ThreadsOK
<1>6. /\ Cardinality(Holding("pool")') <= PoolSize /\ Cardinality(Holding("queue")') <= 1
      /\ Cardinality(Holding("main")') <= 1
  BY <1>1, <1>2, <1>3, <1>4, <1>5, WaitingAssumption DEF PoolHasThread
<1> QED
  BY <1>6, PeakNoted DEF ThreadsOK

(* A completion runs where there is room, or where the thread of its own   *)
(* job has become free, and notes a cause for notReady.                    *)
LEMMA CompletionKeeps ==
  ASSUME WaitInv, NotePeak, NEW j \in Jobs, job[j].at # "idle",
         NEW why \in Outcomes, NEW p \in {"pool", "queue"}, Complete(j, why, p),
         p = "pool" => PoolHasThread \/ j \in Holding("pool"), p = "queue" => QueueIsFree,
         refused' = refused /\ overdue' = overdue,
         \A k \in Jobs \ {j} : fetch'[k] = fetch[k],
         fetch'[j] = fetch[j] \/ fetch'[j] = "over",
         why = "notReady" => fetch'[j] = "none" \/ HasCause(j)
  PROVE  /\ JobsOK' /\ ThreadsOK' /\ CausesOK'
         /\ \A k \in Jobs \ {j} : job'[k] = job[k] \/ job[k].at = "idle"
<1>1. JobsOK /\ p \in Places \ {"none"} /\ job[j].at # "idle"
  BY DEF WaitInv, Places
<1>2. PICK i \in Jobs : \A q \in Places \ {"none"} :
          Holding(q)' \subseteq (Holding(q) \ {j}) \cup (IF q = p THEN {i} ELSE {})
  BY <1>1, Completed
<1>3. ThreadsOK' /\ Cardinality(Holding("pool")') <= PoolSize
  <2>1. CASE p = "pool" => PoolHasThread
    <3>1. \A q \in Places \ {"none"} : Holding(q)' \subseteq Holding(q) \cup (IF q = p THEN {i} ELSE {})
      BY <1>2
    <3> QED
      BY <1>1, <2>1, <3>1, ThreadTaken
  <2>2. CASE p = "pool" /\ j \in Holding("pool")
    <3>1. \A q \in {"queue", "main"} : Cardinality(Holding(q)') <= Cardinality(Holding(q))
      BY <1>2, <2>2, NoMoreHold DEF Places
    <3>2. Cardinality(Holding("pool")') <= Cardinality(Holding("pool"))
      <4>1. Holding("pool")' \subseteq (Holding("pool") \ {j}) \cup {i}
        BY <1>2, <2>2 DEF Places
      <4>2. IsFiniteSet(Holding("pool"))
        BY HoldersFinite
      <4> QED
        BY <2>2, <4>1, <4>2, Exchanged
    <3>3. \A q \in {"pool", "queue", "main"} :
              Cardinality(Holding(q)) \in Nat /\ Cardinality(Holding(q)') \in Nat
      BY HoldersFinite
    <3>4. /\ Cardinality(Holding("pool")') <= PoolSize /\ Cardinality(Holding("queue")') <= 1
          /\ Cardinality(Holding("main")') <= 1
      BY <3>1, <3>2, <3>3, WaitingAssumption DEF WaitInv, ThreadsOK
    <3> QED
      BY <3>4, PeakNoted DEF ThreadsOK
  <2> QED
    BY <2>1, <2>2
<1>4. JobsOK' /\ job'[j] = Ended(why) /\ \A k \in Jobs \ {j} :
          job'[k] = job[k] \/ (job[k].at = "idle" /\ job'[k] = CalledOn(k, p))
  BY <1>1, Completed
<1>5. \A k \in Jobs : HasCause(k) => HasCause(k)'
  BY <1>3, CausesStay
<1>6. ASSUME NEW k \in Jobs
      PROVE  /\ job'[k].at \in {"idle", "queued"} => fetch'[k] = "none"
             /\ Signs(k) /\ job'[k].at = "waiting" =>
                   fetch'[k] \in {"ready", "asking", "found", "missing"}
             /\ job'[k].end = "notReady" =>
                   \/ job[k].end = "notReady" /\ (fetch[k] = "none" => fetch'[k] = "none")
                   \/ fetch'[k] = "none" \/ HasCause(k)'
  <2>1. CASE k = j
    BY <1>4, <1>5, <2>1 DEF Ended
  <2>2. CASE k # j /\ job'[k] = job[k]
    BY <2>2 DEF WaitInv, CausesOK
  <2>3. CASE k # j /\ job[k].at = "idle" /\ job'[k] = CalledOn(k, p)
    BY <1>1, <2>3, CalledIsFormed DEF WaitInv, CausesOK
  <2> QED
    BY <1>4, <2>1, <2>2, <2>3
<1>7. \A k \in Jobs : fetch'[k] = "missing" \/ k \in overdue' =>
          fetch[k] = "missing" \/ k \in overdue \/ HasCause(k)'
  OBVIOUS
<1>8. CausesOK'
  BY <1>5, <1>6, <1>7, CausesNoted
<1> QED
  BY <1>3, <1>4, <1>8

(* A step that moves job j on, without a thread and without an end.        *)
LEMMA MoveKeeps ==
  ASSUME WaitInv, NotePeak, NEW j \in Jobs, NEW r \in Job,
         job' \in [Jobs -> Job], job'[j] = r, \A k \in Jobs \ {j} : job'[k] = job[k], Formed(j, r),
         r.at \notin {"idle", "queued", "waiting"}, r.end # "notReady",
         refused' = refused /\ overdue' = overdue,
         \A k \in Jobs \ {j} : fetch'[k] = fetch[k],
         fetch'[j] = fetch[j] \/ fetch'[j] = "over"
  PROVE  JobsOK' /\ ThreadsOK' /\ CausesOK'
<1>1. JobsOK'
  <2>1. \A k \in Jobs : Formed(k, job'[k])
    BY DEF WaitInv, JobsOK
  <2> QED
    BY <2>1 DEF JobsOK, Formed, Signs
<1>2. \A q \in Places \ {"none"} : Holding(q)' \subseteq Holding(q)
  BY DEF Holding, Formed
<1>3. ThreadsOK' /\ \A k \in Jobs : HasCause(k) => HasCause(k)'
  BY <1>2, ThreadsGivenUp, CausesStay
<1>4. ASSUME NEW k \in Jobs
      PROVE  /\ job'[k].at \in {"idle", "queued"} => fetch'[k] = "none"
             /\ Signs(k) /\ job'[k].at = "waiting" =>
                   fetch'[k] \in {"ready", "asking", "found", "missing"}
             /\ job'[k].end = "notReady" =>
                   job[k].end = "notReady" /\ (fetch[k] = "none" => fetch'[k] = "none")
             /\ fetch'[k] = "missing" \/ k \in overdue' => fetch[k] = "missing" \/ k \in overdue
  <2>1. CASE k = j
    BY <2>1
  <2>2. CASE k # j
    BY <2>2 DEF WaitInv, CausesOK
  <2> QED
    BY <2>1, <2>2
<1> QED
  BY <1>1, <1>3, <1>4, CausesNoted

(* One that leaves the jobs where they are.                                *)
LEMMA StayKeeps ==
  ASSUME WaitInv, NotePeak, UNCHANGED job, refused \subseteq refused',
         \A k \in Jobs : HasCause(k) => HasCause(k)' ,
         \A k \in Jobs : fetch'[k] = fetch[k]
             \/ (fetch[k] \in {"ready", "asking"}
                 /\ fetch'[k] \in {"asking", "found", "missing"})
             \/ (fetch'[k] = "over" /\ job[k].at # "waiting" /\ fetch[k] # "none"),
         \A k \in Jobs : fetch'[k] = "missing" \/ k \in overdue' =>
             fetch[k] = "missing" \/ k \in overdue \/ HasCause(k)'
  PROVE  JobsOK' /\ ThreadsOK' /\ CausesOK'
<1>1. JobsOK'
  BY DEF WaitInv, JobsOK, Formed, Signs
<1>2. \A q \in Places \ {"none"} : Holding(q)' \subseteq Holding(q)
  BY DEF Holding
<1>3. ThreadsOK'
  BY <1>2, ThreadsGivenUp
<1>4. ASSUME NEW k \in Jobs
      PROVE  /\ job'[k].at \in {"idle", "queued"} => fetch'[k] = "none"
             /\ Signs(k) /\ job'[k].at = "waiting" =>
                   fetch'[k] \in {"ready", "asking", "found", "missing"}
             /\ job'[k].end = "notReady" =>
                   job[k].end = "notReady" /\ (fetch[k] = "none" => fetch'[k] = "none")
  BY DEF WaitInv, CausesOK
<1> QED
  BY <1>1, <1>3, <1>4, CausesNoted

-----------------------------------------------------------------------------
(* The steps. *)

(* Replies are left alone by a step that moves nobody who waits for one.   *)
LEMMA RepliesStay ==
  ASSUME WaitInv, reply' = reply,
         \A k \in Jobs :
             \/ job'[k] = job[k]
             \/ job[k].at \in {"idle", "queued", "posted", "polling"}
             \/ job[k].at = "waiting" /\ Signs(k)
  PROVE  ReplyOK'
BY DEF WaitInv, ReplyOK, AwaitsReply, Signs

(* WaitInv holds at the start, ...                                        *)
LEMMA InitKeeps == Init => WaitInv
<1> SUFFICES ASSUME Init PROVE WaitInv
  OBVIOUS
<1>1. JobsOK
  BY DEF Init, JobsOK, Formed, Job, Ats, Places, Outcomes
<1>2. \A p \in Places \ {"none"} : Holding(p) = {}
  BY DEF Init, Holding
<1>3. ThreadsOK
  <2>1. Holding("pool") = {} /\ Holding("queue") = {} /\ Holding("main") = {}
    BY <1>2 DEF Places
  <2>2. peak = 0 /\ PoolSize \in Nat
    BY WaitingAssumption DEF Init
  <2> QED
    BY <2>1, <2>2, FS_EmptySet DEF ThreadsOK
<1>4. RestOK /\ CausesOK
  BY DEF Init, RestOK, Fetches, CausesOK, NotReadyHasCause
<1> QED
  BY <1>1, <1>3, <1>4 DEF WaitInv, ReplyOK, Init

(* ... and is kept by a call of the application,                          *)
LEMMA CallKeeps ==
  ASSUME WaitInv, NEW j \in Jobs, Call(j), Untrapped
  PROVE  WaitInv'
<1>1. PICK p \in {"own", "main", "pool"} :
        /\ p = "pool" => PoolHasThread
        /\ p = "main" => MainIsFree
        /\ job' = [job EXCEPT ![j] = CalledOn(j, p)]
  BY DEF Call
<1>2. p \in Places \ {"none"} /\ p # "queue" /\ NotePeak
  BY DEF Places, Untrapped
<1>3. /\ Formed(j, CalledOn(j, p)) /\ CalledOn(j, p) \in Job
      /\ CalledOn(j, p).on \in {"none", p} /\ CalledOn(j, p).end # "notReady"
      /\ Signs(j) => CalledOn(j, p).at = "queued"
  BY <1>2, CalledIsFormed DEF Formed
<1>4. job'[j] = CalledOn(j, p) /\ \A k \in Jobs \ {j} : job'[k] = job[k]
  BY <1>1 DEF WaitInv, JobsOK
<1>5. JobsOK'
  <2>1. job' \in [Jobs -> Job] /\ \A k \in Jobs : Formed(k, job'[k])
    BY <1>1, <1>3, <1>4 DEF WaitInv, JobsOK
  <2> QED
    BY <2>1 DEF JobsOK, Formed, Signs
<1>6. \A q \in Places \ {"none"} : Holding(q)' \subseteq Holding(q) \cup (IF q = p THEN {j} ELSE {})
  BY <1>3, <1>4 DEF Holding
<1>7. ThreadsOK' /\ Cardinality(Holding("pool")') <= PoolSize
  BY <1>1, <1>2, <1>6, ThreadTaken
<1>8. fetch' = fetch /\ refused' = refused /\ overdue' = overdue /\ RestOK'
  BY DEF Call, Untrapped, WaitInv, RestOK, Signs
<1>9. \A k \in Jobs : HasCause(k) => HasCause(k)'
  BY <1>2, <1>7, <1>8, CausesStay
<1>10. ASSUME NEW k \in Jobs
       PROVE  /\ job'[k].at \in {"idle", "queued"} => fetch'[k] = "none"
              /\ Signs(k) /\ job'[k].at = "waiting" =>
                    fetch'[k] \in {"ready", "asking", "found", "missing"}
              /\ job'[k].end = "notReady" =>
                    job[k].end = "notReady" /\ (fetch[k] = "none" => fetch'[k] = "none")
  <2>1. job[j].at = "idle" /\ fetch[j] = "none"
    BY DEF Call, WaitInv, CausesOK
  <2>2. CASE k = j
    BY <1>3, <1>4, <1>8, <2>1, <2>2
  <2>3. CASE k # j
    BY <1>4, <1>8, <2>3 DEF WaitInv, CausesOK
  <2> QED
    BY <2>2, <2>3
<1>11. CausesOK'
  BY <1>8, <1>9, <1>10, CausesNoted
<1>12. ReplyOK'
  BY <1>4, RepliesStay DEF Call
<1> QED
  BY <1>5, <1>7, <1>8, <1>11, <1>12 DEF WaitInv

(* by a signing step that begins,                                         *)
LEMMA StartSigningKeeps ==
  ASSUME WaitInv, NEW j \in Jobs, StartSigning(j), Untrapped
  PROVE  WaitInv'
<1>1. /\ job[j].at = "queued" /\ PoolHasThread /\ NotePeak
      /\ refused' = refused /\ overdue' = overdue
  BY DEF StartSigning, Untrapped
<1>2. fetch[j] = "none" /\ job[j].end = "none" /\ job[j] \in Job /\ fetch \in [Jobs -> Fetches]
  BY <1>1 DEF WaitInv, CausesOK, JobsOK, Formed, RestOK
<1>3. RestOK' /\ reply' = reply
  BY DEF StartSigning, Untrapped, WaitInv, RestOK, Fetches, Signs, JobsOK, Formed
<1>4. CASE registryAddress
  <2>1. /\ job' = [job EXCEPT ![j].at = "waiting", ![j].on = "pool"]
        /\ fetch' = [fetch EXCEPT ![j] = "ready"]
    BY <1>4 DEF StartSigning
  <2> DEFINE r == [at |-> "waiting", on |-> "pool", end |-> "none"]
  <2>2. /\ job'[j] = r /\ \A k \in Jobs \ {j} : job'[k] = job[k]
        /\ job' \in [Jobs -> Job] /\ Formed(j, r)
    BY <1>2, <2>1 DEF WaitInv, JobsOK, Job, Formed, Ats, Places, Outcomes
  <2>3. fetch'[j] = "ready" /\ \A k \in Jobs \ {j} : fetch'[k] = fetch[k]
    BY <1>2, <2>1
  <2>4. JobsOK'
    <3>1. \A k \in Jobs : Formed(k, job'[k])
      BY <2>2 DEF WaitInv, JobsOK
    <3> QED
      BY <2>2, <3>1 DEF JobsOK, Formed, Signs
  <2>5. \A q \in Places \ {"none"} : Holding(q)' \subseteq Holding(q) \cup (IF q = "pool" THEN {j} ELSE {})
    BY <2>2 DEF Holding
  <2>6. ThreadsOK' /\ \A k \in Jobs : HasCause(k) => HasCause(k)'
    <3>1. "pool" \in Places \ {"none"}
      BY DEF Places
    <3> QED
      BY <1>1, <2>5, <3>1, ThreadTaken, CausesStay
  <2>7. ASSUME NEW k \in Jobs
        PROVE  /\ job'[k].at \in {"idle", "queued"} => fetch'[k] = "none"
               /\ Signs(k) /\ job'[k].at = "waiting" =>
                     fetch'[k] \in {"ready", "asking", "found", "missing"}
               /\ job'[k].end = "notReady" =>
                     job[k].end = "notReady" /\ (fetch[k] = "none" => fetch'[k] = "none")
               /\ fetch'[k] = "missing" => fetch[k] = "missing"
    <3>1. CASE k = j
      BY <2>2, <2>3, <3>1
    <3>2. CASE k # j
      BY <2>2, <2>3, <3>2 DEF WaitInv, CausesOK
    <3> QED
      BY <3>1, <3>2
  <2>8. CausesOK'
    BY <1>1, <2>6, <2>7, CausesNoted
  <2> QED
    BY <1>1, <1>3, <2>2, <2>4, <2>6, <2>8, RepliesStay DEF WaitInv
<1>5. CASE ~registryAddress
  <2>1. Complete(j, "notReady", "pool") /\ fetch' = fetch
    BY <1>5 DEF StartSigning
  <2>2. "notReady" \in Outcomes
    BY DEF Outcomes
  <2>3. /\ JobsOK' /\ ThreadsOK' /\ CausesOK'
        /\ \A k \in Jobs \ {j} : job'[k] = job[k] \/ job[k].at = "idle"
    BY <1>1, <1>2, <2>1, <2>2, CompletionKeeps
  <2> QED
    BY <1>1, <1>3, <2>3, RepliesStay DEF WaitInv
<1> QED
  BY <1>4, <1>5

(* by the fetch task that asks,                                           *)
LEMMA AskForBlockKeeps ==
  ASSUME WaitInv, NEW j \in Jobs, AskForBlock(j), Untrapped
  PROVE  WaitInv'
<1>1. /\ fetch[j] = "ready" /\ fetch' = [fetch EXCEPT ![j] = "asking"]
      /\ UNCHANGED job /\ refused' = refused /\ overdue' = overdue /\ NotePeak
      /\ fetch \in [Jobs -> Fetches]
  BY DEF AskForBlock, Untrapped, WaitInv, RestOK, Signs
<1>2. RestOK'
  BY DEF AskForBlock, Untrapped, WaitInv, RestOK, Fetches, Signs
<1>3. \A k \in Jobs : HasCause(k) => HasCause(k)'
  <2>1. \A q \in Places \ {"none"} : Holding(q)' \subseteq Holding(q)
    BY <1>1 DEF Holding
  <2> QED
    BY <1>1, <2>1, ThreadsGivenUp, CausesStay
<1>4. \A k \in Jobs : fetch'[k] = fetch[k] \/ (fetch[k] = "ready" /\ fetch'[k] = "asking")
  BY <1>1
<1>5. JobsOK' /\ ThreadsOK' /\ CausesOK'
  BY <1>1, <1>3, <1>4, StayKeeps
<1>6. ReplyOK'
  BY <1>1, RepliesStay DEF AskForBlock
<1> QED
  BY <1>2, <1>5, <1>6 DEF WaitInv

(* by the answer of the node,                                             *)
LEMMA NodeAnswersKeeps ==
  ASSUME WaitInv, NEW j \in Jobs, NodeAnswers(j), Untrapped
  PROVE  WaitInv'
<1>1. /\ fetch[j] = "asking" /\ UNCHANGED job /\ overdue' = overdue /\ NotePeak
      /\ refused \subseteq refused' /\ fetch \in [Jobs -> Fetches]
      /\ \/ fetch' = [fetch EXCEPT ![j] = "found"]
         \/ fetch' = [fetch EXCEPT ![j] = "missing"] /\ j \in refused'
  BY DEF NodeAnswers, Untrapped, WaitInv, RestOK, Signs
<1>2. RestOK'
  BY DEF NodeAnswers, Untrapped, WaitInv, RestOK, Fetches, Signs
<1>3. \A k \in Jobs : HasCause(k) => HasCause(k)'
  <2>1. \A q \in Places \ {"none"} : Holding(q)' \subseteq Holding(q)
    BY <1>1 DEF Holding
  <2> QED
    BY <1>1, <2>1, ThreadsGivenUp, CausesStay
<1>4. \A k \in Jobs :
          \/ fetch'[k] = fetch[k]
          \/ fetch[k] = "asking" /\ fetch'[k] = "found"
          \/ fetch[k] = "asking" /\ fetch'[k] = "missing" /\ HasCause(k)'
  BY <1>1 DEF HasCause
<1>5. JobsOK' /\ ThreadsOK' /\ CausesOK'
  BY <1>1, <1>3, <1>4, StayKeeps
<1>6. ReplyOK'
  BY <1>1, RepliesStay DEF NodeAnswers
<1> QED
  BY <1>2, <1>5, <1>6 DEF WaitInv

(* by the fetch task that goes on,                                        *)
LEMMA BlockArrivesKeeps ==
  ASSUME WaitInv, NEW j \in Jobs, BlockArrives(j), Untrapped
  PROVE  WaitInv'
<1>1. /\ fetch[j] \in {"found", "missing"} /\ PoolHasThread /\ NotePeak
      /\ refused' = refused /\ overdue' = overdue
      /\ fetch'[j] = "over" /\ \A k \in Jobs \ {j} : fetch'[k] = fetch[k]
      /\ Signs(j) /\ reply' = reply
  BY DEF BlockArrives, Untrapped, WaitInv, RestOK
<1>2. RestOK'
  BY DEF BlockArrives, Untrapped, WaitInv, RestOK, Fetches, Signs
<1>3. JobsOK' /\ ThreadsOK' /\ CausesOK' /\ ReplyOK'
  <2>1. CASE job[j].at # "waiting"
    <3>1. UNCHANGED job
      BY <2>1 DEF BlockArrives
    <3>2. \A k \in Jobs : HasCause(k) => HasCause(k)'
      <4>1. \A q \in Places \ {"none"} : Holding(q)' \subseteq Holding(q)
        BY <3>1 DEF Holding
      <4> QED
        BY <1>1, <4>1, ThreadsGivenUp, CausesStay
    <3>3. \A k \in Jobs : fetch'[k] = fetch[k]
             \/ (fetch'[k] = "over" /\ job[k].at # "waiting" /\ fetch[k] # "none")
      BY <1>1, <2>1
    <3> QED
      BY <1>1, <3>1, <3>2, <3>3, StayKeeps, RepliesStay
  <2>2. CASE job[j].at = "waiting" /\ fetch[j] = "missing"
    <3>1. Complete(j, "notReady", "pool") /\ HasCause(j) /\ "notReady" \in Outcomes
      BY <2>2 DEF BlockArrives, WaitInv, CausesOK, Outcomes
    <3> QED
      BY <1>1, <2>2, <3>1, CompletionKeeps, RepliesStay
  <2>3. CASE job[j].at = "waiting" /\ fetch[j] = "found"
    <3> DEFINE r == [at |-> "requested", on |-> "none", end |-> "none"]
    <3>1. job' = [job EXCEPT ![j].at = "requested", ![j].on = "none"]
      BY <2>3 DEF BlockArrives
    <3>2. job[j] \in Job /\ job[j].end = "none" /\ job \in [Jobs -> Job]
      BY <2>3 DEF WaitInv, JobsOK, Formed
    <3>3. job' \in [Jobs -> Job] /\ job'[j] = r /\ \A k \in Jobs \ {j} : job'[k] = job[k]
      BY <3>1, <3>2 DEF Job, Ats, Places, Outcomes
    <3>4. r \in Job /\ Formed(j, r)
      BY <1>1 DEF Job, Formed, Ats, Places, Outcomes
    <3> QED
      BY <1>1, <2>3, <3>3, <3>4, MoveKeeps, RepliesStay
  <2> QED
    BY <1>1, <2>1, <2>2, <2>3
<1> QED
  BY <1>2, <1>3 DEF WaitInv

(* by the end of the 30 seconds of a signing step,                        *)
LEMMA TimeOutKeeps ==
  ASSUME WaitInv, NEW j \in Jobs, TimeOut(j), Untrapped
  PROVE  WaitInv'
<1>1. /\ j \in overdue /\ job[j].at = "waiting" /\ Complete(j, "notReady", "pool") /\ NotePeak
      /\ fetch' = fetch /\ refused' = refused /\ overdue' = overdue
  BY DEF TimeOut, Untrapped
<1>2. HasCause(j) /\ "notReady" \in Outcomes
  BY <1>1 DEF WaitInv, CausesOK, Outcomes
<1>3. PoolHasThread \/ j \in Holding("pool")
  <2>1. Signs(j)
    BY <1>1 DEF WaitInv, RestOK
  <2> QED
    BY <1>1, <2>1 DEF WaitInv, JobsOK, Formed, Holding
<1>4. /\ JobsOK' /\ ThreadsOK' /\ CausesOK'
      /\ \A k \in Jobs \ {j} : job'[k] = job[k] \/ job[k].at = "idle"
  BY <1>1, <1>2, <1>3, CompletionKeeps
<1>5. RestOK' /\ ReplyOK'
  <2>1. Signs(j)
    BY <1>1 DEF WaitInv, RestOK
  <2>2. ReplyOK'
    BY <1>1, <1>4, <2>1, RepliesStay DEF TimeOut
  <2> QED
    BY <2>2 DEF TimeOut, Untrapped, WaitInv, RestOK, Signs
<1> QED
  BY <1>4, <1>5 DEF WaitInv

(* by an answer of URLSession,                                            *)
LEMMA ReceiveKeeps ==
  ASSUME WaitInv, NEW j \in Jobs, Receive(j), Untrapped
  PROVE  WaitInv'
<1>1. /\ UNCHANGED job /\ fetch' = fetch /\ refused' = refused /\ overdue' = overdue /\ NotePeak
  BY DEF Receive, Untrapped
<1>2. \A k \in Jobs : HasCause(k) => HasCause(k)'
  <2>1. \A q \in Places \ {"none"} : Holding(q)' \subseteq Holding(q)
    BY <1>1 DEF Holding
  <2> QED
    BY <1>1, <2>1, ThreadsGivenUp, CausesStay
<1>3. JobsOK' /\ ThreadsOK' /\ CausesOK'
  BY <1>1, <1>2, StayKeeps
<1>4. RestOK'
  BY WaitingAssumption DEF Receive, Untrapped, WaitInv, RestOK, Signs
<1>5. ReplyOK'
  BY <1>1 DEF Receive, WaitInv, RestOK, ReplyOK, AwaitsReply, Signs
<1> QED
  BY <1>3, <1>4, <1>5 DEF WaitInv

(* by the block on the main queue,                                        *)
LEMMA RunOnMainKeeps ==
  ASSUME WaitInv, NEW j \in Jobs, RunOnMain(j), Untrapped
  PROVE  WaitInv'
<1> DEFINE r == [at |-> "polling", on |-> "none", end |-> "none"]
<1>1. /\ job[j].at = "posted" /\ job' = [job EXCEPT ![j].at = "polling"] /\ NotePeak
      /\ fetch' = fetch /\ refused' = refused /\ overdue' = overdue
  BY DEF RunOnMain, Untrapped
<1>2. /\ job[j] \in Job /\ job[j].end = "none" /\ job[j].on = "none" /\ job \in [Jobs -> Job]
      /\ Signs(j)
  BY <1>1 DEF WaitInv, JobsOK, Formed
<1>3. job' \in [Jobs -> Job] /\ job'[j] = r /\ \A k \in Jobs \ {j} : job'[k] = job[k]
  BY <1>1, <1>2 DEF Job, Ats, Places, Outcomes
<1>4. r \in Job /\ Formed(j, r)
  BY <1>2 DEF Job, Formed, Ats, Places, Outcomes
<1>5. JobsOK' /\ ThreadsOK' /\ CausesOK'
  BY <1>1, <1>3, <1>4, MoveKeeps
<1>6. RestOK'
  BY DEF RunOnMain, Untrapped, WaitInv, RestOK, Signs
<1>7. ReplyOK'
  BY <1>1, <1>3, RepliesStay DEF RunOnMain
<1> QED
  BY <1>5, <1>6, <1>7 DEF WaitInv

(* by the last poll,                                                      *)
LEMMA ReportKeeps ==
  ASSUME WaitInv, NEW j \in Jobs, Report(j), Untrapped
  PROVE  WaitInv'
<1>1. /\ job[j].at = "polling" /\ PoolHasThread /\ Complete(j, "reported", "pool") /\ NotePeak
      /\ fetch' = fetch /\ refused' = refused /\ overdue' = overdue
      /\ "reported" \in Outcomes
  BY DEF Report, Untrapped, Outcomes
<1>2. /\ JobsOK' /\ ThreadsOK' /\ CausesOK'
      /\ \A k \in Jobs \ {j} : job'[k] = job[k] \/ job[k].at = "idle"
  BY <1>1, CompletionKeeps
<1>3. RestOK'
  BY DEF Report, Untrapped, WaitInv, RestOK, Signs
<1>4. ReplyOK'
  BY <1>1, <1>2, RepliesStay DEF Report
<1> QED
  BY <1>2, <1>3, <1>4 DEF WaitInv

(* by the passing of time,                                                *)
LEMMA SecondsPassKeeps ==
  ASSUME WaitInv, TimePasses
  PROVE  WaitInv'
<1>1. /\ UNCHANGED job /\ fetch' = fetch /\ NotePeak
      /\ overdue' = overdue \cup Awaiting
      /\ refused' = refused \cup {j \in Awaiting : fetch[j] = "asking"}
      /\ \A j \in Jobs : fetch[j] \in {"ready", "found", "missing"} => ~PoolHasThread
  BY DEF TimePasses, SecondsPass, Untrapped
<1>2. \A q \in Places \ {"none"} : Holding(q)' \subseteq Holding(q)
  BY <1>1 DEF Holding
<1>3. \A k \in Jobs : HasCause(k) => HasCause(k)'
  BY <1>1, <1>2, ThreadsGivenUp, CausesStay
<1>4. ASSUME NEW k \in Awaiting PROVE HasCause(k)'
  <2>1. k \in Jobs /\ fetch[k] \in {"ready", "asking", "found", "missing"}
    BY DEF Awaiting, WaitInv, CausesOK
  <2>2. CASE fetch[k] = "asking"
    BY <1>1, <2>2 DEF HasCause
  <2>3. CASE fetch[k] # "asking"
    <3>1. ~(Cardinality(Holding("pool")) < PoolSize)
      BY <1>1, <2>1, <2>3 DEF PoolHasThread
    <3>2. /\ Cardinality(Holding("pool")) \in Nat /\ PoolSize \in Nat
          /\ peak \in 0..PoolSize /\ Cardinality(Holding("pool")) <= peak
      BY HoldersFinite, WaitingAssumption DEF WaitInv, ThreadsOK
    <3>3. peak = PoolSize
      BY <3>1, <3>2
    <3> QED
      BY <1>3, <2>1, <3>3 DEF HasCause
  <2> QED
    BY <2>2, <2>3
<1>5. JobsOK' /\ ThreadsOK' /\ CausesOK'
  BY <1>1, <1>3, <1>4, StayKeeps
<1>6. RestOK'
  BY DEF TimePasses, SecondsPass, Awaiting, Untrapped, WaitInv, RestOK, Signs
<1>7. ReplyOK'
  BY <1>1, RepliesStay DEF TimePasses, SecondsPass
<1> QED
  BY <1>5, <1>6, <1>7 DEF WaitInv

(* A handler that has taken the reply of j, and moved at most j and a job  *)
(* that was idle, leaves no reply to anyone who does not wait.             *)
LEMMA RepliesHandled ==
  ASSUME WaitInv, NEW j \in Jobs, NEW a, HandledReply(j, a),
         \A k \in Jobs \ {j} : job'[k] = job[k] \/ job[k].at = "idle"
  PROVE  ReplyOK'
BY DEF HandledReply, WaitInv, RestOK, ReplyOK, AwaitsReply, Signs

(* One that calls nobody, or ends the process, moves no job.               *)
LEMMA QuietKeeps ==
  ASSUME WaitInv, NotePeak, NEW j \in Jobs, NEW a, HandledReply(j, a),
         UNCHANGED <<registryAddress, job, fetch, overdue, refused>>,
         trapped' \in BOOLEAN, unsignalled' \subseteq Jobs
  PROVE  WaitInv'
<1>1. \A q \in Places \ {"none"} : Holding(q)' \subseteq Holding(q)
  BY DEF Holding
<1>2. \A k \in Jobs : HasCause(k) => HasCause(k)'
  BY <1>1, ThreadsGivenUp, CausesStay
<1>3. JobsOK' /\ ThreadsOK' /\ CausesOK'
  BY <1>2, StayKeeps
<1>4. RestOK'
  BY DEF HandledReply, WaitInv, RestOK, Signs
<1> QED
  BY <1>3, <1>4, RepliesHandled DEF WaitInv

(* One that returns to a function that blocks moves its job to its end.    *)
LEMMA ReturnKeeps ==
  ASSUME WaitInv, NotePeak, NEW j \in Jobs, NEW a, HandledReply(j, a), Return(j),
         UNCHANGED <<fetch, overdue, refused, unsignalled, trapped>>, registryAddress' \in BOOLEAN
  PROVE  WaitInv'
<1>1. Ended("done") \in Job /\ Formed(j, Ended("done"))
  BY DEF Ended, Job, Formed, Ats, Places, Outcomes
<1>2. /\ job' \in [Jobs -> Job] /\ job'[j] = Ended("done")
      /\ \A k \in Jobs \ {j} : job'[k] = job[k]
  BY <1>1 DEF Return, WaitInv, JobsOK
<1>3. JobsOK' /\ ThreadsOK' /\ CausesOK'
  BY <1>1, <1>2, MoveKeeps DEF Ended
<1>4. RestOK'
  BY DEF HandledReply, WaitInv, RestOK, Signs
<1> QED
  BY <1>2, <1>3, <1>4, RepliesHandled DEF WaitInv

(* by the handler of a request,                                           *)
LEMMA HandleTxIdKeeps ==
  ASSUME WaitInv, NotePeak, NEW j \in Jobs, Signs(j), NEW a \in AnswerKinds, HandledReply(j, a),
         HandleTxId(j, a), UNCHANGED <<fetch, overdue, refused>>
  PROVE  WaitInv'
<1>1. job[j].at = "requested"
  BY DEF HandledReply, WaitInv, ReplyOK, AwaitsReply
<1>2. QueueIsFree
  BY DEF HandledReply
<1>3. ASSUME NEW why \in Outcomes \ {"notReady"}, Complete(j, why, "queue"),
             UNCHANGED <<registryAddress, unsignalled, trapped>>
      PROVE  WaitInv'
  <2>1. /\ JobsOK' /\ ThreadsOK' /\ CausesOK'
        /\ \A k \in Jobs \ {j} : job'[k] = job[k] \/ job[k].at = "idle"
    BY <1>1, <1>2, <1>3, CompletionKeeps
  <2>2. RestOK'
    BY <1>3 DEF HandledReply, WaitInv, RestOK, Signs
  <2> QED
    BY <2>1, <2>2, RepliesHandled DEF WaitInv
<1>4. CASE a = "result"
  <2> DEFINE to == IF Kind[j] = "create" THEN "polling" ELSE "posted"
             r == [at |-> to, on |-> "none", end |-> "none"]
  <2>1. /\ job' = [job EXCEPT ![j].at = to]
        /\ UNCHANGED <<registryAddress, unsignalled, trapped>>
    BY <1>4 DEF HandleTxId
  <2>2. job[j] \in Job /\ job[j].end = "none" /\ job[j].on = "none" /\ job \in [Jobs -> Job]
    BY <1>1 DEF WaitInv, JobsOK, Formed
  <2>3. r \in Job /\ Formed(j, r)
    BY DEF Job, Formed, Ats, Places, Outcomes
  <2>4. job' \in [Jobs -> Job] /\ job'[j] = r /\ \A k \in Jobs \ {j} : job'[k] = job[k]
    BY <2>1, <2>2 DEF Job, Ats, Places, Outcomes
  <2>5. JobsOK' /\ ThreadsOK' /\ CausesOK'
    BY <2>3, <2>4, MoveKeeps
  <2>6. RestOK'
    BY <2>1 DEF HandledReply, WaitInv, RestOK, Signs
  <2> QED
    BY <2>4, <2>5, <2>6, RepliesHandled DEF WaitInv
<1>5. CASE a = "error"
  BY <1>3, <1>5 DEF HandleTxId, Outcomes
<1>6. CASE a \in {"noResult", "notJson"} /\ Kind[j] = "removeAddress"
  BY <1>3, <1>6 DEF HandleTxId, Outcomes
<1>7. CASE a \in {"noResult", "notJson"} /\ Kind[j] # "removeAddress"
  <2>1. CallNobody(j)
    BY <1>7 DEF HandleTxId
  <2> QED
    BY <2>1, QuietKeeps DEF CallNobody, WaitInv, RestOK
<1>8. CASE a = "notObject"
  <2>1. Trap
    BY <1>8 DEF HandleTxId
  <2> QED
    BY <2>1, QuietKeeps DEF Trap, WaitInv, RestOK
<1> QED
  BY <1>4, <1>5, <1>6, <1>7, <1>8 DEF AnswerKinds

(* and by every handler.                                                  *)
LEMMA HandleKeeps ==
  ASSUME WaitInv, NEW j \in Jobs, Handle(j), NotePeak
  PROVE  WaitInv'
<1>1. PICK a \in AnswerKinds :
        /\ HandledReply(j, a)
        /\ CASE Kind[j] = "open" -> HandleRegistry(j, a)
             [] Kind[j] = "verify" -> HandleDocument(j, a)
             [] Signs(j) -> HandleTxId(j, a)
  BY DEF Handle
<1>2. UNCHANGED <<fetch, overdue, refused>> /\ Kind[j] \in Kinds
  BY WaitingAssumption DEF Handle
<1>3. ASSUME CallNobody(j) PROVE WaitInv'
  BY <1>1, <1>2, <1>3, QuietKeeps DEF CallNobody, WaitInv, RestOK
<1>4. CASE Kind[j] = "open"
  <2>1. HandleRegistry(j, a)
    BY <1>1, <1>4 DEF Signs
  <2>2. CASE a \in {"result", "error"}
    <3>1. Return(j) /\ UNCHANGED <<unsignalled, trapped>> /\ registryAddress' \in BOOLEAN
      BY <2>1, <2>2 DEF HandleRegistry, WaitInv, RestOK
    <3> QED
      BY <1>1, <1>2, <3>1, ReturnKeeps
  <2>3. CASE a = "notJson"
    BY <1>3, <2>1, <2>3 DEF HandleRegistry
  <2>4. CASE a \in {"noResult", "notObject"}
    <3>1. Trap
      BY <2>1, <2>4 DEF HandleRegistry
    <3> QED
      BY <1>1, <1>2, <3>1, QuietKeeps DEF Trap, WaitInv, RestOK
  <2> QED
    BY <2>2, <2>3, <2>4 DEF AnswerKinds
<1>5. CASE Kind[j] = "verify"
  <2>1. HandleDocument(j, a)
    BY <1>1, <1>5 DEF Signs
  <2>2. CASE a \in {"result", "error", "noResult"}
    <3>1. Return(j) /\ UNCHANGED <<registryAddress, unsignalled, trapped>>
      BY <2>1, <2>2 DEF HandleDocument
    <3>2. registryAddress' \in BOOLEAN
      BY <3>1 DEF WaitInv, RestOK
    <3> QED
      BY <1>1, <1>2, <3>1, <3>2, ReturnKeeps
  <2>3. CASE a \notin {"result", "error", "noResult"}
    BY <1>3, <2>1, <2>3 DEF HandleDocument
  <2> QED
    BY <2>2, <2>3
<1>6. CASE Signs(j)
  <2>1. HandleTxId(j, a)
    BY <1>1, <1>6 DEF Signs
  <2> QED
    BY <1>1, <1>2, <1>6, <2>1, HandleTxIdKeeps
<1> QED
  BY <1>2, <1>4, <1>5, <1>6 DEF Signs

(* WaitInv is inductive. *)
LEMMA WaitInductive == Spec => []WaitInv
<1>1. ASSUME WaitInv, Next PROVE WaitInv'
  <2>1. CASE TimePasses
    BY <1>1, <2>1, SecondsPassKeeps
  <2>2. ASSUME NEW j \in Jobs, Call(j), Untrapped PROVE WaitInv'
    BY <1>1, <2>2, CallKeeps
  <2>3. ASSUME NEW j \in Jobs, Proceed(j) PROVE WaitInv'
    <3>1. CASE Run(j) /\ Untrapped
      BY <1>1, <3>1, StartSigningKeeps, AskForBlockKeeps, NodeAnswersKeeps, BlockArrivesKeeps,
         TimeOutKeeps, ReceiveKeeps, RunOnMainKeeps, ReportKeeps DEF Run
    <3>2. CASE Handle(j) /\ NotePeak
      BY <1>1, <3>2, HandleKeeps
    <3> QED
      BY <2>3, <3>1, <3>2 DEF Proceed
  <2> QED
    BY <1>1, <2>1, <2>2, <2>3 DEF Next
<1>2. ASSUME WaitInv, UNCHANGED vars PROVE WaitInv'
  BY <1>2 DEF vars, WaitInv, JobsOK, Formed, ThreadsOK, Holding, RestOK, CausesOK, HasCause,
     NotReadyHasCause, ReplyOK, AwaitsReply, Signs
<1> QED
  BY <1>1, <1>2, InitKeeps, PTL DEF Spec

-----------------------------------------------------------------------------

(* Every variable keeps its type, the jobs never hold more threads of the  *)
(* pool than it has, and only waits hold any.                              *)
THEOREM ThreadsKept == Spec => []TypeOK
<1>1. WaitInv => TypeOK
  BY DEF WaitInv, JobsOK, Formed, Job, ThreadsOK, RestOK, TypeOK
<1> QED
  BY <1>1, WaitInductive, PTL

(* However many jobs there are and threads in the pool, a signing step     *)
(* ends in notReady only without service addresses, without a block, or    *)
(* when the jobs have held all the pool at once.                           *)
THEOREM GivesUpForReason == Spec => []NotReadyHasCause
<1>1. WaitInv => NotReadyHasCause
  BY DEF WaitInv, CausesOK
<1> QED
  BY <1>1, WaitInductive, PTL

================================================================================
