-------------------------- MODULE DataWorkerProofs --------------------------
(***************************************************************************)
(* Proofs about DataWorker, for any deployments, any number of workers and *)
(* any bounds: it uses the queue as JobQueue allows, so that the promise   *)
(* of AttemptAllowance holds of it; every provider call is counted; what   *)
(* succeeded is published; and a daily input is completed once.            *)
(***************************************************************************)
EXTENDS DataWorker, JobQueueProofs

-----------------------------------------------------------------------------
(***************************************************************************)
(* The stages of a pass.                                                   *)
(***************************************************************************)
Visited == {"calendar", "plan", "action", "policies", "collection", "verified"}

LEMMA PassLength == Len(Pass) = 6 /\ \A k \in 1..6 : Pass[k] \in Visited
BY DEF Pass, Visited

LEMMA VisitedAreStages ==
    /\ Visited \union {"idle"} \subseteq Stages
    /\ "prior" \notin Visited \union {"idle"}
    /\ "enqueue" \notin Visited \union {"idle"}
BY DEF Visited, Stages

\* A set of stages has a first one.
LEMMA FirstOf ==
    ASSUME NEW S \in SUBSET (1..6), S # {}
    PROVE  \E k \in S : \A m \in S : k <= m
<1>1. S \subseteq Nat
  OBVIOUS
<1>2. \E k \in S : \A m \in S : ~ (<<m, k>> \in OpToRel(<, Nat))
  BY <1>1, WFMin, NatLessThanWellFounded
<1>3. PICK k \in S : \A m \in S : ~ (<<m, k>> \in OpToRel(<, Nat))
  BY <1>2
<1>4. ASSUME NEW m \in S PROVE k <= m
  <2>1. ~ (m < k)
    BY <1>1, <1>3 DEF OpToRel
  <2> QED
    BY <1>1, <2>1
<1> QED
  BY <1>4

LEMMA FirstStageType ==
    ASSUME NEW i \in 1..7
    PROVE  FirstStage(i) \in Visited \union {"idle"}
<1> DEFINE later == {k \in i..Len(Pass) : Present(Pass[k])}
<1>1. CASE later = {}
  BY <1>1 DEF FirstStage
<1>2. CASE later # {}
  <2>1. later \in SUBSET (1..6)
    BY PassLength
  <2>2. PICK n \in later : \A m \in later : n <= m
    BY <1>2, <2>1, FirstOf
  <2>3. (CHOOSE k \in later : \A m \in later : k <= m) \in 1..6
    BY <2>1, <2>2
  <2> QED
    BY <1>2, <2>3, PassLength DEF FirstStage
<1> QED
  BY <1>1, <1>2

LEMMA AfterType ==
    ASSUME NEW s \in Visited
    PROVE  After(s) \in Visited \union {"idle"}
<1>1. \E k \in 1..Len(Pass) : Pass[k] = s
  <2>1. /\ Pass[1] = "calendar" /\ Pass[2] = "plan" /\ Pass[3] = "action"
        /\ Pass[4] = "policies" /\ Pass[5] = "collection"
        /\ Pass[6] = "verified"
    BY DEF Pass
  <2> QED
    BY <2>1, PassLength DEF Visited
<1> DEFINE n == CHOOSE k \in 1..Len(Pass) : Pass[k] = s
<1>2. n \in 1..6
  BY <1>1, PassLength
<1>3. 1 + n \in 1..7
  <2> HIDE DEF n
  <2> QED
    BY <1>2
<1>4. FirstStage(1 + n) \in Visited \union {"idle"}
  BY <1>3, FirstStageType
<1> QED
  BY <1>4 DEF After
-----------------------------------------------------------------------------
(***************************************************************************)
(* Types, and the queue's steps.                                           *)
(***************************************************************************)
Works == {"none", "start", "permit", "old permit", "captured", "ready"}
         \union Outcomes

WorkerTypes ==
    /\ deployment \in Deployments
    /\ today \in BOOLEAN
    /\ optIn \in 0..MaxGen /\ lastGen \in optIn..MaxGen
    /\ stage \in [Workers -> Stages]
    /\ stale \in [Workers -> 0..MaxStale]
    /\ job \in [Workers -> Jobs \union {NoJob}]
    /\ attempt \in [Workers -> Nat]
    /\ work \in [Workers -> Works]
    /\ left \in [Workers -> 0..Timeout]
    /\ pending \in [Workers -> SUBSET Jobs]
    /\ plan \in [Workers -> 0..MaxGen]
    /\ reused \in [Workers -> BOOLEAN]
    /\ busy \in [Workers -> BOOLEAN]
    /\ crashes \in 0..MaxCrashes
    /\ published \in SUBSET Jobs
    /\ called \in Nat

LEMMA Bounds ==
    /\ 0 \in 0..Timeout /\ Timeout \in 0..Timeout
    /\ MaxStale \in Nat /\ 0 \in 0..MaxStale
    /\ MaxGen \in Nat /\ MaxCrashes \in Nat
    /\ "none" \in Works /\ "start" \in Works
BY WorkerAssumption, QueueAssumption DEF Works

LEMMA TypeParts == TypeOK <=> QueueTypeOK /\ WorkerTypes
BY DEF TypeOK, WorkerTypes, Works

\* A thread works for a job, and the loop has not gone on meanwhile.
ClaimStages == {"calendar", "action", "collection", "verified", "forward"}

Attended ==
    \A w \in Workers :
        work[w] # "none" => /\ job[w] \in Jobs
                            /\ stage[w] \in ClaimStages \union {"exiting"}

WorkerInv == QueueInv /\ WorkerTypes /\ Attended

\* What every step is shown to do.
UsesQueue == WorkerTypes' /\ Attended' /\ [QueueNext]_queueVars

LEMMA DeploymentTypes ==
    ASSUME WorkerTypes
    PROVE  /\ deployment.payload \in [Jobs -> [kind : Kinds, gen : 0..MaxGen]]
           /\ deployment.crashes \in 0..MaxCrashes
BY WorkerAssumption DEF WorkerTypes, DeploymentSpace

LEMMA WorkerInit == Init => WorkerTypes /\ Attended
BY WorkerAssumption, QueueAssumption
DEF Init, WorkerTypes, Attended, Stages, Works

\* The loop leaves an execution.
LEMMA LeaveTypes ==
    ASSUME WorkerInv, NEW w \in Workers, NEW next \in Stages, Leave(w, next)
    PROVE  /\ stage' \in [Workers -> Stages]
           /\ job' \in [Workers -> Jobs \union {NoJob}]
           /\ attempt' \in [Workers -> Nat]
           /\ work' \in [Workers -> Works]
           /\ left' \in [Workers -> 0..Timeout]
           /\ Attended'
<1>1. /\ stage' \in [Workers -> Stages]
      /\ job' \in [Workers -> Jobs \union {NoJob}]
      /\ attempt' \in [Workers -> Nat]
  BY DEF WorkerInv, WorkerTypes, Leave, GoTo
<1>2. work' \in [Workers -> Works] /\ left' \in [Workers -> 0..Timeout]
  BY Bounds DEF WorkerInv, WorkerTypes, Leave
<1>3. ASSUME NEW v \in Workers, work'[v] # "none"
      PROVE  job'[v] \in Jobs /\ stage'[v] \in ClaimStages \union {"exiting"}
  <2>1. v # w /\ work'[v] = work[v] /\ job'[v] = job[v] /\ stage'[v] = stage[v]
    BY <1>3 DEF WorkerInv, WorkerTypes, Leave, GoTo
  <2> QED
    BY <1>3, <2>1 DEF WorkerInv, Attended
<1> QED
  BY <1>1, <1>2, <1>3 DEF Attended

\* The process ends.
LEMMA DownTypes ==
    ASSUME WorkerInv, NEW w \in Workers, Down(w), crashes' \in 0..MaxCrashes
    PROVE  WorkerTypes' /\ Attended'
<1>1. "down" \in Stages
  BY DEF Stages
<1>2. /\ stage' \in [Workers -> Stages]
      /\ job' \in [Workers -> Jobs \union {NoJob}]
      /\ attempt' \in [Workers -> Nat]
      /\ work' \in [Workers -> Works]
      /\ left' \in [Workers -> 0..Timeout]
      /\ Attended'
  BY <1>1, LeaveTypes DEF Down
<1>3. /\ stale' \in [Workers -> 0..MaxStale]
      /\ pending' \in [Workers -> SUBSET Jobs]
      /\ plan' \in [Workers -> 0..MaxGen]
      /\ reused' \in [Workers -> BOOLEAN]
      /\ busy' \in [Workers -> BOOLEAN]
  BY Bounds DEF Down, WorkerInv, WorkerTypes
<1> QED
  BY <1>2, <1>3 DEF Down, WorkerInv, WorkerTypes, policyVars

LEMMA NextStageType ==
    ASSUME WorkerInv, NEW w \in Workers,
           Attending(w)
    PROVE  NextStage(w) \in Stages
<1>1. CASE stage[w] = "forward"
  BY <1>1 DEF NextStage, Stages
<1>2. CASE stage[w] # "forward"
  <2>1. stage[w] \in {"calendar", "action", "collection", "verified"}
    BY <1>2 DEF WorkerInv, Attended, Attending, ClaimStages
  <2> QED
    BY <1>2, <2>1, AfterType, VisitedAreStages DEF NextStage, Visited
<1> QED
  BY <1>1, <1>2

\* The thread goes on.
LEMMA AdvanceTypes ==
    ASSUME WorkerInv, NEW w \in Workers, NEW place \in Works \ {"none"},
           work[w] # "none", Advance(w, place),
           published' \in SUBSET Jobs, called' \in Nat
    PROVE  WorkerTypes' /\ Attended'
<1>1. work' \in [Workers -> Works]
  BY DEF WorkerInv, WorkerTypes, Advance
<1>2. WorkerTypes'
  BY <1>1 DEF WorkerInv, WorkerTypes, Advance, prepareVars, policyVars
<1>3. Attended'
  BY DEF WorkerInv, WorkerTypes, Attended, Advance
<1> QED
  BY <1>2, <1>3

\* A claim, and the execution it starts.
LEMMA ClaimForTypes ==
    ASSUME WorkerInv, NEW w \in Workers, NEW S \in SUBSET Jobs,
           NEW age \in 0..MaxStale, NEW next \in Stages,
           work[w] = "none", stage[w] \in ClaimStages,
           ClaimFor(w, S, age, next)
    PROVE  /\ stage' \in [Workers -> Stages]
           /\ job' \in [Workers -> Jobs \union {NoJob}]
           /\ attempt' \in [Workers -> Nat]
           /\ work' \in [Workers -> Works]
           /\ left' \in [Workers -> 0..Timeout]
           /\ Attended'
           /\ QueueNext
<1> DEFINE j == Claimed(S, age)
<1>1. QueueNext
  BY DEF ClaimFor, QueueNext
<1>2. CASE j = NoJob
  BY <1>1, <1>2
  DEF ClaimFor, GoTo, executionVars, WorkerInv, WorkerTypes, Attended
<1>3. CASE j # NoJob
  <2>1. j \in Jobs
    BY <1>3, ClaimedIsClaimable, QueueAssumption DEF WorkerInv, QueueInv
  <2>2. row[j].attempt + 1 \in Nat
    BY <2>1 DEF WorkerInv, QueueInv, QueueTypeOK
  <2> QED
    <3>1. /\ stage' = stage
          /\ job' = [job EXCEPT ![w] = j]
          /\ attempt' = [attempt EXCEPT ![w] = row[j].attempt + 1]
          /\ work' = [work EXCEPT ![w] = "start"]
          /\ left' = [left EXCEPT ![w] = Timeout]
      BY <1>3 DEF ClaimFor
    <3> HIDE DEF j
    <3>2. /\ stage' \in [Workers -> Stages]
          /\ job' \in [Workers -> Jobs \union {NoJob}]
          /\ attempt' \in [Workers -> Nat]
      BY <2>1, <2>2, <3>1 DEF WorkerInv, WorkerTypes
    <3>3. work' \in [Workers -> Works] /\ left' \in [Workers -> 0..Timeout]
      BY <3>1, Bounds DEF WorkerInv, WorkerTypes
    <3>4. Attended'
      BY <2>1, <3>1 DEF WorkerInv, WorkerTypes, Attended
    <3> QED
      BY <1>1, <3>2, <3>3, <3>4
<1> QED
  BY <1>2, <1>3
\* The loop goes on when it attends nothing.
LEMMA NothingAttended ==
    ASSUME WorkerInv, NEW w \in Workers,
           stage[w] \notin ClaimStages \union {"exiting"}
    PROVE  work[w] = "none"
BY DEF WorkerInv, Attended

LEMMA MoveTypes ==
    ASSUME WorkerInv, NEW w \in Workers, NEW next \in Stages,
           work[w] = "none", GoTo(w, next), UNCHANGED <<job, work>>
    PROVE  stage' \in [Workers -> Stages] /\ Attended'
BY DEF WorkerInv, WorkerTypes, Attended, GoTo

\* The process or its loop.
LEMMA LoopUses ==
    ASSUME WorkerInv, NEW w \in Workers,
           Start(w) \/ BeginPass(w) \/ PlanCollection(w) \/ ClaimInStage(w)
    PROVE  UsesQueue
<1> USE DEF queueVars, prepareVars, policyVars, executionVars, historyVars
<1>1. CASE Start(w)
  <2>1. "idle" \in Stages
    BY DEF Stages
  <2>2. work[w] = "none"
    BY <1>1, NothingAttended DEF Start, ClaimStages
  <2>3. stage' \in [Workers -> Stages] /\ Attended'
    BY <1>1, <2>1, <2>2, MoveTypes DEF Start
  <2> QED
    BY <1>1, <2>3 DEF Start, UsesQueue, WorkerInv, WorkerTypes
<1>2. CASE BeginPass(w)
  <2>1. FirstStage(1) \in Stages
    BY FirstStageType, VisitedAreStages
  <2>2. WorkerTypes' /\ Attended'
    <3>1. work[w] = "none"
      BY <1>2, NothingAttended DEF BeginPass, ClaimStages
    <3>2. stage' \in [Workers -> Stages] /\ Attended'
      BY <1>2, <2>1, <3>1, MoveTypes DEF BeginPass
    <3> QED
      BY <1>2, <3>2, Bounds DEF BeginPass, WorkerInv, WorkerTypes
  <2>3. QueueNext \/ UNCHANGED queueVars
    BY <1>2 DEF BeginPass, QueueNext, OfKind
  <2> QED
    BY <2>2, <2>3 DEF UsesQueue
<1>3. CASE PlanCollection(w)
  <2>1. After("plan") \in Stages
    BY AfterType, VisitedAreStages DEF Visited
  <2>2. WorkerTypes' /\ Attended'
    <3>1. work[w] = "none"
      BY <1>3, NothingAttended DEF PlanCollection, ClaimStages
    <3>2. stage' \in [Workers -> Stages] /\ Attended'
      BY <1>3, <2>1, <3>1, MoveTypes DEF PlanCollection
    <3> QED
      BY <1>3, <3>2 DEF PlanCollection, WorkerInv, WorkerTypes
  <2>3. QueueNext
    BY <1>3 DEF PlanCollection, QueueNext, OfKind
  <2> QED
    BY <2>2, <2>3 DEF UsesQueue
<1>4. CASE ClaimInStage(w)
  <2>1. After(stage[w]) \in Stages
    BY <1>4, AfterType, VisitedAreStages DEF ClaimInStage, Visited
  <2>2. ClaimAge(w) \in 0..MaxStale
    BY Bounds DEF ClaimAge, WorkerInv, WorkerTypes
  <2>3. OfKind(stage[w]) \in SUBSET Jobs
    BY DEF OfKind
  <2>4. /\ ClaimFor(w, OfKind(stage[w]), ClaimAge(w), After(stage[w]))
        /\ work[w] = "none" /\ stage[w] \in ClaimStages
    BY <1>4 DEF ClaimInStage, ClaimStages
  <2>5. /\ stage' \in [Workers -> Stages]
        /\ job' \in [Workers -> Jobs \union {NoJob}]
        /\ attempt' \in [Workers -> Nat]
        /\ work' \in [Workers -> Works]
        /\ left' \in [Workers -> 0..Timeout]
        /\ Attended'
        /\ QueueNext
    BY <2>1, <2>2, <2>3, <2>4, ClaimForTypes
  <2>6. WorkerTypes'
    BY <1>4, <2>5 DEF ClaimInStage, WorkerInv, WorkerTypes
  <2> QED
    BY <2>5, <2>6 DEF UsesQueue
<1> QED
  BY <1>1, <1>2, <1>3, <1>4

LEMMA PrepareUses ==
    ASSUME WorkerInv, NEW w \in Workers, Prepare(w)
    PROVE  UsesQueue
<1> USE DEF queueVars, prepareVars, policyVars, executionVars, historyVars
<1>1. /\ {"prior", "enqueue", "report", "forward", "idle"} \subseteq Stages
      /\ After("policies") \in Stages
  BY AfterType, VisitedAreStages DEF Stages, Visited
<1>2. CASE ReadPolicy(w)
  <2>1. optIn \in 0..MaxGen
    BY DEF WorkerInv, WorkerTypes
  <2> QED
    <3>1. work[w] = "none"
      BY <1>2, NothingAttended DEF ReadPolicy, ClaimStages
    <3>2. stage' \in [Workers -> Stages] /\ Attended'
      BY <1>1, <1>2, <3>1, MoveTypes DEF ReadPolicy
    <3> QED
      BY <1>2, <2>1, <3>2 DEF ReadPolicy, UsesQueue, WorkerInv, WorkerTypes
<1>3. CASE ReadPrior(w)
  <2>1. work[w] = "none"
    BY <1>3, NothingAttended DEF ReadPrior, ClaimStages
  <2>2. stage' \in [Workers -> Stages] /\ Attended'
    BY <1>1, <1>3, <2>1, MoveTypes DEF ReadPrior
  <2> DEFINE found == \/ DailyOf(plan[w]) = {}
                      \/ \E j \in OfKind("verified") : row[j].status = "succeeded"
  <2>3. reused' \in [Workers -> BOOLEAN]
    <3>1. found \in BOOLEAN /\ reused' = [reused EXCEPT ![w] = found]
      BY <1>3 DEF ReadPrior
    <3> QED
      BY <3>1 DEF WorkerInv, WorkerTypes
  <2> QED
    BY <1>3, <2>2, <2>3 DEF ReadPrior, UsesQueue, WorkerInv, WorkerTypes
<1>4. CASE EnqueueInputs(w)
  <2> DEFINE open == {j \in DailyOf(plan[w]) : row[j].status # "succeeded"}
             days == {j \in OfKind("action") : Payload(j).gen = plan[w]}
  <2>1. /\ open \in SUBSET Jobs /\ days \in SUBSET Jobs
        /\ DailyOf(plan[w]) \in SUBSET Jobs
    BY DEF DailyOf, OfKind
  <2>2. \/ Enqueue(DailyOf(plan[w])) \/ Enqueue(days) \/ UNCHANGED queueVars
    BY <1>4 DEF EnqueueInputs
  <2>3. [QueueNext]_queueVars
    BY <2>1, <2>2 DEF QueueNext
  <2>4. /\ stage' \in [Workers -> Stages] /\ Attended'
        /\ pending' \in [Workers -> SUBSET Jobs]
        /\ reused' \in [Workers -> BOOLEAN]
    <3>1. PICK next \in {"enqueue", "report"} : GoTo(w, next)
      BY <1>4 DEF EnqueueInputs
    <3>2. stage' \in [Workers -> Stages] /\ Attended'
      <4>1. work[w] = "none" /\ UNCHANGED <<job, work>>
        BY <1>4, NothingAttended DEF EnqueueInputs, ClaimStages
      <4> QED
        BY <1>1, <3>1, <4>1, MoveTypes
    <3>3. \/ /\ pending' = [pending EXCEPT ![w] = open]
             /\ reused' = [reused EXCEPT ![w] = open = {}]
          \/ UNCHANGED <<pending, reused>>
      BY <1>4 DEF EnqueueInputs
    <3>4. pending' \in [Workers -> SUBSET Jobs]
      BY <2>1, <3>3 DEF WorkerInv, WorkerTypes
    <3>5. reused' \in [Workers -> BOOLEAN]
      <4>1. (open = {}) \in BOOLEAN
        OBVIOUS
      <4> QED
        BY <3>3, <4>1 DEF WorkerInv, WorkerTypes
    <3> QED
      BY <3>2, <3>4, <3>5
  <2>5. WorkerTypes' /\ Attended'
    BY <1>4, <2>4 DEF EnqueueInputs, WorkerInv, WorkerTypes
  <2> QED
    BY <2>3, <2>5 DEF UsesQueue
<1>5. CASE RecordReport(w)
  <2>1. work[w] = "none"
    BY <1>5, NothingAttended DEF RecordReport, ClaimStages
  <2>2. stage' \in [Workers -> Stages] /\ Attended'
    BY <1>1, <1>5, <2>1, MoveTypes DEF RecordReport
  <2> QED
    <3>1. /\ pending' \in [Workers -> SUBSET Jobs]
          /\ plan' \in [Workers -> 0..MaxGen]
          /\ reused' \in [Workers -> BOOLEAN]
      BY <1>5, Bounds DEF RecordReport, WorkerInv, WorkerTypes
    <3> QED
      BY <1>5, <2>2, <3>1 DEF RecordReport, UsesQueue, WorkerInv, WorkerTypes
<1>6. CASE ClaimForward(w)
  <2>1. PICK j \in pending[w] :
          /\ pending' = [pending EXCEPT ![w] = @ \ {j}]
          /\ ClaimFor(w, {j}, 0, "forward")
          /\ busy' = [busy EXCEPT ![w] = @ \/ Claimed({j}, 0) # NoJob]
    BY <1>6 DEF ClaimForward
  <2>2. {j} \in SUBSET Jobs
    BY DEF WorkerInv, WorkerTypes
  <2>3. /\ stage' \in [Workers -> Stages]
        /\ job' \in [Workers -> Jobs \union {NoJob}]
        /\ attempt' \in [Workers -> Nat]
        /\ work' \in [Workers -> Works]
        /\ left' \in [Workers -> 0..Timeout]
        /\ Attended'
        /\ QueueNext
    <3>1. work[w] = "none" /\ stage[w] \in ClaimStages
      BY <1>6 DEF ClaimForward, ClaimStages
    <3> QED
      BY <1>1, <2>1, <2>2, <3>1, Bounds, ClaimForTypes
  <2>4. pending' \in [Workers -> SUBSET Jobs] /\ busy' \in [Workers -> BOOLEAN]
    BY <2>1 DEF WorkerInv, WorkerTypes
  <2>5. WorkerTypes'
    BY <1>6, <2>3, <2>4 DEF ClaimForward, WorkerInv, WorkerTypes
  <2> QED
    BY <2>3, <2>5 DEF UsesQueue
<1>7. ASSUME NEW hold \in BOOLEAN, EndForward(w, hold) PROVE UsesQueue
  <2>1. stage' \in [Workers -> Stages] /\ Attended'
    BY <1>1, <1>7, MoveTypes DEF EndForward
  <2> QED
    BY <1>7, <2>1 DEF EndForward, UsesQueue, WorkerInv, WorkerTypes
<1> QED
  BY <1>2, <1>3, <1>4, <1>5, <1>6, <1>7 DEF Prepare

LEMMA ThreadUses ==
    ASSUME WorkerInv, NEW w \in Workers, Thread(w)
    PROVE  UsesQueue
<1> USE DEF queueVars, ThreadAt
<1>1. /\ {"start", "permit", "captured", "ready"} \subseteq Works \ {"none"}
      /\ {"published", "deferred", "unavailable", "error", "fatal", "stopped"}
            \subseteq Works \ {"none"}
  BY DEF Works, Outcomes
<1>2. /\ published \in SUBSET Jobs /\ called \in Nat
      /\ work[w] # "none" => job[w] \in Jobs /\ attempt[w] \in Nat
  BY DEF WorkerInv, WorkerTypes, Attended
<1>3. CASE RunCalendar(w)
  <2>1. PICK place \in {"ready", "error", "fatal"} : Advance(w, place)
    BY <1>3 DEF RunCalendar
  <2>2. WorkerTypes' /\ Attended'
    BY <1>1, <1>2, <1>3, <2>1, AdvanceTypes DEF RunCalendar
  <2> QED
    BY <1>3, <2>2 DEF RunCalendar, UsesQueue
<1>4. CASE ReserveCall(w)
  <2>1. PICK place \in {"stopped", "error", "deferred", "permit"} :
          Advance(w, place)
    BY <1>4 DEF ReserveCall
  <2>2. WorkerTypes' /\ Attended'
    BY <1>1, <1>2, <1>4, <2>1, AdvanceTypes DEF ReserveCall
  <2>3. \/ UNCHANGED queueVars
        \/ Holds(w) /\ (Defer(job[w]) \/ CountCall)
    BY <1>4 DEF ReserveCall
  <2>4. [QueueNext]_queueVars
    BY <1>2, <1>4, <2>3 DEF ReserveCall, Holds, QueueNext, LeasedCall
  <2> QED
    BY <2>2, <2>4 DEF UsesQueue
<1>5. CASE CallProvider(w)
  <2>1. PICK place \in {"start", "captured", "unavailable", "error", "fatal"} :
          Advance(w, place)
    BY <1>5 DEF CallProvider
  <2>2. published' \in SUBSET Jobs /\ called' \in Nat
    <3>1. published' = published /\ called' \in {called, called + 1}
      BY <1>5 DEF CallProvider
    <3> QED
      BY <1>2, <3>1
  <2>3. WorkerTypes' /\ Attended'
    BY <1>1, <1>5, <2>1, <2>2, AdvanceTypes DEF CallProvider
  <2> QED
    BY <1>5, <2>3 DEF CallProvider, UsesQueue
<1>6. CASE BeforePublish(w)
  <2>1. PICK place \in {"stopped", "ready", "error"} : Advance(w, place)
    BY <1>6 DEF BeforePublish
  <2>2. WorkerTypes' /\ Attended'
    BY <1>1, <1>2, <1>6, <2>1, AdvanceTypes DEF BeforePublish
  <2>3. UNCHANGED queueVars \/ (Holds(w) /\ Heartbeat(job[w]))
    BY <1>6 DEF BeforePublish
  <2>4. [QueueNext]_queueVars
    BY <1>2, <1>6, <2>3 DEF BeforePublish, Holds, QueueNext, LeasedCall
  <2> QED
    BY <2>2, <2>4 DEF UsesQueue
<1>7. CASE Publish(w)
  <2>1. PICK place \in {"published", "error"} : Advance(w, place)
    BY <1>7 DEF Publish
  <2>2. published' \in SUBSET Jobs /\ called' \in Nat
    BY <1>2, <1>7 DEF Publish
  <2>3. WorkerTypes' /\ Attended'
    BY <1>1, <1>7, <2>1, <2>2, AdvanceTypes DEF Publish
  <2> QED
    BY <1>7, <2>3 DEF Publish, UsesQueue
<1> QED
  BY <1>3, <1>4, <1>5, <1>6, <1>7 DEF Thread
\* The loop attending an execution.
LEMMA AttendUses ==
    ASSUME WorkerInv, NEW w \in Workers, Attend(w) \/ RenewLease(w)
    PROVE  UsesQueue
<1> USE DEF queueVars, Attending
<1>1. "exiting" \in Stages /\ "down" \in Stages /\ "error" \in Works
  BY DEF Stages, Works, Outcomes
<1>2. work[w] # "none" => job[w] \in Jobs /\ attempt[w] \in Nat
  BY DEF WorkerInv, WorkerTypes, Attended
<1>3. CASE RenewLease(w)
  <2>1. WorkerTypes' /\ Attended'
    BY <1>3
    DEF RenewLease, WorkerInv, WorkerTypes, Attended, policyVars, workerVars,
        executionVars, prepareVars, historyVars
  <2>2. QueueNext
    BY <1>2, <1>3 DEF RenewLease, Holds, QueueNext, LeasedCall
  <2> QED
    BY <2>1, <2>2 DEF UsesQueue
<1>4. CASE Abort(w)
  <2>1. WorkerTypes' /\ Attended'
    BY <1>1, <1>4
    DEF Abort, GoTo, WorkerInv, WorkerTypes, Attended, policyVars,
        executionVars, prepareVars, historyVars
  <2>2. [QueueNext]_queueVars
    BY <1>2, <1>4 DEF Abort, Holds, QueueNext, LeasedCall
  <2> QED
    BY <2>1, <2>2 DEF UsesQueue
<1>5. ASSUME NextStage(w) \in Stages, Leave(w, NextStage(w)),
             UNCHANGED <<deployment, today, policyVars, stale, plan, reused,
                         busy, historyVars>>,
             pending' = pending \/ pending' = [pending EXCEPT ![w] = {}]
      PROVE  WorkerTypes' /\ Attended'
  <2>1. /\ stage' \in [Workers -> Stages]
        /\ job' \in [Workers -> Jobs \union {NoJob}]
        /\ attempt' \in [Workers -> Nat]
        /\ work' \in [Workers -> Works]
        /\ left' \in [Workers -> 0..Timeout]
        /\ Attended'
    BY <1>5, LeaveTypes
  <2>2. pending' \in [Workers -> SUBSET Jobs]
    BY <1>5 DEF WorkerInv, WorkerTypes
  <2> QED
    BY <1>5, <2>1, <2>2
    DEF WorkerInv, WorkerTypes, policyVars, historyVars
<1>6. CASE SettleDeferred(w)
  <2>1. NextStage(w) \in Stages
    BY <1>6, NextStageType DEF SettleDeferred
  <2>2. WorkerTypes' /\ Attended'
    BY <1>5, <1>6, <2>1 DEF SettleDeferred
  <2> QED
    BY <1>6, <2>2 DEF SettleDeferred, UsesQueue
<1>7. CASE SettlePublished(w)
  <2>1. NextStage(w) \in Stages
    BY <1>7, NextStageType DEF SettlePublished
  <2>2. CASE Finishable(w)
    <3>1. WorkerTypes' /\ Attended'
      BY <1>5, <1>7, <2>1, <2>2
      DEF SettlePublished, prepareVars, policyVars, historyVars
    <3>2. QueueNext
      BY <1>2, <1>7, <2>2
      DEF SettlePublished, Finishable, Holds, QueueNext, LeasedCall
    <3> QED
      BY <3>1, <3>2 DEF UsesQueue
  <2>3. CASE ~Finishable(w)
    <3>1. WorkerTypes' /\ Attended'
      BY <1>1, <1>7, <2>3
      DEF SettlePublished, WorkerInv, WorkerTypes, Attended, policyVars,
          prepareVars, historyVars
    <3> QED
      BY <1>7, <2>3, <3>1 DEF SettlePublished, UsesQueue
  <2> QED
    BY <2>2, <2>3
<1>8. CASE SettleFailed(w)
  <2>1. NextStage(w) \in Stages
    BY <1>8, NextStageType DEF SettleFailed
  <2>2. WorkerTypes' /\ Attended'
    <3>1. CASE work[w] = "stopped"
      BY <1>1, <1>8, <3>1
      DEF SettleFailed, GoTo, WorkerInv, WorkerTypes, Attended, policyVars,
          executionVars, prepareVars, historyVars
    <3>2. CASE work[w] # "stopped"
      BY <1>5, <1>8, <2>1, <3>2
      DEF SettleFailed, prepareVars, policyVars, historyVars
    <3> QED
      BY <3>1, <3>2
  <2>3. [QueueNext]_queueVars
    <3>1. CASE ~Holds(w)
      BY <1>8, <3>1 DEF SettleFailed
    <3>2. CASE Holds(w)
      <4>1. \/ \E retryable \in BOOLEAN : Fail(job[w], retryable, FALSE)
            \/ Fail(job[w], TRUE, TRUE)
        BY <1>8, <3>2 DEF SettleFailed
      <4>2. LeasedCall(job[w], w, attempt[w])
        BY <3>2, <4>1 DEF Holds, LeasedCall
      <4> QED
        BY <1>2, <1>8, <4>2 DEF SettleFailed, QueueNext
    <3> QED
      BY <3>1, <3>2
  <2> QED
    BY <2>2, <2>3 DEF UsesQueue
<1>9. CASE Exit(w)
  <2>1. WorkerTypes' /\ Attended'
    <3>1. Down(w) /\ crashes' = crashes
      BY <1>9 DEF Exit
    <3> QED
      BY <1>1, <3>1, DownTypes, Bounds DEF WorkerInv, WorkerTypes
  <2> QED
    BY <1>9, <2>1 DEF Exit, Down, UsesQueue
<1> QED
  BY <1>3, <1>4, <1>6, <1>7, <1>8, <1>9 DEF Attend

LEMMA CrashUses ==
    ASSUME WorkerInv, NEW w \in Workers, Crash(w)
    PROVE  UsesQueue
<1>1. crashes' \in 0..MaxCrashes
  BY DeploymentTypes, Bounds DEF Crash, WorkerInv, WorkerTypes
<1>2. WorkerTypes' /\ Attended'
  BY <1>1, DownTypes DEF Crash
<1> QED
  BY <1>2 DEF Crash, Down, UsesQueue

LEMMA OthersUse ==
    ASSUME WorkerInv,
           \/ \E on \in BOOLEAN : Configure(on)
           \/ \E j \in Jobs : EnqueueVerified(j) \/ Stop(j)
           \/ Tick \/ Midnight \/ UNCHANGED vars
    PROVE  UsesQueue
<1> USE DEF queueVars, workerVars, executionVars, prepareVars, historyVars
<1>1. ASSUME NEW on \in BOOLEAN, Configure(on) PROVE UsesQueue
  <2>1. optIn' \in 0..MaxGen /\ lastGen' \in optIn'..MaxGen
    BY <1>1, Bounds DEF Configure, WorkerInv, WorkerTypes
  <2> QED
    BY <1>1, <2>1 DEF Configure, UsesQueue, WorkerInv, WorkerTypes, Attended
<1>2. ASSUME NEW j \in Jobs, EnqueueVerified(j) PROVE UsesQueue
  <2>1. WorkerTypes' /\ Attended'
    BY <1>2 DEF EnqueueVerified, WorkerInv, WorkerTypes, Attended, policyVars
  <2>2. {j} \in SUBSET Jobs
    OBVIOUS
  <2>3. QueueNext
    BY <1>2, <2>2 DEF EnqueueVerified, QueueNext
  <2> QED
    BY <2>1, <2>3 DEF UsesQueue
<1>3. ASSUME NEW j \in Jobs, Stop(j) PROVE UsesQueue
  BY <1>3
  DEF Stop, UsesQueue, QueueNext, WorkerInv, WorkerTypes, Attended, policyVars
<1>4. CASE Tick
  <2>1. stale' \in [Workers -> 0..MaxStale]
    BY <1>4, Bounds DEF Tick, WorkerInv, WorkerTypes
  <2>2. left' \in [Workers -> 0..Timeout]
    BY <1>4, Bounds DEF Tick, WorkerInv, WorkerTypes
  <2> QED
    BY <1>4, <2>1, <2>2
    DEF Tick, UsesQueue, QueueNext, WorkerInv, WorkerTypes, Attended, policyVars
<1>5. CASE Midnight
  <2>1. today' \in BOOLEAN
    BY <1>5 DEF Midnight, WorkerInv, WorkerTypes
  <2>2. work' \in [Workers -> Works]
    BY <1>5 DEF Midnight, WorkerInv, WorkerTypes, Works
  <2>3. Attended'
    BY <1>5 DEF Midnight, WorkerInv, WorkerTypes, Attended
  <2>4. WorkerTypes'
    BY <1>5, <2>1, <2>2 DEF Midnight, WorkerInv, WorkerTypes, policyVars
  <2> QED
    BY <1>5, <2>3, <2>4 DEF Midnight, UsesQueue, QueueNext
<1>6. CASE UNCHANGED vars
  BY <1>6
  DEF vars, UsesQueue, WorkerInv, WorkerTypes, Attended, policyVars
<1> QED
  BY <1>1, <1>2, <1>3, <1>4, <1>5, <1>6

LEMMA WorkerUsesQueue ==
    ASSUME WorkerInv, [Next]_vars
    PROVE  UsesQueue /\ WorkerInv'
<1>1. UsesQueue
  BY LoopUses, PrepareUses, ThreadUses, AttendUses, CrashUses, OthersUse
  DEF Next, Loop
<1>2. QueueInv'
  BY <1>1, QueueSimulates DEF UsesQueue, WorkerInv, Simulated
<1> QED
  BY <1>1, <1>2 DEF UsesQueue, WorkerInv

LEMMA WorkerInvariant == Spec => []WorkerInv
<1>1. Init => WorkerInv
  BY WorkerInit, QueueInvInit DEF WorkerInv, Init
<1>2. WorkerInv /\ [Next]_vars => WorkerInv'
  BY WorkerUsesQueue
<1> QED
  BY <1>1, <1>2, PTL DEF Spec

\* Every row of the queue and every variable of the worker keeps its type.
THEOREM WorkerTypeOK == Spec => []TypeOK
<1>1. WorkerInv => TypeOK
  BY TypeParts DEF WorkerInv, QueueInv
<1> QED
  BY <1>1, WorkerInvariant, PTL

\* The worker's processes, their threads, the operator and the clock do to
\* the queue only what its own calls do, each under the lease it names.
THEOREM WorkerFollowsQueue == Spec => QueueSpec
<1>1. Init => QueueInit
  BY DEF Init
<1>2. WorkerInv /\ [Next]_vars => [QueueNext]_queueVars
  BY WorkerUsesQueue DEF UsesQueue
<1> QED
  BY <1>1, <1>2, WorkerInvariant, PTL DEF Spec, QueueSpec

\* So each job is begun at most Base[j] times on its own account, is put back
\* or ended by its holder only, and ends once, though workers crash, hang and
\* outlive their leases.
THEOREM WorkerKeepsAllowance == Spec => KeepsAllowance
BY WorkerFollowsQueue, QueueKeepsAllowance
-----------------------------------------------------------------------------
(***************************************************************************)
(* What the steps leave alone.  The three properties that follow are about *)
(* few variables each, and most steps are quiet for them.                  *)
(***************************************************************************)
Succeeded == {j \in Jobs : row[j].status = "succeeded"}
Known == {j \in Jobs : row[j].status # "absent"}

LEMMA EnqueueKeeps ==
    ASSUME WorkerInv, NEW S, Enqueue(S)
    PROVE  Succeeded' \subseteq Succeeded /\ Known' \subseteq Known \union S
           /\ used' = used
<1>1. ASSUME NEW j \in Jobs
      PROVE  /\ row'[j].status = "succeeded" => row[j].status = "succeeded"
             /\ row'[j].status # "absent" => row[j].status # "absent" \/ j \in S
  <2>1. row'[j].status = IF j \in S /\ row[j].status = "absent"
                         THEN "queued" ELSE row[j].status
    BY DEF Enqueue, WorkerInv, QueueInv, QueueTypeOK
  <2> QED
    BY <2>1
<1> QED
  BY <1>1 DEF Succeeded, Known, Enqueue

LEMMA ClaimKeeps ==
    ASSUME WorkerInv, NEW S, NEW w, NEW behind, Claim(S, w, behind),
           Claimed(S, behind) \in Claimable(S, behind) \union {NoJob}
    PROVE  Succeeded' \subseteq Succeeded /\ Known' \subseteq Known
           /\ used' = used
<1>1. ASSUME NEW j \in Jobs
      PROVE  /\ row'[j].status = "succeeded" => row[j].status = "succeeded"
             /\ row'[j].status # "absent" => row[j].status # "absent"
  <2>1. CASE j \in Exhausted(S, behind)
    <3>1. row'[j].status = "failed" /\ row[j].status = "running"
      BY <2>1
      DEF Claim, Unleased, Exhausted, Lapsed, WorkerInv, QueueInv, QueueTypeOK
    <3> QED
      BY <3>1
  <2>2. CASE j \notin Exhausted(S, behind) /\ j = Claimed(S, behind)
    <3>1. j \in Claimable(S, behind)
      BY <2>2, NamesAssumption
    <3>2. row[j].status # "absent"
      BY <3>1 DEF Claimable, Lapsed
    <3>3. row'[j].status = "running"
      BY <2>2 DEF Claim, Started, WorkerInv, QueueInv, QueueTypeOK
    <3> QED
      BY <3>2, <3>3
  <2>3. CASE j \notin Exhausted(S, behind) /\ j # Claimed(S, behind)
    BY <2>3 DEF Claim
  <2> QED
    BY <2>1, <2>2, <2>3
<1> QED
  BY <1>1 DEF Succeeded, Known, Claim

LEMMA RowKeeps ==
    ASSUME WorkerInv, NEW j \in Jobs, row[j].status # "absent", NEW q,
           row' = [row EXCEPT ![j] = q], q.status # "succeeded"
    PROVE  Succeeded' \subseteq Succeeded /\ Known' \subseteq Known
BY DEF Succeeded, Known, WorkerInv, QueueInv, QueueTypeOK

LEMMA ReportKeeps ==
    ASSUME WorkerInv, NEW j \in Jobs, row[j].status = "running",
           \/ Heartbeat(j) \/ Defer(j)
           \/ \E retryable, preserve \in BOOLEAN : Fail(j, retryable, preserve)
    PROVE  Succeeded' \subseteq Succeeded /\ Known' \subseteq Known
           /\ used' = used
<1>1. row[j] \in Rows
  BY DEF WorkerInv, QueueInv, QueueTypeOK, Rows
<1>2. CASE Heartbeat(j)
  <2>1. [row[j] EXCEPT !.lease = Lease].status = "running"
    BY <1>1 DEF Rows
  <2>2. row' = [row EXCEPT ![j] = [row[j] EXCEPT !.lease = Lease]]
    BY <1>2 DEF Heartbeat
  <2> QED
    BY <1>2, <2>1, <2>2, RowKeeps DEF Heartbeat
<1>3. CASE Defer(j)
  <2>1. Deferred(row[j]).status = "queued"
    BY <1>1 DEF Rows, Deferred, Unleased
  <2>2. row' = [row EXCEPT ![j] = Deferred(row[j])]
    BY <1>3 DEF Defer
  <2> QED
    BY <1>3, <2>1, <2>2, RowKeeps DEF Defer
<1>4. ASSUME NEW retryable \in BOOLEAN, NEW preserve \in BOOLEAN,
             Fail(j, retryable, preserve)
      PROVE  Succeeded' \subseteq Succeeded /\ Known' \subseteq Known
             /\ used' = used
  <2>1. Reported(row[j], retryable, preserve).status \in {"failed", "queued"}
    BY <1>1 DEF Rows, Reported, Unleased
  <2>2. row' = [row EXCEPT ![j] = Reported(row[j], retryable, preserve)]
    BY <1>4 DEF Fail
  <2> QED
    BY <1>4, <2>1, <2>2, RowKeeps DEF Fail
<1> QED
  BY <1>2, <1>3, <1>4

LEMMA FinishKeeps ==
    ASSUME WorkerInv, NEW j \in Jobs, row[j].status = "running", Finish(j)
    PROVE  Succeeded' \subseteq Succeeded \union {j} /\ Known' \subseteq Known
           /\ used' = used
<1>1. \A k \in Jobs \ {j} : row'[k] = row[k]
  BY DEF Finish, WorkerInv, QueueInv, QueueTypeOK
<1> QED
  BY <1>1 DEF Succeeded, Known, Finish

LEMMA TimeKeeps ==
    ASSUME WorkerInv, PassTick \/ PassMidnight
    PROVE  Succeeded' \subseteq Succeeded /\ Known' \subseteq Known
<1>1. ASSUME NEW j \in Jobs PROVE row'[j].status = row[j].status
  <2>1. row[j] \in Rows
    BY DEF WorkerInv, QueueInv, QueueTypeOK, Rows
  <2> QED
    BY <2>1 DEF Rows, PassTick, PassMidnight
<1> QED
  BY <1>1 DEF Succeeded, Known
Permits == {w \in Workers : work[w] = "permit"}
Preparing == {w \in Workers : stage[w] \in {"prior", "enqueue"}}
Daily == OfKind("verified") \intersect Observed

\* No thread comes to a permit, or to a publication.
QuietAt(place) ==
    \A w \in Workers :
        work'[w] = place => work'[w] = work[w] /\ job'[w] = job[w]

QuietThreads == QuietAt("permit") /\ QuietAt("published")

\* No preparation is begun or goes on.
QuietPreparations ==
    \A w \in Preparing' :
        w \in Preparing /\ UNCHANGED <<stage[w], plan[w], reused[w]>>

QuietCalls == Permits' \subseteq Permits /\ called' = called /\ used' = used
QuietPublish == QuietAt("published") /\ Succeeded' \subseteq Succeeded
                /\ published' = published
QuietPlans == /\ QuietPreparations /\ Succeeded' \subseteq Succeeded
              /\ Known' \intersect Daily \subseteq Known
              /\ UNCHANGED <<deployment, optIn, lastGen>>

LEMMA QuietPermits ==
    ASSUME QuietThreads PROVE Permits' \subseteq Permits
BY DEF QuietThreads, QuietAt, Permits

\* Most steps are quiet for all three.
Quiet == QuietPublish /\ QuietCalls /\ QuietPlans

LEMMA QuietBy ==
    ASSUME QuietThreads, QuietPreparations,
           Succeeded' \subseteq Succeeded, Known' \intersect Daily \subseteq Known,
           UNCHANGED <<used, published, called, deployment, optIn, lastGen>>
    PROVE  Quiet
BY QuietPermits DEF Quiet, QuietPublish, QuietCalls, QuietPlans, QuietThreads

LEMMA SameThreads ==
    ASSUME UNCHANGED <<work, job>> PROVE QuietThreads
BY DEF QuietThreads, QuietAt

LEMMA SamePreparations ==
    ASSUME UNCHANGED <<stage, plan, reused>> PROVE QuietPreparations
BY DEF QuietPreparations, Preparing

LEMMA SameRows ==
    ASSUME UNCHANGED row
    PROVE  Succeeded' \subseteq Succeeded /\ Known' \subseteq Known
BY DEF Succeeded, Known

LEMMA LeaveIsQuiet ==
    ASSUME WorkerInv, NEW w \in Workers, NEW next \in Stages, Leave(w, next)
    PROVE  /\ QuietThreads
           /\ next \notin {"prior", "enqueue"} /\ UNCHANGED <<plan, reused>>
                 => QuietPreparations
<1>1. ASSUME NEW v \in Workers, v # w
      PROVE  UNCHANGED <<work[v], job[v], stage[v]>>
  BY <1>1 DEF Leave, GoTo, WorkerInv, WorkerTypes
<1>2. work'[w] = "none" /\ stage'[w] = next
  BY DEF Leave, GoTo, WorkerInv, WorkerTypes
<1> QED
  BY <1>1, <1>2 DEF QuietThreads, QuietAt, QuietPreparations, Preparing

LEMMA DownIsQuiet ==
    ASSUME WorkerInv, NEW w \in Workers, Down(w)
    PROVE  Quiet
<1>1. QuietThreads /\ UNCHANGED row
  BY LeaveIsQuiet DEF Down, Stages, queueVars
<1>2. QuietPreparations
  BY DEF Down, Leave, GoTo, QuietPreparations, Preparing, WorkerInv, WorkerTypes
<1> QED
  BY <1>1, <1>2, QuietBy, SameRows DEF Down, queueVars, policyVars

LEMMA NextStageNotPreparing ==
    ASSUME WorkerInv, NEW w \in Workers, Attending(w)
    PROVE  NextStage(w) \notin {"prior", "enqueue"}
<1>1. CASE stage[w] = "forward"
  BY <1>1 DEF NextStage
<1>2. CASE stage[w] # "forward"
  <2>1. stage[w] \in {"calendar", "action", "collection", "verified"}
    BY <1>2 DEF WorkerInv, Attended, Attending, ClaimStages
  <2> QED
    BY <1>2, <2>1, AfterType, VisitedAreStages DEF NextStage, Visited
<1> QED
  BY <1>1, <1>2

LEMMA AdvanceIsQuiet ==
    ASSUME WorkerInv, NEW w \in Workers, NEW place, Advance(w, place),
           place \notin {"permit", "published"}
    PROVE  QuietThreads /\ QuietPreparations
           /\ UNCHANGED <<deployment, optIn, lastGen>>
<1>1. /\ \A v \in Workers \ {w} : work'[v] = work[v]
      /\ work'[w] = place
      /\ UNCHANGED <<job, stage, plan, reused>>
  BY DEF Advance, prepareVars, WorkerInv, WorkerTypes
<1>2. QuietThreads
  BY <1>1 DEF QuietThreads, QuietAt
<1>3. QuietPreparations
  BY <1>1 DEF QuietPreparations, Preparing
<1> QED
  BY <1>2, <1>3 DEF Advance, policyVars

LEMMA ClaimForIsQuiet ==
    ASSUME WorkerInv, NEW w \in Workers, NEW S \in SUBSET Jobs,
           NEW age \in 0..MaxStale, NEW next, next \notin {"prior", "enqueue"},
           work[w] = "none", stage[w] \in ClaimStages,
           ClaimFor(w, S, age, next), UNCHANGED <<plan, reused>>
    PROVE  /\ QuietThreads /\ QuietPreparations
           /\ Succeeded' \subseteq Succeeded /\ Known' \subseteq Known
           /\ used' = used
<1>1. Claimed(S, age) \in Claimable(S, age) \union {NoJob}
  BY ClaimedIsClaimable, QueueAssumption DEF WorkerInv, QueueInv
<1>2. Succeeded' \subseteq Succeeded /\ Known' \subseteq Known /\ used' = used
  BY <1>1, ClaimKeeps DEF ClaimFor
<1>3. ASSUME NEW v \in Workers, v # w
      PROVE  UNCHANGED <<work[v], job[v], stage[v]>>
  BY <1>3 DEF ClaimFor, GoTo, executionVars, WorkerInv, WorkerTypes
<1>4. work'[w] \in {"none", "start"} /\ stage'[w] \in {stage[w], next}
  BY DEF ClaimFor, GoTo, executionVars, WorkerInv, WorkerTypes
<1>5. stage'[w] \notin {"prior", "enqueue"}
  BY <1>4 DEF ClaimStages
<1> QED
  BY <1>2, <1>3, <1>4, <1>5 DEF QuietThreads, QuietAt, QuietPreparations, Preparing
LEMMA GoneOn ==
    ASSUME WorkerInv, NEW w \in Workers, NEW next, GoTo(w, next),
           next \notin {"prior", "enqueue"}
    PROVE  /\ UNCHANGED <<plan, reused>> => QuietPreparations
           /\ /\ plan' = [plan EXCEPT ![w] = 0]
              /\ reused' = [reused EXCEPT ![w] = FALSE]
              => QuietPreparations
BY DEF QuietPreparations, Preparing, GoTo, WorkerInv, WorkerTypes

LEMMA LoopIsQuiet ==
    ASSUME WorkerInv, NEW w \in Workers,
           Start(w) \/ BeginPass(w) \/ PlanCollection(w) \/ ClaimInStage(w)
    PROVE  Quiet
<1> USE DEF queueVars, prepareVars, policyVars, executionVars, historyVars
<1>1. CASE Start(w)
  BY <1>1, QuietBy, SameThreads, SameRows, GoneOn DEF Start
<1>2. CASE BeginPass(w)
  <2>1. QuietPreparations
    <3>1. FirstStage(1) \notin {"prior", "enqueue"}
      BY FirstStageType, VisitedAreStages
    <3> QED
      BY <1>2, <3>1, GoneOn DEF BeginPass
  <2>2. /\ Succeeded' \subseteq Succeeded /\ used' = used
        /\ Known' \subseteq Known \union OfKind("calendar")
    BY <1>2, EnqueueKeeps, SameRows DEF BeginPass
  <2>3. OfKind("calendar") \intersect Daily = {}
    BY DEF Daily, OfKind
  <2> QED
    BY <1>2, <2>1, <2>2, <2>3, QuietBy, SameThreads DEF BeginPass
<1>3. CASE PlanCollection(w)
  <2>1. QuietPreparations
    <3>1. After("plan") \notin {"prior", "enqueue"}
      BY AfterType, VisitedAreStages DEF Visited
    <3> QED
      BY <1>3, <3>1, GoneOn DEF PlanCollection
  <2>2. /\ Succeeded' \subseteq Succeeded /\ used' = used
        /\ Known' \subseteq Known \union OfKind("collection")
    BY <1>3, EnqueueKeeps DEF PlanCollection
  <2>3. OfKind("collection") \intersect Daily = {}
    BY DEF Daily, OfKind
  <2> QED
    BY <1>3, <2>1, <2>2, <2>3, QuietBy, SameThreads DEF PlanCollection
<1>4. CASE ClaimInStage(w)
  <2>1. After(stage[w]) \notin {"prior", "enqueue"}
    BY <1>4, AfterType, VisitedAreStages DEF ClaimInStage, Visited
  <2>2. ClaimAge(w) \in 0..MaxStale
    BY Bounds DEF ClaimAge, WorkerInv, WorkerTypes
  <2>3. OfKind(stage[w]) \in SUBSET Jobs
    BY DEF OfKind
  <2>4. /\ ClaimFor(w, OfKind(stage[w]), ClaimAge(w), After(stage[w]))
        /\ work[w] = "none" /\ stage[w] \in ClaimStages
        /\ UNCHANGED <<plan, reused>>
    BY <1>4 DEF ClaimInStage, ClaimStages
  <2>5. /\ QuietThreads /\ QuietPreparations
        /\ Succeeded' \subseteq Succeeded /\ Known' \subseteq Known
        /\ used' = used
    BY <2>1, <2>2, <2>3, <2>4, ClaimForIsQuiet
  <2> QED
    BY <1>4, <2>5, QuietBy DEF ClaimInStage
<1> QED
  BY <1>1, <1>2, <1>3, <1>4

LEMMA PrepareIsQuiet ==
    ASSUME WorkerInv, NEW w \in Workers, Prepare(w)
    PROVE  /\ QuietPublish /\ QuietCalls
           /\ \/ QuietPlans
              \/ ReadPolicy(w) \/ ReadPrior(w) \/ EnqueueInputs(w)
<1> USE DEF queueVars, prepareVars, policyVars, executionVars, historyVars
<1>1. CASE ReadPolicy(w) \/ ReadPrior(w)
  BY <1>1, SameThreads, SameRows, QuietPermits
  DEF ReadPolicy, ReadPrior, QuietPublish, QuietCalls, QuietThreads
<1>2. CASE EnqueueInputs(w)
  <2>1. Succeeded' \subseteq Succeeded /\ used' = used
    BY <1>2, EnqueueKeeps, SameRows DEF EnqueueInputs
  <2> QED
    BY <1>2, <2>1, SameThreads, QuietPermits
    DEF EnqueueInputs, QuietPublish, QuietCalls, QuietThreads
<1>3. CASE RecordReport(w)
  <2>1. QuietPreparations
    BY <1>3, GoneOn DEF RecordReport
  <2>2. Quiet
    BY <1>3, <2>1, QuietBy, SameThreads, SameRows DEF RecordReport
  <2> QED
    BY <2>2 DEF Quiet
<1>4. CASE ClaimForward(w)
  <2>1. PICK j \in pending[w] : ClaimFor(w, {j}, 0, "forward")
    BY <1>4 DEF ClaimForward
  <2>2. {j} \in SUBSET Jobs
    BY DEF WorkerInv, WorkerTypes
  <2>3. work[w] = "none" /\ stage[w] \in ClaimStages /\ UNCHANGED <<plan, reused>>
    BY <1>4 DEF ClaimForward, ClaimStages
  <2>4. /\ QuietThreads /\ QuietPreparations
        /\ Succeeded' \subseteq Succeeded /\ Known' \subseteq Known
        /\ used' = used
    BY <2>1, <2>2, <2>3, Bounds, ClaimForIsQuiet
  <2>5. Quiet
    BY <1>4, <2>4, QuietBy DEF ClaimForward
  <2> QED
    BY <2>5 DEF Quiet
<1>5. ASSUME NEW hold \in BOOLEAN, EndForward(w, hold)
      PROVE  Quiet
  <2>1. PICK next : GoTo(w, next) /\ next \in {"idle", After("policies")}
    BY <1>5 DEF EndForward
  <2>2. QuietPreparations
    BY <1>5, <2>1, GoneOn, AfterType, VisitedAreStages DEF EndForward, Visited
  <2> QED
    BY <1>5, <2>2, QuietBy, SameThreads, SameRows DEF EndForward
<1> QED
  BY <1>1, <1>2, <1>3, <1>4, <1>5 DEF Prepare, Quiet

LEMMA ThreadIsQuiet ==
    ASSUME WorkerInv, NEW w \in Workers, Thread(w)
    PROVE  /\ QuietPublish \/ Publish(w)
           /\ QuietCalls \/ ReserveCall(w) \/ CallProvider(w)
           /\ QuietPlans
<1> USE DEF queueVars, ThreadAt
<1>1. work[w] # "none" => job[w] \in Jobs
  BY DEF WorkerInv, Attended
<1>2. CASE RunCalendar(w)
  <2>1. PICK place \in {"ready", "error", "fatal"} : Advance(w, place)
    BY <1>2 DEF RunCalendar
  <2>2. QuietThreads /\ QuietPreparations
        /\ UNCHANGED <<deployment, optIn, lastGen>>
    BY <2>1, AdvanceIsQuiet
  <2>3. Quiet
    BY <1>2, <2>2, QuietBy, SameRows DEF RunCalendar
  <2> QED
    BY <2>3 DEF Quiet
<1>3. CASE ReserveCall(w)
  <2>1. PICK place \in {"stopped", "error", "deferred", "permit"} :
          Advance(w, place)
    BY <1>3 DEF ReserveCall
  <2>2. /\ Succeeded' \subseteq Succeeded /\ Known' \subseteq Known
        /\ UNCHANGED <<published, called>>
    BY <1>1, <1>3, ReportKeeps, SameRows
    DEF ReserveCall, CountCall, Holds, HoldsLease
  <2>3. /\ UNCHANGED <<job, stage, plan, reused, deployment, optIn, lastGen>>
        /\ QuietAt("published")
    BY <2>1 DEF Advance, prepareVars, policyVars, WorkerInv, WorkerTypes, QuietAt
  <2>4. QuietPlans
    BY <2>2, <2>3, SamePreparations DEF QuietPlans
  <2> QED
    BY <1>3, <2>2, <2>3, <2>4 DEF QuietPublish
<1>4. CASE CallProvider(w)
  <2>1. PICK place \in {"start", "captured", "unavailable", "error", "fatal"} :
          Advance(w, place)
    BY <1>4 DEF CallProvider
  <2>2. QuietThreads /\ QuietPreparations
        /\ UNCHANGED <<deployment, optIn, lastGen>>
    BY <2>1, AdvanceIsQuiet
  <2>3. QuietPublish /\ QuietPlans
    BY <1>4, <2>2, SameRows DEF CallProvider, QuietPublish, QuietPlans, QuietThreads
  <2> QED
    BY <1>4, <2>3
<1>5. CASE BeforePublish(w)
  <2>1. PICK place \in {"stopped", "ready", "error"} : Advance(w, place)
    BY <1>5 DEF BeforePublish
  <2>2. QuietThreads /\ QuietPreparations
        /\ UNCHANGED <<deployment, optIn, lastGen>>
    BY <2>1, AdvanceIsQuiet
  <2>3. Succeeded' \subseteq Succeeded /\ Known' \subseteq Known /\ used' = used
    BY <1>1, <1>5, ReportKeeps, SameRows DEF BeforePublish, Holds, HoldsLease
  <2>4. Quiet
    BY <1>5, <2>2, <2>3, QuietBy DEF BeforePublish
  <2> QED
    BY <2>4 DEF Quiet
<1>6. CASE Publish(w)
  <2>1. PICK place \in {"published", "error"} : Advance(w, place)
    BY <1>6 DEF Publish
  <2>2. /\ UNCHANGED <<job, stage, plan, reused, deployment, optIn, lastGen>>
        /\ QuietAt("permit")
    BY <2>1 DEF Advance, prepareVars, policyVars, WorkerInv, WorkerTypes, QuietAt
  <2>3. QuietPlans /\ QuietCalls
    BY <1>6, <2>2, SamePreparations, SameRows
    DEF Publish, QuietPlans, QuietCalls, QuietAt, Permits
  <2> QED
    BY <1>6, <2>3
<1> QED
  BY <1>2, <1>3, <1>4, <1>5, <1>6 DEF Thread

LEMMA AttendIsQuiet ==
    ASSUME WorkerInv, NEW w \in Workers, Attend(w) \/ RenewLease(w)
    PROVE  Quiet \/ (SettlePublished(w) /\ Finishable(w))
<1> USE DEF queueVars
<1>1. /\ work[w] # "none" => job[w] \in Jobs
      /\ Holds(w) => row[job[w]].status = "running"
  BY DEF WorkerInv, Attended, Holds, HoldsLease
<1>2. CASE RenewLease(w)
  <2>1. Succeeded' \subseteq Succeeded /\ Known' \subseteq Known /\ used' = used
    BY <1>1, <1>2, ReportKeeps DEF RenewLease, Attending
  <2> QED
    BY <1>2, <2>1, QuietBy, SameThreads, SamePreparations
    DEF RenewLease, workerVars, executionVars, prepareVars, policyVars, historyVars
<1>3. CASE Abort(w)
  <2>1. Succeeded' \subseteq Succeeded /\ Known' \subseteq Known /\ used' = used
    BY <1>1, <1>3, ReportKeeps, SameRows DEF Abort, Attending
  <2>2. QuietPreparations
    BY <1>3, GoneOn DEF Abort, prepareVars
  <2> QED
    BY <1>3, <2>1, <2>2, QuietBy, SameThreads
    DEF Abort, executionVars, policyVars, historyVars
<1>4. ASSUME Attending(w), Leave(w, NextStage(w)), UNCHANGED <<plan, reused>>
      PROVE  QuietThreads /\ QuietPreparations
  BY <1>4, LeaveIsQuiet, NextStageType, NextStageNotPreparing
<1>5. CASE SettleDeferred(w)
  <2>1. QuietThreads /\ QuietPreparations
    BY <1>4, <1>5 DEF SettleDeferred
  <2> QED
    BY <1>5, <2>1, QuietBy, SameRows DEF SettleDeferred, policyVars, historyVars
<1>6. CASE SettlePublished(w) /\ ~Finishable(w)
  <2>1. /\ work' = [work EXCEPT ![w] = "error"]
        /\ UNCHANGED <<row, used, job, stage, plan, reused>>
    BY <1>6 DEF SettlePublished, prepareVars
  <2>2. QuietThreads
    BY <2>1 DEF QuietThreads, QuietAt, WorkerInv, WorkerTypes
  <2> QED
    BY <1>6, <2>1, <2>2, QuietBy, SameRows, SamePreparations
    DEF SettlePublished, policyVars, historyVars
<1>7. CASE SettleFailed(w)
  <2>1. Succeeded' \subseteq Succeeded /\ Known' \subseteq Known /\ used' = used
    BY <1>1, <1>7, ReportKeeps, SameRows DEF SettleFailed, Attending
  <2>2. QuietThreads /\ QuietPreparations
    <3>1. CASE work[w] = "stopped"
      <4>1. GoTo(w, "exiting") /\ UNCHANGED <<job, work, plan, reused>>
        BY <1>7, <3>1 DEF SettleFailed, executionVars, prepareVars
      <4> QED
        BY <4>1, GoneOn, SameThreads
    <3>2. CASE work[w] # "stopped"
      BY <1>4, <1>7, <3>2 DEF SettleFailed, prepareVars
    <3> QED
      BY <3>1, <3>2
  <2> QED
    BY <1>7, <2>1, <2>2, QuietBy DEF SettleFailed, policyVars, historyVars
<1>8. CASE Exit(w)
  <2>1. Quiet
    BY <1>8, DownIsQuiet DEF Exit
  <2> QED
    BY <2>1
<1> QED
  BY <1>2, <1>3, <1>5, <1>6, <1>7, <1>8 DEF Attend

LEMMA OthersAreQuiet ==
    ASSUME WorkerInv,
           \/ \E on \in BOOLEAN : Configure(on)
           \/ \E j \in Jobs : EnqueueVerified(j) \/ Stop(j)
           \/ Tick \/ Midnight \/ UNCHANGED vars
    PROVE  /\ QuietPublish
           /\ QuietCalls \/ Midnight
           /\ QuietPlans \/ (\E on \in BOOLEAN : Configure(on))
<1> USE DEF queueVars, workerVars, executionVars, prepareVars, historyVars
<1>1. ASSUME NEW on \in BOOLEAN, Configure(on)
      PROVE  QuietPublish /\ QuietCalls
  BY <1>1, SameThreads, SameRows, QuietPermits
  DEF Configure, QuietPublish, QuietCalls, QuietThreads
<1>2. ASSUME NEW j \in Jobs, EnqueueVerified(j) PROVE Quiet
  <2>1. /\ Succeeded' \subseteq Succeeded /\ used' = used
        /\ Known' \subseteq Known \union {j}
    BY <1>2, EnqueueKeeps DEF EnqueueVerified
  <2>2. j \notin Daily
    BY <1>2 DEF EnqueueVerified, Daily, Observed
  <2> QED
    BY <1>2, <2>1, <2>2, QuietBy, SameThreads, SamePreparations
    DEF EnqueueVerified, policyVars
<1>3. ASSUME NEW j \in Jobs, Stop(j) PROVE Quiet
  <2>1. Succeeded' \subseteq Succeeded /\ Known' \subseteq Known /\ used' = used
    <3>1. /\ row[j].status = "queued" /\ used' = used
          /\ row' = [row EXCEPT ![j] = [row[j] EXCEPT !.status = "failed"]]
      BY <1>3 DEF Stop, StopQueued
    <3>2. [row[j] EXCEPT !.status = "failed"].status = "failed"
      BY DEF WorkerInv, QueueInv, QueueTypeOK
    <3> QED
      BY <3>1, <3>2, RowKeeps
  <2> QED
    BY <1>3, <2>1, QuietBy, SameThreads, SamePreparations DEF Stop, policyVars
<1>4. CASE Tick
  <2>1. Succeeded' \subseteq Succeeded /\ Known' \subseteq Known /\ used' = used
    BY <1>4, TimeKeeps DEF Tick, PassTick
  <2> QED
    <3>1. UNCHANGED <<work, job, stage, plan, reused, published, called,
                      deployment, optIn, lastGen>>
      BY <1>4 DEF Tick, policyVars
    <3>2. QuietThreads /\ QuietPreparations
      BY <3>1, SameThreads, SamePreparations
    <3> QED
      BY <2>1, <3>1, <3>2, QuietBy DEF Quiet
<1>5. CASE Midnight
  <2>1. Succeeded' \subseteq Succeeded /\ Known' \subseteq Known
    BY <1>5, TimeKeeps DEF Midnight
  <2>2. QuietAt("published")
    BY <1>5 DEF Midnight, QuietAt, WorkerInv, WorkerTypes
  <2>3. QuietPlans /\ QuietPublish
    BY <1>5, <2>1, <2>2, SamePreparations
    DEF Midnight, QuietPlans, QuietPublish, policyVars
  <2> QED
    BY <1>5, <2>3
<1>6. CASE UNCHANGED vars
  BY <1>6, QuietBy, SameThreads, SamePreparations, SameRows
  DEF vars, policyVars, Quiet
<1> QED
  BY <1>1, <1>2, <1>3, <1>4, <1>5, <1>6 DEF Quiet

\* The steps that are not quiet.
LEMMA StepsAreQuiet ==
    ASSUME WorkerInv, [Next]_vars
    PROVE  /\ \/ QuietPublish
              \/ \E w \in Workers :
                    Publish(w) \/ (SettlePublished(w) /\ Finishable(w))
           /\ \/ QuietCalls \/ Midnight
              \/ \E w \in Workers :
                    \/ ReserveCall(w) \/ CallProvider(w)
                    \/ SettlePublished(w) /\ Finishable(w)
           /\ \/ QuietPlans \/ (\E on \in BOOLEAN : Configure(on))
              \/ \E w \in Workers :
                    \/ ReadPolicy(w) \/ ReadPrior(w) \/ EnqueueInputs(w)
                    \/ SettlePublished(w) /\ Finishable(w)
<1>1. ASSUME NEW w \in Workers, Start(w) \/ BeginPass(w) \/ PlanCollection(w)
                                 \/ ClaimInStage(w)
      PROVE  Quiet
  BY <1>1, LoopIsQuiet
<1>2. ASSUME NEW w \in Workers, Crash(w) PROVE Quiet
  BY <1>2, DownIsQuiet DEF Crash
<1>3. ASSUME NEW w \in Workers, Prepare(w)
      PROVE  /\ QuietPublish /\ QuietCalls
             /\ \/ QuietPlans
                \/ ReadPolicy(w) \/ ReadPrior(w) \/ EnqueueInputs(w)
  BY <1>3, PrepareIsQuiet
<1>4. ASSUME NEW w \in Workers, Thread(w)
      PROVE  /\ QuietPublish \/ Publish(w)
             /\ QuietCalls \/ ReserveCall(w) \/ CallProvider(w)
             /\ QuietPlans
  BY <1>4, ThreadIsQuiet
<1>5. ASSUME NEW w \in Workers, Attend(w) \/ RenewLease(w)
      PROVE  Quiet \/ (SettlePublished(w) /\ Finishable(w))
  BY <1>5, AttendIsQuiet
<1>6. ASSUME \/ \E on \in BOOLEAN : Configure(on)
             \/ \E j \in Jobs : EnqueueVerified(j) \/ Stop(j)
             \/ Tick \/ Midnight \/ UNCHANGED vars
      PROVE  /\ QuietPublish
             /\ QuietCalls \/ Midnight
             /\ QuietPlans \/ (\E on \in BOOLEAN : Configure(on))
  BY <1>6, OthersAreQuiet
<1> QED
  BY <1>1, <1>2, <1>3, <1>4, <1>5, <1>6 DEF Next, Loop, Quiet
-----------------------------------------------------------------------------
(***************************************************************************)
(* What succeeded is published: the loop completes a job only after its    *)
(* thread published, and no later step takes a publication back.           *)
(***************************************************************************)
PublishedInv ==
    /\ \A w \in Workers : work[w] = "published" => job[w] \in published
    /\ Succeeded \subseteq published

LEMMA PublishedStep ==
    ASSUME WorkerInv, PublishedInv, [Next]_vars
    PROVE  PublishedInv'
<1>1. CASE QuietPublish
  BY <1>1 DEF QuietPublish, QuietAt, PublishedInv
<1>2. ASSUME NEW w \in Workers, Publish(w) PROVE PublishedInv'
  <2>1. PICK place \in {"published", "error"} :
          /\ Advance(w, place)
          /\ place = "published" => published' = published \union {job[w]}
          /\ place = "error" => published' = published
    BY <1>2 DEF Publish
  <2>2. /\ job' = job /\ work' = [work EXCEPT ![w] = place]
        /\ published \subseteq published'
    BY <2>1 DEF Advance
  <2>3. Succeeded' \subseteq Succeeded
    BY <1>2, SameRows DEF Publish, queueVars
  <2> QED
    BY <2>1, <2>2, <2>3 DEF PublishedInv, WorkerInv, WorkerTypes
<1>3. ASSUME NEW w \in Workers, SettlePublished(w), Finishable(w)
      PROVE  PublishedInv'
  <2>1. /\ work[w] = "published" /\ job[w] \in Jobs
        /\ row[job[w]].status = "running"
    BY <1>3
    DEF SettlePublished, Attending, Finishable, Holds, HoldsLease, WorkerInv,
        Attended
  <2>2. Finish(job[w]) /\ Leave(w, NextStage(w)) /\ published' = published
    BY <1>3 DEF SettlePublished, historyVars
  <2>3. Succeeded' \subseteq Succeeded \union {job[w]}
    BY <2>1, <2>2, FinishKeeps
  <2>4. \A v \in Workers : work'[v] = "published" =>
                              work[v] = "published" /\ job'[v] = job[v]
    BY <2>2 DEF Leave, WorkerInv, WorkerTypes
  <2> QED
    BY <2>1, <2>2, <2>3, <2>4 DEF PublishedInv
<1> QED
  BY <1>1, <1>2, <1>3, StepsAreQuiet

\* No job is marked succeeded without its result in the catalog, whatever
\* separates the publication from the completion (data_worker.py:680-713).
THEOREM WorkerSucceededIsPublished == Spec => []SucceededIsPublished
<1>1. Init => PublishedInv
  BY DEF Init, QueueInit, Absent, PublishedInv, Succeeded
<1>2. WorkerInv /\ PublishedInv /\ [Next]_vars => PublishedInv'
  BY PublishedStep
<1>3. PublishedInv => SucceededIsPublished
  BY DEF PublishedInv, SucceededIsPublished, Succeeded
<1> QED
  BY <1>1, <1>2, <1>3, WorkerInvariant, PTL DEF Spec

\* What is published for an observation is published under the generation
\* opted in at that moment (automation_runs.py:365-382).
THEOREM WorkerPublishesUnderGrant == Spec => PublishedUnderGrant
<1>1. ASSUME WorkerInv, [Next]_vars, NEW j \in published' \ published,
             Payload(j).kind = "verified"
      PROVE  Granted(j)
  <2>1. ~QuietPublish
    BY <1>1 DEF QuietPublish
  <2>2. PICK w \in Workers :
          Publish(w) \/ (SettlePublished(w) /\ Finishable(w))
    BY <1>1, <2>1, StepsAreQuiet
  <2>3. ~(SettlePublished(w) /\ Finishable(w))
    BY <1>1 DEF SettlePublished, historyVars
  <2>4. Publish(w) /\ j = job[w]
    BY <1>1, <2>2, <2>3 DEF Publish
  <2>5. j \in published'
    BY <1>1
  <2>6. Payload(j).gen # 0 => Granted(j)
    BY <1>1, <2>4, <2>5 DEF Publish
  <2> QED
    BY <2>6 DEF Granted
<1>2. WorkerInv /\ [Next]_vars =>
        [\A j \in published' \ published :
            Payload(j).kind = "verified" => Granted(j)]_vars
  BY <1>1
<1>3. Spec => [][\A j \in published' \ published :
                    Payload(j).kind = "verified" => Granted(j)]_vars
  BY <1>2, WorkerInvariant, PTL DEF Spec
<1> QED
  BY <1>3 DEF PublishedUnderGrant
-----------------------------------------------------------------------------
(***************************************************************************)
(* The calls of a day: a reservation is used for one call, and outlives    *)
(* neither its thread nor its day.                                         *)
(***************************************************************************)
CallsInv == called + Cardinality(Permits) <= used

LEMMA PermitsFinite ==
    /\ IsFiniteSet(Permits) /\ Cardinality(Permits) \in Nat
    /\ IsFiniteSet(Permits') /\ Cardinality(Permits') \in Nat
<1>1. Permits \subseteq Workers /\ Permits' \subseteq Workers
  BY DEF Permits
<1> QED
  BY <1>1, WorkerAssumption, FS_Subset, FS_CardinalityType

LEMMA FewerPermits ==
    ASSUME WorkerInv, CallsInv, QuietCalls PROVE CallsInv'
<1>1. Cardinality(Permits') <= Cardinality(Permits)
  BY PermitsFinite, FS_Subset DEF QuietCalls
<1> QED
  BY <1>1, PermitsFinite
  DEF CallsInv, QuietCalls, WorkerInv, WorkerTypes, QueueInv, QueueTypeOK

LEMMA CallsStep ==
    ASSUME WorkerInv, CallsInv, [Next]_vars
    PROVE  CallsInv'
<1>0. called \in Nat /\ used \in Nat
  BY QueueAssumption DEF WorkerInv, WorkerTypes, QueueInv, QueueTypeOK
<1>1. CASE QuietCalls
  BY <1>1, FewerPermits
<1>2. CASE Midnight
  <2>1. Permits' = {} /\ called' = 0 /\ used' = 0
    BY <1>2 DEF Midnight, PassMidnight, Permits, WorkerInv, WorkerTypes
  <2>2. Cardinality(Permits') = 0
    BY <2>1, FS_EmptySet
  <2> QED
    BY <2>1, <2>2 DEF CallsInv
<1>3. ASSUME NEW w \in Workers, ReserveCall(w) PROVE CallsInv'
  <2>1. work[w] = "start" /\ called' = called
    BY <1>3 DEF ReserveCall, ThreadAt
  <2>2. CASE Advance(w, "permit") /\ CountCall
    <3>1. Permits' = Permits \union {w} /\ w \notin Permits
      BY <2>1, <2>2 DEF Advance, Permits, WorkerInv, WorkerTypes
    <3>2. Cardinality(Permits') = Cardinality(Permits) + 1
      BY <3>1, PermitsFinite, FS_AddElement
    <3> QED
      BY <1>0, <2>1, <2>2, <3>2, PermitsFinite DEF CallsInv, CountCall
  <2>3. CASE ~(Advance(w, "permit") /\ CountCall)
    <3>1. PICK place \in {"stopped", "error", "deferred"} :
            Advance(w, place) /\ used' = used
      BY <1>3, <2>3 DEF ReserveCall, Defer, queueVars
    <3>2. Permits' \subseteq Permits
      BY <3>1, AdvanceIsQuiet, QuietPermits
    <3> QED
      BY <2>1, <3>1, <3>2, FewerPermits DEF QuietCalls
  <2> QED
    BY <2>2, <2>3
<1>4. ASSUME NEW w \in Workers, CallProvider(w) PROVE CallsInv'
  <2>1. PICK place \in {"start", "captured", "unavailable", "error", "fatal"} :
          Advance(w, place)
    BY <1>4 DEF CallProvider
  <2>2. CASE work[w] = "permit"
    <3>1. Permits' = Permits \ {w} /\ w \in Permits
      BY <2>1, <2>2 DEF Advance, Permits, WorkerInv, WorkerTypes
    <3>2. Cardinality(Permits') = Cardinality(Permits) - 1
      BY <3>1, PermitsFinite, FS_RemoveElement
    <3>3. called' = called + 1 /\ used' = used
      BY <1>4, <2>2 DEF CallProvider, queueVars
    <3> QED
      BY <1>0, <3>2, <3>3, PermitsFinite DEF CallsInv
  <2>3. CASE work[w] # "permit"
    <3>1. Permits' \subseteq Permits
      BY <2>1, AdvanceIsQuiet, QuietPermits
    <3>2. called' = called /\ used' = used
      BY <1>4, <2>3 DEF CallProvider, queueVars
    <3> QED
      BY <3>1, <3>2, FewerPermits DEF QuietCalls
  <2> QED
    BY <2>2, <2>3
<1>5. ASSUME NEW w \in Workers, SettlePublished(w), Finishable(w)
      PROVE  CallsInv'
  <2>1. /\ Leave(w, NextStage(w)) /\ Attending(w)
        /\ UNCHANGED <<called, used>>
    BY <1>5 DEF SettlePublished, Finish, historyVars
  <2>2. QuietThreads
    BY <2>1, LeaveIsQuiet, NextStageType
  <2> QED
    BY <2>1, <2>2, QuietPermits, FewerPermits DEF QuietCalls
<1> QED
  BY <1>1, <1>2, <1>3, <1>4, <1>5, StepsAreQuiet

\* The calls made on a day and the threads about to make one never exceed
\* what was counted for the day, nor this its limit, whatever crashes, times
\* out or runs twice (market_daily_call_budget.py:34-120).
THEOREM WorkerCallsCounted == Spec => []CallsCounted
<1>1. Init => CallsInv
  <2>1. ASSUME Init PROVE Permits = {} /\ called = 0 /\ used = 0
    BY <2>1 DEF Init, QueueInit, Permits
  <2> QED
    BY <2>1, FS_EmptySet DEF CallsInv
<1>2. WorkerInv /\ CallsInv /\ [Next]_vars => CallsInv'
  BY CallsStep
<1>3. WorkerInv /\ CallsInv => CallsCounted
  BY QueueAssumption
  DEF WorkerInv, QueueInv, QueueTypeOK, CallsInv, Permits, CallsCounted
<1> QED
  BY <1>1, <1>2, <1>3, WorkerInvariant, PTL DEF Spec

-----------------------------------------------------------------------------
(***************************************************************************)
(* One daily input is completed once.  A daily job of the opted in         *)
(* generation is stored only if no other generation has completed the      *)
(* input; a new generation has no job stored yet; and an old one completes *)
(* no more.                                                                *)
(***************************************************************************)
Gen(j) == Payload(j).gen
Completed == Daily \intersect Succeeded

OnceInv ==
    /\ \A j \in Daily \intersect Known :
          /\ Gen(j) <= lastGen
          /\ Gen(j) = optIn => \A k \in Completed : Gen(k) = optIn
    /\ \A w \in Preparing :
          /\ plan[w] # 0 /\ plan[w] <= lastGen
          /\ stage[w] = "enqueue" /\ ~reused[w] /\ plan[w] = optIn
               => \A k \in Completed : Gen(k) = optIn
    /\ \A j, k \in Completed : Gen(j) = Gen(k)

LEMMA SameDeployment ==
    ASSUME deployment' = deployment
    PROVE  Daily' = Daily /\ \A j : Gen(j)' = Gen(j)
BY DEF Daily, OfKind, Observed, Gen, Payload

LEMMA GensAreNumbers ==
    ASSUME WorkerInv
    PROVE  /\ lastGen \in Nat /\ optIn \in Nat /\ optIn <= lastGen
           /\ \A j \in Jobs : Gen(j) \in Nat
           /\ \A j \in Daily : Gen(j) # 0 /\ j \in Jobs
           /\ \A w \in Workers : plan[w] \in Nat
BY DeploymentTypes, Bounds
DEF WorkerInv, WorkerTypes, Gen, Payload, Daily, Observed, OfKind

LEMMA OnceStep ==
    ASSUME WorkerInv, OnceInv, [Next]_vars
    PROVE  OnceInv'
<1> USE GensAreNumbers
<1>1. CASE QuietPlans
  <2>1. Daily' = Daily /\ \A j : Gen(j)' = Gen(j)
    BY <1>1, SameDeployment DEF QuietPlans
  <2>2. Completed' \subseteq Completed /\ Daily' \intersect Known' \subseteq Known
    BY <1>1, <2>1 DEF QuietPlans, Completed
  <2>3. optIn' = optIn /\ lastGen' = lastGen
    BY <1>1 DEF QuietPlans
  <2>4. ASSUME NEW w \in Preparing'
        PROVE  w \in Preparing /\ UNCHANGED <<stage[w], plan[w], reused[w]>>
    BY <1>1 DEF QuietPlans, QuietPreparations
  <2> QED
    BY <2>1, <2>2, <2>3, <2>4 DEF OnceInv
<1>2. ASSUME NEW on \in BOOLEAN, Configure(on) PROVE OnceInv'
  <2>1. /\ Daily' = Daily /\ (\A j : Gen(j)' = Gen(j))
        /\ UNCHANGED <<Known, Succeeded, Completed, Preparing, stage, plan, reused>>
        /\ lastGen' = lastGen + 1 /\ optIn' \in {lastGen + 1, 0}
    BY <1>2, SameDeployment
    DEF Configure, queueVars, workerVars, prepareVars, Known, Succeeded,
        Completed, Preparing
  <2>2. \A j \in Daily \intersect Known : Gen(j) <= lastGen' /\ Gen(j) # optIn'
    BY <2>1 DEF OnceInv
  <2>3. \A w \in Preparing : plan[w] <= lastGen' /\ plan[w] # optIn'
    BY <2>1 DEF OnceInv, Preparing
  <2> QED
    BY <2>1, <2>2, <2>3 DEF OnceInv
<1>3. ASSUME NEW w \in Workers,
             ReadPolicy(w) \/ ReadPrior(w) \/ EnqueueInputs(w)
      PROVE  /\ Daily' = Daily /\ (\A j : Gen(j)' = Gen(j))
             /\ UNCHANGED <<optIn, lastGen>>
             /\ Completed' \subseteq Completed
             /\ \A v \in Workers \ {w} :
                   UNCHANGED <<stage[v], plan[v], reused[v]>>
             /\ \A v \in Workers \ {w} : v \in Preparing' <=> v \in Preparing
  <2>1. Succeeded' \subseteq Succeeded
    BY <1>3, EnqueueKeeps, SameRows
    DEF ReadPolicy, ReadPrior, EnqueueInputs, queueVars
  <2>2. UNCHANGED <<deployment, optIn, lastGen>>
    BY <1>3 DEF ReadPolicy, ReadPrior, EnqueueInputs, policyVars
  <2>3. ASSUME NEW v \in Workers \ {w}
        PROVE  UNCHANGED <<stage[v], plan[v], reused[v]>>
    BY <1>3
    DEF ReadPolicy, ReadPrior, EnqueueInputs, GoTo, WorkerInv, WorkerTypes
  <2> QED
    BY <2>1, <2>2, <2>3, SameDeployment DEF Completed, Preparing\* The part of OnceInv about the preparation of w is all that is left.
<1>4. ASSUME NEW w \in Workers, ReadPolicy(w) \/ ReadPrior(w),
             w \in Preparing' =>
                /\ plan'[w] # 0 /\ plan'[w] <= lastGen
                /\ stage'[w] = "enqueue" /\ ~reused'[w] /\ plan'[w] = optIn
                     => \A k \in Completed : Gen(k) = optIn
      PROVE  OnceInv'
  <2>1. Known' = Known
    BY <1>4 DEF ReadPolicy, ReadPrior, queueVars, Known
  <2> QED
    BY <1>3, <1>4, <2>1 DEF OnceInv, Preparing
<1>5. ASSUME NEW w \in Workers, ReadPolicy(w) PROVE OnceInv'
  <2>1. /\ stage'[w] = IF optIn = 0 THEN After("policies") ELSE "prior"
        /\ plan'[w] = optIn
    BY <1>5 DEF ReadPolicy, GoTo, WorkerInv, WorkerTypes
  <2>2. After("policies") \notin {"prior", "enqueue"}
    BY AfterType, VisitedAreStages DEF Visited
  <2>3. w \in Preparing' => plan'[w] # 0 /\ stage'[w] # "enqueue"
    BY <2>1, <2>2 DEF Preparing
  <2> QED
    BY <1>4, <1>5, <2>1, <2>3
<1>6. ASSUME NEW w \in Workers, ReadPrior(w) PROVE OnceInv'
  <2>1. w \in Preparing /\ plan'[w] = plan[w]
    BY <1>6 DEF ReadPrior, Preparing
  <2>2. ~reused'[w] => Completed = {}
    BY <1>6
    DEF ReadPrior, Completed, Daily, Succeeded, OfKind, WorkerInv, WorkerTypes
  <2>3. plan[w] # 0 /\ plan[w] <= lastGen
    BY <2>1 DEF OnceInv
  <2> QED
    BY <1>4, <1>6, <2>1, <2>2, <2>3
<1>7. ASSUME NEW w \in Workers, EnqueueInputs(w) PROVE OnceInv'
  <2>1. /\ w \in Preparing /\ stage[w] = "enqueue"
        /\ plan' = plan /\ plan[w] # 0 /\ plan[w] <= lastGen
    BY <1>7 DEF EnqueueInputs, Preparing, OnceInv
  <2>2. w \in Preparing' => ~(stage'[w] = "enqueue" /\ ~reused'[w])
    BY <1>7 DEF EnqueueInputs, GoTo, Preparing, WorkerInv, WorkerTypes
  <2>3. CASE Known' \intersect Daily \subseteq Known
    BY <1>3, <1>7, <2>1, <2>2, <2>3 DEF OnceInv, Preparing
  <2>4. CASE optIn = plan[w] /\ ~reused[w] /\ Enqueue(DailyOf(plan[w]))
    <3>1. \A k \in Completed : Gen(k) = optIn
      BY <2>1, <2>4 DEF OnceInv
    <3>2. Known' \subseteq Known \union DailyOf(plan[w])
      BY <2>4, EnqueueKeeps
    <3>3. \A j \in DailyOf(plan[w]) : Gen(j) = plan[w]
      BY DEF DailyOf, Gen
    <3>4. \A j \in Daily \intersect Known' : Gen(j) <= lastGen
      BY <2>1, <3>2, <3>3 DEF OnceInv
    <3> QED
      BY <1>3, <1>7, <2>1, <2>2, <3>1, <3>4 DEF OnceInv, Preparing
  <2>5. OfKind("action") \intersect Daily = {}
    BY DEF OfKind, Daily
  <2>6. Known' \intersect Daily \subseteq Known
        \/ (optIn = plan[w] /\ ~reused[w] /\ Enqueue(DailyOf(plan[w])))
    BY <1>7, <2>5, EnqueueKeeps, SameRows DEF EnqueueInputs, queueVars
  <2> QED
    BY <2>3, <2>4, <2>6
<1>8. ASSUME NEW w \in Workers, SettlePublished(w), Finishable(w)
      PROVE  OnceInv'
  <2> DEFINE j == job[w]
  <2>1. /\ work[w] # "none" /\ Attending(w) /\ j \in Jobs
        /\ row[j].status = "running"
        /\ Payload(j).kind \in {"verified", "action"} => Granted(j)
    BY <1>8
    DEF SettlePublished, Finishable, Holds, HoldsLease, Attending, WorkerInv,
        Attended
  <2>2. /\ Finish(j) /\ Leave(w, NextStage(w))
        /\ UNCHANGED <<deployment, optIn, lastGen, plan, reused>>
    BY <1>8 DEF SettlePublished, policyVars, prepareVars
  <2>3. Daily' = Daily /\ \A k : Gen(k)' = Gen(k)
    BY <2>2, SameDeployment
  <2>4. Succeeded' \subseteq Succeeded \union {j} /\ Known' \subseteq Known
    BY <2>1, <2>2, FinishKeeps
  <2>5. QuietPreparations
    BY <2>1, <2>2, LeaveIsQuiet, NextStageType, NextStageNotPreparing
  <2>6. j \in Daily => Gen(j) = optIn /\ \A k \in Completed : Gen(k) = optIn
    <3>1. j \in Daily => Gen(j) = optIn
      BY <2>1 DEF Daily, OfKind, Granted, Gen
    <3>2. j \in Known
      BY <2>1 DEF Known
    <3> QED
      BY <3>1, <3>2 DEF OnceInv
  <2> HIDE DEF j
  <2>7. \A k \in Completed' : k \in Completed \/ (k = j /\ j \in Daily)
    BY <2>3, <2>4 DEF Completed
  <2> QED
    BY <2>2, <2>3, <2>4, <2>5, <2>6, <2>7 DEF OnceInv, QuietPreparations
<1> QED
  BY <1>1, <1>2, <1>5, <1>6, <1>7, <1>8, StepsAreQuiet

\* A daily input is not completed under two generations of the opt-in, though
\* a worker read the earlier results, planned and executed while the opt-in
\* was being replaced (research_observation_data_preparation.py:407-468).
THEOREM WorkerInputCompletedOnce == Spec => []InputCompletedOnce
<1>1. Init => OnceInv
  BY DEF Init, QueueInit, Absent, OnceInv, Known, Succeeded, Completed, Preparing
<1>2. WorkerInv /\ OnceInv /\ [Next]_vars => OnceInv'
  BY OnceStep
<1>3. WorkerInv /\ OnceInv => InputCompletedOnce
  <2> SUFFICES ASSUME WorkerInv, OnceInv,
                      NEW j \in OfKind("verified") \intersect Observed,
                      NEW k \in OfKind("verified") \intersect Observed,
                      row[j].status = "succeeded", row[k].status = "succeeded"
               PROVE  j = k
    BY DEF InputCompletedOnce
  <2>1. j \in Completed /\ k \in Completed /\ j \in Jobs /\ k \in Jobs
    BY DEF Completed, Daily, Succeeded, OfKind
  <2>2. Payload(j).gen = Payload(k).gen /\ Payload(j).gen # 0
        /\ Payload(j).kind = "verified" /\ Payload(k).kind = "verified"
    BY <2>1 DEF OnceInv, Gen, OfKind, Observed
  <2>3. /\ Payload(j) \in [kind : Kinds, gen : 0..MaxGen]
        /\ Payload(k) \in [kind : Kinds, gen : 0..MaxGen]
    BY <2>1, DeploymentTypes DEF Payload, WorkerInv
  <2>4. Payload(k) = Payload(j)
    BY <2>2, <2>3
  <2>5. PlansOnce(deployment)
    BY WorkerAssumption DEF WorkerInv, WorkerTypes
  <2> QED
    BY <2>1, <2>2, <2>4, <2>5 DEF PlansOnce, Payload
<1> QED
  BY <1>1, <1>2, <1>3, WorkerInvariant, PTL DEF Spec
=============================================================================
