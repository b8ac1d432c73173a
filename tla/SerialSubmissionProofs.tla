----------------------- MODULE SerialSubmissionProofs -----------------------
(***************************************************************************)
(* What holds when submit handlers are not overtaken, because there is one *)
(* API process or every handler ends before its intent is recoverable:     *)
(* proofs for any number of orders, workers and ticks.                     *)
(***************************************************************************)
EXTENDS ControlledSubmissionProofs

-----------------------------------------------------------------------------
LEMMA SerialInit == Init => SerialPart
BY DEF Init, SerialPart, Exclusive, RejectedIsGone, KillUsesTheGrant, Gone,
   Submitting

\* The order a worker works on.
LEMMA Held ==
    ASSUME SubmissionInvariant, NEW w \in Workers, pc[w] # "idle"
    PROVE  ord[w] \in Orders
BY DEF SubmissionInvariant, TypeOK, HoldersKnown

\* Steps that only move their own worker keep what they do not decide: that
\* worker's hold on its intent and the truth of its result.
LEMMA QuietKeepsSerial ==
    ASSUME SubmissionInvariant, SerialPart, NEW w \in Workers, Quiet(w),
           UNCHANGED <<sincePrepared, killSwitch, killCalls>>,
           pc'[w] \in Submitting => pc[w] \in Submitting /\ ord'[w] = ord[w],
           pc'[w] \in Recovering =>
              \A v \in Workers : pc[v] \in Submitting => ord[v] # ord'[w],
           pc'[w] \in {"finalizing", "queried"} /\ res'[w] = "rejected"
              => Gone(ord'[w]),
           pc'[w] \in {"prepared", "checked"} => pc[w] \in {"prepared", "checked"}
    PROVE  SerialPart'
<1>1. Exclusive'
  BY DEF SerialPart, Exclusive, Quiet, Submitting, Recovering
<1>2. RejectedIsGone'
  BY DEF SerialPart, RejectedIsGone, Gone, Quiet
<1>3. KillUsesTheGrant'
  BY DEF SerialPart, KillUsesTheGrant, Quiet
<1> QED
  BY <1>1, <1>2, <1>3 DEF SerialPart

LEMMA PrepareSerial ==
    ASSUME SubmissionInvariant, SerialPart, NEW w \in Workers, Prepare(w)
    PROVE  SerialPart'
<1>0. PICK o \in Orders : o = ord[w]
  BY Held DEF Prepare
<1>1. /\ intent[o] = "none" /\ pc[w] = "reviewed"
      /\ intent' = [intent EXCEPT ![o] = "prepared"]
      /\ sincePrepared' = [sincePrepared EXCEPT ![o] = 0]
      /\ pc' = [pc EXCEPT ![w] = "prepared"]
      /\ ~killSwitch
      /\ UNCHANGED <<ord, res, broker, wire, killSwitch, killCalls>>
  BY <1>0 DEF Prepare, MayPrepare, Goto, killVars, brokerVars, historyVars
<1>2. \A v \in Workers : pc[v] \in Submitting \cup Recovering => ord[v] # o
  BY <1>1 DEF SubmissionInvariant, HoldersKnown
<1>3. 0 < MinWait
  BY MinWaitAssumption
<1>4. Exclusive'
  BY <1>0, <1>1, <1>2, <1>3 DEF SubmissionInvariant, TypeOK, SerialPart,
     Exclusive, Submitting, Recovering
<1>5. RejectedIsGone'
  BY <1>1 DEF SubmissionInvariant, TypeOK, SerialPart, RejectedIsGone, Gone
<1>6. KillUsesTheGrant'
  BY <1>1 DEF SubmissionInvariant, TypeOK, SerialPart, KillUsesTheGrant
<1> QED
  BY <1>4, <1>5, <1>6 DEF SerialPart

\* Its intent is still prepared, so no rejection is recorded or under way.
LEMMA CallSerial ==
    ASSUME SubmissionInvariant, SerialPart, NEW w \in Workers, Call(w)
    PROVE  SerialPart'
<1>0. PICK o \in Orders : o = ord[w]
  BY Held DEF Call
<1>1. /\ pc[w] = "checked" /\ pc' = [pc EXCEPT ![w] = "calling"]
      /\ wire' = wire \cup {o}
      /\ UNCHANGED <<intent, sincePrepared, ord, res, broker, killSwitch>>
  BY <1>0 DEF Call, Goto, dbVars, killVars, timeVars
<1>2. /\ intent[o] = "prepared"
      /\ \A v \in Workers \ {w} :
            pc[v] \in Submitting \cup Recovering => ord[v] # o
  BY <1>0, <1>1 DEF SerialPart, Exclusive, SubmissionInvariant, OneGrant,
     Submitting
<1>3. Exclusive'
  BY <1>1 DEF SubmissionInvariant, TypeOK, SerialPart, Exclusive, Submitting,
     Recovering
<1>4. RejectedIsGone'
  <2>1. \A p \in Orders : intent[p] = "rejected" => p # o
    BY <1>2
  <2>2. \A v \in Workers : pc'[v] \in {"finalizing", "queried"}
           => pc[v] = pc'[v] /\ ord[v] # o
    BY <1>1, <1>2 DEF SubmissionInvariant, TypeOK, Submitting, Recovering
  <2> QED
    BY <1>1, <2>1, <2>2 DEF SerialPart, RejectedIsGone, Gone
<1>5. \A v \in Workers \ {w} : pc[v] \notin {"prepared", "checked"}
  <2> SUFFICES ASSUME NEW v \in Workers \ {w}, pc[v] \in {"prepared", "checked"}
               PROVE  FALSE
    OBVIOUS
  <2>1. ord[v] \in Orders /\ intent[ord[v]] = "prepared"
    BY Held DEF SerialPart, Exclusive, Submitting
  <2>2. Unresolved(ord[v]) /\ Unresolved(o)
    BY <1>2, <2>1 DEF Unresolved, SubmissionInvariant, OnlySubmittedIsCleared
  <2>3. ord[v] = o
    BY <2>1, <2>2 DEF SubmissionInvariant, OneUnsettledSubmission
  <2> QED
    BY <1>2, <2>3 DEF Submitting
<1>6. KillUsesTheGrant'
  <2>1. \A v \in Workers : pc'[v] \notin {"prepared", "checked"}
    BY <1>1, <1>5 DEF SubmissionInvariant, TypeOK
  <2>2. killCalls # 1
    BY <1>1 DEF SerialPart, KillUsesTheGrant
  <2>3. killCalls = 0
    BY <2>2 DEF SerialPart, KillUsesTheGrant, SubmissionInvariant, TypeOK
  <2>4. killCalls' \in {0, 1} /\ (killCalls' = 1 => killSwitch)
    BY <2>3 DEF Call
  <2> QED
    BY <1>1, <2>1, <2>4 DEF KillUsesTheGrant
<1> QED
  BY <1>3, <1>4, <1>6 DEF SerialPart

\* A submit handler finalizes an intent nobody else works on; a recovery one
\* that no submit handler works on.
LEMMA PersistSerial ==
    ASSUME SubmissionInvariant, SerialPart, NEW w \in Workers, NEW age,
           pc[w] \in {"finalizing", "queried"},
           Persist(ord[w], res[w], age), End(w),
           UNCHANGED <<sincePrepared, broker, wire, killSwitch, killCalls>>
    PROVE  SerialPart'
<1>0. PICK o \in Orders, r \in Results : o = ord[w] /\ r = res[w]
  BY Held DEF SubmissionInvariant, HoldersKnown, TypeOK
<1>1. /\ pc' = [pc EXCEPT ![w] = "idle"]
      /\ ord' = [ord EXCEPT ![w] = NoOrder]
      /\ res' = [res EXCEPT ![w] = "none"]
      /\ intent' = intent \/ intent' = [intent EXCEPT ![o] = r]
  BY <1>0 DEF End, Goto, Persist
<1>2. \A v \in Workers \ {w} : pc[v] \in Submitting => ord[v] # o
  BY <1>0 DEF SerialPart, Exclusive, SubmissionInvariant, OneGrant,
     Submitting, Recovering
<1>3. Exclusive'
  <2>1. \A v \in Workers : pc'[v] # "idle"
           => v # w /\ pc'[v] = pc[v] /\ ord'[v] = ord[v]
    BY <1>1 DEF SubmissionInvariant, TypeOK
  <2>2. \A p \in Orders : p # o => intent'[p] = intent[p]
    BY <1>1 DEF SubmissionInvariant, TypeOK
  <2> QED
    BY <1>2, <2>1, <2>2, Held DEF SerialPart, Exclusive, Submitting, Recovering
<1>4. RejectedIsGone'
  <2>1. r = "rejected" => Gone(o)
    BY <1>0 DEF SerialPart, RejectedIsGone
  <2>2. \A p \in Orders : intent'[p] = "rejected" => Gone(p)
    BY <1>1, <2>1 DEF SubmissionInvariant, TypeOK, SerialPart, RejectedIsGone
  <2>3. \A v \in Workers : pc'[v] \in {"finalizing", "queried"}
           => pc[v] = pc'[v] /\ ord'[v] = ord[v] /\ res'[v] = res[v]
    BY <1>1 DEF SubmissionInvariant, TypeOK
  <2> QED
    BY <2>2, <2>3 DEF SerialPart, RejectedIsGone, Gone
<1>5. KillUsesTheGrant'
  BY <1>1 DEF SubmissionInvariant, TypeOK, SerialPart, KillUsesTheGrant
<1> QED
  BY <1>3, <1>4, <1>5 DEF SerialPart

LEMMA SubmitSerial ==
    ASSUME SubmissionInvariant, SerialPart, NEW w \in Workers, SubmitStep(w)
    PROVE  SerialPart'
<1> USE DEF dbVars, settleVars, killVars, timeVars, brokerVars, historyVars
<1>1. ASSUME NEW o \in Orders, Review(w, o) PROVE SerialPart'
  <2>1. Quiet(w)
    BY <1>1, ReviewStep, Parts
  <2>2. pc'[w] = "reviewed"
    BY <1>1 DEF Review, Begin, Goto, SubmissionInvariant, TypeOK
  <2>3. UNCHANGED <<sincePrepared, killSwitch, killCalls>>
    BY <1>1 DEF Review
  <2> QED
    BY <2>1, <2>2, <2>3, QuietKeepsSerial DEF Submitting, Recovering
<1>2. CASE PrepareRefused(w)
  <2>1. Quiet(w) /\ pc'[w] = "idle"
    BY <1>2 DEF PrepareRefused, Quiet, End, Goto, SubmissionInvariant, TypeOK
  <2>2. UNCHANGED <<sincePrepared, killSwitch, killCalls>>
    BY <1>2 DEF PrepareRefused
  <2> QED
    BY <2>1, <2>2, QuietKeepsSerial DEF Submitting, Recovering
<1>3. CASE PreCallCheck(w)
  <2>1. Quiet(w) /\ pc[w] = "prepared" /\ ord'[w] = ord[w]
    BY <1>3 DEF PreCallCheck, Quiet, Hold, Goto, SubmissionInvariant, TypeOK
  <2>2. \/ pc'[w] = "checked"
        \/ pc'[w] = "finalizing"
    BY <1>3 DEF PreCallCheck, Hold, Goto, SubmissionInvariant, TypeOK
  <2>3. UNCHANGED <<sincePrepared, killSwitch, killCalls>>
    BY <1>3 DEF PreCallCheck
  <2>4. Gone(ord[w])
    BY <2>1, Held DEF Gone, SubmissionInvariant, CallsGranted,
       BrokerFollowsCalls
  <2> QED
    BY <2>1, <2>2, <2>3, <2>4, QuietKeepsSerial DEF Submitting, Recovering
<1>4. CASE GatewayMissing(w)
  <2>1. /\ Quiet(w) /\ pc[w] = "checked" /\ pc'[w] = "finalizing"
        /\ ord'[w] = ord[w] /\ res'[w] # "rejected"
    BY <1>4 DEF GatewayMissing, Quiet, Hold, Goto, SubmissionInvariant, TypeOK
  <2>2. UNCHANGED <<sincePrepared, killSwitch, killCalls>>
    BY <1>4 DEF GatewayMissing
  <2> QED
    BY <2>1, <2>2, QuietKeepsSerial DEF Submitting, Recovering
<1>5. ASSUME NEW r \in Results, Reply(w, r) PROVE SerialPart'
  <2>1. /\ Quiet(w) /\ pc[w] = "calling" /\ pc'[w] = "finalizing"
        /\ ord'[w] = ord[w] /\ res'[w] = r
    BY <1>5 DEF Reply, Quiet, Hold, Goto, SubmissionInvariant, TypeOK
  <2>2. UNCHANGED <<sincePrepared, killSwitch, killCalls>>
    BY <1>5 DEF Reply
  <2>3. r = "rejected" => broker[ord[w]] = "refused"
    BY <1>5 DEF Reply, Answer
  <2>4. r = "rejected" => Gone(ord[w])
    BY <2>1, <2>3, Held DEF Gone, SubmissionInvariant, BrokerFollowsCalls
  <2> QED
    BY <2>1, <2>2, <2>4, QuietKeepsSerial DEF Submitting, Recovering
<1>6. CASE Finalize(w)
  BY <1>6, PersistSerial DEF Finalize
<1> QED
  BY <1>1, <1>2, <1>3, <1>4, <1>5, <1>6, PrepareSerial, CallSerial
     DEF SubmitStep

\* A claim needs an idle process, and an intent old enough for every prompt
\* submit handler to have ended.
LEMMA RecoverSerial ==
    ASSUME SubmissionInvariant, Serialized, SerialPart, NEW w \in Workers,
           RecoverStep(w)
    PROVE  SerialPart'
<1> USE DEF dbVars, settleVars, killVars, timeVars, brokerVars, historyVars
<1>1. ASSUME NEW o \in Orders, Claim(w, o) PROVE SerialPart'
  <2>1. Quiet(w)
    BY <1>1, ClaimStep, Parts
  <2>2. pc'[w] = "claimed" /\ ord'[w] = o
    BY <1>1 DEF Claim, Begin, Goto, SubmissionInvariant, TypeOK
  <2>3. UNCHANGED <<sincePrepared, killSwitch, killCalls>>
    BY <1>1 DEF Claim
  <2>4. sincePrepared[o] = MinWait
    BY <1>1, MinWaitAssumption DEF Claim, Waited, SubmissionInvariant, TypeOK
  <2>5. ~(MinWait < MinWait)
    BY MinWaitAssumption
  <2>6. \A v \in Workers : pc[v] \in Submitting => ord[v] # o
    <3>1. CASE PromptHandlers
      BY <2>4, <2>5, <3>1 DEF SerialPart, Exclusive
    <3>2. CASE OneProcess
      BY <1>1, <3>2 DEF OneProcess, Claim, Begin, Submitting
    <3> QED
      BY <3>1, <3>2 DEF Serialized
  <2> QED
    BY <2>1, <2>2, <2>3, <2>6, QuietKeepsSerial DEF Submitting
<1>2. ASSUME NEW r \in Results, Query(w, r) PROVE SerialPart'
  <2>1. /\ Quiet(w) /\ pc[w] = "claimed" /\ pc'[w] = "queried"
        /\ ord'[w] = ord[w] /\ res'[w] = r
    BY <1>2 DEF Query, Quiet, Hold, Goto, SubmissionInvariant, TypeOK
  <2>2. UNCHANGED <<sincePrepared, killSwitch, killCalls>>
    BY <1>2 DEF Query
  <2>3. r = "rejected" => \/ broker[ord[w]] = "refused"
                          \/ broker[ord[w]] = "unseen" /\ ord[w] \notin wire
    BY <1>2 DEF Query, Answer
  <2>4. r = "rejected" => Gone(ord[w])
    BY <2>1, <2>3, Held DEF Gone, SubmissionInvariant, BrokerFollowsCalls
  <2>5. \A v \in Workers : pc[v] \in Submitting => ord[v] # ord[w]
    BY <2>1 DEF SerialPart, Exclusive, Recovering
  <2> QED
    BY <2>1, <2>2, <2>4, <2>5, QuietKeepsSerial DEF Submitting
<1>3. CASE FinalizeRecovered(w)
  BY <1>3, PersistSerial DEF FinalizeRecovered
<1> QED
  BY <1>1, <1>2, <1>3 DEF RecoverStep

\* The other writers never write a rejection, the broker accepts only what is
\* on its way, and the clock waits for the submit handlers.
LEMMA EnvironmentSerial ==
    ASSUME SubmissionInvariant, SerialPart,
           OtherWriters \/ Broker \/ Tick
    PROVE  SerialPart'
<1> USE DEF dbVars, settleVars, killVars, timeVars, brokerVars, workerVars, historyVars
<1>1. ASSUME NEW o \in Orders,
             \/ \E w \in Workers : CreateManualTicket(w, o)
             \/ \E t \in LifecycleOutcomes : RecordObservation(o, t)
             \/ \E t \in TerminalOutcomes : ClearSubmission(o, t)
      PROVE  SerialPart'
  <2>1. UNCHANGED <<intent, sincePrepared, broker, wire, pc, ord, res,
                    killSwitch, killCalls>>
    BY <1>1 DEF CreateManualTicket, RecordObservation, ClearSubmission
  <2> QED
    BY <2>1 DEF SerialPart, Exclusive, RejectedIsGone, KillUsesTheGrant, Gone
<1>2. CASE \E w \in Workers, e \in BOOLEAN : SetKillSwitch(w, e)
  <2>1. UNCHANGED <<intent, sincePrepared, broker, wire, pc, ord, res>>
    BY <1>2 DEF SetKillSwitch
  <2>2. killCalls' = 0 \/ UNCHANGED <<killSwitch, killCalls>>
    BY <1>2 DEF SetKillSwitch
  <2>3. KillUsesTheGrant'
    BY <2>1, <2>2 DEF SerialPart, KillUsesTheGrant
  <2> QED
    BY <2>1, <2>3 DEF SerialPart, Exclusive, RejectedIsGone, Gone
<1>3. ASSUME NEW o \in Orders,
             Lose(o) \/ \E v \in {"accepted", "refused"} : Deliver(o, v)
      PROVE  SerialPart'
  <2>1. /\ o \in wire /\ wire' = wire \ {o}
        /\ UNCHANGED <<intent, sincePrepared, pc, ord, res, killSwitch, killCalls>>
    BY <1>3 DEF Lose, Deliver
  <2>2. \A p \in Orders : Gone(p) => Gone(p)'
    BY <1>3, <2>1 DEF Lose, Deliver, Gone, SubmissionInvariant, TypeOK
  <2>3. RejectedIsGone'
    BY <2>1, <2>2, Held DEF SerialPart, RejectedIsGone
  <2>4. Exclusive' /\ KillUsesTheGrant'
    BY <2>1 DEF SerialPart, Exclusive, KillUsesTheGrant
  <2> QED
    BY <2>3, <2>4 DEF SerialPart
<1>4. CASE Tick
  <2>1. /\ UNCHANGED <<intent, broker, wire, pc, ord, res, killSwitch, killCalls>>
        /\ PromptHandlers =>
              \A w \in Workers :
                 pc[w] \in Submitting => sincePrepared[ord[w]] + 1 < MinWait
    BY <1>4 DEF Tick
  <2>2. ASSUME PromptHandlers, NEW w \in Workers, pc[w] \in Submitting
        PROVE  sincePrepared'[ord[w]] < MinWait
    <3>1. ord[w] \in Orders
      BY <2>2, Held DEF Submitting
    <3>2. sincePrepared[ord[w]] \in 0..MinWait
      BY <3>1 DEF SubmissionInvariant, TypeOK
    <3>3. sincePrepared'[ord[w]]
             \in {sincePrepared[ord[w]], sincePrepared[ord[w]] + 1}
      BY <1>4, <3>1 DEF Tick, Older
    <3> QED
      BY <2>1, <2>2, <3>2, <3>3, MinWaitAssumption
  <2> QED
    BY <2>1, <2>2 DEF SerialPart, Exclusive, RejectedIsGone, KillUsesTheGrant,
       Gone
<1> QED
  BY <1>1, <1>2, <1>3, <1>4 DEF OtherWriters, Broker

-----------------------------------------------------------------------------
(***************************************************************************)
(* The stamps of the recovery queries.                                     *)
(***************************************************************************)
LEMMA StampsInit == Init => QueriesStamped
<1> SUFFICES ASSUME Init PROVE QueriesStamped
  OBVIOUS
<1>1. MinWait <= MinWait
  BY MinWaitAssumption
<1> QED
  BY <1>1 DEF Init, QueriesStamped, Submitting

\* Steps that leave the stamps alone, create no row and start no handler.
LEMMA QuietKeepsStamps ==
    ASSUME QueriesStamped,
           UNCHANGED <<sinceQuery, sinceAdmitted>>,
           \A o \in Orders : intent'[o] = "none" => intent[o] = "none",
           \A w \in Workers :
              pc'[w] \in Submitting => pc[w] \in Submitting /\ ord'[w] = ord[w]
    PROVE  QueriesStamped'
BY DEF QueriesStamped

LEMMA PrepareStamps ==
    ASSUME SubmissionInvariant, QueriesStamped, NEW w \in Workers, Prepare(w)
    PROVE  QueriesStamped'
<1>0. PICK o \in Orders : o = ord[w]
  BY Held DEF Prepare
<1>1. /\ intent[o] = "none" /\ intent' = [intent EXCEPT ![o] = "prepared"]
      /\ sinceQuery' = [sinceQuery EXCEPT ![o] = MinWait]
      /\ pc' = [pc EXCEPT ![w] = "prepared"]
      /\ UNCHANGED <<ord, sinceAdmitted>>
  BY <1>0 DEF Prepare, MayPrepare, Goto, historyVars
<1>2. sinceAdmitted[o] = MinWait /\ MinWait <= MinWait
  BY <1>1, MinWaitAssumption DEF QueriesStamped
<1> QED
  BY <1>0, <1>1, <1>2 DEF QueriesStamped, SubmissionInvariant, TypeOK, Submitting

\* A submit handler reports before its intent was ever queried.
LEMMA FinalizeStamps ==
    ASSUME SubmissionInvariant, QueriesStamped, NEW w \in Workers, Finalize(w)
    PROVE  QueriesStamped'
<1>0. PICK o \in Orders : o = ord[w]
  BY Held DEF Finalize
<1>1. /\ pc[w] = "finalizing" /\ pc' = [pc EXCEPT ![w] = "idle"]
      /\ ord' = [ord EXCEPT ![w] = NoOrder] /\ sinceAdmitted' = sinceAdmitted
      /\ Persist(o, res[w], MinWait)
  BY <1>0 DEF Finalize, End, Goto, historyVars
<1>2. /\ sinceAdmitted[o] = MinWait /\ MinWait <= MinWait
      /\ intent[o] # "none" /\ res[w] # "none"
  BY <1>0, <1>1, MinWaitAssumption DEF QueriesStamped, Submitting,
     SubmissionInvariant, HoldersKnown
<1>3. \A p \in Orders :
         /\ sinceQuery'[p] <= sinceAdmitted'[p]
         /\ intent'[p] = "none" => intent[p] = "none"
  BY <1>1, <1>2 DEF Persist, QueriesStamped, SubmissionInvariant, TypeOK
<1>4. \A v \in Workers :
         pc'[v] \in Submitting => pc[v] \in Submitting /\ ord'[v] = ord[v]
  BY <1>1 DEF Submitting, SubmissionInvariant, TypeOK
<1> QED
  BY <1>1, <1>3, <1>4 DEF QueriesStamped

\* A claim finds no submit handler of its order, and keeps its own stamp.
LEMMA ClaimStamps ==
    ASSUME Serialized, SubmissionInvariant, SerialPart, QueriesStamped,
           NEW w \in Workers, NEW o \in Orders, Claim(w, o)
    PROVE  QueriesStamped'
<1>1. /\ pc[w] = "idle" /\ pc' = [pc EXCEPT ![w] = "claimed"]
      /\ ord' = [ord EXCEPT ![w] = o]
      /\ intent[o] # "none" /\ intent' = intent
      /\ sinceQuery' = [sinceQuery EXCEPT ![o] = 0]
      /\ sinceAdmitted' = [sinceAdmitted EXCEPT ![o] = 0]
      /\ sincePrepared[o] >= MinWait
  BY DEF Claim, Begin, Goto, Waited, dbVars
<1>2. \A v \in Workers : pc[v] \in Submitting => ord[v] # o
  <2> SUFFICES ASSUME NEW v \in Workers, pc[v] \in Submitting, ord[v] = o
               PROVE  FALSE
    OBVIOUS
  <2>1. ~OneProcess
    BY <1>1 DEF OneProcess, Submitting
  <2>2. sincePrepared[o] < MinWait
    BY <2>1 DEF Serialized, SerialPart, Exclusive
  <2> QED
    BY <1>1, <2>2, MinWaitAssumption DEF SubmissionInvariant, TypeOK
<1>3. 0 <= 0
  OBVIOUS
<1>4. \A p \in Orders :
         /\ sinceQuery'[p] <= sinceAdmitted'[p]
         /\ intent'[p] = "none" => sinceAdmitted'[p] = MinWait
  BY <1>1, <1>3 DEF QueriesStamped, SubmissionInvariant, TypeOK
<1>5. \A v \in Workers : pc'[v] \in Submitting =>
         /\ pc[v] \in Submitting /\ ord'[v] = ord[v] /\ ord[v] # o
         /\ ord[v] \in Orders
  BY <1>1, <1>2, Held DEF Submitting, SubmissionInvariant, TypeOK
<1>6. \A v \in Workers :
         pc'[v] \in Submitting => sinceAdmitted'[ord'[v]] = MinWait
  BY <1>1, <1>5 DEF QueriesStamped, SubmissionInvariant, TypeOK
<1> QED
  BY <1>4, <1>6 DEF QueriesStamped

LEMMA FinalizeRecoveredStamps ==
    ASSUME SubmissionInvariant, QueriesStamped, NEW w \in Workers,
           FinalizeRecovered(w)
    PROVE  QueriesStamped'
<1>0. PICK o \in Orders : o = ord[w]
  BY Held DEF FinalizeRecovered
<1>1. /\ pc[w] = "queried" /\ pc' = [pc EXCEPT ![w] = "idle"]
      /\ ord' = [ord EXCEPT ![w] = NoOrder] /\ sinceAdmitted' = sinceAdmitted
      /\ Persist(o, res[w], 0)
  BY <1>0 DEF FinalizeRecovered, End, Goto, historyVars
<1>2. intent[o] # "none" /\ res[w] # "none" /\ 0 <= sinceAdmitted[o]
  BY <1>0, <1>1 DEF Recovering, SubmissionInvariant, HoldersKnown, TypeOK
<1>3. \A p \in Orders :
         /\ sinceQuery'[p] <= sinceAdmitted'[p]
         /\ intent'[p] = "none" => intent[p] = "none"
  BY <1>1, <1>2 DEF Persist, QueriesStamped, SubmissionInvariant, TypeOK
<1>4. \A v \in Workers :
         pc'[v] \in Submitting => pc[v] \in Submitting /\ ord'[v] = ord[v]
  BY <1>1 DEF Submitting, SubmissionInvariant, TypeOK
<1> QED
  BY <1>1, <1>3, <1>4 DEF QueriesStamped

LEMMA TickStamps ==
    ASSUME SubmissionInvariant, QueriesStamped, Tick
    PROVE  QueriesStamped'
<1>1. /\ sinceQuery' = Older(sinceQuery) /\ sinceAdmitted' = Older(sinceAdmitted)
      /\ UNCHANGED <<intent, pc, ord>>
  BY DEF Tick, dbVars, workerVars
<1>2. ASSUME NEW o \in Orders
      PROVE  /\ sinceQuery'[o] <= sinceAdmitted'[o]
             /\ sinceAdmitted[o] = MinWait => sinceAdmitted'[o] = MinWait
  <2>1. /\ sinceQuery[o] \in Nat /\ sinceAdmitted[o] \in Nat
        /\ sinceAdmitted[o] <= MinWait /\ sinceQuery[o] <= sinceAdmitted[o]
    BY MinWaitAssumption DEF SubmissionInvariant, TypeOK, QueriesStamped
  <2> QED
    BY <1>1, <2>1, MinWaitAssumption DEF Older
<1>3. \A w \in Workers : pc[w] \in Submitting => ord[w] \in Orders
  BY Held DEF Submitting
<1> QED
  BY <1>1, <1>2, <1>3 DEF QueriesStamped

\* All other steps move handlers along or end them, at most.
LEMMA OtherStamps ==
    ASSUME SubmissionInvariant, QueriesStamped,
           \/ \E w \in Workers :
                 \/ \E o \in Orders : Review(w, o)
                 \/ PrepareRefused(w) \/ PreCallCheck(w) \/ Call(w)
                 \/ GatewayMissing(w) \/ Abandon(w) \/ Restart(w)
                 \/ \E r \in Results : Reply(w, r) \/ Query(w, r)
           \/ OtherWriters \/ Broker \/ UNCHANGED vars
    PROVE  QueriesStamped'
<1> USE DEF vars, dbVars, settleVars, killVars, timeVars, brokerVars,
            workerVars, historyVars
<1>1. ASSUME NEW w \in Workers,
             \/ \E o \in Orders : Review(w, o)
             \/ PrepareRefused(w) \/ PreCallCheck(w) \/ Call(w)
             \/ GatewayMissing(w) \/ Abandon(w) \/ Restart(w)
             \/ \E r \in Results : Reply(w, r) \/ Query(w, r)
      PROVE  QueriesStamped'
  <2>1. UNCHANGED <<intent, sinceQuery, sinceAdmitted>>
    BY <1>1 DEF Review, PrepareRefused, PreCallCheck, Call, GatewayMissing,
       Abandon, Restart, Reply, Query
  <2>2. /\ pc'[w] \in Submitting => pc[w] \in Submitting /\ ord'[w] = ord[w]
        /\ \A v \in Workers \ {w} : pc'[v] = pc[v] /\ ord'[v] = ord[v]
    BY <1>1 DEF Review, PrepareRefused, PreCallCheck, Call, GatewayMissing,
       Abandon, Restart, Reply, Query, Begin, End, Hold, Goto, Submitting,
       SubmissionInvariant, TypeOK
  <2> QED
    BY <2>1, <2>2, QuietKeepsStamps
<1>2. CASE OtherWriters \/ Broker \/ UNCHANGED vars
  <2>1. UNCHANGED <<intent, sinceQuery, sinceAdmitted, pc, ord>>
    BY <1>2 DEF OtherWriters, Broker, CreateManualTicket, RecordObservation,
       ClearSubmission, SetKillSwitch, Deliver, Lose
  <2> QED
    BY <2>1, QuietKeepsStamps
<1> QED
  BY <1>1, <1>2

LEMMA StampsStep ==
    ASSUME Serialized, SubmissionInvariant, SerialPart, QueriesStamped,
           [Next]_vars
    PROVE  QueriesStamped'
BY PrepareStamps, FinalizeStamps, ClaimStamps, FinalizeRecoveredStamps,
   TickStamps, OtherStamps DEF Next, SubmitStep, RecoverStep

LEMMA SerialStep ==
    ASSUME SerialInvariant, [Next]_vars
    PROVE  SerialInvariant'
<1>1. SubmissionInvariant'
  BY InvariantStep DEF SerialInvariant
<1>2. ASSUME Serialized PROVE SerialPart'
  <2>1. SubmissionInvariant /\ SerialPart /\ QueriesStamped
    BY <1>2 DEF SerialInvariant
  <2>2. ASSUME NEW w \in Workers, Abandon(w) \/ Restart(w) PROVE SerialPart'
    <3>1. Quiet(w) /\ pc'[w] = "idle"
      BY <2>1, <2>2 DEF Abandon, Restart, Quiet, End, Goto,
         SubmissionInvariant, TypeOK, dbVars, settleVars, brokerVars, historyVars
    <3>2. UNCHANGED <<sincePrepared, killSwitch, killCalls>>
      BY <2>2 DEF Abandon, Restart, killVars, timeVars, historyVars
    <3> QED
      BY <2>1, <3>1, <3>2, QuietKeepsSerial DEF Submitting, Recovering
  <2>3. ASSUME UNCHANGED vars PROVE SerialPart'
    <3>1. UNCHANGED <<intent, sincePrepared, broker, wire, pc, ord, res,
                      killSwitch, killCalls>>
      BY <2>3 DEF vars, dbVars, killVars, timeVars, brokerVars, workerVars,
         historyVars
    <3> QED
      BY <2>1, <3>1 DEF SerialPart, Exclusive, RejectedIsGone,
         KillUsesTheGrant, Gone
  <2>4. ASSUME NEW w \in Workers, SubmitStep(w) PROVE SerialPart'
    BY <2>1, <2>4, SubmitSerial
  <2>5. ASSUME NEW w \in Workers, RecoverStep(w) PROVE SerialPart'
    BY <1>2, <2>1, <2>5, RecoverSerial
  <2>6. ASSUME OtherWriters \/ Broker \/ Tick PROVE SerialPart'
    BY <2>1, <2>6, EnvironmentSerial
  <2> QED
    BY <2>2, <2>3, <2>4, <2>5, <2>6 DEF Next
<1>3. ASSUME Serialized PROVE QueriesStamped'
  BY <1>3, StampsStep DEF SerialInvariant
<1> QED
  BY <1>1, <1>2, <1>3 DEF SerialInvariant

-----------------------------------------------------------------------------
\* Serialized, a submission is never closed under its handler.
THEOREM SerialInvariance == Spec => []SerialInvariant
<1>1. Init => SerialInvariant
  BY InvariantInit, SerialInit, StampsInit DEF SerialInvariant
<1> QED
  BY <1>1, SerialStep, PTL DEF Spec

\* An order that is live at the broker keeps every other order blocked until
\* it is cleared.
THEOREM LiveOrdersBlock ==
    ASSUME Serialized
    PROVE  Spec => []LiveOrderBlocksOthers
<1>1. ASSUME SerialInvariant, NEW o \in Orders,
             broker[o] = "accepted", clearance[o] = "none"
      PROVE  Unresolved(o)
  <2>1. intent[o] # "rejected"
    BY <1>1 DEF SerialInvariant, SerialPart, RejectedIsGone, Gone
  <2>2. intent[o] # "none"
    BY <1>1 DEF SerialInvariant, SubmissionInvariant, CallsGranted,
       BrokerFollowsCalls
  <2> QED
    BY <1>1, <2>1, <2>2 DEF Unresolved, SerialInvariant, SubmissionInvariant,
       TypeOK, IntentStatuses
<1>2. SerialInvariant => LiveOrderBlocksOthers
  BY <1>1 DEF LiveOrderBlocksOthers
<1> QED
  BY <1>2, SerialInvariance, PTL

\* After the kill switch is set at most one more submit call leaves.
THEOREM KillSwitch ==
    ASSUME Serialized
    PROVE  Spec => []KillSwitchExposure
<1>1. SerialInvariant => KillSwitchExposure
  BY DEF SerialInvariant, SerialPart, KillUsesTheGrant, KillSwitchExposure
<1> QED
  BY <1>1, SerialInvariance, PTL

\* A worker comes to hold a claim through Claim alone.
LEMMA ClaimsClaim ==
    ASSUME SubmissionInvariant, [Next]_vars, NEW w \in Workers,
           pc[w] = "idle", pc'[w] = "claimed"
    PROVE  \E o \in Orders : Claim(w, o)
<1> SUFFICES ASSUME \A o \in Orders : ~Claim(w, o) PROVE FALSE
  OBVIOUS
<1>1. PICK v \in Workers :
         SubmitStep(v) \/ RecoverStep(v) \/ Abandon(v) \/ Restart(v)
  BY DEF Next, OtherWriters, Broker, Tick, CreateManualTicket,
     RecordObservation, ClearSubmission, SetKillSwitch, Deliver, Lose, vars,
     workerVars
<1>2. CASE SubmitStep(v)
  BY <1>2 DEF SubmitStep, Review, Prepare, PrepareRefused, PreCallCheck, Call,
     GatewayMissing, Reply, Finalize, Begin, End, Hold, Goto,
     SubmissionInvariant, TypeOK
<1>3. ASSUME NEW o \in Orders, Claim(v, o) PROVE FALSE
  <2>1. v # w
    BY <1>3
  <2>2. pc'[w] = pc[w]
    BY <1>3, <2>1 DEF Claim, Begin, Goto, SubmissionInvariant, TypeOK
  <2> QED
    BY <2>2
<1>4. CASE \/ \E r \in Results : Query(v, r)
           \/ FinalizeRecovered(v) \/ Abandon(v) \/ Restart(v)
  BY <1>4 DEF Query, FinalizeRecovered, Abandon, Restart, End, Hold, Goto,
     SubmissionInvariant, TypeOK
<1> QED
  BY <1>1, <1>2, <1>3, <1>4 DEF RecoverStep

\* Two admitted recovery queries of one order are at least MinWait apart.
THEOREM SpacedQueries ==
    ASSUME Serialized
    PROVE  Spec => QueriesSpaced
<1> DEFINE Spaced ==
      \A w \in Workers :
          pc[w] = "idle" /\ pc'[w] = "claimed"
              => sinceAdmitted[ord'[w]] = MinWait
<1>1. ASSUME SerialInvariant, [Next]_vars, NEW w \in Workers,
             pc[w] = "idle", pc'[w] = "claimed"
      PROVE  sinceAdmitted[ord'[w]] = MinWait
  <2>1. PICK o \in Orders : Claim(w, o)
    BY <1>1, ClaimsClaim DEF SerialInvariant
  <2>2. /\ ord \in [Workers -> Orders \cup {NoOrder}]
        /\ sinceQuery[o] \in 0..MinWait /\ sinceAdmitted[o] \in 0..MinWait
    BY <1>1 DEF SerialInvariant, SubmissionInvariant, TypeOK
  <2>3. ord'[w] = o /\ sinceQuery[o] >= MinWait
    BY <2>1, <2>2 DEF Claim, Begin, Waited
  <2>4. sinceQuery[o] <= sinceAdmitted[o]
    BY <1>1 DEF SerialInvariant, QueriesStamped
  <2> QED
    BY <2>2, <2>3, <2>4, MinWaitAssumption
<1>2. SerialInvariant /\ [Next]_vars => [Spaced]_vars
  BY <1>1
<1>3. Spec => [][Spaced]_vars
  BY <1>2, SerialInvariance, PTL DEF Spec
<1> QED
  BY <1>3, PTL DEF QueriesSpaced

-----------------------------------------------------------------------------
(***************************************************************************)
(* The strict authority: as in ControlledSubmissionProofs, except that a   *)
(* call always finds its submission pending.                               *)
(***************************************************************************)
LEMMA SameAuthority ==
    /\ Authority!Init <=> StrictAuthority!Init
    /\ Authority!vars = StrictAuthority!vars
    /\ \A o \in Orders :
          /\ Authority!Ticket(o) <=> StrictAuthority!Ticket(o)
          /\ Authority!Spend(o) <=> StrictAuthority!Spend(o)
          /\ Authority!Confirm(o) <=> StrictAuthority!Confirm(o)
          /\ Authority!Close(o) <=> StrictAuthority!Close(o)
          /\ Authority!Settle(o) <=> StrictAuthority!Settle(o)
<1> USE DEF Authority!Become, StrictAuthority!Become
<1>1. /\ Authority!Init <=> StrictAuthority!Init
      /\ Authority!vars = StrictAuthority!vars
  BY DEF Authority!Init, StrictAuthority!Init, Authority!vars,
     StrictAuthority!vars
<1>2. ASSUME NEW o \in Orders
      PROVE  Authority!Spend(o) <=> StrictAuthority!Spend(o)
  BY DEF Authority!Spend, StrictAuthority!Spend, Authority!Open,
     StrictAuthority!Open
<1>3. ASSUME NEW o \in Orders
      PROVE  /\ Authority!Ticket(o) <=> StrictAuthority!Ticket(o)
             /\ Authority!Confirm(o) <=> StrictAuthority!Confirm(o)
             /\ Authority!Close(o) <=> StrictAuthority!Close(o)
             /\ Authority!Settle(o) <=> StrictAuthority!Settle(o)
  BY DEF Authority!Ticket, StrictAuthority!Ticket, Authority!Confirm,
     StrictAuthority!Confirm, Authority!Close, StrictAuthority!Close,
     Authority!Settle, StrictAuthority!Settle
<1> QED
  BY <1>1, <1>2, <1>3

\* Called is written by Call alone.
LEMMA CalledMoves ==
    ASSUME [Next]_vars, \A w \in Workers : ~Call(w)
    PROVE  UNCHANGED calls
BY DEF Next, SubmitStep, RecoverStep, OtherWriters, Broker, Review, Prepare,
   PrepareRefused, PreCallCheck, GatewayMissing, Reply, Finalize, Claim,
   Query, FinalizeRecovered, Abandon, Restart, CreateManualTicket, RecordObservation,
   ClearSubmission, SetKillSwitch, Deliver, Lose, Tick, vars, historyVars

LEMMA StrictCall ==
    ASSUME SubmissionInvariant, SerialPart, NEW w \in Workers, Call(w)
    PROVE  StrictAuthority!Next
<1>0. PICK o \in Orders : o = ord[w]
  BY Held DEF Call
<1>1. intent[o] = "prepared" /\ calls[o] = 0
  BY <1>0 DEF Call, SerialPart, Exclusive, Submitting, SubmissionInvariant,
     CallsGranted
<1>2. /\ calls' = [calls EXCEPT ![o] = 1]
      /\ UNCHANGED <<intent, oms, clearance>>
  BY <1>0, <1>1 DEF Call, SubmissionInvariant, TypeOK, dbVars, settleVars
<1>3. AuthorityOf(o) = "pending"
  BY <1>1 DEF AuthorityOf
<1>4. o \notin Called /\ Called' = Called \cup {o}
  BY <1>1, <1>2 DEF Called, SubmissionInvariant, TypeOK
<1>5. Spent' = Spent
  BY <1>2 DEF Spent, AuthorityOf
<1> QED
  BY <1>3, <1>4, <1>5 DEF StrictAuthority!Next, StrictAuthority!Send, Spent

LEMMA StrictStep ==
    ASSUME Serialized, SerialInvariant, [Next]_vars
    PROVE  [StrictAuthority!Next]_(StrictAuthority!vars)
<1>1. SubmissionInvariant /\ SerialPart
  BY DEF SerialInvariant
<1>2. CASE \E w \in Workers : Call(w)
  BY <1>1, <1>2, StrictCall
<1>3. CASE \A w \in Workers : ~Call(w)
  <2>1. Called' = Called
    BY <1>3, CalledMoves DEF Called
  <2>2. \A o \in Orders : ~Authority!Send(o)
    BY <2>1 DEF Authority!Send
  <2>3. [Authority!Next]_(Authority!vars)
    BY <1>1, MappedStep
  <2>4. ASSUME Authority!Next PROVE StrictAuthority!Next
    <3>1. PICK o \in Orders :
             \/ Authority!Ticket(o) \/ Authority!Spend(o)
             \/ Authority!Confirm(o) \/ Authority!Close(o)
             \/ Authority!Settle(o)
      BY <2>2, <2>4 DEF Authority!Next
    <3>2. \/ StrictAuthority!Ticket(o) \/ StrictAuthority!Spend(o)
          \/ StrictAuthority!Confirm(o) \/ StrictAuthority!Close(o)
          \/ StrictAuthority!Settle(o)
      BY <3>1, SameAuthority
    <3> QED
      BY <3>2 DEF StrictAuthority!Next
  <2>5. UNCHANGED Authority!vars => UNCHANGED StrictAuthority!vars
    BY DEF Authority!vars, StrictAuthority!vars
  <2> QED
    BY <2>3, <2>4, <2>5
<1> QED
  BY <1>2, <1>3

\* Serialized, no call leaves after its submission was closed.
THEOREM StrictRefinement ==
    ASSUME Serialized
    PROVE  Spec => ImplementsStrictAuthority
<1>1. Init => StrictAuthority!Init
  BY MappedInit, SameAuthority
<1>2. SerialInvariant /\ [Next]_vars
         => [StrictAuthority!Next]_(StrictAuthority!vars)
  BY StrictStep
<1> QED
  BY <1>1, <1>2, SerialInvariance, PTL
     DEF Spec, ImplementsStrictAuthority, StrictAuthority!Spec
=============================================================================
