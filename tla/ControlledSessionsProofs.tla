---------------------- MODULE ControlledSessionsProofs ----------------------
(***************************************************************************)
(* Proofs about ControlledSessions, for any reservations and plans, any    *)
(* number of watchers, requests and operators, and any clock bounds.       *)
(***************************************************************************)
EXTENDS ControlledSessions, TLAPS, FiniteSetTheorems, SequenceTheorems,
        WellFoundedInduction

-----------------------------------------------------------------------------
(***************************************************************************)
(* Lists of observations.                                                  *)
(***************************************************************************)
LEMMA PartsOfLists ==
    ASSUME NEW S, NEW list \in Seq(S), NEW n \in 0..Len(list)
    PROVE  /\ SubSeq(list, 1, n) \in Seq(S)
           /\ SubSeq(list, n + 1, Len(list)) \in Seq(S)
<1>1. \A i \in 1..Len(list) : list[i] \in S
  BY ElementOfSeq
<1>2. SubSeq(list, 1, n) \in Seq(S)
  BY <1>1, SubSeqProperties
<1>3. SubSeq(list, n + 1, Len(list)) \in Seq(S)
  BY <1>1, SubSeqProperties
<1> QED
  BY <1>2, <1>3

LEMMA WithoutType ==
    ASSUME NEW S, NEW list \in Seq(S), NEW x
    PROVE  Without(list, x) \in Seq(S)
<1> DEFINE n == CHOOSE i \in DOMAIN list : list[i] = x
<1>1. CASE \E i \in DOMAIN list : list[i] = x
  <2>1. n \in 1..Len(list)
    BY <1>1, LenProperties
  <2> HIDE DEF n
  <2>2. n - 1 \in 0..Len(list) /\ n \in 0..Len(list)
    BY <2>1, LenProperties
  <2>3. /\ SubSeq(list, 1, n - 1) \in Seq(S)
        /\ SubSeq(list, n + 1, Len(list)) \in Seq(S)
    BY <2>2, PartsOfLists
  <2>4. SubSeq(list, 1, n - 1) \o SubSeq(list, n + 1, Len(list)) \in Seq(S)
    BY <2>3, ConcatProperties
  <2> QED
    BY <1>1, <2>4 DEF Without, n
<1>2. CASE ~ \E i \in DOMAIN list : list[i] = x
  BY <1>2 DEF Without
<1> QED
  BY <1>1, <1>2

LEMMA UpTo ==
    ASSUME NEW m \in Nat
    PROVE  IsFiniteSet(1..m) /\ Cardinality(1..m) = m
<1>1. IsFiniteSet(1..m) /\ Cardinality(1..m) = IF 1 <= m THEN m - 1 + 1 ELSE 0
  BY FS_Interval
<1> QED
  BY <1>1

LEMMA FiledType ==
    ASSUME NEW S, NEW list \in Seq(S), NEW seen \in S
    PROVE  Filed(list, seen) \in Seq(S)
<1> DEFINE rest == Without(list, seen)
           before == {i \in DOMAIN rest : rest[i].at <= seen.at}
           n == Cardinality(before)
<1>1. rest \in Seq(S)
  BY WithoutType
<1> HIDE DEF rest
<1>2. before \subseteq 1..Len(rest) /\ Len(rest) \in Nat
  BY <1>1, LenProperties
<1>3. n \in 0..Len(rest)
  <2>1. IsFiniteSet(1..Len(rest)) /\ Cardinality(1..Len(rest)) = Len(rest)
    BY <1>2, UpTo
  <2> QED
    BY <1>2, <2>1, FS_Subset, FS_CardinalityType
<1> HIDE DEF n
<1>4. SubSeq(rest, 1, n) \in Seq(S) /\ SubSeq(rest, n + 1, Len(rest)) \in Seq(S)
  BY <1>1, <1>3, PartsOfLists
<1>5. <<seen>> \in Seq(S)
  OBVIOUS
<1>6. SubSeq(rest, 1, n) \o <<seen>> \o SubSeq(rest, n + 1, Len(rest)) \in Seq(S)
  BY <1>4, <1>5, ConcatProperties
<1> QED
  BY <1>6 DEF Filed, n, rest
-----------------------------------------------------------------------------
(***************************************************************************)
(* Types.                                                                  *)
(***************************************************************************)
Recordings == [step : {"record"}, session : Reservations, seen : Observation]
Judgings == [step : {"judge"}, session : Reservations]
Pausings == [step : {"pause"}, session : Reservations, at : Times]
WatchStates == {Idle} \union Recordings \union Judgings \union Pausings
RequestStates ==
    {Idle} \union [step : {"admit"}, session : Reservations, order : Orders,
                   seen : Observation, at : Times]
Issuings == [step : {"issue"}, target : Reservations, at : Times]
Replacings ==
    [step : {"replace"}, predecessor : Reservations, target : Reservations,
     first : Times, last : Observation, at : Times]
OperatorStates == {Idle} \union Issuings \union Replacings
SessionRows == [status : {"none", "enabled", "revoked"},
                rev : Revisions, created : Times]
Controls == [on : BOOLEAN, rev : Revisions, since : Times, until : Nat,
             disabledRev : Revisions, disabledAt : Times]
Replaced == [successor : Reservations, first : Times, last : Times, at : Times]
Admissions == [session : Reservations, order : Orders, at : Times]

Types ==
    /\ now \in Times /\ gate \in BOOLEAN /\ crashes \in 0..MaxCrashes
    /\ workable \in BOOLEAN /\ runtime \in {"none", "ready", "used"}
    /\ control \in Controls
    /\ reserved \subseteq Reservations
    /\ session \in [Reservations -> SessionRows]
    /\ pausedAt \in [Reservations -> Times \union {Never}]
    /\ snapshots \in [Reservations -> Seq(Observation)]
    /\ replacement \in [Reservations -> {Never} \union Replaced]
    /\ admissions \in Seq(Admissions)
    /\ watch \in [Watchers -> WatchStates]
    /\ todo \subseteq Reservations
    /\ request \in [Requests -> RequestStates]
    /\ operator \in [Operators -> OperatorStates]

LEMMA TypesAreTypeOK == TypeOK <=> Types
BY DEF TypeOK, Types, Controls, SessionRows, Replaced, Admissions, WatchStates,
       Recordings, Judgings, Pausings, RequestStates, OperatorStates, Issuings,
       Replacings

LEMMA Numbers ==
    /\ 0 \in Times /\ 0 \in Revisions /\ 0 \in 0..MaxCrashes
    /\ Times \subseteq Nat /\ Revisions \subseteq Nat
    /\ \A r \in Reservations : Plan[r] \in PlanSpace
BY PlanAssumption, SessionAssumption DEF Times, Revisions

\* The step of a record tells its shape.
LEMMA Shapes ==
    /\ \A x \in WatchStates :
          /\ x.step = "record" => x \in Recordings
          /\ x.step = "judge" => x \in Judgings
          /\ x.step = "pause" => x \in Pausings
    /\ \A x \in OperatorStates :
          /\ x.step = "issue" => x \in Issuings
          /\ x.step = "replace" => x \in Replacings
    /\ \A x \in RequestStates : x.step = "admit" => x \in RequestStates \ {Idle}
BY DEF WatchStates, Recordings, Judgings, Pausings, OperatorStates, Issuings,
       Replacings, RequestStates, Idle

LEMMA TypesInit == Init => Types
BY Numbers, EmptySeq
DEF Init, Types, Controls, SessionRows, NoSession, WatchStates, RequestStates,
    OperatorStates

LEMMA LatestType ==
    ASSUME Types, NEW s \in Reservations, snapshots[s] # <<>>
    PROVE  Latest(s) \in Observation
<1>1. snapshots[s] \in Seq(Observation)
  BY DEF Types
<1>2. Len(snapshots[s]) \in 1..Len(snapshots[s])
  BY <1>1, EmptySeq
<1> QED
  BY <1>1, <1>2, ElementOfSeq DEF Latest

\* The first of the clear observations since the pause.
LEMMA RecoveryStart ==
    ASSUME Types, NEW s \in Reservations, Recovery(s) # {}
    PROVE  /\ Min(Recovery(s)) \in Recovery(s)
           /\ snapshots[s][Min(Recovery(s))] \in Observation
           /\ snapshots[s] # <<>>
<1>1. snapshots[s] \in Seq(Observation)
  BY DEF Types
<1>2. Recovery(s) \subseteq 1..Len(snapshots[s]) /\ Len(snapshots[s]) \in Nat
  BY <1>1, LenProperties DEF Recovery
<1>3. Recovery(s) \subseteq Nat
  BY <1>2
<1>4. \E i \in Recovery(s) : \A k \in Recovery(s) :
         ~ (<<k, i>> \in OpToRel(<, Nat))
  BY <1>3, WFMin, NatLessThanWellFounded
<1>5. \E i \in Recovery(s) : \A k \in Recovery(s) : i <= k
  <2>1. PICK i \in Recovery(s) : \A k \in Recovery(s) :
           ~ (<<k, i>> \in OpToRel(<, Nat))
    BY <1>4
  <2>2. ASSUME NEW k \in Recovery(s) PROVE i <= k
    <3>1. ~ (k < i)
      BY <1>3, <2>1 DEF OpToRel
    <3> QED
      BY <1>3, <3>1
  <2> QED
    BY <2>2
<1>6. Min(Recovery(s)) \in Recovery(s)
  BY <1>5 DEF Min
<1>7. Min(Recovery(s)) \in 1..Len(snapshots[s])
  BY <1>2, <1>6
<1>8. snapshots[s][Min(Recovery(s))] \in Observation
  BY <1>1, <1>7, ElementOfSeq
<1> QED
  BY <1>1, <1>2, <1>6, <1>7, <1>8, EmptySeq
Retired(s) == [session[s] EXCEPT !.status = "revoked"]

LEMMA RetiredType ==
    ASSUME Types, NEW s \in Reservations
    PROVE  Retired(s) \in SessionRows /\ Retired(s).status = "revoked"
<1>1. session[s] \in SessionRows
  BY DEF Types
<1> QED
  BY <1>1 DEF Retired, SessionRows

\* What concerns the scheduler's runtime only.
RuntimeMoves == Initialise \/ RuntimeFails \/ WorkTurns

LEMMA RuntimeMovesOnly ==
    ASSUME RuntimeMoves
    PROVE  /\ UNCHANGED <<now, gate, control, crashes, authorityVars, threadVars>>
           /\ workable \in BOOLEAN => workable' \in BOOLEAN
           /\ runtime' \in {runtime, "none", "ready"}
BY DEF RuntimeMoves, Initialise, RuntimeFails, WorkTurns

LEMMA WorldTypes ==
    ASSUME Types,
           \/ Enable \/ Disable \/ Tick \/ GateTurns \/ Crash \/ RuntimeMoves
           \/ StartRound \/ (\E r \in Reservations : Reserve(r) \/ Revoke(r))
    PROVE  Types'
<1> USE Numbers DEF authorityVars, threadVars, worldVars, schedulerVars
<1>1. CASE Enable
  <2>1. PICK t \in control.since..now :
          control' = [control EXCEPT !.on = TRUE, !.rev = @ + 1, !.since = t,
                                     !.until = t + Lifetime]
    BY <1>1 DEF Enable
  <2>2. control \in Controls /\ now \in Times
    BY DEF Types
  <2>3. t \in Times
    BY <2>2, SessionAssumption DEF Controls, Times
  <2>4. t + Lifetime \in Nat /\ control.rev + 1 \in Revisions
    <3>1. t \in Nat /\ Lifetime \in Nat /\ control.rev \in 0..MaxRevision
      BY <2>2, <2>3, SessionAssumption DEF Controls, Revisions
    <3>2. control.rev < MaxRevision /\ MaxRevision \in Nat
      BY <1>1, SessionAssumption DEF Enable
    <3> QED
      BY <3>1, <3>2 DEF Revisions
  <2>5. control' \in Controls
    BY <2>1, <2>2, <2>3, <2>4 DEF Controls
  <2> QED
    BY <1>1, <2>5 DEF Enable, Types
<1>2. CASE Disable
  <2>1. PICK t \in control.since..now :
          control' = [on |-> FALSE, rev |-> control.rev + 1, since |-> t,
                      until |-> 0,
                      disabledRev |-> control.rev + 1, disabledAt |-> t]
    BY <1>2 DEF Disable
  <2>2. control \in Controls /\ now \in Times
    BY DEF Types
  <2>3. t \in Times
    BY <2>2, SessionAssumption DEF Controls, Times
  <2>4. control.rev + 1 \in Revisions
    BY <1>2, <2>2, SessionAssumption DEF Disable, Controls, Revisions
  <2>5. control' \in Controls
    BY <2>1, <2>3, <2>4 DEF Controls
  <2> QED
    BY <1>2, <2>5 DEF Disable, Types
<1>3. CASE Tick
  <2>1. now' \in Times
    BY <1>3, SessionAssumption DEF Tick, Types, Times
  <2> QED
    BY <1>3, <2>1 DEF Tick, Types
<1>4. CASE GateTurns
  BY <1>4 DEF GateTurns, Types
<1>5. CASE Crash
  <2>1. crashes' \in 0..MaxCrashes
    BY <1>5, SessionAssumption DEF Crash, Types
  <2>2. /\ watch' \in [Watchers -> WatchStates]
        /\ request' \in [Requests -> RequestStates]
        /\ operator' \in [Operators -> OperatorStates]
    BY <1>5 DEF Crash, WatchStates, RequestStates, OperatorStates
  <2> QED
    BY <1>5, <2>1, <2>2 DEF Crash, Types
<1>6. CASE StartRound
  BY <1>6 DEF StartRound, Types
<1>7. ASSUME NEW r \in Reservations, Reserve(r) PROVE Types'
  BY <1>7 DEF Reserve, Types
<1>8. ASSUME NEW r \in Reservations, Revoke(r) PROVE Types'
  <2>1. session' \in [Reservations -> SessionRows]
    <3>1. session' = [session EXCEPT ![r] = Retired(r)]
      BY <1>8 DEF Revoke, Retired
    <3> QED
      BY <3>1, RetiredType DEF Types
  <2> QED
    BY <1>8, <2>1 DEF Revoke, Types
<1>9. CASE RuntimeMoves
  BY <1>9, RuntimeMovesOnly DEF Types
<1> QED
  BY <1>1, <1>2, <1>3, <1>4, <1>5, <1>6, <1>7, <1>8, <1>9

LEMMA ObservedType ==
    ASSUME Types, NEW s \in Reservations
    PROVE  Observed(s, now) \in Observation
BY DEF Observed, Observation, Types, Controls

LEMMA EvaluateTypes ==
    ASSUME Types, NEW w \in Watchers, Evaluate(w)
    PROVE  Types'
<1> USE DEF authorityVars, threadVars, worldVars, schedulerVars
<1>1. ASSUME NEW x \in WatchStates, Watching(w, x)
      PROVE  watch' \in [Watchers -> WatchStates]
  BY <1>1 DEF Watching, Types
<1>2. Idle \in WatchStates
  BY DEF WatchStates
<1>3. ASSUME NEW s \in Reservations, Capture(w, s) PROVE Types'
  <2>1. [step |-> "record", session |-> s, seen |-> Observed(s, now)]
          \in WatchStates
    BY ObservedType DEF WatchStates, Recordings
  <2>2. watch' \in [Watchers -> WatchStates]
    BY <1>1, <1>2, <1>3, <2>1 DEF Capture
  <2>3. todo' \subseteq Reservations
    BY <1>3 DEF Capture, Types
  <2> QED
    BY <1>3, <2>2, <2>3 DEF Capture, Types
<1>4. CASE Record(w)
  <2> DEFINE s == watch[w].session
  <2>1. watch[w] \in Recordings
    BY <1>4, Shapes DEF Record, Types
  <2>2. s \in Reservations /\ watch[w].seen \in Observation
    BY <2>1 DEF Recordings
  <2>3. snapshots' \in [Reservations -> Seq(Observation)]
    <3>1. Filed(snapshots[s], watch[w].seen) \in Seq(Observation)
      BY <2>2, FiledType DEF Types
    <3>2. \/ snapshots' = snapshots
          \/ snapshots' = [snapshots EXCEPT ![s] =
                              Filed(snapshots[s], watch[w].seen)]
      BY <1>4 DEF Record
    <3> QED
      BY <2>2, <3>1, <3>2 DEF Types
  <2>4. [step |-> "judge", session |-> s] \in WatchStates
    BY <2>2 DEF WatchStates, Judgings
  <2>5. watch' \in [Watchers -> WatchStates]
    BY <1>1, <1>2, <1>4, <2>4 DEF Record
  <2> QED
    BY <1>4, <2>3, <2>5 DEF Record, Types
<1>5. CASE Judge(w)
  <2> DEFINE s == watch[w].session
  <2>1. s \in Reservations /\ now \in Times
    BY <1>5, Shapes DEF Judge, Types, Judgings
  <2>2. [step |-> "pause", session |-> s, at |-> now] \in WatchStates
    BY <2>1 DEF WatchStates, Pausings
  <2>3. watch' \in [Watchers -> WatchStates]
    BY <1>1, <1>2, <1>5, <2>2 DEF Judge
  <2> QED
    BY <1>5, <2>3 DEF Judge, Types
<1>6. CASE Pause(w)
  <2>1. watch[w].session \in Reservations /\ watch[w].at \in Times
    BY <1>6, Shapes DEF Pause, Types, Pausings
  <2>2. watch' \in [Watchers -> WatchStates]
    BY <1>1, <1>2, <1>6 DEF Pause
  <2>3. pausedAt' \in [Reservations -> Times \union {Never}]
    BY <1>6, <2>1 DEF Pause, Types
  <2> QED
    BY <1>6, <2>2, <2>3 DEF Pause, Types
<1>7. CASE EvaluationFails(w)
  BY <1>1, <1>2, <1>7 DEF EvaluationFails, Types
<1> QED
  BY <1>3, <1>4, <1>5, <1>6, <1>7 DEF Evaluate

LEMMA IssuedType ==
    ASSUME Types, NEW t \in Times
    PROVE  Issued(t) \in SessionRows /\ Issued(t).status = "enabled"
BY DEF Issued, SessionRows, Types, Controls

LEMMA OperateTypes ==
    ASSUME Types, NEW p \in Operators, Operate(p)
    PROVE  Types'
<1> USE DEF authorityVars, threadVars, worldVars, schedulerVars
<1>1. ASSUME NEW x \in OperatorStates, Acting(p, x)
      PROVE  operator' \in [Operators -> OperatorStates]
  BY <1>1 DEF Acting, Types
<1>2. Idle \in OperatorStates /\ now \in Times
  BY DEF OperatorStates, Types
<1>3. ASSUME NEW r \in Reservations, PreviewIssue(p, r) PROVE Types'
  <2>1. [step |-> "issue", target |-> r, at |-> now] \in OperatorStates
    BY <1>2 DEF OperatorStates, Issuings
  <2> QED
    BY <1>1, <1>3, <2>1 DEF PreviewIssue, Types
<1>4. CASE Issue(p)
  <2>1. operator[p].target \in Reservations /\ operator[p].at \in Times
    BY <1>4, Shapes DEF Issue, Types, Issuings
  <2>2. session' \in [Reservations -> SessionRows]
    BY <1>4, <2>1, IssuedType DEF Issue, Types
  <2> QED
    BY <1>1, <1>2, <1>4, <2>2 DEF Issue, Types
<1>5. ASSUME NEW s \in Reservations, NEW r \in Reservations,
             PreviewReplace(p, s, r)
      PROVE  Types'
  <2> DEFINE first == snapshots[s][Min(Recovery(s))].at
  <2>1. /\ first \in Times /\ Latest(s) \in Observation
    BY <1>5, RecoveryStart, LatestType DEF PreviewReplace, Observation
  <2>2. [step |-> "replace", predecessor |-> s, target |-> r, first |-> first,
         last |-> Latest(s), at |-> now] \in OperatorStates
    BY <1>2, <2>1 DEF OperatorStates, Replacings
  <2> QED
    BY <1>1, <1>5, <2>2 DEF PreviewReplace, Types
<1>6. CASE Replace(p)
  <2> DEFINE c == operator[p]
  <2>1. c \in Replacings
    BY <1>6, Shapes DEF Replace, Types
  <2>2. /\ c.predecessor \in Reservations /\ c.target \in Reservations
        /\ c.first \in Times /\ c.last.at \in Times /\ c.at \in Times
    BY <2>1 DEF Replacings, Observation
  <2>3. \/ UNCHANGED <<session, replacement>>
        \/ /\ session' = [session EXCEPT ![c.predecessor].status = "revoked",
                                         ![c.target] = Issued(c.at)]
           /\ replacement' = [replacement EXCEPT ![c.predecessor] =
                [successor |-> c.target, first |-> c.first, last |-> c.last.at,
                 at |-> c.at]]
    BY <1>6 DEF Replace
  <2>4. session' \in [Reservations -> SessionRows]
    <3>1. Issued(c.at) \in SessionRows /\ Retired(c.predecessor) \in SessionRows
      BY <2>2, IssuedType, RetiredType
    <3>2. \/ session' = session
          \/ session' = [session EXCEPT ![c.predecessor] = Retired(c.predecessor),
                                        ![c.target] = Issued(c.at)]
      BY <2>3 DEF Retired
    <3> QED
      BY <2>2, <3>1, <3>2 DEF Types
  <2>5. replacement' \in [Reservations -> {Never} \union Replaced]
    <3>1. [successor |-> c.target, first |-> c.first, last |-> c.last.at,
           at |-> c.at] \in Replaced
      BY <2>2 DEF Replaced
    <3> QED
      BY <2>2, <2>3, <3>1 DEF Types
  <2> QED
    BY <1>1, <1>2, <1>6, <2>4, <2>5 DEF Replace, Types
<1> QED
  BY <1>3, <1>4, <1>5, <1>6 DEF Operate

LEMMA RequestTypes ==
    ASSUME Types, NEW q \in Requests,
           \/ \E s \in Reservations, o \in Orders : PreviewAdmit(q, s, o)
           \/ Admit(q)
    PROVE  Types'
<1> USE DEF authorityVars, threadVars, worldVars, schedulerVars
<1>1. ASSUME NEW x \in RequestStates, Requesting(q, x)
      PROVE  request' \in [Requests -> RequestStates]
  BY <1>1 DEF Requesting, Types
<1>2. ASSUME NEW s \in Reservations, NEW o \in Orders, PreviewAdmit(q, s, o)
      PROVE  Types'
  <2>1. Latest(s) \in Observation
    BY <1>2, LatestType DEF PreviewAdmit, ClearNow
  <2>2. [step |-> "admit", session |-> s, order |-> o, seen |-> Latest(s),
         at |-> now] \in RequestStates
    BY <2>1 DEF RequestStates, Types
  <2> QED
    BY <1>1, <1>2, <2>2 DEF PreviewAdmit, Types
<1>3. CASE Admit(q)
  <2> DEFINE c == request[q]
  <2>1. /\ c.session \in Reservations /\ c.order \in Orders /\ c.at \in Times
    BY <1>3 DEF Admit, Types, RequestStates, Idle
  <2>2. [session |-> c.session, order |-> c.order, at |-> c.at] \in Admissions
    BY <2>1 DEF Admissions
  <2>3. admissions' \in Seq(Admissions)
    BY <1>3, <2>2 DEF Admit, Types
  <2>4. Idle \in RequestStates
    BY DEF RequestStates
  <2> QED
    BY <1>1, <1>3, <2>3, <2>4 DEF Admit, Types
<1> QED
  BY <1>2, <1>3

LEMMA TypesStep ==
    ASSUME Types, [Next]_vars
    PROVE  Types'
<1>1. CASE UNCHANGED vars
  BY <1>1 DEF vars, authorityVars, threadVars, worldVars, schedulerVars, Types
<1> QED
  BY <1>1, WorldTypes, EvaluateTypes, OperateTypes, RequestTypes
  DEF Next, RuntimeMoves

\* Every variable keeps its type.
THEOREM SessionsTypeOK == Spec => []TypeOK
<1>1. Init => Types
  BY TypesInit
<1>2. Types /\ [Next]_vars => Types'
  BY TypesStep
<1>3. Types => TypeOK
  BY TypesAreTypeOK
<1> QED
  BY <1>1, <1>2, <1>3, PTL DEF Spec
-----------------------------------------------------------------------------
(***************************************************************************)
(* What a step may change of what is stored, and never takes back.         *)
(***************************************************************************)
LEMMA Writers ==
    ASSUME [Next]_vars
    PROVE  \/ UNCHANGED <<session, pausedAt, snapshots, replacement, admissions>>
           \/ \E r \in Reservations : Revoke(r)
           \/ \E w \in Watchers : Record(w) \/ Pause(w)
           \/ \E p \in Operators : Issue(p) \/ Replace(p)
           \/ \E q \in Requests : Admit(q)
<1> USE DEF authorityVars
<1>1. CASE Enable \/ Disable \/ StartRound \/ Tick \/ GateTurns \/ Crash
           \/ RuntimeMoves \/ UNCHANGED vars
  BY <1>1, RuntimeMovesOnly
  DEF Enable, Disable, StartRound, Tick, GateTurns, Crash, vars
<1>2. ASSUME NEW r \in Reservations, Reserve(r) \/ Revoke(r)
      PROVE  \/ UNCHANGED <<session, pausedAt, snapshots, replacement, admissions>>
             \/ Revoke(r)
  BY <1>2 DEF Reserve
<1>3. ASSUME NEW w \in Watchers, Evaluate(w)
      PROVE  \/ UNCHANGED <<session, pausedAt, snapshots, replacement, admissions>>
             \/ Record(w) \/ Pause(w)
  BY <1>3 DEF Evaluate, Capture, Judge, EvaluationFails
<1>4. ASSUME NEW p \in Operators, Operate(p)
      PROVE  \/ UNCHANGED <<session, pausedAt, snapshots, replacement, admissions>>
             \/ Issue(p) \/ Replace(p)
  BY <1>4 DEF Operate, PreviewIssue, PreviewReplace
<1>5. ASSUME NEW q \in Requests, NEW s \in Reservations, NEW o \in Orders,
             PreviewAdmit(q, s, o)
      PROVE  UNCHANGED <<session, pausedAt, snapshots, replacement, admissions>>
  BY <1>5 DEF PreviewAdmit
<1> QED
  BY <1>1, <1>2, <1>3, <1>4, <1>5 DEF Next, RuntimeMoves

\* A session stays known, revoked and paused; a revoked one is observed no
\* more.
Status(s) == session[s].status

Lasting ==
    \A s \in Reservations :
        /\ Status(s) # "none" => Status(s)' # "none"
        /\ Status(s) = "revoked" => Status(s)' = "revoked"
                                     /\ snapshots'[s] = snapshots[s]
        /\ Paused(s) => pausedAt'[s] = pausedAt[s]

\* What the replacement c does to s and its successor r, if it does anything.
Succession(c, s, r) ==
    /\ c \in Replacings /\ s \in Reservations /\ r \in Reservations
    /\ s = c.predecessor /\ r = c.target
    /\ Enabled(s) /\ Paused(s) /\ Status(r) = "none" /\ r # s
    /\ Replaceable(s, r, c.first, c.last.at, c.at)
    /\ Uninterrupted(s, c)
    /\ session'[s].status = "revoked" /\ session'[r].status = "enabled"
    /\ \A x \in Reservations \ {s, r} : session'[x] = session[x]
    /\ replacement' = [replacement EXCEPT ![s] =
         [successor |-> r, first |-> c.first, last |-> c.last.at, at |-> c.at]]
    /\ UNCHANGED <<reserved, pausedAt, snapshots, admissions, watch, todo,
                   request, worldVars>>

LEMMA Replacement ==
    ASSUME Types, NEW p \in Operators, Replace(p), session' # session
           \/ replacement' # replacement
    PROVE  \E s, r : Succession(operator[p], s, r)
<1> DEFINE c == operator[p]
           s == c.predecessor
           r == c.target
<1>1. c \in Replacings
  BY Shapes DEF Replace, Types
<1>2. /\ s \in Reservations /\ r \in Reservations /\ c.at \in Times
  BY <1>1 DEF Replacings
<1>3. /\ session[r].status = "none"
      /\ Replaceable(s, r, c.first, c.last.at, c.at)
      /\ Uninterrupted(s, c)
      /\ session' = [session EXCEPT ![s].status = "revoked", ![r] = Issued(c.at)]
      /\ replacement' = [replacement EXCEPT ![s] =
            [successor |-> r, first |-> c.first, last |-> c.last.at,
             at |-> c.at]]
      /\ UNCHANGED <<reserved, pausedAt, snapshots, admissions, watch, todo,
                     request, worldVars>>
  BY DEF Replace
<1>4. Enabled(s) /\ Paused(s) /\ r # s
  BY <1>3 DEF Replaceable, Enabled
<1>5. session' = [session EXCEPT ![s] = Retired(s), ![r] = Issued(c.at)]
  BY <1>3 DEF Retired
<1> HIDE DEF c, s, r
<1>6. /\ session'[s] = Retired(s) /\ session'[r] = Issued(c.at)
      /\ \A x \in Reservations \ {s, r} : session'[x] = session[x]
  BY <1>2, <1>4, <1>5 DEF Types
<1>7. Retired(s).status = "revoked" /\ Issued(c.at).status = "enabled"
  BY <1>2, RetiredType, IssuedType
<1>8. Succession(c, s, r)
  BY <1>1, <1>2, <1>3, <1>4, <1>6, <1>7 DEF Succession, Status, c, s, r
<1> QED
  BY <1>8 DEF c

LEMMA IssueChange ==
    ASSUME Types, NEW p \in Operators, Issue(p), session' # session
    PROVE  \E r \in Reservations :
              /\ Status(r) = "none" /\ Status(r)' = "enabled"
              /\ \A x \in Reservations \ {r} : session'[x] = session[x]
<1> DEFINE r == operator[p].target
<1>1. r \in Reservations /\ operator[p].at \in Times
  BY Shapes DEF Issue, Types, Issuings
<1>2. /\ session[r].status = "none"
      /\ session' = [session EXCEPT ![r] = Issued(operator[p].at)]
  BY DEF Issue
<1> QED
  BY <1>1, <1>2, IssuedType DEF Status, Types

LEMMA RevokeChange ==
    ASSUME Types, NEW s \in Reservations, Revoke(s)
    PROVE  /\ Status(s) = "enabled" /\ Status(s)' = "revoked"
           /\ \A x \in Reservations \ {s} : session'[x] = session[x]
<1>1. session' = [session EXCEPT ![s] = Retired(s)]
  BY DEF Revoke, Retired
<1> QED
  BY <1>1, RetiredType DEF Revoke, Enabled, Status, Types

LEMMA LastingStep ==
    ASSUME Types, [Next]_vars
    PROVE  Lasting
<1> USE DEF Status, Paused
<1>1. CASE UNCHANGED <<session, pausedAt, snapshots>>
  BY <1>1 DEF Lasting
<1>2. ASSUME NEW r \in Reservations, Revoke(r) PROVE Lasting
  BY <1>2, RevokeChange DEF Revoke, Lasting
<1>3. ASSUME NEW w \in Watchers, Record(w) PROVE Lasting
  BY <1>3 DEF Record, Lasting, Enabled, Types
<1>4. ASSUME NEW w \in Watchers, Pause(w) PROVE Lasting
  BY <1>4 DEF Pause, Lasting, Types
<1>5. ASSUME NEW p \in Operators, Issue(p) PROVE Lasting
  BY <1>1, <1>5, IssueChange DEF Issue, Lasting
<1>6. ASSUME NEW p \in Operators, Replace(p) PROVE Lasting
  <2>1. CASE session' # session \/ replacement' # replacement
    <3>1. PICK s, r : Succession(operator[p], s, r)
      BY <1>6, <2>1, Replacement
    <3>2. /\ Status(s) = "enabled" /\ Status(s)' = "revoked"
          /\ Status(r) = "none" /\ Status(r)' = "enabled"
          /\ \A x \in Reservations \ {s, r} : session'[x] = session[x]
          /\ pausedAt' = pausedAt /\ snapshots' = snapshots
      BY <3>1 DEF Succession, Enabled
    <3> QED
      BY <3>2 DEF Lasting
  <2>2. CASE UNCHANGED <<session, replacement>>
    BY <1>1, <1>6, <2>2 DEF Replace
  <2> QED
    BY <2>1, <2>2
<1>7. ASSUME NEW q \in Requests, Admit(q) PROVE Lasting
  BY <1>1, <1>7 DEF Admit
<1> QED
  BY <1>1, <1>2, <1>3, <1>4, <1>5, <1>6, <1>7, Writers
-----------------------------------------------------------------------------
(***************************************************************************)
(* Whom a thread is about to act on: an observed session is issued, and a  *)
(* previewed replacement retires a session whose recovery began after its  *)
(* pause.                                                                  *)
(***************************************************************************)
Aimed ==
    /\ \A s \in Reservations : Paused(s) => Status(s) # "none"
    /\ \A w \in Watchers : watch[w] # Idle => Status(watch[w].session) # "none"
    /\ \A p \in Operators : operator[p] \in Replacings =>
          LET s == operator[p].predecessor
          IN  Paused(s) /\ pausedAt[s] < operator[p].first

LEMMA WatchMoves ==
    ASSUME Types, [Next]_vars, NEW w \in Watchers
    PROVE  \/ watch'[w] \in {watch[w], Idle}
           \/ /\ watch[w] # Idle /\ watch'[w].session = watch[w].session
           \/ \E s \in Reservations : watch'[w].session = s /\ Enabled(s)
<1> USE DEF threadVars
<1>1. CASE UNCHANGED watch
  BY <1>1
<1>2. CASE Crash
  BY <1>2 DEF Crash
<1>3. ASSUME NEW v \in Watchers, v # w, Evaluate(v) PROVE watch'[w] = watch[w]
  BY <1>3 DEF Evaluate, Capture, Record, Judge, Pause, EvaluationFails, Watching,
     Types
<1>4. ASSUME NEW s \in Reservations, Capture(w, s)
      PROVE  \/ watch'[w] \in {watch[w], Idle}
             \/ watch'[w].session = s /\ Enabled(s)
  <2>1. watch'[w] = IF Enabled(s) THEN [step |-> "record", session |-> s,
                                        seen |-> Observed(s, now)]
                                  ELSE Idle
    BY <1>4 DEF Capture, Watching, Types
  <2> QED
    BY <2>1
<1>5. CASE Record(w)
  <2>1. watch'[w] \in {[step |-> "judge", session |-> watch[w].session], Idle}
    BY <1>5 DEF Record, Watching, Types
  <2>2. watch[w] # Idle
    BY <1>5 DEF Record, Idle
  <2> QED
    BY <2>1, <2>2
<1>6. CASE Judge(w)
  <2>1. watch'[w] \in {[step |-> "pause", session |-> watch[w].session,
                        at |-> now], Idle}
    BY <1>6 DEF Judge, Watching, Types
  <2>2. watch[w] # Idle
    BY <1>6 DEF Judge, Idle
  <2> QED
    BY <2>1, <2>2
<1>7. CASE Pause(w)
  BY <1>7 DEF Pause, Watching, Types
<1>8. CASE EvaluationFails(w)
  BY <1>8 DEF EvaluationFails, Watching, Types
<1>9. \/ UNCHANGED watch \/ Crash \/ \E v \in Watchers : Evaluate(v)
  <2>1. ASSUME NEW p \in Operators, Operate(p) PROVE UNCHANGED watch
    BY <2>1 DEF Operate, PreviewIssue, Issue, PreviewReplace, Replace
  <2>2. CASE Enable \/ Disable \/ StartRound \/ Tick \/ GateTurns
             \/ RuntimeMoves \/ UNCHANGED vars
             \/ (\E r \in Reservations : Reserve(r) \/ Revoke(r))
             \/ (\E q \in Requests, s \in Reservations, o \in Orders :
                    PreviewAdmit(q, s, o))
             \/ (\E q \in Requests : Admit(q))
    BY <2>2, RuntimeMovesOnly
    DEF Enable, Disable, StartRound, Tick, GateTurns, vars, Reserve, Revoke,
        PreviewAdmit, Admit
  <2> QED
    BY <2>1, <2>2 DEF Next, RuntimeMoves
<1> QED
  BY <1>1, <1>2, <1>3, <1>4, <1>5, <1>6, <1>7, <1>8, <1>9 DEF Evaluate

LEMMA OperatorMoves ==
    ASSUME Types, [Next]_vars, NEW p \in Operators
    PROVE  \/ operator'[p] = operator[p]
           \/ operator'[p] \notin Replacings
           \/ \E s \in Reservations :
                 /\ operator'[p].predecessor = s
                 /\ Paused(s) /\ pausedAt[s] < operator'[p].first
<1> USE DEF threadVars
<1>1. CASE UNCHANGED operator
  BY <1>1
<1>2. Idle \notin Replacings
  BY DEF Idle, Replacings
<1>3. CASE Crash
  BY <1>2, <1>3 DEF Crash
<1>4. ASSUME NEW x \in Operators, x # p, Operate(x)
      PROVE  operator'[p] = operator[p]
  BY <1>4 DEF Operate, PreviewIssue, Issue, PreviewReplace, Replace, Acting,
     Types
<1>5. ASSUME NEW r \in Reservations, PreviewIssue(p, r)
      PROVE  operator'[p] \notin Replacings
  <2>1. operator'[p] = [step |-> "issue", target |-> r, at |-> now]
    BY <1>5 DEF PreviewIssue, Acting, Types
  <2> QED
    BY <2>1 DEF Replacings
<1>6. CASE Issue(p) \/ Replace(p)
  BY <1>2, <1>6 DEF Issue, Replace, Acting, Types
<1>7. ASSUME NEW s \in Reservations, NEW r \in Reservations,
             PreviewReplace(p, s, r)
      PROVE  /\ operator'[p].predecessor = s
             /\ Paused(s) /\ pausedAt[s] < operator'[p].first
  <2> DEFINE i == Min(Recovery(s))
  <2>1. operator'[p] =
          [step |-> "replace", predecessor |-> s, target |-> r,
           first |-> snapshots[s][i].at, last |-> Latest(s), at |-> now]
    BY <1>7 DEF PreviewReplace, Acting, Types
  <2>2. i \in Recovery(s) /\ snapshots[s][i].at \in Nat
    BY <1>7, Numbers, RecoveryStart DEF PreviewReplace, Observation
  <2>3. snapshots[s][i].at > pausedAt[s]
    BY <2>2 DEF Recovery
  <2>4. Paused(s) /\ pausedAt[s] \in Nat
    BY <1>7, Numbers DEF PreviewReplace, Paused, Types
  <2> HIDE DEF i
  <2> QED
    BY <2>1, <2>2, <2>3, <2>4
<1>8. \/ UNCHANGED operator \/ Crash \/ \E x \in Operators : Operate(x)
  <2>1. ASSUME NEW w \in Watchers, Evaluate(w) PROVE UNCHANGED operator
    BY <2>1 DEF Evaluate, Capture, Record, Judge, Pause, EvaluationFails
  <2>2. CASE Enable \/ Disable \/ StartRound \/ Tick \/ GateTurns
             \/ RuntimeMoves \/ UNCHANGED vars
             \/ (\E r \in Reservations : Reserve(r) \/ Revoke(r))
             \/ (\E q \in Requests, s \in Reservations, o \in Orders :
                    PreviewAdmit(q, s, o))
             \/ (\E q \in Requests : Admit(q))
    BY <2>2, RuntimeMovesOnly
    DEF Enable, Disable, StartRound, Tick, GateTurns, vars, Reserve, Revoke,
        PreviewAdmit, Admit
  <2> QED
    BY <2>1, <2>2 DEF Next, RuntimeMoves
<1> QED
  BY <1>1, <1>3, <1>4, <1>5, <1>6, <1>7, <1>8 DEF Operate

LEMMA AimedInit == Init => Aimed
BY DEF Init, Aimed, Paused, Idle, Replacings

LEMMA AimedStep ==
    ASSUME Types, Aimed, [Next]_vars
    PROVE  Aimed'
<1>1. Types' /\ Lasting
  BY TypesStep, LastingStep
<1>2. ASSUME NEW s \in Reservations, Paused(s)' PROVE Status(s)' # "none"
  <2>1. CASE Paused(s)
    BY <1>1, <2>1 DEF Aimed, Lasting
  <2>2. CASE ~ Paused(s)
    <3>1. pausedAt' # pausedAt
      BY <1>2, <2>2 DEF Paused
    <3>2. PICK w \in Watchers : Pause(w)
      BY <3>1, Writers DEF Revoke, Record, Issue, Replace, Admit
    <3>3. s = watch[w].session /\ watch[w] # Idle
      BY <1>2, <2>2, <3>2 DEF Pause, Paused, Types, Idle
    <3> QED
      BY <1>1, <3>3 DEF Aimed, Lasting
  <2> QED
    BY <2>1, <2>2
<1>3. ASSUME NEW w \in Watchers, watch'[w] # Idle
      PROVE  session'[watch'[w].session].status # "none"
  <2>1. PICK s \in Reservations : s = watch'[w].session
    <3>1. watch'[w] \in WatchStates
      BY <1>1 DEF Types
    <3> QED
      BY <1>3, <3>1 DEF WatchStates, Recordings, Judgings, Pausings
  <2>2. Status(s) # "none"
    BY <1>3, <2>1, WatchMoves DEF Aimed, Enabled, Status
  <2>3. Status(s)' # "none"
    BY <1>1, <2>2 DEF Lasting
  <2> QED
    BY <2>1, <2>3 DEF Status
<1>4. ASSUME NEW p \in Operators, operator'[p] \in Replacings,
             NEW s, s = operator'[p].predecessor
      PROVE  pausedAt'[s] # Never /\ pausedAt'[s] < operator'[p].first
  <2>1. s \in Reservations
    BY <1>4 DEF Replacings
  <2>2. Paused(s) /\ pausedAt[s] < operator'[p].first
    BY <1>4, OperatorMoves DEF Aimed
  <2> QED
    BY <1>1, <2>1, <2>2 DEF Lasting, Paused
<1> QED
  BY <1>2, <1>3, <1>4 DEF Aimed, Status, Paused
-----------------------------------------------------------------------------
(***************************************************************************)
(* Replacements.                                                           *)
(***************************************************************************)
\* What ReplacementsEarned says of one replacement e of s.
Earned(s, e) ==
    /\ session[s].status = "revoked"
    /\ Paused(s) /\ pausedAt[s] < e.first
    /\ e.first + Stability <= e.last
    /\ \A x \in Rows(s) : e.first <= x.at /\ x.at <= e.at => x.clear
    /\ session[e.successor].status # "none" /\ NoWider(e.successor, s)

LEMMA EarnedParts ==
    ReplacementsEarned <=>
      \A s \in Reservations : replacement[s] # Never =>
         /\ Earned(s, replacement[s])
         /\ \A r \in Reservations \ {s} : replacement[r] # Never =>
               replacement[r].successor # replacement[s].successor
BY DEF ReplacementsEarned, Earned

\* An earned replacement stays earned.
LEMMA EarnedLasts ==
    ASSUME Types, Lasting, NEW s \in Reservations, NEW e \in Replaced,
           Earned(s, e)
    PROVE  Earned(s, e)'
<1>1. e.successor \in Reservations
  BY DEF Replaced
<1>2. /\ session'[s].status = "revoked" /\ snapshots'[s] = snapshots[s]
      /\ pausedAt'[s] = pausedAt[s] /\ session'[e.successor].status # "none"
  BY <1>1 DEF Earned, Lasting, Status, Paused
<1> QED
  BY <1>2 DEF Earned, Rows, Paused, NoWider

LEMMA SuccessionEarned ==
    ASSUME Types, Aimed, NEW p \in Operators, NEW s, NEW r,
           Succession(operator[p], s, r), NEW e, e = replacement'[s]
    PROVE  Earned(s, e)'
<1> DEFINE c == operator[p]
<1>1. c \in Replacings /\ s \in Reservations /\ s = c.predecessor
  BY DEF Succession
<1>2. /\ e.successor = r /\ e.first = c.first /\ e.last = c.last.at
      /\ e.at = c.at
  BY <1>1 DEF Succession, Types
<1>3. Paused(s) /\ pausedAt[s] < e.first
  BY <1>1, <1>2 DEF Aimed
<1>4. e.first + Stability <= e.last
  <2>1. c.first \in Nat /\ c.last.at \in Nat /\ Stability \in Nat
    BY <1>1, Numbers, SessionAssumption DEF Replacings, Observation
  <2>2. c.last.at - c.first >= Stability
    BY DEF Succession, Replaceable
  <2> QED
    BY <1>2, <2>1, <2>2
<1>5. \A x \in Rows(s) : e.first <= x.at /\ x.at <= e.at => x.clear
  BY <1>2 DEF Succession, Uninterrupted
<1>6. NoWider(e.successor, s)
  BY <1>2 DEF Succession, Replaceable
<1>7. /\ session'[s].status = "revoked" /\ session'[e.successor].status # "none"
      /\ UNCHANGED <<pausedAt, snapshots>>
  BY <1>2 DEF Succession
<1> QED
  BY <1>3, <1>4, <1>5, <1>6, <1>7 DEF Earned, Rows, Paused, NoWider

LEMMA EarnedStep ==
    ASSUME Types, Aimed, ReplacementsEarned, [Next]_vars
    PROVE  ReplacementsEarned'
<1>1. Lasting
  BY LastingStep
<1>2. ASSUME NEW s \in Reservations, NEW e, e = replacement[s], e # Never
      PROVE  Earned(s, e)' /\ session[e.successor].status # "none"
  <2>1. Earned(s, e) /\ e \in Replaced
    BY <1>2, EarnedParts DEF Types
  <2> QED
    BY <1>1, <2>1, EarnedLasts DEF Earned
<1>3. CASE UNCHANGED replacement
  BY <1>2, <1>3 DEF ReplacementsEarned, Earned
<1>4. CASE replacement' # replacement
  <2>1. PICK p \in Operators : Replace(p)
    BY <1>4, Writers DEF Revoke, Record, Pause, Issue, Admit
  <2>2. PICK s, r : Succession(operator[p], s, r)
    BY <1>4, <2>1, Replacement
  <2>3. /\ s \in Reservations /\ replacement'[s].successor = r
        /\ session[r].status = "none"
        /\ \A x \in Reservations \ {s} : replacement'[x] = replacement[x]
    BY <2>2 DEF Succession, Status, Types
  <2>4. ASSUME NEW x \in Reservations, NEW e, e = replacement'[x], e # Never
        PROVE  /\ Earned(x, e)'
               /\ x # s => e.successor # r
    <3>1. CASE x = s
      BY <2>2, <2>4, <3>1, SuccessionEarned
    <3>2. CASE x # s
      BY <1>2, <2>3, <2>4, <3>2
    <3> QED
      BY <3>1, <3>2
  <2>5. ASSUME NEW x \in Reservations, NEW y \in Reservations \ {x},
               replacement'[x] # Never, replacement'[y] # Never
        PROVE  replacement'[y].successor # replacement'[x].successor
    <3>1. CASE x = s \/ y = s
      BY <2>3, <2>4, <2>5, <3>1
    <3>2. CASE x # s /\ y # s
      BY <2>3, <2>5, <3>2 DEF ReplacementsEarned
    <3> QED
      BY <3>1, <3>2
  <2> QED
    BY <2>4, <2>5 DEF ReplacementsEarned, Earned
<1> QED
  BY <1>3, <1>4

\* A replacement retires a session that was paused, after a recovery that was
\* observed to last and in which no blocked observation is on record; no
\* session succeeds two (replace_paused_controlled_session_sync).
THEOREM SessionsReplacementsEarned == Spec => []ReplacementsEarned
<1>1. Init => Types /\ Aimed /\ ReplacementsEarned
  BY TypesInit, AimedInit DEF Init, ReplacementsEarned
<1>2. Types /\ Aimed /\ ReplacementsEarned /\ [Next]_vars
        => (Types /\ Aimed /\ ReplacementsEarned)'
  BY TypesStep, AimedStep, EarnedStep
<1> QED
  BY <1>1, <1>2, PTL DEF Spec
-----------------------------------------------------------------------------
(***************************************************************************)
(* Admissions, and the authority that sessions implement.                  *)
(***************************************************************************)
\* What an admission adds.
LEMMA AdmissionAdds ==
    ASSUME Types, NEW a \in Admissions, admissions' = Append(admissions, a)
    PROVE  \A s \in Reservations :
              Admitted(s)' = IF s = a.session THEN Admitted(s) \union {a.order}
                                              ELSE Admitted(s)
<1> DEFINE n == Len(admissions)
<1>1. admissions \in Seq(Admissions) /\ n \in Nat
  BY LenProperties DEF Types
<1>2. DOMAIN admissions = 1..n /\ DOMAIN admissions' = 1..(n + 1)
  BY <1>1, AppendProperties, LenProperties
<1>3. /\ \A i \in 1..n : admissions'[i] = admissions[i]
      /\ admissions'[n + 1] = a
  BY <1>1, AppendProperties
<1> HIDE DEF n
<1>4. 1..(n + 1) = (1..n) \union {n + 1}
  BY <1>1
<1> SUFFICES ASSUME NEW s \in Reservations
             PROVE  Admitted(s)' = IF s = a.session
                                   THEN Admitted(s) \union {a.order}
                                   ELSE Admitted(s)
  OBVIOUS
<1>5. AdmissionsOf(s)' = {i \in (1..n) \union {n + 1} :
                             admissions'[i].session = s}
  BY <1>2, <1>4 DEF AdmissionsOf
<1>6. AdmissionsOf(s) = {i \in 1..n : admissions[i].session = s}
  BY <1>2 DEF AdmissionsOf
<1>7. AdmissionsOf(s)' = IF s = a.session THEN AdmissionsOf(s) \union {n + 1}
                                          ELSE AdmissionsOf(s)
  BY <1>3, <1>5, <1>6
<1>8. \A i \in AdmissionsOf(s) : admissions'[i] = admissions[i]
  BY <1>3, <1>6
<1>9. Admitted(s)' = {admissions'[i].order : i \in AdmissionsOf(s)'}
  BY DEF Admitted
<1> QED
  BY <1>3, <1>7, <1>8, <1>9 DEF Admitted

\* What an admission request does to the admissions.
LEMMA AdmitChange ==
    ASSUME Types, NEW q \in Requests, Admit(q), admissions' # admissions
    PROVE  \E a \in Admissions :
              /\ admissions' = Append(admissions, a)
              /\ a.session \in Reservations /\ a.order \in Orders
              /\ Authorised(a.session, request[q].seen, a.at)
              /\ a.order \notin Admitted(a.session)
              /\ WithinRate(a.session, a.at)
<1> DEFINE c == request[q]
           a == [session |-> c.session, order |-> c.order, at |-> c.at]
<1>1. c.session \in Reservations /\ c.order \in Orders /\ c.at \in Times
  BY DEF Admit, Types, RequestStates, Idle
<1>2. a \in Admissions
  BY <1>1 DEF Admissions
<1>3. /\ admissions' = Append(admissions, a)
      /\ Authorised(c.session, c.seen, c.at)
      /\ c.order \notin Admitted(c.session)
      /\ WithinRate(c.session, c.at)
  BY DEF Admit
<1> QED
  BY <1>1, <1>2, <1>3

\* A session's authority, as it is mapped.
Held(s) ==
    IF session[s].status = "none" THEN "none"
    ELSE IF Enabled(s) /\ ~Paused(s) THEN "open"
    ELSE "stopped"

LEMMA AuthorityOpens ==
    ASSUME NEW r \in Reservations, UNCHANGED admissions,
           Held(r) = "none", Held(r)' = "open",
           \A x \in Reservations \ {r} : Held(x)' = Held(x)
    PROVE  Authority!Open(r)
<1>1. \A x \in Reservations : Admitted(x)' = Admitted(x)
  BY DEF Admitted, AdmissionsOf
<1> QED
  BY <1>1 DEF Authority!Open, Held

LEMMA AuthorityStops ==
    ASSUME NEW r \in Reservations, UNCHANGED admissions,
           Held(r) = "open", Held(r)' = "stopped",
           \A x \in Reservations \ {r} : Held(x)' = Held(x)
    PROVE  Authority!Stop(r)
<1>1. \A x \in Reservations : Admitted(x)' = Admitted(x)
  BY DEF Admitted, AdmissionsOf
<1> QED
  BY <1>1 DEF Authority!Stop, Held

LEMMA AuthorityStutters ==
    ASSUME UNCHANGED admissions,
           \A x \in Reservations : Held(x)' = Held(x)
    PROVE  UNCHANGED Authority!vars
<1>1. \A x \in Reservations : Admitted(x)' = Admitted(x)
  BY DEF Admitted, AdmissionsOf
<1> QED
  BY <1>1 DEF Authority!vars, Held

LEMMA AuthorityPasses ==
    ASSUME Types, UNCHANGED <<session, pausedAt>>, NEW a \in Admissions,
           admissions' = Append(admissions, a),
           a.order \notin Admitted(a.session),
           Enabled(a.session), ~Paused(a.session)
    PROVE  Authority!Pass(a.session, a.order)
<1>1. a.session \in Reservations
  BY DEF Admissions
<1>2. \A x \in Reservations : Held(x)' = Held(x)
  BY DEF Held, Enabled, Paused
<1>3. Held(a.session) = "open"
  BY DEF Held, Enabled
<1>4. [x \in Reservations |-> Admitted(x)]' =
        [[x \in Reservations |-> Admitted(x)] EXCEPT ![a.session] =
            @ \union {a.order}]
  BY <1>1, AdmissionAdds
<1> QED
  BY <1>1, <1>2, <1>3, <1>4 DEF Authority!Pass, Held

LEMMA AuthorityInit == Init => Authority!Init
<1> SUFFICES ASSUME Init PROVE Authority!Init
  OBVIOUS
<1>1. \A s \in Reservations : session[s].status = "none" /\ Admitted(s) = {}
  BY DEF Init, NoSession, Admitted, AdmissionsOf
<1> QED
  BY <1>1 DEF Authority!Init

LEMMA AuthorityStep ==
    ASSUME Types, Aimed, [Next]_vars
    PROVE  Authority!Next \/ UNCHANGED Authority!vars
<1>1. ASSUME NEW r \in Reservations, Authority!Open(r) \/ Authority!Stop(r)
      PROVE  Authority!Next
  BY <1>1 DEF Authority!Next
<1>2. CASE UNCHANGED <<session, pausedAt, admissions>>
  BY <1>2, AuthorityStutters DEF Held, Enabled, Paused
<1>3. ASSUME NEW s \in Reservations, Revoke(s)
      PROVE  Authority!Next \/ UNCHANGED Authority!vars
  <2>1. /\ Status(s) = "enabled" /\ session'[s].status = "revoked"
        /\ \A x \in Reservations \ {s} : session'[x] = session[x]
        /\ UNCHANGED <<pausedAt, admissions>>
    BY <1>3, RevokeChange DEF Revoke, Status
  <2>2. Held(s)' = "stopped" /\ Held(s) \in {"open", "stopped"}
    BY <2>1 DEF Held, Enabled, Status
  <2>3. \A x \in Reservations \ {s} : Held(x)' = Held(x)
    BY <2>1 DEF Held, Enabled, Paused
  <2> QED
    BY <1>1, <2>1, <2>2, <2>3, AuthorityStops, AuthorityStutters
<1>4. ASSUME NEW w \in Watchers, Pause(w)
      PROVE  Authority!Next \/ UNCHANGED Authority!vars
  <2>1. PICK s \in Reservations : s = watch[w].session /\ watch[w].at \in Times
    BY <1>4, Shapes DEF Pause, Types, Pausings
  <2>2. /\ pausedAt'[s] # Never
        /\ \A x \in Reservations \ {s} : pausedAt'[x] = pausedAt[x]
        /\ UNCHANGED <<session, admissions>>
    BY <1>4, <2>1, SessionAssumption DEF Pause, Types, Times
  <2>3. Status(s) # "none"
    BY <1>4, <2>1 DEF Pause, Aimed, Idle
  <2>4. Held(s)' = "stopped" /\ Held(s) \in {"open", "stopped"}
    BY <2>2, <2>3 DEF Held, Enabled, Paused, Status
  <2>5. \A x \in Reservations \ {s} : Held(x)' = Held(x)
    BY <2>2 DEF Held, Enabled, Paused
  <2> QED
    BY <1>1, <2>2, <2>4, <2>5, AuthorityStops, AuthorityStutters
<1>5. ASSUME NEW p \in Operators, Issue(p)
      PROVE  Authority!Next \/ UNCHANGED Authority!vars
  <2>1. UNCHANGED <<pausedAt, admissions>>
    BY <1>5 DEF Issue
  <2>2. CASE session' # session
    <3>1. PICK r \in Reservations :
             /\ Status(r) = "none" /\ session'[r].status = "enabled"
             /\ \A x \in Reservations \ {r} : session'[x] = session[x]
      BY <1>5, <2>2, IssueChange DEF Status
    <3>2. ~ Paused(r)
      BY <3>1 DEF Aimed
    <3>3. Held(r) = "none" /\ Held(r)' = "open"
      BY <2>1, <3>1, <3>2 DEF Held, Enabled, Paused, Status
    <3>4. \A x \in Reservations \ {r} : Held(x)' = Held(x)
      BY <2>1, <3>1 DEF Held, Enabled, Paused
    <3> QED
      BY <1>1, <2>1, <3>3, <3>4, AuthorityOpens
  <2> QED
    BY <1>2, <2>1, <2>2
<1>6. ASSUME NEW p \in Operators, Replace(p)
      PROVE  Authority!Next \/ UNCHANGED Authority!vars
  <2>1. CASE session' # session
    <3>1. PICK s, r : Succession(operator[p], s, r)
      BY <1>6, <2>1, Replacement
    <3>2. /\ s \in Reservations /\ r \in Reservations
          /\ Enabled(s) /\ Paused(s) /\ Status(r) = "none" /\ r # s
          /\ session'[s].status = "revoked" /\ session'[r].status = "enabled"
          /\ \A x \in Reservations \ {s, r} : session'[x] = session[x]
          /\ UNCHANGED <<pausedAt, admissions>>
      BY <3>1 DEF Succession
    <3>3. ~ Paused(r)
      BY <3>2 DEF Aimed
    <3>4. Held(r) = "none" /\ Held(r)' = "open"
      BY <3>2, <3>3 DEF Held, Enabled, Paused, Status
    <3>5. Held(s) = "stopped" /\ Held(s)' = "stopped"
      BY <3>2 DEF Held, Enabled, Paused
    <3>6. \A x \in Reservations \ {r} : Held(x)' = Held(x)
      BY <3>2, <3>5 DEF Held, Enabled, Paused
    <3> QED
      BY <1>1, <3>2, <3>4, <3>6, AuthorityOpens
  <2>2. UNCHANGED <<pausedAt, admissions>>
    BY <1>6 DEF Replace
  <2> QED
    BY <1>2, <2>1, <2>2
<1>7. ASSUME NEW q \in Requests, Admit(q)
      PROVE  Authority!Next \/ UNCHANGED Authority!vars
  <2>1. UNCHANGED <<session, pausedAt>>
    BY <1>7 DEF Admit
  <2>2. CASE admissions' # admissions
    <3>1. PICK a \in Admissions :
             /\ admissions' = Append(admissions, a)
             /\ a.session \in Reservations /\ a.order \in Orders
             /\ Authorised(a.session, request[q].seen, a.at)
             /\ a.order \notin Admitted(a.session)
      BY <1>7, <2>2, AdmitChange
    <3>2. Authority!Pass(a.session, a.order)
      BY <2>1, <3>1, AuthorityPasses DEF Authorised
    <3> QED
      BY <3>1, <3>2 DEF Authority!Next
  <2> QED
    BY <1>2, <2>1, <2>2
<1>8. ASSUME NEW w \in Watchers, Record(w)
      PROVE  UNCHANGED <<session, pausedAt, admissions>>
  BY <1>8 DEF Record
<1> QED
  BY <1>2, <1>3, <1>4, <1>5, <1>6, <1>7, <1>8, Writers

\* Sessions implement the one-way authority: what is paused, revoked or
\* replaced passes nothing more, whatever its requests had read before
\* (admit_controlled_session_order_sync, pause_controlled_session_sync).
THEOREM SessionsOneWay == Spec => OneWayAuthority
<1>1. Init => Types /\ Aimed /\ Authority!Init
  BY TypesInit, AimedInit, AuthorityInit
<1>2. Types /\ Aimed /\ [Next]_vars => (Types /\ Aimed)'
  BY TypesStep, AimedStep
<1>3. Types /\ Aimed /\ [Next]_vars => [Authority!Next]_(Authority!vars)
  BY AuthorityStep
<1> QED
  BY <1>1, <1>2, <1>3, PTL DEF Spec, OneWayAuthority, Authority!Spec

LEMMA DisableStep ==
    ASSUME Types, [Next]_vars, NEW s \in Reservations,
           session[s].status # "none", session[s].rev < control.disabledRev
    PROVE  Admitted(s)' = Admitted(s)
<1>1. CASE UNCHANGED admissions
  BY <1>1 DEF Admitted, AdmissionsOf
<1>2. CASE admissions' # admissions
  <2>1. PICK q \in Requests : Admit(q)
    BY <1>2, Writers DEF Revoke, Record, Pause, Issue, Replace
  <2>2. PICK a \in Admissions :
             /\ admissions' = Append(admissions, a)
             /\ Authorised(a.session, request[q].seen, a.at)
    BY <1>2, <2>1, AdmitChange
  <2>3. session[s].rev \in Nat /\ control.disabledRev \in Nat
    BY Numbers DEF Types, SessionRows, Controls
  <2>4. s # a.session
    BY <2>2, <2>3 DEF Authorised
  <2> QED
    BY <2>2, <2>4, AdmissionAdds
<1> QED
  BY <1>1, <1>2

\* A session issued before the automatic-trading control was last disabled
\* admits nothing more, though the control be enabled again
\* (admit_controlled_session_order_sync).
THEOREM SessionsEndWithDisable == Spec => DisableEndsSessions
<1>1. Init => Types
  BY TypesInit
<1>2. Types /\ [Next]_vars => Types'
  BY TypesStep
<1>3. Types /\ [Next]_vars =>
        [\A s \in Reservations :
            session[s].status # "none" /\ session[s].rev < control.disabledRev
              => Admitted(s)' = Admitted(s)]_vars
  BY DisableStep
<1> QED
  BY <1>1, <1>2, <1>3, PTL DEF Spec, DisableEndsSessions
-----------------------------------------------------------------------------
(***************************************************************************)
(* The shared rate.  As long as admissions commit in clock order, a new    *)
(* one is the latest: it is in no earlier window, and the windows that end *)
(* with it are the one it was counted against, and itself.                 *)
(***************************************************************************)
WindowAt(t) == {k \in DOMAIN admissions : InWindow(k, t)}

LEMMA WindowFinite ==
    ASSUME Types, NEW t
    PROVE  IsFiniteSet(WindowAt(t)) /\ Cardinality(WindowAt(t)) \in Nat
<1>1. Len(admissions) \in Nat /\ DOMAIN admissions = 1..Len(admissions)
  BY LenProperties DEF Types
<1>2. IsFiniteSet(1..Len(admissions))
  BY <1>1, UpTo
<1> QED
  BY <1>1, <1>2, FS_Subset, FS_CardinalityType DEF WindowAt

LEMMA RateStep ==
    ASSUME Types, SharedRateHeld, [Next]_vars
    PROVE  SharedRateHeld'
<1>1. CASE UNCHANGED admissions
  BY <1>1 DEF SharedRateHeld, InOrder, InWindow
<1>2. CASE admissions' # admissions
  <2>1. PICK q \in Requests : Admit(q)
    BY <1>2, Writers DEF Revoke, Record, Pause, Issue, Replace
  <2>2. PICK a \in Admissions : /\ admissions' = Append(admissions, a)
                                /\ a.session \in Reservations
                                /\ WithinRate(a.session, a.at)
    BY <1>2, <2>1, AdmitChange
  <2> DEFINE n == Len(admissions)
             W == WindowAt(a.at)
  <2>3. /\ n \in Nat /\ DOMAIN admissions = 1..n
        /\ DOMAIN admissions' = 1..(n + 1)
        /\ \A k \in 1..n : admissions'[k] = admissions[k]
        /\ admissions'[n + 1] = a
        /\ \A k \in 1..n : admissions[k] \in Admissions
    BY AppendProperties, LenProperties, ElementOfSeq, <2>2 DEF Types
  <2> HIDE DEF n
  <2>4. /\ \A k \in 1..n : admissions[k].at \in Nat
        /\ a.at \in Nat /\ Window \in Nat
    BY <2>3, Numbers, SessionAssumption DEF Admissions
  <2>5. /\ Cardinality(W) < Plan[a.session].rate
        /\ \A k \in W : Cardinality(W) < Plan[admissions[k].session].rate
        /\ W \subseteq 1..n
    BY <2>2, <2>3 DEF WithinRate, WindowAt
  <2>6. IsFiniteSet(W) /\ Cardinality(W) \in Nat
    BY WindowFinite
  <2> HIDE DEF W
  <2> SUFFICES ASSUME InOrder', NEW i \in 1..(n + 1),
                      NEW V, V = {k \in 1..(n + 1) :
                                     /\ admissions'[i].at - Window
                                          < admissions'[k].at
                                     /\ admissions'[k].at <= admissions'[i].at},
                      NEW k \in V
               PROVE  Cardinality(V) <= Plan[admissions'[k].session].rate
    BY <2>3 DEF SharedRateHeld, InWindow
  <2>7. \A x \in 1..n : admissions[x].at <= a.at
    BY <2>3 DEF InOrder
  <2>8. InOrder
    BY <2>3 DEF InOrder
  <2>9. CASE i \in 1..n /\ admissions[i].at < a.at
    <3>1. V = WindowAt(admissions[i].at)
      BY <2>3, <2>4, <2>9 DEF WindowAt, InWindow
    <3>2. k \in 1..n
      BY <2>3, <3>1 DEF WindowAt
    <3> QED
      BY <2>3, <2>8, <2>9, <3>1, <3>2 DEF SharedRateHeld, WindowAt
  <2>10. CASE ~ (i \in 1..n /\ admissions[i].at < a.at)
    <3>1. admissions'[i].at = a.at
      BY <2>3, <2>4, <2>7, <2>10
    <3>2. V \subseteq W \union {n + 1}
      BY <2>3, <3>1 DEF W, WindowAt, InWindow
    <3>3. /\ IsFiniteSet(W \union {n + 1})
          /\ Cardinality(W \union {n + 1}) = Cardinality(W) + 1
      <4>1. n + 1 \notin W
        BY <2>3, <2>5
      <4> QED
        BY <2>6, <4>1, FS_AddElement
    <3>4. Cardinality(V) \in Nat /\ Cardinality(V) <= Cardinality(W) + 1
      BY <3>2, <3>3, FS_Subset, FS_CardinalityType
    <3>5. CASE k \in W
      <4>1. Cardinality(W) < Plan[admissions[k].session].rate
        BY <2>5, <3>5
      <4>2. admissions[k].session \in Reservations /\ admissions'[k] = admissions[k]
        BY <2>3, <2>5, <3>5 DEF Admissions
      <4>3. Plan[admissions[k].session].rate \in Nat
        BY <4>2, Numbers DEF PlanSpace
      <4> QED
        BY <2>6, <3>4, <4>1, <4>2, <4>3
    <3>6. CASE k = n + 1
      <4>1. Plan[a.session].rate \in Nat
        BY <2>2, Numbers DEF PlanSpace
      <4> QED
        BY <2>3, <2>5, <2>6, <3>4, <3>6, <4>1
    <3> QED
      BY <3>2, <3>5, <3>6
  <2> QED
    BY <2>9, <2>10
<1> QED
  BY <1>1, <1>2

\* As long as admissions commit in the order of their clock readings, no rate
\* window of the account holds more of them than the slowest session in it
\* allows (admit_controlled_session_order_sync).
THEOREM SessionsShareRate == Spec => []SharedRateHeld
<1>1. Init => Types /\ SharedRateHeld
  BY TypesInit DEF Init, SharedRateHeld
<1>2. Types /\ SharedRateHeld /\ [Next]_vars => (Types /\ SharedRateHeld)'
  BY TypesStep, RateStep
<1> QED
  BY <1>1, <1>2, PTL DEF Spec
-----------------------------------------------------------------------------
(***************************************************************************)
(* The capacity.  What is reserved fits together at every instant, since   *)
(* reservations that cover one instant overlap; and each admission uses    *)
(* an order of its own reservation, which no other admission uses.         *)
(***************************************************************************)
LEMMA SlotsFinite ==
    ASSUME NEW S \in SUBSET Reservations
    PROVE  IsFiniteSet(Slots(S)) /\ Cardinality(Slots(S)) \in Nat
<1> DEFINE ordersOf == [r \in Reservations |-> Plan[r].orders]
           all == {ordersOf[r] : r \in Reservations}
<1>1. ordersOf \in Surjection(Reservations, all)
  BY DEF Surjection
<1>2. IsFiniteSet(all)
  BY <1>1, SessionAssumption, FS_Surjection
<1>3. \A T \in all : IsFiniteSet(T)
  BY PlanAssumption
<1>4. IsFiniteSet(UNION all)
  BY <1>2, <1>3, FS_UNION
<1>5. IsFiniteSet(Reservations \X UNION all)
  BY <1>4, SessionAssumption, FS_Product
<1>6. Slots(S) \subseteq Reservations \X UNION all
  BY DEF Slots
<1> QED
  BY <1>5, <1>6, FS_Subset, FS_CardinalityType

LEMMA SlotsGrow ==
    ASSUME NEW S \in SUBSET Reservations, NEW T \in SUBSET S
    PROVE  Cardinality(Slots(T)) <= Cardinality(Slots(S))
<1>1. Slots(T) \subseteq Slots(S)
  BY DEF Slots
<1> QED
  BY <1>1, SlotsFinite, FS_Subset

\* What is reserved for any instant fits each reservation that covers it.
ReservedFit ==
    \A t \in Times : \A r \in Cover(t) :
        Cardinality(Slots(Cover(t))) <= Plan[r].slots

LEMMA ReservesOnly ==
    ASSUME [Next]_vars
    PROVE  reserved' = reserved \/ \E r \in Reservations : Reserve(r)
<1> USE DEF authorityVars
<1>1. CASE StartRound \/ Tick \/ GateTurns \/ Crash \/ RuntimeMoves \/ UNCHANGED vars
  BY <1>1, RuntimeMovesOnly DEF StartRound, Tick, GateTurns, Crash, vars
<1>2. CASE Enable \/ Disable
  BY <1>2, Zenon DEF Enable, Disable
<1>3. ASSUME NEW r \in Reservations, Revoke(r) PROVE reserved' = reserved
  BY <1>3 DEF Revoke
<1>4. ASSUME NEW w \in Watchers, Evaluate(w) PROVE reserved' = reserved
  BY <1>4 DEF Evaluate, Capture, Record, Judge, Pause, EvaluationFails
<1>5. ASSUME NEW p \in Operators, Operate(p) PROVE reserved' = reserved
  BY <1>5 DEF Operate, PreviewIssue, Issue, PreviewReplace, Replace
<1>6. ASSUME NEW q \in Requests,
             \/ Admit(q)
             \/ \E s \in Reservations, o \in Orders : PreviewAdmit(q, s, o)
      PROVE  reserved' = reserved
  BY <1>6 DEF Admit, PreviewAdmit
<1> QED
  BY <1>1, <1>2, <1>3, <1>4, <1>5, <1>6 DEF Next, RuntimeMoves

LEMMA ReservedFitStep ==
    ASSUME Types, ReservedFit, [Next]_vars
    PROVE  ReservedFit'
<1>1. CASE reserved' = reserved
  BY <1>1 DEF ReservedFit, Cover
<1>2. ASSUME NEW z \in Reservations, Reserve(z) PROVE ReservedFit'
  <2> DEFINE budget == {x \in reserved : Overlap(z, x)} \union {z}
  <2>1. reserved \subseteq Reservations /\ reserved' = reserved \union {z}
    BY <1>2 DEF Reserve, Types
  <2>2. \A x \in budget : Cardinality(Slots(budget)) <= Plan[x].slots
    BY <1>2 DEF Reserve, BudgetFits
  <2>3. budget \in SUBSET Reservations
    BY <2>1
  <2> HIDE DEF budget
  <2> SUFFICES ASSUME NEW t \in Times, NEW r \in Cover(t)'
               PROVE  Cardinality(Slots(Cover(t)')) <= Plan[r].slots
    BY DEF ReservedFit
  <2>4. CASE ~InPlan(z, t)
    <3>1. Cover(t)' = Cover(t)
      BY <2>1, <2>4 DEF Cover
    <3> QED
      BY <3>1 DEF ReservedFit
  <2>5. CASE InPlan(z, t)
    <3>1. ASSUME NEW x \in Cover(t)' PROVE x \in budget
      <4>1. x \in Reservations /\ InPlan(x, t)
        BY <2>1 DEF Cover
      <4>2. /\ Plan[x].start \in Nat /\ Plan[x].expires \in Nat /\ t \in Nat
            /\ Plan[z].start \in Nat /\ Plan[z].expires \in Nat
        BY <4>1, Numbers DEF PlanSpace
      <4>3. Overlap(z, x)
        BY <2>5, <4>1, <4>2 DEF InPlan, Overlap
      <4> QED
        BY <2>1, <4>3 DEF Cover, budget
    <3>2. Cardinality(Slots(Cover(t)')) <= Cardinality(Slots(budget))
      BY <2>3, <3>1, SlotsGrow
    <3>3. Cardinality(Slots(budget)) <= Plan[r].slots
      BY <2>2, <3>1
    <3>4. Cover(t)' \in SUBSET Reservations /\ Plan[r].slots \in Nat
      BY <2>1, Numbers DEF Cover, PlanSpace
    <3> QED
      BY <2>3, <3>2, <3>3, <3>4, SlotsFinite
  <2> QED
    BY <2>4, <2>5
<1> QED
  BY <1>1, <1>2, ReservesOnly

\* A request and an admission are for an order of the session's reservation,
\* and no two admissions are for the same one.
OrdersPlanned ==
    /\ \A q \in Requests : request[q] # Idle =>
          request[q].order \in Plan[request[q].session].orders
    /\ \A i \in DOMAIN admissions :
          admissions[i].order \in Plan[admissions[i].session].orders

AdmittedOnce ==
    \A i, k \in DOMAIN admissions :
        /\ admissions[i].session = admissions[k].session
        /\ admissions[i].order = admissions[k].order
        => i = k

LEMMA RequestsOnly ==
    ASSUME [Next]_vars
    PROVE  \/ UNCHANGED <<request, admissions>>
           \/ Crash
           \/ \E q \in Requests, s \in Reservations, o \in Orders :
                 PreviewAdmit(q, s, o)
           \/ \E q \in Requests : Admit(q)
<1> USE DEF threadVars, authorityVars
<1>1. CASE StartRound \/ Tick \/ GateTurns \/ RuntimeMoves \/ UNCHANGED vars
  BY <1>1, RuntimeMovesOnly DEF StartRound, Tick, GateTurns, vars
<1>2. CASE Enable \/ Disable
  BY <1>2, Zenon DEF Enable, Disable
<1>3. CASE \E r \in Reservations : Reserve(r) \/ Revoke(r)
  BY <1>3 DEF Reserve, Revoke
<1>4. ASSUME NEW w \in Watchers, Evaluate(w)
      PROVE  UNCHANGED <<request, admissions>>
  BY <1>4 DEF Evaluate, Capture, Record, Judge, Pause, EvaluationFails
<1>5. ASSUME NEW p \in Operators, Operate(p)
      PROVE  UNCHANGED <<request, admissions>>
  BY <1>5 DEF Operate, PreviewIssue, Issue, PreviewReplace, Replace
<1> QED
  BY <1>1, <1>2, <1>3, <1>4, <1>5 DEF Next, RuntimeMoves

\* One more admission, for another order of its reservation.
LEMMA AdmissionPlanned ==
    ASSUME Types, OrdersPlanned, AdmittedOnce, NEW q \in Requests, Admit(q)
    PROVE  /\ \A i \in DOMAIN admissions' :
                 admissions'[i].order \in Plan[admissions'[i].session].orders
           /\ AdmittedOnce'
<1> DEFINE c == request[q]
           a == [session |-> c.session, order |-> c.order, at |-> c.at]
           n == Len(admissions)
<1>1. CASE UNCHANGED admissions
  BY <1>1 DEF OrdersPlanned, AdmittedOnce
<1>2. CASE admissions' # admissions
  <2>1. admissions' = Append(admissions, a) /\ c.order \notin Admitted(c.session)
    BY <1>2 DEF Admit
  <2>2. c # Idle /\ c \in RequestStates
    BY DEF Admit, Types, Idle
  <2>3. a \in Admissions /\ a.order \in Plan[a.session].orders
    BY <2>2 DEF RequestStates, Admissions, OrdersPlanned
  <2>4. /\ n \in Nat /\ DOMAIN admissions = 1..n
        /\ DOMAIN admissions' = 1..(n + 1)
        /\ \A k \in 1..n : admissions'[k] = admissions[k]
        /\ admissions'[n + 1] = a
    BY <2>1, <2>3, AppendProperties, LenProperties DEF Types
  <2>5. \A k \in 1..n : admissions[k].session = a.session
                          => admissions[k].order # a.order
    BY <2>1, <2>4 DEF Admitted, AdmissionsOf
  <2> HIDE DEF n, a, c
  <2>6. \A i \in 1..(n + 1) : i \in 1..n \/ i = n + 1
    BY <2>4
  <2>7. \A i \in DOMAIN admissions' :
           admissions'[i].order \in Plan[admissions'[i].session].orders
    BY <2>3, <2>4, <2>6 DEF OrdersPlanned
  <2>8. AdmittedOnce'
    BY <2>4, <2>5, <2>6 DEF AdmittedOnce
  <2> QED
    BY <2>7, <2>8
<1> QED
  BY <1>1, <1>2

LEMMA PlannedStep ==
    ASSUME Types, OrdersPlanned, AdmittedOnce, [Next]_vars
    PROVE  OrdersPlanned' /\ AdmittedOnce'
<1>1. CASE Crash
  BY <1>1 DEF Crash, authorityVars, OrdersPlanned, AdmittedOnce
<1>2. CASE UNCHANGED <<request, admissions>>
  BY <1>2 DEF OrdersPlanned, AdmittedOnce
<1>3. ASSUME NEW q \in Requests, NEW s \in Reservations, NEW o \in Orders,
             PreviewAdmit(q, s, o)
      PROVE  OrdersPlanned' /\ AdmittedOnce'
  <2>1. /\ request' = [request EXCEPT ![q] =
               [step |-> "admit", session |-> s, order |-> o,
                seen |-> Latest(s), at |-> now]]
        /\ o \in Plan[s].orders /\ UNCHANGED admissions
    BY <1>3 DEF PreviewAdmit, Requesting, authorityVars
  <2>2. \A x \in Requests : request'[x] # Idle =>
           request'[x].order \in Plan[request'[x].session].orders
    BY <2>1 DEF OrdersPlanned, Types
  <2> QED
    BY <2>1, <2>2 DEF OrdersPlanned, AdmittedOnce
<1>4. ASSUME NEW q \in Requests, Admit(q)
      PROVE  OrdersPlanned' /\ AdmittedOnce'
  <2>1. request' = [request EXCEPT ![q] = Idle]
    BY <1>4 DEF Admit, Requesting
  <2>2. \A x \in Requests : request'[x] # Idle =>
           request'[x].order \in Plan[request'[x].session].orders
    BY <2>1 DEF OrdersPlanned, Types
  <2> QED
    BY <1>4, <2>2, AdmissionPlanned DEF OrdersPlanned
<1> QED
  BY <1>1, <1>2, <1>3, <1>4, RequestsOnly

\* Each admission under the reservations that cover t takes a slot of its own.
LEMMA AdmissionsTakeSlots ==
    ASSUME Types, OrdersPlanned, AdmittedOnce, NEW t \in Times
    PROVE  LET used == {i \in DOMAIN admissions :
                           admissions[i].session \in Cover(t)}
           IN  /\ IsFiniteSet(used)
               /\ Cardinality(used) <= Cardinality(Slots(Cover(t)))
<1> DEFINE used == {i \in DOMAIN admissions :
                       admissions[i].session \in Cover(t)}
           slot == [i \in used |-> <<admissions[i].session, admissions[i].order>>]
<1>1. Cover(t) \in SUBSET Reservations
  BY DEF Cover, Types
<1>2. \A i \in DOMAIN admissions : admissions[i] \in Admissions
  BY ElementOfSeq, LenProperties DEF Types
<1>3. ASSUME NEW i \in used PROVE slot[i] \in Slots(Cover(t))
  BY <1>2 DEF Admissions, OrdersPlanned, Slots
<1>4. ASSUME NEW i \in used, NEW k \in used, slot[i] = slot[k] PROVE i = k
  BY <1>4 DEF AdmittedOnce
<1>5. slot \in Injection(used, Slots(Cover(t)))
  BY <1>3, <1>4 DEF Injection, IsInjective
<1> QED
  BY <1>1, <1>5, SlotsFinite, FS_Injection

\* Whatever sessions are issued on the budgets that were reserved one by one,
\* and whatever replaces them, together they admit no more orders than any
\* reservation of the window was granted
\* (reserve_controlled_session_budget_sync,
\* admit_controlled_session_order_sync).
THEOREM SessionsWithinCapacity == Spec => []OrdersWithinCapacity
<1> DEFINE Inv == Types /\ ReservedFit /\ OrdersPlanned /\ AdmittedOnce
<1>1. Init => Inv
  <2> SUFFICES ASSUME Init PROVE Inv
    OBVIOUS
  <2>1. ReservedFit /\ OrdersPlanned /\ AdmittedOnce
    BY DEF Init, ReservedFit, Cover, OrdersPlanned, AdmittedOnce
  <2> QED
    BY <2>1, TypesInit
<1>2. Inv /\ [Next]_vars => Inv'
  BY TypesStep, ReservedFitStep, PlannedStep
<1>3. Inv => OrdersWithinCapacity
  <2> SUFFICES ASSUME Inv, NEW t \in Times, NEW r \in Cover(t),
                      NEW used, used = {i \in DOMAIN admissions :
                                           admissions[i].session \in Cover(t)}
               PROVE  Cardinality(used) <= Plan[r].slots
    BY DEF OrdersWithinCapacity
  <2>1. IsFiniteSet(used) /\ Cardinality(used) <= Cardinality(Slots(Cover(t)))
    BY AdmissionsTakeSlots
  <2>2. Cardinality(Slots(Cover(t))) <= Plan[r].slots
    BY DEF ReservedFit
  <2>3. Cover(t) \in SUBSET Reservations /\ Plan[r].slots \in Nat
    BY Numbers DEF Cover, Types, PlanSpace
  <2> QED
    BY <2>1, <2>2, <2>3, SlotsFinite, FS_CardinalityType
<1> QED
  BY <1>1, <1>2, <1>3, PTL DEF Spec
=============================================================================
