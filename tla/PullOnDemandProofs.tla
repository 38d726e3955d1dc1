------------------------ MODULE PullOnDemandProofs ------------------------
(***************************************************************************)
(* Proofs that DemandedPull loses no demand, never sleeps on one, and      *)
(* takes no step that PullOnDemand does not allow, for any number of       *)
(* volumes, stages, passes, faults and kills.                              *)
(***************************************************************************)
EXTENDS DemandedPullProofs

-----------------------------------------------------------------------------
(* What each step leaves alone *)

\* Only these steps change the cluster.
LEMMA ClusterFrame ==
    ASSUME TypeOK, [Next]_vars
    PROVE  \/ UNCHANGED clusterVars
           \/ Advance \/ Push \/ Rotate \/ resume
           \/ \E v \in Volumes, drift \in Drifts : demandPull(v, drift)
           \/ \E v \in Volumes : read(v)
<1> USE DEF clusterVars, kubeletVars, structVars, nodeVars, retryVars, loopVars,
            passVars, boundVars
<1>1. CASE \E actor \in Actors : actOn(actor) \/ demand(actor)
  BY <1>1 DEF actOn, demand
<1>2. CASE \E v \in Volumes : \/ stageReadOnly(v) \/ StageLock(v) \/ stage(v)
                              \/ follow(v) \/ Arrived(v)
  BY <1>2 DEF stageReadOnly, StageLock, stage, follow, Arrived
<1>3. CASE \E v \in Volumes : \/ publishReadOnly(v) \/ republished(v)
                              \/ credentialArrived(v) \/ Unpublish(v) \/ Unstage(v)
                              \/ UnstageUnknown(v) \/ unfollow(v)
  BY <1>3
     DEF publishReadOnly, republished, credentialArrived, Unpublish, Unstage,
         UnstageUnknown, vars, unfollow
<1>4. CASE TakeDemanded \/ DelayFires \/ TakeArrived \/ TimerFires \/ RetryFires
  BY <1>4 DEF TakeDemanded, DelayFires, TakeArrived, TimerFires, RetryFires
<1>5. CASE \/ tick \/ snapshot \/ apply \/ settle
           \/ \E one \in pass.todo : refresh(one)
  BY <1>5 DEF tick, snapshot, refresh, apply, settle
<1>6. CASE Crash
  BY <1>6 DEF Crash
<1>7. CASE UNCHANGED vars
  BY <1>7 DEF vars
<1> HIDE DEF clusterVars, kubeletVars, structVars, nodeVars, retryVars, loopVars,
             passVars, boundVars
<1> QED
  BY <1>1, <1>2, <1>3, <1>4, <1>5, <1>6, <1>7
     DEF TypeOK, Next, ClusterStep, WatchStep, CallStep, KubeletStep, LoopStep

\* Only these steps change the kubelet's calls.
LEMMA KubeletFrame ==
    ASSUME TypeOK, [Next]_vars
    PROVE  \/ UNCHANGED kubeletVars
           \/ Crash
           \/ \E v \in Volumes : \/ stageReadOnly(v) \/ StageLock(v) \/ stage(v)
                                 \/ follow(v) \/ Arrived(v) \/ publishReadOnly(v)
                                 \/ republished(v) \/ credentialArrived(v)
                                 \/ Unpublish(v) \/ Unstage(v) \/ unfollow(v)
           \/ \E actor \in Actors : actOn(actor) \/ demand(actor)
<1> USE DEF clusterVars, kubeletVars, structVars, nodeVars, retryVars, loopVars,
            passVars, boundVars
<1>1. CASE \/ Advance \/ Push \/ Rotate
           \/ \E v \in Volumes, drift \in Drifts : demandPull(v, drift)
  BY <1>1 DEF Advance, Push, Rotate, demandPull
<1>2. CASE \E v \in Volumes : read(v)
  BY <1>2 DEF read
<1>3. CASE \E v \in Volumes : UnstageUnknown(v)
  BY <1>3 DEF UnstageUnknown, vars
<1>4. CASE TakeDemanded \/ DelayFires \/ TakeArrived \/ TimerFires \/ RetryFires
  BY <1>4 DEF TakeDemanded, DelayFires, TakeArrived, TimerFires, RetryFires
<1>5. CASE \/ tick \/ snapshot \/ apply \/ settle
           \/ \E one \in pass.todo : refresh(one)
  BY <1>5 DEF tick, snapshot, refresh, apply, settle
<1>6. CASE resume
  BY <1>6 DEF resume
<1>7. CASE UNCHANGED vars
  BY <1>7 DEF vars
<1> HIDE DEF clusterVars, kubeletVars, structVars, nodeVars, retryVars, loopVars,
             passVars, boundVars
<1> QED
  BY <1>1, <1>2, <1>3, <1>4, <1>5, <1>6, <1>7
     DEF TypeOK, Next, ClusterStep, WatchStep, CallStep, KubeletStep, LoopStep

\* Only these steps change the structs.
LEMMA StructFrame ==
    ASSUME TypeOK, [Next]_vars
    PROVE  \/ UNCHANGED structVars
           \/ apply \/ Crash \/ resume
           \/ \E v \in Volumes : \/ stageReadOnly(v) \/ StageLock(v) \/ stage(v)
                                 \/ publishReadOnly(v) \/ republished(v)
                                 \/ unfollow(v)
           \/ \E actor \in Actors : actOn(actor)
<1> USE DEF clusterVars, kubeletVars, structVars, nodeVars, retryVars, loopVars,
            passVars, boundVars
<1>1. CASE \/ Advance \/ Push \/ Rotate
           \/ \E v \in Volumes, drift \in Drifts : demandPull(v, drift)
  BY <1>1 DEF Advance, Push, Rotate, demandPull
<1>2. CASE \/ \E v \in Volumes : read(v)
           \/ \E actor \in Actors : demand(actor)
  BY <1>2 DEF read, demand
<1>3. CASE \E v \in Volumes : follow(v) \/ Arrived(v)
  BY <1>3 DEF follow, Arrived
<1>4. CASE \E v \in Volumes : \/ credentialArrived(v) \/ Unpublish(v) \/ Unstage(v)
                              \/ UnstageUnknown(v)
  BY <1>4 DEF credentialArrived, Unpublish, Unstage, UnstageUnknown, vars
<1>5. CASE TakeDemanded \/ DelayFires \/ TakeArrived \/ TimerFires \/ RetryFires
  BY <1>5 DEF TakeDemanded, DelayFires, TakeArrived, TimerFires, RetryFires
<1>6. CASE \/ tick \/ snapshot \/ settle
           \/ \E one \in pass.todo : refresh(one)
  BY <1>6 DEF tick, snapshot, refresh, settle
<1>7. CASE UNCHANGED vars
  BY <1>7 DEF vars
<1> HIDE DEF clusterVars, kubeletVars, structVars, nodeVars, retryVars, loopVars,
             passVars, boundVars
<1> QED
  BY <1>1, <1>2, <1>3, <1>4, <1>5, <1>6, <1>7
     DEF TypeOK, Next, ClusterStep, WatchStep, CallStep, KubeletStep, LoopStep

\* Only these steps change the node's own state.
LEMMA NodeFrame ==
    ASSUME TypeOK, [Next]_vars
    PROVE  \/ UNCHANGED nodeVars
           \/ Crash \/ resume
           \/ \E v \in Volumes : \/ read(v) \/ stage(v) \/ follow(v) \/ Arrived(v)
                                 \/ Unstage(v)
           \/ \E actor \in Actors : actOn(actor) \/ demand(actor)
           \/ \E one \in pass.todo : refresh(one)
<1> USE DEF clusterVars, kubeletVars, structVars, nodeVars, retryVars, loopVars,
            passVars, boundVars
<1>1. CASE \/ Advance \/ Push \/ Rotate
           \/ \E v \in Volumes, drift \in Drifts : demandPull(v, drift)
  BY <1>1 DEF Advance, Push, Rotate, demandPull
<1>2. CASE \E v \in Volumes : stageReadOnly(v) \/ StageLock(v)
  BY <1>2 DEF stageReadOnly, StageLock
<1>3. CASE \E v \in Volumes : \/ publishReadOnly(v) \/ republished(v)
                              \/ credentialArrived(v) \/ Unpublish(v)
                              \/ UnstageUnknown(v) \/ unfollow(v)
  BY <1>3
     DEF publishReadOnly, republished, credentialArrived, Unpublish, UnstageUnknown,
         vars, unfollow
<1>4. CASE TakeDemanded \/ DelayFires \/ TakeArrived \/ TimerFires \/ RetryFires
  BY <1>4 DEF TakeDemanded, DelayFires, TakeArrived, TimerFires, RetryFires
<1>5. CASE tick \/ snapshot \/ apply \/ settle
  BY <1>5 DEF tick, snapshot, apply, settle
<1>6. CASE UNCHANGED vars
  BY <1>6 DEF vars
<1> HIDE DEF clusterVars, kubeletVars, structVars, nodeVars, retryVars, loopVars,
             passVars, boundVars
<1> QED
  BY <1>1, <1>2, <1>3, <1>4, <1>5, <1>6
     DEF TypeOK, Next, ClusterStep, WatchStep, CallStep, KubeletStep, LoopStep

\* Only these steps change the loop.
LEMMA LoopFrame ==
    ASSUME TypeOK, [Next]_vars
    PROVE  \/ UNCHANGED loopVars
           \/ \/ TakeDemanded \/ DelayFires \/ TakeArrived \/ TimerFires \/ RetryFires
              \/ tick \/ apply \/ settle \/ Crash \/ resume
           \/ \E v \in Volumes : follow(v) \/ credentialArrived(v) \/ unfollow(v)
           \/ \E actor \in Actors : demand(actor)
<1> USE DEF clusterVars, kubeletVars, structVars, nodeVars, retryVars, loopVars,
            passVars, boundVars
<1>1. CASE \/ Advance \/ Push \/ Rotate
           \/ \E v \in Volumes, drift \in Drifts : demandPull(v, drift)
  BY <1>1 DEF Advance, Push, Rotate, demandPull
<1>2. CASE \/ \E v \in Volumes : read(v)
           \/ \E actor \in Actors : actOn(actor)
  BY <1>2 DEF read, actOn
<1>3. CASE \E v \in Volumes : \/ stageReadOnly(v) \/ StageLock(v) \/ stage(v)
                              \/ Arrived(v)
  BY <1>3 DEF stageReadOnly, StageLock, stage, Arrived
<1>4. CASE \E v \in Volumes : \/ publishReadOnly(v) \/ republished(v) \/ Unpublish(v)
                              \/ Unstage(v) \/ UnstageUnknown(v)
  BY <1>4 DEF publishReadOnly, republished, Unpublish, Unstage, UnstageUnknown, vars
<1>5. CASE \/ snapshot
           \/ \E one \in pass.todo : refresh(one)
  BY <1>5 DEF snapshot, refresh
<1>6. CASE UNCHANGED vars
  BY <1>6 DEF vars
<1> HIDE DEF clusterVars, kubeletVars, structVars, nodeVars, retryVars, loopVars,
             passVars, boundVars
<1> QED
  BY <1>1, <1>2, <1>3, <1>4, <1>5, <1>6
     DEF TypeOK, Next, ClusterStep, WatchStep, CallStep, KubeletStep, LoopStep

\* Only these steps change the pass and the lock.
LEMMA PassFrame ==
    ASSUME TypeOK, [Next]_vars
    PROVE  \/ UNCHANGED passVars
           \/ tick \/ snapshot \/ apply \/ settle \/ Crash
           \/ \E v \in Volumes : StageLock(v) \/ stage(v) \/ unfollow(v)
           \/ \E one \in pass.todo : refresh(one)
<1> USE DEF clusterVars, kubeletVars, structVars, nodeVars, retryVars, loopVars,
            passVars, boundVars
<1>1. CASE \/ Advance \/ Push \/ Rotate
           \/ \E v \in Volumes, drift \in Drifts : demandPull(v, drift)
  BY <1>1 DEF Advance, Push, Rotate, demandPull
<1>2. CASE \/ \E v \in Volumes : read(v)
           \/ \E actor \in Actors : actOn(actor) \/ demand(actor)
  BY <1>2 DEF read, actOn, demand
<1>3. CASE \E v \in Volumes : stageReadOnly(v) \/ follow(v) \/ Arrived(v)
  BY <1>3 DEF stageReadOnly, follow, Arrived
<1>4. CASE \E v \in Volumes : \/ publishReadOnly(v) \/ republished(v)
                              \/ credentialArrived(v) \/ Unpublish(v) \/ Unstage(v)
                              \/ UnstageUnknown(v)
  BY <1>4
     DEF publishReadOnly, republished, credentialArrived, Unpublish, Unstage,
         UnstageUnknown, vars
<1>5. CASE TakeDemanded \/ DelayFires \/ TakeArrived \/ TimerFires \/ RetryFires
  BY <1>5 DEF TakeDemanded, DelayFires, TakeArrived, TimerFires, RetryFires
<1>6. CASE resume
  BY <1>6 DEF resume
<1>7. CASE UNCHANGED vars
  BY <1>7 DEF vars
<1> HIDE DEF clusterVars, kubeletVars, structVars, nodeVars, retryVars, loopVars,
             passVars, boundVars
<1> QED
  BY <1>1, <1>2, <1>3, <1>4, <1>5, <1>6, <1>7
     DEF TypeOK, Next, ClusterStep, WatchStep, CallStep, KubeletStep, LoopStep

\* Only these steps change the driver's life and the faults.
LEMMA BoundFrame ==
    ASSUME TypeOK, [Next]_vars
    PROVE  \/ UNCHANGED boundVars
           \/ Crash \/ resume
           \/ \E v \in Volumes : stage(v)
           \/ \E one \in pass.todo : refresh(one)
<1> USE DEF clusterVars, kubeletVars, structVars, nodeVars, retryVars, loopVars,
            passVars, boundVars
<1>1. CASE \/ Advance \/ Push \/ Rotate
           \/ \E v \in Volumes, drift \in Drifts : demandPull(v, drift)
  BY <1>1 DEF Advance, Push, Rotate, demandPull
<1>2. CASE \/ \E v \in Volumes : read(v)
           \/ \E actor \in Actors : actOn(actor) \/ demand(actor)
  BY <1>2 DEF read, actOn, demand
<1>3. CASE \E v \in Volumes : \/ stageReadOnly(v) \/ StageLock(v) \/ follow(v)
                              \/ Arrived(v)
  BY <1>3 DEF stageReadOnly, StageLock, follow, Arrived
<1>4. CASE \E v \in Volumes : \/ publishReadOnly(v) \/ republished(v)
                              \/ credentialArrived(v) \/ Unpublish(v) \/ Unstage(v)
                              \/ UnstageUnknown(v) \/ unfollow(v)
  BY <1>4
     DEF publishReadOnly, republished, credentialArrived, Unpublish, Unstage,
         UnstageUnknown, vars, unfollow
<1>5. CASE TakeDemanded \/ DelayFires \/ TakeArrived \/ TimerFires \/ RetryFires
  BY <1>5 DEF TakeDemanded, DelayFires, TakeArrived, TimerFires, RetryFires
<1>6. CASE tick \/ snapshot \/ apply \/ settle
  BY <1>6 DEF tick, snapshot, apply, settle
<1>7. CASE UNCHANGED vars
  BY <1>7 DEF vars
<1> HIDE DEF clusterVars, kubeletVars, structVars, nodeVars, retryVars, loopVars,
             passVars, boundVars
<1> QED
  BY <1>1, <1>2, <1>3, <1>4, <1>5, <1>6, <1>7
     DEF TypeOK, Next, ClusterStep, WatchStep, CallStep, KubeletStep, LoopStep

-----------------------------------------------------------------------------
(* Types and clocks *)

\* No call and no pass began after now, and now less the skew is a time.
ClockInv ==
    /\ now > Skew
    /\ \A v \in Volumes : start[v] <= now
    /\ pass # NoPass => pass.start <= now

\* The passes that run.
Running ==
    [pc : {"snapshot", "fetch", "apply"}, start : Nat,
     wanted : SUBSET Volumes, todo : SUBSET Structs,
     cur : Structs \cup {<<>>}, got : 0..MaxCommits,
     failed : BOOLEAN, live : BOOLEAN]

\* NoPass is not one of them.
LEMMA PassRuns == Passes = {NoPass} \cup Running /\ NoPass \notin Running
BY DEF Passes, Running, NoPass

\* TypeOK in parts, each with what the clock says of it.
ClusterType ==
    /\ now \in Nat /\ now > Skew /\ remote \in 1..MaxCommits /\ secret \in Nat
    /\ annotation \in [Volumes -> Nat] /\ due \subseteq Volumes
    /\ asked \in [Volumes -> 0..MaxCommits]
    /\ stamps \in [Volumes -> SUBSET Nat]

CallType == call \in [Volumes -> Calls] /\ published \subseteq Volumes

StructType ==
    /\ gen \in [Volumes -> Nat] /\ key \in [Volumes -> Nat]
    /\ waits \in [Volumes -> BOOLEAN]
    /\ answered \in [Volumes -> 0..(now - Skew)]
    /\ taken \in [Volumes -> Nat]
    /\ tree \in [Volumes -> 0..MaxCommits] /\ start \in [Volumes -> Nat]
    /\ \A v \in Volumes : start[v] <= now

NodeType ==
    /\ staged \subseteq Volumes /\ copy \in 0..MaxCommits
    /\ seen \in [Volumes -> Nat] /\ acting \in [Actors -> Acts]

LoopType ==
    /\ followed \subseteq Volumes /\ wanted \subseteq Volumes
    /\ demanded \in BOOLEAN /\ arrived \in BOOLEAN
    /\ delay \in Nat /\ lastPull \in Nat
    /\ retry \in BOOLEAN /\ wait \in Nat /\ backoff \in Nat
    /\ loop \in { "select", "tick", "pass" }

PassType ==
    /\ lock \in Volumes \cup { "free", "pass" }
    /\ pass = NoPass \/ (pass \in Running /\ pass.start <= now)

BoundType == up \in BOOLEAN /\ faults \in 0..MaxFaults /\ crashes \in 0..MaxCrashes

\* The parts say together what TypeOK and ClockInv say.
LEMMA TypeParts ==
    TypeOK /\ ClockInv
    <=> ClusterType /\ CallType /\ StructType /\ NodeType /\ LoopType
        /\ PassType /\ BoundType
BY PassRuns DEF TypeOK, ClockInv, ClusterType, CallType, StructType, NodeType,
       LoopType, PassType, BoundType

\* Time only passes.
LEMMA TimePasses ==
    ASSUME TypeOK, [Next]_vars
    PROVE  now' \in Nat /\ now <= now' /\ now' - Skew >= now - Skew
<1>1. now' = now \/ now' = now + 1
  BY ClusterFrame
     DEF clusterVars, Advance, Push, Rotate, resume, demandPull, read
<1> QED
  BY <1>1, PullAssumption DEF TypeOK

\* A jittered wait is a number.
LEMMA JitteredNat ==
    ASSUME NEW limit \in Nat, NEW floor \in Nat, NEW one \in jittered(limit, floor)
    PROVE  one \in Nat
<1>1. Later(floor, limit \div 2) \in Nat
  BY DEF Later
<1> QED
  BY <1>1 DEF jittered

\* A credential that is taken replaces the volume's, and starts the fetch it
\* held back.
LEMMA SecretTaken ==
    ASSUME NEW v \in Volumes, takeSecret(v)
    PROVE  \/ UNCHANGED <<key, waits, call>>
           \/ /\ key' = [key EXCEPT ![v] = secret]
              /\ waits' = [waits EXCEPT ![v] = FALSE]
              /\ \/ call' = [call EXCEPT ![v] = "credential"]
                 \/ ~waits[v] /\ call' = call
  BY DEF takeSecret, Carried

\* Every step keeps the types of the cluster, whose demands are dated after 0.
LEMMA ClusterTypeStep ==
    ASSUME TypeOK,
           ClockInv,
           [Next]_vars
    PROVE  ClusterType'
<1>1. ClusterType
  BY TypeParts
<1> USE DEF clusterVars, kubeletVars, structVars, nodeVars, retryVars, loopVars,
            passVars, boundVars
<1> USE DEF ClusterType
<1>2. CASE UNCHANGED clusterVars
  BY <1>2, <1>1
<1>3. ASSUME Advance PROVE ClusterType'
  BY <1>3, <1>1, PullAssumption DEF Advance
<1>4. ASSUME Push PROVE ClusterType'
  BY <1>4, <1>1, PullAssumption DEF Push
<1>5. ASSUME Rotate PROVE ClusterType'
  BY <1>5, <1>1 DEF Rotate
<1>6. ASSUME NEW v \in Volumes, NEW drift \in Drifts, demandPull(v, drift)
     PROVE  ClusterType'
  BY <1>6, <1>1, DriftAssumption, PullAssumption DEF demandPull
<1>7. ASSUME NEW v \in Volumes, read(v) PROVE ClusterType'
  BY <1>7, <1>1 DEF read
<1>8. ASSUME resume PROVE ClusterType'
  BY <1>8, <1>1 DEF resume
<1> HIDE DEF ClusterType, clusterVars, kubeletVars, structVars, nodeVars, retryVars,
             loopVars, passVars, boundVars
<1> QED
  BY <1>2, <1>3, <1>4, <1>5, <1>6, <1>7, <1>8, ClusterFrame

\* Every step keeps the types of the kubelet's calls.
LEMMA CallTypeStep ==
    ASSUME TypeOK,
           ClockInv,
           [Next]_vars
    PROVE  CallType'
<1>1. CallType
  BY TypeParts
<1> USE DEF clusterVars, kubeletVars, structVars, nodeVars, retryVars, loopVars,
            passVars, boundVars
<1> USE DEF CallType, Calls
<1>2. CASE UNCHANGED kubeletVars
  BY <1>2, <1>1
<1>3. ASSUME NEW actor \in Actors, actOn(actor) PROVE CallType'
  BY <1>3, <1>1 DEF actOn, AfterAct
<1>4. ASSUME NEW actor \in Actors, demand(actor) PROVE CallType'
  BY <1>4, <1>1 DEF demand, AfterAct, wake
<1>5. ASSUME NEW v \in Volumes, stageReadOnly(v) PROVE CallType'
  BY <1>5, <1>1 DEF stageReadOnly, Carried
<1>6. ASSUME NEW v \in Volumes, StageLock(v) PROVE CallType'
  BY <1>6, <1>1 DEF StageLock
<1>7. ASSUME NEW v \in Volumes, stage(v) PROVE CallType'
  BY <1>7, <1>1 DEF stage, FetchFails, Fault
<1>8. ASSUME NEW v \in Volumes, follow(v) PROVE CallType'
  BY <1>8, <1>1 DEF follow, NewLoop
<1>9. ASSUME NEW v \in Volumes, Arrived(v) PROVE CallType'
  BY <1>9, <1>1 DEF Arrived
<1>10. ASSUME NEW v \in Volumes, publishReadOnly(v) PROVE CallType'
  BY <1>10, <1>1 DEF publishReadOnly, takeSecret, Carried
<1>11. ASSUME NEW v \in Volumes, republished(v) PROVE CallType'
  BY <1>11, <1>1 DEF republished, takeSecret, Carried
<1>12. ASSUME NEW v \in Volumes, credentialArrived(v) PROVE CallType'
  BY <1>12, <1>1 DEF credentialArrived, CredentialWakes
<1>13. ASSUME NEW v \in Volumes, Unpublish(v) PROVE CallType'
  BY <1>13, <1>1 DEF Unpublish
<1>14. ASSUME NEW v \in Volumes, Unstage(v) PROVE CallType'
  BY <1>14, <1>1 DEF Unstage
<1>15. ASSUME NEW v \in Volumes, unfollow(v) PROVE CallType'
  BY <1>15, <1>1 DEF unfollow, NewLoop
<1>16. ASSUME Crash PROVE CallType'
  BY <1>16, <1>1 DEF Crash, NewLoop
<1> HIDE DEF CallType, Calls, clusterVars, kubeletVars, structVars, nodeVars,
             retryVars, loopVars, passVars, boundVars
<1> QED
  BY <1>2, <1>3, <1>4, <1>5, <1>6, <1>7, <1>8, <1>9, <1>10, <1>11, <1>12, <1>13, <1>14,
     <1>15, <1>16, KubeletFrame

\* Every step keeps the types of the structs, and answers no demand that is
\* dated later than now less the skew.
LEMMA StructTypeStep ==
    ASSUME TypeOK,
           ClockInv,
           [Next]_vars
    PROVE  StructType'
<1>1. StructType /\ NodeType /\ ClusterType /\ LoopType /\ PassType
  BY TypeParts
<1> USE DEF clusterVars, kubeletVars, structVars, nodeVars, retryVars, loopVars,
            passVars, boundVars
<1> USE DEF StructType
<1>2. CASE UNCHANGED structVars
  <2>1. 0..(now - Skew) \subseteq 0..(now' - Skew)
    BY <1>1, TimePasses, PullAssumption DEF ClusterType
  <2>2. \A v \in Volumes : start[v] <= now'
    BY <1>1, TimePasses DEF ClusterType
  <2> QED
    BY <1>1, <1>2, <2>1, <2>2
<1>3. ASSUME NEW actor \in Actors, actOn(actor) PROVE StructType'
  BY <1>3, <1>1, PullAssumption
     DEF actOn, AfterAct, answersBefore, Later, NodeType, ClusterType, Acts, NoAct
<1>4. ASSUME NEW v \in Volumes, stageReadOnly(v) PROVE StructType'
  BY <1>4, <1>1, PullAssumption DEF stageReadOnly, Carried, ClusterType
<1>5. ASSUME NEW v \in Volumes, StageLock(v) PROVE StructType'
  BY <1>5, <1>1, PullAssumption DEF StageLock, ClusterType
<1>6. ASSUME NEW v \in Volumes, stage(v) PROVE StructType'
  BY <1>6, <1>1, PullAssumption
     DEF stage, FetchFails, Fault, answersBefore, Later, NodeType, ClusterType
<1>7. ASSUME NEW v \in Volumes, publishReadOnly(v) PROVE StructType'
  <2>1. CASE UNCHANGED <<key, waits>>
    BY <1>1, <1>7, <2>1 DEF publishReadOnly
  <2>2. CASE /\ key' = [key EXCEPT ![v] = secret]
             /\ waits' = [waits EXCEPT ![v] = FALSE]
    BY <1>1, <1>7, <2>2 DEF publishReadOnly, ClusterType
  <2> QED
    BY <1>7, <2>1, <2>2, SecretTaken DEF publishReadOnly
<1>8. ASSUME NEW v \in Volumes, republished(v) PROVE StructType'
  <2>1. CASE UNCHANGED <<key, waits>>
    BY <1>1, <1>8, <2>1 DEF republished
  <2>2. CASE /\ key' = [key EXCEPT ![v] = secret]
             /\ waits' = [waits EXCEPT ![v] = FALSE]
    BY <1>1, <1>8, <2>2 DEF republished, ClusterType
  <2> QED
    BY <1>8, <2>1, <2>2, SecretTaken DEF republished
<1>9. ASSUME NEW v \in Volumes, unfollow(v) PROVE StructType'
  BY <1>9, <1>1, PullAssumption DEF unfollow, NewLoop
<1>10. ASSUME apply PROVE StructType'
  <2>1. pass \in Running /\ pass.start <= now
    BY <1>1, <1>10 DEF apply, PassType, NoPass
  <2>2. /\ pass.got \in 0..MaxCommits
        /\ pass.start \in Nat
    BY <2>1 DEF Running
  <2>3. CASE UNCHANGED <<tree, answered>>
    BY <1>1, <1>10, <2>3 DEF apply
  <2>4. CASE \E v \in Volumes :
            /\ tree' = [tree EXCEPT ![v] = pass.got]
            /\ answered' = [answered EXCEPT ![v] = answersBefore(v, pass.start)]
    <3>1. PICK v \in Volumes :
             /\ tree' = [tree EXCEPT ![v] = pass.got]
             /\ answered' = [answered EXCEPT ![v] = answersBefore(v, pass.start)]
      BY <2>4
    <3>2. answersBefore(v, pass.start) \in 0..(now - Skew)
      BY <1>1, <2>1, <2>2, PullAssumption
         DEF answersBefore, Later, ClusterType
    <3>3. answered' \in [Volumes -> 0..(now - Skew)]
      BY <1>1, <3>1, <3>2
    <3> QED
      BY <1>1, <1>10, <2>2, <3>1, <3>3 DEF apply
  <2> QED
    BY <1>1, <1>10, <2>3, <2>4 DEF apply, Held, LoopType
<1>11. ASSUME Crash PROVE StructType'
  BY <1>11, <1>1, PullAssumption DEF Crash, NewLoop, ClusterType
<1>12. ASSUME resume PROVE StructType'
  BY <1>12, <1>1, PullAssumption DEF resume, answersBefore, Later, ClusterType
<1> HIDE DEF StructType, clusterVars, kubeletVars, structVars, nodeVars, retryVars,
             loopVars, passVars, boundVars
<1> QED
  BY <1>2, <1>3, <1>4, <1>5, <1>6, <1>7, <1>8, <1>9, <1>10, <1>11, <1>12, StructFrame

\* Every step keeps the types of the node's own state.
LEMMA NodeTypeStep ==
    ASSUME TypeOK,
           ClockInv,
           [Next]_vars
    PROVE  NodeType'
<1>1. NodeType /\ ClusterType /\ StructType /\ CallType
  BY TypeParts
<1> USE DEF clusterVars, kubeletVars, structVars, nodeVars, retryVars, loopVars,
            passVars, boundVars
<1> USE DEF NodeType, Acts, Actors, Structs, NoAct
<1>2. CASE UNCHANGED nodeVars
  BY <1>2, <1>1
<1>3. ASSUME NEW v \in Volumes, read(v) PROVE NodeType'
  BY <1>3, <1>1 DEF read, ClusterType
<1>4. ASSUME NEW actor \in Actors, actOn(actor) PROVE NodeType'
  BY <1>4, <1>1 DEF actOn, AfterAct, StructType
<1>5. ASSUME NEW actor \in Actors, demand(actor) PROVE NodeType'
  BY <1>5, <1>1 DEF demand, AfterAct, wake
<1>6. ASSUME NEW v \in Volumes, stage(v) PROVE NodeType'
  BY <1>6, <1>1 DEF stage, FetchFails, Fault, ClusterType
<1>7. ASSUME NEW v \in Volumes, follow(v) PROVE NodeType'
  BY <1>7, <1>1 DEF follow, NewLoop
<1>8. ASSUME NEW v \in Volumes, Arrived(v) PROVE NodeType'
  BY <1>8, <1>1 DEF Arrived
<1>9. ASSUME NEW v \in Volumes, Unstage(v) PROVE NodeType'
  BY <1>9, <1>1 DEF Unstage
<1>10. ASSUME NEW one \in pass.todo, refresh(one) PROVE NodeType'
  BY <1>10, <1>1, PullAssumption DEF refresh, FetchFails, Fault, ClusterType
<1>11. ASSUME Crash PROVE NodeType'
  BY <1>11, <1>1 DEF Crash, NewLoop
<1>12. ASSUME resume PROVE NodeType'
  BY <1>12, <1>1 DEF resume, CallType
<1> HIDE DEF NodeType, Acts, Actors, Structs, NoAct, clusterVars, kubeletVars,
             structVars, nodeVars, retryVars, loopVars, passVars, boundVars
<1> QED
  BY <1>2, <1>3, <1>4, <1>5, <1>6, <1>7, <1>8, <1>9, <1>10, <1>11, <1>12, NodeFrame

\* Every step keeps the types of the loop.
LEMMA LoopTypeStep ==
    ASSUME TypeOK,
           ClockInv,
           [Next]_vars
    PROVE  LoopType'
<1>1. LoopType /\ NodeType /\ PassType /\ CallType /\ ClusterType
  BY TypeParts
<1> USE DEF clusterVars, kubeletVars, structVars, nodeVars, retryVars, loopVars,
            passVars, boundVars
<1> USE DEF LoopType
<1>2. CASE UNCHANGED loopVars
  BY <1>2, <1>1
<1>3. ASSUME NEW actor \in Actors, demand(actor) PROVE LoopType'
  <2>1. acting[actor] \in [pc : {"demand"}, of : Structs]
    BY <1>1, <1>3 DEF demand, NodeType, Acts, NoAct
  <2>2. acting[actor].of[1] \in Volumes
    BY <2>1 DEF Structs
  <2> QED
    BY <1>1, <1>3, <2>2 DEF demand, wake
<1>4. ASSUME NEW v \in Volumes, follow(v) PROVE LoopType'
  <2>1. CASE NewLoop
    BY <1>1, <1>4, <2>1 DEF follow, NewLoop
  <2>2. CASE ~NewLoop
    BY <1>1, <1>4, <2>2 DEF follow
  <2> QED
    BY <2>1, <2>2
<1>5. ASSUME NEW v \in Volumes, credentialArrived(v) PROVE LoopType'
  BY <1>5, <1>1 DEF credentialArrived, CredentialWakes
<1>6. ASSUME NEW v \in Volumes, unfollow(v) PROVE LoopType'
  <2>1. CASE NewLoop
    BY <1>1, <1>6, <2>1 DEF unfollow, NewLoop
  <2>2. CASE ~NewLoop
    BY <1>1, <1>6, <2>2 DEF unfollow
  <2> QED
    BY <2>1, <2>2
<1>7. ASSUME TakeDemanded PROVE LoopType'
  <2>1. delay' = delay \/ delay' = lastPull + DemandMin
    BY <1>7 DEF TakeDemanded
  <2>2. delay' \in Nat
    BY <1>1, <2>1, PullAssumption
  <2> QED
    BY <1>1, <1>7, <2>2 DEF TakeDemanded
<1>8. ASSUME DelayFires PROVE LoopType'
  BY <1>8, <1>1 DEF DelayFires
<1>9. ASSUME TakeArrived PROVE LoopType'
  BY <1>9, <1>1 DEF TakeArrived
<1>10. ASSUME TimerFires PROVE LoopType'
  BY <1>10, <1>1 DEF TimerFires
<1>11. ASSUME RetryFires PROVE LoopType'
  BY <1>11, <1>1 DEF RetryFires
<1>12. ASSUME tick PROVE LoopType'
  BY <1>12, <1>1 DEF tick, answeredBy, ClusterType
<1>13. ASSUME apply PROVE LoopType'
  BY <1>13, <1>1 DEF apply, PassType, Running, Structs, NoPass, WantedStill, Held
<1>14. ASSUME settle PROVE LoopType'
  <2>1. nextRetry \in Nat
    BY <1>1, NextRetryBounds
  <2>2. wait' = wait \/ wait' = 0 \/ wait' \in jittered(nextRetry, DemandMin)
    BY <1>14 DEF settle
  <2>3. wait' \in Nat
    BY <1>1, <2>1, <2>2, JitteredNat, PullAssumption
  <2> QED
    BY <1>1, <1>14, <2>1, <2>3 DEF settle
<1>15. ASSUME Crash PROVE LoopType'
  BY <1>15, <1>1 DEF Crash, NewLoop
<1>16. ASSUME resume PROVE LoopType'
  BY <1>16, <1>1 DEF resume, Resumed, CallType
<1> HIDE DEF LoopType, clusterVars, kubeletVars, structVars, nodeVars, retryVars,
             loopVars, passVars, boundVars
<1> QED
  BY <1>2, <1>3, <1>4, <1>5, <1>6, <1>7, <1>8, <1>9, <1>10, <1>11, <1>12, <1>13, <1>14,
     <1>15, <1>16, LoopFrame

\* Every step keeps the types of the pass and the lock.
LEMMA PassTypeStep ==
    ASSUME TypeOK,
           ClockInv,
           [Next]_vars
    PROVE  PassType'
<1>1. PassType /\ LoopType /\ StructType /\ ClusterType
  BY TypeParts
<1> USE DEF clusterVars, kubeletVars, structVars, nodeVars, retryVars, loopVars,
            passVars, boundVars
<1> USE DEF PassType, NoPass
<1>2. CASE UNCHANGED passVars
  <2>1. pass # NoPass => pass.start \in Nat
    BY <1>1 DEF Running
  <2> QED
    BY <1>1, <1>2, <2>1, TimePasses DEF ClusterType
<1>3. ASSUME NEW v \in Volumes, StageLock(v) PROVE PassType'
  BY <1>3, <1>1 DEF StageLock
<1>4. ASSUME NEW v \in Volumes, stage(v) PROVE PassType'
  BY <1>4, <1>1 DEF stage, FetchFails, Fault
<1>5. ASSUME NEW v \in Volumes, unfollow(v) PROVE PassType'
  <2>1. CASE UNCHANGED pass
    BY <1>1, <1>5, <2>1 DEF unfollow
  <2>2. CASE pass # NoPass /\ pass' = [pass EXCEPT !.live = FALSE]
    <3>1. pass' \in Running /\ pass'.start = pass.start
      BY <1>1, <2>2 DEF Running
    <3> QED
      BY <1>1, <1>5, <2>2, <3>1 DEF unfollow
  <2> QED
    BY <1>5, <2>1, <2>2 DEF unfollow
<1>6. ASSUME tick PROVE PassType'
  <2>1. pass' \in Running /\ pass'.start = now
    BY <1>1, <1>6, PullAssumption DEF tick, Running, LoopType, ClusterType
  <2> QED
    BY <1>1, <1>6, <2>1 DEF tick, ClusterType
<1>7. ASSUME snapshot PROVE PassType'
  <2>1. /\ pass \in Running /\ pass.start <= now
        /\ UNCHANGED <<now, lock>>
    BY <1>1, <1>7 DEF snapshot
  <2> DEFINE todo == IF pass.live THEN { <<v, gen[v]>> : v \in followed } ELSE {}
  <2>2. todo \in SUBSET Structs
    BY <1>1 DEF LoopType, StructType, Structs
  <2>3. pass' = [pass EXCEPT !.pc = "fetch", !.todo = todo]
    BY <1>7 DEF snapshot
  <2> HIDE DEF todo
  <2>4. pass' \in Running /\ pass'.start = pass.start
    BY <2>1, <2>2, <2>3 DEF Running
  <2> QED
    BY <1>1, <2>1, <2>4
<1>8. ASSUME NEW one \in pass.todo, refresh(one) PROVE PassType'
  <2>1. /\ pass \in Running /\ pass.start <= now
        /\ UNCHANGED <<now, lock>>
    BY <1>1, <1>8 DEF refresh
  <2> DEFINE rest == pass.todo \ {one}
             Applies(got) == [pass EXCEPT !.pc = "apply", !.cur = one,
                                          !.todo = rest, !.got = got]
  <2>2. \/ pass' = [pass EXCEPT !.todo = rest]
        \/ pass' = Applies(remote)
        \/ pass' = Applies(0)
    BY <1>8 DEF refresh
  <2>3. remote \in 0..MaxCommits /\ 0 \in 0..MaxCommits
    BY <1>1, PullAssumption DEF ClusterType
  <2>4. pass' \in Running /\ pass'.start = pass.start
    BY <2>1, <2>2, <2>3 DEF Running
  <2> QED
    BY <1>1, <2>1, <2>4
<1>9. ASSUME apply PROVE PassType'
  <2>1. /\ pass \in Running /\ pass.start <= now
        /\ UNCHANGED <<now, lock>>
    BY <1>1, <1>9 DEF apply
  <2>2. PICK again \in BOOLEAN :
           pass' = [pass EXCEPT !.pc = "fetch", !.cur = <<>>, !.got = 0,
                                !.failed = again]
    BY <2>1, <1>9 DEF apply, Failing, Running
  <2>3. 0 \in 0..MaxCommits
    BY PullAssumption
  <2>4. pass' \in Running /\ pass'.start = pass.start
    BY <2>1, <2>2, <2>3 DEF Running
  <2> QED
    BY <1>1, <2>1, <2>4
<1>10. ASSUME settle PROVE PassType'
  BY <1>10, <1>1 DEF settle
<1>11. ASSUME Crash PROVE PassType'
  BY <1>11, <1>1 DEF Crash, NewLoop
<1> HIDE DEF PassType, NoPass, clusterVars, kubeletVars, structVars, nodeVars,
             retryVars, loopVars, passVars, boundVars
<1> QED
  BY <1>2, <1>3, <1>4, <1>5, <1>6, <1>7, <1>8, <1>9, <1>10, <1>11, PassFrame

\* Every step keeps the types of the driver's life and its faults.
LEMMA BoundTypeStep ==
    ASSUME TypeOK,
           ClockInv,
           [Next]_vars
    PROVE  BoundType'
<1>1. BoundType
  BY TypeParts
<1> USE DEF clusterVars, kubeletVars, structVars, nodeVars, retryVars, loopVars,
            passVars, boundVars
<1> USE DEF BoundType
<1>2. CASE UNCHANGED boundVars
  BY <1>2, <1>1, PullAssumption
<1>3. ASSUME NEW v \in Volumes, stage(v) PROVE BoundType'
  BY <1>3, <1>1, PullAssumption DEF stage, FetchFails, Fault
<1>4. ASSUME NEW one \in pass.todo, refresh(one) PROVE BoundType'
  BY <1>4, <1>1, PullAssumption DEF refresh, FetchFails, Fault
<1>5. ASSUME Crash PROVE BoundType'
  <2>1. crashes' \in 0..MaxCrashes
    BY <1>1, <1>5, PullAssumption DEF Crash
  <2> QED
    BY <1>1, <1>5, <2>1 DEF Crash
<1>6. ASSUME resume PROVE BoundType'
  BY <1>6, <1>1, PullAssumption DEF resume
<1> HIDE DEF BoundType, clusterVars, kubeletVars, structVars, nodeVars, retryVars,
             loopVars, passVars, boundVars
<1> QED
  BY <1>2, <1>3, <1>4, <1>5, <1>6, BoundFrame

\* No state is ill-typed, and no call, pass or answer is dated after now.
THEOREM PullTypeCorrect == Spec => [](TypeOK /\ ClockInv)
<1>1. Init => TypeOK /\ ClockInv
  <2> SUFFICES ASSUME Init
               PROVE  TypeOK /\ ClockInv
    OBVIOUS
  <2> USE PullAssumption DEF Init
  <2>1. ClusterType /\ CallType
    BY DEF ClusterType, CallType, Calls
  <2>2. StructType
    BY DEF StructType
  <2>3. NodeType
    BY DEF NodeType, Acts, NoAct
  <2>4. LoopType
    BY DEF LoopType
  <2>5. PassType /\ BoundType
    BY DEF PassType, BoundType
  <2> QED
    BY <2>1, <2>2, <2>3, <2>4, <2>5, TypeParts
<1>2. TypeOK /\ ClockInv /\ [Next]_vars => (TypeOK /\ ClockInv)'
  <2> SUFFICES ASSUME TypeOK, ClockInv, [Next]_vars
               PROVE  (TypeOK /\ ClockInv)'
    OBVIOUS
  <2>1. TypeOK' /\ ClockInv'
        <=> ClusterType' /\ CallType' /\ StructType' /\ NodeType' /\ LoopType'
            /\ PassType' /\ BoundType'
    BY PassRuns DEF TypeOK, ClockInv, ClusterType, CallType, StructType,
       NodeType, LoopType, PassType, BoundType
  <2> QED
    BY <2>1, ClusterTypeStep, CallTypeStep, StructTypeStep, NodeTypeStep,
       LoopTypeStep, PassTypeStep, BoundTypeStep
<1> QED
  BY <1>1, <1>2, PTL DEF Spec

-----------------------------------------------------------------------------
(* What a pass goes on with *)

\* A pass keeps its time and the volumes that were wanted when it began.
GoesOn ==
    /\ pass # NoPass /\ pass' # NoPass
    /\ pass'.start = pass.start /\ pass'.wanted = pass.wanted

\* The pass that begins.
LEMMA TickPass ==
    ASSUME tick
    PROVE  /\ pass' # NoPass
           /\ pass'.pc = "snapshot" /\ pass'.start = now /\ pass'.wanted = wanted
           /\ pass'.todo = {} /\ pass'.got = 0
           /\ pass'.failed = FALSE /\ pass'.live = TRUE
BY DEF tick, NoPass

\* The pass takes the structs the loop follows, if the loop still runs.
LEMMA SnapshotPass ==
    ASSUME TypeOK, snapshot
    PROVE  /\ GoesOn
           /\ pass.pc = "snapshot" /\ pass'.pc = "fetch"
           /\ pass'.todo = IF pass.live THEN { <<v, gen[v]>> : v \in followed }
                                        ELSE {}
           /\ pass'.got = pass.got
           /\ pass'.failed = pass.failed /\ pass'.live = pass.live
<1>1. pass \in Running
  BY PassRuns DEF TypeOK, snapshot, NoPass
<1> DEFINE todo == IF pass.live THEN { <<v, gen[v]>> : v \in followed } ELSE {}
<1>2. pass' = [pass EXCEPT !.pc = "fetch", !.todo = todo]
  BY DEF snapshot
<1>3. pass.pc = "snapshot"
  BY DEF snapshot
<1> HIDE DEF todo
<1>4. pass'.pc = "fetch" /\ pass'.todo = todo
  BY <1>1, <1>2 DEF Running
<1>5. pass' # NoPass
  BY <1>4 DEF NoPass
<1>6. pass # NoPass
  BY <1>3 DEF NoPass
<1>7. /\ pass'.start = pass.start /\ pass'.wanted = pass.wanted
      /\ pass'.got = pass.got
      /\ pass'.failed = pass.failed /\ pass'.live = pass.live
  BY <1>1, <1>2 DEF Running
<1> QED
  BY <1>3, <1>4, <1>5, <1>6, <1>7 DEF GoesOn, todo

\* A volume that waits for its credential is passed over, another is fetched,
\* with what the remote has or with nothing.
LEMMA RefreshPass ==
    ASSUME TypeOK, NEW one \in pass.todo, refresh(one)
    PROVE  /\ GoesOn
           /\ pass.pc = "fetch" /\ pass'.todo = pass.todo \ {one}
           /\ pass'.failed = pass.failed /\ pass'.live = pass.live
           /\ \/ /\ Held(one[1], one[2]) /\ waits[one[1]]
                 /\ pass'.pc = "fetch" /\ pass'.got = pass.got /\ copy' = copy
              \/ /\ pass.live /\ pass'.pc = "apply" /\ pass'.cur = one
                 /\ pass'.got = remote /\ copy' = remote
              \/ /\ pass'.pc = "apply" /\ pass'.cur = one
                 /\ pass'.got = 0 /\ copy' = copy
<1>1. pass \in Running
  BY PassRuns DEF TypeOK, refresh, NoPass
<1> DEFINE rest == pass.todo \ {one}
           Applies(got) == [pass EXCEPT !.pc = "apply", !.cur = one,
                                        !.todo = rest, !.got = got]
<1>2. \/ /\ Held(one[1], one[2]) /\ waits[one[1]] /\ copy' = copy
         /\ pass' = [pass EXCEPT !.todo = rest]
      \/ pass.live /\ pass' = Applies(remote) /\ copy' = remote
      \/ pass' = Applies(0) /\ copy' = copy
  BY DEF refresh
<1>3. pass.pc = "fetch"
  BY DEF refresh
<1>4. pass # NoPass
  BY <1>3 DEF NoPass
<1>5. pass'.pc = pass.pc \/ pass'.pc = "apply"
  BY <1>1, <1>2 DEF Running
<1>6. pass' # NoPass
  BY <1>3, <1>5 DEF NoPass
<1>7. /\ pass'.start = pass.start /\ pass'.wanted = pass.wanted
      /\ pass'.failed = pass.failed /\ pass'.live = pass.live
      /\ pass'.todo = rest
  BY <1>1, <1>2 DEF Running
<1>8. CASE pass' = [pass EXCEPT !.todo = rest]
  BY <1>1, <1>2, <1>3, <1>4, <1>6, <1>7, <1>8 DEF Running, GoesOn
<1>9. ASSUME NEW got, pass' = Applies(got)
      PROVE  pass'.pc = "apply" /\ pass'.cur = one /\ pass'.got = got
  BY <1>1, <1>9 DEF Running
<1> HIDE DEF Applies, rest
<1>10. CASE pass.live /\ pass' = Applies(remote) /\ copy' = remote
  BY <1>3, <1>4, <1>6, <1>7, <1>9, <1>10 DEF GoesOn, rest
<1>11. CASE pass' = Applies(0) /\ copy' = copy
  BY <1>3, <1>4, <1>6, <1>7, <1>9, <1>11 DEF GoesOn, rest
<1> QED
  BY <1>2, <1>8, <1>10, <1>11

\* A volume whose fetch failed is wanted again while the node has the struct.
WantedAgain ==
    pass.got = 0 /\ pass.cur[1] \in pass.wanted /\ Held(pass.cur[1], pass.cur[2])

\* The pass places what it fetched. One fetch that a demand waited for and that
\* brought nothing makes it a failed pass.
LEMMA ApplyPass ==
    ASSUME TypeOK, apply
    PROVE  /\ GoesOn
           /\ pass.pc = "apply" /\ pass'.pc = "fetch"
           /\ pass'.todo = pass.todo /\ pass'.got = 0
           /\ pass'.live = pass.live
           /\ pass'.failed <=> pass.failed \/ WantedAgain
<1>1. pass \in Running /\ pass.pc = "apply"
  BY PassRuns DEF TypeOK, apply, NoPass
<1> DEFINE failed == pass.failed \/ WantedAgain
<1>2. pass' = [pass EXCEPT !.pc = "fetch", !.cur = <<>>, !.got = 0,
                           !.failed = failed]
  BY DEF apply, WantedAgain, WantedStill, Failing
<1> HIDE DEF failed
<1>3. /\ pass'.pc = "fetch" /\ pass'.got = 0 /\ pass'.failed = failed
      /\ pass'.todo = pass.todo /\ pass'.live = pass.live
      /\ pass'.start = pass.start /\ pass'.wanted = pass.wanted
  BY <1>1, <1>2 DEF Running
<1>4. pass # NoPass /\ pass' # NoPass
  BY <1>1, <1>3 DEF NoPass
<1> QED
  BY <1>1, <1>3, <1>4 DEF GoesOn, failed

\* What the loop that stops leaves a pass.
LEMMA UnfollowPass ==
    ASSUME TypeOK, NEW v \in Volumes, unfollow(v)
    PROVE  \/ followed # {v} /\ pass' = pass
           \/ followed = {v} /\ pass = NoPass /\ pass' = NoPass
           \/ /\ followed = {v} /\ GoesOn
              /\ pass'.pc = pass.pc /\ pass'.todo = pass.todo
              /\ pass'.cur = pass.cur /\ pass'.got = pass.got
              /\ pass'.failed = pass.failed /\ pass'.live = FALSE
<1>1. CASE followed # {v}
  BY <1>1 DEF unfollow
<1>2. CASE followed = {v} /\ pass = NoPass
  BY <1>2 DEF unfollow
<1>3. CASE followed = {v} /\ pass # NoPass
  <2>1. pass \in Running /\ pass' = [pass EXCEPT !.live = FALSE]
    BY <1>3, PassRuns DEF TypeOK, unfollow
  <2>2. /\ pass'.pc = pass.pc /\ pass'.todo = pass.todo
        /\ pass'.cur = pass.cur /\ pass'.got = pass.got
        /\ pass'.failed = pass.failed /\ pass'.live = FALSE
        /\ pass'.start = pass.start /\ pass'.wanted = pass.wanted
    BY <2>1 DEF Running
  <2>3. pass' # NoPass
    BY <2>1, <2>2 DEF NoPass, Running
  <2> QED
    BY <1>3, <2>2, <2>3 DEF GoesOn
<1> QED
  BY <1>1, <1>2, <1>3


-----------------------------------------------------------------------------
(* The calls, the lock and the structs *)

\* Where each call of the kubelet stands beside the node and the loop, and
\* that a driver that is down runs nothing and remembers nothing.
CallInv ==
    /\ up => published \subseteq staged
    /\ ~up => /\ staged = {} /\ followed = {} /\ pass = NoPass
              /\ \A v \in Volumes : call[v] = "none" /\ seen[v] = 0
              /\ \A actor \in Actors : acting[actor] = NoAct
    /\ \A v \in Volumes :
           /\ v \in staged => v \in followed
           /\ v \in followed => v \in staged \/ call[v] = "unfollow"
           /\ call[v] \in { "lock", "fetch", "add", "unfollow" } => v \notin staged
           /\ call[v] \in { "arrived", "act", "credential" } => v \in staged
           /\ acting[v] # NoAct => call[v] = "act"
           /\ acting[v].pc = "take" => acting[v].of = v

\* One of the pass and the stages' fetches holds the repository's lock.
LockInv ==
    /\ lock = "pass" <=> pass # NoPass
    /\ \A v \in Volumes : call[v] = "fetch" <=> lock = v

\* The structs a pass still holds are ones the node made before it, and no
\* stage is on the way to one of them; a pass whose loop was stopped holds
\* none the node has.
InPass == pass.todo \cup (IF pass.pc = "apply" THEN {pass.cur} ELSE {})

StructsInv ==
    pass # NoPass =>
        \A one \in InPass :
           /\ one \in Structs /\ one[2] <= gen[one[1]]
           /\ one[2] = gen[one[1]] => call[one[1]] \notin { "lock", "fetch", "add" }
           /\ ~pass.live => ~Held(one[1], one[2])

\* Every step keeps the calls in order.
LEMMA CallsKept ==
    ASSUME TypeOK,
           CallInv,
           [Next]_vars
    PROVE  CallInv'
<1>1. CallType /\ NodeType /\ LoopType
  BY DEF TypeOK, CallType, NodeType, LoopType
<1> USE DEF clusterVars, kubeletVars, structVars, nodeVars, retryVars, loopVars,
            passVars, boundVars
<1> USE DEF CallInv, CallType, NodeType, LoopType, Calls
<1>2. CASE UNCHANGED <<kubeletVars, nodeVars, loopVars, passVars, boundVars>>
  BY <1>2, <1>1, VolumesAssumption
<1>3. ASSUME NEW v \in Volumes, read(v) PROVE CallInv'
  BY <1>3, <1>1, VolumesAssumption DEF read, NoAct, Actors, Acts
<1>4. ASSUME NEW actor \in Actors, actOn(actor) PROVE CallInv'
  BY <1>4, <1>1, VolumesAssumption DEF actOn, AfterAct, NoAct, Actors, Acts
<1>5. ASSUME NEW actor \in Actors, demand(actor) PROVE CallInv'
  BY <1>5, <1>1, VolumesAssumption DEF demand, AfterAct, wake, NoAct, Actors, Acts
<1>6. ASSUME NEW v \in Volumes, stageReadOnly(v) PROVE CallInv'
  BY <1>6, <1>1, VolumesAssumption DEF stageReadOnly, Carried
<1>7. ASSUME NEW v \in Volumes, StageLock(v) PROVE CallInv'
  BY <1>7, <1>1, VolumesAssumption DEF StageLock
<1>8. ASSUME NEW v \in Volumes, stage(v) PROVE CallInv'
  BY <1>8, <1>1, VolumesAssumption DEF stage, FetchFails, Fault
<1>9. ASSUME NEW v \in Volumes, follow(v) PROVE CallInv'
  BY <1>9, <1>1, VolumesAssumption DEF follow, NewLoop
<1>10. ASSUME NEW v \in Volumes, Arrived(v) PROVE CallInv'
  BY <1>10, <1>1, VolumesAssumption DEF Arrived, NoAct, Actors, Acts
<1>11. ASSUME NEW v \in Volumes, publishReadOnly(v) PROVE CallInv'
  BY <1>11, <1>1, VolumesAssumption DEF publishReadOnly, takeSecret, Carried
<1>12. ASSUME NEW v \in Volumes, republished(v) PROVE CallInv'
  BY <1>12, <1>1, VolumesAssumption DEF republished, takeSecret, Carried
<1>13. ASSUME NEW v \in Volumes, credentialArrived(v) PROVE CallInv'
  BY <1>13, <1>1, VolumesAssumption DEF credentialArrived, CredentialWakes
<1>14. ASSUME NEW v \in Volumes, Unpublish(v) PROVE CallInv'
  BY <1>14, <1>1, VolumesAssumption DEF Unpublish
<1>15. ASSUME NEW v \in Volumes, Unstage(v) PROVE CallInv'
  BY <1>15, <1>1, VolumesAssumption DEF Unstage
<1>16. ASSUME NEW v \in Volumes, unfollow(v) PROVE CallInv'
  BY <1>16, <1>1, VolumesAssumption, UnfollowPass DEF unfollow, NewLoop, GoesOn
<1>17. CASE \/ TakeDemanded \/ DelayFires \/ TakeArrived \/ TimerFires \/ RetryFires
            \/ settle
  BY <1>17, <1>1, VolumesAssumption
     DEF TakeDemanded, DelayFires, TakeArrived, TimerFires, RetryFires, settle
<1>18. ASSUME tick PROVE CallInv'
  BY <1>18, <1>1, VolumesAssumption, TickPass DEF tick, answeredBy
<1>19. ASSUME snapshot PROVE CallInv'
  BY <1>19, <1>1, VolumesAssumption, SnapshotPass DEF snapshot, GoesOn
<1>20. ASSUME NEW one \in pass.todo, refresh(one) PROVE CallInv'
  BY <1>20, <1>1, VolumesAssumption, RefreshPass DEF refresh, FetchFails, Fault, GoesOn
<1>21. ASSUME apply PROVE CallInv'
  BY <1>21, <1>1, VolumesAssumption, ApplyPass DEF apply, GoesOn
<1>22. ASSUME Crash PROVE CallInv'
  BY <1>22, <1>1, VolumesAssumption DEF Crash, NewLoop, NoAct, Actors, Acts
<1>23. ASSUME resume PROVE CallInv'
  BY <1>23, <1>1, VolumesAssumption DEF resume
<1> HIDE DEF CallInv, CallType, NodeType, LoopType, Calls, clusterVars, kubeletVars,
             structVars, nodeVars, retryVars, loopVars, passVars, boundVars
<1> QED
  BY <1>2, <1>3, <1>4, <1>5, <1>6, <1>7, <1>8, <1>9, <1>10, <1>11, <1>12, <1>13, <1>14,
     <1>15, <1>16, <1>17, <1>18, <1>19, <1>20, <1>21, <1>22, <1>23, KubeletFrame,
          NodeFrame, LoopFrame, PassFrame, BoundFrame

\* Every step leaves the lock with the pass or the stage that holds it.
LEMMA LockKept ==
    ASSUME TypeOK,
           CallInv,
           LockInv,
           [Next]_vars
    PROVE  LockInv'
<1>1. CallType /\ NodeType
  BY DEF TypeOK, CallType, NodeType
<1> USE DEF clusterVars, kubeletVars, structVars, nodeVars, retryVars, loopVars,
            passVars, boundVars
<1> USE DEF LockInv, CallType
<1>2. CASE UNCHANGED <<kubeletVars, passVars>>
  BY <1>2, <1>1, VolumesAssumption
<1>3. ASSUME NEW actor \in Actors, actOn(actor) PROVE LockInv'
  BY <1>3, <1>1, VolumesAssumption DEF actOn, AfterAct, CallInv, NodeType, Actors, NoAct
<1>4. ASSUME NEW actor \in Actors, demand(actor) PROVE LockInv'
  BY <1>4, <1>1, VolumesAssumption
     DEF demand, AfterAct, wake, CallInv, NodeType, Actors, NoAct
<1>5. ASSUME NEW v \in Volumes, stageReadOnly(v) PROVE LockInv'
  BY <1>5, <1>1, VolumesAssumption DEF stageReadOnly, Carried
<1>6. ASSUME NEW v \in Volumes, StageLock(v) PROVE LockInv'
  BY <1>6, <1>1, VolumesAssumption DEF StageLock
<1>7. ASSUME NEW v \in Volumes, stage(v) PROVE LockInv'
  BY <1>7, <1>1, VolumesAssumption DEF stage, FetchFails, Fault
<1>8. ASSUME NEW v \in Volumes, follow(v) PROVE LockInv'
  BY <1>8, <1>1, VolumesAssumption DEF follow, NewLoop
<1>9. ASSUME NEW v \in Volumes, Arrived(v) PROVE LockInv'
  BY <1>9, <1>1, VolumesAssumption DEF Arrived
<1>10. ASSUME NEW v \in Volumes, publishReadOnly(v) PROVE LockInv'
  BY <1>10, <1>1, VolumesAssumption DEF publishReadOnly, takeSecret, Carried
<1>11. ASSUME NEW v \in Volumes, republished(v) PROVE LockInv'
  BY <1>11, <1>1, VolumesAssumption DEF republished, takeSecret, Carried
<1>12. ASSUME NEW v \in Volumes, credentialArrived(v) PROVE LockInv'
  BY <1>12, <1>1, VolumesAssumption DEF credentialArrived, CredentialWakes
<1>13. ASSUME NEW v \in Volumes, Unpublish(v) PROVE LockInv'
  BY <1>13, <1>1, VolumesAssumption DEF Unpublish
<1>14. ASSUME NEW v \in Volumes, Unstage(v) PROVE LockInv'
  BY <1>14, <1>1, VolumesAssumption DEF Unstage
<1>15. ASSUME NEW v \in Volumes, unfollow(v) PROVE LockInv'
  BY <1>15, <1>1, VolumesAssumption, UnfollowPass DEF unfollow, NewLoop, GoesOn
<1>16. ASSUME tick PROVE LockInv'
  BY <1>16, <1>1, VolumesAssumption, TickPass DEF tick, answeredBy
<1>17. ASSUME snapshot PROVE LockInv'
  BY <1>17, <1>1, VolumesAssumption, SnapshotPass DEF snapshot, GoesOn
<1>18. ASSUME NEW one \in pass.todo, refresh(one) PROVE LockInv'
  BY <1>18, <1>1, VolumesAssumption, RefreshPass DEF refresh, FetchFails, Fault, GoesOn
<1>19. ASSUME apply PROVE LockInv'
  BY <1>19, <1>1, VolumesAssumption, ApplyPass DEF apply, GoesOn
<1>20. ASSUME settle PROVE LockInv'
  BY <1>20, <1>1, VolumesAssumption DEF settle, NoPass
<1>21. ASSUME Crash PROVE LockInv'
  BY <1>21, <1>1, VolumesAssumption DEF Crash, NewLoop
<1> HIDE DEF LockInv, CallType, clusterVars, kubeletVars, structVars, nodeVars,
             retryVars, loopVars, passVars, boundVars
<1> QED
  BY <1>2, <1>3, <1>4, <1>5, <1>6, <1>7, <1>8, <1>9, <1>10, <1>11, <1>12, <1>13, <1>14,
     <1>15, <1>16, <1>17, <1>18, <1>19, <1>20, <1>21, KubeletFrame, PassFrame

\* A step of another actor changes nothing for a pass, unless it makes a struct.
LEMMA StructsFrame ==
    ASSUME StructsInv, UNCHANGED <<pass, gen>>, followed' \subseteq followed,
           \A w \in Volumes : call'[w] \in { "lock", "fetch", "add" }
                              => call[w] \in { "lock", "fetch", "add" }
    PROVE  StructsInv'
<1> USE DEF StructsInv, InPass
<1> SUFFICES ASSUME pass # NoPass, NEW one \in InPass
             PROVE  /\ one \in Structs /\ one[2] <= gen[one[1]]
                    /\ one[2] = gen[one[1]]
                       => call'[one[1]] \notin { "lock", "fetch", "add" }
                    /\ ~pass.live => ~Held(one[1], one[2])'
  OBVIOUS
<1>1. one \in Structs /\ one[1] \in Volumes
  BY DEF Structs
<1> QED
  BY <1>1 DEF Held

\* Every step leaves the pass with structs of its time.
LEMMA StructsKept ==
    ASSUME TypeOK,
           CallInv,
           LockInv,
           StructsInv,
           [Next]_vars
    PROVE  StructsInv'
<1>1. CallType /\ NodeType /\ gen \in [Volumes -> Nat]
  BY DEF TypeOK, CallType, NodeType
<1> USE DEF clusterVars, kubeletVars, structVars, nodeVars, retryVars, loopVars,
            passVars, boundVars
<1> USE DEF CallType
<1>2. CASE UNCHANGED <<kubeletVars, structVars, loopVars, passVars>>
  BY <1>2, <1>1, StructsFrame
<1>3. ASSUME NEW actor \in Actors, actOn(actor) PROVE StructsInv'
  BY <1>3, <1>1, StructsFrame DEF actOn, AfterAct
<1>4. ASSUME NEW actor \in Actors, demand(actor) PROVE StructsInv'
  BY <1>4, <1>1, StructsFrame DEF demand, AfterAct, wake
<1>5. ASSUME NEW v \in Volumes, stageReadOnly(v) PROVE StructsInv'
  <2> SUFFICES ASSUME pass # NoPass, NEW one \in InPass
               PROVE  /\ one \in Structs /\ one[2] <= gen'[one[1]]
                      /\ one[2] = gen'[one[1]]
                         => call'[one[1]] \notin { "lock", "fetch", "add" }
                      /\ ~pass.live => ~Held(one[1], one[2])'
    BY <1>5 DEF stageReadOnly, StructsInv, InPass
  <2>1. /\ one \in Structs /\ one[2] <= gen[one[1]]
        /\ one[2] = gen[one[1]]
           => call[one[1]] \notin { "lock", "fetch", "add" }
        /\ ~pass.live => ~Held(one[1], one[2])
    BY DEF StructsInv
  <2>2. one[1] \in Volumes /\ one[2] \in Nat
    BY <2>1 DEF Structs
  <2>3. gen'[one[1]] = gen[one[1]] \/ gen'[one[1]] = gen[one[1]] + 1
    BY <1>1, <1>5, <2>2 DEF stageReadOnly
  <2>4. gen[one[1]] \in Nat
    BY <1>1, <2>2
  <2>5. CASE one[1] = v
    <3>1. one[2] < gen'[one[1]]
      BY <1>1, <1>5, <2>1, <2>2, <2>4, <2>5 DEF stageReadOnly
    <3>2. one[2] <= gen'[one[1]] /\ one[2] # gen'[one[1]]
      BY <2>2, <2>3, <2>4, <3>1
    <3> QED
      BY <2>1, <3>2 DEF Held
  <2>6. CASE one[1] # v
    BY <1>1, <1>5, <2>1, <2>2, <2>6 DEF stageReadOnly, Held
  <2> QED
    BY <2>5, <2>6
<1>6. ASSUME NEW v \in Volumes, StageLock(v) PROVE StructsInv'
  BY <1>6, <1>1, StructsFrame DEF StageLock
<1>7. ASSUME NEW v \in Volumes, stage(v) PROVE StructsInv'
  BY <1>7, <1>1, StructsFrame DEF stage, FetchFails, Fault
<1>8. ASSUME NEW v \in Volumes, follow(v) PROVE StructsInv'
  <2> SUFFICES ASSUME pass # NoPass, NEW one \in InPass
               PROVE  /\ one \in Structs /\ one[2] <= gen[one[1]]
                      /\ one[2] = gen[one[1]]
                         => call'[one[1]] \notin { "lock", "fetch", "add" }
                      /\ ~pass.live => ~Held(one[1], one[2])'
    BY <1>8 DEF follow, StructsInv, InPass
  <2>1. /\ one \in Structs /\ one[2] <= gen[one[1]]
        /\ one[2] = gen[one[1]]
           => call[one[1]] \notin { "lock", "fetch", "add" }
        /\ ~pass.live => ~Held(one[1], one[2])
    BY DEF StructsInv
  <2>2. one[1] \in Volumes
    BY <2>1 DEF Structs
  <2>3. /\ call[v] = "add" /\ followed' = followed \cup {v} /\ gen' = gen
        /\ call' = [call EXCEPT ![v] = "arrived"]
    BY <1>8 DEF follow
  <2> QED
    BY <1>1, <2>1, <2>2, <2>3 DEF Held
<1>9. ASSUME NEW v \in Volumes, Arrived(v) PROVE StructsInv'
  BY <1>9, <1>1, StructsFrame DEF Arrived
<1>10. ASSUME NEW v \in Volumes, publishReadOnly(v) PROVE StructsInv'
  <2>1. /\ UNCHANGED <<pass, gen, followed>>
        /\ \/ call' = call
           \/ call' = [call EXCEPT ![v] = "credential"]
    BY <1>10, SecretTaken DEF publishReadOnly
  <2> QED
    BY <1>1, <2>1, StructsFrame
<1>11. ASSUME NEW v \in Volumes, republished(v) PROVE StructsInv'
  <2>1. /\ UNCHANGED <<pass, gen, followed>>
        /\ \/ call' = call
           \/ call' = [call EXCEPT ![v] = "credential"]
    BY <1>11, SecretTaken DEF republished
  <2> QED
    BY <1>1, <2>1, StructsFrame
<1>12. ASSUME NEW v \in Volumes, credentialArrived(v) PROVE StructsInv'
  BY <1>12, <1>1, StructsFrame DEF credentialArrived, CredentialWakes
<1>13. ASSUME NEW v \in Volumes, Unpublish(v) PROVE StructsInv'
  BY <1>13, <1>1, StructsFrame DEF Unpublish
<1>14. ASSUME NEW v \in Volumes, Unstage(v) PROVE StructsInv'
  BY <1>14, <1>1, StructsFrame DEF Unstage
<1>15. ASSUME NEW v \in Volumes, unfollow(v) PROVE StructsInv'
  <2>1. /\ followed' = followed \ {v} /\ gen' = gen
        /\ call' = [call EXCEPT ![v] = "none"]
    BY <1>15 DEF unfollow
  <2>2. CASE pass' = pass
    BY <1>1, <2>1, <2>2, StructsFrame
  <2>3. CASE /\ followed = {v} /\ GoesOn /\ pass'.pc = pass.pc
             /\ pass'.todo = pass.todo /\ pass'.cur = pass.cur
    <3>1. InPass' = InPass
      BY <2>3 DEF InPass
    <3>2. followed' = {}
      BY <2>1, <2>3
    <3> SUFFICES ASSUME NEW one \in InPass
                 PROVE  /\ one \in Structs /\ one[2] <= gen[one[1]]
                        /\ one[2] = gen[one[1]]
                           => call'[one[1]] \notin { "lock", "fetch", "add" }
      BY <2>1, <3>1, <3>2 DEF StructsInv, Held
    <3>3. /\ one \in Structs /\ one[2] <= gen[one[1]]
          /\ one[2] = gen[one[1]]
             => call[one[1]] \notin { "lock", "fetch", "add" }
      BY <2>3 DEF StructsInv, GoesOn
    <3>4. one[1] \in Volumes
      BY <3>3 DEF Structs
    <3> QED
      BY <1>1, <2>1, <3>3, <3>4
  <2> QED
    BY <1>15, <2>2, <2>3, UnfollowPass
<1>16. CASE TakeDemanded \/ DelayFires \/ TakeArrived \/ TimerFires \/ RetryFires
  BY <1>16, <1>1, StructsFrame
     DEF TakeDemanded, DelayFires, TakeArrived, TimerFires, RetryFires
<1>17. ASSUME tick PROVE StructsInv'
  <2>1. pass' # NoPass /\ pass'.todo = {} /\ pass'.pc = "snapshot"
    BY <1>17, TickPass
  <2> QED
    BY <2>1 DEF StructsInv, InPass
<1>18. ASSUME snapshot PROVE StructsInv'
  <2>1. /\ GoesOn /\ pass'.pc = "fetch" /\ pass'.live = pass.live
        /\ pass'.todo = IF pass.live THEN { <<v, gen[v]>> : v \in followed } ELSE {}
    BY <1>18, SnapshotPass
  <2> SUFFICES ASSUME pass.live, NEW v \in followed
               PROVE  /\ <<v, gen[v]>> \in Structs
                      /\ gen[v] <= gen[v]
                      /\ call[v] \notin { "lock", "fetch", "add" }
    BY <1>18, <2>1 DEF snapshot, StructsInv, InPass
  <2>2. v \in Volumes
    BY DEF TypeOK
  <2> QED
    BY <1>1, <2>2 DEF Structs, CallInv
<1>19. ASSUME NEW one \in pass.todo, refresh(one) PROVE StructsInv'
  <2>1. InPass' \subseteq InPass
    BY <1>19, RefreshPass DEF InPass
  <2>2. /\ GoesOn /\ pass'.live = pass.live
        /\ UNCHANGED <<call, gen, followed>>
    BY <1>19, RefreshPass DEF refresh
  <2> QED
    BY <2>1, <2>2 DEF StructsInv, GoesOn, Held
<1>20. ASSUME apply PROVE StructsInv'
  <2>1. InPass' \subseteq InPass
    BY <1>20, ApplyPass DEF InPass
  <2>2. /\ GoesOn /\ pass'.live = pass.live
        /\ UNCHANGED <<call, gen, followed>>
    BY <1>20, ApplyPass DEF apply
  <2> QED
    BY <2>1, <2>2 DEF StructsInv, GoesOn, Held
<1>21. ASSUME settle PROVE StructsInv'
  BY <1>21, <1>1, StructsFrame DEF settle, StructsInv
<1>22. ASSUME Crash PROVE StructsInv'
  BY <1>22, <1>1, StructsFrame DEF Crash, NewLoop, StructsInv
<1>23. ASSUME resume PROVE StructsInv'
  BY <1>23, <1>1, StructsFrame DEF resume, CallInv, StructsInv
<1> HIDE DEF CallType, clusterVars, kubeletVars, structVars, nodeVars, retryVars,
             loopVars, passVars, boundVars
<1> QED
  BY <1>2, <1>3, <1>4, <1>5, <1>6, <1>7, <1>8, <1>9, <1>10, <1>11, <1>12, <1>13, <1>14,
     <1>15, <1>16, <1>17, <1>18, <1>19, <1>20, <1>21, <1>22, <1>23, KubeletFrame,
          StructFrame, LoopFrame, PassFrame

-----------------------------------------------------------------------------
(* The loop *)

\* The loop and its pass, and what is set while a volume is wanted.
LoopInv ==
    /\ (pass # NoPass /\ pass.live) <=> loop = "pass"
    /\ loop = "pass" => followed # {}
    /\ loop = "pass" /\ wanted # {}
       => demanded \/ arrived \/ delay # 0 \/ pass.failed

\* Every step keeps the loop awake while a volume is wanted.
LEMMA LoopKept ==
    ASSUME TypeOK,
           CallInv,
           LockInv,
           StructsInv,
           WantedIsFollowed,
           LoopInv,
           WantedIsScheduled,
           [Next]_vars
    PROVE  LoopInv' /\ WantedIsScheduled'
<1>1. LoopType /\ up \in BOOLEAN
  BY DEF TypeOK, LoopType
<1> USE DEF clusterVars, kubeletVars, structVars, nodeVars, retryVars, loopVars,
            passVars, boundVars
<1> USE DEF LoopInv, WantedIsScheduled, LoopType
<1>2. CASE UNCHANGED <<loopVars, passVars, boundVars>>
  BY <1>2, <1>1
<1>3. ASSUME NEW actor \in Actors, demand(actor) PROVE LoopInv' /\ WantedIsScheduled'
  BY <1>3, <1>1 DEF demand, AfterAct, wake, WantedIsFollowed, Held
<1>4. ASSUME NEW v \in Volumes, StageLock(v) PROVE LoopInv' /\ WantedIsScheduled'
  BY <1>4, <1>1 DEF StageLock
<1>5. ASSUME NEW v \in Volumes, stage(v) PROVE LoopInv' /\ WantedIsScheduled'
  BY <1>5, <1>1 DEF stage, FetchFails, Fault
<1>6. ASSUME NEW v \in Volumes, follow(v) PROVE LoopInv' /\ WantedIsScheduled'
  BY <1>6, <1>1 DEF follow, NewLoop, WantedIsFollowed
<1>7. ASSUME NEW v \in Volumes, credentialArrived(v) PROVE LoopInv' /\ WantedIsScheduled'
  BY <1>7, <1>1 DEF credentialArrived, CredentialWakes
<1>8. ASSUME NEW v \in Volumes, unfollow(v) PROVE LoopInv' /\ WantedIsScheduled'
  BY <1>8, <1>1, UnfollowPass DEF unfollow, NewLoop, GoesOn
<1>9. ASSUME TakeDemanded PROVE LoopInv' /\ WantedIsScheduled'
  BY <1>9, <1>1, PullAssumption DEF TakeDemanded, demandWait, Selects
<1>10. ASSUME DelayFires PROVE LoopInv' /\ WantedIsScheduled'
  BY <1>10, <1>1 DEF DelayFires, Selects
<1>11. ASSUME TakeArrived PROVE LoopInv' /\ WantedIsScheduled'
  BY <1>11, <1>1 DEF TakeArrived, Selects
<1>12. ASSUME TimerFires PROVE LoopInv' /\ WantedIsScheduled'
  BY <1>12, <1>1 DEF TimerFires, Selects
<1>13. ASSUME RetryFires PROVE LoopInv' /\ WantedIsScheduled'
  BY <1>13, <1>1 DEF RetryFires, Selects
<1>14. ASSUME tick PROVE LoopInv' /\ WantedIsScheduled'
  BY <1>14, <1>1, TickPass DEF tick, answeredBy, LockInv, CallInv
<1>15. ASSUME snapshot PROVE LoopInv' /\ WantedIsScheduled'
  BY <1>15, <1>1, SnapshotPass DEF snapshot, GoesOn
<1>16. ASSUME NEW one \in pass.todo, refresh(one) PROVE LoopInv' /\ WantedIsScheduled'
  BY <1>16, <1>1, RefreshPass DEF refresh, FetchFails, Fault, GoesOn
<1>17. ASSUME apply PROVE LoopInv' /\ WantedIsScheduled'
  BY <1>17, <1>1, ApplyPass
     DEF apply, GoesOn, WantedAgain, StructsInv, InPass, WantedStill
<1>18. ASSUME settle PROVE LoopInv' /\ WantedIsScheduled'
  BY <1>18, <1>1 DEF settle, NoPass
<1>19. ASSUME Crash PROVE LoopInv' /\ WantedIsScheduled'
  BY <1>19, <1>1 DEF Crash, NewLoop, WantedIsFollowed
<1>20. ASSUME resume PROVE LoopInv' /\ WantedIsScheduled'
  BY <1>20, <1>1 DEF resume, CallInv, WantedIsFollowed
<1> HIDE DEF LoopInv, WantedIsScheduled, LoopType, clusterVars, kubeletVars,
             structVars, nodeVars, retryVars, loopVars, passVars, boundVars
<1> QED
  BY <1>2, <1>3, <1>4, <1>5, <1>6, <1>7, <1>8, <1>9, <1>10, <1>11, <1>12, <1>13, <1>14,
     <1>15, <1>16, <1>17, <1>18, <1>19, <1>20, LoopFrame, PassFrame, BoundFrame

-----------------------------------------------------------------------------
(* The store, the trees and the demands *)

\* Trees are placed from the store, which only the holder of the lock moves.
PlacedInv ==
    /\ copy <= remote
    /\ \A v \in Volumes : tree[v] <= copy
    /\ pass # NoPass
       => pass.got = 0 \/ (pass.pc = "apply" /\ pass.got = copy)

\* A volume the node has or a pod mounts holds a commit.
FilledInv ==
    \A v \in Volumes :
        v \in staged \/ v \in published \/ call[v] = "add" => tree[v] # 0

\* A demand is for a commit the remote has, and left its annotation.
AskedInv ==
    \A v \in Volumes : asked[v] <= remote /\ (asked[v] # 0 => annotation[v] # 0)

\* What the watch and the structs know are times of demands, no two alike.
StampInv ==
    /\ \A v \in Volumes :
           { annotation[v], seen[v], taken[v] } \subseteq stamps[v] \cup {0}
    /\ \A actor \in Actors :
           acting[actor].pc = "take" => acting[actor].at \in stamps[acting[actor].of]

\* What the watch has read is the annotation, until that changes again.
SeenInv ==
    /\ up => \A v \in Volumes : seen[v] = annotation[v] \/ v \in due
    /\ acting["watch"].pc = "take"
       => \/ acting["watch"].at = annotation[acting["watch"].of]
          \/ acting["watch"].of \in due

\* A fetch that answers a demand by its time holds the demand's commit: the
\* demand was made before the fetch began, since no clock is off by the skew.
AnswerInv ==
    pass # NoPass /\ pass.got # 0
    => \A v \in Volumes :
           annotation[v] <= pass.start - Skew => asked[v] <= pass.got

\* The same for the fetch of a stage, before which nothing is answered.
StagedInv ==
    \A v \in Volumes :
        /\ call[v] \in { "lock", "fetch" } => answered[v] = 0
        /\ call[v] \in { "lock", "fetch", "add" } => taken[v] = 0
        /\ call[v] = "add" /\ annotation[v] # 0 /\ annotation[v] <= answered[v]
           => asked[v] <= tree[v]

\* Every step keeps the trees behind the store, and the store behind the remote.
LEMMA PlacedKept ==
    ASSUME TypeOK,
           LockInv,
           StructsInv,
           PlacedInv,
           [Next]_vars
    PROVE  PlacedInv'
<1>1. /\ tree \in [Volumes -> 0..MaxCommits]
      /\ remote \in 1..MaxCommits /\ copy \in 0..MaxCommits
  BY DEF TypeOK
<1>2. remote \in Nat /\ copy \in Nat /\ \A v \in Volumes : tree[v] \in Nat
  BY <1>1, PullAssumption
<1> USE DEF clusterVars, kubeletVars, structVars, nodeVars, retryVars, loopVars,
            passVars, boundVars
<1> USE DEF PlacedInv
<1>3. CASE UNCHANGED <<clusterVars, structVars, nodeVars, passVars>>
  BY <1>3, <1>1
<1>4. CASE \/ Advance \/ Rotate
           \/ \E v \in Volumes, drift \in Drifts : demandPull(v, drift)
           \/ \E v \in Volumes : read(v)
  BY <1>4, <1>1 DEF Advance, Rotate, demandPull, read
<1>5. ASSUME Push PROVE PlacedInv'
  <2>1. remote' = remote + 1 /\ UNCHANGED <<copy, tree, pass>>
    BY <1>5 DEF Push
  <2> QED
    BY <1>2, <2>1
<1>6. CASE \E actor \in Actors : actOn(actor) \/ demand(actor)
  BY <1>6, <1>1 DEF actOn, demand
<1>7. CASE \E v \in Volumes : stageReadOnly(v) \/ StageLock(v)
  BY <1>7, <1>1 DEF stageReadOnly, StageLock
<1>8. ASSUME NEW v \in Volumes, stage(v) PROVE PlacedInv'
  <2>1. pass = NoPass /\ UNCHANGED <<pass, remote>>
    BY <1>8, VolumesAssumption DEF stage, LockInv, StructsInv
  <2>2. CASE copy' = remote /\ tree' = [tree EXCEPT ![v] = remote]
    BY <1>1, <1>2, <2>1, <2>2
  <2>3. CASE copy' = copy /\ tree' = [tree EXCEPT ![v] = copy]
    BY <1>1, <1>2, <2>1, <2>3
  <2>4. CASE copy' = copy /\ tree' = tree
    BY <1>1, <1>2, <2>1, <2>4
  <2> QED
    BY <1>8, <2>2, <2>3, <2>4 DEF stage
<1>9. CASE \E v \in Volumes : follow(v) \/ Arrived(v) \/ Unstage(v)
  BY <1>9, <1>1 DEF follow, Arrived, Unstage
<1>10. CASE \E v \in Volumes : publishReadOnly(v) \/ republished(v)
  BY <1>10, <1>1 DEF publishReadOnly, republished
<1>11. ASSUME NEW v \in Volumes, unfollow(v) PROVE PlacedInv'
  <2>1. UNCHANGED <<remote, copy>> /\ tree' = [tree EXCEPT ![v] = 0]
    BY <1>11 DEF unfollow
  <2>2. pass' # NoPass => pass # NoPass /\ pass'.got = pass.got /\ pass'.pc = pass.pc
    BY <1>11, UnfollowPass DEF GoesOn
  <2> QED
    BY <1>1, <1>2, <2>1, <2>2
<1>12. ASSUME tick PROVE PlacedInv'
  BY <1>12, <1>1, TickPass DEF tick, answeredBy
<1>13. ASSUME snapshot PROVE PlacedInv'
  BY <1>13, <1>1, SnapshotPass, <1>2 DEF snapshot, GoesOn
<1>14. ASSUME NEW one \in pass.todo, refresh(one) PROVE PlacedInv'
  <2>1. UNCHANGED <<remote, tree>>
    BY <1>14 DEF refresh
  <2>2. CASE copy' = remote /\ pass'.pc = "apply" /\ pass'.got = remote
    BY <1>2, <2>1, <2>2
  <2>3. CASE /\ copy' = copy
             /\ pass'.got = 0 \/ (pass'.pc = "fetch" /\ pass'.got = pass.got)
    BY <1>2, <1>14, <2>1, <2>3, RefreshPass DEF GoesOn
  <2> QED
    BY <1>14, <2>2, <2>3, RefreshPass
<1>15. ASSUME apply PROVE PlacedInv'
  <2>1. UNCHANGED <<remote, copy>>
    BY <1>15 DEF apply
  <2>2. tree' = tree \/ tree' = [tree EXCEPT ![pass.cur[1]] = copy]
    BY <1>15, ApplyPass DEF apply, GoesOn
  <2> QED
    BY <1>1, <1>2, <1>15, <2>1, <2>2, ApplyPass DEF GoesOn
<1>16. ASSUME settle PROVE PlacedInv'
  BY <1>16, <1>1 DEF settle, NoPass
<1>17. ASSUME Crash PROVE PlacedInv'
  BY <1>17, <1>1 DEF Crash, NewLoop, NoPass
<1>18. ASSUME resume PROVE PlacedInv'
  <2>1. /\ UNCHANGED <<remote, copy, pass>>
        /\ tree' = [v \in Volumes |-> IF v \in published THEN tree[v] ELSE 0]
    BY <1>18 DEF resume
  <2> QED
    BY <1>1, <1>2, <2>1
<1> HIDE DEF PlacedInv, clusterVars, kubeletVars, structVars, nodeVars, retryVars,
             loopVars, passVars, boundVars
<1> QED
  BY <1>3, <1>4, <1>5, <1>6, <1>7, <1>8, <1>9, <1>10, <1>11, <1>12, <1>13, <1>14,
     <1>15, <1>16, <1>17, <1>18, ClusterFrame, StructFrame, NodeFrame, PassFrame

\* Every step keeps the trees in place that the pods and the loop count on.
LEMMA FilledKept ==
    ASSUME TypeOK,
           CallInv,
           FilledInv,
           [Next]_vars
    PROVE  FilledInv'
<1>1. /\ CallType /\ NodeType /\ tree \in [Volumes -> 0..MaxCommits]
      /\ remote \in 1..MaxCommits
  BY DEF TypeOK, CallType, NodeType
<1> USE DEF clusterVars, kubeletVars, structVars, nodeVars, retryVars, loopVars,
            passVars, boundVars
<1> USE DEF FilledInv, CallType
<1>2. CASE UNCHANGED <<kubeletVars, structVars, nodeVars>>
  BY <1>2, <1>1
<1>3. ASSUME NEW v \in Volumes, read(v) PROVE FilledInv'
  BY <1>3, <1>1 DEF read
<1>4. ASSUME NEW actor \in Actors, actOn(actor) PROVE FilledInv'
  BY <1>4, <1>1 DEF actOn, AfterAct
<1>5. ASSUME NEW actor \in Actors, demand(actor) PROVE FilledInv'
  BY <1>5, <1>1 DEF demand, AfterAct, wake
<1>6. CASE \E v \in Volumes : StageLock(v) \/ stageReadOnly(v)
  BY <1>6, <1>1 DEF StageLock, stageReadOnly
<1>7. ASSUME NEW v \in Volumes, stage(v) PROVE FilledInv'
  BY <1>7, <1>1 DEF stage, FetchFails, Fault
<1>8. ASSUME NEW v \in Volumes, follow(v) PROVE FilledInv'
  BY <1>8, <1>1 DEF follow, NewLoop
<1>9. ASSUME NEW v \in Volumes, Arrived(v) PROVE FilledInv'
  BY <1>9, <1>1 DEF Arrived
<1>10. ASSUME NEW v \in Volumes, publishReadOnly(v) PROVE FilledInv'
  <2>1. /\ UNCHANGED <<staged, tree>> /\ v \in staged
        /\ published' \subseteq published \cup {v}
        /\ call' = call \/ call' = [call EXCEPT ![v] = "credential"]
    BY <1>10, SecretTaken DEF publishReadOnly
  <2> QED
    BY <1>1, <2>1
<1>11. ASSUME NEW v \in Volumes, republished(v) PROVE FilledInv'
  <2>1. /\ UNCHANGED <<staged, tree>> /\ v \in staged
        /\ published' \subseteq published \cup {v}
        /\ call' = call \/ call' = [call EXCEPT ![v] = "credential"]
    BY <1>11, SecretTaken DEF republished
  <2> QED
    BY <1>1, <2>1
<1>12. ASSUME NEW v \in Volumes, credentialArrived(v) PROVE FilledInv'
  BY <1>12, <1>1 DEF credentialArrived, CredentialWakes
<1>13. ASSUME NEW v \in Volumes, Unpublish(v) PROVE FilledInv'
  BY <1>13, <1>1 DEF Unpublish
<1>14. ASSUME NEW v \in Volumes, Unstage(v) PROVE FilledInv'
  BY <1>14, <1>1 DEF Unstage
<1>15. ASSUME NEW v \in Volumes, unfollow(v) PROVE FilledInv'
  <2>1. v \notin staged /\ v \notin published
    BY <1>15 DEF unfollow, CallInv
  <2> QED
    BY <1>1, <1>15, <2>1 DEF unfollow
<1>16. ASSUME NEW one \in pass.todo, refresh(one) PROVE FilledInv'
  BY <1>16, <1>1 DEF refresh, FetchFails, Fault
<1>17. ASSUME apply PROVE FilledInv'
  <2>1. /\ \/ tree' = tree
           \/ /\ pass.got # 0
              /\ \E v \in Volumes : tree' = [tree EXCEPT ![v] = pass.got]
        /\ UNCHANGED <<staged, published, call>>
    BY <1>17 DEF apply, Held, TypeOK
  <2> QED
    BY <1>1, <2>1
<1>18. ASSUME Crash PROVE FilledInv'
  BY <1>18, <1>1 DEF Crash, NewLoop
<1>19. ASSUME resume PROVE FilledInv'
  <2>1. /\ staged' = published /\ UNCHANGED <<published, call>>
        /\ tree' = [v \in Volumes |-> IF v \in published THEN tree[v] ELSE 0]
        /\ \A v \in Volumes : call[v] # "add"
    BY <1>19 DEF resume, CallInv
  <2> QED
    BY <2>1
<1> HIDE DEF FilledInv, CallType, clusterVars, kubeletVars, structVars, nodeVars,
             retryVars, loopVars, passVars, boundVars
<1> QED
  BY <1>2, <1>3, <1>4, <1>5, <1>6, <1>7, <1>8, <1>9, <1>10, <1>11, <1>12, <1>13, <1>14,
     <1>15, <1>16, <1>17, <1>18, <1>19, KubeletFrame, StructFrame, NodeFrame

\* Every step keeps the demands to what the remote has.
LEMMA AskedKept ==
    ASSUME TypeOK,
           ClockInv,
           AskedInv,
           [Next]_vars
    PROVE  AskedInv'
<1>1. ClusterType
  BY DEF TypeOK, ClockInv, ClusterType
<1> USE DEF clusterVars, kubeletVars, structVars, nodeVars, retryVars, loopVars,
            passVars, boundVars
<1> USE DEF AskedInv, ClusterType
<1>2. CASE UNCHANGED clusterVars
  BY <1>2, <1>1
<1>3. ASSUME Advance PROVE AskedInv'
  BY <1>3, <1>1 DEF Advance
<1>4. ASSUME Push PROVE AskedInv'
  BY <1>4, <1>1, PullAssumption DEF Push
<1>5. ASSUME Rotate PROVE AskedInv'
  BY <1>5, <1>1 DEF Rotate
<1>6. ASSUME NEW v \in Volumes, NEW drift \in Drifts, demandPull(v, drift)
     PROVE  AskedInv'
  BY <1>6, <1>1, PullAssumption, DriftAssumption DEF demandPull
<1>7. ASSUME NEW v \in Volumes, read(v) PROVE AskedInv'
  BY <1>7, <1>1 DEF read
<1>8. ASSUME resume PROVE AskedInv'
  BY <1>8, <1>1 DEF resume
<1> HIDE DEF AskedInv, ClusterType, clusterVars, kubeletVars, structVars, nodeVars,
             retryVars, loopVars, passVars, boundVars
<1> QED
  BY <1>2, <1>3, <1>4, <1>5, <1>6, <1>7, <1>8, ClusterFrame

\* Every step keeps the times of the demands apart.
LEMMA StampsKept ==
    ASSUME TypeOK,
           ClockInv,
           StampInv,
           [Next]_vars
    PROVE  StampInv'
<1>1. ClusterType /\ NodeType /\ taken \in [Volumes -> Nat]
  BY DEF TypeOK, ClockInv, ClusterType, NodeType
<1> USE DEF clusterVars, kubeletVars, structVars, nodeVars, retryVars, loopVars,
            passVars, boundVars
<1> USE DEF StampInv
<1>2. CASE UNCHANGED <<clusterVars, structVars, nodeVars>>
  BY <1>2, <1>1
<1>3. CASE Advance \/ Push \/ Rotate
  BY <1>3, <1>1 DEF Advance, Push, Rotate
<1>4. ASSUME NEW v \in Volumes, NEW drift \in Drifts, demandPull(v, drift)
     PROVE  StampInv'
  BY <1>4, <1>1 DEF demandPull, ClusterType, NodeType, Acts, NoAct
<1>5. ASSUME NEW v \in Volumes, read(v) PROVE StampInv'
  BY <1>5, <1>1 DEF read, NodeType, NoAct, Acts, Actors
<1>6. ASSUME NEW actor \in Actors, actOn(actor) PROVE StampInv'
  BY <1>6, <1>1 DEF actOn, AfterAct, NodeType, NoAct, Acts, Actors
<1>7. CASE \/ \E v \in Volumes : stage(v)
           \/ \E actor \in Actors : demand(actor)
  BY <1>7, <1>1 DEF demand, stage, NodeType, NoAct, Acts, Actors
<1>8. CASE \E v \in Volumes : \/ stageReadOnly(v) \/ StageLock(v)
                              \/ publishReadOnly(v) \/ republished(v)
                              \/ unfollow(v)
  BY <1>8, <1>1 DEF stageReadOnly, StageLock, publishReadOnly, republished, unfollow
<1>9. CASE \/ \E v \in Volumes : follow(v) \/ Unstage(v)
           \/ \E one \in pass.todo : refresh(one)
  BY <1>9, <1>1 DEF follow, Unstage, refresh
<1>10. ASSUME NEW v \in Volumes, Arrived(v) PROVE StampInv'
  BY <1>10, <1>1 DEF Arrived, ReadAgain, NodeType, NoAct, Acts, Actors
<1>11. ASSUME apply PROVE StampInv'
  BY <1>11, <1>1 DEF apply
<1>12. ASSUME Crash PROVE StampInv'
  BY <1>12, <1>1 DEF Crash, NewLoop, NodeType, NoAct, Acts, Actors
<1>13. ASSUME resume PROVE StampInv'
  BY <1>13, <1>1 DEF resume, NodeType, NoAct, Acts, Actors
<1> HIDE DEF StampInv, clusterVars, kubeletVars, structVars, nodeVars, retryVars,
             loopVars, passVars, boundVars
<1> QED
  BY <1>2, <1>3, <1>4, <1>5, <1>6, <1>7, <1>8, <1>9, <1>10, <1>11, <1>12, <1>13,
     ClusterFrame, StructFrame, NodeFrame

\* Every step keeps what the watch has read up to date.
LEMMA SeenKept ==
    ASSUME TypeOK,
           ClockInv,
           CallInv,
           SeenInv,
           [Next]_vars
    PROVE  SeenInv'
<1>1. ClusterType /\ NodeType
  BY DEF TypeOK, ClockInv, ClusterType, NodeType
<1> USE DEF clusterVars, kubeletVars, structVars, nodeVars, retryVars, loopVars,
            passVars, boundVars
<1> USE DEF SeenInv, ClusterType, NodeType, Actors
<1>2. CASE UNCHANGED <<clusterVars, nodeVars, boundVars>>
  BY <1>2, <1>1, VolumesAssumption
<1>3. CASE Advance \/ Push \/ Rotate
  BY <1>3, <1>1, VolumesAssumption DEF Advance, Push, Rotate
<1>4. ASSUME NEW v \in Volumes, NEW drift \in Drifts, demandPull(v, drift)
     PROVE  SeenInv'
  BY <1>4, <1>1, VolumesAssumption DEF demandPull, NoAct, Acts
<1>5. ASSUME NEW v \in Volumes, read(v) PROVE SeenInv'
  BY <1>5, <1>1, VolumesAssumption DEF read, NoAct, Acts
<1>6. ASSUME NEW actor \in Actors, actOn(actor) PROVE SeenInv'
  BY <1>6, <1>1, VolumesAssumption DEF actOn, AfterAct, NoAct, Acts
<1>7. ASSUME NEW actor \in Actors, demand(actor) PROVE SeenInv'
  BY <1>7, <1>1, VolumesAssumption DEF demand, AfterAct, wake, NoAct, Acts
<1>8. ASSUME NEW v \in Volumes, stage(v) PROVE SeenInv'
  BY <1>8, <1>1, VolumesAssumption DEF stage, FetchFails, Fault
<1>9. CASE \E v \in Volumes : follow(v) \/ Unstage(v)
  BY <1>9, <1>1, VolumesAssumption DEF follow, Unstage
<1>10. ASSUME NEW v \in Volumes, Arrived(v) PROVE SeenInv'
  BY <1>10, <1>1, VolumesAssumption DEF Arrived, NoAct, Acts
<1>11. ASSUME NEW one \in pass.todo, refresh(one) PROVE SeenInv'
  BY <1>11, <1>1, VolumesAssumption DEF refresh, FetchFails, Fault
<1>12. ASSUME Crash PROVE SeenInv'
  BY <1>12, <1>1, VolumesAssumption DEF Crash, NewLoop, NoAct, Acts
<1>13. ASSUME resume PROVE SeenInv'
  BY <1>13, <1>1, VolumesAssumption DEF resume, CallInv, NoAct
<1> HIDE DEF SeenInv, ClusterType, NodeType, Actors, clusterVars, kubeletVars,
             structVars, nodeVars, retryVars, loopVars, passVars, boundVars
<1> QED
  BY <1>2, <1>3, <1>4, <1>5, <1>6, <1>7, <1>8, <1>9, <1>10, <1>11, <1>12, <1>13,
     ClusterFrame, NodeFrame, BoundFrame

\* Every step keeps the answers of a pass honest.
LEMMA AnswersKept ==
    ASSUME TypeOK,
           ClockInv,
           AskedInv,
           AnswerInv,
           [Next]_vars
    PROVE  AnswerInv'
<1>1. ClusterType /\ (pass # NoPass => pass.start \in Nat /\ pass.start <= now)
  BY PassRuns DEF TypeOK, ClockInv, ClusterType, Running
<1> USE DEF clusterVars, kubeletVars, structVars, nodeVars, retryVars, loopVars,
            passVars, boundVars
<1> USE DEF AnswerInv
<1>2. CASE UNCHANGED <<clusterVars, passVars>>
  BY <1>2, <1>1
<1>3. CASE Advance \/ Push \/ Rotate
  BY <1>3, <1>1 DEF Advance, Push, Rotate
<1>4. ASSUME NEW v \in Volumes, NEW drift \in Drifts, demandPull(v, drift)
     PROVE  AnswerInv'
  BY <1>4, <1>1, PullAssumption, DriftAssumption DEF demandPull, ClusterType
<1>5. CASE \/ resume
           \/ \E v \in Volumes : read(v)
  BY <1>5, <1>1 DEF read, resume
<1>6. CASE \/ settle \/ Crash
           \/ \E v \in Volumes : StageLock(v) \/ stage(v)
  BY <1>6, <1>1 DEF StageLock, stage, settle, Crash, NoPass
<1>7. ASSUME NEW v \in Volumes, unfollow(v) PROVE AnswerInv'
  <2>1. pass' # NoPass => /\ pass # NoPass
                         /\ pass'.start = pass.start /\ pass'.got = pass.got
    BY <1>7, UnfollowPass DEF GoesOn
  <2>2. UNCHANGED <<annotation, asked>>
    BY <1>7 DEF unfollow
  <2> QED
    BY <2>1, <2>2
<1>8. ASSUME tick PROVE AnswerInv'
  BY <1>8, <1>1, TickPass DEF tick, answeredBy
<1>9. ASSUME snapshot PROVE AnswerInv'
  BY <1>9, <1>1, SnapshotPass DEF snapshot, GoesOn
<1>10. ASSUME NEW one \in pass.todo, refresh(one) PROVE AnswerInv'
  BY <1>10, <1>1, RefreshPass
     DEF refresh, FetchFails, Fault, GoesOn, AskedInv, ClusterType
<1>11. ASSUME apply PROVE AnswerInv'
  BY <1>11, <1>1, ApplyPass DEF apply, GoesOn
<1> HIDE DEF AnswerInv, clusterVars, kubeletVars, structVars, nodeVars, retryVars,
             loopVars, passVars, boundVars
<1> QED
  BY <1>2, <1>3, <1>4, <1>5, <1>6, <1>7, <1>8, <1>9, <1>10, <1>11, ClusterFrame,
     PassFrame

\* Every step keeps the answers of a stage honest.
LEMMA StagedKept ==
    ASSUME TypeOK,
           ClockInv,
           CallInv,
           StructsInv,
           AskedInv,
           StagedInv,
           [Next]_vars
    PROVE  StagedInv'
<1>1. ClusterType /\ CallType /\ StructType
  BY DEF TypeOK, ClockInv, ClusterType, CallType, StructType
<1> USE DEF clusterVars, kubeletVars, structVars, nodeVars, retryVars, loopVars,
            passVars, boundVars
<1> USE DEF StagedInv, ClusterType, CallType, StructType
<1>2. CASE UNCHANGED <<clusterVars, kubeletVars, structVars>>
  BY <1>2, <1>1
<1>3. CASE Advance \/ Push \/ Rotate
  BY <1>3, <1>1 DEF Advance, Push, Rotate
<1>4. ASSUME NEW v \in Volumes, NEW drift \in Drifts, demandPull(v, drift)
     PROVE  StagedInv'
  <2>1. /\ annotation' = [annotation EXCEPT ![v] = now - drift]
        /\ asked' = [asked EXCEPT ![v] = remote]
        /\ UNCHANGED <<call, answered, taken, tree>>
    BY <1>4 DEF demandPull
  <2>2. answered[v] < now - drift
    BY <1>1, DriftAssumption, PullAssumption
  <2>3. annotation'[v] = now - drift
    BY <1>1, <2>1
  <2>4. ~(annotation'[v] <= answered'[v])
    BY <1>1, <2>1, <2>2, <2>3, DriftAssumption, PullAssumption
  <2> QED
    BY <1>1, <2>1, <2>4
<1>5. ASSUME NEW v \in Volumes, read(v) PROVE StagedInv'
  BY <1>5, <1>1 DEF read
<1>6. ASSUME NEW actor \in Actors, actOn(actor) PROVE StagedInv'
  <2>1. acting[actor].of \in Volumes
    BY <1>6 DEF actOn, TypeOK, Acts, NoAct
  <2>2. /\ UNCHANGED <<annotation, asked, tree>>
        /\ \A w \in Volumes : call'[w] = call[w] \/ call'[w] = "none"
    BY <1>1, <1>6 DEF actOn, AfterAct
  <2>3. UNCHANGED <<taken, answered>>
        \/ \E w \in staged :
              /\ \E at : taken' = [taken EXCEPT ![w] = at]
              /\ \E at : answered' = [answered EXCEPT ![w] = at]
    BY <2>1, <1>6 DEF actOn
  <2>4. \A w \in staged : call[w] \notin { "lock", "fetch", "add" }
    BY DEF CallInv, TypeOK
  <2> QED
    BY <1>1, <2>2, <2>3, <2>4
<1>7. ASSUME NEW actor \in Actors, demand(actor) PROVE StagedInv'
  BY <1>7, <1>1 DEF demand, AfterAct, wake
<1>8. ASSUME NEW v \in Volumes, stageReadOnly(v) PROVE StagedInv'
  BY <1>8, <1>1 DEF stageReadOnly, Carried
<1>9. ASSUME NEW v \in Volumes, StageLock(v) PROVE StagedInv'
  BY <1>9, <1>1 DEF StageLock
<1>10. ASSUME NEW v \in Volumes, stage(v) PROVE StagedInv'
  <2>1. /\ call[v] = "fetch" /\ answered[v] = 0 /\ taken[v] = 0
        /\ UNCHANGED <<annotation, asked, taken>>
    BY <1>10 DEF stage
  <2>2. CASE /\ tree' = [tree EXCEPT ![v] = remote]
             /\ call' = [call EXCEPT ![v] = "add"]
             /\ \E at : answered' = [answered EXCEPT ![v] = at]
    <3>1. asked[v] <= remote
      BY DEF AskedInv
    <3> QED
      BY <1>1, <2>1, <2>2, <3>1
  <2>3. CASE /\ answered' = answered
             /\ call' = [call EXCEPT ![v] = "add"] \/ call' = [call EXCEPT ![v] = "none"]
             /\ tree' = tree \/ tree' = [tree EXCEPT ![v] = copy]
    <3>1. annotation[v] # 0 => ~(annotation[v] <= answered'[v])
      BY <1>1, <2>1, <2>3
    <3> QED
      BY <1>1, <2>1, <2>3, <3>1
  <2> QED
    BY <1>10, <2>2, <2>3 DEF stage
<1>11. ASSUME NEW v \in Volumes, follow(v) PROVE StagedInv'
  BY <1>11, <1>1 DEF follow, NewLoop
<1>12. ASSUME NEW v \in Volumes, Arrived(v) PROVE StagedInv'
  BY <1>12, <1>1 DEF Arrived
<1>13. ASSUME NEW v \in Volumes, publishReadOnly(v) PROVE StagedInv'
  BY <1>13, <1>1 DEF publishReadOnly, takeSecret, Carried
<1>14. ASSUME NEW v \in Volumes, republished(v) PROVE StagedInv'
  BY <1>14, <1>1 DEF republished, takeSecret, Carried
<1>15. ASSUME NEW v \in Volumes, credentialArrived(v) PROVE StagedInv'
  BY <1>15, <1>1 DEF credentialArrived, CredentialWakes
<1>16. ASSUME NEW v \in Volumes, Unpublish(v) PROVE StagedInv'
  BY <1>16, <1>1 DEF Unpublish
<1>17. ASSUME NEW v \in Volumes, Unstage(v) PROVE StagedInv'
  BY <1>17, <1>1 DEF Unstage
<1>18. ASSUME NEW v \in Volumes, unfollow(v) PROVE StagedInv'
  BY <1>18, <1>1 DEF unfollow, NewLoop
<1>19. ASSUME apply PROVE StagedInv'
  <2>1. UNCHANGED <<annotation, asked, taken, call>>
    BY <1>19 DEF apply
  <2>2. UNCHANGED <<tree, answered>>
        \/ \E w \in Volumes :
              /\ call[w] \notin { "lock", "fetch", "add" }
              /\ \E at : answered' = [answered EXCEPT ![w] = at]
              /\ \E at : tree' = [tree EXCEPT ![w] = at]
    BY <1>19, ApplyPass DEF apply, GoesOn, Held, StructsInv, InPass, Structs
  <2> QED
    BY <1>1, <2>1, <2>2
<1>20. ASSUME Crash PROVE StagedInv'
  BY <1>20, <1>1 DEF Crash, NewLoop
<1>21. ASSUME resume PROVE StagedInv'
  <2>1. \A w \in Volumes : call'[w] = "none"
    BY <1>21 DEF resume, CallInv
  <2> QED
    BY <2>1
<1> HIDE DEF StagedInv, ClusterType, CallType, StructType, clusterVars, kubeletVars,
             structVars, nodeVars, retryVars, loopVars, passVars, boundVars
<1> QED
  BY <1>2, <1>3, <1>4, <1>5, <1>6, <1>7, <1>8, <1>9, <1>10, <1>11, <1>12, <1>13, <1>14,
     <1>15, <1>16, <1>17, <1>18, <1>19, <1>20, <1>21, ClusterFrame, KubeletFrame,
          StructFrame

-----------------------------------------------------------------------------
(* No demand is lost *)

\* The pass that runs fetches for the demand of the volume, or fails.
Serving(v) ==
    /\ pass # NoPass
    /\ \/ pass.pc = "snapshot" /\ pass.live /\ v \in pass.wanted
       \/ <<v, gen[v]>> \in pass.todo /\ v \in pass.wanted
       \/ /\ pass.pc = "apply" /\ pass.cur = <<v, gen[v]>>
          /\ pass.got >= asked[v] \/ (pass.got = 0 /\ v \in pass.wanted)

\* A demand that was taken ends in a fetch,
Carrying(v) ==
    \/ v \in wanted \/ waits[v] \/ call[v] = "credential" \/ Serving(v)
    \/ \E actor \in { "watch", v } :
           acting[actor].pc = "demand" /\ acting[actor].of = <<v, gen[v]>>

\* and one that was not is still to be taken, and will not be dropped.
Coming(v) ==
    /\ ~Dropped(v, annotation[v])
    /\ \/ v \in due \/ call[v] = "arrived"
       \/ acting["watch"].pc = "take" /\ acting["watch"].of = v
       \/ acting[v].pc = "take" /\ acting[v].at = annotation[v]

DemandKept ==
    \A v \in staged : tree[v] < asked[v] => Carrying(v) \/ Coming(v)

\* Every step keeps the demands: it takes one a step further, or leaves it.
LEMMA DemandsKept ==
    ASSUME TypeOK, ClockInv, CallInv, LockInv, StructsInv, PlacedInv,
           AskedInv, StampInv, SeenInv, AnswerInv, StagedInv, DemandKept,
           [Next]_vars
    PROVE  DemandKept'
<1> SUFFICES ASSUME NEW w \in staged', tree'[w] < asked'[w]
             PROVE  Carrying(w)' \/ Coming(w)'
  BY DEF DemandKept
<1>1. /\ ClusterType /\ CallType /\ StructType /\ NodeType /\ LoopType
      /\ pass = NoPass \/ pass \in Running
  BY TypeParts, PassRuns DEF PassType
<1>2. w \in Volumes
  BY <1>1, NodeTypeStep DEF NodeType
<1>3. w \in staged /\ tree[w] < asked[w] => Carrying(w) \/ Coming(w)
  BY DEF DemandKept
<1> USE DEF clusterVars, kubeletVars, structVars, nodeVars, retryVars, loopVars,
            passVars, boundVars
<1> USE DEF Carrying, Coming, Serving, Dropped
<1>4. CASE UNCHANGED <<clusterVars, kubeletVars, structVars, nodeVars, loopVars,
                       passVars>>
  BY <1>4, <1>1, <1>2, <1>3
<1>5. ASSUME Advance PROVE Carrying(w)' \/ Coming(w)'
  BY <1>5, <1>1, <1>2, <1>3 DEF Advance
<1>6. ASSUME Push PROVE Carrying(w)' \/ Coming(w)'
  BY <1>6, <1>1, <1>2, <1>3 DEF Push
<1>7. ASSUME Rotate PROVE Carrying(w)' \/ Coming(w)'
  BY <1>7, <1>1, <1>2, <1>3 DEF Rotate
<1>8. ASSUME NEW v \in Volumes, NEW drift \in Drifts, demandPull(v, drift)
     PROVE  Carrying(w)' \/ Coming(w)'
  <2>1. /\ annotation' = [annotation EXCEPT ![v] = now - drift]
        /\ asked' = [asked EXCEPT ![v] = remote] /\ due' = due \cup {v}
        /\ now - drift \notin stamps[v]
        /\ UNCHANGED <<tree, staged, taken, answered, wanted, waits, call, pass,
                       gen, acting>>
    BY <1>8 DEF demandPull
  <2>2. CASE w = v
    <3>1. annotation'[w] = now - drift /\ now - drift \in Nat
      BY <1>1, <1>2, <2>1, <2>2, DriftAssumption, PullAssumption DEF ClusterType
    <3>2. now - drift # 0 /\ answered[w] < now - drift
      BY <1>1, <1>2, DriftAssumption, PullAssumption DEF ClusterType, StructType
    <3>3. now - drift # taken[w]
      BY <1>2, <2>1, <2>2, <3>2 DEF StampInv
    <3>4. ~(now - drift <= answered[w])
      BY <1>1, <1>2, <3>1, <3>2, PullAssumption DEF StructType, ClusterType
    <3> QED
      BY <2>1, <2>2, <3>1, <3>3, <3>4
  <2>3. CASE w # v
    BY <1>1, <1>2, <1>3, <2>1, <2>3 DEF ClusterType
  <2> QED
    BY <2>2, <2>3
<1>9. ASSUME NEW v \in Volumes, read(v) PROVE Carrying(w)' \/ Coming(w)'
  <2>1. /\ acting["watch"] = NoAct /\ due' = due \ {v}
        /\ acting' = [acting EXCEPT !["watch"] =
                          [pc |-> "take", of |-> v, at |-> annotation[v]]]
        /\ UNCHANGED <<annotation, asked, tree, staged, taken, answered, wanted,
                       waits, call, pass, gen>>
    BY <1>9 DEF read
  <2>2. w # "watch" /\ w \in Actors /\ "watch" \in Actors
    BY <1>2, VolumesAssumption DEF Actors
  <2>3. /\ acting'["watch"] = [pc |-> "take", of |-> v, at |-> annotation[v]]
        /\ acting'[w] = acting[w]
    BY <1>1, <2>1, <2>2 DEF NodeType
  <2>4. CASE Carrying(w)
    BY <2>1, <2>2, <2>3, <2>4 DEF NoAct
  <2>5. CASE Coming(w)
    BY <2>1, <2>2, <2>3, <2>5 DEF NoAct
  <2> QED
    BY <1>3, <2>1, <2>4, <2>5
<1>10. ASSUME NEW actor \in Actors, actOn(actor) PROVE Carrying(w)' \/ Coming(w)'
  <2> DEFINE v == acting[actor].of
             at == acting[actor].at
  <2>1. /\ acting[actor].pc = "take" /\ v \in Volumes
        /\ actor = "watch" \/ actor = v
    BY <1>1, <1>10 DEF actOn, NodeType, Acts, NoAct, Actors, CallInv
  <2>2. UNCHANGED <<annotation, asked, tree, due, staged, wanted, waits, pass, gen>>
    BY <1>10 DEF actOn
  <2>3. call[w] # "act" => call'[w] = call[w]
    BY <1>1, <1>2, <1>10 DEF actOn, AfterAct, CallInv, CallType, Actors, NoAct
  <2>4. \A other \in Actors : other # actor => acting'[other] = acting[other]
    BY <1>1, <1>10 DEF actOn, NodeType
  <2>5. w # "watch" /\ w \in Actors /\ "watch" \in Actors
    BY <1>2, VolumesAssumption DEF Actors
  <2>6. CASE Carrying(w)
    BY <2>1, <2>2, <2>3, <2>4, <2>5, <2>6
  <2>7. CASE Coming(w) /\ v # w
    <3>1. taken'[w] = taken[w] /\ answered'[w] = answered[w]
      BY <1>1, <1>2, <2>7, <1>10 DEF actOn, StructType
    <3>2. acting[w].pc = "take" => actor # w
      BY <1>2, <2>7 DEF CallInv
    <3> QED
      BY <2>1, <2>2, <2>3, <2>4, <2>5, <2>7, <3>1, <3>2
  <2>8. CASE Coming(w) /\ v = w /\ w \in staged
    <3>1. CASE Dropped(v, at)
      <4>1. UNCHANGED <<taken, answered>>
        BY <1>10, <3>1 DEF actOn
      <4>2. at # annotation[w]
        BY <2>8, <3>1
      <4>3. actor = "watch" => w \in due
        BY <2>1, <2>8, <4>2 DEF SeenInv
      <4>4. actor = w => call[w] # "arrived"
        BY <1>2, <2>1 DEF CallInv, NoAct
      <4> QED
        BY <2>1, <2>2, <2>3, <2>4, <2>5, <2>8, <4>1, <4>2, <4>3, <4>4
    <3>2. CASE ~Dropped(v, at)
      <4>1. acting' = [acting EXCEPT ![actor] = [pc |-> "demand", of |-> <<v, gen[v]>>]]
        BY <1>10, <2>8, <3>2 DEF actOn
      <4>2. acting'[actor] = [pc |-> "demand", of |-> <<v, gen[v]>>]
        BY <1>1, <4>1 DEF NodeType
      <4> QED
        BY <2>1, <2>2, <2>8, <4>2
    <3> QED
      BY <3>1, <3>2
  <2> QED
    BY <1>3, <2>2, <2>6, <2>7, <2>8
<1>11. ASSUME NEW actor \in Actors, demand(actor) PROVE Carrying(w)' \/ Coming(w)'
  <2>1. acting[actor].pc = "demand" /\ wanted \subseteq wanted'
    BY <1>11 DEF demand, wake
  <2>2. UNCHANGED <<annotation, asked, tree, due, staged, taken, answered, waits,
                    pass, gen>>
    BY <1>11 DEF demand
  <2>3. call[w] # "act" => call'[w] = call[w]
    BY <1>1, <1>2, <1>11 DEF demand, AfterAct, CallInv, CallType, Actors, NoAct
  <2>4. \A other \in Actors : other # actor => acting'[other] = acting[other]
    BY <1>1, <1>11 DEF demand, NodeType
  <2>5. w # "watch" /\ w \in Actors /\ "watch" \in Actors
    BY <1>2, VolumesAssumption DEF Actors
  <2>6. CASE Coming(w)
    BY <2>1, <2>2, <2>3, <2>4, <2>5, <2>6
  <2>7. CASE acting[actor].of = <<w, gen[w]>> /\ w \in staged /\ ~waits[w]
    <3>1. Held(w, gen[w])
      BY <1>2, <2>7 DEF CallInv, Held
    <3> QED
      BY <1>11, <2>7, <3>1 DEF demand, wake
  <2>8. CASE Carrying(w) /\ w \in staged
    BY <2>1, <2>2, <2>3, <2>4, <2>5, <2>7, <2>8
  <2> QED
    BY <1>3, <2>2, <2>6, <2>8
<1>12. ASSUME NEW v \in Volumes, stageReadOnly(v) PROVE Carrying(w)' \/ Coming(w)'
  BY <1>12, <1>1, <1>2, <1>3 DEF stageReadOnly, Carried
<1>13. ASSUME NEW v \in Volumes, StageLock(v) PROVE Carrying(w)' \/ Coming(w)'
  BY <1>13, <1>1, <1>2, <1>3 DEF StageLock
<1>14. ASSUME NEW v \in Volumes, stage(v) PROVE Carrying(w)' \/ Coming(w)'
  <2>1. /\ w # v /\ w \in staged
        /\ UNCHANGED <<annotation, asked, due, taken, wanted, waits, pass, gen, acting>>
    BY <1>2, <1>14 DEF stage, CallInv
  <2>2. tree'[w] = tree[w] /\ answered'[w] = answered[w] /\ call'[w] = call[w]
    BY <1>1, <1>2, <1>14, <2>1 DEF stage, StructType, CallType
  <2> QED
    BY <1>3, <2>1, <2>2
<1>15. ASSUME NEW v \in Volumes, follow(v) PROVE Carrying(w)' \/ Coming(w)'
  <2>1. /\ staged' = staged \cup {v} /\ call[v] = "add"
        /\ call' = [call EXCEPT ![v] = "arrived"]
        /\ UNCHANGED <<annotation, asked, tree, due, taken, answered, waits, pass,
                       gen, acting>>
    BY <1>15 DEF follow
  <2>2. CASE w = v
    <3>1. taken[w] = 0 /\ annotation[w] # 0
      BY <1>1, <1>2, <2>1, <2>2 DEF StagedInv, AskedInv, StructType, ClusterType
    <3>2. ~(annotation[w] <= answered[w])
      BY <1>1, <1>2, <2>1, <2>2, <3>1 DEF StagedInv, StructType, ClusterType
    <3> QED
      BY <1>1, <1>2, <2>1, <2>2, <3>1, <3>2 DEF CallType
  <2>3. CASE w # v
    <3>1. w \in staged /\ call'[w] = call[w]
      BY <1>1, <1>2, <2>1, <2>3 DEF CallType
    <3>2. followed # {}
      BY <1>2, <3>1 DEF CallInv
    <3>3. wanted' = wanted
      BY <1>15, <3>2 DEF follow
    <3> QED
      BY <1>3, <2>1, <3>1, <3>3
  <2> QED
    BY <2>2, <2>3
<1>16. ASSUME NEW v \in Volumes, Arrived(v) PROVE Carrying(w)' \/ Coming(w)'
  <2>1. /\ call[v] = "arrived"
        /\ UNCHANGED <<annotation, asked, tree, due, staged, taken, answered, wanted,
                       waits, pass, gen>>
    BY <1>16 DEF Arrived
  <2>2. acting[v] = NoAct /\ v # "watch" /\ v \in Actors /\ "watch" \in Actors
    BY <2>1, VolumesAssumption DEF CallInv, Actors
  <2>3. /\ acting'["watch"] = acting["watch"]
        /\ w # v => acting'[w] = acting[w] /\ call'[w] = call[w]
    BY <1>1, <1>2, <2>2, <1>16 DEF Arrived, NodeType, CallType, Actors
  <2>4. CASE w # v
    BY <1>3, <2>1, <2>3, <2>4
  <2>5. CASE w = v /\ Carrying(w)
    BY <2>1, <2>2, <2>3, <2>5 DEF NoAct
  <2>6. CASE w = v /\ Coming(w)
    <3>1. annotation[w] # 0
      BY <1>1, <1>2, <2>1 DEF AskedInv, StructType, ClusterType
    <3>2. w \in due \/ seen[w] = annotation[w]
      BY <1>2, <2>1, <2>6 DEF SeenInv, CallInv
    <3>3. seen[w] # 0 => acting'[w] = [pc |-> "take", of |-> w, at |-> seen[w]]
      BY <1>1, <2>2, <2>6, <1>16 DEF Arrived, ReadAgain, NodeType
    <3> QED
      BY <2>1, <2>2, <2>3, <2>6, <3>1, <3>2, <3>3
  <2> QED
    BY <1>3, <2>1, <2>4, <2>5, <2>6
<1>17. ASSUME NEW v \in Volumes, publishReadOnly(v) PROVE Carrying(w)' \/ Coming(w)'
  <2>1. /\ call[v] = "none" /\ takeSecret(v)
        /\ UNCHANGED <<annotation, asked, tree, due, staged, taken, answered, wanted,
                       pass, gen, acting>>
    BY <1>17 DEF publishReadOnly
  <2>2. \/ waits' = waits /\ call' = call
        \/ /\ waits' = [waits EXCEPT ![v] = FALSE]
           /\ call' = [call EXCEPT ![v] = "credential"]
        \/ /\ waits' = [waits EXCEPT ![v] = FALSE]
           /\ ~waits[v] /\ call' = call
    BY <2>1, SecretTaken
  <2>3. (waits[w] => waits'[w] \/ call'[w] = "credential")
        /\ (call[w] \in { "credential", "arrived" } => call'[w] = call[w])
    BY <1>1, <1>2, <2>1, <2>2 DEF CallType, StructType
  <2> QED
    BY <1>3, <2>1, <2>3
<1>18. ASSUME NEW v \in Volumes, republished(v) PROVE Carrying(w)' \/ Coming(w)'
  <2>1. /\ call[v] = "none" /\ takeSecret(v)
        /\ UNCHANGED <<annotation, asked, tree, due, staged, taken, answered, wanted,
                       pass, gen, acting>>
    BY <1>18 DEF republished
  <2>2. \/ waits' = waits /\ call' = call
        \/ /\ waits' = [waits EXCEPT ![v] = FALSE]
           /\ call' = [call EXCEPT ![v] = "credential"]
        \/ /\ waits' = [waits EXCEPT ![v] = FALSE]
           /\ ~waits[v] /\ call' = call
    BY <2>1, SecretTaken
  <2>3. (waits[w] => waits'[w] \/ call'[w] = "credential")
        /\ (call[w] \in { "credential", "arrived" } => call'[w] = call[w])
    BY <1>1, <1>2, <2>1, <2>2 DEF CallType, StructType
  <2> QED
    BY <1>3, <2>1, <2>3
<1>19. ASSUME NEW v \in Volumes, credentialArrived(v) PROVE Carrying(w)' \/ Coming(w)'
  <2>1. /\ call[v] = "credential" /\ call' = [call EXCEPT ![v] = "none"]
        /\ wanted \subseteq wanted' /\ v \in wanted'
        /\ UNCHANGED <<annotation, asked, tree, due, staged, taken, answered, waits,
                       pass, gen, acting>>
    BY <1>19 DEF credentialArrived, CredentialWakes, CallInv
  <2>2. w = v \/ call'[w] = call[w]
    BY <1>1, <1>2, <2>1 DEF CallType
  <2> QED
    BY <1>3, <2>1, <2>2
<1>20. ASSUME NEW v \in Volumes, Unpublish(v) PROVE Carrying(w)' \/ Coming(w)'
  BY <1>20, <1>1, <1>2, <1>3 DEF Unpublish
<1>21. ASSUME NEW v \in Volumes, Unstage(v) PROVE Carrying(w)' \/ Coming(w)'
  BY <1>21, <1>1, <1>2, <1>3 DEF Unstage
<1>22. ASSUME NEW v \in Volumes, unfollow(v) PROVE Carrying(w)' \/ Coming(w)'
  <2>1. /\ w # v /\ w \in staged
        /\ UNCHANGED <<annotation, asked, due, taken, answered, waits, gen, acting>>
    BY <1>2, <1>22 DEF unfollow, CallInv
  <2>2. tree'[w] = tree[w] /\ call'[w] = call[w]
    BY <1>1, <1>2, <1>22, <2>1 DEF unfollow, StructType, CallType
  <2>3. followed # {v}
    BY <1>2, <2>1 DEF CallInv
  <2>4. pass' = pass /\ wanted' = wanted \ {v}
    BY <1>22, <2>3 DEF unfollow
  <2> QED
    BY <1>3, <2>1, <2>2, <2>4
<1>23. CASE TakeDemanded \/ DelayFires \/ TakeArrived \/ TimerFires \/ RetryFires
  BY <1>23, <1>1, <1>2, <1>3
     DEF TakeDemanded, DelayFires, TakeArrived, TimerFires, RetryFires
<1>24. ASSUME tick PROVE Carrying(w)' \/ Coming(w)'
  <2>1. /\ pass = NoPass
        /\ UNCHANGED <<annotation, asked, due, taken, staged, waits, gen, call,
                       acting, tree, answered>>
    BY <1>24, VolumesAssumption DEF tick, LockInv
  <2>2. /\ pass' # NoPass /\ pass'.pc = "snapshot" /\ pass'.live
        /\ pass'.wanted = wanted
    BY <1>24, TickPass
  <2> QED
    BY <1>3, <2>1, <2>2
<1>25. ASSUME snapshot PROVE Carrying(w)' \/ Coming(w)'
  <2>1. UNCHANGED <<annotation, asked, due, taken, staged, waits, gen, call,
                    acting, tree, answered, wanted>>
    BY <1>25 DEF snapshot
  <2>2. /\ GoesOn /\ pass.pc = "snapshot"
        /\ pass.live /\ w \in followed => <<w, gen[w]>> \in pass'.todo
    BY <1>25, SnapshotPass
  <2>3. w \in followed
    BY <1>2, <2>1 DEF CallInv
  <2>4. CASE Serving(w)
    <3>1. pass.live /\ w \in pass.wanted
      BY <2>2, <2>3, <2>4 DEF StructsInv, InPass, Held
    <3> QED
      BY <2>2, <2>3, <2>1, <3>1 DEF GoesOn
  <2>5. CASE ~Serving(w)
    <3> HIDE DEF Serving
    <3> QED
      BY <1>3, <2>1, <2>5
  <2> QED
    BY <2>4, <2>5
<1>26. ASSUME NEW one \in pass.todo, refresh(one) PROVE Carrying(w)' \/ Coming(w)'
  <2>1. UNCHANGED <<annotation, asked, due, taken, staged, waits, gen, call,
                    acting, tree, answered, wanted>>
    BY <1>26 DEF refresh
  <2>2. CASE Serving(w) /\ one = <<w, gen[w]>> /\ ~waits[w]
    <3>1. /\ GoesOn /\ pass'.pc = "apply" /\ pass'.cur = one
          /\ pass'.got = remote \/ pass'.got = 0
      BY <1>26, <2>2, RefreshPass
    <3>2. w \in pass.wanted /\ asked[w] <= remote
      BY <1>26, <1>2, <2>2, RefreshPass DEF AskedInv
    <3> QED
      BY <2>1, <2>2, <3>1, <3>2 DEF GoesOn
  <2>3. CASE Serving(w) /\ one # <<w, gen[w]>>
    BY <1>26, <2>1, <2>3, RefreshPass DEF GoesOn
  <2>4. CASE ~Serving(w) \/ waits[w]
    <3> HIDE DEF Serving
    <3> QED
      BY <1>3, <2>1, <2>4
  <2> QED
    BY <2>2, <2>3, <2>4
<1>27. ASSUME apply PROVE Carrying(w)' \/ Coming(w)'
  <2>1. /\ UNCHANGED <<annotation, asked, due, taken, staged, waits, gen, call,
                       acting>>
        /\ wanted \subseteq wanted'
    BY <1>27 DEF apply
  <2>2. GoesOn /\ pass.pc = "apply" /\ pass'.pc = "fetch" /\ pass'.todo = pass.todo
    BY <1>27, ApplyPass
  <2>3. CASE pass.got # 0 /\ pass.cur = <<w, gen[w]>>
    <3>1. Held(w, gen[w])
      BY <1>2, <2>1 DEF CallInv, Held
    <3>2. /\ tree' = [tree EXCEPT ![w] = pass.got]
          /\ answered' = [answered EXCEPT ![w] = answersBefore(w, pass.start)]
      BY <1>27, <2>3, <3>1 DEF apply
    <3>3. tree'[w] = pass.got /\ answered'[w] = answersBefore(w, pass.start)
      BY <1>1, <1>2, <3>2 DEF StructType
    <3>4. pass.got \in Nat /\ asked[w] \in Nat /\ pass.start \in Nat
      BY <1>1, <1>2, <2>2 DEF Running, ClusterType, GoesOn
    <3>5. pass.got < asked[w] /\ tree[w] < asked[w]
      <4>1. pass.got < asked[w]
        BY <2>1, <3>3
      <4>2. tree[w] <= pass.got
        BY <1>2, <2>2, <2>3 DEF PlacedInv, GoesOn
      <4> QED
        BY <1>1, <1>2, <3>4, <4>1, <4>2 DEF StructType
    <3>6. ~(annotation[w] <= pass.start - Skew)
      BY <1>2, <2>2, <2>3, <3>4, <3>5 DEF AnswerInv, GoesOn
    <3>7. Carrying(w) => Carrying(w)'
      BY <2>1, <2>2, <2>3, <3>4, <3>5 DEF GoesOn
    <3>8. Coming(w) => Coming(w)'
      BY <1>1, <1>2, <2>1, <3>3, <3>4, <3>6, PullAssumption
         DEF answersBefore, Later, ClusterType, StructType
    <3> QED
      BY <1>3, <2>1, <3>5, <3>7, <3>8
  <2>4. CASE pass.got # 0 /\ pass.cur # <<w, gen[w]>>
    <3>1. tree'[w] = tree[w] /\ answered'[w] = answered[w]
      BY <1>1, <1>2, <1>27, <2>2, <2>4
         DEF apply, Held, StructType, StructsInv, InPass, Structs, GoesOn
    <3> QED
      BY <1>3, <2>1, <2>2, <2>4, <3>1 DEF GoesOn
  <2>5. CASE pass.got = 0
    <3>1. UNCHANGED <<tree, answered>>
      BY <1>27, <2>5 DEF apply
    <3>2. pass.cur = <<w, gen[w]>> /\ w \in pass.wanted => w \in wanted'
      BY <1>2, <1>27, <2>1, <2>5 DEF apply, WantedStill, Held, CallInv
    <3>3. asked[w] \in Nat /\ tree[w] \in Nat
      BY <1>1, <1>2 DEF ClusterType, StructType
    <3> QED
      BY <1>3, <2>1, <2>2, <2>5, <3>1, <3>2, <3>3 DEF GoesOn
  <2> QED
    BY <2>3, <2>4, <2>5
<1>28. ASSUME settle PROVE Carrying(w)' \/ Coming(w)'
  BY <1>28, <1>1, <1>2, <1>3 DEF settle
<1>29. ASSUME Crash PROVE Carrying(w)' \/ Coming(w)'
  BY <1>29, <1>1, <1>2, <1>3 DEF Crash, NewLoop
<1>30. ASSUME resume PROVE Carrying(w)' \/ Coming(w)'
  BY <1>30, <1>1, <1>2, <1>3 DEF resume
<1> HIDE DEF Carrying, Coming, Serving, Dropped, clusterVars, kubeletVars, structVars,
             nodeVars, retryVars, loopVars, passVars, boundVars
<1> QED
  BY <1>4, <1>5, <1>6, <1>7, <1>8, <1>9, <1>10, <1>11, <1>12, <1>13, <1>14, <1>15,
     <1>16, <1>17, <1>18, <1>19, <1>20, <1>21, <1>22, <1>23, <1>24, <1>25, <1>26,
          <1>27, <1>28, <1>29, <1>30, ClusterFrame, KubeletFrame, StructFrame,
               NodeFrame, LoopFrame, PassFrame

-----------------------------------------------------------------------------
(* The theorems *)

\* What holds of the driver besides the types and WantedIsFollowed.
PullInv ==
    /\ CallInv /\ LockInv /\ StructsInv
    /\ LoopInv /\ WantedIsScheduled
    /\ PlacedInv /\ FilledInv
    /\ AskedInv /\ StampInv /\ SeenInv /\ AnswerInv /\ StagedInv
    /\ DemandKept

\* It is an invariant.
THEOREM PullInvariant == Spec => []PullInv
<1>1. Init => PullInv
  <2> SUFFICES ASSUME Init
               PROVE  PullInv
    OBVIOUS
  <2> USE PullAssumption DEF Init
  <2>1. CallInv
    BY DEF CallInv, NoAct, Actors
  <2>2. LockInv /\ StructsInv /\ LoopInv /\ WantedIsScheduled
    BY VolumesAssumption DEF LockInv, StructsInv, LoopInv, WantedIsScheduled
  <2>3. PlacedInv /\ FilledInv /\ AskedInv
    BY DEF PlacedInv, FilledInv, AskedInv
  <2>4. StampInv /\ SeenInv
    BY DEF StampInv, SeenInv, NoAct, Actors
  <2>5. AnswerInv /\ StagedInv /\ DemandKept
    BY DEF AnswerInv, StagedInv, DemandKept
  <2> QED
    BY <2>1, <2>2, <2>3, <2>4, <2>5 DEF PullInv
<1>2. /\ TypeOK /\ ClockInv /\ WantedIsFollowed /\ PullInv
      /\ [Next]_vars
      => PullInv'
  BY CallsKept, LockKept, StructsKept, LoopKept, PlacedKept, FilledKept,
     AskedKept, StampsKept, SeenKept, AnswersKept, StagedKept, DemandsKept
     DEF PullInv
<1> QED
  BY <1>1, <1>2, PullTypeCorrect, LoopWantsItsOwn, PTL DEF Spec

\* No demand is lost, however its writer's clock, stages of the volume, passes
\* and fetches that fail, unstages, rotations and kills come between
\* (takeDemand, answerDemandsBefore, arrived, wantAgain, resumePull).
THEOREM NoDemandIsLost == Spec => []NoDemandLost
<1>1. TypeOK /\ CallInv /\ DemandKept => NoDemandLost
  <2> SUFFICES ASSUME TypeOK, CallInv, DemandKept,
                      NEW v \in staged, tree[v] < asked[v]
               PROVE  OnItsWay(v)
    BY DEF NoDemandLost
  <2>1. v \in Volumes
    BY DEF TypeOK
  <2>2. CASE Carrying(v)
    BY <2>1, <2>2 DEF Carrying, Serving, OnItsWay, PassServes, CallInv, NoAct
  <2>3. CASE Coming(v)
    BY <2>1, <2>3 DEF Coming, OnItsWay, CallInv, NoAct
  <2> QED
    BY <2>2, <2>3 DEF DemandKept
<1>2. TypeOK /\ PullInv => NoDemandLost
  BY <1>1 DEF PullInv
<1> QED
  BY <1>2, PullTypeCorrect, PullInvariant, PTL

\* While a volume is wanted, the loop has a wake or a timer that leads to a
\* pass, or is on the way to one (demand, credentialArrived, settle).
THEOREM LoopStaysAwake == Spec => []WantedIsScheduled
<1>1. PullInv => WantedIsScheduled
  BY DEF PullInv
<1> QED
  BY <1>1, PullInvariant, PTL

-----------------------------------------------------------------------------
(* The pull implements PullOnDemand, but for its liveness *)

\* A step that moves no tree, mount or demand is none of PullOnDemand's.
LEMMA StutterPulls ==
    ASSUME UNCHANGED <<remote, published, tree, asked>>
    PROVE  UNCHANGED Pull!vars
BY DEF Pull!vars

\* Each step is one of PullOnDemand's, or none.
LEMMA PullSteps ==
    ASSUME TypeOK, ClockInv, CallInv, StructsInv, PlacedInv, FilledInv, [Next]_vars
    PROVE  [Pull!Next]_(Pull!vars)
<1>1. /\ ClusterType /\ CallType /\ StructType
      /\ copy \in Nat /\ copy <= remote /\ remote \in Nat
  BY TypeParts, PullAssumption DEF NodeType, ClusterType, PlacedInv
<1>2. \A v \in Volumes : tree[v] \in 0..remote /\ tree[v] <= copy
  BY <1>1 DEF StructType, PlacedInv
<1> USE DEF clusterVars, kubeletVars, structVars, nodeVars, retryVars, loopVars,
            passVars, boundVars
<1>3. CASE UNCHANGED <<clusterVars, kubeletVars, structVars>>
  BY <1>3, StutterPulls
<1>4. CASE \/ Advance \/ Rotate \/ Crash \/ \E v \in Volumes : read(v)
  BY <1>4, StutterPulls DEF Advance, Rotate, Crash, read
<1>5. CASE \E actor \in Actors : actOn(actor) \/ demand(actor)
  BY <1>5, StutterPulls DEF actOn, demand
<1>6. CASE \E v \in Volumes : \/ stageReadOnly(v) \/ StageLock(v) \/ follow(v)
                              \/ Arrived(v) \/ republished(v)
                              \/ credentialArrived(v) \/ Unstage(v)
  BY <1>6, StutterPulls DEF stageReadOnly, StageLock, follow, Arrived,
     republished, credentialArrived, Unstage
<1>7. ASSUME Push PROVE Pull!Push
  <2>1. remote + 1 \in 1..MaxCommits /\ remote + 1 > remote
    BY <1>1, <1>7, PullAssumption DEF Push, ClusterType
  <2> QED
    BY <1>7, <2>1 DEF Push, Pull!Push
<1>8. ASSUME NEW v \in Volumes, NEW drift \in Drifts, demandPull(v, drift)
      PROVE  Pull!Demand(v)
  BY <1>8 DEF demandPull, Pull!Demand
<1>9. ASSUME NEW v \in Volumes, publishReadOnly(v) PROVE Pull!Mount(v)
  BY <1>9 DEF publishReadOnly, FilledInv, Pull!Mount
<1>10. ASSUME NEW v \in Volumes, Unpublish(v) PROVE Pull!Unmount(v)
  BY <1>10 DEF Unpublish, Pull!Unmount
<1>11. ASSUME NEW v \in Volumes, NEW at \in 0..remote,
              tree' = [tree EXCEPT ![v] = at], v \notin published,
              UNCHANGED <<remote, published, asked>>
       PROVE  Pull!Place
  <2>1. \A w \in Volumes : tree'[w] = IF w = v THEN at ELSE tree[w]
    BY <1>1, <1>11 DEF StructType
  <2>2. tree' = [w \in Volumes |-> tree'[w]]
    BY <1>1, <1>11 DEF StructType
  <2>3. \A w \in published : tree'[w] = tree[w]
    BY <1>1, <1>11, <2>1 DEF CallType
  <2> QED
    BY <1>2, <1>11, <2>1, <2>2, <2>3 DEF Pull!Place
<1>12. ASSUME NEW v \in Volumes, stage(v)
       PROVE  Pull!Place \/ UNCHANGED Pull!vars
  <2>1. v \notin published
    BY <1>12 DEF stage, CallInv
  <2>2. /\ UNCHANGED <<remote, published, asked>>
        /\ \/ tree' = tree
           \/ tree' = [tree EXCEPT ![v] = remote]
           \/ tree' = [tree EXCEPT ![v] = copy]
    BY <1>12 DEF stage
  <2>3. remote \in 0..remote /\ copy \in 0..remote
    BY <1>1
  <2> QED
    BY <1>11, <2>1, <2>2, <2>3, StutterPulls
<1>13. ASSUME NEW v \in Volumes, unfollow(v) PROVE Pull!Place
  <2>1. v \notin published
    BY <1>13 DEF unfollow, CallInv
  <2>2. UNCHANGED <<remote, published, asked>> /\ tree' = [tree EXCEPT ![v] = 0]
    BY <1>13 DEF unfollow
  <2>3. 0 \in 0..remote
    BY <1>1
  <2> QED
    BY <1>11, <2>1, <2>2, <2>3
<1>14. ASSUME apply
       PROVE  \/ UNCHANGED Pull!vars
              \/ \E v \in Volumes : Pull!Pull(v)
  <2>1. UNCHANGED <<remote, published, asked>>
    BY <1>14 DEF apply
  <2>2. CASE UNCHANGED tree
    BY <2>1, <2>2, StutterPulls
  <2>3. CASE pass.got # 0 /\ Held(pass.cur[1], pass.cur[2])
    <3> DEFINE v == pass.cur[1]
    <3>1. v \in Volumes
      BY <2>3 DEF Held, TypeOK
    <3>2. pass.got = copy
      BY <1>14, <2>3, ApplyPass DEF PlacedInv, GoesOn
    <3>3. tree' = [tree EXCEPT ![v] = copy]
      BY <1>14, <2>3, <3>2 DEF apply
    <3>4. tree'[v] = copy /\ copy \in tree[v]..remote
      BY <1>1, <1>2, <3>1, <3>3 DEF StructType
    <3> QED
      BY <2>1, <3>1, <3>3, <3>4 DEF Pull!Pull
  <2> QED
    BY <1>14, <2>2, <2>3 DEF apply
<1>15. ASSUME resume PROVE Pull!Place
  <2>1. /\ UNCHANGED <<remote, published, asked>>
        /\ tree' = [v \in Volumes |-> IF v \in published THEN tree[v] ELSE 0]
    BY <1>15 DEF resume
  <2>2. \A v \in Volumes : tree'[v] \in 0..remote
    BY <1>1, <1>2, <2>1
  <2>3. \A v \in published : tree'[v] = tree[v]
    BY <1>1, <2>1 DEF CallType
  <2> QED
    BY <2>1, <2>2, <2>3 DEF Pull!Place
<1> HIDE DEF clusterVars, kubeletVars, structVars, nodeVars, retryVars, loopVars,
             passVars, boundVars
<1> QED
  BY <1>3, <1>4, <1>5, <1>6, <1>7, <1>8, <1>9, <1>10, <1>12, <1>13, <1>14, <1>15,
     ClusterFrame, KubeletFrame, StructFrame
     DEF Pull!Next

\* Whatever pass, stage, stale copy or restart places a commit, a mounted
\* volume never goes back to an older one, is mounted only with a tree in
\* place, and holds only commits the ref has: every step is one that
\* PullOnDemand allows (tick, refresh, stage, resumePull).
THEOREM TreesGoForward == Spec => Pull!Init /\ [][Pull!Next]_(Pull!vars)
<1>1. Init => Pull!Init
  BY PullAssumption DEF Init, Pull!Init
<1>2. TypeOK /\ ClockInv /\ PullInv /\ [Next]_vars => [Pull!Next]_(Pull!vars)
  BY PullSteps DEF PullInv
<1> QED
  BY <1>1, <1>2, PullTypeCorrect, PullInvariant, PTL DEF Spec

=============================================================================
