------------------------- MODULE DemandedPullProofs -------------------------
(***************************************************************************)
(* Proofs about DemandedPull, for any number of volumes, commits, demands, *)
(* failures and kills and any length of the intervals: the loop wants only *)
(* volumes it follows, and after a failed pass it waits within its bounds  *)
(* and, pass after failed pass, longer. The last two rest on assumptions   *)
(* about --demand-min-interval that the driver's flags do not make.        *)
(***************************************************************************)
EXTENDS DemandedPull, TLAPS

-----------------------------------------------------------------------------
(* What a step does with the retry *)

\* The shape of the pass, as far as its fields are told apart.
PassShape == pass = NoPass \/ { "pc", "live" } \subseteq DOMAIN pass

\* The retry timer never runs beside a pass whose loop was stopped.
StoppedInv == pass # NoPass => pass.live \/ ~retry

PassInv == PassShape /\ StoppedInv

\* A step leaves the retry alone, stops it, or sets it after a failed pass
\* of a loop that runs.
Stops == retry' = FALSE /\ wait' = 0 /\ (backoff' = 0 \/ backoff' = backoff)

Sets ==
    /\ retry' = TRUE
    /\ backoff' = nextRetry
    /\ wait' \in jittered(nextRetry, DemandMin)

\* No step but settle sets the retry.
LEMMA RetrySteps ==
    ASSUME [Next]_vars
    PROVE  UNCHANGED retryVars \/ Stops \/ Sets
<1> USE DEF vars, loopVars, retryVars
<1>1. CASE UNCHANGED vars
  BY <1>1
<1>2. CASE ClusterStep
  BY <1>2 DEF ClusterStep, Advance, Push, Rotate, demandPull
<1>3. CASE \/ \E v \in due \cup Volumes : read(v)
           \/ \E actor \in Actors : actOn(actor) \/ demand(actor)
  BY <1>3 DEF read, actOn, demand
<1>4. ASSUME NEW v \in Volumes, CallStep(v) \/ KubeletStep(v) \/ StageLock(v)
      PROVE  UNCHANGED retryVars \/ Stops
  <2>1. CASE \/ stage(v) \/ Arrived(v) \/ credentialArrived(v)
             \/ stageReadOnly(v) \/ publishReadOnly(v) \/ republished(v)
             \/ Unpublish(v) \/ Unstage(v) \/ UnstageUnknown(v) \/ StageLock(v)
    BY <2>1 DEF stage, Arrived, credentialArrived, stageReadOnly,
                publishReadOnly, republished, Unpublish, Unstage,
                UnstageUnknown, StageLock
  <2>2. CASE follow(v) \/ unfollow(v)
    BY <2>2 DEF follow, unfollow, NewLoop, Stops
  <2> QED
    BY <1>4, <2>1, <2>2 DEF CallStep, KubeletStep
<1>5. CASE \/ TakeDemanded \/ DelayFires \/ TakeArrived \/ TimerFires \/ tick
           \/ snapshot \/ apply \/ \E one \in pass.todo : refresh(one)
  BY <1>5 DEF TakeDemanded, DelayFires, TakeArrived, TimerFires, tick,
              snapshot, apply, refresh
<1>6. CASE RetryFires
  BY <1>6 DEF RetryFires, Stops
<1>7. CASE settle
  BY <1>7 DEF settle, Stops, Sets
<1>8. CASE Crash \/ resume
  BY <1>8 DEF Crash, resume, NewLoop, Stops
<1> HIDE DEF vars, retryVars
<1> QED
  BY <1>1, <1>2, <1>3, <1>4, <1>5, <1>6, <1>7, <1>8
     DEF Next, WatchStep, LoopStep

-----------------------------------------------------------------------------
(* The retry waits within its bounds *)

\* nextRetry grows to at most maxDemandRetry.
LEMMA NextRetryBounds ==
    ASSUME backoff \in Nat
    PROVE  /\ nextRetry \in Nat /\ nextRetry <= MaxRetry
           /\ DemandMin <= MaxRetry => DemandMin <= nextRetry
           /\ \/ nextRetry = MaxRetry
              \/ /\ DemandMin > 0 => nextRetry > backoff
                 /\ nextRetry >= 2 * backoff
  BY PullAssumption DEF nextRetry, Later

\* jittered keeps to the floor and the limit.
LEMMA JitteredBounds ==
    ASSUME NEW limit \in Nat, NEW floor \in Nat, floor <= limit,
           NEW one \in jittered(limit, floor)
    PROVE  one \in Nat /\ floor <= one /\ one <= limit
<1>1. CASE one = limit
  BY <1>1
<1>2. CASE one \in Later(floor, limit \div 2)..limit
  <2>1. /\ Later(floor, limit \div 2) \in Nat
        /\ floor <= Later(floor, limit \div 2)
    BY DEF Later
  <2> QED
    BY <1>2, <2>1
<1> QED
  BY <1>1, <1>2 DEF jittered

BackoffNat == backoff \in Nat

\* Where --demand-min-interval is at most maxDemandRetry, the retry timer is
\* set to no less than the first and no more than the second (nextRetry).
THEOREM RetryBounded ==
    ASSUME DemandMin <= MaxRetry
    PROVE  Spec => []RetryInBounds
<1> DEFINE Inv == BackoffNat /\ RetryInBounds
<1>1. Init => Inv
  BY DEF Init, BackoffNat, RetryInBounds
<1>2. Inv /\ [Next]_vars => Inv'
  <2> SUFFICES ASSUME BackoffNat, RetryInBounds, [Next]_vars
               PROVE  BackoffNat' /\ RetryInBounds'
    OBVIOUS
  <2>1. CASE UNCHANGED retryVars
    BY <2>1 DEF retryVars, BackoffNat, RetryInBounds
  <2>2. CASE Stops
    BY <2>2 DEF Stops, BackoffNat, RetryInBounds
  <2>3. CASE Sets
    <3>1. /\ nextRetry \in Nat /\ nextRetry <= MaxRetry
          /\ DemandMin <= nextRetry
      BY NextRetryBounds DEF BackoffNat
    <3>2. wait' \in Nat /\ DemandMin <= wait' /\ wait' <= nextRetry
      BY <2>3, <3>1, JitteredBounds, PullAssumption DEF Sets
    <3>3. DemandMin <= wait' /\ wait' <= MaxRetry
      BY <3>1, <3>2, PullAssumption
    <3> QED
      BY <2>3, <3>1, <3>3 DEF Sets, BackoffNat, RetryInBounds
  <2> QED
    BY <2>1, <2>2, <2>3, RetrySteps
<1> QED
  BY <1>1, <1>2, PTL DEF Spec

-----------------------------------------------------------------------------
(* Passes that fail in a row *)

\* A pass keeps its shape, and a loop that is stopped takes its retry along:
\* no new loop can set one before the old pass is over.
LEMMA PassStep ==
    ASSUME PassInv, [Next]_vars
    PROVE  PassInv'
<1> USE DEF PassInv, PassShape, StoppedInv, NoPass, vars, loopVars, retryVars,
            passVars
<1>1. CASE UNCHANGED vars
  BY <1>1
<1>2. CASE ClusterStep
  BY <1>2 DEF ClusterStep, Advance, Push, Rotate, demandPull
<1>3. CASE \/ \E v \in due \cup Volumes : read(v)
           \/ \E actor \in Actors : actOn(actor) \/ demand(actor)
  BY <1>3 DEF read, actOn, demand
<1>4. ASSUME NEW v \in Volumes, CallStep(v) \/ KubeletStep(v) \/ StageLock(v)
      PROVE  PassInv'
  <2>1. CASE \/ stage(v) \/ Arrived(v) \/ credentialArrived(v)
             \/ stageReadOnly(v) \/ publishReadOnly(v) \/ republished(v)
             \/ Unpublish(v) \/ Unstage(v) \/ UnstageUnknown(v) \/ StageLock(v)
    BY <2>1 DEF stage, Arrived, credentialArrived, stageReadOnly,
                publishReadOnly, republished, Unpublish, Unstage,
                UnstageUnknown, StageLock
  <2>2. CASE follow(v)
    BY <2>2 DEF follow, NewLoop
  <2>3. CASE unfollow(v)
    BY <2>3 DEF unfollow, NewLoop
  <2> QED
    BY <1>4, <2>1, <2>2, <2>3 DEF CallStep, KubeletStep
<1>5. CASE TakeDemanded \/ DelayFires \/ TakeArrived \/ TimerFires \/ RetryFires
  BY <1>5 DEF TakeDemanded, DelayFires, TakeArrived, TimerFires, RetryFires
<1>6. CASE tick
  BY <1>6 DEF tick
<1>7. CASE snapshot \/ apply
  <2>1. { "pc", "live" } \subseteq DOMAIN pass /\ (pass.live \/ ~retry)
    BY <1>7 DEF snapshot, apply
  <2>2. DOMAIN pass' = DOMAIN pass /\ pass'.live = pass.live /\ retry' = retry
    BY <1>7, <2>1 DEF snapshot, apply
  <2> QED
    BY <2>1, <2>2
<1>8. ASSUME NEW one \in pass.todo, pass.pc = "fetch", refresh(one)
      PROVE  PassInv'
  <2>1. { "pc", "live" } \subseteq DOMAIN pass /\ (pass.live \/ ~retry)
    BY <1>8
  <2>2. DOMAIN pass' = DOMAIN pass /\ pass'.live = pass.live /\ retry' = retry
    BY <1>8, <2>1 DEF refresh
  <2> QED
    BY <2>1, <2>2
<1>9. CASE settle
  BY <1>9 DEF settle
<1>10. CASE Crash \/ resume
  BY <1>10 DEF Crash, resume, NewLoop
<1> HIDE DEF vars, PassInv
<1> QED
  BY <1>1, <1>2, <1>3, <1>4, <1>5, <1>6, <1>7, <1>8, <1>9, <1>10
     DEF Next, WatchStep, LoopStep

\* A pass ends with settle, or with the driver.
LEMMA PassEnds ==
    ASSUME PassInv, [Next]_vars, pass # NoPass, pass' = NoPass
    PROVE  settle \/ ~retry'
<1> USE DEF PassInv, PassShape, NoPass, vars, passVars
<1>1. CASE UNCHANGED vars \/ ClusterStep
  BY <1>1 DEF ClusterStep, Advance, Push, Rotate, demandPull
<1>2. CASE \/ \E v \in due \cup Volumes : read(v)
           \/ \E actor \in Actors : actOn(actor) \/ demand(actor)
  BY <1>2 DEF read, actOn, demand
<1>3. ASSUME NEW v \in Volumes, CallStep(v) \/ KubeletStep(v) \/ StageLock(v)
      PROVE  ~retry'
  <2>1. CASE unfollow(v)
    BY <2>1 DEF unfollow, NewLoop
  <2> QED
    BY <1>3, <2>1 DEF CallStep, KubeletStep, stage, follow, Arrived,
       credentialArrived, stageReadOnly, publishReadOnly, republished,
       Unpublish, Unstage, UnstageUnknown, StageLock
<1>4. CASE TakeDemanded \/ DelayFires \/ TakeArrived \/ TimerFires \/ RetryFires
  BY <1>4 DEF TakeDemanded, DelayFires, TakeArrived, TimerFires, RetryFires
<1>5. CASE tick \/ snapshot \/ apply
  BY <1>5 DEF tick, snapshot, apply
<1>6. CASE pass.pc = "fetch" /\ \E one \in pass.todo : refresh(one)
  BY <1>6 DEF refresh
<1>7. CASE Crash \/ resume
  BY <1>7 DEF Crash, resume, NewLoop
<1> HIDE DEF vars, PassInv
<1> QED
  BY <1>1, <1>2, <1>3, <1>4, <1>5, <1>6, <1>7 DEF Next, WatchStep, LoopStep

\* Where --demand-min-interval is more than 0, every failed pass in a row
\* makes the next wait longer, to its maximum (settle, nextRetry).
THEOREM BackoffGrows ==
    ASSUME DemandMin > 0
    PROVE  Spec => FailuresBackOff
<1> DEFINE Inv == BackoffNat /\ PassInv
<1>1. Init => Inv
  BY DEF Init, BackoffNat, PassInv, PassShape, StoppedInv
<1>2. Inv /\ [Next]_vars => Inv'
  <2>1. ASSUME BackoffNat, [Next]_vars
        PROVE  BackoffNat'
    <3>1. nextRetry \in Nat
      BY <2>1, NextRetryBounds DEF BackoffNat
    <3>2. backoff' = backoff \/ backoff' = 0 \/ backoff' = nextRetry
      BY <2>1, RetrySteps DEF Stops, Sets, retryVars
    <3> QED
      BY <2>1, <3>1, <3>2 DEF BackoffNat
  <2> QED
    BY <2>1, PassStep
<1>3. Inv /\ [Next]_vars => [BacksOff]_vars
  <2> SUFFICES ASSUME BackoffNat, PassInv, [Next]_vars,
                      pass # NoPass, pass' = NoPass, retry'
               PROVE  \/ backoff' = MaxRetry
                      \/ backoff' > backoff /\ backoff' >= 2 * backoff
    BY DEF BacksOff
  <2>1. settle
    BY PassEnds
  <2>2. backoff' = nextRetry
    BY <2>1 DEF settle, retryVars, PassInv, StoppedInv
  <2> QED
    BY <2>2, NextRetryBounds DEF BackoffNat
<1> QED
  BY <1>1, <1>2, <1>3, PTL DEF Spec, FailuresBackOff

-----------------------------------------------------------------------------
(* The loop and its volumes *)

\* Whatever a pass that outlives an unstage wants again, the loop wants only
\* volumes it follows (wantAgain, remove).
THEOREM LoopWantsItsOwn == Spec => []WantedIsFollowed
<1>1. Init => WantedIsFollowed
  BY DEF Init, WantedIsFollowed
<1>2. WantedIsFollowed /\ [Next]_vars => WantedIsFollowed'
  <2> SUFFICES ASSUME WantedIsFollowed, [Next]_vars
               PROVE  WantedIsFollowed'
    OBVIOUS
  <2> USE DEF WantedIsFollowed, vars, loopVars
  <2>1. CASE UNCHANGED vars \/ ClusterStep
    BY <2>1 DEF ClusterStep, Advance, Push, Rotate, demandPull
  <2>2. CASE \/ \E v \in due \cup Volumes : read(v)
             \/ \E actor \in Actors : actOn(actor) \/ demand(actor)
    BY <2>2 DEF read, actOn, demand, wake, Held
  <2>3. ASSUME NEW v \in Volumes,
               CallStep(v) \/ KubeletStep(v) \/ StageLock(v)
        PROVE  WantedIsFollowed'
    <3>1. CASE follow(v) \/ unfollow(v)
      BY <3>1 DEF follow, unfollow, NewLoop
    <3>2. CASE credentialArrived(v)
      BY <3>2 DEF credentialArrived, CredentialWakes
    <3> QED
      BY <2>3, <3>1, <3>2 DEF CallStep, KubeletStep, stage, Arrived,
         stageReadOnly, publishReadOnly, republished, Unpublish, Unstage,
         UnstageUnknown, StageLock
  <2>4. CASE \/ TakeDemanded \/ DelayFires \/ TakeArrived \/ TimerFires
             \/ RetryFires \/ tick \/ snapshot \/ settle
             \/ \E one \in pass.todo : refresh(one)
    BY <2>4 DEF TakeDemanded, DelayFires, TakeArrived, TimerFires, RetryFires,
                tick, answeredBy, snapshot, settle, refresh
  <2>5. CASE apply
    BY <2>5 DEF apply, WantedStill, Held
  <2>6. CASE Crash \/ resume
    <3>1. CASE Crash
      BY <3>1 DEF Crash, NewLoop
    <3>2. CASE resume
      BY <3>2 DEF resume, Resumed
    <3> QED
      BY <2>6, <3>1, <3>2
  <2> HIDE DEF vars, WantedIsFollowed
  <2> QED
    BY <2>1, <2>2, <2>3, <2>4, <2>5, <2>6 DEF Next, WatchStep, LoopStep
<1> QED
  BY <1>1, <1>2, PTL DEF Spec

=============================================================================
