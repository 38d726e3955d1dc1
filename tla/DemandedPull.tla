---------------------------- MODULE DemandedPull ----------------------------
(***************************************************************************)
(* The read-only volumes of one repository on one node, and how a demand   *)
(* reaches them: the annotation a webhook or a person writes, the node's   *)
(* one watch on PersistentVolumes, the stage that fetches before the node  *)
(* knows the volume, the fetch loop the volumes share with its timers and  *)
(* its one-slot wakes, the credential that comes and goes with the         *)
(* kubelet's calls, and a driver that is killed and resumes.               *)
(*                                                                         *)
(* A commit is its place in the ref's history, 0 none. A time is a number, *)
(* 0 none. A volume struct is told from the one an earlier stage made of   *)
(* the same handle by its generation. The kubelet runs one call at a time  *)
(* for a volume. Every step is one critical section, fetch or select case. *)
(***************************************************************************)
EXTENDS Naturals

CONSTANTS
    Volumes,        \* the claims that follow the ref on this node
    Timed,          \* the ones whose pull names an interval
    StageSecret,    \* the ones whose stage call carries the Secret
    PublishSecret,  \* the ones whose publish calls carry it
    Private,        \* whether the remote asks for a credential
    AllowStale,     \* the ones with offline: allowStale
    DemandMin,      \* --demand-min-interval
    MaxRetry,       \* maxDemandRetry
    Skew,           \* demandSkew
    Drifts,         \* how far behind the clocks of the writers run
    MaxCommits,     \* bound: the ref's commits
    MaxTime,        \* bound: time, except for a delay that runs
    MaxStages,      \* bound: structs a stage makes for one handle
    MaxRotations,   \* bound: rotations of the Secret
    MaxFaults,      \* bound: fetches the network fails
    MaxCrashes      \* bound: driver kills

ASSUME PullAssumption ==
    /\ Timed \subseteq Volumes /\ AllowStale \subseteq Volumes
    /\ StageSecret \subseteq Volumes /\ PublishSecret \subseteq Volumes
    /\ Private \in BOOLEAN
    /\ DemandMin \in Nat /\ MaxRetry \in Nat \ {0} /\ Skew \in Nat \ {0}
    /\ Drifts \subseteq Nat
    /\ MaxCommits \in Nat \ {0} /\ MaxTime \in Nat
    /\ MaxStages \in Nat /\ MaxRotations \in Nat
    /\ MaxFaults \in Nat /\ MaxCrashes \in Nat

\* demandSkew: the clock error under which no demand may be missed.
ASSUME DriftAssumption == \A drift \in Drifts : drift < Skew

\* A volume is none of the other actors and holders of the lock.
ASSUME VolumesAssumption == Volumes \cap { "watch", "free", "pass" } = {}

VARIABLES
    (* the cluster *)
    now,         \* the node's clock
    remote,      \* the ref's commit
    secret,      \* the version of the Secret
    annotation,  \* demandAnnotation of each PersistentVolume
    due,         \* the volumes whose annotation the watch has to deliver
    (* the kubelet *)
    call,        \* call[v]: what is left of the call that runs
    published,   \* the volumes a pod mounts; their record is on disk
    (* each volume struct *)
    gen,         \* which struct of the handle
    key,         \* volume.credentials: a version of the Secret, or 0
    waits,       \* volume.credentialLost
    answered,    \* volume.answered
    taken,       \* volume.taken
    tree,        \* the commit in the published tree
    start,       \* the stage's local variable start
    (* the node *)
    staged,      \* the handles in node.staged
    copy,        \* the commit of the store's copy of the ref
    seen,        \* demanding.seen
    acting,      \* the calls of actOn that run, one of each actor
    (* the follower *)
    followed,    \* follower.volumes
    wanted,      \* follower.wanted
    demanded,    \* whether the slot of the channel is full
    arrived,     \* whether the slot of the channel is full
    delay,       \* when the delay timer fires, 0 while not waiting
    retry,       \* whether the retry timer runs
    wait,        \* what the retry timer was set to
    backoff,     \* follower.backoff
    lastPull,    \* follower.lastPull
    loop,        \* where run is
    pass,        \* the tick that holds the repository's lock
    lock,        \* who holds it
    (* history and bounds *)
    asked,       \* asked[v]: the commit the last demand was made for
    stamps,      \* stamps[v]: the times the demands carried
    up, faults, crashes

clusterVars == <<now, remote, secret, annotation, due, asked, stamps>>
kubeletVars == <<call, published>>
structVars  == <<gen, key, waits, answered, taken, tree, start>>
nodeVars    == <<staged, copy, seen, acting>>
retryVars   == <<retry, wait, backoff>>
loopVars    == <<followed, wanted, demanded, arrived, delay, retryVars,
                 lastPull, loop>>
passVars    == <<pass, lock>>
boundVars   == <<up, faults, crashes>>
vars == <<clusterVars, kubeletVars, structVars, nodeVars, loopVars, passVars,
          boundVars>>

Calls == { "none", "lock", "fetch", "add", "arrived", "act", "credential",
           "unfollow" }

\* actOn runs for the watch and, at the end of a stage, for the volume.
Actors == Volumes \cup {"watch"}

NoAct == [pc |-> "none"]

Structs == Volumes \X Nat

Acts ==
    {NoAct}
    \cup [pc : {"take"}, of : Volumes, at : Nat]
    \cup [pc : {"demand"}, of : Structs]

NoPass == [pc |-> "none"]

Passes ==
    {NoPass}
    \cup [pc : {"snapshot", "fetch", "apply"}, start : Nat,
          wanted : SUBSET Volumes, todo : SUBSET Structs,
          cur : Structs \cup {<<>>}, got : 0..MaxCommits,
          failed : BOOLEAN, live : BOOLEAN]

TypeOK ==
    /\ now \in Nat /\ remote \in 1..MaxCommits /\ secret \in Nat
    /\ annotation \in [Volumes -> Nat] /\ due \subseteq Volumes
    /\ call \in [Volumes -> Calls] /\ published \subseteq Volumes
    /\ gen \in [Volumes -> Nat] /\ key \in [Volumes -> Nat]
    /\ waits \in [Volumes -> BOOLEAN]
    /\ answered \in [Volumes -> 0..(now - Skew)]
    /\ taken \in [Volumes -> Nat]
    /\ tree \in [Volumes -> 0..MaxCommits] /\ start \in [Volumes -> Nat]
    /\ staged \subseteq Volumes /\ copy \in 0..MaxCommits
    /\ seen \in [Volumes -> Nat] /\ acting \in [Actors -> Acts]
    /\ followed \subseteq Volumes /\ wanted \subseteq Volumes
    /\ demanded \in BOOLEAN /\ arrived \in BOOLEAN
    /\ delay \in Nat /\ lastPull \in Nat
    /\ retry \in BOOLEAN /\ wait \in Nat /\ backoff \in Nat
    /\ loop \in { "select", "tick", "pass" }
    /\ pass \in Passes /\ lock \in Volumes \cup { "free", "pass" }
    /\ asked \in [Volumes -> 0..MaxCommits]
    /\ stamps \in [Volumes -> SUBSET Nat]
    /\ up \in BOOLEAN /\ faults \in 0..MaxFaults /\ crashes \in 0..MaxCrashes

\* The clock starts where every time less the skew is still a time.
Init ==
    /\ now = Skew + 1 /\ remote = 1 /\ secret = 1
    /\ annotation = [v \in Volumes |-> 0] /\ due = {}
    /\ call = [v \in Volumes |-> "none"] /\ published = {}
    /\ gen = [v \in Volumes |-> 0] /\ key = [v \in Volumes |-> 0]
    /\ waits = [v \in Volumes |-> FALSE]
    /\ answered = [v \in Volumes |-> 0] /\ taken = [v \in Volumes |-> 0]
    /\ tree = [v \in Volumes |-> 0] /\ start = [v \in Volumes |-> 0]
    /\ staged = {} /\ copy = 0
    /\ seen = [v \in Volumes |-> 0] /\ acting = [a \in Actors |-> NoAct]
    /\ followed = {} /\ wanted = {} /\ demanded = FALSE /\ arrived = FALSE
    /\ delay = 0 /\ retry = FALSE /\ wait = 0 /\ backoff = 0
    /\ lastPull = 0 /\ loop = "select"
    /\ pass = NoPass /\ lock = "free"
    /\ asked = [v \in Volumes |-> 0] /\ stamps = [v \in Volumes |-> {}]
    /\ up = TRUE /\ faults = 0 /\ crashes = 0

-----------------------------------------------------------------------------
(* The cluster *)

Advance ==
    /\ now < MaxTime \/ now < delay
    /\ now' = now + 1
    /\ UNCHANGED <<remote, secret, annotation, due, asked, stamps, kubeletVars,
                   structVars, nodeVars, loopVars, passVars, boundVars>>

Push ==
    /\ remote < MaxCommits
    /\ remote' = remote + 1
    /\ UNCHANGED <<now, secret, annotation, due, asked, stamps, kubeletVars,
                   structVars, nodeVars, loopVars, passVars, boundVars>>

Rotate ==
    /\ Private /\ secret <= MaxRotations
    /\ secret' = secret + 1
    /\ UNCHANGED <<now, remote, annotation, due, asked, stamps, kubeletVars,
                   structVars, nodeVars, loopVars, passVars, boundVars>>

\* demandPull: the webhook stamps the PersistentVolume with its own clock,
\* fine enough that no two demands of a volume carry one time.
demandPull(v, drift) ==
    /\ now <= MaxTime /\ now - drift \notin stamps[v]
    /\ asked[v] < remote
    /\ annotation' = [annotation EXCEPT ![v] = now - drift]
    /\ due' = due \cup {v}
    /\ asked' = [asked EXCEPT ![v] = remote]
    /\ stamps' = [stamps EXCEPT ![v] = @ \cup {now - drift}]
    /\ UNCHANGED <<now, remote, secret, kubeletVars, structVars, nodeVars,
                   loopVars, passVars, boundVars>>

-----------------------------------------------------------------------------
(* A demand on its way to the loop *)

Later(one, other) == IF one > other THEN one ELSE other

\* answerDemandsBefore. (Mutant: no skew is allowed.)
answersUpTo(v, begun) == Later(answered[v], begun)

answersBefore(v, begun) == Later(answered[v], begun - Skew)

Held(v, g) == v \in followed /\ gen[v] = g

\* demanding.read, for a change of the annotation and as well for any other
\* event of the object or a list.
read(v) ==
    /\ up /\ acting["watch"] = NoAct
    /\ annotation[v] # 0
    /\ due' = due \ {v}
    /\ seen' = [seen EXCEPT ![v] = annotation[v]]
    /\ acting' = [acting EXCEPT !["watch"] =
                      [pc |-> "take", of |-> v, at |-> annotation[v]]]
    /\ UNCHANGED <<now, remote, secret, annotation, asked, stamps, kubeletVars,
                   structVars, staged, copy, loopVars, passVars, boundVars>>

\* takeDemand: the demand a fetch answered, and the one already taken, are
\* dropped.
Dropped(v, at) == at = taken[v] \/ at <= answered[v]

\* actOn: what the stage's call goes on with.
AfterAct(actor) ==
    call' = IF actor \in Volumes THEN [call EXCEPT ![actor] = "none"] ELSE call

actOn(actor) ==
    /\ acting[actor].pc = "take"
    /\ LET v == acting[actor].of
           at == acting[actor].at IN
       IF v \notin staged \/ Dropped(v, at)
       THEN /\ acting' = [acting EXCEPT ![actor] = NoAct]
            /\ AfterAct(actor)
            /\ UNCHANGED <<taken, answered>>
       ELSE /\ taken' = [taken EXCEPT ![v] = at]
            /\ answered' = [answered EXCEPT ![v] = answersBefore(v, now)]
            /\ acting' = [acting EXCEPT ![actor] =
                              [pc |-> "demand", of |-> <<v, gen[v]>>]]
            /\ UNCHANGED call
    /\ UNCHANGED <<clusterVars, published, gen, key, waits, tree, start, staged,
                   copy, seen, loopVars, passVars, boundVars>>

\* follower.demand: the volume is wanted, and the loop is woken.
wake(v) ==
    /\ wanted' = wanted \cup {v}
    /\ demanded' = TRUE

demand(actor) ==
    /\ acting[actor].pc = "demand"
    /\ LET v == acting[actor].of[1]
           g == acting[actor].of[2] IN
       IF Held(v, g) /\ ~waits[v] THEN wake(v)
                                 ELSE UNCHANGED <<wanted, demanded>>
    /\ acting' = [acting EXCEPT ![actor] = NoAct]
    /\ AfterAct(actor)
    /\ UNCHANGED <<clusterVars, published, structVars, staged, copy, seen,
                   followed, arrived, delay, retryVars, lastPull, loop,
                   passVars, boundVars>>

-----------------------------------------------------------------------------
(* The kubelet's calls *)

Carried(v, carriers) == IF v \in carriers THEN secret ELSE 0

\* stageReadOnly makes the struct.
stageReadOnly(v) ==
    /\ up /\ call[v] = "none" /\ v \notin staged /\ gen[v] < MaxStages
    /\ gen' = [gen EXCEPT ![v] = @ + 1]
    /\ key' = [key EXCEPT ![v] = Carried(v, StageSecret)]
    /\ waits' = [waits EXCEPT ![v] = FALSE]
    /\ answered' = [answered EXCEPT ![v] = 0]
    /\ taken' = [taken EXCEPT ![v] = 0]
    /\ call' = [call EXCEPT ![v] = "lock"]
    /\ UNCHANGED <<clusterVars, published, tree, start, nodeVars, loopVars,
                   passVars, boundVars>>

\* stage takes the repository's lock and notes the time,
StageLock(v) ==
    /\ call[v] = "lock" /\ lock = "free"
    /\ lock' = v
    /\ start' = [start EXCEPT ![v] = now]
    /\ call' = [call EXCEPT ![v] = "fetch"]
    /\ UNCHANGED <<clusterVars, published, gen, key, waits, answered, taken,
                   tree, nodeVars, loopVars, pass, boundVars>>

\* The remote answers whoever has the right credential.
Allowed(v) == Private => key[v] = secret

Fault == faults < MaxFaults /\ faults' = faults + 1

FetchFails(v) == (~Allowed(v) /\ UNCHANGED faults) \/ Fault

\* fetches and places what it got, or, after a fetch that failed, what the
\* store holds, if the volume allows that; otherwise the call fails.
stage(v) ==
    /\ call[v] = "fetch"
    /\ lock' = "free"
    /\ \/ /\ Allowed(v)
          /\ copy' = remote
          /\ tree' = [tree EXCEPT ![v] = remote]
          /\ answered' = [answered EXCEPT ![v] = answersBefore(v, start[v])]
          /\ call' = [call EXCEPT ![v] = "add"]
          /\ UNCHANGED faults
       \/ /\ FetchFails(v)
          /\ IF v \in AllowStale /\ copy # 0
             THEN /\ tree' = [tree EXCEPT ![v] = copy]
                  /\ call' = [call EXCEPT ![v] = "add"]
             ELSE /\ call' = [call EXCEPT ![v] = "none"]
                  /\ UNCHANGED tree
          /\ UNCHANGED <<copy, answered>>
    /\ start' = [start EXCEPT ![v] = 0]
    /\ UNCHANGED <<clusterVars, published, gen, key, waits, taken, staged, seen,
                   acting, loopVars, pass, up, crashes>>

\* The node takes the volume, and follow starts the loop with the first.
NewLoop ==
    /\ wanted' = {} /\ demanded' = FALSE /\ arrived' = FALSE
    /\ delay' = 0 /\ retry' = FALSE /\ wait' = 0 /\ backoff' = 0
    /\ lastPull' = 0 /\ loop' = "select"

follow(v) ==
    /\ call[v] = "add"
    /\ staged' = staged \cup {v}
    /\ followed' = followed \cup {v}
    /\ IF followed = {}
       THEN NewLoop
       ELSE UNCHANGED <<wanted, demanded, arrived, delay, retryVars,
                        lastPull, loop>>
    /\ call' = [call EXCEPT ![v] = "arrived"]
    /\ UNCHANGED <<clusterVars, published, structVars, copy, seen, acting,
                   passVars, boundVars>>

\* demanding.arrived: the last demand read for the handle, if any. (Mutant:
\* the stage ends without it.)
NotReadAgain(v) == FALSE

ReadAgain(v) == seen[v] # 0

Arrived(v) ==
    /\ call[v] = "arrived"
    /\ IF ReadAgain(v)
       THEN /\ acting' = [acting EXCEPT ![v] =
                              [pc |-> "take", of |-> v, at |-> seen[v]]]
            /\ call' = [call EXCEPT ![v] = "act"]
       ELSE /\ call' = [call EXCEPT ![v] = "none"]
            /\ UNCHANGED acting
    /\ UNCHANGED <<clusterVars, published, structVars, staged, copy, seen,
                   loopVars, passVars, boundVars>>

\* takeSecret: a credential that replaces another, or ends a wait, starts
\* the fetch it held back. A first one does not.
takeSecret(v) ==
    LET holder == Carried(v, PublishSecret) IN
    IF holder = 0 \/ holder = key[v]
    THEN UNCHANGED <<key, waits, call>>
    ELSE /\ key' = [key EXCEPT ![v] = holder]
         /\ waits' = [waits EXCEPT ![v] = FALSE]
         /\ IF waits[v] \/ key[v] # 0
            THEN call' = [call EXCEPT ![v] = "credential"]
            ELSE UNCHANGED call

\* checkSecret refuses a first publish with another Secret.
checkSecret(v) ==
    LET holder == Carried(v, PublishSecret) IN
    key[v] = 0 \/ holder = 0 \/ key[v] = holder

publishReadOnly(v) ==
    /\ up /\ call[v] = "none" /\ v \in staged \ published
    /\ checkSecret(v)
    /\ published' = published \cup {v}
    /\ takeSecret(v)
    /\ UNCHANGED <<clusterVars, gen, answered, taken, tree, start, nodeVars,
                   loopVars, passVars, boundVars>>

\* The kubelet repeats the publish on each pod sync.
republished(v) ==
    /\ up /\ call[v] = "none" /\ v \in published \cap staged
    /\ takeSecret(v)
    /\ UNCHANGED <<clusterVars, published, gen, answered, taken, tree, start,
                   nodeVars, loopVars, passVars, boundVars>>

\* follower.credentialArrived. (Mutant: it only has the interval read again.)
CredentialNudges(v) ==
    /\ wanted' = wanted \cup {v}
    /\ UNCHANGED <<demanded, arrived>>

CredentialWakes(v) ==
    /\ wanted' = wanted \cup {v}
    /\ arrived' = TRUE
    /\ UNCHANGED demanded

credentialArrived(v) ==
    /\ call[v] = "credential"
    /\ call' = [call EXCEPT ![v] = "none"]
    /\ IF v \in followed THEN CredentialWakes(v)
                         ELSE UNCHANGED <<wanted, demanded, arrived>>
    /\ UNCHANGED <<clusterVars, published, structVars, nodeVars, followed,
                   delay, retryVars, lastPull, loop, passVars, boundVars>>

Unpublish(v) ==
    /\ call[v] = "none" /\ v \in published
    /\ published' = published \ {v}
    /\ UNCHANGED <<clusterVars, call, structVars, nodeVars, loopVars, passVars,
                   boundVars>>

\* NodeUnstageVolume, and then unstageReadOnly, which stops the loop with
\* its last volume. A pass that runs goes on without one.
Unstage(v) ==
    /\ up /\ call[v] = "none" /\ v \in staged \ published
    /\ staged' = staged \ {v}
    /\ call' = [call EXCEPT ![v] = "unfollow"]
    /\ UNCHANGED <<clusterVars, published, structVars, copy, seen, acting,
                   loopVars, passVars, boundVars>>

\* An unstage of a volume the node does not hold answers success.
UnstageUnknown(v) ==
    /\ up /\ call[v] = "none" /\ v \notin staged
    /\ UNCHANGED vars

unfollow(v) ==
    /\ call[v] = "unfollow"
    /\ followed' = followed \ {v}
    /\ IF followed = {v}
       THEN /\ NewLoop
            /\ pass' = IF pass = NoPass THEN pass
                                        ELSE [pass EXCEPT !.live = FALSE]
       ELSE /\ wanted' = wanted \ {v}
            /\ UNCHANGED <<demanded, arrived, delay, retryVars, lastPull,
                           loop, pass>>
    /\ tree' = [tree EXCEPT ![v] = 0]
    /\ key' = [key EXCEPT ![v] = 0]
    /\ call' = [call EXCEPT ![v] = "none"]
    /\ UNCHANGED <<clusterVars, published, gen, waits, answered, taken, start,
                   nodeVars, lock, boundVars>>

-----------------------------------------------------------------------------
(* The loop *)

Selects == followed # {} /\ loop = "select"

\* demandWait: a demand inside the interval waits for the rest of it.
demandWait == lastPull # 0 /\ now < lastPull + DemandMin

TakeDemanded ==
    /\ Selects /\ demanded
    /\ demanded' = FALSE
    /\ IF delay # 0
       THEN UNCHANGED <<delay, loop>>
       ELSE IF demandWait
       THEN delay' = lastPull + DemandMin /\ UNCHANGED loop
       ELSE loop' = "tick" /\ UNCHANGED delay
    /\ UNCHANGED <<clusterVars, kubeletVars, structVars, nodeVars, followed,
                   wanted, arrived, retryVars, lastPull, passVars, boundVars>>

DelayFires ==
    /\ Selects /\ delay # 0 /\ now >= delay
    /\ delay' = 0
    /\ loop' = "tick"
    /\ UNCHANGED <<clusterVars, kubeletVars, structVars, nodeVars, followed,
                   wanted, demanded, arrived, retryVars, lastPull, passVars,
                   boundVars>>

TakeArrived ==
    /\ Selects /\ arrived
    /\ arrived' = FALSE
    /\ loop' = "tick"
    /\ UNCHANGED <<clusterVars, kubeletVars, structVars, nodeVars, followed,
                   wanted, demanded, delay, retryVars, lastPull, passVars,
                   boundVars>>

\* The interval and the backoff may be over at any moment.
TimerFires ==
    /\ Selects /\ followed \cap Timed # {}
    /\ loop' = "tick"
    /\ UNCHANGED <<clusterVars, kubeletVars, structVars, nodeVars, followed,
                   wanted, demanded, arrived, delay, retryVars, lastPull,
                   passVars, boundVars>>

RetryFires ==
    /\ Selects /\ retry
    /\ retry' = FALSE /\ wait' = 0
    /\ loop' = "tick"
    /\ UNCHANGED <<clusterVars, kubeletVars, structVars, nodeVars, followed,
                   wanted, demanded, arrived, delay, backoff, lastPull,
                   passVars, boundVars>>

\* tick: the lock, the time, and the volumes the demands named,
answeredBy(begun) ==
    /\ wanted' = {}
    /\ lastPull' = begun

tick ==
    /\ followed # {} /\ loop = "tick" /\ lock = "free"
    /\ lock' = "pass"
    /\ loop' = "pass"
    /\ answeredBy(now)
    /\ pass' = [pc |-> "snapshot", start |-> now, wanted |-> wanted,
                todo |-> {}, cur |-> <<>>, got |-> 0, failed |-> FALSE,
                live |-> TRUE]
    /\ UNCHANGED <<clusterVars, kubeletVars, structVars, nodeVars, followed,
                   demanded, arrived, delay, retryVars, boundVars>>

\* then the volumes of the loop,
snapshot ==
    /\ pass.pc = "snapshot"
    /\ pass' = [pass EXCEPT !.pc = "fetch",
                            !.todo = IF pass.live
                                     THEN { <<v, gen[v]>> : v \in followed }
                                     ELSE {}]
    /\ UNCHANGED <<clusterVars, kubeletVars, structVars, nodeVars, loopVars,
                   lock, boundVars>>

\* and for each one refresh: the fetch, which moves the store's copy. The
\* context of a loop that stopped ends its fetches.
refresh(one) ==
    /\ pass.pc = "fetch" /\ one \in pass.todo
    /\ LET v == one[1]
           same == Held(v, one[2])
           next == [pass EXCEPT !.pc = "apply", !.cur = one,
                                !.todo = @ \ {one}] IN
       IF same /\ waits[v]
       THEN /\ pass' = [pass EXCEPT !.todo = @ \ {one}]
            /\ UNCHANGED <<copy, faults>>
       ELSE \/ /\ pass.live /\ (same => Allowed(v))
               /\ copy' = remote
               /\ pass' = [next EXCEPT !.got = remote]
               /\ UNCHANGED faults
            \/ /\ IF pass.live /\ same THEN FetchFails(v) ELSE UNCHANGED faults
               /\ pass' = [next EXCEPT !.got = 0]
               /\ UNCHANGED copy
    /\ UNCHANGED <<clusterVars, kubeletVars, structVars, staged, seen, acting,
                   loopVars, lock, up, crashes>>

\* and the placement and the answer, or the volume is wanted again, unless
\* the node took it off the loop. (Mutant: nothing is compared.)
WantedWhoever(v, g) == TRUE

WantedStill(v, g) == Held(v, g)

\* One failure makes the pass a failed one. (Mutant: the last fetch does.)
LastFailing(again) == again

Failing(again) == pass.failed \/ again

apply ==
    /\ pass.pc = "apply"
    /\ LET v == pass.cur[1]
           g == pass.cur[2]
           again == pass.got = 0 /\ v \in pass.wanted /\ WantedStill(v, g) IN
       /\ IF pass.got # 0 /\ Held(v, g)
          THEN /\ tree' = [tree EXCEPT ![v] = pass.got]
               /\ answered' =
                      [answered EXCEPT ![v] = answersBefore(v, pass.start)]
          ELSE UNCHANGED <<tree, answered>>
       /\ wanted' = IF again THEN wanted \cup {v} ELSE wanted
       /\ pass' = [pass EXCEPT !.pc = "fetch", !.cur = <<>>, !.got = 0,
                               !.failed = Failing(again)]
    /\ UNCHANGED <<clusterVars, kubeletVars, gen, key, waits, taken, start,
                   nodeVars, followed, demanded, arrived, delay, retryVars,
                   lastPull, loop, lock, boundVars>>

\* jittered: any wait from half the limit, or the floor when that is higher,
\* up to the limit.
jittered(limit, floor) ==
    IF limit < 2 \/ Later(floor, limit \div 2) >= limit
    THEN {limit}
    ELSE Later(floor, limit \div 2)..limit

\* nextRetry doubles the backoff up to its maximum. (Mutant: it stays at the
\* interval.)
staysAtInterval ==
    IF Later(backoff, DemandMin) < MaxRetry THEN Later(backoff, DemandMin)
                                            ELSE MaxRetry

nextRetry ==
    LET doubled == Later(2 * backoff, DemandMin) IN
    IF doubled < MaxRetry THEN doubled ELSE MaxRetry

\* settle: the retry runs after a pass whose demanded fetch failed.
settle ==
    /\ pass.pc = "fetch" /\ pass.todo = {}
    /\ lock' = "free"
    /\ pass' = NoPass
    /\ \/ /\ pass.live /\ pass.failed
          /\ retry' = TRUE
          /\ backoff' = nextRetry
          /\ wait' \in jittered(nextRetry, DemandMin)
          /\ loop' = "select"
       \/ /\ pass.live /\ ~pass.failed
          /\ retry' = FALSE /\ wait' = 0 /\ backoff' = 0
          /\ loop' = "select"
       \/ /\ ~pass.live
          /\ UNCHANGED <<retryVars, loop>>
    /\ UNCHANGED <<clusterVars, kubeletVars, structVars, nodeVars, followed,
                   wanted, demanded, arrived, delay, lastPull, boundVars>>

-----------------------------------------------------------------------------
(* Kills and restarts *)

\* Mounts, records, trees and the store outlive the driver.
Crash ==
    /\ up /\ crashes < MaxCrashes
    /\ up' = FALSE
    /\ crashes' = crashes + 1
    /\ call' = [v \in Volumes |-> "none"]
    /\ key' = [v \in Volumes |-> 0]
    /\ waits' = [v \in Volumes |-> FALSE]
    /\ answered' = [v \in Volumes |-> 0]
    /\ taken' = [v \in Volumes |-> 0]
    /\ start' = [v \in Volumes |-> 0]
    /\ staged' = {} /\ followed' = {}
    /\ seen' = [v \in Volumes |-> 0]
    /\ acting' = [a \in Actors |-> NoAct]
    /\ NewLoop
    /\ pass' = NoPass /\ lock' = "free"
    /\ UNCHANGED <<clusterVars, published, gen, tree, copy, faults>>

\* resume: the volumes a pod still mounts are followed again, the others
\* are dropped, and resumePull wants every one that waits for no Secret. The
\* watch lists every PersistentVolume.
Resumed == { v \in published : v \notin StageSecret \cup PublishSecret }

resume ==
    /\ ~up
    /\ up' = TRUE
    /\ staged' = published /\ followed' = published
    /\ gen' = [v \in Volumes |-> IF v \in published THEN gen[v] + 1 ELSE gen[v]]
    /\ waits' = [v \in Volumes |-> v \in published \ Resumed]
    /\ answered' = [v \in Volumes |->
                        IF v \in published THEN answersBefore(v, now) ELSE 0]
    /\ tree' = [v \in Volumes |-> IF v \in published THEN tree[v] ELSE 0]
    /\ wanted' = Resumed
    /\ demanded' = (Resumed # {})
    /\ due' = { v \in Volumes : annotation[v] # 0 }
    /\ UNCHANGED <<now, remote, secret, annotation, asked, stamps, kubeletVars,
                   key, taken, start, copy, seen, acting, arrived, delay,
                   retryVars, lastPull, loop, passVars, faults, crashes>>

-----------------------------------------------------------------------------

\* What runs to its end once it has begun.
CallStep(v) ==
    \/ stage(v) \/ follow(v) \/ Arrived(v)
    \/ credentialArrived(v) \/ unfollow(v)

WatchStep ==
    \/ \E v \in due : read(v)
    \/ \E actor \in Actors : actOn(actor) \/ demand(actor)

LoopStep ==
    \/ TakeDemanded \/ DelayFires \/ TakeArrived \/ RetryFires
    \/ snapshot \/ apply \/ settle
    \/ pass.pc = "fetch" /\ \E one \in pass.todo : refresh(one)

ClusterStep ==
    \/ Advance \/ Push \/ Rotate
    \/ \E v \in Volumes, drift \in Drifts : demandPull(v, drift)

KubeletStep(v) ==
    \/ stageReadOnly(v) \/ publishReadOnly(v) \/ republished(v)
    \/ Unpublish(v) \/ Unstage(v) \/ UnstageUnknown(v)

Next ==
    \/ ClusterStep
    \/ WatchStep \/ \E v \in Volumes : read(v)
    \/ \E v \in Volumes : CallStep(v) \/ KubeletStep(v) \/ StageLock(v)
    \/ LoopStep \/ TimerFires \/ tick
    \/ Crash \/ resume

Spec == Init /\ [][Next]_vars

-----------------------------------------------------------------------------
(* Properties *)

\* Whether the pass that runs fetches the volume for the demand, or wants
\* it again.
PassServes(v) ==
    /\ pass # NoPass
    /\ \/ pass.pc = "snapshot" /\ v \in pass.wanted
       \/ <<v, gen[v]>> \in pass.todo /\ v \in pass.wanted
       \/ /\ pass.cur = <<v, gen[v]>>
          /\ pass.got >= asked[v] \/ (pass.got = 0 /\ v \in pass.wanted)

\* What still carries a demand of the volume towards a fetch.
OnItsWay(v) ==
    \/ v \in due \/ v \in wanted \/ waits[v] \/ PassServes(v)
    \/ call[v] \in { "arrived", "act", "credential" }
    \/ acting["watch"].pc = "take" /\ acting["watch"].of = v
    \/ acting["watch"].pc = "demand" /\ acting["watch"].of = <<v, gen[v]>>

\* No demand is lost: a volume the node follows that lacks the commit a
\* demand was made for has that demand on its way, whatever stages, passes
\* that fetch already, failed fetches, restarts, and writers with slow
\* clocks come between (demandSkew, takeDemand, arrived, wantAgain).
NoDemandLost ==
    \A v \in staged : tree[v] < asked[v] => OnItsWay(v)

\* The loop never sleeps on a demand: while a volume is wanted and run waits
\* in its select, a wake or a timer that leads to a pass is set (demand,
\* credentialArrived, settle).
WantedIsScheduled ==
    up /\ wanted # {} /\ loop = "select"
    => demanded \/ arrived \/ delay # 0 \/ retry

\* A pass that outlives an unstage puts nothing back: only volumes of the
\* loop are wanted (remove, wantAgain).
WantedIsFollowed == wanted \subseteq followed

\* The retry waits no less than --demand-min-interval, which it does not ask
\* again when it fires, and no longer than maxDemandRetry, so a remote that
\* comes back is fetched from within that time (nextRetry, jittered). It is
\* arithmetic on the constants, so it is proved for every value of them
\* (RetryBounded) and checked by no run.
RetryInBounds == retry => DemandMin <= wait /\ wait <= MaxRetry

\* Passes that fail in a row double the backoff up to its maximum: no remote
\* is fetched from again and again at one short pace (settle, nextRetry).
BacksOff ==
    pass # NoPass /\ pass' = NoPass /\ retry'
    => \/ backoff' = MaxRetry
       \/ backoff' > backoff /\ backoff' >= 2 * backoff

FailuresBackOff == [][BacksOff]_vars

-----------------------------------------------------------------------------
(* Liveness *)

\* A call runs to its end and the kubelet repeats its publishes, the
\* informer delivers every change in the end, select serves a ready case,
\* timers fire, and sync.Mutex starves no waiter.
Fairness ==
    /\ WF_vars(LoopStep) /\ WF_vars(WatchStep) /\ SF_vars(tick)
    /\ WF_vars(resume) /\ WF_vars(now < delay /\ Advance)
    /\ \A v \in Volumes :
           /\ WF_vars(CallStep(v)) /\ SF_vars(StageLock(v))
           /\ WF_vars(republished(v))

FairSpec == Spec /\ Fairness

-----------------------------------------------------------------------------
(* The pull implements PullOnDemand *)

Pull == INSTANCE PullOnDemand WITH
    Commits <- 1..MaxCommits,
    mounted <- published

\* A demand is answered: while a pod mounts it, a volume whose remote answers
\* from some time on comes to hold what it was demanded for; and whichever
\* pass, stage, stale copy or restart places a commit, a mounted volume
\* never goes back to an older one (tick, refresh, stage, resumePull).
DemandAnswered == Pull!Spec

=============================================================================
