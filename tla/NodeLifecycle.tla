---------------------------- MODULE NodeLifecycle ----------------------------
(***************************************************************************)
(* The writeable volumes of one repository on one node, and the goroutines *)
(* that meet over them: the kubelet's calls, the watcher of each published *)
(* tree, the loop that arms a volume, and the sweep of the store. They     *)
(* share two kinds of lock, node.mu and the repository's, and the volume's *)
(* directory. A driver may be killed and resumes from its records.         *)
(*                                                                         *)
(* What a stage, a commit and a push do to the history is WriteableVolume; *)
(* here they say only when a goroutine works on a tree, which lock it      *)
(* holds or waits for, and whether work is left. The kubelet runs one call *)
(* at a time for a volume and repeats a call that failed.                  *)
(***************************************************************************)
EXTENDS Naturals

CONSTANTS
    Volumes,     \* the volumes of the repository
    Mounted,     \* the ones a pod comes to mount
    Contended,   \* whether other writers push to the ref
    MaxFaults,   \* bound: stages, mounts and records that fail
    MaxCrashes   \* bound: driver kills

ASSUME NodeAssumption ==
    /\ Mounted \subseteq Volumes /\ Contended \in BOOLEAN
    /\ MaxFaults \in Nat /\ MaxCrashes \in Nat

VARIABLES
    (* the kubelet *)
    known,      \* how far the kubelet has brought the volume
    pod,        \* pod[v]: a pod writes the tree
    (* the disk and the kernel *)
    bound,      \* the tree is bound at the target
    recorded,   \* the record names that target
    tree,       \* the work tree is there
    repo,       \* the bare repository is there
    ahead,      \* ahead[v]: it holds commits no push sent
    noted,      \* the file "unstaged" is there
    (* the driver *)
    up,
    staged,     \* node.staged
    published,  \* node.volumes
    pc,         \* where each goroutine is
    cancelled,  \* the context of the watcher has ended
    mu,         \* who holds node.mu across steps
    repoMu,     \* who holds the repository's lock
    sweep,      \* where the sweep is
    faults, crashes

kubeletVars == <<known, pod>>
diskVars    == <<bound, recorded, tree, repo, ahead, noted>>
memoryVars  == <<staged, published, cancelled>>
lockVars    == <<mu, repoMu>>
boundVars   == <<up, faults, crashes>>
vars == <<kubeletVars, diskVars, memoryVars, lockVars, boundVars, pc, sweep>>

Known == { "out", "staging", "staged", "publishing", "published",
           "unpublishing", "unstaging" }

\* The goroutines of a volume: the kubelet's call, and watcher.run.
Call(v)  == <<v, "call">>
Watch(v) == <<v, "watch">>
Actors   == Volumes \X { "call", "watch" }

\* The other values of a lock.
Free    == <<>>
Sweeper == <<"sweep">>

PushSteps == { "push", "fetch", "fetching", "resend" }

Steps ==
    PushSteps \cup
    { "none", "stage", "fetchRef", "noteAbandoned", "reconcile", "hold",
      "bind", "record", "watch", "wait", "unbind", "unbindOnly", "forget",
      "lastCommit", "disarm", "select", "commit" }

\* Where the watcher may be.
WatchSteps == PushSteps \cup { "none", "commit", "select" }

\* Where a goroutine runs git in the tree.
TreeWork == PushSteps \cup { "reconcile", "lastCommit", "commit" }

\* Where it waits for node.mu, and for the repository's lock.
MuSteps   == { "noteAbandoned", "hold", "watch", "disarm" }
RepoSteps == { "stage", "fetch" }

Sweeps ==
    [pc : { "idle", "uses" }]
    \cup [pc : { "evidence", "remove" }, of : Volumes]

KubeletType == known \in [Volumes -> Known] /\ pod \in [Volumes -> BOOLEAN]

DiskType ==
    /\ bound \in [Volumes -> BOOLEAN] /\ recorded \in [Volumes -> BOOLEAN]
    /\ tree \in [Volumes -> BOOLEAN] /\ repo \in BOOLEAN
    /\ ahead \in [Volumes -> BOOLEAN] /\ noted \in [Volumes -> BOOLEAN]

MemoryType ==
    /\ staged \subseteq Volumes /\ published \subseteq Volumes
    /\ cancelled \in [Volumes -> BOOLEAN]

\* No watcher is where only a call can be.
ControlType ==
    /\ pc \in [Actors -> Steps]
    /\ \A v \in Volumes : pc[Watch(v)] \in WatchSteps
    /\ mu \in Actors \cup { Free }
    /\ repoMu \in Actors \cup { Free, Sweeper }
    /\ sweep \in Sweeps

BoundType ==
    /\ up \in BOOLEAN
    /\ faults \in 0..MaxFaults /\ crashes \in 0..MaxCrashes

TypeOK == KubeletType /\ DiskType /\ MemoryType /\ ControlType /\ BoundType

Init ==
    /\ known = [v \in Volumes |-> "out"] /\ pod = [v \in Volumes |-> FALSE]
    /\ bound = [v \in Volumes |-> FALSE]
    /\ recorded = [v \in Volumes |-> FALSE]
    /\ tree = [v \in Volumes |-> FALSE] /\ repo = FALSE
    /\ ahead = [v \in Volumes |-> FALSE]
    /\ noted = [v \in Volumes |-> FALSE]
    /\ up = TRUE /\ staged = {} /\ published = {}
    /\ cancelled = [v \in Volumes |-> FALSE]
    /\ pc = [a \in Actors |-> "none"]
    /\ mu = Free /\ repoMu = Free /\ sweep = [pc |-> "idle"]
    /\ faults = 0 /\ crashes = 0

-----------------------------------------------------------------------------
(* Helpers *)

At(a, step) == pc[a] = step

Goto(a, step) == pc' = [pc EXCEPT ![a] = step]

Fault == faults < MaxFaults /\ faults' = faults + 1

\* node.mu is held across steps by unwatch alone. Every other critical
\* section of it is one step, and runs while nobody holds it.
muFree == mu = Free

\* A call that answers the kubelet: what the kubelet knows then.
Answer(v, state) ==
    /\ Goto(Call(v), "none")
    /\ known' = [known EXCEPT ![v] = state]

\* The kubelet starts the call.
Calls(v, before, state) ==
    /\ up /\ At(Call(v), "none") /\ muFree
    /\ known[v] \in before \cup {state}

-----------------------------------------------------------------------------
(* The pod *)

PodStops(v) ==
    /\ pod[v]
    /\ pod' = [pod EXCEPT ![v] = FALSE]
    /\ UNCHANGED <<known, diskVars, memoryVars, lockVars, boundVars, pc, sweep>>

-----------------------------------------------------------------------------
(* NodeStageVolume *)

\* A stage that a publish was refused for leaves the publish to be repeated.
AfterStage(v) == IF known[v] = "publishing" THEN "publishing" ELSE "staged"

NodeStageVolume(v) ==
    /\ Calls(v, { "out", "publishing" }, "staging")
    /\ IF v \in staged
       THEN Answer(v, AfterStage(v))
       ELSE /\ Goto(Call(v), "stage")
            /\ known' = [known EXCEPT ![v] = IF @ = "out" THEN "staging" ELSE @]
    /\ UNCHANGED <<pod, diskVars, memoryVars, lockVars, boundVars, sweep>>

\* stageTree holds the repository's lock from here to its end,
stageTree(v) ==
    /\ At(Call(v), "stage") /\ repoMu = Free
    /\ repoMu' = Call(v)
    /\ repo' = TRUE
    /\ Goto(Call(v), "fetchRef")
    /\ UNCHANGED <<kubeletVars, bound, recorded, tree, ahead, noted,
                   memoryVars, mu, boundVars, sweep>>

fetchRef(v) ==
    /\ At(Call(v), "fetchRef")
    /\ \/ /\ Goto(Call(v), "noteAbandoned")
          /\ UNCHANGED <<repoMu, faults>>
       \/ /\ tree[v]     \* refDeleted: the remote holds no ref
          /\ repoMu' = Free
          /\ Goto(Call(v), "hold")
          /\ UNCHANGED faults
       \/ /\ Fault
          /\ repoMu' = Free
          /\ Goto(Call(v), "none")
    /\ UNCHANGED <<kubeletVars, diskVars, memoryVars, mu, up, crashes, sweep>>

\* and takes node.mu under it.
noteAbandoned(v) ==
    /\ At(Call(v), "noteAbandoned") /\ muFree
    /\ Goto(Call(v), "reconcile")
    /\ UNCHANGED <<kubeletVars, diskVars, memoryVars, lockVars, boundVars,
                   sweep>>

\* create or reconcile. A create that failed may leave a tree.
reconcile(v) ==
    /\ At(Call(v), "reconcile")
    /\ repoMu' = Free
    /\ \/ /\ tree' = [tree EXCEPT ![v] = TRUE]
          /\ Goto(Call(v), "hold")
          /\ UNCHANGED faults
       \/ /\ Fault
          /\ UNCHANGED tree \/ tree' = [tree EXCEPT ![v] = TRUE]
          /\ Goto(Call(v), "none")
    /\ UNCHANGED <<kubeletVars, bound, recorded, repo, ahead, noted,
                   memoryVars, mu, up, crashes, sweep>>

\* The node takes the volume and arms it.
hold(v) ==
    /\ At(Call(v), "hold") /\ muFree
    /\ staged' = staged \cup {v}
    /\ Answer(v, AfterStage(v))
    /\ UNCHANGED <<pod, diskVars, published, cancelled, lockVars,
                   boundVars, sweep>>

-----------------------------------------------------------------------------
(* NodePublishVolume *)

\* publishStaged: a volume that is not staged is refused, and one that is
\* published is left as it is.
publishStaged(v) ==
    /\ v \in Mounted /\ Calls(v, { "staged", "published" }, "publishing")
    /\ known[v] = "published" => pod[v]
    /\ \/ /\ v \notin staged
          /\ known' = [known EXCEPT ![v] = IF pod[v] THEN @ ELSE "publishing"]
          /\ UNCHANGED <<pc, pod>>
       \/ /\ v \in staged \cap published
          /\ Answer(v, "published")
          /\ pod' = [pod EXCEPT ![v] = TRUE]
       \/ /\ v \in staged \ published
          /\ Goto(Call(v), "bind")
          /\ known' = [known EXCEPT ![v] = "publishing"]
          /\ UNCHANGED pod
    /\ UNCHANGED <<diskVars, memoryVars, lockVars, boundVars, sweep>>

bind(v) ==
    /\ At(Call(v), "bind")
    /\ \/ /\ bound' = [bound EXCEPT ![v] = TRUE]
          /\ recorded' = [recorded EXCEPT ![v] = FALSE]
          /\ Goto(Call(v), "record")
          /\ UNCHANGED faults
       \/ /\ Fault
          /\ Goto(Call(v), "none")
          /\ UNCHANGED <<bound, recorded>>
    /\ UNCHANGED <<kubeletVars, tree, repo, ahead, noted, memoryVars,
                   lockVars, up, crashes, sweep>>

\* A record the driver cannot write is logged and nothing more.
record(v) ==
    /\ At(Call(v), "record")
    /\ \/ recorded' = [recorded EXCEPT ![v] = TRUE] /\ UNCHANGED faults
       \/ Fault /\ UNCHANGED recorded
    /\ Goto(Call(v), "watch")
    /\ UNCHANGED <<kubeletVars, bound, tree, repo, ahead, noted,
                   memoryVars, lockVars, up, crashes, sweep>>

\* watch starts the loops; run scans first.
watch(v) ==
    /\ At(Call(v), "watch") /\ muFree
    /\ published' = published \cup {v}
    /\ cancelled' = [cancelled EXCEPT ![v] = FALSE]
    /\ pc' = [pc EXCEPT ![Watch(v)] = "commit", ![Call(v)] = "none"]
    /\ known' = [known EXCEPT ![v] = "published"]
    /\ pod' = [pod EXCEPT ![v] = TRUE]
    /\ UNCHANGED <<diskVars, staged, lockVars, boundVars, sweep>>

-----------------------------------------------------------------------------
(* NodeUnpublishVolume *)

\* unwatch holds node.mu until the loops have ended. (Mutants: it does not
\* wait for them, or does not end their context.)
NoWait(v) == TRUE

Ended(v) == At(Watch(v), "none")

NoCancel(v) == UNCHANGED cancelled

Cancel(v) == cancelled' = [cancelled EXCEPT ![v] = TRUE]

NodeUnpublishVolume(v) ==
    /\ Calls(v, { "published", "publishing" }, "unpublishing") /\ ~pod[v]
    /\ known' = [known EXCEPT ![v] = "unpublishing"]
    /\ IF v \in published
       THEN /\ published' = published \ {v}
            /\ Cancel(v)
            /\ mu' = Call(v)
            /\ Goto(Call(v), "wait")
       ELSE /\ Goto(Call(v), "unbindOnly")
            /\ UNCHANGED <<published, cancelled, mu>>
    /\ UNCHANGED <<pod, diskVars, staged, repoMu, boundVars, sweep>>

unwatch(v) ==
    /\ At(Call(v), "wait") /\ Ended(v)
    /\ mu' = Free
    /\ Goto(Call(v), "unbind")
    /\ UNCHANGED <<kubeletVars, diskVars, memoryVars, repoMu, boundVars, sweep>>

\* unbind. A call that did not find the volume has nothing more to do.
unbind(v) ==
    /\ pc[Call(v)] \in { "unbind", "unbindOnly" }
    /\ \/ /\ bound' = [bound EXCEPT ![v] = FALSE]
          /\ IF At(Call(v), "unbind")
             THEN Goto(Call(v), "forget") /\ UNCHANGED known
             ELSE Answer(v, "staged")
          /\ UNCHANGED faults
       \/ /\ Fault
          /\ Goto(Call(v), "none")
          /\ UNCHANGED <<bound, known>>
    /\ UNCHANGED <<pod, recorded, tree, repo, ahead, noted, memoryVars,
                   lockVars, up, crashes, sweep>>

forget(v) ==
    /\ At(Call(v), "forget")
    /\ recorded' = [recorded EXCEPT ![v] = FALSE]
    /\ Goto(Call(v), "lastCommit")
    /\ UNCHANGED <<kubeletVars, bound, tree, repo, ahead, noted,
                   memoryVars, lockVars, boundVars, sweep>>

\* commit: what it finds depends on the class, on the rest of the tree and
\* on what the pod wrote.
Commits(v) == ahead' = [ahead EXCEPT ![v] = TRUE]

lastCommit(v) ==
    /\ At(Call(v), "lastCommit")
    /\ Commits(v) \/ UNCHANGED ahead
    /\ Goto(Call(v), "push")
    /\ UNCHANGED <<kubeletVars, bound, recorded, tree, repo, noted, memoryVars,
                   lockVars, boundVars, sweep>>

-----------------------------------------------------------------------------
(* NodeUnstageVolume *)

NodeUnstageVolume(v) ==
    /\ Calls(v, { "staged", "staging" }, "unstaging")
    /\ IF v \in staged
       THEN /\ staged' = staged \ {v}
            /\ Goto(Call(v), "push")
            /\ known' = [known EXCEPT ![v] = "unstaging"]
       ELSE Answer(v, "out") /\ UNCHANGED staged
    /\ UNCHANGED <<pod, diskVars, published, cancelled, lockVars,
                   boundVars, sweep>>

disarm(v) ==
    /\ At(Call(v), "disarm") /\ muFree
    /\ Answer(v, "out")
    /\ UNCHANGED <<pod, diskVars, memoryVars, lockVars, boundVars, sweep>>

-----------------------------------------------------------------------------
(* The watcher *)

\* scan, for a timer.
Timer(v) ==
    /\ At(Watch(v), "select")
    /\ Goto(Watch(v), "commit")
    /\ UNCHANGED <<kubeletVars, diskVars, memoryVars, lockVars, boundVars,
                   sweep>>

\* It commits, and then sees whether a push is due. An unarmed volume does
\* neither.
scan(v) ==
    /\ At(Watch(v), "commit")
    /\ \/ ~cancelled[v] /\ Commits(v) /\ Goto(Watch(v), "push")
       \/ UNCHANGED ahead /\ \E step \in { "push", "select" } :
                                  Goto(Watch(v), step)
    /\ UNCHANGED <<kubeletVars, bound, recorded, tree, repo, noted, memoryVars,
                   lockVars, boundVars, sweep>>

\* The context ended.
runEnds(v) ==
    /\ At(Watch(v), "select") /\ cancelled[v]
    /\ Goto(Watch(v), "none")
    /\ UNCHANGED <<kubeletVars, diskVars, memoryVars, lockVars, boundVars,
                   sweep>>

-----------------------------------------------------------------------------
(* A push, by the watcher or by a call *)

\* Git fails under a context that ended.
Dead(a) == a[2] = "watch" /\ cancelled[a[1]]

\* What the goroutine goes on with. An unstage notes its moment.
markUnstaged(v) == noted' = [noted EXCEPT ![v] = tree[v]]

\* (Mutant: every push ends as an unstage does.)
DoneAsUnstage(a) ==
    Goto(a, "disarm") /\ markUnstaged(a[1]) /\ UNCHANGED known

Done(a) ==
    IF a[2] = "watch"
    THEN Goto(a, "select") /\ UNCHANGED <<known, noted>>
    ELSE IF known[a[1]] = "unpublishing"
    THEN Answer(a[1], "staged") /\ UNCHANGED noted
    ELSE Goto(a, "disarm") /\ markUnstaged(a[1]) /\ UNCHANGED known

Sent(a) == ahead' = [ahead EXCEPT ![a[1]] = FALSE]

\* The remote takes the commits, or other writers have the driver fetch
\* first, or the push fails or is not due.
pushNow(a) ==
    /\ At(a, "push")
    /\ \/ ~Dead(a) /\ Sent(a) /\ Done(a)
       \/ /\ ahead[a[1]] /\ Contended /\ ~Dead(a)
          /\ Goto(a, "fetch") /\ UNCHANGED <<ahead, known, noted>>
       \/ Done(a) /\ UNCHANGED ahead
    /\ UNCHANGED <<pod, bound, recorded, tree, repo, memoryVars, lockVars,
                   boundVars, sweep>>

\* fetchUpstream waits for the repository's lock, whatever its context says.
fetchLock(a) ==
    /\ At(a, "fetch") /\ repoMu = Free
    /\ repoMu' = a
    /\ Goto(a, "fetching")
    /\ UNCHANGED <<kubeletVars, diskVars, memoryVars, mu, boundVars, sweep>>

fetchUpstream(a) ==
    /\ At(a, "fetching")
    /\ repoMu' = Free
    /\ Goto(a, "resend")
    /\ UNCHANGED <<kubeletVars, diskVars, memoryVars, mu, boundVars, sweep>>

\* The rebase and the push to the ref, or the push to the side branch.
resend(a) ==
    /\ At(a, "resend")
    /\ (~Dead(a) /\ Sent(a)) \/ UNCHANGED ahead
    /\ Done(a)
    /\ UNCHANGED <<pod, bound, recorded, tree, repo, memoryVars, lockVars,
                   boundVars, sweep>>

-----------------------------------------------------------------------------
(* The sweep *)

sweepVolume(v) ==
    /\ up /\ sweep.pc = "idle" /\ muFree
    /\ v \notin staged \cup published
    /\ sweep' = [pc |-> "evidence", of |-> v]
    /\ UNCHANGED <<kubeletVars, diskVars, memoryVars, lockVars, boundVars, pc>>

\* What it finds in the directory. Any time may have gone by since the
\* unstage.
evidence ==
    /\ sweep.pc = "evidence"
    /\ \/ /\ tree[sweep.of] /\ noted[sweep.of] /\ ~ahead[sweep.of]
          /\ sweep' = [sweep EXCEPT !.pc = "remove"]
       \/ sweep' = [pc |-> "idle"]
    /\ UNCHANGED <<kubeletVars, diskVars, memoryVars, lockVars, boundVars, pc>>

\* RemoveAll of the volume's directory.
remove ==
    /\ sweep.pc = "remove"
    /\ LET v == sweep.of IN
       /\ tree' = [tree EXCEPT ![v] = FALSE]
       /\ recorded' = [recorded EXCEPT ![v] = FALSE]
       /\ ahead' = [ahead EXCEPT ![v] = FALSE]
       /\ noted' = [noted EXCEPT ![v] = FALSE]
    /\ sweep' = [pc |-> "idle"]
    /\ UNCHANGED <<kubeletVars, bound, repo, memoryVars, lockVars, boundVars,
                   pc>>

sweepRepository ==
    /\ up /\ sweep.pc = "idle" /\ repo /\ repoMu = Free
    /\ repoMu' = Sweeper
    /\ sweep' = [pc |-> "uses"]
    /\ UNCHANGED <<kubeletVars, diskVars, memoryVars, mu, boundVars, pc>>

\* usesRepository: a volume the node holds, or a tree that reads its
\* objects. (Mutant: the volumes alone.)
UsedByVolumes == staged \cup published # {}

Used == UsedByVolumes \/ \E v \in Volumes : tree[v]

\* It takes node.mu under the repository's lock.
usesRepository ==
    /\ sweep.pc = "uses" /\ muFree
    /\ repo' = Used
    /\ repoMu' = Free
    /\ sweep' = [pc |-> "idle"]
    /\ UNCHANGED <<kubeletVars, bound, recorded, tree, ahead, noted,
                   memoryVars, mu, boundVars, pc>>

-----------------------------------------------------------------------------
(* Kills and restarts *)

Crash ==
    /\ up /\ crashes < MaxCrashes
    /\ up' = FALSE
    /\ crashes' = crashes + 1
    /\ staged' = {} /\ published' = {}
    /\ cancelled' = [v \in Volumes |-> FALSE]
    /\ pc' = [a \in Actors |-> "none"]
    /\ mu' = Free /\ repoMu' = Free /\ sweep' = [pc |-> "idle"]
    /\ UNCHANGED <<kubeletVars, diskVars, faults>>

\* resume: a volume whose record names a mount the kernel still holds is
\* staged, published, armed and watched again. (Mutant: it is not watched.)
Resumed == { v \in Volumes : recorded[v] /\ bound[v] }

Unwatched == [a \in Actors |-> "none"]

Watched ==
    [a \in Actors |-> IF a[2] = "watch" /\ a[1] \in Resumed THEN "commit"
                                                           ELSE "none"]

resume ==
    /\ ~up
    /\ up' = TRUE
    /\ staged' = Resumed /\ published' = Resumed
    /\ pc' = Watched
    /\ UNCHANGED <<kubeletVars, diskVars, cancelled, lockVars, faults,
                   crashes, sweep>>

-----------------------------------------------------------------------------

\* What the call goes on with once it holds the locks it needs.
CallStep(v) ==
    \/ fetchRef(v) \/ reconcile(v) \/ bind(v) \/ record(v) \/ unwatch(v)
    \/ unbind(v) \/ forget(v) \/ lastCommit(v)
    \/ pushNow(Call(v)) \/ fetchUpstream(Call(v)) \/ resend(Call(v))

\* What waits for a lock.
CallLocks(v) ==
    \/ stageTree(v) \/ noteAbandoned(v) \/ hold(v) \/ watch(v) \/ disarm(v)
    \/ fetchLock(Call(v))

WatchStep(v) ==
    \/ scan(v)
    \/ pushNow(Watch(v)) \/ fetchUpstream(Watch(v)) \/ resend(Watch(v))

KubeletStep(v) ==
    \/ NodeStageVolume(v) \/ publishStaged(v) \/ NodeUnpublishVolume(v)
    \/ NodeUnstageVolume(v)

Next ==
    \/ \E v \in Volumes :
           \/ KubeletStep(v) \/ CallStep(v) \/ CallLocks(v)
           \/ Timer(v) \/ WatchStep(v) \/ fetchLock(Watch(v)) \/ runEnds(v)
           \/ PodStops(v) \/ sweepVolume(v)
    \/ evidence \/ remove \/ sweepRepository \/ usesRepository
    \/ Crash \/ resume

Spec == Init /\ [][Next]_vars

-----------------------------------------------------------------------------
(* Properties *)

\* One goroutine at a time runs git in a tree: the watcher, or a call of
\* the kubelet, never both. WriteableVolume relies on it, and each git
\* command's own lock does not give it (unwatch, unstage, resume).
OneAtATime ==
    \A v \in Volumes :
        ~(pc[Call(v)] \in TreeWork /\ pc[Watch(v)] \in TreeWork)

\* A pod whose mount is on record has a watcher, through restarts, failed
\* calls and their repeats, so what it writes is read (publishStaged,
\* resume).
MountedIsWatched ==
    \A v \in Volumes :
        up /\ pod[v] /\ recorded[v]
        => v \in published /\ ~At(Watch(v), "none")

\* A volume the kubelet has unpublished is bound nowhere, and no loop reads
\* its tree, also after an unbind that failed and a restart (unwatch: "so a
\* volume the kubelet unpublished holds no file open").
UnpublishedIsLeft ==
    \A v \in Volumes :
        known[v] \in { "staged", "unstaging", "out" }
        => ~bound[v] /\ At(Watch(v), "none")

\* The bare repository stays as long as a work tree reads its objects,
\* although the sweep decides while stages make trees (sweepRepository).
RepositoryServesTrees == (\E v \in Volumes : tree[v]) => repo

\* The goroutine that has to move before this one can: the holder of the
\* lock it waits for, the watcher that unwatch waits for, or itself.
On(a) ==
    IF a = Sweeper
    THEN IF sweep.pc = "uses" /\ mu # Free THEN mu ELSE a
    ELSE IF pc[a] \in MuSteps /\ mu # Free THEN mu
    ELSE IF pc[a] \in RepoSteps /\ repoMu # Free THEN repoMu
    ELSE IF At(a, "wait") /\ ~Ended(a[1]) THEN Watch(a[1])
    ELSE a

\* One that is at work, and has not gone with a lock in its hand or come to
\* rest in its select.
Runs(a) ==
    /\ On(a) = a
    /\ IF a = Sweeper THEN sweep.pc # "idle"
                      ELSE /\ ~At(a, "none")
                           /\ At(a, "select") => cancelled[a[1]]

\* unwatch waits under node.mu for a watcher that waits for the repository's
\* lock, whose holder waits for node.mu.
Circle ==
    \E v \in Volumes :
        /\ At(Call(v), "wait") /\ At(Watch(v), "fetch")
        /\ \/ sweep.pc = "uses"
           \/ \E w \in Volumes : At(Call(w), "noteAbandoned")

\* Whatever a goroutine waits for, over node.mu, the repository's lock and
\* the wait of unwatch, somebody at the end of the chain runs, except in one
\* circle (unwatch, stageTree, fetchUpstream, sweepRepository).
WaitsEnd ==
    \A a \in Actors \cup { Sweeper } :
        On(a) # a => Circle \/ Runs(On(On(On(On(a)))))

\* holds: "the volumes this node has staged or published, which the sweep
\* never touches".
SweepSparesHeld ==
    [][ \A v \in staged \cup published : tree[v] => tree'[v] ]_vars

-----------------------------------------------------------------------------
(* Liveness *)

\* A goroutine runs on, sync.Mutex starves no waiter, and select serves the
\* end of a context in the end whatever timers fire.
Fairness ==
    /\ \A v \in Volumes : SF_vars(CallStep(v) \/ CallLocks(v))
    /\ \A v \in Mounted :
           SF_vars(WatchStep(v) \/ fetchLock(Watch(v))) /\ SF_vars(runEnds(v))
    /\ SF_vars(evidence \/ remove \/ usesRepository)
    /\ WF_vars(resume)

FairSpec == Spec /\ Fairness

\* unwatch "ends both loops and waits for them".
UnwatchEnds == \A v \in Volumes : At(Call(v), "wait") ~> ~At(Call(v), "wait")

=============================================================================
