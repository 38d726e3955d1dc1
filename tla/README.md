# git-csi-driver in TLA+

A CSI driver that serves git repositories as volumes: read-only ones that
follow a ref, and writeable ones whose files it commits and pushes. This
directory models the parts of it that decide when work is moved, overwritten or
removed and when a change reaches a reader, checks the models with TLC on small
instances, and proves their invariants, action properties and refinement steps
with TLAPS for instances of every size. File and line references are relative to `src/`.

## Contents

| File | What it is |
|---|---|
| `DurableVolume` | what writeable volumes promise: no work is dropped on its way to the remote |
| `PullOnDemand` | what volumes that follow a ref promise: never back, and forward after a demand |
| `GitHistory` | histories, fast-forward, commit and rebase, as the driver uses git |
| `WriteableVolume` | stage, reconcile, commit, push, divergence, heal, sweep of writeable volumes beside other writers; implements `DurableVolume` |
| `DemandedPull` | demands, the fetch loop of a repository, credentials, read-only stage and publish; implements `PullOnDemand` |
| `NodeLifecycle` | the kubelet's calls, watch loops, the sweep and the two locks they share |
| `ReadOnlyTree` | the files of read-only volumes: placement entry by entry, binds, records, restarts |
| `Arming` | the class of a claim on its way to the timer that commits a tree |
| `Webhook` | the controller's start and its handlers of a forge's pushes |
| `MC*` | definitions the runs of a module need (overlapping changes, contents, symmetry) |
| `WriteableVolumeProofs`, `DemandedPullProofs`, `NodeLifecycleProofs`, `ReadOnlyTreeProofs`, `ArmingProofs`, `WebhookProofs` | theorems and their proofs, one module per component |
| `DurableVolumeProofs`, `PullOnDemandProofs` | that `WriteableVolume` and `DemandedPull` take only steps the abstract modules allow, and the invariants this needs; they extend the proofs of the component |
| `WV*.cfg`, `DP*.cfg`, `NL*.cfg`, `ROTree.cfg`, `Arming.cfg`, `Webhook.cfg` | the instances TLC checks, one per run |
| `PROJECT.json` | runs, mutated definitions, the map from definitions to source lines, findings, hazards, theorems |

Parse with SANY, check with `tlc -config WVCore.cfg MCWriteableVolume`, prove
with `tlapm WriteableVolumeProofs.tla`.

## The system

### Parts, their state and operations

| Part | Code | State | Operations |
|---|---|---|---|
| Stage and reconcile | `stage.go`, `reconcile.go`, `worktree.go` | the work tree and its git directory; `node.staged` | fetch the ref, create the tree, leave / fast-forward / rebase it, mark what the remote holds |
| Commits | `commit.go` | index, HEAD | commit what the pod wrote, within the class's rules |
| Push | `push.go` | `pushedRef`, the mark | push, rebase and retry three times, take the side branch |
| Divergence | `diverged.go` | `git-csi.diverged` in git's configuration, `volume.diverged` in memory | diverge, hold, heal at stage, heal in the tree, delete the side branch |
| Metadata | `metadata.go` | a record ref beside the branch | record, reparent, restore |
| Sweep | `sweep.go` | the file `unstaged`, `node.abandoned` | remove work trees and bare repositories nobody needs |
| Watch loop | `watch.go` | `node.watchers`, the quiesce timer | nudge, scan on the timer and a ticker; end under the node's lock |
| Fetch loop | `follow.go` | volumes, `wanted`, three one-slot channels, three timers, backoff | pass over the volumes, retry |
| Demands | `demand.go`, `match.go` | the annotation, `seen`, `answered`, `taken` | read, act, read again after a stage |
| Credentials | `republish.go`, `credentials.go` | the credential in memory, `credentialLost` | take, rotate, lose at a restart, wake what waited |
| Read-only claims | `readonly.go` | the published tree, targets | stage, publish, unstage |
| Inline volumes, node calls, mounts, records | `node.go`, `mount.go`, `records.go` | mounts in the kernel, a record per volume on disk | publish, unpublish, resume |
| Arming and policy | `arming.go`, `policy.go` | a slot with the newest claim, the rules in force, `node.armings` | find the claim's class, arm, disarm |
| Store | `store.go` | bare repositories, their locks, the file that names the placed commit | fetch, resolve, place a commit |
| Webhook | `webhook.go`, `payload.go`, `verify.go`, `match.go` | a cache of secrets | verify, match, write the annotation; demand everything at a start |
| Controller calls, report, Events, metrics, list and watch, command line | `controller.go`, `volume.go`, `events.go`, `metrics.go`, `listwatch.go`, `cli.go`, ... | none that decides anything above | |

### How they meet

* The kubelet calls stage, publish, republish, unpublish and unstage; the calls
  of one volume come one at a time, those of two volumes at once.
* A publish of a writeable volume starts its watch loop. Loop and calls both
  run git in the same tree; `unwatch` cancels the loop and waits for it, holding
  the node's lock. A stage starts the arming loop, which wakes the watch loop
  when the rules change.
* A stage, a push that has to fetch, the fetch loop and the sweep take the
  repository's lock; a stage and the sweep take the node's lock inside it.
* The webhook in the controller marks PersistentVolumes. On the node the watch
  on them and the end of a stage both hand demands to the fetch loop, through a
  set and a channel with one slot. A credential reaches the loop through another
  slot.
* The pass of the fetch loop replaces files under the pods that read them, beside
  the calls that bind, unbind and remove the same trees.
* Other nodes, people on the forge and their merges change the remote at any
  time. Push, fetch and their replies may be lost.
* A kill keeps the disk and the mounts and loses memory: credentials, the
  deleted-ref state, loops, targets. `resume` rebuilds the rest from the records.

### What is hard, and what has to hold

* **Writeable trees.** A rebase, a retry after a lost reply, a conflict, a
  merge by a person, a heal and a kill may follow each other in any order. No
  committed work may be lost, the mark must never promise what the remote does
  not hold (the sweep deletes on its word), uncommitted writes stay, and in the
  end the work reaches the remote.
* **Demands.** A push is marked by a controller that restarts, races its own
  handlers and is refused by the API server. The demand may then arrive before
  the stage that answers it, during the pass that misses it, or from a clock that
  is behind; its fetch may fail. It must never be dropped as answered, a volume
  that is wanted must have a pass coming, and retries must wait longer and longer
  but no longer than the bound.
* **Read-only trees.** Files are replaced one by one under readers, and the steps
  of calls, passes, record writes and restarts interleave. No reader may lose a
  file both commits have, no running pod may be left with a directory nobody
  updates, and a volume must not report a commit it does not hold.
* **Arming.** The class of a claim may change, arrive late or fail to be read
  while the pod writes. The newest one must come in force, and what was written
  under another must still be committed.
* **The node.** One worker per tree, whatever fails or restarts; a loop for
  every mount and none for what is unpublished; a bare repository for every
  tree; nobody waits for ever.

The hazards are listed in `PROJECT.json`, each at its line with the properties
that cover it.

## The models

### GitHistory and WriteableVolume

A commit is named by the set of commit objects in its history, and an object is
a change with a copy number. Ancestry is inclusion, as it is in git; a rebase
makes new copies of the objects upstream lacks and drops those whose change
upstream carries already, so a rebased history is beside the old one although it
holds the same changes, and a squash on the forge makes a branch that a person
merged still look unmerged. The decisions of the driver compare histories, the
properties compare `ChangesOf` them. Changes are model values; `Overlaps` names
the pairs that touch the same lines, for which a rebase or the checkout of a
rebased tree conflicts. The metadata record is a counter of versions on the
remote and, per volume, the version its own record stands on and whether it is
ahead of it. `committed`, `swept`, `gone` and `told` are history variables that
no action of the driver reads.

State of a volume: its directory (`tree`, `head`, `mark` = the pushed ref,
`config` = `git-csi.diverged`, `pending` = uncommitted writes, `left` = the file
`unstaged`, the record's `base`, `own`, `fetched`), the driver's memory
(`diverged`, `refDeleted`, `waits`) and the local variables of the call that
runs (`pc`, `upstream`, `sideSeen`, `sent`, `tries`, `leaving`). `pc` names the
next git command. Every command is one step, a call to the remote is one step
with three outcomes: answered, lost before the remote saw it, reply lost after.

| Code | Actions |
|---|---|
| `stageTree`, `workTree.create` | `StageTree`, `RefDeleted`, `StageRefused`, `Create`, `Checkout`, `MarkCreated` |
| `reconcile`, `fastForward`, `rebase`, `healOrHold`, `heal` | `LeaveTree`, `FastForwardTree`, `RebaseTree`, `StageMark`, `Hold`, `HealReset`, `RemoveSide`, `StageHealed` |
| `watcher.scan`, `commit`, `pushIfDue`, `push` | `Commit`, `PushNow`, `PushSkipped` |
| `pushNow`, `healIfMerged`, `healInTree` | `Blocked`, `HealFetch`, `HealRebase`, `Healed`, `SendTo`, `MarkPushed` |
| `rebaseAndRetry`, `diverge` | `RetryFetch`, `RetryRebase`, `Resend`, `Diverge` |
| the kubelet's calls | `Publish`, `Republish`, `Unpublish`, `Unstage`, `MarkUnstaged` |
| `sweepVolume`, `resumeOne`, a kill | `Sweep`, `Resume`, `Crash` |
| outside the driver | `Write`, `OtherPush`, `MergeSide`, `DeleteSide`, `DeleteRef`, `RestoreRef` |

People are assumed to delete a side branch only once the ref carries its work,
and others to push to the ref without force. Quiesce and `maxLatency` only decide
when a commit or push starts, so both may start at any time (`Arming` has the
timer). The size guard and the ignore list are left out: a commit takes any
subset of the pending writes.

*DurableVolume* is the same promise with nothing of the above: per volume what
is `written`, `kept` in commits and `counted` as pushed, and what the `remote`
holds. WriteableVolume implements it with `written <- pending`, `kept` the
changes of the head, `counted` those of the mark, and `remote` what the ref and
the side branches hold and what a person deleted with the ref (`RemoteWork`). It
allows a tree to lose uncommitted writes only when a reset finds all of its
commits on the remote, a branch to be withdrawn only when its work is in the tree
and uncounted, and a tree to be removed only when all of it is counted.

### DemandedPull

A commit is its place in the ref's history, a time is a number. The struct of a
volume is told from the one of an earlier stage by a generation, because the
code compares pointers (`f.volumes[held.id] != held`). A pass is a record that
walks a snapshot, in `snapshot`, `fetch` and `apply` steps between which other
goroutines run; `read`/`actOn` are split where `demanding.mu`, `volume.mu` and
`follower.mu` are released. The jitter of a retry is any value of its range.
`Next` has the steps of the loop (`TakeDemanded`, `DelayFires`, `TakeArrived`,
`TimerFires`, `RetryFires`, `tick`, `snapshot`, `refresh`, `apply`, `settle`), of
the watch on PersistentVolumes (`read`, `actOn`, `demand`), of the kubelet's
calls (`stageReadOnly`, `StageLock`, `stage`, `follow`, `Arrived`,
`publishReadOnly`, `republished`, `credentialArrived`, `Unpublish`, `Unstage`,
`unfollow`) and of the world (`Push` with its demand, `Rotate`, `Advance`,
`Crash`, `resume`). Not modelled here: pinned volumes (pull never), which follow
no loop; the deletion of a PersistentVolume. A claim has one target and its tree
is replaced in one step; `ReadOnlyTree` has several targets and the entries.

*PullOnDemand* keeps of all this the ref, the mounted volumes, the commit each
holds and the commit it was last asked for. DemandedPull implements it with
`mounted <- published`, under the fairness below: a mounted volume never goes
back, and one that is behind a demand is so no more in the end.

### NodeLifecycle

The writeable volumes seen as goroutines: for each volume the kubelet's
call and the watch loop, and one sweep for the node. `pc` says where each is,
`mu` and `repoMu` who holds the two locks across steps, `cancelled` whether the
loop's context has ended. What commits and pushes do to the history is
WriteableVolume's; here a tree only is `ahead` or not. A lock that one step
takes and releases is the guard `muFree`. Failures: the fetch and the
reconcile of a stage, bind, unbind and the writing of a record; any git command
fails after its context has ended. The kubelet repeats a failed call. The two
models meet in `OneAtATime`: WriteableVolume gives each tree one thing at a
time to do, and NodeLifecycle shows that the code's locks and waits do so. The
one exception is the sweep's (see `NLSweep`): WriteableVolume's `Sweep` is a
single step on a volume the node does not hold, so its results hold for sweeps
that are not overtaken by a stage.

### ReadOnlyTree

The files of claims and inline volumes of one repository. `files` are the
entries of each published tree, `next` the checkout beside it, `placed` the file
that names its commit, `record` and `recorded` the record on disk, `mounts` what
the kernel has bound at each target: the tree, nothing, or a directory that was
removed since. `call` and `at` say where the kubelet's call of a volume is,
`placing` where the placement under the repository's lock is. A step is one
system call, one git command or one section under the node's lock.

| Code | Actions |
|---|---|
| `stageReadOnly`, `NodePublishVolume`, `node.stage` | `StageClaim`, `PublishInline`, `StageFetch`, `StageStale`, `StageRefused`, `CallFailed`, `Hold` |
| `publishReadOnly`, `publish`, `mount.go` | `PublishClaim`, `PublishAgain`, `Bind`, `BindFails` |
| `node.record` | `Record`, `Rewrite`, `Forget` |
| `NodeUnpublishVolume`, `NodeUnstageVolume`, `unstageReadOnly` | `UnpublishClaim`, `UnpublishInline`, `Unmount`, `UnmountFails`, `UnstageClaim`, `RemoveVolume` |
| `repository.place`, `replaceTree`, `recordPlaced` | `Checkout`, `ArriveWhole`, `ArriveInside`, `RemoveEntry`, `RemoveKind`, `RenameEntry`, `RenamedAll`, `Placed`, `PlaceFails` |
| `tick`, `refresh` | `PassBegins`, `PassFetches`, `PassFetchFails`, `PassEnds` |
| `resume`, `drop`, kills | `Resume`, `Crash`, `Reboot` |
| the remote | `RemoteMoves` |

A fetch is one step with the lock that precedes it. A pass may start at any
moment and its retries are left to DemandedPull. A directory that replaces a
directory is one step, though the code descends into it; the mixture that gives
inside is the one the entries of the top show. `unrecorded` and `half` are
history variables: targets whose last record write failed, and volumes whose
last placement ended half way.

### Arming

One writeable volume as objects, one per stage: the code makes a new
`volume` at each, and `node.armings` and `node.watchers` are maps from the handle
to one of them. `loop`, `taken`, `latest`, `offering` are the goroutine that
reads the class and the slot the informer's handler fills; `rules` the quiesce in
force. The watch of the tree is `event` (what inotify holds), the slots `changes`
and `classed`, the time `quiet` since the last nudge and the `timer`.

| Code | Actions |
|---|---|
| `arm`, `disarm`, the calls and `resumeOne` | `Stage`, `Publish`, `Unpublish`, `UnstageBegins`, `UnstageEnds`, `Restart` |
| `find`, `follow`, `offer` | `FindClaim`, `Drain`, `Send`, `LoopEnds` |
| `reads`, `read`, `armed` | `Take`, `ReadClass`, `ReadFails`, `Retry`, `ReportArmed` |
| `classChanged`, `watcher.run`, `nudge`, `rest` | `ClassChanged`, `RunStarts`, `Nudge`, `TakeChange`, `TakeClassed`, `TimerFires` |
| outside the driver | `ClaimMoves`, `ClassArrives`, `Write`, `Tick` |

The ticker of the sweep in the watch loop is left out: it would commit in the end
whatever the timer forgets, and the code's claim is that nothing waits for it.
A class cannot change what it says, as in Kubernetes.

### Webhook

One Secret, one listener with as many handlers as requests, and the start. A
handler is `pc`: it takes the Secret from the cache or the API server
(`TakeCached`, `ReadSecret`, `Remember`), verifies (`Verify`), lists and matches
(`List`, `Matches`), and marks each volume with a time taken before the patch
lands (`Stamp`, `Patch`, `PatchFails`). `StartUp`, `StartLists`, `StartMarks` and
`Serve` are the demand of a start, during which requests wait at the bound
listener; `Crash` loses the cache and every request without an answer. `Tick`
does not pass the deadline of a request whose call is under way. The HMAC and the
fields of each forge's JSON are abstracted to a verdict and to `Push`.
Its result `MarksNearlyInOrder` is what DemandedPull assumes of the stamps it
reads: behind by less than its `Skew` (`demandSkew`), which exceeds the deadline.

## The runs

Ten runs in which every property holds and two in which one is violated. Times
are with two workers.

| Run | Instance | Checks | States, time |
|---|---|---|---|
| `WVCore` | one volume, two writes, two foreign pushes that conflict with one write each, a credential, two failures, one kill; the two pairs exchanged by symmetry | `NoCommitLost`, `PushedIsOnRemote`, `SweptIsOnRemote`, `SideIsACopy`, `ReconcileKeepsWrites`, `ImplementsDurable` | 2.7M, 110 s |
| `WVShared` | two volumes that conflict with each other, the record, one failure of the network, and any of git's configuration; the volumes and the writes permuted | `NoCommitLost`, `PushedIsOnRemote` | 2.9M, 100 s |
| `WVLive` | one volume, two writes, a foreign push that conflicts with one, a ref that is deleted and restored, four failures, fairness | `TypeOK`, `DivergedIsKnown`, `DeletedRefStaysDeleted`, `WorkIsPushed` | 1.9M, 150 s |
| `DPDemand` | one volume on demand, interval of two ticks, clocks up to one tick behind, a second stage, a failure, a kill | `TypeOK`, `NoDemandLost`, `WantedIsFollowed` | 1.3M, 50 s |
| `DPShared` | two volumes of one loop, one stage of each, a failure | `NoDemandLost`, `WantedIsScheduled` | 1.1M, 50 s |
| `DPLive` | a private remote, a rotation, a failure, a kill, fairness | `WantedIsScheduled`, `FailuresBackOff`, `DemandAnswered` | 0.5M, 120 s |
| `NLNode` | two mounted volumes of one repository, a failure, a kill | `TypeOK`, `OneAtATime`, `MountedIsWatched`, `UnpublishedIsLeft`, `RepositoryServesTrees`, `WaitsEnd` | 2.4M, 110 s |
| `ROTree` | a claim with two pods and an inline volume, two pods at once, two commits, a failure, and a kill of the driver or the node or a ref that goes back | `TypeOK`, `TreeIsReported`, `RunningIsFollowed`, `ReadersKeepFiles` | 2.4M, 120 s |
| `Arming` | a class with a longer rest than the driver's and one of another driver, two stages, a change of the claim, a write, a kill, fairness | `TypeOK`, `NewestIsRead`, `LoopIsStaged`, `WorkIsScheduled`, `ClassComesInForce`, `WorkIsCommitted` | 0.4M, 100 s |
| `Webhook` | two requests, two values of the Secret, a volume that matches and one no demand may reach, a refused call, a kill | `TypeOK`, `PushStands`, `SecretIsTaken`, `MarksNearlyInOrder` | 4.4M, 90 s |
| `NLSweep`, `NLWaits` | the smallest instance that shows it | one property each, violated | seconds |

### Why the bounds are enough

* *Writeable volumes.* Every decision compares two histories of one volume with
  the ref and its side branch. In `WVCore` two writes and two foreign changes
  give every relation between them (equal, behind, ahead, beside without
  conflict, beside with conflict), and a second one after the first: the other
  writer's second push comes between the fetch and the push of a retry, or makes
  a volume diverge again that healed. One failure is a lost reply, the second
  strikes the step that deals with it. `WVLive` has one foreign push, which
  rejects the first send, and four failures: three use up the attempts of the
  retry, the fourth hits the push that follows. `WVShared` has a second driver
  as the other writer, and a record more than the first, so the remote takes the
  branch and rejects the record or the reverse; there and only there may git's
  configuration refuse a write.
* *Demands.* Two commits tell the old one from the demanded one; time has to
  pass the skew and one interval; two generations of a struct are what a pointer
  comparison can tell apart (`DPDemand` stages twice under one handle); two
  volumes are what makes a pass fail for one and work for the other. Only
  `DPLive` has credentials and their rotation.
* *Node.* Two volumes are what makes a lock contended by calls and loops of
  different volumes, beside the one sweep.
* *Read-only trees.* Between the two commits one entry changes, one goes and one
  turns from a file into a directory, and the way back does the reverse, so every
  branch of `replaceTree` is taken. Two pods of a claim make a record with
  several targets; a claim and an inline volume are what one pass works on while
  the other is called. A failure followed by a kill is what leaves disk, kernel
  and kubelet at odds.
* *Arming.* Two objects make an old loop and a new one, one change of the claim
  makes a copy overtake another in the slot, the rest of two ticks is longer than
  the driver's of one, so a class lengthens a running timer and losing it shortens
  one. A change between the rests of two classes is not run: a third class puts
  the instance out of TLC's reach. `WorkScheduled` covers it.
* *Webhook.* Two handlers race for the cache and for one volume. With a TTL of
  two and a deadline of one, five ticks hold a rotation, the old value held over
  it, and a request after the window. `Deadline = 1` lets a mark be one tick old
  when it lands, and a second handler's later one be overwritten.

The bounds (`MaxFaults`, `MaxCrashes`, `MaxUpsets`, `MaxTime`, `MaxCommits`,
`MaxStages`, `MaxRotations`, `MaxRecords`, `MaxPods`, `MaxChanges`, `MaxWrites`,
`MaxSecrets`) limit what the environment does: failures, kills, ticks, commits of
others, new stages, rotations, the changes of modes that make a record, pods at
once, changes of a claim. Whether the driver may take a step of its own never
depends on one. Deadlock is checked in all runs but those of NodeLifecycle, where
the code really can stop (`Circle`), and those of Arming and Webhook, which stop
when their environment's bounds are used up and the driver waits for the next
event.

### Fairness

* `WVLive`: weak fairness of a push that has begun or is due
  (the watch loop's ticker fires again and again and the loop calls
  `pushIfDue`), of the republish (the kubelet repeats the publish of a mounted
  volume, `requiresRepublish`) and of the resume (the DaemonSet restarts the
  driver). Nothing is assumed of the pod, people or the network.
* `DPLive`: weak fairness of the loop, of the watch, of the kubelet's running
  calls, of resume and of the clock while a delay runs; strong fairness of the
  lock of a pass and of a stage, as `sync.Mutex` starves no waiter.
* `Arming`: weak fairness of each goroutine and of the clock; strong fairness of
  `ReadClass`, so a read that is retried while the class is there is answered in
  the end. Nothing is assumed of the kubelet, the person who writes the claim,
  the resizer, the pod, or whoever makes classes.
* `NLWaits`: strong fairness of every goroutine's next step, locks included,
  and of the loop's look at its ended context (`select` picks at random among
  ready cases). The strongest scheduler does not help the circle.

### What each property says of the code

* `NoCommitLost`: a tree carries every change the driver ever committed in it,
  whatever reset, rebased or healed it, and wherever it was killed.
  `PushedIsOnRemote`: every change the mark covers is on the ref or the side
  branch, or was deleted there by a person. `SweptIsOnRemote`: so is all work in
  trees that were swept. `SideIsACopy`: a side branch holds nothing that is not
  on the ref or in its volume's tree too, since `removeSide` deletes it by name.
  `ReconcileKeepsWrites`: outside a diverged tree, a write leaves `pending` only
  into a commit. `ImplementsDurable`: the refinement above.
  `DivergedIsKnown`: between calls, memory and disk agree where pushes go, as
  long as no driver is killed and git's configuration can be written.
  `DeletedRefStaysDeleted`: no push of a volume whose stage saw the deletion
  puts the ref back. `WorkIsPushed`: what a mounted volume committed comes to be
  counted as pushed, unless its ref was deleted or the side branch of an earlier
  divergence is in its way (`SideInTheWay`, see the findings).
* `NoDemandLost`: a staged volume that lacks the commit a demand was made for
  has that demand on its way: in the watch, in a call that will read it, in
  `wanted`, or with a pass that will fetch it or want it again.
  `WantedIsScheduled`: while the loop sleeps, a volume is wanted only if a wake,
  the delay or the retry is set. `WantedIsFollowed`: a pass that outlives an
  unstage puts nothing back. `FailuresBackOff`: passes that fail in a row double
  the backoff up to the maximum. `RetryInBounds`, in no run: the retry, which
  asks no gate when it fires, waits between the interval and the maximum.
  `DemandAnswered`: the refinement of `PullOnDemand`, its liveness included.
* `OneAtATime`, `MountedIsWatched`, `UnpublishedIsLeft`,
  `RepositoryServesTrees` as their names say; `WaitsEnd`: follow the waits from
  any goroutine and there is one that runs, unless `Circle` holds, which is the
  deadlock `NLWaits` reports and the only one.
* `TreeIsReported`: a volume that reports a commit and no trouble holds exactly
  its files, after placements that failed half way too. `RunningIsFollowed`: what
  a running pod has bound is the tree the loop follows, across failed calls,
  kills and restarts. `ReadersKeepFiles`: no step of the driver takes a file from
  a pod that the arriving commit still has as the same kind. The exceptions they
  state are the ones listed under the findings.
* `NewestIsRead`: the reads never settle on an older copy of the claim than the
  newest the informer offered. `LoopIsStaged`: exactly the object the node holds
  has an arming loop that is not cancelled. `WorkIsScheduled`: a write in an
  armed tree has an event, a nudge, a class or the timer on its way.
  `ClassComesInForce`: once the cluster rests, the rules are those of the claim's
  class. `WorkIsCommitted`: what the pod wrote is then committed by the timer.
* `PushStands`: a push that was accepted, or lost while the controller was down,
  stands as a demand on every volume it names, unless the failure was logged.
  `MarksNearlyInOrder`: a mark that lands late takes the demand back by no more
  than a deadline. `SecretIsTaken`: a handler that begins a TTL and a deadline
  after a rotation verifies with the new value.

Every property of a passing run is violated under the same configuration when a
plausible mistake is put in one definition; `PROJECT.json` lists these mutated
definitions, which stand beside the originals in the modules.

## The proofs

TLAPS checks the theorems below for every value of the constants: any number of
volumes, writes, demands, failures and kills. Each `Spec => []Inv` follows from
an inductive invariant, proved action by action, and each action property from
the same invariant.

| Theorem | Says | Rests on |
|---|---|---|
| `TypeCorrect` | `TypeOK` of WriteableVolume, with at most three attempts | `ControlInv` |
| `CommitsKept` | `NoCommitLost` | `ControlInv`, `ReplayKeeps` |
| `WritesKept` | `ReconcileKeepsWrites` | `ControlInv` |
| `MarkIsHonest` | `PushedIsOnRemote`, if no kill meets a deleted ref | `ControlInv`, `PushedInv`, `Grows` |
| `NodeTyped`, `OneWorkerPerTree`, `MountsWatched`, `UnpublishedLeft`, `RepositoryKept`, `WaitsComeToAnEnd` | the invariants of `NLNode` | `NodeInv` |
| `DivergenceIsKnown` | `DivergedIsKnown`, if no kill comes and git's configuration can be written | `ControlInv`, `KnownInv` |
| `DeletedIsRespected` | `DeletedRefStaysDeleted`, if no kill comes | `ToldInv` |
| `SweepIsSafe`, `RemovedSideIsACopy` | `SweptIsOnRemote`, `SideIsACopy`, if git's configuration can be written and no kill meets a deleted ref | `DurableInv` |
| `VolumesAreDurable` | the refinement `ImplementsDurable`, under the same hypotheses | `DurableInv` |
| `RetryBounded` | `RetryInBounds`, if the interval is at most the maximum | `BackoffNat`, `JitteredBounds` |
| `BackoffGrows` | `FailuresBackOff`, if the interval is above 0 | `BackoffNat`, `PassInv` |
| `LoopWantsItsOwn` | `WantedIsFollowed` | itself |
| `PullTypeCorrect` | `TypeOK` of DemandedPull, and that nothing is dated after now (`ClockInv`) | itself |
| `NoDemandIsLost`, `LoopStaysAwake` | `NoDemandLost`, `WantedIsScheduled` | `PullInv` |
| `TreesGoForward` | every step of DemandedPull is one of PullOnDemand or a stutter: the safety half of `DemandAnswered` | `PullInv` |
| `TreesTyped`, `PodsAreFollowed` | `TypeOK`, `RunningIsFollowed` of ReadOnlyTree | `PodInv` |
| `ReportsAreTrue` | `TreeIsReported` | `PodInv`, `ReportInv` |
| `ReadersAreSafe` | `ReadersKeepFiles` | `PodInv`, `ReportInv` |
| `ArmingTyped` | `TypeOK` of Arming, and that an unwatched tree has no timer, event or slot (`IdleInv`) | itself |
| `NewestRead` | `NewestIsRead` | `FreshInv`, `ReadInv` |
| `LoopStaged` | `LoopIsStaged`, if calls do not overlap (`~Overlap`) | `CallsInv` |
| `WorkScheduled` | `WorkIsScheduled` | `IdleInv`, `RestInv` |
| `WebhookTyped` | `TypeOK` of Webhook | itself |
| `RotationTaken` | `SecretIsTaken` | `SecretInv` |
| `MarksInOrder` | `MarksNearlyInOrder` | `SecretInv`, `PatchIsRecent` |
| `PushesStand` | `PushStands` | `SecretInv`, `DemandInv` |

* `ControlInv` says what is true at each `pc`: how many attempts are left, that
  a call runs only in a tree that is made, when the diverged and the deleted
  state may be set. `NoCommitLost` is inductive beside it, because every rewrite
  of a tree either is a replay, which keeps the content of both sides (lemma
  `ReplayKeeps`), or a reset whose guard says upstream holds the head.
* `PushedInv` is needed for the mark: it moves to `upstream` or to `sent`, so the
  remote must still hold what was fetched (`UpstreamInv`) or was pushed
  (`SentInv`) when the mark moves, and a tree without a mark must be one whose
  head is upstream (`UnmarkedInv`). `Grows` says that what the remote holds, with
  what a person deleted, never shrinks. The hypothesis `RefDeletes => MaxCrashes
  = 0` excludes the one way around `UnmarkedInv`, see the findings below.
* `KnownInv` says where the driver's memory of a divergence may differ from the
  disk: at a stage that has not read it yet. A kill is excluded because
  `resumeOne` does not read it, and a failed write of the configuration because
  it leaves the two different for ever; both are findings below. `ToldInv` says
  that a volume which was told of a deleted ref is staged and knows, or is not
  staged; a kill is excluded because the driver then forgets.
* `DurableInv` follows the last copy of every change. `HomeInv` says that a tree
  that is not diverged needs no side branch: its mark covers only what is on the
  ref, and so does a push that is about to be marked, and so will the mark of a
  volume whose branch was just removed. `SideIsACopy` is inductive beside it;
  `DivergedInv` says that whoever pushes to a side branch has the divergence on
  disk, so the sweep sees it; `TreeKnowsInv` says which commit a call that
  rewrites the tree is about to mark, so a rewrite never counts work that is not
  pushed; `GoneInv` accounts for a deleted ref that is pushed anew. The sweep,
  the removal of the branch and each step of the refinement follow. That git's
  configuration can be written is needed by `DivergedInv`: without the state on
  disk a tree whose work is on the side branch alone may be swept, and a later
  heal may remove that branch. So `SweepIsSafe`, `RemovedSideIsACopy` and
  `VolumesAreDurable` need the hypothesis, and what they say is false without it
  (the instance is among the findings); `CommitsKept` and `MarkIsHonest` do not,
  and `WVShared` checks them where the write may fail.
* `NodeInv` ties each lock to the step of its holder (`LockInv`), says that a
  stage past its fetch still has its repository (`StoreInv`), that a killed driver
  remembers nothing (`DownInv`), and for each volume where its call and its loop
  may be (`CallInv`, `VolInv`, `WatchInv`). `OneAtATime` is not inductive by
  itself: it holds because a volume leaves `published` before its call may work
  in the tree and the wait for the loop comes in between. `WaitsEnd` follows
  from `NodeInv` by walking the at most three waits of a chain.
* `PassInv` says that a stopped loop's pass leaves the retry unset.
* `PullInv` has two sides. One is where everybody is: what a call of the kubelet
  has done to the node and the loop (`CallInv`), who holds the repository's lock
  (`LockInv`), that the structs a pass holds are older than the node's next one
  and a stopped loop's pass holds none of the node's (`StructsInv`), and what is
  set while a volume is wanted (`LoopInv`). The other is what an answer is worth:
  the watch has read the annotation that is there (`SeenInv`), and a fetch or a
  stage that answers a demand by its time holds the demand's commit (`AnswerInv`,
  `StagedInv`), because the demand was made before the fetch began: its stamp is
  off by less than the skew that `answerDemandsBefore` takes off. `DemandKept`
  then walks every demand from the annotation to the pass. For the refinement
  `PlacedInv` adds that what is placed comes from the store, which only moves
  forward and only under the lock.
* `PodInv` says for each read-only volume where its call is and what it holds
  (`CallOf`, `ClaimCall`, `InlineCall`, `HeldOf`), that a target bound to the tree
  has a tree (`MountOf`), that a running pod's target is bound, and on record
  unless the last write of it failed, so a restart finds it (`KeptOf`, `RunOf`).
  `RunningIsFollowed` alone is not inductive: it is the record that carries it
  over a kill. A step that works on one volume leaves the others alone
  (`Spared`), so each action is proved for its own volume only.
* `ReportInv` says who has the repository's lock and with it the placement
  (`TurnInv`), that the entries a placement has done are those of its commit
  (`PlaceInv`), and for each volume that its files are those of the commit it has
  placed unless a placement is under way or ended half way (`FilesOf`), that a
  volume whose stage has placed it is whole and in no pass (`StagedOf`), and that
  what stands is what was placed (`StandOf`). That every entry
  comes in turn rests on `Entries` being well-founded under `<` (lemma
  `Smallest`).
* `ReadInv` says where the newest copy of a claim is: while nothing is being
  sent, in the slot, else with the reads, else in force. `FreshInv` says that a
  loop that does not read yet or is over holds no copy. `CallsInv` adds to
  `LoopIsStaged` that stage and unstage exclude one another and that
  `node.armings` names the object they work on, which is what makes the disarm
  of an unstage end the right loop.
* `RestInv` says that a timer nothing is about to set again does not end before
  the rest is over: the quiet time and what is left of the timer make up the
  quiesce. So a timer that fires finds a tree that rested, and the scan commits
  it; without it a timer could fire early and leave the write with nothing set.
* `SecretInv` and `DemandInv` rest on time: a call of a handler ends by its
  deadline (`CallInv`), so a value of the Secret or a stamp is at most that old
  when it lands. From it an old value in the cache was put there by a handler
  that read it before the rotation (`CacheInv`), a handler with the old value is
  as old as that (`VerifyInv`), and a mark that overtakes another moves the
  demand back by at most the deadline (`PatchIsRecent`), which is what a push may
  rely on (`Stands`). `PushInv` follows each push over the volumes its handler,
  or the start after a restart, has still to come to.

The assumptions are the named ASSUMEs of the modules, which TLC evaluates in
every run: sets and bounds have their types, an inline volume has exactly one
target, no volume has the name the models give another holder of a lock or the
watch (`VolumesAssumption`, `TreeAssumption`), there is a longest rest
(`RestAssumption`, as classes are finitely many), and the clocks of the writers
are behind by less than `demandSkew`.

### Only model-checked

Every invariant and every action property of the runs that hold is proved, under
the hypotheses above, and none of these runs goes beyond the hypotheses of its
theorem. What stays with TLC is liveness: `WorkIsPushed`,
`ClassComesInForce`, `WorkIsCommitted`, and the half of `DemandAnswered` that
`TreesGoForward` does not cover, that a volume behind a demand is so no more in
the end. They depend on fairness and on ENABLED, which TLAPS does not treat.
Induction over data (what a recursive definition computes for every input) and
modules with RECURSIVE operators are out of the prover's reach as well; the
modules here have neither.

## Findings

### With a run

1. `NLSweep`. `sweepVolume` asks `holds` and lets the lock go; a stage in between
   has its tree removed under it (`sweep.go:119`, `sweep.go:139`).
2. `NLWaits`. An unpublish waits under the node's lock for its watch loop
   (`watch.go:99`); the loop waits for the repository's lock in `fetchUpstream`,
   which its cancelled context does not interrupt; the holder of that lock, a
   stage in `noteAbandoned` or the sweep in `usesRepository`, waits for the
   node's lock. The node plugin then answers no call until it is killed.

### Seen while modelling, without a run of their own

Writeable volumes:

* `heal` (`diverged.go:109`) resets the tree without the look at pending writes
  that the rest of the table takes, so writes that a kill left uncommitted are
  gone; `reconcile.go:16`: "A tree with uncommitted writes is never rewritten."
  `UncommittedNeverRewritten` in WriteableVolume says so and is violated;
  `ReconcileKeepsWrites` carries the exception.
* Only a push to the ref itself rebuilds a rejected record (`push.go:161`). A
  diverged volume whose record the remote rejects fails every push although its
  branch lands, and its mark never moves; `plans/00-design.md:194`: "A record the
  remote rejects is rebuilt on the record the remote holds". `WorkIsPushed` is
  violated with `MaxRecords` above 0.
* A failed write of `git-csi.diverged` is logged and the state in memory goes on
  alone (`diverged.go:79`). The sweep reads the disk, takes the tree for one that
  is pushed and not diverged, and removes it (`sweep.go:113`: it removes a tree
  "whose every commit the last push sent, and that is not diverged"). When the
  volume is staged again, diverges again and heals, `removeSide` deletes the side
  branch by its name, and with it the last copy of the first divergence's work.
  `SweptIsOnRemote` and `SideIsACopy` are violated with `ConfigFails = TRUE`, the
  first with one volume, the changes of `WVCore` and one failure, after 37 steps.
* A side branch that a heal could not delete (`diverged.go:159`: the failure is
  logged "and does not stop the heal, because the tree is back on its ref either
  way") may hold more than the mark covers, if the reply to its last push was
  lost. The heal has rebased that work, so when the volume diverges again its
  pushes are no fast-forward of the branch that stayed: the remote rejects each
  of them, no retry or rebase follows on a side branch (`push.go:161`), and what
  the pod commits leaves the node only after a person merges or deletes the
  branch. Two failures are enough. `WorkIsPushed` excepts it as `SideInTheWay`,
  and is violated without the exception.
* A restart forgets that a ref was deleted (`volume.refDeleted` is memory only),
  so the next push puts it back; `plans/completed/06-divergence-and-restore.md:40`:
  "pushes nothing until the ref exists again." `WVLive` has no kill for this
  reason.
* A tree killed between its first reset and its first mark is marked at its head
  at the next stage (`stage.go:171`), commits included, if it took any while its
  ref was deleted. `MarkIsHonest` excludes it.
* `resumeOne` does not read the divergence the git directory records
  (`records.go:174`), though `diverged.go:15` says a restarted driver does. With
  a kill `DivergedIsKnown` is violated, so `WVLive` and the theorem exclude it.
* `exists` (`worktree.go:69`) says HEAD is what `create` writes last; `git init`
  writes it first, so a kill in between leaves a tree that no stage finishes.
* `healIfMerged` takes the mark for the side branch's head (`diverged.go:133`). A
  push whose reply was lost leaves the branch ahead of the mark, and a merge of
  the earlier head deletes the branch with its later work (the tree still has it).
* A failed fetch in `rebaseAndRetry` diverges the volume (`push.go:203`), though
  `plans/00-design.md:256` lists three causes and a fetch is none of them.
* `NodeUnstageVolume` leaves with unpushed work when its push fails
  (`stage.go:278`), though the comment above says the volume leaves only after
  what it holds has reached the remote. The sweep then keeps the tree.
* A stage that begins while the unstage of the same volume still pushes (the
  kubelet gave up on it) is followed by the unstage's `disarm`, which ends the new
  stage's arming loop and leaves the old one running for ever (`arming.go:54`,
  `arming.go:59`). `LoopIsStaged` is violated with `Overlap = TRUE`.

Read-only volumes and demands:

* A placement that fails half way leaves a mixture of two commits. When the ref
  then returns to the commit that stands, the next fetch finds it standing, clears
  the trouble and places nothing (`follow.go:333`), so the volume reports healthy
  over the mixture. `TreeIsReported` excepts it (`half[v] = "moved"`).
* `record` logs a write that fails ("a mount is worth more than the record of
  it", `records.go:82`), and a restart then takes the volume for one nobody mounts
  and removes its directory under the running pod. `RunningIsFollowed` and
  `ReadersKeepFiles` except such targets.
* A kill between the stage of a claim and the record of its first publish drops
  the staged volume (`records.go:158`); the publish that the kubelet repeats is
  refused, until it unstages.
* A pass that fetches while an unstage removes the volume's directory makes the
  directory again with its checkout, and nothing removes it before the next stage.
* `nextRetry` cuts an interval above five minutes to five minutes, and an
  interval of 0 never grows (`follow.go:276`); `RetryBounded` and `BackoffGrows`
  carry the hypotheses.
* A demand that waits for the interval is pulled at once when its delay ends,
  also after a timer's pull in between (`follow.go:172`).

Webhook:

* The TTL of a held Secret counts from when it was held and not from when the API
  server read it (`webhook.go:46`), so the old value may verify for a TTL and the
  time of one read. `SecretIsTaken` allows the deadline on top.
* A start whose list of volumes is refused logs it and serves; no later step
  makes its demands. `docs/content/docs/guides/read-only.md:217`: a webhook that
  is lost while the controller restarts is covered, since "the controller demands
  a pull on every read-only volume when it starts". `PushStands` excepts it
  as logged.

## Not modelled, and why

* The controller's calls: they validate parameters and keep no state.
* Report, Events and metrics, but for the fields decisions read: they are for a
  person.
* Command line, server, attributes, list and watch: start-up, parsing, and
  client-go's informers, taken to deliver each object's changes in order, at
  least once, in the end.
* The HMAC, the headers and JSON of each forge, and the normal form of URLs:
  functions of one input, abstracted to a verdict and to the fields `Push` has.
* What a class's parameters mean (durations, globs, sizes): `Means` in Arming.
* What the pod writes between the driver's look at the rest and `git add`
  (`watch.go:296`): a commit takes any subset of the pending writes, so a write
  that has not rested may be in it, as in the code.
* Object storage, packing and `git gc` in the bare repository; submodules, LFS.
* Calls of one volume that overlap because the kubelet's call timed out, but for
  the unstage beside a stage of Arming.
* The two halves of `take` (`worktree.go:197`), between which a kill leaves
  upstream's files under the old head; a record without a commit
  (`commit.go:33`).

## Plan

What is left, in this order:

1. *Overlapping calls.* NodeLifecycle with a kubelet whose calls time out: two
   publishes (a second watcher, `watch.go:83`), an unstage beside a late stage.
2. *The kill inside `take`* and *records without commits* in WriteableVolume,
   with the proofs that change.
3. *Runs.* A run of its own for each finding that has none yet, as the bounds on
   the time of a check allow; *proofs* of the properties of points 1 and 2.
