-------------------------- MODULE WriteableVolume --------------------------
(***************************************************************************)
(* The life of the work trees of one repository's writeable volumes: the   *)
(* stage that reconciles a tree with its ref, the commits, the push with   *)
(* its rebase and retry, the side branch, its heal, and the sweep, beside  *)
(* other writers of the ref, a person who merges side branches, a network  *)
(* that loses requests and replies, and drivers that are killed.           *)
(*                                                                         *)
(* Every git call is one step. A call to the remote is one step in which   *)
(* the remote answers, or the network fails before or after it does.       *)
(* Every volume follows the same ref of the same remote. A volume's driver *)
(* does one thing at a time with its tree: the watcher, or a call of the   *)
(* kubelet (OneAtATime of NodeLifecycle).                                  *)
(***************************************************************************)
EXTENDS GitHistory

CONSTANTS
    Volumes,      \* the writeable volumes that follow the ref
    Writes,       \* the changes pods can write
    Foreign,      \* the changes other writers can push to the ref
    Overlaps,     \* the pairs of changes that touch the same lines
    MaxRecords,   \* bound: metadata records; 0 where no class records any
    Secret,       \* whether the volumes read the remote with a credential
    RefDeletes,   \* whether a person may delete the ref
    ConfigFails,  \* whether a write of the git configuration may fail
    MaxFaults,    \* bound: network failures in one behaviour
    MaxCrashes    \* bound: driver kills in one behaviour

ASSUME ConstantsAssumption ==
    /\ Writes \cup Foreign \subseteq Changes
    /\ Writes \cap Foreign = {}
    /\ Overlaps \subseteq SUBSET Changes
    /\ MaxRecords \in Nat
    /\ Secret \in BOOLEAN
    /\ RefDeletes \in BOOLEAN
    /\ ConfigFails \in BOOLEAN
    /\ MaxFaults \in Nat
    /\ MaxCrashes \in Nat

VARIABLES
    (* the remote *)
    ref,         \* the ref's history (kept by its writers after a deletion)
    refHere,     \* whether the remote holds the ref
    side,        \* side[v]: the history of <ref>.<volumeHandle>
    sides,       \* the volumes whose side branch the remote holds
    record,      \* how many metadata records the remote's record ref holds
    (* each volume's directory on its node *)
    tree,        \* how far workTree.create came
    head,        \* the branch the tree follows
    mark,        \* pushedRef: the commit the remote is known to hold
    config,      \* whether git-csi.diverged is set
    pending,     \* what the pod wrote and no commit carries
    base,        \* the remote record the volume's own record stands on
    own,         \* whether the volume's record ref is ahead of base
    fetched,     \* remoteMetadataRef: the remote's record at the last fetch
    left,        \* whether an unstage left its time in the directory
    pod,         \* whether a pod mounts the tree
    (* the driver's memory of each volume *)
    pc,          \* what the driver does with the volume
    diverged,    \* volume.diverged: the branch pushes go to
    refDeleted,  \* volume.refDeleted
    waits,       \* volume.waitsForCredential
    upstream,    \* the local variable upstream of the call that runs
    sideSeen,    \* the stage's local variable side
    sent,        \* pushNow's local variable head
    tries,       \* attempts rebaseAndRetry has made
    leaving,     \* whether the push is an unstage's
    (* history, read by the properties alone, and the bounds *)
    committed,   \* committed[v]: what the driver committed in this tree
    swept,       \* swept[v]: what it had committed in trees swept since
    gone,        \* what a person deleted with the ref
    told,        \* told[v]: a stage saw the ref deleted, and it still is
    faults,      \* network failures so far
    crashes      \* driver kills so far

remoteVars == <<ref, refHere, side, sides, record>>
recordVars == <<base, own, fetched>>
diskVars   == <<tree, head, mark, config, pending, left, pod>>
memoryVars == <<diverged, refDeleted, waits, leaving>>
localVars  == <<upstream, sideSeen, sent, tries>>
storyVars  == <<committed, swept, gone, told>>
boundVars  == <<faults, crashes>>
vars == <<remoteVars, recordVars, diskVars, pc, memoryVars, localVars,
          storyVars, boundVars>>

rebaseAttempts == 3

Phases == { "down", "out", "idle", "leave",
            "create", "checkout", "markCreated", "reconcile", "stageMark",
            "stageRemove", "stageHealed",
            "push", "healFetch", "healRebase", "healRemove", "healed",
            "send", "retryFetch", "retryRebase", "resend", "diverge",
            "marking" }

\* The driver runs a call for the volume.
Busy == Phases \ { "down", "out", "idle" }

RemoteType ==
    /\ ref \in Histories
    /\ refHere \in BOOLEAN
    /\ side \in [Volumes -> Histories]
    /\ sides \subseteq Volumes
    /\ record \in Nat

RecordType ==
    /\ base \in [Volumes -> Nat]
    /\ own \in [Volumes -> BOOLEAN]
    /\ fetched \in [Volumes -> Nat]

DiskType ==
    /\ tree \in [Volumes -> { "none", "init", "unmarked", "made" }]
    /\ head \in [Volumes -> Histories]
    /\ mark \in [Volumes -> Histories]
    /\ config \in [Volumes -> BOOLEAN]
    /\ pending \in [Volumes -> SUBSET Writes]
    /\ left \in [Volumes -> BOOLEAN]
    /\ pod \in [Volumes -> BOOLEAN]

MemoryType ==
    /\ pc \in [Volumes -> Phases]
    /\ diverged \in [Volumes -> BOOLEAN]
    /\ refDeleted \in [Volumes -> BOOLEAN]
    /\ waits \in [Volumes -> BOOLEAN]
    /\ leaving \in [Volumes -> BOOLEAN]

LocalType ==
    /\ upstream \in [Volumes -> Histories]
    /\ sideSeen \in [Volumes -> BOOLEAN]
    /\ sent \in [Volumes -> Histories]
    /\ tries \in [Volumes -> 0..rebaseAttempts]

StoryType ==
    /\ committed \in [Volumes -> SUBSET Changes]
    /\ swept \in [Volumes -> SUBSET Changes]
    /\ gone \in SUBSET Changes
    /\ told \in [Volumes -> BOOLEAN]

BoundType ==
    /\ faults \in 0..MaxFaults
    /\ crashes \in 0..MaxCrashes

TypeOK ==
    /\ RemoteType /\ RecordType /\ DiskType /\ MemoryType
    /\ LocalType /\ StoryType /\ BoundType

Init ==
    /\ ref = {} /\ refHere = TRUE
    /\ side = [v \in Volumes |-> {}] /\ sides = {}
    /\ record = 0
    /\ tree = [v \in Volumes |-> "none"]
    /\ head = [v \in Volumes |-> {}]
    /\ mark = [v \in Volumes |-> {}]
    /\ config = [v \in Volumes |-> FALSE]
    /\ pending = [v \in Volumes |-> {}]
    /\ base = [v \in Volumes |-> 0]
    /\ own = [v \in Volumes |-> FALSE]
    /\ fetched = [v \in Volumes |-> 0]
    /\ left = [v \in Volumes |-> FALSE]
    /\ pod = [v \in Volumes |-> FALSE]
    /\ pc = [v \in Volumes |-> "out"]
    /\ diverged = [v \in Volumes |-> FALSE]
    /\ refDeleted = [v \in Volumes |-> FALSE]
    /\ waits = [v \in Volumes |-> FALSE]
    /\ upstream = [v \in Volumes |-> {}]
    /\ sideSeen = [v \in Volumes |-> FALSE]
    /\ sent = [v \in Volumes |-> {}]
    /\ tries = [v \in Volumes |-> 0]
    /\ leaving = [v \in Volumes |-> FALSE]
    /\ committed = [v \in Volumes |-> {}]
    /\ swept = [v \in Volumes |-> {}]
    /\ gone = {}
    /\ told = [v \in Volumes |-> FALSE]
    /\ faults = 0
    /\ crashes = 0

-----------------------------------------------------------------------------
(* Helpers *)

\* One more network failure, while the bound allows one.
Fault == faults < MaxFaults /\ faults' = faults + 1

At(v, phase) == pc[v] = phase

Goto(v, phase) == pc' = [pc EXCEPT ![v] = phase]

\* The call's local variables go with the call.
DropLocals(v) ==
    /\ upstream' = [upstream EXCEPT ![v] = {}]
    /\ sideSeen' = [sideSeen EXCEPT ![v] = FALSE]
    /\ sent' = [sent EXCEPT ![v] = {}]
    /\ tries' = [tries EXCEPT ![v] = 0]

\* Where a push returns to: the watch loop, or the unstage that asked.
AfterPush(v) == IF leaving[v] THEN "leave" ELSE "idle"

\* The commits the mark does not cover (workTree.unpushed): none can be
\* counted in a tree that carries no mark.
unpushed(v) == IF tree[v] = "made" THEN head[v] \ mark[v] ELSE {}

\* A rebase of the volume's commits onto upstream conflicts with what
\* upstream brought, and the update of the tree meets a write of the pod;
\* a commit that upstream carries as a copy may conflict with it, because
\* a squash does not keep the patch.
Brought(v) == ChangesOf(upstream[v] \ head[v])

Conflict(v) ==
    \E mine \in (ChangesOf(head[v] \ upstream[v]) \ ChangesOf(upstream[v]))
                \cup pending[v] :
        \E theirs \in Brought(v) : { mine, theirs } \in Overlaps

Copied(v) ==
    /\ Brought(v) # {}
    /\ ChangesOf(head[v] \ upstream[v]) \cap ChangesOf(upstream[v]) # {}

\* rebaseAside that works: the scratch rebase, then take. One that fails
\* leaves the tree as it was.
rebaseAside(v) ==
    /\ ~Conflict(v)
    /\ head' = [head EXCEPT ![v] = Replay(head[v], upstream[v])]

rebaseAborted(v) ==
    /\ Conflict(v) \/ Copied(v)
    /\ UNCHANGED head

\* reset --hard: the tree is upstream, and every tracked file is put back,
\* whatever the pod wrote to it; an untracked file stays.
reset(v) ==
    /\ head' = [head EXCEPT ![v] = upstream[v]]
    /\ \E untracked \in SUBSET pending[v] :
           pending' = [pending EXCEPT ![v] = untracked]

\* restore: the remote's record replaces the volume's own. A remote that
\* holds none, or does not answer, leaves it alone.
restore(v) ==
    \/ /\ record > 0
       /\ base' = [base EXCEPT ![v] = record]
       /\ own' = [own EXCEPT ![v] = FALSE]
       /\ UNCHANGED <<fetched, faults>>
    \/ /\ record = 0
       /\ UNCHANGED <<base, own, fetched, faults>>
    \/ /\ record > 0
       /\ Fault
       /\ UNCHANGED <<base, own, fetched>>

\* reparentMetadata: the volume's record becomes a child of the one the
\* last fetch brought, unless it already stands on it or one is missing.
HasRecord(v) == own[v] \/ base[v] > 0

reparentMetadata(v) ==
    IF fetched[v] > base[v] /\ HasRecord(v)
    THEN /\ base' = [base EXCEPT ![v] = fetched[v]]
         /\ own' = [own EXCEPT ![v] = TRUE]
    ELSE UNCHANGED <<base, own>>

\* markDiverged and the state in memory. (Mutant: the state only on disk.)
markDivergedOnDisk(v) ==
    /\ config' = [config EXCEPT ![v] = TRUE]
    /\ UNCHANGED diverged

markDiverged(v) ==
    /\ diverged' = [diverged EXCEPT ![v] = TRUE]
    /\ \/ config' = [config EXCEPT ![v] = TRUE]
       \/ ConfigFails /\ UNCHANGED config

-----------------------------------------------------------------------------
(* Stage *)

\* stageTree: the fetch of the ref and, for a diverged tree, of its side
\* branch, which counts as gone when that fetch fails.
StageTree(v) ==
    /\ At(v, "out") /\ refHere /\ tree[v] # "init"
    /\ upstream' = [upstream EXCEPT ![v] = ref]
    /\ LET held == tree[v] # "none" /\ config[v] /\ v \in sides IN
       \/ /\ sideSeen' = [sideSeen EXCEPT ![v] = held]
          /\ UNCHANGED faults
       \/ /\ held /\ Fault
          /\ UNCHANGED sideSeen
    /\ IF tree[v] = "none"
       THEN Goto(v, "create") /\ UNCHANGED <<mark, tree>>
       ELSE /\ Goto(v, "reconcile")
            \* A tree with no mark is taken to hold what the remote holds.
            /\ IF tree[v] = "unmarked"
               THEN /\ mark' = [mark EXCEPT ![v] = head[v]]
                    /\ tree' = [tree EXCEPT ![v] = "made"]
               ELSE UNCHANGED <<mark, tree>>
    /\ UNCHANGED <<remoteVars, recordVars, head, config, pending, left, pod,
                   memoryVars, sent, tries, storyVars, crashes>>

\* The remote holds the ref no longer: the tree stays and nothing is pushed.
RefDeleted(v) ==
    /\ At(v, "out") /\ ~refHere /\ tree[v] \in { "unmarked", "made" }
    /\ refDeleted' = [refDeleted EXCEPT ![v] = TRUE]
    /\ told' = [told EXCEPT ![v] = TRUE]
    /\ Goto(v, "idle")
    /\ UNCHANGED <<remoteVars, recordVars, diskVars, diverged, waits, leaving,
                   localVars, committed, swept, gone, boundVars>>

\* A stage that fails changes nothing, and the kubelet repeats it: the
\* fetch does not work, or HEAD names no commit.
StageRefused(v) ==
    /\ At(v, "out")
    /\ \/ tree[v] = "init"
       \/ ~refHere /\ tree[v] = "none"
    /\ UNCHANGED vars

\* workTree.create: git init writes HEAD, so the tree exists from here on,
Create(v) ==
    /\ At(v, "create")
    /\ tree' = [tree EXCEPT ![v] = "init"]
    /\ Goto(v, "checkout")
    /\ UNCHANGED <<remoteVars, recordVars, head, mark, config, pending, left,
                   pod, memoryVars, localVars, storyVars, boundVars>>

\* and its reset gives HEAD a commit,
Checkout(v) ==
    /\ At(v, "checkout")
    /\ tree' = [tree EXCEPT ![v] = "unmarked"]
    /\ head' = [head EXCEPT ![v] = upstream[v]]
    /\ Goto(v, "markCreated")
    /\ UNCHANGED <<remoteVars, recordVars, mark, config, pending, left, pod,
                   memoryVars, localVars, storyVars, boundVars>>

\* and the stage marks that commit and restores the metadata.
MarkCreated(v) ==
    /\ At(v, "markCreated")
    /\ tree' = [tree EXCEPT ![v] = "made"]
    /\ mark' = [mark EXCEPT ![v] = upstream[v]]
    /\ restore(v)
    /\ DropLocals(v)
    /\ Goto(v, "idle")
    /\ UNCHANGED <<remoteVars, head, config, pending, left, pod, memoryVars,
                   storyVars, crashes>>

\* healOrHold: whether upstream holds the diverged tree's work. (Mutant: the
\* mark stands for the work, as it does in healIfMerged.)
MarkIsUpstream(v) == Ancestor(mark[v], upstream[v])

TreeIsUpstream(v) == Ancestor(head[v], upstream[v])

\* A diverged tree upstream does not hold stays diverged.
Hold(v) ==
    /\ At(v, "reconcile")
    /\ config[v] /\ ~TreeIsUpstream(v)
    /\ diverged' = [diverged EXCEPT ![v] = TRUE]
    /\ DropLocals(v)
    /\ Goto(v, "idle")
    /\ UNCHANGED <<remoteVars, recordVars, diskVars, refDeleted, waits, leaving,
                   storyVars, boundVars>>

\* heal, at stage, resets the tree without a look at what is pending.
HealReset(v) ==
    /\ At(v, "reconcile")
    /\ config[v] /\ TreeIsUpstream(v)
    /\ reset(v)
    /\ Goto(v, "stageMark")
    /\ UNCHANGED <<remoteVars, recordVars, tree, mark, config, left, pod,
                   memoryVars, localVars, storyVars, boundVars>>

\* The rows of the reconcile table that leave the tree alone: one that is
\* equal to upstream or ahead of it, and one with uncommitted writes.
LeaveTree(v) ==
    /\ At(v, "reconcile") /\ ~config[v]
    /\ Ancestor(upstream[v], head[v]) \/ pending[v] # {}
    /\ DropLocals(v)
    /\ Goto(v, "idle")
    /\ UNCHANGED <<remoteVars, recordVars, diskVars, memoryVars, storyVars,
                   boundVars>>

\* The rows that rewrite it. (Mutant: whatever the tree holds.)
MayRewriteDirty(v) ==
    /\ At(v, "reconcile") /\ ~config[v]
    /\ ~Ancestor(upstream[v], head[v])

MayRewrite(v) ==
    /\ At(v, "reconcile") /\ ~config[v]
    /\ ~Ancestor(upstream[v], head[v])
    /\ pending[v] = {}

FastForwardTree(v) ==
    /\ MayRewrite(v)
    /\ TreeIsUpstream(v)
    /\ reset(v)
    /\ Goto(v, "stageMark")
    /\ UNCHANGED <<remoteVars, recordVars, tree, mark, config, left, pod,
                   memoryVars, localVars, storyVars, boundVars>>

RebaseTree(v) ==
    /\ MayRewrite(v)
    /\ ~TreeIsUpstream(v)
    /\ \/ /\ rebaseAside(v)
          /\ Goto(v, "stageMark")
          /\ UNCHANGED <<config, diverged, localVars>>
       \/ /\ rebaseAborted(v)
          /\ markDiverged(v)
          /\ DropLocals(v)
          /\ Goto(v, "idle")
    /\ UNCHANGED <<remoteVars, recordVars, tree, mark, pending, left, pod,
                   refDeleted, waits, leaving, storyVars, boundVars>>

\* The mark is upstream after a reset and after a rebase at stage, because
\* the remote holds no commit above it. (Mutant: the tree's own commit.)
MarkHead(v) == mark' = [mark EXCEPT ![v] = head[v]]

MarkUpstream(v) == mark' = [mark EXCEPT ![v] = upstream[v]]

StageMark(v) ==
    /\ At(v, "stageMark")
    /\ MarkUpstream(v)
    /\ restore(v)
    /\ IF config[v]
       THEN /\ Goto(v, IF sideSeen[v] THEN "stageRemove" ELSE "stageHealed")
            /\ UNCHANGED localVars
       ELSE Goto(v, "idle") /\ DropLocals(v)
    /\ UNCHANGED <<remoteVars, tree, head, config, pending, left, pod,
                   memoryVars, storyVars, crashes>>

\* removeSide: the deletion that fails, or never arrives, is only logged.
RemoveSide(v) ==
    /\ \/ At(v, "stageRemove") /\ Goto(v, "stageHealed")
       \/ At(v, "healRemove") /\ Goto(v, "healed")
    /\ \/ /\ sides' = sides \ {v}
          /\ side' = [side EXCEPT ![v] = {}]
          /\ UNCHANGED faults
       \/ /\ v \in sides /\ Fault
          /\ UNCHANGED <<side, sides>>
    /\ UNCHANGED <<ref, refHere, record, recordVars, diskVars, memoryVars,
                   localVars, storyVars, crashes>>

\* clearDiverged: git refuses to unset a key that is not set.
CannotClear(v) == ConfigFails \/ ~config[v]

\* healed at stage. A state that cannot be cleared fails the stage.
StageHealed(v) ==
    /\ At(v, "stageHealed")
    /\ \/ /\ config[v]
          /\ config' = [config EXCEPT ![v] = FALSE]
          /\ Goto(v, "idle")
       \/ /\ CannotClear(v)
          /\ Goto(v, "out")
          /\ UNCHANGED config
    /\ DropLocals(v)
    /\ UNCHANGED <<remoteVars, recordVars, tree, head, mark, pending, left, pod,
                   memoryVars, storyVars, boundVars>>

-----------------------------------------------------------------------------
(* The pod, the commits and the calls that ask for a push *)

Publish(v) ==
    /\ At(v, "idle") /\ ~pod[v]
    /\ pod' = [pod EXCEPT ![v] = TRUE]
    /\ waits' = [waits EXCEPT ![v] = FALSE]
    /\ UNCHANGED <<remoteVars, recordVars, tree, head, mark, config, pending,
                   left, pc, diverged, refDeleted, leaving, localVars,
                   storyVars, boundVars>>

\* The kubelet repeats the publish of a running pod, with the credential a
\* restart lost. The watch then pushes (PushNow).
Republish(v) ==
    /\ At(v, "idle") /\ pod[v] /\ waits[v]
    /\ waits' = [waits EXCEPT ![v] = FALSE]
    /\ Goto(v, "push")
    /\ UNCHANGED <<remoteVars, recordVars, diskVars, diverged, refDeleted,
                   leaving, localVars, storyVars, boundVars>>

\* A pod writes while it mounts the tree, whatever the driver does.
Write(v, change) ==
    /\ pod[v]
    /\ \A other \in Volumes : change \notin pending[other]
                                         \cup committed[other] \cup swept[other]
    /\ pending' = [pending EXCEPT ![v] = @ \cup {change}]
    /\ UNCHANGED <<remoteVars, recordVars, tree, head, mark, config, left, pod,
                   pc, memoryVars, localVars, storyVars, boundVars>>

\* node.commit: the record of the metadata, when it changed, and then the
\* paths the size guard lets through, possibly none of them.
commit(v, work) ==
    /\ \/ UNCHANGED own
       \/ record < MaxRecords /\ own' = [own EXCEPT ![v] = TRUE]
    /\ head' = [head EXCEPT ![v] = Committed(@, work)]
    /\ pending' = [pending EXCEPT ![v] = @ \ work]
    /\ committed' = [committed EXCEPT ![v] = @ \cup work]

\* scan, once the tree of an armed volume has rested.
Commit(v) ==
    /\ At(v, "idle") /\ pod[v]
    /\ \E work \in SUBSET pending[v] : commit(v, work)
    /\ UNCHANGED <<remoteVars, base, fetched, tree, mark, config, left, pod, pc,
                   memoryVars, localVars, swept, gone, told, boundVars>>

\* NodeUnpublishVolume: the last commit, which only an armed volume makes,
\* and the push that asks the policy nothing.
Unpublish(v) ==
    /\ At(v, "idle") /\ pod[v]
    /\ pod' = [pod EXCEPT ![v] = FALSE]
    /\ \E work \in SUBSET pending[v] : commit(v, work)
    /\ Goto(v, "push")
    /\ UNCHANGED <<remoteVars, base, fetched, tree, mark, config, left,
                   memoryVars, localVars, swept, gone, told, boundVars>>

\* NodeUnstageVolume: the push,
Unstage(v) ==
    /\ At(v, "idle") /\ ~pod[v]
    /\ leaving' = [leaving EXCEPT ![v] = TRUE]
    /\ Goto(v, "push")
    /\ UNCHANGED <<remoteVars, recordVars, diskVars, diverged, refDeleted, waits,
                   localVars, storyVars, boundVars>>

\* then the unstage time, and the driver forgets the volume.
Forget(v) ==
    /\ diverged' = [diverged EXCEPT ![v] = FALSE]
    /\ refDeleted' = [refDeleted EXCEPT ![v] = FALSE]
    /\ leaving' = [leaving EXCEPT ![v] = FALSE]

MarkUnstaged(v) ==
    /\ At(v, "leave")
    /\ left' = [left EXCEPT ![v] = TRUE]
    /\ Forget(v)
    /\ waits' = [waits EXCEPT ![v] = FALSE]
    /\ Goto(v, "out")
    /\ UNCHANGED <<remoteVars, recordVars, tree, head, mark, config, pending,
                   pod, localVars, storyVars, boundVars>>

-----------------------------------------------------------------------------
(* The push *)

\* The pushes that are not made. (Mutant: a deleted ref is forgotten.)
BlockedByCredential(v) == unpushed(v) = {} \/ waits[v]

Blocked(v) == unpushed(v) = {} \/ refDeleted[v] \/ waits[v]

\* pushNow, from the watch loop when the policy says so or from a call
\* that pushes without asking it.
PushNow(v) ==
    /\ pc[v] \in { "idle", "push" }
    /\ pc[v] = "idle" => pod[v]
    /\ ~Blocked(v)
    /\ sent' = [sent EXCEPT ![v] = head[v]]
    /\ Goto(v, IF diverged[v] THEN "healFetch" ELSE "send")
    /\ UNCHANGED <<remoteVars, recordVars, diskVars, memoryVars, upstream,
                   sideSeen, tries, storyVars, boundVars>>

PushSkipped(v) ==
    /\ At(v, "push")
    /\ Blocked(v)
    /\ Goto(v, AfterPush(v))
    /\ UNCHANGED <<remoteVars, recordVars, diskVars, memoryVars, localVars,
                   storyVars, boundVars>>

\* fetchUpstream: the ref, and the record, whose fetch may fail alone.
fetchUpstream(v) ==
    /\ refHere
    /\ upstream' = [upstream EXCEPT ![v] = ref]
    /\ \/ /\ fetched' = [fetched EXCEPT ![v] = record]
          /\ UNCHANGED faults
       \/ /\ fetched[v] # record /\ Fault
          /\ UNCHANGED fetched

fetchFails == (~refHere /\ UNCHANGED faults) \/ Fault

\* healIfMerged: upstream holds the mark, so the divergence is over.
Merged(v) == Ancestor(mark[v], upstream'[v])

HealFetch(v) ==
    /\ At(v, "healFetch")
    /\ \/ /\ fetchUpstream(v)
          /\ Goto(v, IF Merged(v) THEN "healRebase" ELSE "send")
       \/ /\ fetchFails
          /\ Goto(v, "send")
          /\ UNCHANGED <<upstream, fetched>>
    /\ UNCHANGED <<remoteVars, base, own, diskVars, memoryVars, sideSeen, sent,
                   tries, storyVars, crashes>>

\* healInTree: the rebase that conflicts leaves the volume diverged.
HealRebase(v) ==
    /\ At(v, "healRebase")
    /\ \/ rebaseAside(v) /\ Goto(v, "healRemove")
       \/ rebaseAborted(v) /\ Goto(v, "send")
    /\ UNCHANGED <<remoteVars, recordVars, tree, mark, config, pending, left,
                   pod, memoryVars, localVars, storyVars, boundVars>>

\* healed, and pushNow reads HEAD again. A state that cannot be cleared
\* sends the push to the side branch.
Healed(v) ==
    /\ At(v, "healed")
    /\ \/ /\ config[v]
          /\ config' = [config EXCEPT ![v] = FALSE]
          /\ diverged' = [diverged EXCEPT ![v] = FALSE]
          /\ sent' = [sent EXCEPT ![v] = head[v]]
       \/ /\ CannotClear(v)
          /\ UNCHANGED <<config, diverged, sent>>
    /\ Goto(v, "send")
    /\ UNCHANGED <<remoteVars, recordVars, tree, head, mark, pending, left, pod,
                   refDeleted, waits, leaving, upstream, sideSeen, tries,
                   storyVars, boundVars>>

\* What the remote makes of a push: it takes the branch and the record, or
\* rejects either as no fast-forward, each on its own. (Mutant: a push that
\* forces the branch.)
BranchForced(v) == TRUE

BranchTaken(v) ==
    IF diverged[v]
    THEN v \notin sides \/ FastForward(side[v], head[v])
    ELSE ~refHere \/ FastForward(ref, head[v])

RecordTaken(v) == HasRecord(v) => base[v] = record

\* git push works when the remote took all it was sent. (Mutant: the record
\* alone.)
RecordLanded(v) == RecordTaken(v)

PushLanded(v) == BranchTaken(v) /\ RecordTaken(v)

receiveBranch(v) ==
    IF ~BranchTaken(v)
    THEN UNCHANGED <<ref, refHere, side, sides, told>>
    ELSE IF diverged[v]
    THEN /\ side' = [side EXCEPT ![v] = head[v]]
         /\ sides' = sides \cup {v}
         /\ UNCHANGED <<ref, refHere, told>>
    ELSE /\ ref' = head[v]
         /\ refHere' = TRUE
         /\ told' = [w \in Volumes |-> FALSE]
         /\ UNCHANGED <<side, sides>>

receiveRecord(v) ==
    IF own[v] /\ RecordTaken(v)
    THEN /\ record' = record + 1
         /\ base' = [base EXCEPT ![v] = record + 1]
         /\ own' = [own EXCEPT ![v] = FALSE]
    ELSE UNCHANGED <<record, base, own>>

receive(v) == receiveBranch(v) /\ receiveRecord(v)

\* The request is lost, or its reply is, and the driver cannot tell.
sendFails(v) ==
    /\ Fault
    /\ \/ receive(v)
       \/ UNCHANGED <<ref, refHere, side, sides, told, record, base, own>>

\* pushNow's send, to the side branch of a diverged volume and to the ref
\* otherwise. Only a rejection by the ref leads to the rebase.
SendTo(v) ==
    /\ At(v, "send")
    /\ \/ /\ sendFails(v)
          /\ Goto(v, AfterPush(v))
          /\ DropLocals(v)
       \/ /\ PushLanded(v)
          /\ receive(v)
          /\ Goto(v, "marking")
          /\ UNCHANGED <<localVars, faults>>
       \/ /\ ~PushLanded(v)
          /\ receive(v)
          /\ IF diverged[v]
             THEN Goto(v, AfterPush(v)) /\ DropLocals(v)
             ELSE Goto(v, "retryFetch") /\ UNCHANGED localVars
          /\ UNCHANGED faults
    /\ UNCHANGED <<fetched, diskVars, memoryVars, committed, swept, gone,
                   crashes>>

\* rebaseAndRetry: the fetch,
RetryFetch(v) ==
    /\ At(v, "retryFetch")
    /\ \/ fetchUpstream(v) /\ Goto(v, "retryRebase")
       \/ /\ fetchFails
          /\ Goto(v, "diverge")
          /\ UNCHANGED <<upstream, fetched>>
    /\ UNCHANGED <<remoteVars, base, own, diskVars, memoryVars, sideSeen, sent,
                   tries, storyVars, crashes>>

\* the rebase of the commits and of the record,
RetryRebase(v) ==
    /\ At(v, "retryRebase")
    /\ \/ /\ rebaseAside(v)
          /\ reparentMetadata(v)
          /\ Goto(v, "resend")
       \/ /\ rebaseAborted(v)
          /\ Goto(v, "diverge")
          /\ UNCHANGED <<base, own>>
    /\ UNCHANGED <<remoteVars, fetched, tree, mark, config, pending, left, pod,
                   memoryVars, localVars, storyVars, boundVars>>

\* The three attempts. (Mutant: one more.)
AttemptsOverrun(v) == tries[v] = rebaseAttempts

AttemptsUsed(v) == tries[v] + 1 = rebaseAttempts

\* and the push, which any failure sends round again until the attempts
\* are used up.
Resend(v) ==
    /\ At(v, "resend")
    /\ \/ /\ PushLanded(v)
          /\ receive(v)
          /\ sent' = [sent EXCEPT ![v] = head[v]]
          /\ Goto(v, "marking")
          /\ UNCHANGED <<tries, faults>>
       \/ /\ \/ sendFails(v)
             \/ /\ ~PushLanded(v)
                /\ receive(v)
                /\ UNCHANGED faults
          /\ tries' = [tries EXCEPT ![v] = @ + 1]
          /\ Goto(v, IF AttemptsUsed(v) THEN "diverge" ELSE "retryFetch")
          /\ UNCHANGED sent
    /\ UNCHANGED <<fetched, diskVars, memoryVars, upstream, sideSeen, committed,
                   swept, gone, crashes>>

\* diverge: from here on the push goes to the side branch, and HEAD is
\* read again because a retry may have moved it.
Diverge(v) ==
    /\ At(v, "diverge")
    /\ markDiverged(v)
    /\ sent' = [sent EXCEPT ![v] = head[v]]
    /\ Goto(v, "send")
    /\ UNCHANGED <<remoteVars, recordVars, tree, head, mark, pending, left, pod,
                   refDeleted, waits, leaving, upstream, sideSeen, tries,
                   storyVars, boundVars>>

MarkPushed(v) ==
    /\ At(v, "marking")
    /\ mark' = [mark EXCEPT ![v] = sent[v]]
    /\ DropLocals(v)
    /\ Goto(v, AfterPush(v))
    /\ UNCHANGED <<remoteVars, recordVars, tree, head, config, pending, left,
                   pod, memoryVars, storyVars, boundVars>>

-----------------------------------------------------------------------------
(* The sweep, kills and restarts *)

\* sweepVolume keeps a tree with commits the last push did not send, and a
\* diverged one. (Mutants: one of the two is swept.)
SweepableDiverged(v) == tree[v] = "made" /\ mark[v] = head[v]

SweepableUnpushed(v) == tree[v] = "made" /\ ~config[v]

Sweepable(v) == tree[v] = "made" /\ mark[v] = head[v] /\ ~config[v]

\* It removes the directory of a volume the node does not hold. The age of
\* the unstage is abstracted.
Sweep(v) ==
    /\ At(v, "out") /\ left[v]
    /\ Sweepable(v)
    /\ tree' = [tree EXCEPT ![v] = "none"]
    /\ head' = [head EXCEPT ![v] = {}]
    /\ mark' = [mark EXCEPT ![v] = {}]
    /\ pending' = [pending EXCEPT ![v] = {}]
    /\ base' = [base EXCEPT ![v] = 0]
    /\ own' = [own EXCEPT ![v] = FALSE]
    /\ fetched' = [fetched EXCEPT ![v] = 0]
    /\ left' = [left EXCEPT ![v] = FALSE]
    /\ swept' = [swept EXCEPT ![v] = @ \cup committed[v]]
    /\ committed' = [committed EXCEPT ![v] = {}]
    /\ UNCHANGED <<remoteVars, config, pod, pc, memoryVars, localVars, gone,
                   told, boundVars>>

\* The driver that serves the volume is killed in any state.
Crash(v) ==
    /\ pc[v] # "down" /\ crashes < MaxCrashes
    /\ crashes' = crashes + 1
    /\ Forget(v)
    /\ waits' = [waits EXCEPT ![v] = FALSE]
    /\ DropLocals(v)
    /\ Goto(v, "down")
    /\ UNCHANGED <<remoteVars, recordVars, diskVars, storyVars, faults>>

\* resumeOne: a volume a pod still mounts is taken up again, with what its
\* record on disk says and nothing that was in memory.
Resume(v) ==
    /\ At(v, "down")
    /\ Goto(v, IF pod[v] THEN "idle" ELSE "out")
    /\ waits' = [waits EXCEPT ![v] = pod[v] /\ Secret]
    /\ UNCHANGED <<remoteVars, recordVars, diskVars, diverged, refDeleted,
                   leaving, localVars, storyVars, boundVars>>

-----------------------------------------------------------------------------
(* Everyone else who writes the remote *)

\* Another writer pushes a change to the ref, with its record.
OtherPush(change) ==
    /\ refHere /\ <<change, 1>> \notin ref
    /\ ref' = Committed(ref, {change})
    /\ \/ UNCHANGED record
       \/ record < MaxRecords /\ record' = record + 1
    /\ UNCHANGED <<refHere, side, sides, recordVars, diskVars, pc, memoryVars,
                   localVars, storyVars, boundVars>>

\* A person merges a side branch on the forge, with a merge commit or as
\* copies (a squash), and may delete the branch after that.
MergeSide(v) ==
    /\ v \in sides /\ refHere
    /\ ~(side[v] \subseteq ref)
    /\ ref' \in { ref \cup side[v],
                 ref \cup { <<change, 0>> : change \in ChangesOf(side[v])
                                                     \ ChangesOf(ref) } }
    /\ UNCHANGED <<refHere, side, sides, record, recordVars, diskVars, pc,
                   memoryVars, localVars, storyVars, boundVars>>

DeleteSide(v) ==
    /\ v \in sides /\ refHere
    /\ ChangesOf(side[v]) \subseteq ChangesOf(ref)
    /\ sides' = sides \ {v}
    /\ side' = [side EXCEPT ![v] = {}]
    /\ UNCHANGED <<ref, refHere, record, recordVars, diskVars, pc, memoryVars,
                   localVars, storyVars, boundVars>>

DeleteRef ==
    /\ RefDeletes /\ refHere
    /\ refHere' = FALSE
    /\ gone' = gone \cup ChangesOf(ref)
    /\ UNCHANGED <<ref, side, sides, record, recordVars, diskVars, pc,
                   memoryVars, localVars, committed, swept, told, boundVars>>

RestoreRef ==
    /\ ~refHere
    /\ refHere' = TRUE
    /\ told' = [v \in Volumes |-> FALSE]
    /\ UNCHANGED <<ref, side, sides, record, recordVars, diskVars, pc,
                   memoryVars, localVars, committed, swept, gone, boundVars>>

-----------------------------------------------------------------------------

StageStep(v) ==
    \/ StageTree(v) \/ RefDeleted(v) \/ StageRefused(v) \/ Create(v)
    \/ Checkout(v) \/ MarkCreated(v) \/ Hold(v) \/ HealReset(v) \/ LeaveTree(v)
    \/ FastForwardTree(v) \/ RebaseTree(v) \/ StageMark(v) \/ StageHealed(v)

PushStep(v) ==
    \/ PushNow(v) \/ PushSkipped(v) \/ HealFetch(v) \/ HealRebase(v)
    \/ RemoveSide(v) \/ Healed(v) \/ SendTo(v) \/ RetryFetch(v)
    \/ RetryRebase(v) \/ Resend(v) \/ Diverge(v) \/ MarkPushed(v)

PodStep(v) ==
    \/ Publish(v) \/ Republish(v) \/ Commit(v) \/ Unpublish(v)
    \/ Unstage(v) \/ MarkUnstaged(v)
    \/ \E change \in Writes : Write(v, change)

OtherStep ==
    \/ \E change \in Foreign : OtherPush(change)
    \/ \E v \in Volumes : MergeSide(v) \/ DeleteSide(v)
    \/ DeleteRef \/ RestoreRef

Next ==
    \/ \E v \in Volumes :
           \/ StageStep(v) \/ PushStep(v) \/ PodStep(v)
           \/ Sweep(v) \/ Crash(v) \/ Resume(v)
    \/ OtherStep

Spec == Init /\ [][Next]_vars

-----------------------------------------------------------------------------
(* Properties *)

\* What the remote holds for a volume, and what a person took from it.
RemoteHolds(v) ==
    (IF refHere THEN ChangesOf(ref) ELSE {}) \cup ChangesOf(side[v]) \cup gone

\* The driver loses nothing: whatever resets, rebases, heals and retries it
\* has run, and wherever it was killed, a tree carries every change it ever
\* committed (reconcile, rebaseAside, heal; design invariant 3).
NoCommitLost == \A v \in Volumes : committed[v] \subseteq ChangesOf(head[v])

\* The mark never runs ahead of the remote: every change it covers is on
\* the ref or on the side branch, through lost replies, a deleted side
\* branch and kills between the push and the mark. The unpushed count and
\* the sweep both trust it (markPushed, sweepVolume).
PushedIsOnRemote ==
    \A v \in Volumes :
        tree[v] = "made" => ChangesOf(mark[v]) \subseteq RemoteHolds(v)

\* The sweep removes no last copy: what it deletes with a tree is on the
\* remote, and stays there while the driver stages the volume again and
\* diverges and heals anew (sweepVolume, removeSide). Where git's
\* configuration cannot be written it does not hold: a divergence that is
\* not on disk is swept, and a later heal deletes the branch by its name.
SweptIsOnRemote == \A v \in Volumes : swept[v] \subseteq RemoteHolds(v)

\* removeSide deletes a branch by its name, whatever it holds by then, so
\* all of it must be on the ref or still in the tree.
SideIsACopy ==
    \A v \in Volumes :
        ChangesOf(side[v])
            \subseteq ChangesOf(ref) \cup ChangesOf(head[v]) \cup gone

\* A volume whose stage found the ref deleted does not put it back
\* (refDeleted: "a push to a ref a person deleted would put it back").
DeletedRefStaysDeleted ==
    [][ \A v \in Volumes :
            /\ told[v] /\ ~refHere
            /\ pc[v] \in { "send", "resend" } /\ pc'[v] # pc[v]
            => ~refHere' ]_vars

\* As long as the driver lives, and can write git's configuration, the state
\* in memory is the one in the git directory whenever no call runs: a push,
\* which reads the first, and a stage, which reads the second (healOrHold,
\* stageTree), agree on where the volume's work goes through diverge, retry,
\* heal and every new stage. A kill ends it: divergedKey says that a driver
\* that restarted reads the state, and resumeOne does not. A volume whose ref
\* is deleted pushes nothing, and its stage reads no state.
DivergedIsKnown ==
    \A v \in Volumes :
        pc[v] = "idle" /\ ~refDeleted[v] => diverged[v] = config[v]

\* A write leaves the uncommitted ones only with a commit or, outside a
\* diverged tree, not at all: neither row of the reconcile table that
\* rewrites a tree, nor a rebase under a running pod, discards one.
KeepsWrites ==
    \A v \in Volumes :
        ~config[v] /\ tree'[v] # "none"
        => pending[v] \subseteq pending'[v] \cup ChangesOf(head'[v])

ReconcileKeepsWrites == [][KeepsWrites]_vars

\* reconcile: "A tree with uncommitted writes is never rewritten."
UncommittedNeverRewritten ==
    [][ \A v \in Volumes :
            pc[v] = "reconcile" /\ pending[v] # {}
            => pending'[v] = pending[v] ]_vars

-----------------------------------------------------------------------------
(* The volumes implement DurableVolume *)

RemoteWork ==
    (IF refHere THEN ChangesOf(ref) ELSE {}) \cup gone
        \cup UNION { ChangesOf(side[v]) : v \in Volumes }

Durable == INSTANCE DurableVolume WITH
    written <- pending,
    kept    <- [v \in Volumes |-> ChangesOf(head[v])],
    counted <- [v \in Volumes |-> IF tree[v] = "made" THEN ChangesOf(mark[v])
                                                     ELSE {}],
    remote  <- RemoteWork

\* Every step of the stage, the push, its retry and heal, the sweep and a kill
\* is a step of DurableVolume: work that is committed leaves the tree only
\* for the remote, nothing is counted that is not there, and what the driver
\* takes off the remote is in the tree and uncounted (design invariants 3
\* and 4; removeSide, markPushed, sweepVolume).
ImplementsDurable == Durable!Spec

-----------------------------------------------------------------------------
(* Liveness *)

\* The watch loop scans on a ticker whatever inotify says, a push is due once
\* the pod rests for quiesce or maxLatency has passed (pushDue), the claim of
\* the volume stays, and a started call runs to its end; so the driver always
\* takes its next push step. The kubelet repeats a publish until it works.
Fairness ==
    \A v \in Volumes :
        /\ WF_vars(PushStep(v))
        /\ WF_vars(Republish(v))
        /\ WF_vars(Resume(v))

FairSpec == Spec /\ Fairness

\* The remote still holds a side branch of an earlier divergence, which the
\* heal could not delete (removeSide), and the tree was rebased since: it
\* rejects every push of the new divergence until a person merges or removes
\* it.
SideInTheWay(v) ==
    diverged[v] /\ v \in sides /\ ~FastForward(side[v], head[v])

\* While a pod keeps the volume, what was committed is counted as pushed in
\* the end: every retry, heal and divergence comes to an end (pushNow), but
\* for a divergence that meets the branch of an earlier one.
WorkIsPushed ==
    \A v \in Volumes :
        pod[v] /\ unpushed(v) # {}
        ~> \/ ~pod[v] \/ unpushed(v) = {}
           \/ refDeleted[v] \/ SideInTheWay(v)

=============================================================================
