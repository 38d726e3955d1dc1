---------------------------- MODULE ReadOnlyTree ----------------------------
(***************************************************************************)
(* The files of the read-only volumes of one repository on one node: the   *)
(* stage that places a commit, the binds of a claim at its pods' targets   *)
(* and of an inline volume at its one, the pass of the fetch loop that     *)
(* replaces a tree entry by entry under the pods that read it, and kills   *)
(* of the driver and of the node with what a restart finds on disk.        *)
(*                                                                         *)
(* A step is one system call or one git command, or a section under the    *)
(* node's lock. The calls of one volume come one at a time; those of       *)
(* others and the pass run beside them. A timer or a demand may start a    *)
(* pass at any moment (DemandedPull says when one has to start). The       *)
(* credentials a fetch needs are those of DemandedPull too.                *)
(***************************************************************************)
EXTENDS Naturals, FiniteSets

CONSTANTS
    Claims,       \* the read-only claims
    Inlines,      \* the inline volumes
    Targets,      \* the paths pods mount volumes at
    Owner,        \* Owner[t]: the volume whose target t is
    Entries,      \* the names in a tree, numbered in the order they sort
    Commits,      \* the commits the ref may name
    Content,      \* Content[c]: the entries of c
    Directories,  \* what entries hold that are directories
    Absent,       \* the content of an entry that is not there
    AllowStale,   \* the volumes with offline: allowStale
    MaxPods,      \* bound: targets the kubelet has published at once
    MaxFaults,    \* bound: failures of the network, git or a system call
    MaxUpsets     \* bound: kills of the driver or the node, and moves of the ref
                  \* back to an older commit

Volumes == Claims \cup Inlines

Blobs == (UNION { { Content[c][e] : e \in Entries } : c \in Commits }) \cup {Absent}

ASSUME TreeAssumption ==
    /\ Claims \cap Inlines = {} /\ Volumes \cap { "free", "pass" } = {}
    /\ Owner \in [Targets -> Volumes]
    /\ Entries \subseteq Nat
    /\ Commits \subseteq Nat \ {0} /\ Commits # {}
    /\ AllowStale \subseteq Volumes
    /\ MaxPods \in Nat /\ MaxFaults \in Nat /\ MaxUpsets \in Nat

(* A record names an inline volume's one target.                           *)
ASSUME InlineAssumption ==
    \A v \in Inlines : \E t \in Targets : { u \in Targets : Owner[u] = v } = {t}

ASSUME ContentAssumption ==
    \A c \in Commits : Content[c] \in [Entries -> Blobs]

VARIABLES
    (* the remote and the bare repository in the store *)
    remote,      \* the commit the ref names
    copy,        \* the commit the store's own ref names, 0 for none
    (* each volume's directory *)
    next,        \* the volumes with a checkout beside the tree
    tree,        \* the volumes whose published tree is there
    files,       \* files[v]: the entries of that tree
    placed,      \* placed[v]: the file that names the commit, 0 for none
    record,      \* the volumes whose record is there
    recorded,    \* recorded[v]: the targets it names
    (* the kernel and the kubelet *)
    mounts,      \* mounts[t]: none, or whether what is bound is still the tree
    asked,       \* targets the kubelet published or tried to
    running,     \* targets whose publish answered: a pod reads there
    (* the driver's memory *)
    up,
    held,        \* node.staged for claims, node.volumes for inline volumes
    followed,    \* the volumes of the fetch loop
    bound,       \* bound[v]: volume.targets
    standing,    \* standing[v]: volume.commit
    trouble,     \* the volumes whose last fetch or placement failed
    fresh,       \* the volumes whose standing a fetch of this process reported
    call,        \* call[v]: what is left of the kubelet's call
    at,          \* at[v]: the call's target
    lock,        \* the repository's lock
    pass,        \* the volumes the running pass has not come to
    live,        \* whether the context of the pass has not ended
    placing,     \* the placement the holder of the lock runs
    (* history, read by the properties alone, and the bounds *)
    unrecorded,  \* targets in use whose last write of the record failed
    half,        \* half[v]: whether the last placement of v ended half way,
                 \* and whether the ref moved since
    faults, upsets

remoteVars  == <<remote, copy>>
treeVars    == <<next, tree, files, placed>>
recordVars  == <<record, recorded, unrecorded>>
kubeletVars == <<asked, running>>
memoryVars  == <<held, followed, bound>>
reportVars  == <<standing, trouble, fresh>>
callVars    == <<call, at>>
passVars    == <<pass, live>>
vars == <<remoteVars, treeVars, recordVars, mounts, kubeletVars, up, memoryVars,
          reportVars, callVars, lock, passVars, placing, half, faults, upsets>>

TargetsOf(v) == { t \in Targets : Owner[t] = v }

NoTarget == "no target"

Idle == [pc |-> "idle"]

Placements ==
    {Idle} \cup
    [pc : { "checkout", "arrive", "remove", "rename", "record" },
     of : Volumes, commit : Commits, todo : SUBSET Entries, stale : BOOLEAN]

Phases == { "none", "lock", "place", "bind", "record", "rewrite",
            "hold", "failed", "unmount", "unmount_only", "forget", "remove" }

TypeOK ==
    /\ remote \in Commits /\ copy \in Commits \cup {0}
    /\ next \subseteq Volumes /\ tree \subseteq Volumes
    /\ files \in [Volumes -> [Entries -> Blobs]]
    /\ placed \in [Volumes -> Commits \cup {0}]
    /\ record \subseteq Volumes /\ unrecorded \subseteq asked
    /\ half \in [Volumes -> { "no", "half", "moved" }]
    /\ recorded \in [Volumes -> SUBSET Targets]
    /\ \A v \in Volumes : recorded[v] \subseteq TargetsOf(v)
    /\ mounts \in [Targets -> { "none", "tree", "gone" }]
    /\ running \subseteq asked /\ asked \subseteq Targets
    /\ up \in BOOLEAN /\ held \subseteq Volumes /\ followed \subseteq held
    /\ bound \in [Volumes -> SUBSET Targets]
    /\ \A v \in Volumes : bound[v] \subseteq TargetsOf(v)
    /\ standing \in [Volumes -> Commits \cup {0}]
    /\ trouble \subseteq Volumes /\ fresh \subseteq Volumes
    /\ call \in [Volumes -> Phases]
    /\ at \in [Volumes -> Targets \cup {NoTarget}]
    /\ lock \in Volumes \cup { "free", "pass" }
    /\ pass \subseteq Volumes /\ live \in BOOLEAN
    /\ placing \in Placements
    /\ placing # Idle => lock \in { "pass", placing.of }
    /\ faults \in 0..MaxFaults /\ upsets \in 0..MaxUpsets

Empty == [e \in Entries |-> Absent]

Nowhere == [v \in Volumes |-> {}]

NoCommits == [v \in Volumes |-> 0]

Init ==
    /\ remote = CHOOSE c \in Commits : \A d \in Commits : c <= d
    /\ copy = 0 /\ next = {} /\ tree = {} /\ files = [v \in Volumes |-> Empty]
    /\ placed = NoCommits
    /\ record = {} /\ recorded = Nowhere /\ unrecorded = {}
    /\ half = [v \in Volumes |-> "no"]
    /\ mounts = [t \in Targets |-> "none"] /\ asked = {} /\ running = {}
    /\ up = TRUE /\ held = {} /\ followed = {} /\ bound = Nowhere
    /\ standing = NoCommits /\ trouble = {} /\ fresh = {}
    /\ call = [v \in Volumes |-> "none"] /\ at = [v \in Volumes |-> NoTarget]
    /\ lock = "free" /\ pass = {} /\ live = FALSE /\ placing = Idle
    /\ faults = 0 /\ upsets = 0

-----------------------------------------------------------------------------
(* What several actions are made of                                        *)

Fault == faults < MaxFaults /\ faults' = faults + 1

NoFault == UNCHANGED faults

Upset == upsets < MaxUpsets /\ upsets' = upsets + 1

(* os.RemoveAll of volume directories: what is bound stays bound, to a     *)
(* directory that has no name and no files.                                *)
RemoveDirectories(V) ==
    /\ next' = next \ V /\ tree' = tree \ V
    /\ files' = [v \in Volumes |-> IF v \in V THEN Empty ELSE files[v]]
    /\ placed' = [v \in Volumes |-> IF v \in V THEN 0 ELSE placed[v]]
    /\ record' = record \ V
    /\ half' = [v \in Volumes |-> IF v \in V THEN "no" ELSE half[v]]
    /\ mounts' = [t \in Targets |->
                    IF mounts[t] = "tree" /\ Owner[t] \in V THEN "gone" ELSE mounts[t]]

Goto(v, phase) == call' = [call EXCEPT ![v] = phase]

Done(v) == Goto(v, "none") /\ at' = [at EXCEPT ![v] = NoTarget]

(* follower.remove, and the end of a loop that follows nothing more.       *)
Unfollow(v) ==
    /\ followed' = followed \ {v}
    /\ live' = (live /\ followed' # {})

Follow(v) ==
    /\ held' = held \cup {v} /\ followed' = followed \cup {v}
    /\ UNCHANGED live

Report(v, commit, stale) ==
    /\ standing' = [standing EXCEPT ![v] = commit]
    /\ trouble' = IF stale THEN trouble \cup {v} ELSE trouble \ {v}
    /\ fresh' = fresh \cup {v}

Placement(v, commit, stale) ==
    [pc |-> "checkout", of |-> v, commit |-> commit, todo |-> {}, stale |-> stale]

-----------------------------------------------------------------------------
(* The kubelet's calls                                                     *)

(* A stage of a claim the node does not hold makes the volume's directory, *)
(* as does the publish of an inline volume. The volume is a new object     *)
(* that the node does not hold until the call is over.                     *)
StageClaim(v) ==
    /\ up /\ v \in Claims \ held /\ call[v] = "none"
    /\ Goto(v, "lock")
    /\ UNCHANGED <<remoteVars, treeVars, recordVars, mounts, kubeletVars, up,
                   memoryVars, reportVars, at, lock, passVars, placing, faults,
                   half, upsets>>

(* A publish of a target that is bound takes a credential and answers. A   *)
(* claim that is not staged refuses it.                                    *)
PublishAgain(t) ==
    LET v == Owner[t] IN
    /\ up /\ call[v] = "none" /\ t \in asked \ running
    /\ v \in held /\ (v \in Claims => t \in bound[v])
    /\ running' = running \cup {t}
    /\ UNCHANGED <<remoteVars, treeVars, recordVars, mounts, asked, up, memoryVars,
                   reportVars, callVars, lock, passVars, placing, faults, half, upsets>>

PublishInline(t) ==
    LET v == Owner[t] IN
    /\ up /\ v \in Inlines \ held /\ call[v] = "none"
    /\ asked' = asked \cup {t} /\ Cardinality(asked') <= MaxPods
    /\ Goto(v, "lock") /\ at' = [at EXCEPT ![v] = t]
    /\ UNCHANGED <<remoteVars, treeVars, recordVars, mounts, running, up, memoryVars,
                   reportVars, lock, passVars, placing, faults, half, upsets>>

PublishClaim(t) ==
    LET v == Owner[t] IN
    /\ up /\ v \in Claims \cap held /\ call[v] = "none" /\ t \notin bound[v]
    /\ asked' = asked \cup {t} /\ Cardinality(asked') <= MaxPods
    /\ Goto(v, "bind") /\ at' = [at EXCEPT ![v] = t]
    /\ UNCHANGED <<remoteVars, treeVars, recordVars, mounts, running, up, memoryVars,
                   reportVars, lock, passVars, placing, faults, half, upsets>>

(* node.stage: the repository's lock, the fetch under it, and what offline *)
(* makes of its failure. Only a kill comes between the lock and the answer *)
(* of the remote that any step here would see, and it comes before as well.*)
FetchBegins(v) ==
    /\ call[v] = "lock" /\ lock = "free"
    /\ standing' = [standing EXCEPT ![v] = 0]
    /\ trouble' = trouble \ {v} /\ fresh' = fresh \ {v}

StagePlaces(v, commit, stale) ==
    /\ FetchBegins(v)
    /\ lock' = v /\ placing' = Placement(v, commit, stale) /\ Goto(v, "place")
    /\ UNCHANGED <<remote, treeVars, recordVars, mounts, kubeletVars, up, memoryVars,
                   at, passVars, half, upsets>>

StageFetch(v) == StagePlaces(v, remote, FALSE) /\ copy' = remote /\ NoFault

StageStale(v) ==
    /\ v \in AllowStale /\ copy # 0
    /\ StagePlaces(v, copy, TRUE) /\ Fault /\ UNCHANGED copy

StageRefused(v) ==
    /\ v \notin AllowStale \/ copy = 0
    /\ FetchBegins(v) /\ Goto(v, "failed") /\ Fault
    /\ UNCHANGED <<remoteVars, treeVars, recordVars, mounts, kubeletVars, up,
                   memoryVars, at, lock, passVars, placing, half, upsets>>

(* A call that fails after it made the directory removes it again.         *)
CallFailed(v) ==
    /\ call[v] = "failed"
    /\ RemoveDirectories({v}) /\ Done(v)
    /\ recorded' = [recorded EXCEPT ![v] = {}]
    /\ UNCHANGED <<remoteVars, unrecorded, kubeletVars, up, memoryVars, reportVars, lock,
                   passVars, placing, faults, upsets>>

(* The old mount comes off, the new bind goes on.                          *)
Bind(v) ==
    /\ call[v] = "bind"
    /\ v \in tree /\ mounts' = [mounts EXCEPT ![at[v]] = "tree"] /\ NoFault
    /\ IF v \in Claims
       THEN bound' = [bound EXCEPT ![v] = @ \cup {at[v]}] /\ Goto(v, "rewrite")
       ELSE UNCHANGED bound /\ Goto(v, "record")
    /\ UNCHANGED <<remoteVars, treeVars, recordVars, kubeletVars, up, held, followed,
                   reportVars, at, lock, passVars, placing, half, upsets>>

BindFails(v) ==
    /\ call[v] = "bind" /\ Fault
    /\ \E m \in { "none", mounts[at[v]] } : mounts' = [mounts EXCEPT ![at[v]] = m]
    /\ IF v \in Claims THEN Done(v) ELSE Goto(v, "failed") /\ UNCHANGED at
    /\ UNCHANGED <<remoteVars, treeVars, recordVars, kubeletVars, up, memoryVars,
                   reportVars, lock, passVars, placing, half, upsets>>

(* node.record at the end of a stage, a publish and an unpublish. A write  *)
(* that fails is logged.                                                   *)
Named(v) == IF v \in Claims THEN bound[v] ELSE {at[v]}

RecordTargets(v) ==
    \/ /\ record' = record \cup {v}
       /\ recorded' = [recorded EXCEPT ![v] = Named(v)]
       /\ unrecorded' = unrecorded \ (bound[v] \cap Named(v))
       /\ NoFault
    \/ /\ Fault /\ UNCHANGED <<record, recorded>>
       /\ unrecorded' = unrecorded \cup (Named(v) \ recorded[v])

Record(v) ==
    /\ call[v] = "record" /\ RecordTargets(v) /\ Goto(v, "hold")
    /\ UNCHANGED <<remoteVars, treeVars, mounts, kubeletVars, up, memoryVars,
                   reportVars, at, lock, passVars, placing, half, upsets>>

(* Mutant: the record of the stage is not written again by a publish.      *)
KeepRecord(v) ==
    /\ call[v] = "rewrite"
    /\ running' = running \cup {at[v]} /\ Done(v)
    /\ UNCHANGED <<remoteVars, treeVars, recordVars, mounts, asked, up, memoryVars,
                   reportVars, lock, passVars, placing, faults, half, upsets>>

Rewrite(v) ==
    /\ call[v] = "rewrite" /\ RecordTargets(v)
    /\ running' = running \cup {at[v]} /\ Done(v)
    /\ UNCHANGED <<remoteVars, treeVars, mounts, asked, up, memoryVars, reportVars,
                   lock, passVars, placing, half, upsets>>

Forget(v) ==
    /\ call[v] = "forget" /\ RecordTargets(v) /\ Done(v)
    /\ UNCHANGED <<remoteVars, treeVars, mounts, kubeletVars, up, memoryVars,
                   reportVars, lock, passVars, placing, half, upsets>>

(* The volume enters the node's maps and the fetch loop, and the call      *)
(* answers.                                                                *)
Hold(v) ==
    /\ call[v] = "hold"
    /\ Follow(v) /\ Done(v)
    /\ running' = running \cup { t \in TargetsOf(v) : v \in Inlines }
    /\ unrecorded' = unrecorded \ recorded[v]
    /\ UNCHANGED <<remoteVars, treeVars, record, recorded, mounts, asked, up, bound,
                   reportVars, lock, pass, placing, faults, half, upsets>>

(* The pod is gone before its unpublish comes. What the call finds under   *)
(* the node's lock decides whether it touches more than the mount.         *)
UnpublishClaim(t) ==
    LET v == Owner[t] IN
    /\ up /\ v \in Claims /\ t \in asked /\ call[v] = "none"
    /\ bound' = [bound EXCEPT ![v] = @ \ {t}]
    /\ Goto(v, IF bound[v] # {} THEN "unmount" ELSE "unmount_only")
    /\ running' = running \ {t} /\ at' = [at EXCEPT ![v] = t]
    /\ UNCHANGED <<remoteVars, treeVars, recordVars, mounts, asked, up, held,
                   followed, reportVars, lock, passVars, placing, faults, half, upsets>>

(* Mutant: an unpublish leaves the volume in the fetch loop.               *)
UnpublishFollowed(t) ==
    LET v == Owner[t] IN
    /\ up /\ v \in Inlines /\ t \in asked /\ call[v] = "none"
    /\ held' = held \ {v} /\ UNCHANGED <<followed, live>>
    /\ Goto(v, IF v \in held THEN "unmount" ELSE "unmount_only")
    /\ running' = running \ {t} /\ at' = [at EXCEPT ![v] = t]
    /\ UNCHANGED <<remoteVars, treeVars, recordVars, mounts, asked, up, bound,
                   reportVars, lock, pass, placing, faults, half, upsets>>

UnpublishInline(t) ==
    LET v == Owner[t] IN
    /\ up /\ v \in Inlines /\ t \in asked /\ call[v] = "none"
    /\ held' = held \ {v} /\ Unfollow(v)
    /\ Goto(v, IF v \in held THEN "unmount" ELSE "unmount_only")
    /\ running' = running \ {t} /\ at' = [at EXCEPT ![v] = t]
    /\ UNCHANGED <<remoteVars, treeVars, recordVars, mounts, asked, up, bound,
                   reportVars, lock, pass, placing, faults, half, upsets>>

Unmount(v) ==
    /\ call[v] \in { "unmount", "unmount_only" }
    /\ mounts' = [mounts EXCEPT ![at[v]] = "none"] /\ asked' = asked \ {at[v]}
    /\ unrecorded' = unrecorded \ {at[v]}
    /\ \/ call[v] = "unmount_only" /\ Done(v)
       \/ call[v] = "unmount" /\ UNCHANGED at
          /\ Goto(v, IF v \in Claims THEN "forget" ELSE "remove")
    /\ UNCHANGED <<remoteVars, treeVars, record, recorded, running, up, memoryVars,
                   reportVars, lock, passVars, placing, faults, half, upsets>>

UnmountFails(v) ==
    /\ call[v] \in { "unmount", "unmount_only" } /\ Fault
    /\ \E m \in { "none", mounts[at[v]] } : mounts' = [mounts EXCEPT ![at[v]] = m]
    /\ Done(v)
    /\ UNCHANGED <<remoteVars, treeVars, recordVars, kubeletVars, up, memoryVars,
                   reportVars, lock, passVars, placing, half, upsets>>

(* The kubelet unstages a claim after its last unpublish on the node.      *)
UnstageClaim(v) ==
    /\ up /\ v \in Claims \cap held /\ call[v] = "none"
    /\ asked \cap TargetsOf(v) = {}
    /\ held' = held \ {v} /\ Unfollow(v) /\ bound' = [bound EXCEPT ![v] = {}]
    /\ Goto(v, "remove")
    /\ UNCHANGED <<remoteVars, treeVars, recordVars, mounts, kubeletVars, up,
                   reportVars, at, lock, pass, placing, faults, half, upsets>>

RemoveVolume(v) ==
    /\ call[v] = "remove"
    /\ RemoveDirectories({v}) /\ Done(v)
    /\ recorded' = [recorded EXCEPT ![v] = {}]
    /\ UNCHANGED <<remoteVars, unrecorded, kubeletVars, up, memoryVars, reportVars, lock,
                   passVars, placing, faults, upsets>>

-----------------------------------------------------------------------------
(* A placement: a checkout beside the tree, then the tree's entries one by *)
(* one, then the file that names the commit                                *)

Placing(pc) == placing # Idle /\ placing.pc = pc

(* The placement goes on at pc with todo.                                  *)
Continue(pc, todo) == placing' = [placing EXCEPT !.pc = pc, !.todo = todo]

(* Entries go one by one, then those that arrive come.                     *)
Removing(todo) ==
    IF todo # {} THEN Continue("remove", todo)
    ELSE Continue("rename", { e \in Entries : Content[placing.commit][e] # Absent })

Differs(c, e, v) == (Content[c][e] \in Directories) # (files[v][e] \in Directories)

(* os.ReadDir lists the entries by name.                                   *)
First(entries) == CHOOSE e \in entries : \A f \in entries : e <= f

Write(v, e, blob) == files' = [files EXCEPT ![v][e] = blob]

(* The checkout of an earlier placement goes first. git makes the volume's *)
(* directory anew when an unstage removed it, and does nothing once the    *)
(* pass's context ended.                                                   *)
Checkout ==
    /\ Placing("checkout") /\ (lock = "pass" => live)
    /\ next' = next \cup {placing.of}
    /\ Continue("arrive", {}) /\ NoFault
    /\ UNCHANGED <<tree, files, placed>>

(* A tree that is not there arrives with one rename.                       *)
ArriveWhole ==
    LET v == placing.of IN
    /\ Placing("arrive") /\ v \in next \ tree
    /\ next' = next \ {v} /\ tree' = tree \cup {v}
    /\ files' = [files EXCEPT ![v] = Content[placing.commit]]
    /\ Continue("record", {}) /\ NoFault
    /\ UNCHANGED placed

(* Mutant: everything in the tree goes before the new entries come.        *)
ArriveOverNothing ==
    LET v == placing.of IN
    /\ Placing("arrive") /\ v \in next \cap tree
    /\ Removing({ e \in Entries : files[v][e] # Absent })
    /\ NoFault
    /\ UNCHANGED treeVars

(* In a tree that is there, the entries the checkout does not hold go.     *)
ArriveInside ==
    LET v == placing.of IN
    /\ Placing("arrive") /\ v \in next \cap tree
    /\ Removing({ e \in Entries :
           files[v][e] # Absent /\ Content[placing.commit][e] = Absent })
    /\ NoFault
    /\ UNCHANGED treeVars

RemoveEntry ==
    LET v == placing.of IN
    /\ Placing("remove") /\ v \in tree
    /\ LET e == First(placing.todo) IN
         Write(v, e, Absent) /\ Removing(placing.todo \ {e})
    /\ NoFault
    /\ UNCHANGED <<next, tree, placed>>

(* A directory over a file, or a file over a directory, goes before the    *)
(* rename. A directory over a directory is gone into; that is one step     *)
(* here.                                                                   *)
RemoveKind ==
    LET v == placing.of IN
    /\ Placing("rename") /\ v \in tree
    /\ placing.todo # {}
    /\ LET e == First(placing.todo) IN
         /\ files[v][e] # Absent /\ Differs(placing.commit, e, v)
         /\ Write(v, e, Absent)
    /\ NoFault
    /\ UNCHANGED <<next, tree, placed, placing>>

RenameEntry ==
    LET v == placing.of IN
    /\ Placing("rename") /\ v \in next \cap tree
    /\ placing.todo # {}
    /\ LET e == First(placing.todo) IN
         /\ files[v][e] = Absent \/ ~Differs(placing.commit, e, v)
         /\ Write(v, e, Content[placing.commit][e])
         /\ Continue("rename", placing.todo \ {e})
    /\ NoFault
    /\ UNCHANGED <<next, tree, placed>>

RenamedAll ==
    /\ Placing("rename") /\ placing.todo = {}
    /\ Continue("record", {}) /\ next' = next \ {placing.of}
    /\ NoFault
    /\ UNCHANGED <<tree, files, placed>>

PlaceStep ==
    /\ \/ Checkout \/ ArriveWhole \/ ArriveInside \/ RemoveEntry
       \/ RemoveKind \/ RenameEntry \/ RenamedAll
    /\ UNCHANGED <<remoteVars, recordVars, mounts, kubeletVars, up, memoryVars,
                   reportVars, callVars, lock, passVars, half, upsets>>

(* recordPlaced, and what the stage or the pass makes of the placement.    *)
Placed ==
    LET v == placing.of IN
    /\ Placing("record") /\ v \in tree
    /\ placed' = [placed EXCEPT ![v] = placing.commit]
    /\ Report(v, placing.commit, placing.stale)
    /\ half' = [half EXCEPT ![v] = "no"]
    /\ placing' = Idle
    /\ \/ /\ lock = v /\ lock' = "free"
          /\ Goto(v, IF v \in Claims THEN "record" ELSE "bind")
       \/ lock = "pass" /\ UNCHANGED <<lock, call>>
    /\ UNCHANGED <<remoteVars, next, tree, files, recordVars, mounts, kubeletVars,
                   up, memoryVars, at, passVars, faults, upsets>>

(* Any step of it may fail; a step in a directory that was removed, and    *)
(* git once the context ended, always do.                                  *)
Fails ==
    \/ Fault
    \/ /\ NoFault
       /\ \/ placing.pc = "checkout" /\ lock = "pass" /\ ~live
          \/ placing.pc = "arrive" /\ placing.of \notin next
          \/ placing.pc \in { "remove", "rename" } /\ placing.todo # {}
             /\ placing.of \notin next \cap tree
          \/ placing.pc = "record" /\ placing.of \notin tree

(* What a placement that ends here leaves of the tree.                     *)
LeftHalf ==
    IF placing # Idle /\ placing.pc \in { "remove", "rename", "record" }
    THEN [half EXCEPT ![placing.of] =
            IF @ = "moved" \/ remote # placing.commit THEN "moved" ELSE "half"]
    ELSE half

PlaceFails ==
    LET v == placing.of IN
    /\ placing # Idle /\ Fails
    /\ placing' = Idle
    /\ half' = LeftHalf
    /\ \/ lock = v /\ lock' = "free" /\ Goto(v, "failed") /\ UNCHANGED trouble
       \/ lock = "pass" /\ trouble' = trouble \cup {v} /\ UNCHANGED <<lock, call>>
    /\ UNCHANGED <<remoteVars, treeVars, recordVars, mounts, kubeletVars, up,
                   memoryVars, standing, fresh, at, passVars, upsets>>

-----------------------------------------------------------------------------
(* A pass of the fetch loop                                                *)

(* tick takes the repository's lock and a snapshot of the loop's volumes.  *)
PassBegins ==
    /\ up /\ lock = "free" /\ followed # {}
    /\ lock' = "pass" /\ pass' = followed /\ live' = TRUE
    /\ UNCHANGED <<remoteVars, treeVars, recordVars, mounts, kubeletVars, up,
                   memoryVars, reportVars, callVars, placing, faults, half, upsets>>

(* Mutant: the commit is reported before it is placed.                     *)
PassReportsFirst(v) ==
    /\ lock = "pass" /\ placing = Idle /\ v \in pass /\ live
    /\ pass' = pass \ {v} /\ copy' = remote
    /\ Report(v, remote, FALSE)
    /\ placing' = IF standing[v] = remote THEN placing ELSE Placement(v, remote, FALSE)
    /\ UNCHANGED <<remote, treeVars, recordVars, mounts, kubeletVars, up, memoryVars,
                   callVars, lock, live, faults, half, upsets>>

(* refresh: a fetch that brings what stands reports it, without a look at  *)
(* the tree.                                                               *)
PassFetches(v) ==
    /\ lock = "pass" /\ placing = Idle /\ v \in pass /\ live
    /\ pass' = pass \ {v} /\ copy' = remote
    /\ IF standing[v] = remote
       THEN Report(v, remote, FALSE) /\ UNCHANGED placing
       ELSE placing' = Placement(v, remote, FALSE) /\ UNCHANGED reportVars
    /\ UNCHANGED <<remote, treeVars, recordVars, mounts, kubeletVars, up, memoryVars,
                   callVars, lock, live, faults, half, upsets>>

PassFetchFails(v) ==
    /\ lock = "pass" /\ placing = Idle /\ v \in pass
    /\ IF live THEN Fault ELSE NoFault
    /\ pass' = pass \ {v} /\ trouble' = trouble \cup {v}
    /\ UNCHANGED <<remoteVars, treeVars, recordVars, mounts, kubeletVars, up,
                   memoryVars, standing, fresh, callVars, lock, live, placing,
                   half, upsets>>

PassEnds ==
    /\ lock = "pass" /\ placing = Idle /\ pass = {}
    /\ lock' = "free" /\ live' = FALSE
    /\ UNCHANGED <<remoteVars, treeVars, recordVars, mounts, kubeletVars, up,
                   memoryVars, reportVars, callVars, pass, placing, faults, half, upsets>>

-----------------------------------------------------------------------------
(* The remote, kills and restarts                                          *)

(* A push, or a person who forces the ref back to an older commit.         *)
RemoteMoves ==
    /\ \E c \in Commits :
         /\ c # remote /\ remote' = c
         /\ \/ c > remote /\ UNCHANGED upsets
            \/ c < remote /\ Upset
    /\ half' = [v \in Volumes |-> IF half[v] = "no" THEN "no" ELSE "moved"]
    /\ UNCHANGED <<copy, treeVars, recordVars, mounts, kubeletVars, up, memoryVars,
                   reportVars, callVars, lock, passVars, placing, faults>>

Stop ==
    /\ Upset
    /\ up /\ up' = FALSE
    /\ held' = {} /\ followed' = {} /\ bound' = Nowhere
    /\ standing' = NoCommits /\ trouble' = {} /\ fresh' = {}
    /\ call' = [v \in Volumes |-> "none"] /\ at' = [v \in Volumes |-> NoTarget]
    /\ lock' = "free" /\ pass' = {} /\ live' = FALSE /\ placing' = Idle
    /\ half' = LeftHalf
    /\ UNCHANGED <<remoteVars, treeVars, record, recorded, faults>>

(* The kernel keeps the mounts, and the pods read on.                      *)
Crash == Stop /\ UNCHANGED <<mounts, kubeletVars, unrecorded>>

(* The node takes its mounts and pods with it.                             *)
Reboot ==
    /\ Stop
    /\ mounts' = [t \in Targets |-> "none"] /\ asked' = {} /\ running' = {}
    /\ unrecorded' = {}

(* The targets a record names that the kernel still holds.                 *)
MountedTargets(v) == { t \in recorded[v] : mounts[t] # "none" }

Resumed == { v \in record : MountedTargets(v) # {} }

(* resume: a record with a mounted target makes a volume that is held and  *)
(* followed, and is written again without the targets given up meanwhile;  *)
(* the directory of a record with none goes. A directory with no record    *)
(* stays as it is.                                                         *)
Resume ==
    /\ ~up /\ up' = TRUE
    /\ RemoveDirectories(record \ Resumed)
    /\ UNCHANGED <<remoteVars, kubeletVars, trouble, fresh, callVars, lock, passVars,
                   placing, unrecorded, upsets>>
    /\ \/ /\ recorded' = [v \in Volumes |->
                            IF v \in Resumed THEN MountedTargets(v) ELSE {}]
          /\ NoFault
       \/ /\ Fault
          /\ recorded' = [v \in Volumes |-> IF v \in Resumed THEN recorded[v] ELSE {}]
    /\ held' = Resumed /\ followed' = Resumed
    /\ bound' = [v \in Volumes |->
                   IF v \in Resumed \cap Claims THEN MountedTargets(v) ELSE {}]
    /\ standing' = [v \in Volumes |-> IF v \in Resumed THEN placed[v] ELSE 0]

-----------------------------------------------------------------------------
CallStep(v) ==
    \/ StageClaim(v) \/ StageFetch(v) \/ StageStale(v)
    \/ StageRefused(v) \/ CallFailed(v) \/ Bind(v) \/ BindFails(v)
    \/ Record(v) \/ Rewrite(v) \/ Forget(v) \/ Hold(v)
    \/ Unmount(v) \/ UnmountFails(v) \/ UnstageClaim(v) \/ RemoveVolume(v)

KubeletCalls(t) ==
    \/ PublishAgain(t) \/ PublishInline(t) \/ PublishClaim(t)
    \/ UnpublishClaim(t) \/ UnpublishInline(t)

PassStep ==
    \/ PassBegins \/ PassEnds
    \/ \E v \in Volumes : PassFetches(v) \/ PassFetchFails(v)

Next ==
    \/ \E v \in Volumes : CallStep(v)
    \/ \E t \in Targets : KubeletCalls(t)
    \/ PlaceStep \/ Placed \/ PlaceFails
    \/ PassStep
    \/ RemoteMoves \/ Crash \/ Reboot \/ Resume

Spec == Init /\ [][Next]_vars

-----------------------------------------------------------------------------
(* Correctness                                                             *)

(* A pod that reads a volume finds in every entry what was there, or what  *)
(* the commit that arrives holds, and finds nothing gone that the commit   *)
(* still has as the same kind: not while a pass replaces the tree, not     *)
(* when a call fails, an unstage or a restart removes a directory (store.go *)
(* replaceTree, readonly.go, records.go drop).                             *)
Reads(t) == IF mounts[t] = "tree" THEN files[Owner[t]] ELSE Empty

MayRead(t, e) ==
    \/ Reads(t)'[e] = Reads(t)[e]
    \/ /\ placing # Idle /\ placing.of = Owner[t]
       /\ \/ Reads(t)'[e] = Content[placing.commit][e]
          \/ Reads(t)'[e] = Absent /\ Differs(placing.commit, e, Owner[t])

ReadersKeepFiles ==
    [][\A t \in (running \ unrecorded) \cap running' :
            \A e \in Entries : MayRead(t, e)]_<<files, mounts>>

(* A volume that reports a commit and no trouble holds exactly that commit *)
(* (follow.go refresh: "It reports whether the tree now holds what the     *)
(* remote holds"), also after a placement that failed half way or that a   *)
(* kill ended; not after one whose commit the ref has left since, because  *)
(* a ref that is back at the commit that stands is taken for placed.       *)
TreeIsReported ==
    \A v \in (held \cap fresh) \ trouble :
        \/ placing # Idle /\ placing.of = v
        \/ half[v] = "moved"
        \/ files[v] = Content[standing[v]]

(* While the driver runs, the volume of a pod that reads is one it holds   *)
(* and follows, at that target, and what the pod has bound is the tree     *)
(* that follows the ref and never a directory that was removed: across     *)
(* failed calls, kills between any two steps, and restarts. A target whose *)
(* record was not written is exempt: a restart does not know its pod.      *)
RunningIsFollowed ==
    \A t \in running \ unrecorded :
        /\ mounts[t] = "tree" /\ Owner[t] \in tree
        /\ up => /\ Owner[t] \in held \cap followed
                 /\ Owner[t] \in Claims => t \in bound[Owner[t]]

=============================================================================
