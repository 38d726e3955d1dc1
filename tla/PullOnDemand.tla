---------------------------- MODULE PullOnDemand ----------------------------
(***************************************************************************)
(* What a volume that follows a ref promises its reader: the files of a    *)
(* mounted volume only ever go forward, to a commit the ref has, and after *)
(* a demand they come to hold what the ref held then. DemandedPull         *)
(* implements this with annotations, a watch, a loop, timers, passes and   *)
(* credentials.                                                            *)
(***************************************************************************)
EXTENDS Naturals

CONSTANTS
    Volumes,    \* the claims that follow the ref
    Commits     \* the places of the ref's commits in its history

VARIABLES
    remote,     \* the ref's commit
    mounted,    \* the volumes a pod mounts
    tree,       \* tree[v]: the commit the volume holds, 0 for none
    asked       \* asked[v]: the ref's commit at the last demand

vars == <<remote, mounted, tree, asked>>

Init ==
    /\ remote \in Commits
    /\ mounted = {}
    /\ tree = [v \in Volumes |-> 0]
    /\ asked = [v \in Volumes |-> 0]

Push ==
    /\ remote' \in Commits /\ remote' > remote
    /\ UNCHANGED <<mounted, tree, asked>>

Demand(v) ==
    /\ asked' = [asked EXCEPT ![v] = remote]
    /\ UNCHANGED <<remote, mounted, tree>>

\* A volume is mounted with a tree in place,
Mount(v) ==
    /\ tree[v] # 0
    /\ mounted' = mounted \cup {v}
    /\ UNCHANGED <<remote, tree, asked>>

Unmount(v) ==
    /\ mounted' = mounted \ {v}
    /\ UNCHANGED <<remote, tree, asked>>

\* and pulled forward under its pod.
Pull(v) ==
    /\ tree'[v] \in tree[v]..remote
    /\ tree' = [tree EXCEPT ![v] = tree'[v]]
    /\ UNCHANGED <<remote, mounted, asked>>

\* Trees no pod mounts may be placed from an older copy, or be removed.
Place ==
    /\ \A v \in mounted : tree'[v] = tree[v]
    /\ \A v \in Volumes : tree'[v] \in 0..remote
    /\ tree' = [v \in Volumes |-> tree'[v]]
    /\ UNCHANGED <<remote, mounted, asked>>

Next ==
    \/ Push \/ Place
    \/ \E v \in Volumes : Demand(v) \/ Mount(v) \/ Unmount(v) \/ Pull(v)

Behind(v) == v \in mounted /\ tree[v] < asked[v]

Spec ==
    /\ Init /\ [][Next]_vars
    /\ \A v \in Volumes : Behind(v) ~> ~Behind(v)

=============================================================================
