--------------------------- MODULE DurableVolume ---------------------------
(***************************************************************************)
(* What the writeable volumes promise, without histories, branches, calls, *)
(* retries or memory: work moves from the pod's files into the tree's      *)
(* commits and from there to the remote, and no step of the driver drops   *)
(* it on the way. WriteableVolume implements this.                         *)
(*                                                                         *)
(* The remote counts as holding what it held when a person deleted the     *)
(* ref. A tree is a set of changes: what it was rebased onto is in it too. *)
(***************************************************************************)
EXTENDS Naturals

CONSTANTS
    Volumes,    \* the writeable volumes
    Writes,     \* the changes pods can write
    Foreign     \* the changes others can push

VARIABLES
    written,    \* written[v]: what the pod wrote and no commit holds
    kept,       \* kept[v]: what the commits of the tree hold
    counted,    \* counted[v]: what the driver takes to be on the remote
    remote      \* what the remote holds

vars == <<written, kept, counted, remote>>

Init ==
    /\ written = [v \in Volumes |-> {}]
    /\ kept = [v \in Volumes |-> {}]
    /\ counted = [v \in Volumes |-> {}]
    /\ remote = {}

\* The pod writes, and the driver commits some of what it wrote.
Write(v, change) ==
    /\ written' = [written EXCEPT ![v] = @ \cup {change}]
    /\ UNCHANGED <<kept, counted, remote>>

Keep(v) ==
    /\ \E work \in SUBSET written[v] :
           /\ written' = [written EXCEPT ![v] = @ \ work]
           /\ kept' = [kept EXCEPT ![v] = @ \cup work]
    /\ UNCHANGED <<counted, remote>>

\* The tree takes in what the remote holds, and keeps all its commits. Only
\* a tree that is all on the remote may be reset, which drops writes.
Take(v) ==
    /\ kept[v] \subseteq kept'[v] /\ kept'[v] \subseteq kept[v] \cup remote
    /\ written'[v] \subseteq written[v]
    /\ written'[v] = written[v] \/ kept'[v] \subseteq remote
    /\ kept' = [kept EXCEPT ![v] = kept'[v]]
    /\ written' = [written EXCEPT ![v] = written'[v]]
    /\ UNCHANGED <<counted, remote>>

\* The tree lands on the remote, whether or not the driver hears of it,
Land(v) ==
    /\ remote' = remote \cup kept[v]
    /\ UNCHANGED <<written, kept, counted>>

\* and only what is there is ever counted, of what the tree holds.
Count(v) ==
    /\ counted'[v] \subseteq kept[v] \cap remote
    /\ counted' = [counted EXCEPT ![v] = counted'[v]]
    /\ UNCHANGED <<written, kept, remote>>

\* A branch the volume no longer needs is removed: what goes with it is in
\* the tree still, and nobody counts on it.
Withdraw(v) ==
    /\ remote' \subseteq remote
    /\ remote \ remote' \subseteq kept[v]
    /\ \A w \in Volumes : counted[w] \subseteq remote'
    /\ UNCHANGED <<written, kept, counted>>

\* The tree itself goes only when all of it is counted.
Remove(v) ==
    /\ counted[v] = kept[v]
    /\ written' = [written EXCEPT ![v] = {}]
    /\ kept' = [kept EXCEPT ![v] = {}]
    /\ counted' = [counted EXCEPT ![v] = {}]
    /\ UNCHANGED remote

\* Nothing else reaches the remote but what others push.
OtherPush(change) ==
    /\ remote' = remote \cup {change}
    /\ UNCHANGED <<written, kept, counted>>

Next ==
    \/ \E v \in Volumes :
           \/ \E change \in Writes : Write(v, change)
           \/ Keep(v) \/ Take(v) \/ Land(v) \/ Count(v)
           \/ Withdraw(v) \/ Remove(v)
    \/ \E change \in Foreign : OtherPush(change)

Spec == Init /\ [][Next]_vars

=============================================================================
