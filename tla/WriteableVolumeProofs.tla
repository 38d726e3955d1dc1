----------------------- MODULE WriteableVolumeProofs -----------------------
(***************************************************************************)
(* Proofs about WriteableVolume, for any number of volumes, writes, foreign *)
(* changes, records, network failures and kills.                           *)
(*                                                                         *)
(* ControlInv says which calls a volume can be in beside its pod and its   *)
(* tree; with TypeOK it is inductive, and NoCommitLost and KeepsWrites     *)
(* follow step by step from the two. PushedIsOnRemote is not inductive: it *)
(* needs to know what the values a call carries from one git command to    *)
(* the next (upstream, sent) still mean when the remote has moved on,      *)
(* which is PushedInv, and that the remote itself only grows, RemoteGrows. *)
(***************************************************************************)
EXTENDS WriteableVolume, TLAPS

-----------------------------------------------------------------------------
(* Histories *)

\* A longer history carries at least the same content.
LEMMA ChangesOfSubset ==
    ASSUME NEW A, NEW B, A \subseteq B
    PROVE  ChangesOf(A) \subseteq ChangesOf(B)
  BY DEF ChangesOf

\* The content of a history is a set of changes.
LEMMA ChangesOfType ==
    ASSUME NEW A \in Histories
    PROVE  ChangesOf(A) \in SUBSET Changes
  BY DEF ChangesOf, Histories, Objects

\* The content of a union is the union of the contents.
LEMMA ChangesOfUnion ==
    ASSUME NEW A, NEW B
    PROVE  ChangesOf(A \cup B) = ChangesOf(A) \cup ChangesOf(B)
  BY DEF ChangesOf

\* A commit keeps the history below it and adds exactly its own work.
LEMMA CommittedType ==
    ASSUME NEW history \in Histories, NEW work \in SUBSET Changes
    PROVE  /\ Committed(history, work) \in Histories
           /\ history \subseteq Committed(history, work)
           /\ ChangesOf(Committed(history, work)) = ChangesOf(history) \cup work
<1> DEFINE new == { <<change, 1>> : change \in work }
<1>1. new \in Histories
  BY DEF Histories, Objects
<1>2. ChangesOf(new) = work
  <2>1. \A object \in new : object[1] \in work
    OBVIOUS
  <2>2. \A change \in work : \E object \in new : object[1] = change
    <3> TAKE change \in work
    <3>1. <<change, 1>> \in new /\ <<change, 1>>[1] = change
      OBVIOUS
    <3> QED
      BY <3>1
  <2> HIDE DEF new
  <2> QED
    BY <2>1, <2>2 DEF ChangesOf
<1>3. Committed(history, work) = history \cup new
  BY DEF Committed
<1> HIDE DEF new
<1> QED
  BY <1>1, <1>2, <1>3, ChangesOfUnion DEF Histories

\* A rebase makes a history.
LEMMA ReplayType ==
    ASSUME NEW h \in Histories, NEW u \in Histories
    PROVE  Replay(h, u) \in Histories
  BY DEF Replay, Histories, Objects

\* A rebase loses no content of either side, although it drops commits
\* that upstream carries as copies (workTree.rebaseAside, replay).
LEMMA ReplayKeeps ==
    ASSUME NEW h \in Histories, NEW u \in Histories
    PROVE  /\ ChangesOf(h) \subseteq ChangesOf(Replay(h, u))
           /\ u \subseteq Replay(h, u)
<1> DEFINE mine == { one \in h \ u : one[1] \notin ChangesOf(u) }
           copies == { <<object[1], object[2] + 1>> : object \in mine }
<1>1. CASE Ancestor(u, h)
  BY <1>1 DEF Replay, Ancestor
<1>2. CASE ~Ancestor(u, h)
  <2>1. Replay(h, u) = u \cup copies
    BY <1>2 DEF Replay
  <2>2. SUFFICES ASSUME NEW change \in ChangesOf(h)
                 PROVE  change \in ChangesOf(u \cup copies)
    BY <2>1
  <2>3. PICK object \in h : change = object[1]
    BY DEF ChangesOf
  <2>4. CASE change \in ChangesOf(u)
    BY <2>4, ChangesOfSubset
  <2>5. CASE change \notin ChangesOf(u)
    <3>1. object \in mine
      BY <2>3, <2>5 DEF ChangesOf
    <3>2. <<object[1], object[2] + 1>> \in copies
      BY <3>1
    <3>3. <<object[1], object[2] + 1>>[1] = change
      BY <2>3
    <3> QED
      BY <3>2, <3>3 DEF ChangesOf
  <2> QED
    BY <2>4, <2>5
<1> QED
  BY <1>1, <1>2

-----------------------------------------------------------------------------
(* The inductive invariants *)

\* A call of stage that has fetched upstream; a push that has read its head.
Staging == { "create", "checkout", "markCreated", "reconcile", "stageMark",
             "stageRemove", "stageHealed" }

Pushing == { "healFetch", "healRebase", "healRemove", "healed", "send",
             "retryFetch", "retryRebase", "resend", "diverge" }

\* A push that used its attempts up is a diverged one from there on, so it
\* never enters the retry loop again.
AttemptsLeft ==
    \A v \in Volumes :
        tries[v] = rebaseAttempts =>
            \/ pc[v] = "diverge"
            \/ pc[v] \in { "send", "marking" } /\ diverged[v]

\* A pod mounts no tree that a stage or an unstage works on.
CallInv ==
    \A v \in Volumes :
        /\ pod[v] => pc[v] \notin Staging \cup { "out", "leave" } /\ ~leaving[v]
        /\ leaving[v] => pc[v] \in Pushing \cup { "push", "marking", "leave" }
        /\ pc[v] = "leave" => leaving[v]

\* Only create works on an unfinished tree, and nothing was committed in it.
TreeInv ==
    \A v \in Volumes :
        /\ pc[v] \notin { "out", "down", "create", "checkout" } \/ pod[v]
           => tree[v] \in { "unmarked", "made" }
        /\ pc[v] = "create" => tree[v] = "none"
        /\ pc[v] = "checkout" => tree[v] = "init"
        /\ tree[v] \in { "none", "init" } => committed[v] = {}

SideInv == \A v \in Volumes : v \notin sides => side[v] = {}

DeletedInv == ~refHere => RefDeletes

ControlInv == AttemptsLeft /\ CallInv /\ TreeInv /\ SideInv /\ DeletedInv

\* What the ref holds, and what a person took from it.
RefHolds == (IF refHere THEN ChangesOf(ref) ELSE {}) \cup gone

\* What a push sent is in the tree and, once the remote took it, there.
SentInv ==
    \A v \in Volumes :
        /\ pc[v] = "marking" => ChangesOf(sent[v]) \subseteq RemoteHolds(v)
        /\ pc[v] \in Pushing => ChangesOf(sent[v]) \subseteq ChangesOf(head[v])

\* What a stage fetched is still on the ref, and the mark of a volume that
\* is about to lose its side branch does not need the branch.
UpstreamInv ==
    \A v \in Volumes :
        /\ pc[v] \in Staging => ChangesOf(upstream[v]) \subseteq RefHolds
        /\ pc[v] \in { "healRebase", "healRemove", "stageRemove" }
           => ChangesOf(mark[v]) \subseteq RefHolds

\* A tree without a mark is one that a kill left between the checkout and
\* the first mark, and no pod has written to it since.
UnmarkedInv ==
    \A v \in Volumes :
        tree[v] = "unmarked" =>
            /\ ~pod[v]
            /\ ChangesOf(head[v]) \subseteq RefHolds
            /\ pc[v] \in { "markCreated", "out", "down" }
            /\ pc[v] # "markCreated" => crashes > 0

PushedInv == UpstreamInv /\ SentInv /\ UnmarkedInv /\ PushedIsOnRemote

\* The ref only grows, and a volume's side branch with it, but for the
\* moment the driver removes it.
Grows ==
    /\ RefHolds \subseteq RefHolds'
    /\ \A v \in Volumes : pc[v] \notin { "healRemove", "stageRemove" }
                            => RemoteHolds(v) \subseteq RemoteHolds(v)'

-----------------------------------------------------------------------------
(* What the helpers leave behind *)

\* The end of a call leaves well-typed locals.
LEMMA DropLocalsType ==
    ASSUME LocalType, NEW v \in Volumes, DropLocals(v)
    PROVE  LocalType'
  BY DEF DropLocals, LocalType, Histories, rebaseAttempts

\* restore leaves a well-typed metadata record.
LEMMA RestoreType ==
    ASSUME RemoteType, RecordType, NEW v \in Volumes, restore(v)
    PROVE  RecordType'
<1>1. CASE base' = [base EXCEPT ![v] = record] /\ own' = [own EXCEPT ![v] = FALSE]
           /\ UNCHANGED fetched
  BY <1>1 DEF RemoteType, RecordType
<1>2. CASE UNCHANGED <<base, own, fetched>>
  BY <1>2 DEF RecordType
<1> QED
  BY <1>1, <1>2 DEF restore

\* reparentMetadata leaves a well-typed metadata record.
LEMMA ReparentType ==
    ASSUME RecordType, NEW v \in Volumes, reparentMetadata(v), UNCHANGED fetched
    PROVE  RecordType'
<1>1. CASE base' = [base EXCEPT ![v] = fetched[v]] /\ own' = [own EXCEPT ![v] = TRUE]
  BY <1>1 DEF RecordType
<1>2. CASE UNCHANGED <<base, own>>
  BY <1>2 DEF RecordType
<1> QED
  BY <1>1, <1>2 DEF reparentMetadata

\* A push the remote receives, in part, in whole or not at all, leaves the
\* remote and the record well typed.
LEMMA ReceiveType ==
    ASSUME RemoteType, RecordType, DiskType, StoryType, NEW v \in Volumes,
           \/ receive(v)
           \/ UNCHANGED <<ref, refHere, side, sides, told, record, base, own>>,
           UNCHANGED <<fetched, committed, swept, gone>>
    PROVE  RemoteType' /\ RecordType' /\ StoryType'
<1>1. ref' \in Histories /\ refHere' \in BOOLEAN /\ side' \in [Volumes -> Histories]
      /\ sides' \subseteq Volumes /\ told' \in [Volumes -> BOOLEAN]
  <2>1. CASE receiveBranch(v) /\ diverged[v]
    BY <2>1 DEF receiveBranch, RemoteType, StoryType, DiskType
  <2>2. CASE receiveBranch(v) /\ ~diverged[v] /\ BranchTaken(v)
    <3>1. ref' = head[v] /\ refHere' = TRUE /\ side' = side /\ sides' = sides
      BY <2>2 DEF receiveBranch
    <3>2. told' = [w \in Volumes |-> FALSE]
      BY <2>2 DEF receiveBranch
    <3> QED
      BY <3>1, <3>2 DEF RemoteType, DiskType
  <2>3. CASE UNCHANGED <<ref, refHere, side, sides, told>>
    BY <2>3 DEF RemoteType, StoryType
  <2> QED
    BY <2>1, <2>2, <2>3 DEF receive, receiveBranch
<1>2. record' \in Nat /\ base' \in [Volumes -> Nat] /\ own' \in [Volumes -> BOOLEAN]
  <2>1. CASE /\ record' = record + 1
             /\ base' = [base EXCEPT ![v] = record + 1]
             /\ own' = [own EXCEPT ![v] = FALSE]
    BY <2>1 DEF RemoteType, RecordType
  <2>2. CASE UNCHANGED <<record, base, own>>
    BY <2>2 DEF RemoteType, RecordType
  <2> QED
    BY <2>1, <2>2 DEF receive, receiveRecord
<1> QED
  BY <1>1, <1>2 DEF RemoteType, RecordType, StoryType

\* rebaseAside leaves a history, whether it works or not.
LEMMA RebaseType ==
    ASSUME DiskType, LocalType, NEW v \in Volumes,
           rebaseAside(v) \/ rebaseAborted(v)
    PROVE  head' \in [Volumes -> Histories]
<1>1. CASE rebaseAside(v)
  <2>1. Replay(head[v], upstream[v]) \in Histories
    BY ReplayType DEF DiskType, LocalType
  <2> QED
    BY <1>1, <2>1 DEF rebaseAside, DiskType
<1>2. CASE rebaseAborted(v)
  BY <1>2 DEF rebaseAborted, DiskType
<1> QED
  BY <1>1, <1>2

\* node.commit leaves a well-typed tree.
LEMMA CommitType ==
    ASSUME DiskType, RecordType, StoryType, NEW v \in Volumes,
           \E work \in SUBSET pending[v] : commit(v, work)
    PROVE  /\ own' \in [Volumes -> BOOLEAN]
           /\ head' \in [Volumes -> Histories]
           /\ pending' \in [Volumes -> SUBSET Writes]
           /\ committed' \in [Volumes -> SUBSET Changes]
<1>1. PICK work \in SUBSET pending[v] : commit(v, work)
  OBVIOUS
<1>2. work \in SUBSET Writes /\ work \in SUBSET Changes
  BY ConstantsAssumption DEF DiskType
<1>3. Committed(head[v], work) \in Histories
  BY <1>2, CommittedType DEF DiskType
<1>4. own' \in [Volumes -> BOOLEAN]
  BY <1>1 DEF commit, RecordType
<1>5. head' \in [Volumes -> Histories]
  BY <1>1, <1>3 DEF commit, DiskType
<1>6. pending' \in [Volumes -> SUBSET Writes]
  BY <1>1 DEF commit, DiskType
<1>7. committed' \in [Volumes -> SUBSET Changes]
  BY <1>1, <1>2 DEF commit, StoryType
<1> QED
  BY <1>4, <1>5, <1>6, <1>7

\* Another writer's push leaves the remote well typed.
LEMMA OtherPushType ==
    ASSUME RemoteType, NEW change \in Foreign, OtherPush(change)
    PROVE  RemoteType'
<1>1. ref \in Histories /\ {change} \in SUBSET Changes
  BY ConstantsAssumption DEF RemoteType
<1>2. Committed(ref, {change}) \in Histories
  BY <1>1, CommittedType
<1> QED
  BY <1>2 DEF OtherPush, RemoteType

\* rebaseAside loses no content of the tree it rebases and touches no
\* other tree, whether it works or not.
LEMMA RebaseKeeps ==
    ASSUME TypeOK, NEW v \in Volumes, rebaseAside(v) \/ rebaseAborted(v),
           NEW w \in Volumes
    PROVE  /\ ChangesOf(head[w]) \subseteq ChangesOf(head[w])'
           /\ w # v => head'[w] = head[w]
<1>1. CASE rebaseAside(v)
  <2>1. ChangesOf(head[v]) \subseteq ChangesOf(Replay(head[v], upstream[v]))
    BY ReplayKeeps DEF TypeOK, DiskType, LocalType
  <2> QED
    BY <1>1, <2>1 DEF rebaseAside, TypeOK, DiskType
<1>2. CASE rebaseAborted(v)
  BY <1>2 DEF rebaseAborted
<1> QED
  BY <1>1, <1>2

-----------------------------------------------------------------------------
(* Type correctness *)

\* The initial state is well typed.
LEMMA TypeInit == Init => TypeOK
  BY ConstantsAssumption
     DEF Init, TypeOK, RemoteType, RecordType, DiskType, MemoryType, LocalType,
           StoryType, BoundType, Phases, rebaseAttempts, Histories

\* Every step keeps the types; the attempts are what bounds tries.

LEMMA TypeStep ==
    ASSUME TypeOK,
           AttemptsLeft,
           [Next]_vars
    PROVE  TypeOK'
<1> USE DEF TypeOK, Goto, At, remoteVars, recordVars, diskVars, memoryVars, localVars,
           storyVars, boundVars
<1>1. ASSUME NEW v \in Volumes, StageTree(v) PROVE TypeOK'
  <2>1. DiskType'
    BY <1>1 DEF StageTree, Fault, RemoteType, DiskType, Histories
  <2>2. MemoryType'
    BY <1>1 DEF StageTree, Fault, RemoteType, DiskType, MemoryType, Phases
  <2>3. LocalType'
    BY <1>1
       DEF StageTree, Fault, RemoteType, DiskType, LocalType, Histories,
           rebaseAttempts
  <2>4. RemoteType' /\ RecordType' /\ StoryType' /\ BoundType'
    BY <1>1, ConstantsAssumption
       DEF StageTree, Fault, RemoteType, RecordType, DiskType, StoryType,
           BoundType, Histories
  <2> QED
    BY <2>1, <2>2, <2>3, <2>4
<1>2. ASSUME NEW v \in Volumes, MarkCreated(v) PROVE TypeOK'
  <2>1. RecordType'
    BY <1>2, RestoreType DEF MarkCreated
  <2>2. LocalType'
    BY <1>2, DropLocalsType DEF MarkCreated, LocalType
  <2>3. DiskType' /\ MemoryType'
    BY <1>2
       DEF MarkCreated, restore, Fault, DropLocals, DiskType, MemoryType,
           LocalType, Phases, Histories
  <2>4. RemoteType' /\ StoryType' /\ BoundType'
    BY <1>2, ConstantsAssumption
       DEF MarkCreated, restore, Fault, DropLocals, RemoteType, LocalType,
           StoryType, BoundType, Histories
  <2> QED
    BY <2>1, <2>2, <2>3, <2>4
<1>3. ASSUME NEW v \in Volumes, RebaseTree(v) PROVE TypeOK'
  <2>1. DiskType'
    BY <1>3, RebaseType DEF RebaseTree, markDiverged, DiskType
  <2>2. LocalType'
    BY <1>3, DropLocalsType DEF RebaseTree, LocalType
  <2>3. MemoryType'
    BY <1>3
       DEF RebaseTree, MayRewrite, rebaseAside, rebaseAborted, markDiverged,
           DropLocals, MemoryType, Phases
  <2>4. RemoteType' /\ RecordType' /\ StoryType' /\ BoundType'
    BY <1>3, ConstantsAssumption
       DEF RebaseTree, MayRewrite, rebaseAside, rebaseAborted, markDiverged,
           DropLocals, RemoteType, RecordType, StoryType, BoundType, Histories
  <2> QED
    BY <2>1, <2>2, <2>3, <2>4
<1>4. ASSUME NEW v \in Volumes, StageMark(v) PROVE TypeOK'
  <2>1. RecordType'
    BY <1>4, RestoreType DEF StageMark
  <2>2. LocalType'
    BY <1>4, DropLocalsType DEF StageMark, LocalType
  <2>3. DiskType' /\ MemoryType'
    BY <1>4
       DEF StageMark, MarkUpstream, restore, Fault, DropLocals, DiskType,
           MemoryType, LocalType, Phases, Histories
  <2>4. RemoteType' /\ StoryType' /\ BoundType'
    BY <1>4, ConstantsAssumption
       DEF StageMark, MarkUpstream, restore, Fault, DropLocals, RemoteType,
           LocalType, StoryType, BoundType, Histories
  <2> QED
    BY <2>1, <2>2, <2>3, <2>4
<1>5. ASSUME NEW v \in Volumes, StageHealed(v) PROVE TypeOK'
  <2>1. LocalType'
    BY <1>5, DropLocalsType DEF StageHealed, LocalType
  <2>2. DiskType' /\ MemoryType'
    BY <1>5 DEF StageHealed, DropLocals, DiskType, MemoryType, Phases, Histories
  <2>3. RemoteType' /\ RecordType' /\ StoryType' /\ BoundType'
    BY <1>5, ConstantsAssumption
       DEF StageHealed, DropLocals, RemoteType, RecordType, StoryType,
           BoundType, Histories
  <2> QED
    BY <2>1, <2>2, <2>3
<1>6. ASSUME NEW v \in Volumes, Healed(v) PROVE TypeOK'
  <2>1. DiskType'
    BY <1>6 DEF Healed, DiskType, Histories
  <2>2. MemoryType'
    BY <1>6 DEF Healed, DiskType, MemoryType, Phases
  <2>3. LocalType'
    BY <1>6 DEF Healed, DiskType, LocalType, Histories, rebaseAttempts
  <2>4. RemoteType' /\ RecordType' /\ StoryType' /\ BoundType'
    BY <1>6, ConstantsAssumption
       DEF Healed, RemoteType, RecordType, DiskType, StoryType, BoundType,
           Histories
  <2> QED
    BY <2>1, <2>2, <2>3, <2>4
<1>7. ASSUME NEW v \in Volumes, SendTo(v) PROVE TypeOK'
  <2>1. RemoteType' /\ RecordType' /\ StoryType'
    BY <1>7, ReceiveType DEF SendTo, sendFails
  <2>2. LocalType'
    BY <1>7, DropLocalsType DEF SendTo, LocalType
  <2>3. DiskType' /\ MemoryType'
    BY <1>7
       DEF SendTo, sendFails, receive, receiveBranch, receiveRecord, Fault,
           AfterPush, DropLocals, DiskType, MemoryType, Phases, Histories
  <2>4. BoundType'
    BY <1>7, ConstantsAssumption
       DEF SendTo, sendFails, receive, receiveBranch, receiveRecord, Fault,
           AfterPush, DropLocals, BoundType
  <2> QED
    BY <2>1, <2>2, <2>3, <2>4
<1>8. ASSUME NEW v \in Volumes, RetryRebase(v) PROVE TypeOK'
  <2>1. RecordType'
    BY <1>8, ReparentType DEF RetryRebase, RecordType
  <2>2. DiskType'
    BY <1>8, RebaseType DEF RetryRebase, DiskType
  <2>3. MemoryType' /\ LocalType'
    BY <1>8
       DEF RetryRebase, rebaseAside, rebaseAborted, reparentMetadata,
           MemoryType, LocalType, Phases, Histories, rebaseAttempts
  <2>4. RemoteType' /\ StoryType' /\ BoundType'
    BY <1>8, ConstantsAssumption
       DEF RetryRebase, rebaseAside, rebaseAborted, reparentMetadata,
           RemoteType, StoryType, BoundType, Histories
  <2> QED
    BY <2>1, <2>2, <2>3, <2>4
<1>9. ASSUME NEW v \in Volumes, Resend(v) PROVE TypeOK'
  <2>1. RemoteType' /\ RecordType' /\ StoryType'
    BY <1>9, ReceiveType DEF Resend, sendFails
  <2>2. LocalType'
    <3>1. tries[v] + 1 \in 0..rebaseAttempts
      BY <1>9 DEF Resend, LocalType, AttemptsLeft, rebaseAttempts
    <3>2. tries' \in [Volumes -> 0..rebaseAttempts]
      BY <1>9, <3>1 DEF Resend, LocalType
    <3>3. sent' \in [Volumes -> Histories]
      BY <1>9 DEF Resend, LocalType, DiskType
    <3> QED
      BY <1>9, <3>2, <3>3 DEF Resend, LocalType
  <2>3. DiskType' /\ MemoryType'
    BY <1>9
       DEF Resend, sendFails, receive, receiveBranch, receiveRecord, Fault,
           AttemptsUsed, rebaseAttempts, DiskType, MemoryType, Phases,
           Histories
  <2>4. BoundType'
    BY <1>9, ConstantsAssumption
       DEF Resend, sendFails, receive, receiveBranch, receiveRecord, Fault,
           AttemptsUsed, rebaseAttempts, BoundType
  <2> QED
    BY <2>1, <2>2, <2>3, <2>4
<1>10. ASSUME NEW v \in Volumes, Commit(v) PROVE TypeOK'
  <2>1. RecordType' /\ DiskType' /\ StoryType'
    BY <1>10, CommitType DEF Commit, RecordType, DiskType, StoryType
  <2>2. MemoryType' /\ LocalType'
    BY <1>10
       DEF Commit, commit, MemoryType, LocalType, Phases, Histories,
           rebaseAttempts
  <2>3. RemoteType' /\ BoundType'
    BY <1>10, ConstantsAssumption
       DEF Commit, commit, RemoteType, BoundType, Histories
  <2> QED
    BY <2>1, <2>2, <2>3
<1>11. ASSUME NEW v \in Volumes, Unpublish(v) PROVE TypeOK'
  <2>1. RecordType' /\ DiskType' /\ StoryType'
    BY <1>11, CommitType DEF Unpublish, RecordType, DiskType, StoryType
  <2>2. MemoryType' /\ LocalType'
    BY <1>11
       DEF Unpublish, commit, MemoryType, LocalType, Phases, Histories,
           rebaseAttempts
  <2>3. RemoteType' /\ BoundType'
    BY <1>11, ConstantsAssumption
       DEF Unpublish, commit, RemoteType, BoundType, Histories
  <2> QED
    BY <2>1, <2>2, <2>3
<1>12. ASSUME NEW v \in Volumes, MergeSide(v) PROVE TypeOK'
  <2>1. ref' \in Histories
    <3>1. CASE ref' = ref \cup side[v]
      BY <3>1 DEF RemoteType, Histories
    <3>2. CASE ref' = ref \cup { <<change, 0>> : change \in ChangesOf(side[v])
                                                           \ ChangesOf(ref) }
      <4>1. ChangesOf(side[v]) \in SUBSET Changes
        BY ChangesOfType DEF RemoteType
      <4> QED
        BY <3>2, <4>1 DEF RemoteType, Histories, Objects
    <3> QED
      BY <1>12, <3>1, <3>2 DEF MergeSide
  <2> QED
    BY <1>12, <2>1
       DEF MergeSide, RemoteType, RecordType, DiskType, MemoryType, LocalType,
           StoryType, BoundType
<1> USE DEF RemoteType, RecordType, DiskType, MemoryType, LocalType,
           StoryType, BoundType, Phases, rebaseAttempts, Histories
<1>13. ASSUME NEW v \in Volumes, RefDeleted(v) PROVE TypeOK'
  BY <1>13 DEF RefDeleted
<1>14. ASSUME NEW v \in Volumes, StageRefused(v) PROVE TypeOK'
  BY <1>14 DEF StageRefused, vars
<1>15. ASSUME NEW v \in Volumes, Create(v) PROVE TypeOK'
  BY <1>15 DEF Create
<1>16. ASSUME NEW v \in Volumes, Checkout(v) PROVE TypeOK'
  BY <1>16 DEF Checkout
<1>17. ASSUME NEW v \in Volumes, Hold(v) PROVE TypeOK'
  BY <1>17 DEF Hold, DropLocals
<1>18. ASSUME NEW v \in Volumes, HealReset(v) PROVE TypeOK'
  BY <1>18 DEF HealReset, reset
<1>19. ASSUME NEW v \in Volumes, LeaveTree(v) PROVE TypeOK'
  BY <1>19 DEF LeaveTree, DropLocals
<1>20. ASSUME NEW v \in Volumes, FastForwardTree(v) PROVE TypeOK'
  BY <1>20 DEF FastForwardTree, MayRewrite, reset
<1>21. ASSUME NEW v \in Volumes, PushNow(v) PROVE TypeOK'
  BY <1>21 DEF PushNow
<1>22. ASSUME NEW v \in Volumes, PushSkipped(v) PROVE TypeOK'
  BY <1>22 DEF PushSkipped, AfterPush
<1>23. ASSUME NEW v \in Volumes, HealFetch(v) PROVE TypeOK'
  BY <1>23, ConstantsAssumption
     DEF HealFetch, fetchUpstream, fetchFails, Fault
<1>24. ASSUME NEW v \in Volumes, HealRebase(v) PROVE TypeOK'
  BY <1>24, ReplayType DEF HealRebase, rebaseAside, rebaseAborted
<1>25. ASSUME NEW v \in Volumes, RemoveSide(v) PROVE TypeOK'
  BY <1>25, ConstantsAssumption DEF RemoveSide, Fault
<1>26. ASSUME NEW v \in Volumes, RetryFetch(v) PROVE TypeOK'
  BY <1>26, ConstantsAssumption
     DEF RetryFetch, fetchUpstream, fetchFails, Fault
<1>27. ASSUME NEW v \in Volumes, Diverge(v) PROVE TypeOK'
  BY <1>27 DEF Diverge, markDiverged
<1>28. ASSUME NEW v \in Volumes, MarkPushed(v) PROVE TypeOK'
  BY <1>28 DEF MarkPushed, AfterPush, DropLocals
<1>29. ASSUME NEW v \in Volumes, Publish(v) PROVE TypeOK'
  BY <1>29 DEF Publish
<1>30. ASSUME NEW v \in Volumes, Republish(v) PROVE TypeOK'
  BY <1>30 DEF Republish
<1>31. ASSUME NEW v \in Volumes, Unstage(v) PROVE TypeOK'
  BY <1>31 DEF Unstage
<1>32. ASSUME NEW v \in Volumes, MarkUnstaged(v) PROVE TypeOK'
  BY <1>32 DEF MarkUnstaged, Forget
<1>33. ASSUME NEW v \in Volumes, Sweep(v) PROVE TypeOK'
  BY <1>33 DEF Sweep
<1>34. ASSUME NEW v \in Volumes, Crash(v) PROVE TypeOK'
  BY <1>34, ConstantsAssumption DEF Crash, Forget, DropLocals
<1>35. ASSUME NEW v \in Volumes, Resume(v) PROVE TypeOK'
  BY <1>35 DEF Resume
<1>36. ASSUME NEW v \in Volumes, DeleteSide(v) PROVE TypeOK'
  BY <1>36 DEF DeleteSide
<1>37. ASSUME NEW v \in Volumes, NEW change \in Writes, Write(v, change) PROVE TypeOK'
  BY <1>37, ConstantsAssumption DEF Write
<1>38. ASSUME NEW change \in Foreign, OtherPush(change) PROVE TypeOK'
  BY <1>38, OtherPushType DEF OtherPush
<1>39. ASSUME DeleteRef PROVE TypeOK'
  <2>1. ChangesOf(ref) \in SUBSET Changes
    BY ChangesOfType
  <2> QED
    BY <1>39, <2>1 DEF DeleteRef
<1>40. ASSUME RestoreRef PROVE TypeOK'
  BY <1>40 DEF RestoreRef
<1>41. CASE UNCHANGED vars
  BY <1>41 DEF vars
<1> QED
  BY <1>1, <1>2, <1>3, <1>4, <1>5, <1>6, <1>7, <1>8, <1>9, <1>10, <1>11,
     <1>12, <1>13, <1>14, <1>15, <1>16, <1>17, <1>18, <1>19, <1>20, <1>21,
     <1>22, <1>23, <1>24, <1>25, <1>26, <1>27, <1>28, <1>29, <1>30, <1>31,
     <1>32, <1>33, <1>34, <1>35, <1>36, <1>37, <1>38, <1>39, <1>40, <1>41
     DEF Next, StageStep, PushStep, PodStep, OtherStep

\* Every step keeps the calls, the trees and the remote in agreement.
LEMMA ControlStep ==
    ASSUME TypeOK,
           ControlInv,
           [Next]_vars
    PROVE  ControlInv'
<1> USE DEF Goto, At, remoteVars, recordVars, diskVars, memoryVars, localVars,
           storyVars, boundVars
<1> USE DEF TypeOK, RemoteType, DiskType, MemoryType, LocalType, StoryType,
           rebaseAttempts, Staging, Pushing, ControlInv, AttemptsLeft, CallInv,
           TreeInv, SideInv, DeletedInv
<1>1. ASSUME NEW v \in Volumes, StageTree(v) PROVE ControlInv'
  BY <1>1 DEF StageTree, Fault
<1>2. ASSUME NEW v \in Volumes, RefDeleted(v) PROVE ControlInv'
  BY <1>2 DEF RefDeleted
<1>3. ASSUME NEW v \in Volumes, StageRefused(v) PROVE ControlInv'
  BY <1>3 DEF StageRefused, vars
<1>4. ASSUME NEW v \in Volumes, Create(v) PROVE ControlInv'
  BY <1>4 DEF Create
<1>5. ASSUME NEW v \in Volumes, Checkout(v) PROVE ControlInv'
  BY <1>5 DEF Checkout
<1>6. ASSUME NEW v \in Volumes, MarkCreated(v) PROVE ControlInv'
  BY <1>6 DEF MarkCreated, restore, Fault, DropLocals
<1>7. ASSUME NEW v \in Volumes, Hold(v) PROVE ControlInv'
  BY <1>7 DEF Hold, DropLocals
<1>8. ASSUME NEW v \in Volumes, HealReset(v) PROVE ControlInv'
  BY <1>8 DEF HealReset, reset
<1>9. ASSUME NEW v \in Volumes, LeaveTree(v) PROVE ControlInv'
  BY <1>9 DEF LeaveTree, DropLocals
<1>10. ASSUME NEW v \in Volumes, FastForwardTree(v) PROVE ControlInv'
  BY <1>10 DEF FastForwardTree, MayRewrite, reset
<1>11. ASSUME NEW v \in Volumes, RebaseTree(v) PROVE ControlInv'
  BY <1>11
     DEF RebaseTree, MayRewrite, rebaseAside, rebaseAborted, markDiverged,
         DropLocals
<1>12. ASSUME NEW v \in Volumes, StageMark(v) PROVE ControlInv'
  BY <1>12 DEF StageMark, MarkUpstream, restore, Fault, DropLocals
<1>13. ASSUME NEW v \in Volumes, StageHealed(v) PROVE ControlInv'
  BY <1>13 DEF StageHealed, DropLocals
<1>14. ASSUME NEW v \in Volumes, PushNow(v) PROVE ControlInv'
  BY <1>14 DEF PushNow
<1>15. ASSUME NEW v \in Volumes, PushSkipped(v) PROVE ControlInv'
  BY <1>15 DEF PushSkipped, AfterPush
<1>16. ASSUME NEW v \in Volumes, HealFetch(v) PROVE ControlInv'
  BY <1>16 DEF HealFetch, fetchUpstream, fetchFails, Fault
<1>17. ASSUME NEW v \in Volumes, HealRebase(v) PROVE ControlInv'
  BY <1>17 DEF HealRebase, rebaseAside, rebaseAborted
<1>18. ASSUME NEW v \in Volumes, RemoveSide(v) PROVE ControlInv'
  BY <1>18 DEF RemoveSide, Fault
<1>19. ASSUME NEW v \in Volumes, Healed(v) PROVE ControlInv'
  BY <1>19 DEF Healed
<1>20. ASSUME NEW v \in Volumes, SendTo(v) PROVE ControlInv'
  BY <1>20
     DEF SendTo, sendFails, receive, receiveBranch, receiveRecord, Fault,
         AfterPush, DropLocals
<1>21. ASSUME NEW v \in Volumes, RetryFetch(v) PROVE ControlInv'
  BY <1>21 DEF RetryFetch, fetchUpstream, fetchFails, Fault
<1>22. ASSUME NEW v \in Volumes, RetryRebase(v) PROVE ControlInv'
  BY <1>22 DEF RetryRebase, rebaseAside, rebaseAborted, reparentMetadata
<1>23. ASSUME NEW v \in Volumes, Resend(v) PROVE ControlInv'
  BY <1>23
     DEF Resend, sendFails, receive, receiveBranch, receiveRecord, Fault,
         AttemptsUsed, rebaseAttempts
<1>24. ASSUME NEW v \in Volumes, Diverge(v) PROVE ControlInv'
  BY <1>24 DEF Diverge, markDiverged
<1>25. ASSUME NEW v \in Volumes, MarkPushed(v) PROVE ControlInv'
  BY <1>25 DEF MarkPushed, AfterPush, DropLocals
<1>26. ASSUME NEW v \in Volumes, Publish(v) PROVE ControlInv'
  BY <1>26 DEF Publish
<1>27. ASSUME NEW v \in Volumes, Republish(v) PROVE ControlInv'
  BY <1>27 DEF Republish
<1>28. ASSUME NEW v \in Volumes, Commit(v) PROVE ControlInv'
  BY <1>28 DEF Commit, commit
<1>29. ASSUME NEW v \in Volumes, Unpublish(v) PROVE ControlInv'
  BY <1>29 DEF Unpublish, commit
<1>30. ASSUME NEW v \in Volumes, Unstage(v) PROVE ControlInv'
  BY <1>30 DEF Unstage
<1>31. ASSUME NEW v \in Volumes, MarkUnstaged(v) PROVE ControlInv'
  BY <1>31 DEF MarkUnstaged, Forget
<1>32. ASSUME NEW v \in Volumes, Sweep(v) PROVE ControlInv'
  BY <1>32 DEF Sweep
<1>33. ASSUME NEW v \in Volumes, Crash(v) PROVE ControlInv'
  BY <1>33 DEF Crash, Forget, DropLocals
<1>34. ASSUME NEW v \in Volumes, Resume(v) PROVE ControlInv'
  BY <1>34 DEF Resume
<1>35. ASSUME NEW v \in Volumes, MergeSide(v) PROVE ControlInv'
  BY <1>35 DEF MergeSide
<1>36. ASSUME NEW v \in Volumes, DeleteSide(v) PROVE ControlInv'
  BY <1>36 DEF DeleteSide
<1>37. ASSUME NEW v \in Volumes, NEW change \in Writes, Write(v, change) PROVE ControlInv'
  BY <1>37 DEF Write
<1>38. ASSUME NEW change \in Foreign, OtherPush(change) PROVE ControlInv'
  BY <1>38 DEF OtherPush
<1>39. ASSUME DeleteRef PROVE ControlInv'
  BY <1>39 DEF DeleteRef
<1>40. ASSUME RestoreRef PROVE ControlInv'
  BY <1>40 DEF RestoreRef
<1>41. CASE UNCHANGED vars
  BY <1>41 DEF vars
<1> QED
  BY <1>1, <1>2, <1>3, <1>4, <1>5, <1>6, <1>7, <1>8, <1>9, <1>10, <1>11,
     <1>12, <1>13, <1>14, <1>15, <1>16, <1>17, <1>18, <1>19, <1>20, <1>21,
     <1>22, <1>23, <1>24, <1>25, <1>26, <1>27, <1>28, <1>29, <1>30, <1>31,
     <1>32, <1>33, <1>34, <1>35, <1>36, <1>37, <1>38, <1>39, <1>40, <1>41
     DEF Next, StageStep, PushStep, PodStep, OtherStep

\* The control invariant holds in every reachable state.
LEMMA Control == Spec => [](TypeOK /\ ControlInv)
<1>1. Init => ControlInv
  BY DEF Init, ControlInv, AttemptsLeft, CallInv, TreeInv, SideInv, DeletedInv,
         Staging, Pushing, rebaseAttempts
<1>2. TypeOK /\ ControlInv /\ [Next]_vars => (TypeOK /\ ControlInv)'
  BY TypeStep, ControlStep DEF ControlInv
<1> QED
  BY <1>1, <1>2, TypeInit, PTL DEF Spec

\* Every variable keeps its type; in particular rebaseAndRetry never makes
\* more than rebaseAttempts attempts (push.go, rebaseAndRetry).
THEOREM TypeCorrect == Spec => []TypeOK
  BY Control, PTL

-----------------------------------------------------------------------------
(* No commit is lost *)

\* No step drops a committed change from a tree.
LEMMA KeepStep ==
    ASSUME TypeOK,
           ControlInv,
           NoCommitLost,
           [Next]_vars
    PROVE  NoCommitLost'
<1> USE DEF Goto, At, remoteVars, recordVars, diskVars, memoryVars, localVars,
           storyVars, boundVars
<1> USE DEF TypeOK, MemoryType, DiskType, LocalType, StoryType, NoCommitLost
<1>1. ASSUME NEW v \in Volumes, StageTree(v) PROVE NoCommitLost'
  BY <1>1 DEF StageTree, Fault
<1>2. ASSUME NEW v \in Volumes, RefDeleted(v) PROVE NoCommitLost'
  BY <1>2 DEF RefDeleted
<1>3. ASSUME NEW v \in Volumes, StageRefused(v) PROVE NoCommitLost'
  BY <1>3 DEF StageRefused, vars
<1>4. ASSUME NEW v \in Volumes, Create(v) PROVE NoCommitLost'
  BY <1>4 DEF Create
<1>5. ASSUME NEW v \in Volumes, Checkout(v) PROVE NoCommitLost'
  BY <1>5 DEF Checkout, ControlInv, TreeInv
<1>6. ASSUME NEW v \in Volumes, MarkCreated(v) PROVE NoCommitLost'
  BY <1>6 DEF MarkCreated, restore, Fault, DropLocals
<1>7. ASSUME NEW v \in Volumes, Hold(v) PROVE NoCommitLost'
  BY <1>7 DEF Hold, DropLocals
<1>8. ASSUME NEW v \in Volumes, HealReset(v) PROVE NoCommitLost'
  BY <1>8, ChangesOfSubset DEF HealReset, reset, TreeIsUpstream, Ancestor
<1>9. ASSUME NEW v \in Volumes, LeaveTree(v) PROVE NoCommitLost'
  BY <1>9 DEF LeaveTree, DropLocals
<1>10. ASSUME NEW v \in Volumes, FastForwardTree(v) PROVE NoCommitLost'
  BY <1>10, ChangesOfSubset
     DEF FastForwardTree, MayRewrite, reset, TreeIsUpstream, Ancestor
<1>11. ASSUME NEW v \in Volumes, RebaseTree(v) PROVE NoCommitLost'
  BY <1>11, RebaseKeeps DEF RebaseTree, MayRewrite, markDiverged, DropLocals
<1>12. ASSUME NEW v \in Volumes, StageMark(v) PROVE NoCommitLost'
  BY <1>12 DEF StageMark, MarkUpstream, restore, Fault, DropLocals
<1>13. ASSUME NEW v \in Volumes, StageHealed(v) PROVE NoCommitLost'
  BY <1>13 DEF StageHealed, DropLocals
<1>14. ASSUME NEW v \in Volumes, PushNow(v) PROVE NoCommitLost'
  BY <1>14 DEF PushNow
<1>15. ASSUME NEW v \in Volumes, PushSkipped(v) PROVE NoCommitLost'
  BY <1>15 DEF PushSkipped, AfterPush
<1>16. ASSUME NEW v \in Volumes, HealFetch(v) PROVE NoCommitLost'
  BY <1>16 DEF HealFetch, fetchUpstream, fetchFails, Fault
<1>17. ASSUME NEW v \in Volumes, HealRebase(v) PROVE NoCommitLost'
  BY <1>17, RebaseKeeps DEF HealRebase
<1>18. ASSUME NEW v \in Volumes, RemoveSide(v) PROVE NoCommitLost'
  BY <1>18 DEF RemoveSide, Fault
<1>19. ASSUME NEW v \in Volumes, Healed(v) PROVE NoCommitLost'
  BY <1>19 DEF Healed
<1>20. ASSUME NEW v \in Volumes, SendTo(v) PROVE NoCommitLost'
  BY <1>20
     DEF SendTo, sendFails, receive, receiveBranch, receiveRecord, Fault,
         AfterPush, DropLocals
<1>21. ASSUME NEW v \in Volumes, RetryFetch(v) PROVE NoCommitLost'
  BY <1>21 DEF RetryFetch, fetchUpstream, fetchFails, Fault
<1>22. ASSUME NEW v \in Volumes, RetryRebase(v) PROVE NoCommitLost'
  BY <1>22, RebaseKeeps DEF RetryRebase, reparentMetadata
<1>23. ASSUME NEW v \in Volumes, Resend(v) PROVE NoCommitLost'
  BY <1>23
     DEF Resend, sendFails, receive, receiveBranch, receiveRecord, Fault,
         AttemptsUsed, rebaseAttempts
<1>24. ASSUME NEW v \in Volumes, Diverge(v) PROVE NoCommitLost'
  BY <1>24 DEF Diverge, markDiverged
<1>25. ASSUME NEW v \in Volumes, MarkPushed(v) PROVE NoCommitLost'
  BY <1>25 DEF MarkPushed, AfterPush, DropLocals
<1>26. ASSUME NEW v \in Volumes, Publish(v) PROVE NoCommitLost'
  BY <1>26 DEF Publish
<1>27. ASSUME NEW v \in Volumes, Republish(v) PROVE NoCommitLost'
  BY <1>27 DEF Republish
<1>28. ASSUME NEW v \in Volumes, Commit(v) PROVE NoCommitLost'
  BY <1>28, CommittedType, ConstantsAssumption DEF Commit, commit
<1>29. ASSUME NEW v \in Volumes, Unpublish(v) PROVE NoCommitLost'
  BY <1>29, CommittedType, ConstantsAssumption DEF Unpublish, commit
<1>30. ASSUME NEW v \in Volumes, Unstage(v) PROVE NoCommitLost'
  BY <1>30 DEF Unstage
<1>31. ASSUME NEW v \in Volumes, MarkUnstaged(v) PROVE NoCommitLost'
  BY <1>31 DEF MarkUnstaged, Forget
<1>32. ASSUME NEW v \in Volumes, Sweep(v) PROVE NoCommitLost'
  BY <1>32 DEF Sweep
<1>33. ASSUME NEW v \in Volumes, Crash(v) PROVE NoCommitLost'
  BY <1>33 DEF Crash, Forget, DropLocals
<1>34. ASSUME NEW v \in Volumes, Resume(v) PROVE NoCommitLost'
  BY <1>34 DEF Resume
<1>35. ASSUME NEW v \in Volumes, MergeSide(v) PROVE NoCommitLost'
  BY <1>35 DEF MergeSide
<1>36. ASSUME NEW v \in Volumes, DeleteSide(v) PROVE NoCommitLost'
  BY <1>36 DEF DeleteSide
<1>37. ASSUME NEW v \in Volumes, NEW change \in Writes, Write(v, change) PROVE NoCommitLost'
  BY <1>37 DEF Write
<1>38. ASSUME NEW change \in Foreign, OtherPush(change) PROVE NoCommitLost'
  BY <1>38 DEF OtherPush
<1>39. ASSUME DeleteRef PROVE NoCommitLost'
  BY <1>39 DEF DeleteRef
<1>40. ASSUME RestoreRef PROVE NoCommitLost'
  BY <1>40 DEF RestoreRef
<1>41. CASE UNCHANGED vars
  BY <1>41 DEF vars
<1> QED
  BY <1>1, <1>2, <1>3, <1>4, <1>5, <1>6, <1>7, <1>8, <1>9, <1>10, <1>11,
     <1>12, <1>13, <1>14, <1>15, <1>16, <1>17, <1>18, <1>19, <1>20, <1>21,
     <1>22, <1>23, <1>24, <1>25, <1>26, <1>27, <1>28, <1>29, <1>30, <1>31,
     <1>32, <1>33, <1>34, <1>35, <1>36, <1>37, <1>38, <1>39, <1>40, <1>41
     DEF Next, StageStep, PushStep, PodStep, OtherStep

\* A tree carries every change the driver committed in it, through every
\* reset, rebase, heal, retry and kill (reconcile.go, diverged.go, push.go).
THEOREM CommitsKept == Spec => []NoCommitLost
<1>1. Init => NoCommitLost
  BY DEF Init, NoCommitLost
<1>2. TypeOK /\ ControlInv /\ NoCommitLost /\ [Next]_vars => NoCommitLost'
  BY KeepStep
<1> QED
  BY <1>1, <1>2, Control, PTL DEF Spec

-----------------------------------------------------------------------------
(* No write is discarded outside a diverged tree *)

\* No step drops an uncommitted write of a tree that has not diverged.
LEMMA WritesStep ==
    ASSUME TypeOK,
           [Next]_vars
    PROVE  KeepsWrites
<1> USE DEF Goto, At, remoteVars, recordVars, diskVars, memoryVars, localVars,
           storyVars, boundVars
<1> USE DEF TypeOK, DiskType, KeepsWrites
<1>1. ASSUME NEW v \in Volumes, StageTree(v) PROVE KeepsWrites
  BY <1>1 DEF StageTree, Fault
<1>2. ASSUME NEW v \in Volumes, RefDeleted(v) PROVE KeepsWrites
  BY <1>2 DEF RefDeleted
<1>3. ASSUME NEW v \in Volumes, StageRefused(v) PROVE KeepsWrites
  BY <1>3 DEF StageRefused, vars
<1>4. ASSUME NEW v \in Volumes, Create(v) PROVE KeepsWrites
  BY <1>4 DEF Create
<1>5. ASSUME NEW v \in Volumes, Checkout(v) PROVE KeepsWrites
  BY <1>5 DEF Checkout
<1>6. ASSUME NEW v \in Volumes, MarkCreated(v) PROVE KeepsWrites
  BY <1>6 DEF MarkCreated, restore, Fault, DropLocals
<1>7. ASSUME NEW v \in Volumes, Hold(v) PROVE KeepsWrites
  BY <1>7 DEF Hold, DropLocals
<1>8. ASSUME NEW v \in Volumes, HealReset(v) PROVE KeepsWrites
  BY <1>8 DEF HealReset, reset
<1>9. ASSUME NEW v \in Volumes, LeaveTree(v) PROVE KeepsWrites
  BY <1>9 DEF LeaveTree, DropLocals
<1>10. ASSUME NEW v \in Volumes, FastForwardTree(v) PROVE KeepsWrites
  BY <1>10 DEF FastForwardTree, MayRewrite, reset
<1>11. ASSUME NEW v \in Volumes, RebaseTree(v) PROVE KeepsWrites
  BY <1>11
     DEF RebaseTree, MayRewrite, rebaseAside, rebaseAborted, markDiverged,
         DropLocals
<1>12. ASSUME NEW v \in Volumes, StageMark(v) PROVE KeepsWrites
  BY <1>12 DEF StageMark, MarkUpstream, restore, Fault, DropLocals
<1>13. ASSUME NEW v \in Volumes, StageHealed(v) PROVE KeepsWrites
  BY <1>13 DEF StageHealed, DropLocals
<1>14. ASSUME NEW v \in Volumes, PushNow(v) PROVE KeepsWrites
  BY <1>14 DEF PushNow
<1>15. ASSUME NEW v \in Volumes, PushSkipped(v) PROVE KeepsWrites
  BY <1>15 DEF PushSkipped, AfterPush
<1>16. ASSUME NEW v \in Volumes, HealFetch(v) PROVE KeepsWrites
  BY <1>16 DEF HealFetch, fetchUpstream, fetchFails, Fault
<1>17. ASSUME NEW v \in Volumes, HealRebase(v) PROVE KeepsWrites
  BY <1>17 DEF HealRebase, rebaseAside, rebaseAborted
<1>18. ASSUME NEW v \in Volumes, RemoveSide(v) PROVE KeepsWrites
  BY <1>18 DEF RemoveSide, Fault
<1>19. ASSUME NEW v \in Volumes, Healed(v) PROVE KeepsWrites
  BY <1>19 DEF Healed
<1>20. ASSUME NEW v \in Volumes, SendTo(v) PROVE KeepsWrites
  BY <1>20
     DEF SendTo, sendFails, receive, receiveBranch, receiveRecord, Fault,
         AfterPush, DropLocals
<1>21. ASSUME NEW v \in Volumes, RetryFetch(v) PROVE KeepsWrites
  BY <1>21 DEF RetryFetch, fetchUpstream, fetchFails, Fault
<1>22. ASSUME NEW v \in Volumes, RetryRebase(v) PROVE KeepsWrites
  BY <1>22 DEF RetryRebase, rebaseAside, rebaseAborted, reparentMetadata
<1>23. ASSUME NEW v \in Volumes, Resend(v) PROVE KeepsWrites
  BY <1>23
     DEF Resend, sendFails, receive, receiveBranch, receiveRecord, Fault,
         AttemptsUsed, rebaseAttempts
<1>24. ASSUME NEW v \in Volumes, Diverge(v) PROVE KeepsWrites
  BY <1>24 DEF Diverge, markDiverged
<1>25. ASSUME NEW v \in Volumes, MarkPushed(v) PROVE KeepsWrites
  BY <1>25 DEF MarkPushed, AfterPush, DropLocals
<1>26. ASSUME NEW v \in Volumes, Publish(v) PROVE KeepsWrites
  BY <1>26 DEF Publish
<1>27. ASSUME NEW v \in Volumes, Republish(v) PROVE KeepsWrites
  BY <1>27 DEF Republish
<1>28. ASSUME NEW v \in Volumes, Commit(v) PROVE KeepsWrites
  BY <1>28, CommittedType, ConstantsAssumption DEF Commit, commit
<1>29. ASSUME NEW v \in Volumes, Unpublish(v) PROVE KeepsWrites
  BY <1>29, CommittedType, ConstantsAssumption DEF Unpublish, commit
<1>30. ASSUME NEW v \in Volumes, Unstage(v) PROVE KeepsWrites
  BY <1>30 DEF Unstage
<1>31. ASSUME NEW v \in Volumes, MarkUnstaged(v) PROVE KeepsWrites
  BY <1>31 DEF MarkUnstaged, Forget
<1>32. ASSUME NEW v \in Volumes, Sweep(v) PROVE KeepsWrites
  BY <1>32 DEF Sweep
<1>33. ASSUME NEW v \in Volumes, Crash(v) PROVE KeepsWrites
  BY <1>33 DEF Crash, Forget, DropLocals
<1>34. ASSUME NEW v \in Volumes, Resume(v) PROVE KeepsWrites
  BY <1>34 DEF Resume
<1>35. ASSUME NEW v \in Volumes, MergeSide(v) PROVE KeepsWrites
  BY <1>35 DEF MergeSide
<1>36. ASSUME NEW v \in Volumes, DeleteSide(v) PROVE KeepsWrites
  BY <1>36 DEF DeleteSide
<1>37. ASSUME NEW v \in Volumes, NEW change \in Writes, Write(v, change) PROVE KeepsWrites
  BY <1>37 DEF Write
<1>38. ASSUME NEW change \in Foreign, OtherPush(change) PROVE KeepsWrites
  BY <1>38 DEF OtherPush
<1>39. ASSUME DeleteRef PROVE KeepsWrites
  BY <1>39 DEF DeleteRef
<1>40. ASSUME RestoreRef PROVE KeepsWrites
  BY <1>40 DEF RestoreRef
<1>41. CASE UNCHANGED vars
  BY <1>41 DEF vars
<1> QED
  BY <1>1, <1>2, <1>3, <1>4, <1>5, <1>6, <1>7, <1>8, <1>9, <1>10, <1>11,
     <1>12, <1>13, <1>14, <1>15, <1>16, <1>17, <1>18, <1>19, <1>20, <1>21,
     <1>22, <1>23, <1>24, <1>25, <1>26, <1>27, <1>28, <1>29, <1>30, <1>31,
     <1>32, <1>33, <1>34, <1>35, <1>36, <1>37, <1>38, <1>39, <1>40, <1>41
     DEF Next, StageStep, PushStep, PodStep, OtherStep

\* Outside a diverged tree, a write of the pod stays until a commit carries
\* it (reconcile.go, commit.go).
THEOREM WritesKept == Spec => ReconcileKeepsWrites
<1>1. TypeOK /\ [Next]_vars => [KeepsWrites]_vars
  BY WritesStep
<1> QED
  BY <1>1, Control, PTL DEF Spec, ReconcileKeepsWrites

-----------------------------------------------------------------------------
(* The mark never runs ahead of the remote *)

\* Every step lets the remote grow.
LEMMA RemoteGrows ==
    ASSUME TypeOK,
           SideInv,
           [Next]_vars
    PROVE  Grows
<1> USE DEF Goto, At, remoteVars, recordVars, diskVars, memoryVars, localVars,
           storyVars, boundVars
<1> USE DEF TypeOK, RemoteType, DiskType, MemoryType, StoryType, SideInv, Grows,
           RefHolds, RemoteHolds
<1>1. ASSUME NEW v \in Volumes, StageTree(v) PROVE Grows
  BY <1>1 DEF StageTree, Fault
<1>2. ASSUME NEW v \in Volumes, RefDeleted(v) PROVE Grows
  BY <1>2 DEF RefDeleted
<1>3. ASSUME NEW v \in Volumes, StageRefused(v) PROVE Grows
  BY <1>3 DEF StageRefused, vars
<1>4. ASSUME NEW v \in Volumes, Create(v) PROVE Grows
  BY <1>4 DEF Create
<1>5. ASSUME NEW v \in Volumes, Checkout(v) PROVE Grows
  BY <1>5 DEF Checkout
<1>6. ASSUME NEW v \in Volumes, MarkCreated(v) PROVE Grows
  BY <1>6 DEF MarkCreated, restore, Fault, DropLocals
<1>7. ASSUME NEW v \in Volumes, Hold(v) PROVE Grows
  BY <1>7 DEF Hold, DropLocals
<1>8. ASSUME NEW v \in Volumes, HealReset(v) PROVE Grows
  BY <1>8 DEF HealReset, reset
<1>9. ASSUME NEW v \in Volumes, LeaveTree(v) PROVE Grows
  BY <1>9 DEF LeaveTree, DropLocals
<1>10. ASSUME NEW v \in Volumes, FastForwardTree(v) PROVE Grows
  BY <1>10 DEF FastForwardTree, MayRewrite, reset
<1>11. ASSUME NEW v \in Volumes, RebaseTree(v) PROVE Grows
  BY <1>11
     DEF RebaseTree, MayRewrite, rebaseAside, rebaseAborted, markDiverged,
         DropLocals
<1>12. ASSUME NEW v \in Volumes, StageMark(v) PROVE Grows
  BY <1>12 DEF StageMark, MarkUpstream, restore, Fault, DropLocals
<1>13. ASSUME NEW v \in Volumes, StageHealed(v) PROVE Grows
  BY <1>13 DEF StageHealed, DropLocals
<1>14. ASSUME NEW v \in Volumes, PushNow(v) PROVE Grows
  BY <1>14 DEF PushNow
<1>15. ASSUME NEW v \in Volumes, PushSkipped(v) PROVE Grows
  BY <1>15 DEF PushSkipped, AfterPush
<1>16. ASSUME NEW v \in Volumes, HealFetch(v) PROVE Grows
  BY <1>16 DEF HealFetch, fetchUpstream, fetchFails, Fault
<1>17. ASSUME NEW v \in Volumes, HealRebase(v) PROVE Grows
  BY <1>17 DEF HealRebase, rebaseAside, rebaseAborted
<1>18. ASSUME NEW v \in Volumes, RemoveSide(v) PROVE Grows
  BY <1>18 DEF RemoveSide, Fault
<1>19. ASSUME NEW v \in Volumes, Healed(v) PROVE Grows
  BY <1>19 DEF Healed
<1>20. ASSUME NEW v \in Volumes, SendTo(v) PROVE Grows
  BY <1>20, ChangesOfSubset
     DEF SendTo, sendFails, receive, receiveBranch, receiveRecord, Fault,
         AfterPush, DropLocals, BranchTaken, FastForward, Ancestor
<1>21. ASSUME NEW v \in Volumes, RetryFetch(v) PROVE Grows
  BY <1>21 DEF RetryFetch, fetchUpstream, fetchFails, Fault
<1>22. ASSUME NEW v \in Volumes, RetryRebase(v) PROVE Grows
  BY <1>22 DEF RetryRebase, rebaseAside, rebaseAborted, reparentMetadata
<1>23. ASSUME NEW v \in Volumes, Resend(v) PROVE Grows
  BY <1>23, ChangesOfSubset
     DEF Resend, sendFails, receive, receiveBranch, receiveRecord, Fault,
         AttemptsUsed, rebaseAttempts, BranchTaken, FastForward, Ancestor
<1>24. ASSUME NEW v \in Volumes, Diverge(v) PROVE Grows
  BY <1>24 DEF Diverge, markDiverged
<1>25. ASSUME NEW v \in Volumes, MarkPushed(v) PROVE Grows
  BY <1>25 DEF MarkPushed, AfterPush, DropLocals
<1>26. ASSUME NEW v \in Volumes, Publish(v) PROVE Grows
  BY <1>26 DEF Publish
<1>27. ASSUME NEW v \in Volumes, Republish(v) PROVE Grows
  BY <1>27 DEF Republish
<1>28. ASSUME NEW v \in Volumes, Commit(v) PROVE Grows
  BY <1>28 DEF Commit, commit
<1>29. ASSUME NEW v \in Volumes, Unpublish(v) PROVE Grows
  BY <1>29 DEF Unpublish, commit
<1>30. ASSUME NEW v \in Volumes, Unstage(v) PROVE Grows
  BY <1>30 DEF Unstage
<1>31. ASSUME NEW v \in Volumes, MarkUnstaged(v) PROVE Grows
  BY <1>31 DEF MarkUnstaged, Forget
<1>32. ASSUME NEW v \in Volumes, Sweep(v) PROVE Grows
  BY <1>32 DEF Sweep
<1>33. ASSUME NEW v \in Volumes, Crash(v) PROVE Grows
  BY <1>33 DEF Crash, Forget, DropLocals
<1>34. ASSUME NEW v \in Volumes, Resume(v) PROVE Grows
  BY <1>34 DEF Resume
<1>35. ASSUME NEW v \in Volumes, MergeSide(v) PROVE Grows
  BY <1>35, ChangesOfSubset DEF MergeSide
<1>36. ASSUME NEW v \in Volumes, DeleteSide(v) PROVE Grows
  BY <1>36 DEF DeleteSide
<1>37. ASSUME NEW v \in Volumes, NEW change \in Writes, Write(v, change) PROVE Grows
  BY <1>37 DEF Write
<1>38. ASSUME NEW change \in Foreign, OtherPush(change) PROVE Grows
  BY <1>38, CommittedType, ConstantsAssumption DEF OtherPush
<1>39. ASSUME DeleteRef PROVE Grows
  BY <1>39 DEF DeleteRef
<1>40. ASSUME RestoreRef PROVE Grows
  BY <1>40 DEF RestoreRef
<1>41. CASE UNCHANGED vars
  BY <1>41 DEF vars
<1> QED
  BY <1>1, <1>2, <1>3, <1>4, <1>5, <1>6, <1>7, <1>8, <1>9, <1>10, <1>11,
     <1>12, <1>13, <1>14, <1>15, <1>16, <1>17, <1>18, <1>19, <1>20, <1>21,
     <1>22, <1>23, <1>24, <1>25, <1>26, <1>27, <1>28, <1>29, <1>30, <1>31,
     <1>32, <1>33, <1>34, <1>35, <1>36, <1>37, <1>38, <1>39, <1>40, <1>41
     DEF Next, StageStep, PushStep, PodStep, OtherStep

\* Every step keeps what the calls know of the remote.
LEMMA PushedStep ==
    ASSUME TypeOK,
           TypeOK',
           ControlInv,
           PushedInv,
           RefDeletes => MaxCrashes = 0,
           [Next]_vars
    PROVE  PushedInv'
<1>1. /\ RefHolds \subseteq RefHolds'
      /\ \A w \in Volumes : tree[w] = "made" => ChangesOf(mark[w]) \subseteq RemoteHolds(w)'
      /\ \A w \in Volumes : pc[w] = "marking" => ChangesOf(sent[w]) \subseteq RemoteHolds(w)'
      /\ \A w \in Volumes : RefHolds \subseteq RemoteHolds(w)'
  <2>1. RefHolds \subseteq RefHolds'
    BY RemoteGrows DEF ControlInv, Grows
  <2>2. \A w \in Volumes : RefHolds' \subseteq RemoteHolds(w)'
    BY DEF RefHolds, RemoteHolds
  <2>3. \A w \in Volumes : pc[w] \notin { "healRemove", "stageRemove" }
                            => RemoteHolds(w) \subseteq RemoteHolds(w)'
    BY RemoteGrows DEF ControlInv, Grows
  <2> QED
    BY <2>1, <2>2, <2>3
       DEF PushedInv, PushedIsOnRemote, UpstreamInv, SentInv
<1> USE DEF Goto, At, remoteVars, recordVars, diskVars, memoryVars, localVars,
           storyVars, boundVars
<1>2. ASSUME NEW v \in Volumes, RebaseTree(v) PROVE PushedInv'
  <2>1. /\ \A w \in Volumes : ChangesOf(head[w]) \subseteq ChangesOf(head[w])'
        /\ \A w \in Volumes : w # v => head'[w] = head[w]
    BY <1>2, RebaseKeeps DEF RebaseTree
  <2>2. tree[v] # "unmarked"
    <3>1. pc[v] \in { "reconcile", "healRebase", "retryRebase" }
      BY <1>2 DEF RebaseTree, MayRewrite
    <3> QED
      BY <3>1 DEF PushedInv, UnmarkedInv
  <2>3. UpstreamInv'
    BY <1>2, <1>1
       DEF RebaseTree, MayRewrite, markDiverged, DropLocals,
           PushedInv, UpstreamInv, Staging, TypeOK, MemoryType, LocalType
  <2>4. SentInv'
    <3>1. SUFFICES ASSUME NEW w \in Volumes
                   PROVE  /\ pc'[w] = "marking" => ChangesOf(sent[w])' \subseteq RemoteHolds(w)'
                          /\ pc'[w] \in Pushing => ChangesOf(sent[w])' \subseteq ChangesOf(head[w])'
      BY DEF SentInv
    <3>2. /\ w # v => pc'[w] = pc[w] /\ sent'[w] = sent[w]
          /\ \/ pc[v] \in Pushing /\ pc'[v] # "marking" /\ sent'[v] = sent[v]
             \/ pc'[v] \notin Pushing \cup {"marking"}
      BY <1>2
         DEF RebaseTree, MayRewrite, markDiverged, DropLocals,
             Pushing, TypeOK, MemoryType, LocalType
    <3>3. ChangesOf(head[w]) \subseteq ChangesOf(head[w])'
      BY <2>1
    <3> QED
      BY <3>2, <3>3, <1>1 DEF PushedInv, SentInv
  <2>5. UnmarkedInv'
    <3>1. SUFFICES ASSUME NEW w \in Volumes, tree'[w] = "unmarked"
                   PROVE  /\ ~pod'[w]
                          /\ ChangesOf(head[w])' \subseteq RefHolds'
                          /\ pc'[w] \in { "markCreated", "out", "down" }
                          /\ pc'[w] # "markCreated" => crashes' > 0
      BY DEF UnmarkedInv
    <3>2. /\ tree[w] = "unmarked" /\ w # v
          /\ pod'[w] = pod[w] /\ pc'[w] = pc[w] /\ crashes' = crashes
      BY <1>2, <2>2, <3>1
         DEF RebaseTree, MayRewrite, markDiverged, DropLocals,
             TypeOK, MemoryType
    <3>3. head'[w] = head[w]
      BY <2>1, <3>2
    <3> QED
      BY <3>2, <3>3, <1>1 DEF PushedInv, UnmarkedInv
  <2>6. PushedIsOnRemote'
    BY <1>2, <1>1 DEF RebaseTree, PushedIsOnRemote
  <2> QED
    BY <2>3, <2>4, <2>5, <2>6 DEF PushedInv
<1>3. ASSUME NEW v \in Volumes, HealRebase(v) PROVE PushedInv'
  <2>1. /\ \A w \in Volumes : ChangesOf(head[w]) \subseteq ChangesOf(head[w])'
        /\ \A w \in Volumes : w # v => head'[w] = head[w]
    BY <1>3, RebaseKeeps DEF HealRebase
  <2>2. tree[v] # "unmarked"
    <3>1. pc[v] \in { "reconcile", "healRebase", "retryRebase" }
      BY <1>3 DEF HealRebase, MayRewrite
    <3> QED
      BY <3>1 DEF PushedInv, UnmarkedInv
  <2>3. UpstreamInv'
    BY <1>3, <1>1
       DEF HealRebase,
           PushedInv, UpstreamInv, Staging, TypeOK, MemoryType, LocalType
  <2>4. SentInv'
    <3>1. SUFFICES ASSUME NEW w \in Volumes
                   PROVE  /\ pc'[w] = "marking" => ChangesOf(sent[w])' \subseteq RemoteHolds(w)'
                          /\ pc'[w] \in Pushing => ChangesOf(sent[w])' \subseteq ChangesOf(head[w])'
      BY DEF SentInv
    <3>2. /\ w # v => pc'[w] = pc[w] /\ sent'[w] = sent[w]
          /\ \/ pc[v] \in Pushing /\ pc'[v] # "marking" /\ sent'[v] = sent[v]
             \/ pc'[v] \notin Pushing \cup {"marking"}
      BY <1>3
         DEF HealRebase,
             Pushing, TypeOK, MemoryType, LocalType
    <3>3. ChangesOf(head[w]) \subseteq ChangesOf(head[w])'
      BY <2>1
    <3> QED
      BY <3>2, <3>3, <1>1 DEF PushedInv, SentInv
  <2>5. UnmarkedInv'
    <3>1. SUFFICES ASSUME NEW w \in Volumes, tree'[w] = "unmarked"
                   PROVE  /\ ~pod'[w]
                          /\ ChangesOf(head[w])' \subseteq RefHolds'
                          /\ pc'[w] \in { "markCreated", "out", "down" }
                          /\ pc'[w] # "markCreated" => crashes' > 0
      BY DEF UnmarkedInv
    <3>2. /\ tree[w] = "unmarked" /\ w # v
          /\ pod'[w] = pod[w] /\ pc'[w] = pc[w] /\ crashes' = crashes
      BY <1>3, <2>2, <3>1
         DEF HealRebase,
             TypeOK, MemoryType
    <3>3. head'[w] = head[w]
      BY <2>1, <3>2
    <3> QED
      BY <3>2, <3>3, <1>1 DEF PushedInv, UnmarkedInv
  <2>6. PushedIsOnRemote'
    BY <1>3, <1>1 DEF HealRebase, PushedIsOnRemote
  <2> QED
    BY <2>3, <2>4, <2>5, <2>6 DEF PushedInv
<1>4. ASSUME NEW v \in Volumes, SendTo(v) PROVE PushedInv'
  <2>1. UpstreamInv' /\ UnmarkedInv' /\ PushedIsOnRemote'
    BY <1>4, <1>1
       DEF SendTo, DropLocals, AfterPush, sendFails, Fault, PushedInv, UpstreamInv,
           UnmarkedInv, PushedIsOnRemote, Staging, TypeOK, MemoryType,
           DiskType, LocalType
  <2>2. ASSUME pc'[v] = "marking"
        PROVE  ChangesOf(head[v]) \subseteq RemoteHolds(v)' /\ sent'[v] = sent[v]
    <3>1. BranchTaken(v) /\ receiveBranch(v) /\ sent'[v] = sent[v]
      BY <1>4, <2>2
         DEF SendTo, PushLanded, DropLocals, AfterPush, receive, TypeOK, MemoryType,
             LocalType
    <3> QED
      BY <3>1 DEF receiveBranch, RemoteHolds, TypeOK, RemoteType
  <2>3. SentInv'
    BY <1>4, <1>1, <2>2
       DEF SendTo, DropLocals, AfterPush, PushedInv, SentInv, Pushing, TypeOK, MemoryType,
           DiskType, LocalType
  <2> QED
    BY <2>1, <2>3 DEF PushedInv
<1>5. ASSUME NEW v \in Volumes, RetryRebase(v) PROVE PushedInv'
  <2>1. /\ \A w \in Volumes : ChangesOf(head[w]) \subseteq ChangesOf(head[w])'
        /\ \A w \in Volumes : w # v => head'[w] = head[w]
    BY <1>5, RebaseKeeps DEF RetryRebase
  <2>2. tree[v] # "unmarked"
    <3>1. pc[v] \in { "reconcile", "healRebase", "retryRebase" }
      BY <1>5 DEF RetryRebase, MayRewrite
    <3> QED
      BY <3>1 DEF PushedInv, UnmarkedInv
  <2>3. UpstreamInv'
    BY <1>5, <1>1
       DEF RetryRebase,
           PushedInv, UpstreamInv, Staging, TypeOK, MemoryType, LocalType
  <2>4. SentInv'
    <3>1. SUFFICES ASSUME NEW w \in Volumes
                   PROVE  /\ pc'[w] = "marking" => ChangesOf(sent[w])' \subseteq RemoteHolds(w)'
                          /\ pc'[w] \in Pushing => ChangesOf(sent[w])' \subseteq ChangesOf(head[w])'
      BY DEF SentInv
    <3>2. /\ w # v => pc'[w] = pc[w] /\ sent'[w] = sent[w]
          /\ \/ pc[v] \in Pushing /\ pc'[v] # "marking" /\ sent'[v] = sent[v]
             \/ pc'[v] \notin Pushing \cup {"marking"}
      BY <1>5
         DEF RetryRebase,
             Pushing, TypeOK, MemoryType, LocalType
    <3>3. ChangesOf(head[w]) \subseteq ChangesOf(head[w])'
      BY <2>1
    <3> QED
      BY <3>2, <3>3, <1>1 DEF PushedInv, SentInv
  <2>5. UnmarkedInv'
    <3>1. SUFFICES ASSUME NEW w \in Volumes, tree'[w] = "unmarked"
                   PROVE  /\ ~pod'[w]
                          /\ ChangesOf(head[w])' \subseteq RefHolds'
                          /\ pc'[w] \in { "markCreated", "out", "down" }
                          /\ pc'[w] # "markCreated" => crashes' > 0
      BY DEF UnmarkedInv
    <3>2. /\ tree[w] = "unmarked" /\ w # v
          /\ pod'[w] = pod[w] /\ pc'[w] = pc[w] /\ crashes' = crashes
      BY <1>5, <2>2, <3>1
         DEF RetryRebase,
             TypeOK, MemoryType
    <3>3. head'[w] = head[w]
      BY <2>1, <3>2
    <3> QED
      BY <3>2, <3>3, <1>1 DEF PushedInv, UnmarkedInv
  <2>6. PushedIsOnRemote'
    BY <1>5, <1>1 DEF RetryRebase, PushedIsOnRemote
  <2> QED
    BY <2>3, <2>4, <2>5, <2>6 DEF PushedInv
<1>6. ASSUME NEW v \in Volumes, Resend(v) PROVE PushedInv'
  <2>1. UpstreamInv' /\ UnmarkedInv' /\ PushedIsOnRemote'
    BY <1>6, <1>1
       DEF Resend, AttemptsUsed, sendFails, Fault, PushedInv, UpstreamInv,
           UnmarkedInv, PushedIsOnRemote, Staging, TypeOK, MemoryType,
           DiskType, LocalType
  <2>2. ASSUME pc'[v] = "marking"
        PROVE  ChangesOf(head[v]) \subseteq RemoteHolds(v)' /\ sent'[v] = head[v]
    <3>1. BranchTaken(v) /\ receiveBranch(v) /\ sent'[v] = head[v]
      BY <1>6, <2>2
         DEF Resend, PushLanded, AttemptsUsed, receive, TypeOK, MemoryType, LocalType
    <3> QED
      BY <3>1 DEF receiveBranch, RemoteHolds, TypeOK, RemoteType
  <2>3. SentInv'
    BY <1>6, <1>1, <2>2
       DEF Resend, AttemptsUsed, PushedInv, SentInv, Pushing, TypeOK, MemoryType,
           DiskType, LocalType
  <2> QED
    BY <2>1, <2>3 DEF PushedInv
<1> USE <1>1
<1> USE DEF TypeOK, DiskType, MemoryType, LocalType, Staging, Pushing, PushedInv,
           UpstreamInv, UnmarkedInv, SentInv, PushedIsOnRemote
<1>7. ASSUME NEW v \in Volumes, StageTree(v) PROVE PushedInv'
  BY <1>7, ChangesOfSubset DEF StageTree, Fault, RefHolds
<1>8. ASSUME NEW v \in Volumes, RefDeleted(v) PROVE PushedInv'
  BY <1>8, ConstantsAssumption
     DEF RefDeleted, ControlInv, DeletedInv, BoundType
<1>9. ASSUME NEW v \in Volumes, StageRefused(v) PROVE PushedInv'
  BY <1>9 DEF StageRefused, vars
<1>10. ASSUME NEW v \in Volumes, Create(v) PROVE PushedInv'
  BY <1>10 DEF Create
<1>11. ASSUME NEW v \in Volumes, Checkout(v) PROVE PushedInv'
  BY <1>11 DEF Checkout, ControlInv, CallInv
<1>12. ASSUME NEW v \in Volumes, MarkCreated(v) PROVE PushedInv'
  BY <1>12 DEF MarkCreated, restore, Fault, DropLocals
<1>13. ASSUME NEW v \in Volumes, Hold(v) PROVE PushedInv'
  BY <1>13 DEF Hold, DropLocals
<1>14. ASSUME NEW v \in Volumes, HealReset(v) PROVE PushedInv'
  BY <1>14 DEF HealReset, reset
<1>15. ASSUME NEW v \in Volumes, LeaveTree(v) PROVE PushedInv'
  BY <1>15 DEF LeaveTree, DropLocals
<1>16. ASSUME NEW v \in Volumes, FastForwardTree(v) PROVE PushedInv'
  BY <1>16 DEF FastForwardTree, MayRewrite, reset
<1>17. ASSUME NEW v \in Volumes, StageMark(v) PROVE PushedInv'
  BY <1>17 DEF StageMark, MarkUpstream, restore, Fault, DropLocals
<1>18. ASSUME NEW v \in Volumes, StageHealed(v) PROVE PushedInv'
  BY <1>18 DEF StageHealed, DropLocals
<1>19. ASSUME NEW v \in Volumes, PushNow(v) PROVE PushedInv'
  BY <1>19 DEF PushNow
<1>20. ASSUME NEW v \in Volumes, PushSkipped(v) PROVE PushedInv'
  BY <1>20 DEF PushSkipped, AfterPush
<1>21. ASSUME NEW v \in Volumes, HealFetch(v) PROVE PushedInv'
  BY <1>21, ChangesOfSubset
     DEF HealFetch, fetchUpstream, fetchFails, Fault, RefHolds, Merged,
         Ancestor
<1>22. ASSUME NEW v \in Volumes, RemoveSide(v) PROVE PushedInv'
  BY <1>22 DEF RemoveSide, Fault
<1>23. ASSUME NEW v \in Volumes, Healed(v) PROVE PushedInv'
  BY <1>23 DEF Healed
<1>24. ASSUME NEW v \in Volumes, RetryFetch(v) PROVE PushedInv'
  BY <1>24 DEF RetryFetch, fetchUpstream, fetchFails, Fault
<1>25. ASSUME NEW v \in Volumes, Diverge(v) PROVE PushedInv'
  BY <1>25 DEF Diverge, markDiverged
<1>26. ASSUME NEW v \in Volumes, MarkPushed(v) PROVE PushedInv'
  BY <1>26 DEF MarkPushed, AfterPush, DropLocals
<1>27. ASSUME NEW v \in Volumes, Publish(v) PROVE PushedInv'
  BY <1>27 DEF Publish, ControlInv, CallInv
<1>28. ASSUME NEW v \in Volumes, Republish(v) PROVE PushedInv'
  BY <1>28 DEF Republish
<1>29. ASSUME NEW v \in Volumes, Commit(v) PROVE PushedInv'
  BY <1>29 DEF Commit, commit
<1>30. ASSUME NEW v \in Volumes, Unpublish(v) PROVE PushedInv'
  BY <1>30 DEF Unpublish, commit
<1>31. ASSUME NEW v \in Volumes, Unstage(v) PROVE PushedInv'
  BY <1>31 DEF Unstage
<1>32. ASSUME NEW v \in Volumes, MarkUnstaged(v) PROVE PushedInv'
  BY <1>32 DEF MarkUnstaged, Forget
<1>33. ASSUME NEW v \in Volumes, Sweep(v) PROVE PushedInv'
  BY <1>33 DEF Sweep
<1>34. ASSUME NEW v \in Volumes, Crash(v) PROVE PushedInv'
  BY <1>34, ConstantsAssumption DEF Crash, Forget, DropLocals, BoundType
<1>35. ASSUME NEW v \in Volumes, Resume(v) PROVE PushedInv'
  BY <1>35 DEF Resume
<1>36. ASSUME NEW v \in Volumes, MergeSide(v) PROVE PushedInv'
  BY <1>36 DEF MergeSide
<1>37. ASSUME NEW v \in Volumes, DeleteSide(v) PROVE PushedInv'
  BY <1>37 DEF DeleteSide
<1>38. ASSUME NEW v \in Volumes, NEW change \in Writes, Write(v, change) PROVE PushedInv'
  BY <1>38 DEF Write
<1>39. ASSUME NEW change \in Foreign, OtherPush(change) PROVE PushedInv'
  BY <1>39 DEF OtherPush
<1>40. ASSUME DeleteRef PROVE PushedInv'
  BY <1>40 DEF DeleteRef
<1>41. ASSUME RestoreRef PROVE PushedInv'
  BY <1>41 DEF RestoreRef
<1>42. CASE UNCHANGED vars
  BY <1>42 DEF vars
<1> QED
  BY <1>2, <1>3, <1>4, <1>5, <1>6, <1>7, <1>8, <1>9, <1>10, <1>11, <1>12,
     <1>13, <1>14, <1>15, <1>16, <1>17, <1>18, <1>19, <1>20, <1>21, <1>22,
     <1>23, <1>24, <1>25, <1>26, <1>27, <1>28, <1>29, <1>30, <1>31, <1>32,
     <1>33, <1>34, <1>35, <1>36, <1>37, <1>38, <1>39, <1>40, <1>41, <1>42
     DEF Next, StageStep, PushStep, PodStep, OtherStep

\* What the mark covers is on the remote. Excluded is a kill where refs are
\* deleted: a tree killed before its first mark takes commits while its ref is
\* gone, and the next stage that finds the ref marks them (stageTree).
THEOREM MarkIsHonest ==
    ASSUME RefDeletes => MaxCrashes = 0
    PROVE  Spec => []PushedIsOnRemote
<1>1. Init => PushedInv
  BY DEF Init, PushedInv, UpstreamInv, SentInv, UnmarkedInv, PushedIsOnRemote,
         Staging, Pushing
<1>2. /\ TypeOK /\ ControlInv /\ PushedInv /\ [Next]_vars
      /\ (TypeOK /\ ControlInv)'
      => PushedInv'
  BY PushedStep
<1>3. PushedInv => PushedIsOnRemote
  BY DEF PushedInv
<1> QED
  BY <1>1, <1>2, <1>3, Control, PTL DEF Spec

=============================================================================
