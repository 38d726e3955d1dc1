------------------------ MODULE NodeLifecycleProofs ------------------------
(***************************************************************************)
(* Proofs about NodeLifecycle, for any number of volumes, failures and     *)
(* kills: one goroutine at a time works on a tree, an unpublished volume   *)
(* is left alone, a mounted one is watched, the bare repository outlives   *)
(* the trees that read it, and the goroutines wait in no other circle than *)
(* the one Circle describes.                                               *)
(*                                                                         *)
(* None of the five is inductive. They follow from NodeInv, which says who *)
(* holds each lock, and what the kubelet, the driver's memory and the      *)
(* kernel know of a volume at each step of its call.                       *)
(***************************************************************************)
EXTENDS NodeLifecycle, TLAPS

-----------------------------------------------------------------------------
(* The inductive invariant *)

\* The steps that run with the repository's lock.
RepoHeld == { "fetchRef", "noteAbandoned", "reconcile", "fetching" }

\* The goroutine that holds a lock is inside its critical section, and a
\* goroutine inside one holds the lock.
LockInv ==
    /\ \A v \in Volumes :
           /\ mu = Call(v) <=> At(Call(v), "wait")
           /\ mu # Watch(v)
           /\ repoMu = Call(v) <=> pc[Call(v)] \in RepoHeld
           /\ repoMu = Watch(v) <=> At(Watch(v), "fetching")
    /\ repoMu = Sweeper <=> sweep.pc = "uses"

\* A stage about to make a tree still has the repository it found.
StoreInv ==
    /\ RepositoryServesTrees
    /\ \A v \in Volumes :
           pc[Call(v)] \in { "fetchRef", "noteAbandoned", "reconcile" } => repo

\* A driver that was killed runs nothing and remembers nothing.
DownInv ==
    ~up => /\ mu = Free /\ repoMu = Free /\ sweep.pc = "idle"
           /\ staged = {} /\ published = {}
           /\ \A v \in Volumes :
                  At(Call(v), "none") /\ At(Watch(v), "none") /\ ~cancelled[v]

StageSteps   == { "stage", "fetchRef", "noteAbandoned", "reconcile", "hold" }
PublishSteps == { "bind", "record", "watch" }
UnpubSteps   == { "wait", "unbind", "unbindOnly", "forget", "lastCommit" }

\* What holds of a volume while a call of it runs.
CallInv(v) ==
    LET step == pc[Call(v)] IN
    /\ step \in StageSteps
       => v \notin published /\ known[v] \in { "staging", "publishing" }
    /\ step \in PublishSteps
       => v \in staged \ published /\ known[v] = "publishing"
    /\ step \in UnpubSteps => v \notin published /\ known[v] = "unpublishing"
    /\ step \in PushSteps
       => v \notin published /\ known[v] \in { "unpublishing", "unstaging" }
    /\ step = "disarm" => known[v] = "unstaging"
    /\ step \in { "record", "watch" } => bound[v]
    /\ step \in PushSteps \cup { "forget", "lastCommit" } => ~bound[v]
    /\ step \notin { "select", "commit" }

\* What holds of a volume whatever runs.
VolInv(v) ==
    /\ known[v] \in { "out", "staging", "staged", "unstaging" }
       => ~bound[v] /\ v \notin published
    /\ known[v] = "published" => bound[v] /\ (v \in staged => v \in published)
    /\ up /\ known[v] = "published" /\ recorded[v] => v \in published
    /\ v \in published => v \in staged /\ bound[v]
    /\ pod[v] => known[v] = "published"

\* A watcher runs for a published volume, and for one whose unpublish waits
\* for it to end.
WatchInv(v) ==
    /\ ~At(Watch(v), "none") => v \in published \/ At(Call(v), "wait")
    /\ v \in published => ~At(Watch(v), "none") /\ ~cancelled[v]
    /\ At(Call(v), "wait") => cancelled[v]

NodeInv ==
    /\ LockInv /\ StoreInv /\ DownInv
    /\ \A v \in Volumes : CallInv(v) /\ VolInv(v) /\ WatchInv(v)

-----------------------------------------------------------------------------
(* The goroutines *)

\* The call and the watcher of every volume are all different, and none of
\* them is the sweep.
LEMMA ActorFacts ==
    /\ Free # Sweeper
    /\ \A a \in Actors :
           /\ a # Free /\ a # Sweeper
           /\ \E v \in Volumes : a = Call(v) \/ a = Watch(v)
    /\ \A v \in Volumes :
           /\ Call(v) \in Actors /\ Watch(v) \in Actors
           /\ Call(v)[1] = v /\ Watch(v)[1] = v
           /\ Call(v)[2] = "call" /\ Watch(v)[2] = "watch"
    /\ \A v, w \in Volumes :
           /\ Call(v) # Watch(w)
           /\ v # w => Call(v) # Call(w) /\ Watch(v) # Watch(w)
  BY DEF Actors, Call, Watch, Free, Sweeper

USE ActorFacts
USE DEF At, Goto, muFree, Steps, StageSteps, PublishSteps, UnpubSteps,
        PushSteps, RepoHeld, kubeletVars, diskVars, memoryVars, lockVars,
        boundVars

-----------------------------------------------------------------------------
(* Every step keeps the types and the invariant *)

\* A pod stops (the kubelet).
LEMMA PodStopsKeeps ==
    ASSUME TypeOK, NodeInv, NEW v \in Volumes, PodStops(v)
    PROVE  TypeOK' /\ NodeInv'
<1> USE DEF PodStops
<1>1. TypeOK'
  BY NodeAssumption DEF TypeOK, KubeletType, DiskType, MemoryType, ControlType,
                        WatchSteps, BoundType, Known
<1>2. LockInv'
  BY DEF NodeInv, LockInv, TypeOK, ControlType
<1>3. StoreInv' /\ DownInv'
  BY DEF NodeInv, LockInv, StoreInv, DownInv, TypeOK, ControlType, DiskType,
         MemoryType, RepositoryServesTrees
<1>4. ASSUME NEW w \in Volumes
      PROVE  (CallInv(w) /\ VolInv(w) /\ WatchInv(w))'
  BY DEF NodeInv, CallInv, VolInv, WatchInv, TypeOK, KubeletType, DiskType,
         MemoryType, ControlType
<1> QED
  BY <1>1, <1>2, <1>3, <1>4 DEF NodeInv

\* The guard of NodeStageVolume.
LEMMA NodeStageVolumeKeeps ==
    ASSUME TypeOK, NodeInv, NEW v \in Volumes, NodeStageVolume(v)
    PROVE  TypeOK' /\ NodeInv'
<1> USE DEF NodeStageVolume, Answer, AfterStage, Calls
<1>1. TypeOK'
  <2>1. KubeletType' /\ DiskType' /\ MemoryType'
    BY DEF TypeOK, KubeletType, DiskType, MemoryType, Known
  <2>2. ControlType'
    BY DEF TypeOK, ControlType, WatchSteps
  <2>3. BoundType'
    BY NodeAssumption DEF TypeOK, BoundType
  <2> QED
    BY <2>1, <2>2, <2>3 DEF TypeOK
<1>2. LockInv'
  BY DEF NodeInv, LockInv, TypeOK, ControlType
<1>3. StoreInv' /\ DownInv'
  BY DEF NodeInv, LockInv, StoreInv, DownInv, TypeOK, ControlType, DiskType,
         MemoryType, RepositoryServesTrees
<1>4. ASSUME NEW w \in Volumes
      PROVE  (CallInv(w) /\ VolInv(w) /\ WatchInv(w))'
  BY DEF NodeInv, CallInv, VolInv, WatchInv, TypeOK, KubeletType, DiskType,
         MemoryType, ControlType
<1> QED
  BY <1>1, <1>2, <1>3, <1>4 DEF NodeInv

\* stageTree takes the repository's lock.
LEMMA StageTreeKeeps ==
    ASSUME TypeOK, NodeInv, NEW v \in Volumes, stageTree(v)
    PROVE  TypeOK' /\ NodeInv'
<1> USE DEF stageTree
<1>1. TypeOK'
  BY NodeAssumption DEF TypeOK, KubeletType, DiskType, MemoryType, ControlType,
                        WatchSteps, BoundType, Known
<1>2. LockInv'
  BY DEF NodeInv, LockInv, TypeOK, ControlType
<1>3. StoreInv' /\ DownInv'
  BY DEF NodeInv, LockInv, StoreInv, DownInv, TypeOK, ControlType, DiskType,
         MemoryType, RepositoryServesTrees
<1>4. ASSUME NEW w \in Volumes
      PROVE  (CallInv(w) /\ VolInv(w) /\ WatchInv(w))'
  BY DEF NodeInv, CallInv, VolInv, WatchInv, TypeOK, KubeletType, DiskType,
         MemoryType, ControlType
<1> QED
  BY <1>1, <1>2, <1>3, <1>4 DEF NodeInv

\* The fetch of a stage.
LEMMA FetchRefKeeps ==
    ASSUME TypeOK, NodeInv, NEW v \in Volumes, fetchRef(v)
    PROVE  TypeOK' /\ NodeInv'
<1> USE DEF fetchRef, Fault
<1>1. TypeOK'
  <2>1. KubeletType' /\ DiskType' /\ MemoryType'
    BY DEF TypeOK, KubeletType, DiskType, MemoryType, Known
  <2>2. ControlType'
    BY DEF TypeOK, ControlType, WatchSteps
  <2>3. BoundType'
    BY NodeAssumption DEF TypeOK, BoundType
  <2> QED
    BY <2>1, <2>2, <2>3 DEF TypeOK
<1>2. LockInv'
  BY DEF NodeInv, LockInv, TypeOK, ControlType
<1>3. StoreInv' /\ DownInv'
  BY DEF NodeInv, LockInv, StoreInv, DownInv, TypeOK, ControlType, DiskType,
         MemoryType, RepositoryServesTrees
<1>4. ASSUME NEW w \in Volumes
      PROVE  (CallInv(w) /\ VolInv(w) /\ WatchInv(w))'
  BY DEF NodeInv, CallInv, VolInv, WatchInv, TypeOK, KubeletType, DiskType,
         MemoryType, ControlType
<1> QED
  BY <1>1, <1>2, <1>3, <1>4 DEF NodeInv

\* noteAbandoned takes node.mu under the repository's lock.
LEMMA NoteAbandonedKeeps ==
    ASSUME TypeOK, NodeInv, NEW v \in Volumes, noteAbandoned(v)
    PROVE  TypeOK' /\ NodeInv'
<1> USE DEF noteAbandoned
<1>1. TypeOK'
  BY NodeAssumption DEF TypeOK, KubeletType, DiskType, MemoryType, ControlType,
                        WatchSteps, BoundType, Known
<1>2. LockInv'
  BY DEF NodeInv, LockInv, TypeOK, ControlType
<1>3. StoreInv' /\ DownInv'
  BY DEF NodeInv, LockInv, StoreInv, DownInv, TypeOK, ControlType, DiskType,
         MemoryType, RepositoryServesTrees
<1>4. ASSUME NEW w \in Volumes
      PROVE  (CallInv(w) /\ VolInv(w) /\ WatchInv(w))'
  BY DEF NodeInv, CallInv, VolInv, WatchInv, TypeOK, KubeletType, DiskType,
         MemoryType, ControlType
<1> QED
  BY <1>1, <1>2, <1>3, <1>4 DEF NodeInv

\* The tree is made or reconciled.
LEMMA ReconcileKeeps ==
    ASSUME TypeOK, NodeInv, NEW v \in Volumes, reconcile(v)
    PROVE  TypeOK' /\ NodeInv'
<1> USE DEF reconcile, Fault
<1>1. TypeOK'
  <2>1. KubeletType' /\ DiskType' /\ MemoryType'
    BY DEF TypeOK, KubeletType, DiskType, MemoryType, Known
  <2>2. ControlType'
    BY DEF TypeOK, ControlType, WatchSteps
  <2>3. BoundType'
    BY NodeAssumption DEF TypeOK, BoundType
  <2> QED
    BY <2>1, <2>2, <2>3 DEF TypeOK
<1>2. LockInv'
  BY DEF NodeInv, LockInv, TypeOK, ControlType
<1>3. StoreInv' /\ DownInv'
  BY DEF NodeInv, LockInv, StoreInv, DownInv, TypeOK, ControlType, DiskType,
         MemoryType, RepositoryServesTrees
<1>4. ASSUME NEW w \in Volumes
      PROVE  (CallInv(w) /\ VolInv(w) /\ WatchInv(w))'
  BY DEF NodeInv, CallInv, VolInv, WatchInv, TypeOK, KubeletType, DiskType,
         MemoryType, ControlType
<1> QED
  BY <1>1, <1>2, <1>3, <1>4 DEF NodeInv

\* The node takes the volume.
LEMMA HoldKeeps ==
    ASSUME TypeOK, NodeInv, NEW v \in Volumes, hold(v)
    PROVE  TypeOK' /\ NodeInv'
<1> USE DEF hold, Answer, AfterStage
<1>1. TypeOK'
  BY NodeAssumption DEF TypeOK, KubeletType, DiskType, MemoryType, ControlType,
                        WatchSteps, BoundType, Known
<1>2. LockInv'
  BY DEF NodeInv, LockInv, TypeOK, ControlType
<1>3. StoreInv' /\ DownInv'
  BY DEF NodeInv, LockInv, StoreInv, DownInv, TypeOK, ControlType, DiskType,
         MemoryType, RepositoryServesTrees
<1>4. ASSUME NEW w \in Volumes
      PROVE  (CallInv(w) /\ VolInv(w) /\ WatchInv(w))'
  BY DEF NodeInv, CallInv, VolInv, WatchInv, TypeOK, KubeletType, DiskType,
         MemoryType, ControlType
<1> QED
  BY <1>1, <1>2, <1>3, <1>4 DEF NodeInv

\* The guards of publishStaged.
LEMMA PublishStagedKeeps ==
    ASSUME TypeOK, NodeInv, NEW v \in Volumes, publishStaged(v)
    PROVE  TypeOK' /\ NodeInv'
<1> USE DEF publishStaged, Calls, Answer
<1>1. TypeOK'
  <2>1. KubeletType' /\ DiskType' /\ MemoryType'
    BY DEF TypeOK, KubeletType, DiskType, MemoryType, Known
  <2>2. ControlType'
    BY DEF TypeOK, ControlType, WatchSteps
  <2>3. BoundType'
    BY NodeAssumption DEF TypeOK, BoundType
  <2> QED
    BY <2>1, <2>2, <2>3 DEF TypeOK
<1>2. LockInv'
  BY DEF NodeInv, LockInv, TypeOK, ControlType
<1>3. StoreInv' /\ DownInv'
  BY DEF NodeInv, LockInv, StoreInv, DownInv, TypeOK, ControlType, DiskType,
         MemoryType, RepositoryServesTrees
<1>4. ASSUME NEW w \in Volumes
      PROVE  (CallInv(w) /\ VolInv(w) /\ WatchInv(w))'
  BY DEF NodeInv, CallInv, VolInv, WatchInv, TypeOK, KubeletType, DiskType,
         MemoryType, ControlType
<1> QED
  BY <1>1, <1>2, <1>3, <1>4 DEF NodeInv

\* The bind of a publish.
LEMMA BindKeeps ==
    ASSUME TypeOK, NodeInv, NEW v \in Volumes, bind(v)
    PROVE  TypeOK' /\ NodeInv'
<1> USE DEF bind, Fault
<1>1. TypeOK'
  <2>1. KubeletType' /\ DiskType' /\ MemoryType'
    BY DEF TypeOK, KubeletType, DiskType, MemoryType, Known
  <2>2. ControlType'
    BY DEF TypeOK, ControlType, WatchSteps
  <2>3. BoundType'
    BY NodeAssumption DEF TypeOK, BoundType
  <2> QED
    BY <2>1, <2>2, <2>3 DEF TypeOK
<1>2. LockInv'
  BY DEF NodeInv, LockInv, TypeOK, ControlType
<1>3. StoreInv' /\ DownInv'
  BY DEF NodeInv, LockInv, StoreInv, DownInv, TypeOK, ControlType, DiskType,
         MemoryType, RepositoryServesTrees
<1>4. ASSUME NEW w \in Volumes
      PROVE  (CallInv(w) /\ VolInv(w) /\ WatchInv(w))'
  BY DEF NodeInv, CallInv, VolInv, WatchInv, TypeOK, KubeletType, DiskType,
         MemoryType, ControlType
<1> QED
  BY <1>1, <1>2, <1>3, <1>4 DEF NodeInv

\* The record of a publish.
LEMMA RecordKeeps ==
    ASSUME TypeOK, NodeInv, NEW v \in Volumes, record(v)
    PROVE  TypeOK' /\ NodeInv'
<1> USE DEF record, Fault
<1>1. TypeOK'
  <2>1. KubeletType' /\ DiskType' /\ MemoryType'
    BY DEF TypeOK, KubeletType, DiskType, MemoryType, Known
  <2>2. ControlType'
    BY DEF TypeOK, ControlType, WatchSteps
  <2>3. BoundType'
    BY NodeAssumption DEF TypeOK, BoundType
  <2> QED
    BY <2>1, <2>2, <2>3 DEF TypeOK
<1>2. LockInv'
  BY DEF NodeInv, LockInv, TypeOK, ControlType
<1>3. StoreInv' /\ DownInv'
  BY DEF NodeInv, LockInv, StoreInv, DownInv, TypeOK, ControlType, DiskType,
         MemoryType, RepositoryServesTrees
<1>4. ASSUME NEW w \in Volumes
      PROVE  (CallInv(w) /\ VolInv(w) /\ WatchInv(w))'
  <2>1. CallInv(w)'
    BY DEF NodeInv, CallInv, VolInv, TypeOK, KubeletType, DiskType,
           MemoryType, ControlType
  <2>2. /\ known[v] = "publishing"
        /\ UNCHANGED <<known, pod, bound, up, staged, published>>
    BY DEF NodeInv, CallInv
  <2>3. \A u \in Volumes \ { v } : recorded'[u] = recorded[u]
    BY DEF TypeOK, DiskType
  <2>4. VolInv(w)'
    <3> HIDE DEF record
    <3> QED
      BY <2>2, <2>3 DEF NodeInv, CallInv, VolInv, TypeOK, KubeletType,
                        DiskType,
           MemoryType, ControlType
  <2>5. WatchInv(w)'
    BY DEF NodeInv, WatchInv, TypeOK, MemoryType, ControlType
  <2> QED
    BY <2>1, <2>4, <2>5
<1> QED
  BY <1>1, <1>2, <1>3, <1>4 DEF NodeInv

\* watch starts the loop.
LEMMA WatchKeeps ==
    ASSUME TypeOK, NodeInv, NEW v \in Volumes, watch(v)
    PROVE  TypeOK' /\ NodeInv'
<1> USE DEF watch
<1>1. TypeOK'
  BY NodeAssumption DEF TypeOK, KubeletType, DiskType, MemoryType, ControlType,
                        WatchSteps, BoundType, Known
<1>2. /\ pc[Call(v)] = "watch"
      /\ pc'[Call(v)] = "none" /\ pc'[Watch(v)] = "commit"
      /\ \A b \in Actors \ { Call(v), Watch(v) } : pc'[b] = pc[b]
  BY DEF TypeOK, ControlType
<1>3. LockInv'
  <2> HIDE DEF watch
  <2>1. UNCHANGED <<mu, repoMu, sweep>>
    BY DEF watch
  <2>2. pc[Watch(v)] = "none"
    BY <1>2 DEF NodeInv, CallInv, WatchInv
  <2> QED
    BY <1>2, <2>1, <2>2 DEF NodeInv, LockInv, TypeOK, ControlType
<1>4. StoreInv' /\ DownInv'
  BY DEF NodeInv, LockInv, StoreInv, DownInv, TypeOK, ControlType, DiskType,
         MemoryType, RepositoryServesTrees
<1>5. ASSUME NEW w \in Volumes
      PROVE  (CallInv(w) /\ VolInv(w) /\ WatchInv(w))'
  <2>1. CallInv(w)'
    BY DEF NodeInv, CallInv, VolInv, TypeOK, KubeletType, DiskType,
           MemoryType, ControlType
  <2>2. VolInv(w)'
    BY DEF NodeInv, CallInv, VolInv, TypeOK, KubeletType, DiskType,
           MemoryType, ControlType
  <2>3. WatchInv(w)'
    BY DEF NodeInv, WatchInv, TypeOK, MemoryType, ControlType
  <2> QED
    BY <2>1, <2>2, <2>3
<1> QED
  BY <1>1, <1>3, <1>4, <1>5 DEF NodeInv

\* unwatch takes the volume and node.mu.
LEMMA NodeUnpublishVolumeKeeps ==
    ASSUME TypeOK, NodeInv, NEW v \in Volumes, NodeUnpublishVolume(v)
    PROVE  TypeOK' /\ NodeInv'
<1> USE DEF NodeUnpublishVolume, Calls, Cancel
<1>1. TypeOK'
  <2>1. KubeletType' /\ DiskType' /\ MemoryType'
    BY DEF TypeOK, KubeletType, DiskType, MemoryType, Known
  <2>2. ControlType'
    BY DEF TypeOK, ControlType, WatchSteps
  <2>3. BoundType'
    BY NodeAssumption DEF TypeOK, BoundType
  <2> QED
    BY <2>1, <2>2, <2>3 DEF TypeOK
<1>2. LockInv'
  BY DEF NodeInv, LockInv, TypeOK, ControlType
<1>3. StoreInv' /\ DownInv'
  BY DEF NodeInv, LockInv, StoreInv, DownInv, TypeOK, ControlType, DiskType,
         MemoryType, RepositoryServesTrees
<1>4. ASSUME NEW w \in Volumes
      PROVE  (CallInv(w) /\ VolInv(w) /\ WatchInv(w))'
  BY DEF NodeInv, CallInv, VolInv, WatchInv, TypeOK, KubeletType, DiskType,
         MemoryType, ControlType
<1> QED
  BY <1>1, <1>2, <1>3, <1>4 DEF NodeInv

\* The watcher has ended.
LEMMA UnwatchKeeps ==
    ASSUME TypeOK, NodeInv, NEW v \in Volumes, unwatch(v)
    PROVE  TypeOK' /\ NodeInv'
<1> USE DEF unwatch, Ended
<1>1. TypeOK'
  BY NodeAssumption DEF TypeOK, KubeletType, DiskType, MemoryType, ControlType,
                        WatchSteps, BoundType, Known
<1>2. LockInv'
  BY DEF NodeInv, LockInv, TypeOK, ControlType
<1>3. StoreInv' /\ DownInv'
  BY DEF NodeInv, LockInv, StoreInv, DownInv, TypeOK, ControlType, DiskType,
         MemoryType, RepositoryServesTrees
<1>4. ASSUME NEW w \in Volumes
      PROVE  (CallInv(w) /\ VolInv(w) /\ WatchInv(w))'
  BY DEF NodeInv, CallInv, VolInv, WatchInv, TypeOK, KubeletType, DiskType,
         MemoryType, ControlType
<1> QED
  BY <1>1, <1>2, <1>3, <1>4 DEF NodeInv

\* The unbind.
LEMMA UnbindKeeps ==
    ASSUME TypeOK, NodeInv, NEW v \in Volumes, unbind(v)
    PROVE  TypeOK' /\ NodeInv'
<1> USE DEF unbind, Fault, Answer
<1>1. TypeOK'
  <2>1. KubeletType' /\ DiskType' /\ MemoryType'
    BY DEF TypeOK, KubeletType, DiskType, MemoryType, Known
  <2>2. ControlType'
    BY DEF TypeOK, ControlType, WatchSteps
  <2>3. BoundType'
    BY NodeAssumption DEF TypeOK, BoundType
  <2> QED
    BY <2>1, <2>2, <2>3 DEF TypeOK
<1>2. LockInv'
  BY DEF NodeInv, LockInv, TypeOK, ControlType
<1>3. StoreInv' /\ DownInv'
  BY DEF NodeInv, LockInv, StoreInv, DownInv, TypeOK, ControlType, DiskType,
         MemoryType, RepositoryServesTrees
<1>4. ASSUME NEW w \in Volumes
      PROVE  (CallInv(w) /\ VolInv(w) /\ WatchInv(w))'
  BY DEF NodeInv, CallInv, VolInv, WatchInv, TypeOK, KubeletType, DiskType,
         MemoryType, ControlType
<1> QED
  BY <1>1, <1>2, <1>3, <1>4 DEF NodeInv

\* The record is removed.
LEMMA ForgetKeeps ==
    ASSUME TypeOK, NodeInv, NEW v \in Volumes, forget(v)
    PROVE  TypeOK' /\ NodeInv'
<1> USE DEF forget
<1>1. TypeOK'
  BY NodeAssumption DEF TypeOK, KubeletType, DiskType, MemoryType, ControlType,
                        WatchSteps, BoundType, Known
<1>2. LockInv'
  BY DEF NodeInv, LockInv, TypeOK, ControlType
<1>3. StoreInv' /\ DownInv'
  BY DEF NodeInv, LockInv, StoreInv, DownInv, TypeOK, ControlType, DiskType,
         MemoryType, RepositoryServesTrees
<1>4. ASSUME NEW w \in Volumes
      PROVE  (CallInv(w) /\ VolInv(w) /\ WatchInv(w))'
  BY DEF NodeInv, CallInv, VolInv, WatchInv, TypeOK, KubeletType, DiskType,
         MemoryType, ControlType
<1> QED
  BY <1>1, <1>2, <1>3, <1>4 DEF NodeInv

\* The last commit.
LEMMA LastCommitKeeps ==
    ASSUME TypeOK, NodeInv, NEW v \in Volumes, lastCommit(v)
    PROVE  TypeOK' /\ NodeInv'
<1> USE DEF lastCommit, Commits
<1>1. TypeOK'
  BY NodeAssumption DEF TypeOK, KubeletType, DiskType, MemoryType, ControlType,
                        WatchSteps, BoundType, Known
<1>2. LockInv'
  BY DEF NodeInv, LockInv, TypeOK, ControlType
<1>3. StoreInv' /\ DownInv'
  BY DEF NodeInv, LockInv, StoreInv, DownInv, TypeOK, ControlType, DiskType,
         MemoryType, RepositoryServesTrees
<1>4. ASSUME NEW w \in Volumes
      PROVE  (CallInv(w) /\ VolInv(w) /\ WatchInv(w))'
  BY DEF NodeInv, CallInv, VolInv, WatchInv, TypeOK, KubeletType, DiskType,
         MemoryType, ControlType
<1> QED
  BY <1>1, <1>2, <1>3, <1>4 DEF NodeInv

\* NodeUnstageVolume drops the volume.
LEMMA NodeUnstageVolumeKeeps ==
    ASSUME TypeOK, NodeInv, NEW v \in Volumes, NodeUnstageVolume(v)
    PROVE  TypeOK' /\ NodeInv'
<1> USE DEF NodeUnstageVolume, Calls, Answer
<1>1. TypeOK'
  <2>1. KubeletType' /\ DiskType' /\ MemoryType'
    BY DEF TypeOK, KubeletType, DiskType, MemoryType, Known
  <2>2. ControlType'
    BY DEF TypeOK, ControlType, WatchSteps
  <2>3. BoundType'
    BY NodeAssumption DEF TypeOK, BoundType
  <2> QED
    BY <2>1, <2>2, <2>3 DEF TypeOK
<1>2. LockInv'
  BY DEF NodeInv, LockInv, TypeOK, ControlType
<1>3. StoreInv' /\ DownInv'
  BY DEF NodeInv, LockInv, StoreInv, DownInv, TypeOK, ControlType, DiskType,
         MemoryType, RepositoryServesTrees
<1>4. ASSUME NEW w \in Volumes
      PROVE  (CallInv(w) /\ VolInv(w) /\ WatchInv(w))'
  BY DEF NodeInv, CallInv, VolInv, WatchInv, TypeOK, KubeletType, DiskType,
         MemoryType, ControlType
<1> QED
  BY <1>1, <1>2, <1>3, <1>4 DEF NodeInv

\* The end of an unstage.
LEMMA DisarmKeeps ==
    ASSUME TypeOK, NodeInv, NEW v \in Volumes, disarm(v)
    PROVE  TypeOK' /\ NodeInv'
<1> USE DEF disarm, Answer
<1>1. TypeOK'
  BY NodeAssumption DEF TypeOK, KubeletType, DiskType, MemoryType, ControlType,
                        WatchSteps, BoundType, Known
<1>2. LockInv'
  BY DEF NodeInv, LockInv, TypeOK, ControlType
<1>3. StoreInv' /\ DownInv'
  BY DEF NodeInv, LockInv, StoreInv, DownInv, TypeOK, ControlType, DiskType,
         MemoryType, RepositoryServesTrees
<1>4. ASSUME NEW w \in Volumes
      PROVE  (CallInv(w) /\ VolInv(w) /\ WatchInv(w))'
  BY DEF NodeInv, CallInv, VolInv, WatchInv, TypeOK, KubeletType, DiskType,
         MemoryType, ControlType
<1> QED
  BY <1>1, <1>2, <1>3, <1>4 DEF NodeInv

\* A timer of the watcher.
LEMMA TimerKeeps ==
    ASSUME TypeOK, NodeInv, NEW v \in Volumes, Timer(v)
    PROVE  TypeOK' /\ NodeInv'
<1> USE DEF Timer
<1>1. TypeOK'
  BY NodeAssumption DEF TypeOK, KubeletType, DiskType, MemoryType, ControlType,
                        WatchSteps, BoundType, Known
<1>2. LockInv'
  BY DEF NodeInv, LockInv, TypeOK, ControlType
<1>3. StoreInv' /\ DownInv'
  BY DEF NodeInv, LockInv, StoreInv, DownInv, TypeOK, ControlType, DiskType,
         MemoryType, RepositoryServesTrees
<1>4. ASSUME NEW w \in Volumes
      PROVE  (CallInv(w) /\ VolInv(w) /\ WatchInv(w))'
  BY DEF NodeInv, CallInv, VolInv, WatchInv, TypeOK, KubeletType, DiskType,
         MemoryType, ControlType
<1> QED
  BY <1>1, <1>2, <1>3, <1>4 DEF NodeInv

\* The commit of a scan.
LEMMA ScanKeeps ==
    ASSUME TypeOK, NodeInv, NEW v \in Volumes, scan(v)
    PROVE  TypeOK' /\ NodeInv'
<1> USE DEF scan, Commits
<1>1. TypeOK'
  <2>1. KubeletType' /\ DiskType' /\ MemoryType'
    BY DEF TypeOK, KubeletType, DiskType, MemoryType, Known
  <2>2. ControlType'
    BY DEF TypeOK, ControlType, WatchSteps
  <2>3. BoundType'
    BY NodeAssumption DEF TypeOK, BoundType
  <2> QED
    BY <2>1, <2>2, <2>3 DEF TypeOK
<1>2. LockInv'
  BY DEF NodeInv, LockInv, TypeOK, ControlType
<1>3. StoreInv' /\ DownInv'
  BY DEF NodeInv, LockInv, StoreInv, DownInv, TypeOK, ControlType, DiskType,
         MemoryType, RepositoryServesTrees
<1>4. ASSUME NEW w \in Volumes
      PROVE  (CallInv(w) /\ VolInv(w) /\ WatchInv(w))'
  BY DEF NodeInv, CallInv, VolInv, WatchInv, TypeOK, KubeletType, DiskType,
         MemoryType, ControlType
<1> QED
  BY <1>1, <1>2, <1>3, <1>4 DEF NodeInv

\* The watcher ends.
LEMMA RunEndsKeeps ==
    ASSUME TypeOK, NodeInv, NEW v \in Volumes, runEnds(v)
    PROVE  TypeOK' /\ NodeInv'
<1> USE DEF runEnds
<1>1. TypeOK'
  BY NodeAssumption DEF TypeOK, KubeletType, DiskType, MemoryType, ControlType,
                        WatchSteps, BoundType, Known
<1>2. LockInv'
  BY DEF NodeInv, LockInv, TypeOK, ControlType
<1>3. StoreInv' /\ DownInv'
  BY DEF NodeInv, LockInv, StoreInv, DownInv, TypeOK, ControlType, DiskType,
         MemoryType, RepositoryServesTrees
<1>4. ASSUME NEW w \in Volumes
      PROVE  (CallInv(w) /\ VolInv(w) /\ WatchInv(w))'
  BY DEF NodeInv, CallInv, VolInv, WatchInv, TypeOK, KubeletType, DiskType,
         MemoryType, ControlType
<1> QED
  BY <1>1, <1>2, <1>3, <1>4 DEF NodeInv

\* The sweep sees a volume the node does not hold.
LEMMA SweepVolumeKeeps ==
    ASSUME TypeOK, NodeInv, NEW v \in Volumes, sweepVolume(v)
    PROVE  TypeOK' /\ NodeInv'
<1> USE DEF sweepVolume
<1>1. TypeOK'
  BY NodeAssumption DEF TypeOK, KubeletType, DiskType, MemoryType, ControlType,
                        WatchSteps, BoundType, Known, Sweeps
<1>2. LockInv'
  BY DEF NodeInv, LockInv, TypeOK, ControlType
<1>3. StoreInv' /\ DownInv'
  BY DEF NodeInv, LockInv, StoreInv, DownInv, TypeOK, ControlType, DiskType,
         MemoryType, RepositoryServesTrees
<1>4. ASSUME NEW w \in Volumes
      PROVE  (CallInv(w) /\ VolInv(w) /\ WatchInv(w))'
  BY DEF NodeInv, CallInv, VolInv, WatchInv, TypeOK, KubeletType, DiskType,
         MemoryType, ControlType
<1> QED
  BY <1>1, <1>2, <1>3, <1>4 DEF NodeInv

\* The push of a call.
LEMMA PushNowByCallKeeps ==
    ASSUME TypeOK, NodeInv, NEW v \in Volumes, pushNow(Call(v))
    PROVE  TypeOK' /\ NodeInv'
<1> USE DEF pushNow, Done, Sent, Answer, markUnstaged
<1>1. TypeOK'
  <2>1. KubeletType' /\ DiskType' /\ MemoryType'
    <3>1. KubeletType'
      BY DEF TypeOK, KubeletType, Known
    <3>2. noted' \in [Volumes -> BOOLEAN]
      <4>1. CASE markUnstaged(v)
        BY <4>1 DEF TypeOK, DiskType
      <4>2. CASE UNCHANGED noted
        BY <4>2 DEF TypeOK, DiskType
      <4> QED
        BY <4>1, <4>2
    <3>3. ahead' \in [Volumes -> BOOLEAN]
      BY DEF TypeOK, DiskType
    <3>4. DiskType' /\ MemoryType'
      BY <3>2, <3>3 DEF TypeOK, DiskType, MemoryType
    <3> QED
      BY <3>1, <3>4
  <2>2. ControlType'
    BY DEF TypeOK, ControlType, WatchSteps
  <2>3. BoundType'
    BY NodeAssumption DEF TypeOK, BoundType
  <2> QED
    BY <2>1, <2>2, <2>3 DEF TypeOK
<1>2. LockInv'
  BY DEF NodeInv, LockInv, TypeOK, ControlType
<1>3. StoreInv' /\ DownInv'
  BY DEF NodeInv, LockInv, StoreInv, DownInv, TypeOK, ControlType, DiskType,
         MemoryType, RepositoryServesTrees
<1>4. ASSUME NEW w \in Volumes
      PROVE  (CallInv(w) /\ VolInv(w) /\ WatchInv(w))'
  BY DEF NodeInv, CallInv, VolInv, WatchInv, TypeOK, KubeletType, DiskType,
         MemoryType, ControlType
<1> QED
  BY <1>1, <1>2, <1>3, <1>4 DEF NodeInv

\* The push of a watcher.
LEMMA PushNowByWatchKeeps ==
    ASSUME TypeOK, NodeInv, NEW v \in Volumes, pushNow(Watch(v))
    PROVE  TypeOK' /\ NodeInv'
<1> USE DEF pushNow, Done, Sent, Answer, markUnstaged
<1>1. TypeOK'
  <2>1. KubeletType' /\ DiskType' /\ MemoryType'
    BY DEF TypeOK, KubeletType, DiskType, MemoryType, Known
  <2>2. ControlType'
    BY DEF TypeOK, ControlType, WatchSteps
  <2>3. BoundType'
    BY NodeAssumption DEF TypeOK, BoundType
  <2> QED
    BY <2>1, <2>2, <2>3 DEF TypeOK
<1>2. LockInv'
  BY DEF NodeInv, LockInv, TypeOK, ControlType
<1>3. StoreInv' /\ DownInv'
  BY DEF NodeInv, LockInv, StoreInv, DownInv, TypeOK, ControlType, DiskType,
         MemoryType, RepositoryServesTrees
<1>4. ASSUME NEW w \in Volumes
      PROVE  (CallInv(w) /\ VolInv(w) /\ WatchInv(w))'
  BY DEF NodeInv, CallInv, VolInv, WatchInv, TypeOK, KubeletType, DiskType,
         MemoryType, ControlType
<1> QED
  BY <1>1, <1>2, <1>3, <1>4 DEF NodeInv

\* A push takes the repository's lock.
LEMMA FetchLockByCallKeeps ==
    ASSUME TypeOK, NodeInv, NEW v \in Volumes, fetchLock(Call(v))
    PROVE  TypeOK' /\ NodeInv'
<1> USE DEF fetchLock
<1>1. TypeOK'
  BY NodeAssumption DEF TypeOK, KubeletType, DiskType, MemoryType, ControlType,
                        WatchSteps, BoundType, Known
<1>2. LockInv'
  BY DEF NodeInv, LockInv, TypeOK, ControlType
<1>3. StoreInv' /\ DownInv'
  BY DEF NodeInv, LockInv, StoreInv, DownInv, TypeOK, ControlType, DiskType,
         MemoryType, RepositoryServesTrees
<1>4. ASSUME NEW w \in Volumes
      PROVE  (CallInv(w) /\ VolInv(w) /\ WatchInv(w))'
  BY DEF NodeInv, CallInv, VolInv, WatchInv, TypeOK, KubeletType, DiskType,
         MemoryType, ControlType
<1> QED
  BY <1>1, <1>2, <1>3, <1>4 DEF NodeInv

\* The same for a watcher.
LEMMA FetchLockByWatchKeeps ==
    ASSUME TypeOK, NodeInv, NEW v \in Volumes, fetchLock(Watch(v))
    PROVE  TypeOK' /\ NodeInv'
<1> USE DEF fetchLock
<1>1. TypeOK'
  BY NodeAssumption DEF TypeOK, KubeletType, DiskType, MemoryType, ControlType,
                        WatchSteps, BoundType, Known
<1>2. LockInv'
  BY DEF NodeInv, LockInv, TypeOK, ControlType
<1>3. StoreInv' /\ DownInv'
  BY DEF NodeInv, LockInv, StoreInv, DownInv, TypeOK, ControlType, DiskType,
         MemoryType, RepositoryServesTrees
<1>4. ASSUME NEW w \in Volumes
      PROVE  (CallInv(w) /\ VolInv(w) /\ WatchInv(w))'
  BY DEF NodeInv, CallInv, VolInv, WatchInv, TypeOK, KubeletType, DiskType,
         MemoryType, ControlType
<1> QED
  BY <1>1, <1>2, <1>3, <1>4 DEF NodeInv

\* The fetch of a push.
LEMMA FetchUpstreamByCallKeeps ==
    ASSUME TypeOK, NodeInv, NEW v \in Volumes, fetchUpstream(Call(v))
    PROVE  TypeOK' /\ NodeInv'
<1> USE DEF fetchUpstream
<1>1. TypeOK'
  BY NodeAssumption DEF TypeOK, KubeletType, DiskType, MemoryType, ControlType,
                        WatchSteps, BoundType, Known
<1>2. LockInv'
  BY DEF NodeInv, LockInv, TypeOK, ControlType
<1>3. StoreInv' /\ DownInv'
  BY DEF NodeInv, LockInv, StoreInv, DownInv, TypeOK, ControlType, DiskType,
         MemoryType, RepositoryServesTrees
<1>4. ASSUME NEW w \in Volumes
      PROVE  (CallInv(w) /\ VolInv(w) /\ WatchInv(w))'
  BY DEF NodeInv, CallInv, VolInv, WatchInv, TypeOK, KubeletType, DiskType,
         MemoryType, ControlType
<1> QED
  BY <1>1, <1>2, <1>3, <1>4 DEF NodeInv

\* The same for a watcher.
LEMMA FetchUpstreamByWatchKeeps ==
    ASSUME TypeOK, NodeInv, NEW v \in Volumes, fetchUpstream(Watch(v))
    PROVE  TypeOK' /\ NodeInv'
<1> USE DEF fetchUpstream
<1>1. TypeOK'
  BY NodeAssumption DEF TypeOK, KubeletType, DiskType, MemoryType, ControlType,
                        WatchSteps, BoundType, Known
<1>2. LockInv'
  BY DEF NodeInv, LockInv, TypeOK, ControlType
<1>3. StoreInv' /\ DownInv'
  BY DEF NodeInv, LockInv, StoreInv, DownInv, TypeOK, ControlType, DiskType,
         MemoryType, RepositoryServesTrees
<1>4. ASSUME NEW w \in Volumes
      PROVE  (CallInv(w) /\ VolInv(w) /\ WatchInv(w))'
  BY DEF NodeInv, CallInv, VolInv, WatchInv, TypeOK, KubeletType, DiskType,
         MemoryType, ControlType
<1> QED
  BY <1>1, <1>2, <1>3, <1>4 DEF NodeInv

\* The push after the fetch.
LEMMA ResendByCallKeeps ==
    ASSUME TypeOK, NodeInv, NEW v \in Volumes, resend(Call(v))
    PROVE  TypeOK' /\ NodeInv'
<1> USE DEF resend, Done, Sent, Answer, markUnstaged
<1>1. TypeOK'
  <2>1. KubeletType' /\ DiskType' /\ MemoryType'
    <3>1. KubeletType'
      BY DEF TypeOK, KubeletType, Known
    <3>2. noted' \in [Volumes -> BOOLEAN]
      <4>1. CASE markUnstaged(v)
        BY <4>1 DEF TypeOK, DiskType
      <4>2. CASE UNCHANGED noted
        BY <4>2 DEF TypeOK, DiskType
      <4> QED
        BY <4>1, <4>2
    <3>3. ahead' \in [Volumes -> BOOLEAN]
      BY DEF TypeOK, DiskType
    <3>4. DiskType' /\ MemoryType'
      BY <3>2, <3>3 DEF TypeOK, DiskType, MemoryType
    <3> QED
      BY <3>1, <3>4
  <2>2. ControlType'
    BY DEF TypeOK, ControlType, WatchSteps
  <2>3. BoundType'
    BY NodeAssumption DEF TypeOK, BoundType
  <2> QED
    BY <2>1, <2>2, <2>3 DEF TypeOK
<1>2. LockInv'
  BY DEF NodeInv, LockInv, TypeOK, ControlType
<1>3. StoreInv' /\ DownInv'
  BY DEF NodeInv, LockInv, StoreInv, DownInv, TypeOK, ControlType, DiskType,
         MemoryType, RepositoryServesTrees
<1>4. ASSUME NEW w \in Volumes
      PROVE  (CallInv(w) /\ VolInv(w) /\ WatchInv(w))'
  BY DEF NodeInv, CallInv, VolInv, WatchInv, TypeOK, KubeletType, DiskType,
         MemoryType, ControlType
<1> QED
  BY <1>1, <1>2, <1>3, <1>4 DEF NodeInv

\* The same for a watcher.
LEMMA ResendByWatchKeeps ==
    ASSUME TypeOK, NodeInv, NEW v \in Volumes, resend(Watch(v))
    PROVE  TypeOK' /\ NodeInv'
<1> USE DEF resend, Done, Sent, Answer, markUnstaged
<1>1. TypeOK'
  <2>1. KubeletType' /\ DiskType' /\ MemoryType'
    BY DEF TypeOK, KubeletType, DiskType, MemoryType, Known
  <2>2. ControlType'
    BY DEF TypeOK, ControlType, WatchSteps
  <2>3. BoundType'
    BY NodeAssumption DEF TypeOK, BoundType
  <2> QED
    BY <2>1, <2>2, <2>3 DEF TypeOK
<1>2. LockInv'
  BY DEF NodeInv, LockInv, TypeOK, ControlType
<1>3. StoreInv' /\ DownInv'
  BY DEF NodeInv, LockInv, StoreInv, DownInv, TypeOK, ControlType, DiskType,
         MemoryType, RepositoryServesTrees
<1>4. ASSUME NEW w \in Volumes
      PROVE  (CallInv(w) /\ VolInv(w) /\ WatchInv(w))'
  BY DEF NodeInv, CallInv, VolInv, WatchInv, TypeOK, KubeletType, DiskType,
         MemoryType, ControlType
<1> QED
  BY <1>1, <1>2, <1>3, <1>4 DEF NodeInv

\* The sweep reads the directory.
LEMMA EvidenceKeeps ==
    ASSUME TypeOK, NodeInv, evidence
    PROVE  TypeOK' /\ NodeInv'
<1> USE DEF evidence
<1>1. TypeOK'
  BY NodeAssumption DEF TypeOK, KubeletType, DiskType, MemoryType, ControlType,
                        WatchSteps, BoundType, Known, Sweeps
<1>2. UNCHANGED <<pc, mu, repoMu>> /\ sweep'.pc # "uses" /\ sweep.pc # "uses"
  BY DEF TypeOK, ControlType, Sweeps
<1>3. LockInv'
  BY <1>2 DEF NodeInv, LockInv, TypeOK, ControlType
<1>4. StoreInv' /\ DownInv'
  BY DEF NodeInv, LockInv, StoreInv, DownInv, TypeOK, ControlType, DiskType,
         MemoryType, RepositoryServesTrees
<1>5. ASSUME NEW w \in Volumes
      PROVE  (CallInv(w) /\ VolInv(w) /\ WatchInv(w))'
  BY DEF NodeInv, CallInv, VolInv, WatchInv, TypeOK, KubeletType, DiskType,
         MemoryType, ControlType
<1> QED
  BY <1>1, <1>3, <1>4, <1>5 DEF NodeInv

\* The sweep removes it.
LEMMA RemoveKeeps ==
    ASSUME TypeOK, NodeInv, remove
    PROVE  TypeOK' /\ NodeInv'
<1> USE DEF remove
<1>1. TypeOK'
  BY NodeAssumption DEF TypeOK, KubeletType, DiskType, MemoryType, ControlType,
                        WatchSteps, BoundType, Known, Sweeps
<1>2. LockInv'
  BY DEF NodeInv, LockInv, TypeOK, ControlType
<1>3. StoreInv' /\ DownInv'
  BY DEF NodeInv, LockInv, StoreInv, DownInv, TypeOK, ControlType, DiskType,
         MemoryType, RepositoryServesTrees
<1>4. ASSUME NEW w \in Volumes
      PROVE  (CallInv(w) /\ VolInv(w) /\ WatchInv(w))'
  BY DEF NodeInv, CallInv, VolInv, WatchInv, TypeOK, KubeletType, DiskType,
         MemoryType, ControlType
<1> QED
  BY <1>1, <1>2, <1>3, <1>4 DEF NodeInv

\* The sweep takes the repository's lock.
LEMMA SweepRepositoryKeeps ==
    ASSUME TypeOK, NodeInv, sweepRepository
    PROVE  TypeOK' /\ NodeInv'
<1> USE DEF sweepRepository
<1>1. TypeOK'
  BY NodeAssumption DEF TypeOK, KubeletType, DiskType, MemoryType, ControlType,
                        WatchSteps, BoundType, Known, Sweeps
<1>2. LockInv'
  BY DEF NodeInv, LockInv, TypeOK, ControlType
<1>3. StoreInv' /\ DownInv'
  BY DEF NodeInv, LockInv, StoreInv, DownInv, TypeOK, ControlType, DiskType,
         MemoryType, RepositoryServesTrees
<1>4. ASSUME NEW w \in Volumes
      PROVE  (CallInv(w) /\ VolInv(w) /\ WatchInv(w))'
  BY DEF NodeInv, CallInv, VolInv, WatchInv, TypeOK, KubeletType, DiskType,
         MemoryType, ControlType
<1> QED
  BY <1>1, <1>2, <1>3, <1>4 DEF NodeInv

\* The sweep keeps or removes the repository.
LEMMA UsesRepositoryKeeps ==
    ASSUME TypeOK, NodeInv, usesRepository
    PROVE  TypeOK' /\ NodeInv'
<1> USE DEF usesRepository, Used, UsedByVolumes
<1>1. TypeOK'
  BY NodeAssumption DEF TypeOK, KubeletType, DiskType, MemoryType, ControlType,
                        WatchSteps, BoundType, Known, Sweeps
<1>2. LockInv'
  BY DEF NodeInv, LockInv, TypeOK, ControlType
<1>3. StoreInv' /\ DownInv'
  BY DEF NodeInv, LockInv, StoreInv, DownInv, TypeOK, ControlType, DiskType,
         MemoryType, RepositoryServesTrees
<1>4. ASSUME NEW w \in Volumes
      PROVE  (CallInv(w) /\ VolInv(w) /\ WatchInv(w))'
  BY DEF NodeInv, CallInv, VolInv, WatchInv, TypeOK, KubeletType, DiskType,
         MemoryType, ControlType
<1> QED
  BY <1>1, <1>2, <1>3, <1>4 DEF NodeInv

\* A kill.
LEMMA CrashKeeps ==
    ASSUME TypeOK, NodeInv, Crash
    PROVE  TypeOK' /\ NodeInv'
<1> USE DEF Crash
<1>1. TypeOK'
  <2>1. KubeletType' /\ DiskType' /\ MemoryType'
    BY DEF TypeOK, KubeletType, DiskType, MemoryType, Known
  <2>2. ControlType'
    BY DEF TypeOK, ControlType, WatchSteps, Sweeps
  <2>3. BoundType'
    <3>1. crashes' \in 0..MaxCrashes
      BY NodeAssumption DEF TypeOK, BoundType
    <3>2. up' \in BOOLEAN /\ faults' \in 0..MaxFaults
      BY DEF TypeOK, BoundType
    <3> QED
      BY <3>1, <3>2 DEF BoundType
  <2> QED
    BY <2>1, <2>2, <2>3 DEF TypeOK
<1>2. LockInv'
  BY DEF NodeInv, LockInv, TypeOK, ControlType
<1>3. StoreInv' /\ DownInv'
  BY DEF NodeInv, LockInv, StoreInv, DownInv, TypeOK, ControlType, DiskType,
         MemoryType, RepositoryServesTrees
<1>4. ASSUME NEW w \in Volumes
      PROVE  (CallInv(w) /\ VolInv(w) /\ WatchInv(w))'
  BY DEF NodeInv, CallInv, VolInv, WatchInv, TypeOK, KubeletType, DiskType,
         MemoryType, ControlType
<1> QED
  BY <1>1, <1>2, <1>3, <1>4 DEF NodeInv

\* A restart.
LEMMA ResumeKeeps ==
    ASSUME TypeOK, NodeInv, resume
    PROVE  TypeOK' /\ NodeInv'
<1> USE DEF resume, Watched, Resumed
<1>1. TypeOK'
  BY NodeAssumption DEF TypeOK, KubeletType, DiskType, MemoryType, ControlType,
                        WatchSteps, BoundType, Known
<1>2. ASSUME NEW w \in Volumes
      PROVE  /\ pc'[Call(w)] = "none"
             /\ pc'[Watch(w)] = IF w \in Resumed THEN "commit" ELSE "none"
  BY DEF TypeOK, ControlType
<1>3. LockInv'
  <2> HIDE DEF resume, Watched, Resumed
  <2>1. UNCHANGED <<mu, repoMu, sweep>> /\ ~up
    BY DEF resume
  <2> QED
    BY <1>2, <2>1 DEF DownInv, NodeInv, LockInv, TypeOK, ControlType
<1>4. StoreInv' /\ DownInv'
  BY DEF NodeInv, LockInv, StoreInv, DownInv, TypeOK, ControlType, DiskType,
         MemoryType, RepositoryServesTrees
<1>5. ASSUME NEW w \in Volumes
      PROVE  (CallInv(w) /\ VolInv(w) /\ WatchInv(w))'
  <2>1. CallInv(w)'
    BY DEF NodeInv, CallInv, VolInv, TypeOK, KubeletType, DiskType,
           MemoryType, ControlType
  <2>2. VolInv(w)'
    BY DEF NodeInv, CallInv, VolInv, TypeOK, KubeletType, DiskType,
           MemoryType, ControlType
  <2>3. WatchInv(w)'
    BY <1>2 DEF NodeInv, DownInv, WatchInv, TypeOK, MemoryType, ControlType
  <2> QED
    BY <2>1, <2>2, <2>3
<1> QED
  BY <1>1, <1>3, <1>4, <1>5 DEF NodeInv

-----------------------------------------------------------------------------
(* The properties *)

\* The invariant holds at first and is kept.
LEMMA NodeInit == Init => TypeOK /\ NodeInv
<1> SUFFICES ASSUME Init
             PROVE  TypeOK /\ NodeInv
  OBVIOUS
<1> USE DEF Init
<1>1. TypeOK
  <2>1. KubeletType /\ DiskType /\ MemoryType
    BY DEF KubeletType, DiskType, MemoryType, Known
  <2>2. ControlType
    BY DEF ControlType, WatchSteps, Sweeps
  <2>3. BoundType
    BY NodeAssumption DEF BoundType
  <2> QED
    BY <2>1, <2>2, <2>3 DEF TypeOK
<1>2. LockInv /\ StoreInv /\ DownInv
  BY DEF LockInv, StoreInv, DownInv, RepositoryServesTrees
<1>3. ASSUME NEW v \in Volumes
      PROVE  CallInv(v) /\ VolInv(v) /\ WatchInv(v)
  BY DEF CallInv, VolInv, WatchInv
<1> QED
  BY <1>1, <1>2, <1>3 DEF NodeInv

LEMMA NodeStep == TypeOK /\ NodeInv /\ [Next]_vars => TypeOK' /\ NodeInv'
<1> SUFFICES ASSUME TypeOK, NodeInv, [Next]_vars
             PROVE  TypeOK' /\ NodeInv'
  OBVIOUS
<1>1. CASE UNCHANGED vars
  BY <1>1 DEF vars, TypeOK, KubeletType, DiskType, MemoryType, ControlType,
              BoundType, NodeInv, LockInv, StoreInv, DownInv, CallInv, VolInv,
              WatchInv, RepositoryServesTrees
<1>2. ASSUME NEW v \in Volumes,
             KubeletStep(v) \/ CallStep(v) \/ CallLocks(v)
      PROVE  TypeOK' /\ NodeInv'
  BY <1>2, NodeStageVolumeKeeps, PublishStagedKeeps, NodeUnpublishVolumeKeeps,
     NodeUnstageVolumeKeeps, FetchRefKeeps, ReconcileKeeps, BindKeeps,
     RecordKeeps, UnwatchKeeps, UnbindKeeps, ForgetKeeps, LastCommitKeeps,
     PushNowByCallKeeps, FetchUpstreamByCallKeeps, ResendByCallKeeps,
     StageTreeKeeps, NoteAbandonedKeeps, HoldKeeps, WatchKeeps, DisarmKeeps,
     FetchLockByCallKeeps
     DEF KubeletStep, CallStep, CallLocks
<1>3. ASSUME NEW v \in Volumes,
             \/ Timer(v) \/ WatchStep(v) \/ fetchLock(Watch(v)) \/ runEnds(v)
             \/ PodStops(v) \/ sweepVolume(v)
      PROVE  TypeOK' /\ NodeInv'
  BY <1>3, TimerKeeps, ScanKeeps, PushNowByWatchKeeps,
     FetchUpstreamByWatchKeeps, ResendByWatchKeeps, FetchLockByWatchKeeps,
     RunEndsKeeps, PodStopsKeeps, SweepVolumeKeeps DEF WatchStep
<1>4. CASE \/ evidence \/ remove \/ sweepRepository \/ usesRepository
           \/ Crash \/ resume
  BY <1>4, EvidenceKeeps, RemoveKeeps, SweepRepositoryKeeps,
     UsesRepositoryKeeps, CrashKeeps, ResumeKeeps
<1> QED
  BY <1>1, <1>2, <1>3, <1>4 DEF Next

\* The inductive invariant of the node holds through every call, loop, sweep,
\* kill and resume (node.go, watch.go, sweep.go, records.go).
THEOREM NodeInvariant == Spec => [](TypeOK /\ NodeInv)
  BY NodeInit, NodeStep, PTL DEF Spec

\* The state of the kubelet, the driver and the disk is well typed, and no
\* watcher is where only a call can be.
THEOREM NodeTyped == Spec => []TypeOK
  BY NodeInvariant, PTL

\* One goroutine at a time runs git in a work tree (unwatch, unstage,
\* resume).
THEOREM OneWorkerPerTree == Spec => []OneAtATime
<1>1. NodeInv => OneAtATime
  <2> SUFFICES ASSUME NodeInv, NEW v \in Volumes,
                      pc[Call(v)] \in TreeWork, pc[Watch(v)] \in TreeWork
               PROVE  FALSE
    BY DEF OneAtATime
  <2>1. v \in published \/ pc[Call(v)] = "reconcile"
    BY DEF NodeInv, WatchInv, TreeWork
  <2> QED
    BY <2>1 DEF NodeInv, CallInv, WatchInv, TreeWork
<1> QED
  BY <1>1, NodeInvariant, PTL

\* A mount on record has a watcher, through failed calls, kills and restarts
\* (publishStaged, resume).
THEOREM MountsWatched == Spec => []MountedIsWatched
<1>1. NodeInv => MountedIsWatched
  BY DEF NodeInv, MountedIsWatched, VolInv, WatchInv
<1> QED
  BY <1>1, NodeInvariant, PTL

\* An unpublished volume is bound nowhere and watched by nobody
\* (NodeUnpublishVolume, unwatch).
THEOREM UnpublishedLeft == Spec => []UnpublishedIsLeft
<1>1. NodeInv => UnpublishedIsLeft
  BY DEF NodeInv, UnpublishedIsLeft, VolInv, WatchInv, CallInv
<1> QED
  BY <1>1, NodeInvariant, PTL

\* The bare repository stays while a work tree reads its objects
\* (sweepRepository, stageTree).
THEOREM RepositoryKept == Spec => []RepositoryServesTrees
<1>1. NodeInv => RepositoryServesTrees
  BY DEF NodeInv, StoreInv
<1> QED
  BY <1>1, NodeInvariant, PTL

-----------------------------------------------------------------------------
(* Who waits for whom *)

\* A goroutine that runs waits for nobody but itself.
LEMMA RunsOn == ASSUME NEW a, Runs(a) PROVE On(a) = a
  BY DEF Runs

\* The holder of the repository's lock runs, or waits for node.mu.
LEMMA RepoHolder ==
    ASSUME TypeOK, NodeInv, repoMu # Free
    PROVE  \/ Runs(repoMu)
           \/ /\ mu # Free /\ On(repoMu) = mu
              /\ \/ sweep.pc = "uses"
                 \/ \E w \in Volumes : At(Call(w), "noteAbandoned")
<1>1. CASE repoMu = Sweeper
  BY <1>1 DEF NodeInv, LockInv, On, Runs
<1>2. ASSUME NEW w \in Volumes, repoMu = Call(w)
      PROVE  \/ Runs(Call(w))
             \/ mu # Free /\ On(Call(w)) = mu /\ At(Call(w), "noteAbandoned")
  <2>1. pc[Call(w)] \in RepoHeld
    BY <1>2 DEF NodeInv, LockInv
  <2> QED
    BY <2>1 DEF On, Runs, MuSteps, RepoSteps
<1>3. ASSUME NEW w \in Volumes, repoMu = Watch(w)
      PROVE  Runs(Watch(w))
  <2>1. At(Watch(w), "fetching")
    BY <1>3 DEF NodeInv, LockInv
  <2> QED
    BY <2>1 DEF On, Runs, MuSteps, RepoSteps
<1> QED
  BY <1>1, <1>2, <1>3 DEF TypeOK, ControlType

\* Behind node.mu stands unwatch, behind it the watcher, and behind that
\* one at most the holder of the repository's lock.
LEMMA MuHolder ==
    ASSUME TypeOK, NodeInv, mu # Free, ~Circle
    PROVE  Runs(On(On(mu)))
<1>1. PICK v \in Volumes : mu = Call(v)
  BY DEF TypeOK, ControlType, NodeInv, LockInv
<1>2. At(Call(v), "wait") /\ cancelled[v]
  BY <1>1 DEF NodeInv, LockInv, WatchInv
<1>3. CASE Ended(v)
  <2>1. Runs(mu)
    BY <1>1, <1>2, <1>3 DEF On, Runs, MuSteps, RepoSteps
  <2> QED
    BY <2>1, RunsOn
<1>4. CASE ~Ended(v)
  <2>1. On(mu) = Watch(v)
    BY <1>1, <1>2, <1>4 DEF On, MuSteps, RepoSteps
  <2>2. pc[Watch(v)] \in WatchSteps \ { "none" }
    BY <1>4 DEF TypeOK, ControlType, Ended
  <2>3. CASE At(Watch(v), "fetch") /\ repoMu # Free
    <3>1. On(Watch(v)) = repoMu
      BY <2>3 DEF On, MuSteps, RepoSteps
    <3>2. Runs(repoMu)
      BY <1>2, <2>3, RepoHolder DEF Circle
    <3> QED
      BY <2>1, <3>1, <3>2
  <2>4. CASE ~(At(Watch(v), "fetch") /\ repoMu # Free)
    <3>1. Runs(Watch(v))
      BY <1>2, <2>2, <2>4 DEF On, Runs, MuSteps, RepoSteps, WatchSteps
    <3> QED
      BY <2>1, <3>1, RunsOn
  <2> QED
    BY <2>3, <2>4
<1> QED
  BY <1>3, <1>4

\* Every wait ends at a goroutine that runs, except in the one circle of
\* unwatch, fetchUpstream, and a holder of the repository's lock that waits
\* for node.mu.
THEOREM WaitsComeToAnEnd == Spec => []WaitsEnd
<1>1. ASSUME TypeOK, NodeInv
      PROVE  WaitsEnd
  <2> SUFFICES ASSUME NEW a \in Actors \cup { Sweeper }, On(a) # a, ~Circle
               PROVE  Runs(On(On(On(On(a)))))
    BY DEF WaitsEnd
  <2>1. CASE mu # Free /\ On(a) = mu
    BY <1>1, <2>1, MuHolder, RunsOn
  <2>2. CASE repoMu # Free /\ On(a) = repoMu
    <3>1. CASE Runs(repoMu)
      BY <2>2, <3>1, RunsOn
    <3>2. CASE mu # Free /\ On(repoMu) = mu
      BY <1>1, <2>2, <3>2, MuHolder
    <3> QED
      BY <1>1, <2>2, <3>1, <3>2, RepoHolder
  <2>3. ASSUME NEW v \in Volumes, a = Call(v), At(a, "wait")
        PROVE  Runs(On(On(On(On(a)))))
    <3>1. mu = a
      BY <1>1, <2>3 DEF NodeInv, LockInv
    <3> QED
      BY <1>1, <2>3, <3>1, MuHolder, RunsOn
  <2>4. \A v \in Volumes : ~At(Watch(v), "wait")
    BY <1>1 DEF TypeOK, ControlType, WatchSteps
  <2>5. \/ mu # Free /\ On(a) = mu
        \/ repoMu # Free /\ On(a) = repoMu
        \/ a \in Actors /\ At(a, "wait")
    BY DEF On
  <2> QED
    BY <2>1, <2>2, <2>3, <2>4, <2>5
<1> QED
  BY <1>1, NodeInvariant, PTL

=============================================================================
