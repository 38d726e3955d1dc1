------------------------- MODULE ReadOnlyTreeProofs -------------------------
(***************************************************************************)
(* Proofs about ReadOnlyTree, for any number of claims, inline volumes,    *)
(* targets, entries and commits, and any number of faults, kills and moves *)
(* of the ref: the type invariant, what pods that read rely on, and that a *)
(* report of a commit is true.                                             *)
(***************************************************************************)
EXTENDS ReadOnlyTree, WellFoundedInduction, TLAPS

-----------------------------------------------------------------------------
(* Which steps touch what *)

\* The steps that change the remote and the store's copy.
LEMMA RemoteFrame ==
    ASSUME [Next]_vars
    PROVE  \/ UNCHANGED remoteVars
           \/ RemoteMoves
           \/ \E v \in Volumes : StageFetch(v) \/ PassFetches(v)
<1> USE DEF remoteVars, treeVars, recordVars, kubeletVars, memoryVars, reportVars,
            callVars, passVars
<1>1. CASE \/ \E v \in Volumes : \/ StageClaim(v) \/ StageStale(v) \/ StageRefused(v)
                                 \/ CallFailed(v)
  BY <1>1 DEF StageClaim, StageStale, StagePlaces, StageRefused, CallFailed
<1>2. CASE \/ \E v \in Volumes : \/ Bind(v) \/ BindFails(v) \/ Record(v) \/ Rewrite(v)
                                 \/ Forget(v) \/ Hold(v)
  BY <1>2 DEF Bind, BindFails, Record, RecordTargets, Rewrite, Forget, Hold
<1>3. CASE \/ \E v \in Volumes : \/ Unmount(v) \/ UnmountFails(v) \/ UnstageClaim(v)
                                 \/ RemoveVolume(v)
  BY <1>3 DEF Unmount, UnmountFails, UnstageClaim, RemoveVolume
<1>4. CASE \/ \E t \in Targets : \/ PublishAgain(t) \/ PublishInline(t)
                                 \/ PublishClaim(t) \/ UnpublishClaim(t)
                                 \/ UnpublishInline(t)
  BY <1>4 DEF PublishAgain, PublishInline, PublishClaim, UnpublishClaim, UnpublishInline
<1>5. CASE \/ PlaceStep \/ Placed \/ PlaceFails
  BY <1>5 DEF PlaceStep, Placed, PlaceFails
<1>6. CASE \/ PassBegins \/ PassEnds
           \/ \E v \in Volumes : PassFetchFails(v)
  BY <1>6 DEF PassBegins, PassFetchFails, PassEnds
<1>7. CASE \/ Crash \/ Reboot \/ Resume
  BY <1>7 DEF Crash, Stop, Reboot, Resume
<1>8. CASE UNCHANGED vars
  BY <1>8 DEF vars
<1> HIDE DEF remoteVars, treeVars, recordVars, kubeletVars, memoryVars, reportVars,
             callVars, passVars
<1> QED
  BY <1>1, <1>2, <1>3, <1>4, <1>5, <1>6, <1>7, <1>8
     DEF Next, CallStep, KubeletCalls, PassStep

\* The steps that change the trees.
LEMMA TreeFrame ==
    ASSUME [Next]_vars
    PROVE  \/ UNCHANGED treeVars
           \/ PlaceStep \/ Placed \/ Resume
           \/ \E v \in Volumes : CallFailed(v) \/ RemoveVolume(v)
<1> USE DEF remoteVars, treeVars, recordVars, kubeletVars, memoryVars, reportVars,
            callVars, passVars
<1>1. CASE \/ \E v \in Volumes : \/ StageClaim(v) \/ StageFetch(v) \/ StageStale(v)
                                 \/ StageRefused(v)
  BY <1>1 DEF StageClaim, StageFetch, StagePlaces, StageStale, StageRefused
<1>2. CASE \/ \E v \in Volumes : \/ Bind(v) \/ BindFails(v) \/ Record(v) \/ Rewrite(v)
                                 \/ Forget(v) \/ Hold(v)
  BY <1>2 DEF Bind, BindFails, Record, RecordTargets, Rewrite, Forget, Hold
<1>3. CASE \/ \E v \in Volumes : Unmount(v) \/ UnmountFails(v) \/ UnstageClaim(v)
  BY <1>3 DEF Unmount, UnmountFails, UnstageClaim
<1>4. CASE \/ \E t \in Targets : \/ PublishAgain(t) \/ PublishInline(t)
                                 \/ PublishClaim(t) \/ UnpublishClaim(t)
                                 \/ UnpublishInline(t)
  BY <1>4 DEF PublishAgain, PublishInline, PublishClaim, UnpublishClaim, UnpublishInline
<1>5. CASE \/ PlaceFails
  BY <1>5 DEF PlaceFails
<1>6. CASE \/ PassBegins \/ PassEnds
           \/ \E v \in Volumes : PassFetches(v) \/ PassFetchFails(v)
  BY <1>6 DEF PassBegins, PassFetches, PassFetchFails, PassEnds
<1>7. CASE \/ RemoteMoves \/ Crash \/ Reboot
  BY <1>7 DEF RemoteMoves, Crash, Stop, Reboot
<1>8. CASE UNCHANGED vars
  BY <1>8 DEF vars
<1> HIDE DEF remoteVars, treeVars, recordVars, kubeletVars, memoryVars, reportVars,
             callVars, passVars
<1> QED
  BY <1>1, <1>2, <1>3, <1>4, <1>5, <1>6, <1>7, <1>8
     DEF Next, CallStep, KubeletCalls, PassStep

\* The steps that change the records.
LEMMA RecordFrame ==
    ASSUME [Next]_vars
    PROVE  \/ UNCHANGED recordVars
           \/ Reboot \/ Resume
           \/ \E v \in Volumes : \/ CallFailed(v) \/ Record(v) \/ Rewrite(v)
                                 \/ Forget(v) \/ Hold(v) \/ Unmount(v)
                                 \/ RemoveVolume(v)
<1> USE DEF remoteVars, treeVars, recordVars, kubeletVars, memoryVars, reportVars,
            callVars, passVars
<1>1. CASE \/ \E v \in Volumes : \/ StageClaim(v) \/ StageFetch(v) \/ StageStale(v)
                                 \/ StageRefused(v)
  BY <1>1 DEF StageClaim, StageFetch, StagePlaces, StageStale, StageRefused
<1>2. CASE \/ \E v \in Volumes : Bind(v) \/ BindFails(v)
  BY <1>2 DEF Bind, BindFails
<1>3. CASE \/ \E v \in Volumes : UnmountFails(v) \/ UnstageClaim(v)
  BY <1>3 DEF UnmountFails, UnstageClaim
<1>4. CASE \/ \E t \in Targets : \/ PublishAgain(t) \/ PublishInline(t)
                                 \/ PublishClaim(t) \/ UnpublishClaim(t)
                                 \/ UnpublishInline(t)
  BY <1>4 DEF PublishAgain, PublishInline, PublishClaim, UnpublishClaim, UnpublishInline
<1>5. CASE \/ PlaceStep \/ Placed \/ PlaceFails
  BY <1>5 DEF PlaceStep, Placed, PlaceFails
<1>6. CASE \/ PassBegins \/ PassEnds
           \/ \E v \in Volumes : PassFetches(v) \/ PassFetchFails(v)
  BY <1>6 DEF PassBegins, PassFetches, PassFetchFails, PassEnds
<1>7. CASE \/ RemoteMoves \/ Crash
  BY <1>7 DEF RemoteMoves, Crash, Stop
<1>8. CASE UNCHANGED vars
  BY <1>8 DEF vars
<1> HIDE DEF remoteVars, treeVars, recordVars, kubeletVars, memoryVars, reportVars,
             callVars, passVars
<1> QED
  BY <1>1, <1>2, <1>3, <1>4, <1>5, <1>6, <1>7, <1>8
     DEF Next, CallStep, KubeletCalls, PassStep

\* The steps that change the mounts.
LEMMA MountFrame ==
    ASSUME [Next]_vars
    PROVE  \/ UNCHANGED mounts
           \/ Reboot \/ Resume
           \/ \E v \in Volumes : \/ CallFailed(v) \/ Bind(v) \/ BindFails(v)
                                 \/ Unmount(v) \/ UnmountFails(v) \/ RemoveVolume(v)
<1> USE DEF remoteVars, treeVars, recordVars, kubeletVars, memoryVars, reportVars,
            callVars, passVars
<1>1. CASE \/ \E v \in Volumes : \/ StageClaim(v) \/ StageFetch(v) \/ StageStale(v)
                                 \/ StageRefused(v)
  BY <1>1 DEF StageClaim, StageFetch, StagePlaces, StageStale, StageRefused
<1>2. CASE \/ \E v \in Volumes : Record(v) \/ Rewrite(v) \/ Forget(v) \/ Hold(v)
  BY <1>2 DEF Record, RecordTargets, Rewrite, Forget, Hold
<1>3. CASE \/ \E v \in Volumes : UnstageClaim(v)
  BY <1>3 DEF UnstageClaim
<1>4. CASE \/ \E t \in Targets : \/ PublishAgain(t) \/ PublishInline(t)
                                 \/ PublishClaim(t) \/ UnpublishClaim(t)
                                 \/ UnpublishInline(t)
  BY <1>4 DEF PublishAgain, PublishInline, PublishClaim, UnpublishClaim, UnpublishInline
<1>5. CASE \/ PlaceStep \/ Placed \/ PlaceFails
  BY <1>5 DEF PlaceStep, Placed, PlaceFails
<1>6. CASE \/ PassBegins \/ PassEnds
           \/ \E v \in Volumes : PassFetches(v) \/ PassFetchFails(v)
  BY <1>6 DEF PassBegins, PassFetches, PassFetchFails, PassEnds
<1>7. CASE \/ RemoteMoves \/ Crash
  BY <1>7 DEF RemoteMoves, Crash, Stop
<1>8. CASE UNCHANGED vars
  BY <1>8 DEF vars
<1> HIDE DEF remoteVars, treeVars, recordVars, kubeletVars, memoryVars, reportVars,
             callVars, passVars
<1> QED
  BY <1>1, <1>2, <1>3, <1>4, <1>5, <1>6, <1>7, <1>8
     DEF Next, CallStep, KubeletCalls, PassStep

\* The steps that change the pods.
LEMMA KubeletFrame ==
    ASSUME [Next]_vars
    PROVE  \/ UNCHANGED kubeletVars
           \/ Reboot
           \/ \E v \in Volumes : Rewrite(v) \/ Hold(v) \/ Unmount(v)
           \/ \E t \in Targets : \/ PublishAgain(t) \/ PublishInline(t)
                                 \/ PublishClaim(t) \/ UnpublishClaim(t)
                                 \/ UnpublishInline(t)
<1> USE DEF remoteVars, treeVars, recordVars, kubeletVars, memoryVars, reportVars,
            callVars, passVars
<1>1. CASE \/ \E v \in Volumes : \/ StageClaim(v) \/ StageFetch(v) \/ StageStale(v)
                                 \/ StageRefused(v) \/ CallFailed(v)
  BY <1>1 DEF StageClaim, StageFetch, StagePlaces, StageStale, StageRefused, CallFailed
<1>2. CASE \/ \E v \in Volumes : Bind(v) \/ BindFails(v) \/ Record(v) \/ Forget(v)
  BY <1>2 DEF Bind, BindFails, Record, RecordTargets, Forget
<1>3. CASE \/ \E v \in Volumes : \/ UnmountFails(v) \/ UnstageClaim(v)
                                 \/ RemoveVolume(v)
  BY <1>3 DEF UnmountFails, UnstageClaim, RemoveVolume
<1>4. CASE \/ PlaceStep \/ Placed \/ PlaceFails
  BY <1>4 DEF PlaceStep, Placed, PlaceFails
<1>5. CASE \/ PassBegins \/ PassEnds
           \/ \E v \in Volumes : PassFetches(v) \/ PassFetchFails(v)
  BY <1>5 DEF PassBegins, PassFetches, PassFetchFails, PassEnds
<1>6. CASE \/ RemoteMoves \/ Crash \/ Resume
  BY <1>6 DEF RemoteMoves, Crash, Stop, Resume
<1>7. CASE UNCHANGED vars
  BY <1>7 DEF vars
<1> HIDE DEF remoteVars, treeVars, recordVars, kubeletVars, memoryVars, reportVars,
             callVars, passVars
<1> QED
  BY <1>1, <1>2, <1>3, <1>4, <1>5, <1>6, <1>7 DEF Next, CallStep, KubeletCalls, PassStep

\* The steps that change the driver's life.
LEMMA UpFrame ==
    ASSUME [Next]_vars
    PROVE  \/ UNCHANGED up
           \/ Crash \/ Reboot \/ Resume
<1> USE DEF remoteVars, treeVars, recordVars, kubeletVars, memoryVars, reportVars,
            callVars, passVars
<1>1. CASE \/ \E v \in Volumes : \/ StageClaim(v) \/ StageFetch(v) \/ StageStale(v)
                                 \/ StageRefused(v) \/ CallFailed(v)
  BY <1>1 DEF StageClaim, StageFetch, StagePlaces, StageStale, StageRefused, CallFailed
<1>2. CASE \/ \E v \in Volumes : \/ Bind(v) \/ BindFails(v) \/ Record(v) \/ Rewrite(v)
                                 \/ Forget(v) \/ Hold(v)
  BY <1>2 DEF Bind, BindFails, Record, RecordTargets, Rewrite, Forget, Hold
<1>3. CASE \/ \E v \in Volumes : \/ Unmount(v) \/ UnmountFails(v) \/ UnstageClaim(v)
                                 \/ RemoveVolume(v)
  BY <1>3 DEF Unmount, UnmountFails, UnstageClaim, RemoveVolume
<1>4. CASE \/ \E t \in Targets : \/ PublishAgain(t) \/ PublishInline(t)
                                 \/ PublishClaim(t) \/ UnpublishClaim(t)
                                 \/ UnpublishInline(t)
  BY <1>4 DEF PublishAgain, PublishInline, PublishClaim, UnpublishClaim, UnpublishInline
<1>5. CASE \/ PlaceStep \/ Placed \/ PlaceFails
  BY <1>5 DEF PlaceStep, Placed, PlaceFails
<1>6. CASE \/ PassBegins \/ PassEnds
           \/ \E v \in Volumes : PassFetches(v) \/ PassFetchFails(v)
  BY <1>6 DEF PassBegins, PassFetches, PassFetchFails, PassEnds
<1>7. CASE \/ RemoteMoves
  BY <1>7 DEF RemoteMoves
<1>8. CASE UNCHANGED vars
  BY <1>8 DEF vars
<1> HIDE DEF remoteVars, treeVars, recordVars, kubeletVars, memoryVars, reportVars,
             callVars, passVars
<1> QED
  BY <1>1, <1>2, <1>3, <1>4, <1>5, <1>6, <1>7, <1>8
     DEF Next, CallStep, KubeletCalls, PassStep

\* The steps that change what the driver holds.
LEMMA MemoryFrame ==
    ASSUME [Next]_vars
    PROVE  \/ UNCHANGED memoryVars
           \/ Crash \/ Reboot \/ Resume
           \/ \E v \in Volumes : Bind(v) \/ Hold(v) \/ UnstageClaim(v)
           \/ \E t \in Targets : UnpublishClaim(t) \/ UnpublishInline(t)
<1> USE DEF remoteVars, treeVars, recordVars, kubeletVars, memoryVars, reportVars,
            callVars, passVars
<1>1. CASE \/ \E v \in Volumes : \/ StageClaim(v) \/ StageFetch(v) \/ StageStale(v)
                                 \/ StageRefused(v) \/ CallFailed(v)
  BY <1>1 DEF StageClaim, StageFetch, StagePlaces, StageStale, StageRefused, CallFailed
<1>2. CASE \/ \E v \in Volumes : BindFails(v) \/ Record(v) \/ Rewrite(v) \/ Forget(v)
  BY <1>2 DEF BindFails, Record, RecordTargets, Rewrite, Forget
<1>3. CASE \/ \E v \in Volumes : Unmount(v) \/ UnmountFails(v) \/ RemoveVolume(v)
  BY <1>3 DEF Unmount, UnmountFails, RemoveVolume
<1>4. CASE \/ \E t \in Targets : \/ PublishAgain(t) \/ PublishInline(t)
                                 \/ PublishClaim(t)
  BY <1>4 DEF PublishAgain, PublishInline, PublishClaim
<1>5. CASE \/ PlaceStep \/ Placed \/ PlaceFails
  BY <1>5 DEF PlaceStep, Placed, PlaceFails
<1>6. CASE \/ PassBegins \/ PassEnds
           \/ \E v \in Volumes : PassFetches(v) \/ PassFetchFails(v)
  BY <1>6 DEF PassBegins, PassFetches, PassFetchFails, PassEnds
<1>7. CASE \/ RemoteMoves
  BY <1>7 DEF RemoteMoves
<1>8. CASE UNCHANGED vars
  BY <1>8 DEF vars
<1> HIDE DEF remoteVars, treeVars, recordVars, kubeletVars, memoryVars, reportVars,
             callVars, passVars
<1> QED
  BY <1>1, <1>2, <1>3, <1>4, <1>5, <1>6, <1>7, <1>8
     DEF Next, CallStep, KubeletCalls, PassStep

\* The steps that change the reports.
LEMMA ReportFrame ==
    ASSUME [Next]_vars
    PROVE  \/ UNCHANGED reportVars
           \/ Placed \/ PlaceFails \/ Crash \/ Reboot \/ Resume
           \/ \E v \in Volumes : \/ StageFetch(v) \/ StageStale(v) \/ StageRefused(v)
                                 \/ PassFetches(v) \/ PassFetchFails(v)
<1> USE DEF remoteVars, treeVars, recordVars, kubeletVars, memoryVars, reportVars,
            callVars, passVars
<1>1. CASE \/ \E v \in Volumes : StageClaim(v) \/ CallFailed(v)
  BY <1>1 DEF StageClaim, CallFailed
<1>2. CASE \/ \E v \in Volumes : \/ Bind(v) \/ BindFails(v) \/ Record(v) \/ Rewrite(v)
                                 \/ Forget(v) \/ Hold(v)
  BY <1>2 DEF Bind, BindFails, Record, RecordTargets, Rewrite, Forget, Hold
<1>3. CASE \/ \E v \in Volumes : \/ Unmount(v) \/ UnmountFails(v) \/ UnstageClaim(v)
                                 \/ RemoveVolume(v)
  BY <1>3 DEF Unmount, UnmountFails, UnstageClaim, RemoveVolume
<1>4. CASE \/ \E t \in Targets : \/ PublishAgain(t) \/ PublishInline(t)
                                 \/ PublishClaim(t) \/ UnpublishClaim(t)
                                 \/ UnpublishInline(t)
  BY <1>4 DEF PublishAgain, PublishInline, PublishClaim, UnpublishClaim, UnpublishInline
<1>5. CASE \/ PlaceStep
  BY <1>5 DEF PlaceStep
<1>6. CASE \/ PassBegins \/ PassEnds
  BY <1>6 DEF PassBegins, PassEnds
<1>7. CASE \/ RemoteMoves
  BY <1>7 DEF RemoteMoves
<1>8. CASE UNCHANGED vars
  BY <1>8 DEF vars
<1> HIDE DEF remoteVars, treeVars, recordVars, kubeletVars, memoryVars, reportVars,
             callVars, passVars
<1> QED
  BY <1>1, <1>2, <1>3, <1>4, <1>5, <1>6, <1>7, <1>8
     DEF Next, CallStep, KubeletCalls, PassStep

\* The steps that change the kubelet's calls.
LEMMA CallFrame ==
    ASSUME [Next]_vars
    PROVE  \/ UNCHANGED callVars
           \/ Placed \/ PlaceFails \/ Crash \/ Reboot
           \/ \E v \in Volumes : \/ StageClaim(v) \/ StageFetch(v) \/ StageStale(v)
                                 \/ StageRefused(v) \/ CallFailed(v) \/ Bind(v)
                                 \/ BindFails(v) \/ Record(v) \/ Rewrite(v) \/ Forget(v)
                                 \/ Hold(v) \/ Unmount(v) \/ UnmountFails(v)
                                 \/ UnstageClaim(v) \/ RemoveVolume(v)
           \/ \E t \in Targets : \/ PublishInline(t) \/ PublishClaim(t)
                                 \/ UnpublishClaim(t) \/ UnpublishInline(t)
<1> USE DEF remoteVars, treeVars, recordVars, kubeletVars, memoryVars, reportVars,
            callVars, passVars
<1>1. CASE \/ \E t \in Targets : PublishAgain(t)
  BY <1>1 DEF PublishAgain
<1>2. CASE \/ PlaceStep
  BY <1>2 DEF PlaceStep
<1>3. CASE \/ PassBegins \/ PassEnds
           \/ \E v \in Volumes : PassFetches(v) \/ PassFetchFails(v)
  BY <1>3 DEF PassBegins, PassFetches, PassFetchFails, PassEnds
<1>4. CASE \/ RemoteMoves \/ Resume
  BY <1>4 DEF RemoteMoves, Resume
<1>5. CASE UNCHANGED vars
  BY <1>5 DEF vars
<1> HIDE DEF remoteVars, treeVars, recordVars, kubeletVars, memoryVars, reportVars,
             callVars, passVars
<1> QED
  BY <1>1, <1>2, <1>3, <1>4, <1>5 DEF Next, CallStep, KubeletCalls, PassStep

\* The steps that change the repository's lock.
LEMMA LockFrame ==
    ASSUME [Next]_vars
    PROVE  \/ UNCHANGED lock
           \/ Placed \/ PlaceFails \/ PassBegins \/ PassEnds \/ Crash \/ Reboot
           \/ \E v \in Volumes : StageFetch(v) \/ StageStale(v)
<1> USE DEF remoteVars, treeVars, recordVars, kubeletVars, memoryVars, reportVars,
            callVars, passVars
<1>1. CASE \/ \E v \in Volumes : StageClaim(v) \/ StageRefused(v) \/ CallFailed(v)
  BY <1>1 DEF StageClaim, StageRefused, CallFailed
<1>2. CASE \/ \E v \in Volumes : \/ Bind(v) \/ BindFails(v) \/ Record(v) \/ Rewrite(v)
                                 \/ Forget(v) \/ Hold(v)
  BY <1>2 DEF Bind, BindFails, Record, RecordTargets, Rewrite, Forget, Hold
<1>3. CASE \/ \E v \in Volumes : \/ Unmount(v) \/ UnmountFails(v) \/ UnstageClaim(v)
                                 \/ RemoveVolume(v)
  BY <1>3 DEF Unmount, UnmountFails, UnstageClaim, RemoveVolume
<1>4. CASE \/ \E t \in Targets : \/ PublishAgain(t) \/ PublishInline(t)
                                 \/ PublishClaim(t) \/ UnpublishClaim(t)
                                 \/ UnpublishInline(t)
  BY <1>4 DEF PublishAgain, PublishInline, PublishClaim, UnpublishClaim, UnpublishInline
<1>5. CASE \/ PlaceStep
  BY <1>5 DEF PlaceStep
<1>6. CASE \/ \E v \in Volumes : PassFetches(v) \/ PassFetchFails(v)
  BY <1>6 DEF PassFetches, PassFetchFails
<1>7. CASE \/ RemoteMoves \/ Resume
  BY <1>7 DEF RemoteMoves, Resume
<1>8. CASE UNCHANGED vars
  BY <1>8 DEF vars
<1> HIDE DEF remoteVars, treeVars, recordVars, kubeletVars, memoryVars, reportVars,
             callVars, passVars
<1> QED
  BY <1>1, <1>2, <1>3, <1>4, <1>5, <1>6, <1>7, <1>8
     DEF Next, CallStep, KubeletCalls, PassStep

\* The steps that change the pass.
LEMMA PassFrame ==
    ASSUME [Next]_vars
    PROVE  \/ UNCHANGED passVars
           \/ PassBegins \/ PassEnds \/ Crash \/ Reboot
           \/ \E v \in Volumes : \/ UnstageClaim(v) \/ PassFetches(v)
                                 \/ PassFetchFails(v)
           \/ \E t \in Targets : UnpublishInline(t)
<1> USE DEF remoteVars, treeVars, recordVars, kubeletVars, memoryVars, reportVars,
            callVars, passVars
<1>1. CASE \/ \E v \in Volumes : \/ StageClaim(v) \/ StageFetch(v) \/ StageStale(v)
                                 \/ StageRefused(v) \/ CallFailed(v)
  BY <1>1 DEF StageClaim, StageFetch, StagePlaces, StageStale, StageRefused, CallFailed
<1>2. CASE \/ \E v \in Volumes : \/ Bind(v) \/ BindFails(v) \/ Record(v) \/ Rewrite(v)
                                 \/ Forget(v) \/ Hold(v)
  BY <1>2 DEF Bind, BindFails, Record, RecordTargets, Rewrite, Forget, Hold, Follow
<1>3. CASE \/ \E v \in Volumes : Unmount(v) \/ UnmountFails(v) \/ RemoveVolume(v)
  BY <1>3 DEF Unmount, UnmountFails, RemoveVolume
<1>4. CASE \/ \E t \in Targets : \/ PublishAgain(t) \/ PublishInline(t)
                                 \/ PublishClaim(t) \/ UnpublishClaim(t)
  BY <1>4 DEF PublishAgain, PublishInline, PublishClaim, UnpublishClaim
<1>5. CASE \/ PlaceStep \/ Placed \/ PlaceFails
  BY <1>5 DEF PlaceStep, Placed, PlaceFails
<1>6. CASE \/ RemoteMoves \/ Resume
  BY <1>6 DEF RemoteMoves, Resume
<1>7. CASE UNCHANGED vars
  BY <1>7 DEF vars
<1> HIDE DEF remoteVars, treeVars, recordVars, kubeletVars, memoryVars, reportVars,
             callVars, passVars
<1> QED
  BY <1>1, <1>2, <1>3, <1>4, <1>5, <1>6, <1>7 DEF Next, CallStep, KubeletCalls, PassStep

\* The steps that change the placement.
LEMMA PlacingFrame ==
    ASSUME [Next]_vars
    PROVE  \/ UNCHANGED placing
           \/ PlaceStep \/ Placed \/ PlaceFails \/ Crash \/ Reboot
           \/ \E v \in Volumes : StageFetch(v) \/ StageStale(v) \/ PassFetches(v)
<1> USE DEF remoteVars, treeVars, recordVars, kubeletVars, memoryVars, reportVars,
            callVars, passVars
<1>1. CASE \/ \E v \in Volumes : StageClaim(v) \/ StageRefused(v) \/ CallFailed(v)
  BY <1>1 DEF StageClaim, StageRefused, CallFailed
<1>2. CASE \/ \E v \in Volumes : \/ Bind(v) \/ BindFails(v) \/ Record(v) \/ Rewrite(v)
                                 \/ Forget(v) \/ Hold(v)
  BY <1>2 DEF Bind, BindFails, Record, RecordTargets, Rewrite, Forget, Hold
<1>3. CASE \/ \E v \in Volumes : \/ Unmount(v) \/ UnmountFails(v) \/ UnstageClaim(v)
                                 \/ RemoveVolume(v)
  BY <1>3 DEF Unmount, UnmountFails, UnstageClaim, RemoveVolume
<1>4. CASE \/ \E t \in Targets : \/ PublishAgain(t) \/ PublishInline(t)
                                 \/ PublishClaim(t) \/ UnpublishClaim(t)
                                 \/ UnpublishInline(t)
  BY <1>4 DEF PublishAgain, PublishInline, PublishClaim, UnpublishClaim, UnpublishInline
<1>5. CASE \/ PassBegins \/ PassEnds
           \/ \E v \in Volumes : PassFetchFails(v)
  BY <1>5 DEF PassBegins, PassFetchFails, PassEnds
<1>6. CASE \/ RemoteMoves \/ Resume
  BY <1>6 DEF RemoteMoves, Resume
<1>7. CASE UNCHANGED vars
  BY <1>7 DEF vars
<1> HIDE DEF remoteVars, treeVars, recordVars, kubeletVars, memoryVars, reportVars,
             callVars, passVars
<1> QED
  BY <1>1, <1>2, <1>3, <1>4, <1>5, <1>6, <1>7 DEF Next, CallStep, KubeletCalls, PassStep

\* The steps that change what a placement left half way.
LEMMA HalfFrame ==
    ASSUME [Next]_vars
    PROVE  \/ UNCHANGED half
           \/ Placed \/ PlaceFails \/ RemoteMoves \/ Crash \/ Reboot \/ Resume
           \/ \E v \in Volumes : CallFailed(v) \/ RemoveVolume(v)
<1> USE DEF remoteVars, treeVars, recordVars, kubeletVars, memoryVars, reportVars,
            callVars, passVars
<1>1. CASE \/ \E v \in Volumes : \/ StageClaim(v) \/ StageFetch(v) \/ StageStale(v)
                                 \/ StageRefused(v)
  BY <1>1 DEF StageClaim, StageFetch, StagePlaces, StageStale, StageRefused
<1>2. CASE \/ \E v \in Volumes : \/ Bind(v) \/ BindFails(v) \/ Record(v) \/ Rewrite(v)
                                 \/ Forget(v) \/ Hold(v)
  BY <1>2 DEF Bind, BindFails, Record, RecordTargets, Rewrite, Forget, Hold
<1>3. CASE \/ \E v \in Volumes : Unmount(v) \/ UnmountFails(v) \/ UnstageClaim(v)
  BY <1>3 DEF Unmount, UnmountFails, UnstageClaim
<1>4. CASE \/ \E t \in Targets : \/ PublishAgain(t) \/ PublishInline(t)
                                 \/ PublishClaim(t) \/ UnpublishClaim(t)
                                 \/ UnpublishInline(t)
  BY <1>4 DEF PublishAgain, PublishInline, PublishClaim, UnpublishClaim, UnpublishInline
<1>5. CASE \/ PlaceStep
  BY <1>5 DEF PlaceStep
<1>6. CASE \/ PassBegins \/ PassEnds
           \/ \E v \in Volumes : PassFetches(v) \/ PassFetchFails(v)
  BY <1>6 DEF PassBegins, PassFetches, PassFetchFails, PassEnds
<1>7. CASE UNCHANGED vars
  BY <1>7 DEF vars
<1> HIDE DEF remoteVars, treeVars, recordVars, kubeletVars, memoryVars, reportVars,
             callVars, passVars
<1> QED
  BY <1>1, <1>2, <1>3, <1>4, <1>5, <1>6, <1>7 DEF Next, CallStep, KubeletCalls, PassStep

\* The steps that change the count of the faults.
LEMMA FaultFrame ==
    ASSUME [Next]_vars
    PROVE  \/ UNCHANGED faults
           \/ PlaceStep \/ PlaceFails \/ Resume
           \/ \E v \in Volumes : \/ StageFetch(v) \/ StageStale(v) \/ StageRefused(v)
                                 \/ Bind(v) \/ BindFails(v) \/ Record(v) \/ Rewrite(v)
                                 \/ Forget(v) \/ UnmountFails(v) \/ PassFetchFails(v)
<1> USE DEF remoteVars, treeVars, recordVars, kubeletVars, memoryVars, reportVars,
            callVars, passVars
<1>1. CASE \/ \E v \in Volumes : StageClaim(v) \/ CallFailed(v)
  BY <1>1 DEF StageClaim, CallFailed, NoFault
<1>2. CASE \/ \E v \in Volumes : Hold(v)
  BY <1>2 DEF Hold, NoFault
<1>3. CASE \/ \E v \in Volumes : Unmount(v) \/ UnstageClaim(v) \/ RemoveVolume(v)
  BY <1>3 DEF Unmount, UnstageClaim, RemoveVolume, NoFault
<1>4. CASE \/ \E t \in Targets : \/ PublishAgain(t) \/ PublishInline(t)
                                 \/ PublishClaim(t) \/ UnpublishClaim(t)
                                 \/ UnpublishInline(t)
  BY <1>4
     DEF PublishAgain, PublishInline, PublishClaim, UnpublishClaim, UnpublishInline,
         NoFault
<1>5. CASE \/ Placed
  BY <1>5 DEF Placed, NoFault
<1>6. CASE \/ PassBegins \/ PassEnds
           \/ \E v \in Volumes : PassFetches(v)
  BY <1>6 DEF PassBegins, PassFetches, PassEnds, NoFault
<1>7. CASE \/ RemoteMoves \/ Crash \/ Reboot
  BY <1>7 DEF RemoteMoves, Crash, Stop, Reboot, NoFault
<1>8. CASE UNCHANGED vars
  BY <1>8 DEF vars
<1> HIDE DEF remoteVars, treeVars, recordVars, kubeletVars, memoryVars, reportVars,
             callVars, passVars
<1> QED
  BY <1>1, <1>2, <1>3, <1>4, <1>5, <1>6, <1>7, <1>8
     DEF Next, CallStep, KubeletCalls, PassStep

\* The steps that change the count of the upsets.
LEMMA UpsetFrame ==
    ASSUME [Next]_vars
    PROVE  \/ UNCHANGED upsets
           \/ RemoteMoves \/ Crash \/ Reboot
<1> USE DEF remoteVars, treeVars, recordVars, kubeletVars, memoryVars, reportVars,
            callVars, passVars
<1>1. CASE \/ \E v \in Volumes : \/ StageClaim(v) \/ StageFetch(v) \/ StageStale(v)
                                 \/ StageRefused(v) \/ CallFailed(v)
  BY <1>1 DEF StageClaim, StageFetch, StagePlaces, StageStale, StageRefused, CallFailed
<1>2. CASE \/ \E v \in Volumes : \/ Bind(v) \/ BindFails(v) \/ Record(v) \/ Rewrite(v)
                                 \/ Forget(v) \/ Hold(v)
  BY <1>2 DEF Bind, BindFails, Record, RecordTargets, Rewrite, Forget, Hold
<1>3. CASE \/ \E v \in Volumes : \/ Unmount(v) \/ UnmountFails(v) \/ UnstageClaim(v)
                                 \/ RemoveVolume(v)
  BY <1>3 DEF Unmount, UnmountFails, UnstageClaim, RemoveVolume
<1>4. CASE \/ \E t \in Targets : \/ PublishAgain(t) \/ PublishInline(t)
                                 \/ PublishClaim(t) \/ UnpublishClaim(t)
                                 \/ UnpublishInline(t)
  BY <1>4 DEF PublishAgain, PublishInline, PublishClaim, UnpublishClaim, UnpublishInline
<1>5. CASE \/ PlaceStep \/ Placed \/ PlaceFails
  BY <1>5 DEF PlaceStep, Placed, PlaceFails
<1>6. CASE \/ PassBegins \/ PassEnds
           \/ \E v \in Volumes : PassFetches(v) \/ PassFetchFails(v)
  BY <1>6 DEF PassBegins, PassFetches, PassFetchFails, PassEnds
<1>7. CASE \/ Resume
  BY <1>7 DEF Resume
<1>8. CASE UNCHANGED vars
  BY <1>8 DEF vars
<1> HIDE DEF remoteVars, treeVars, recordVars, kubeletVars, memoryVars, reportVars,
             callVars, passVars
<1> QED
  BY <1>1, <1>2, <1>3, <1>4, <1>5, <1>6, <1>7, <1>8
     DEF Next, CallStep, KubeletCalls, PassStep

-----------------------------------------------------------------------------
(* Types *)

\* A nonempty set of natural numbers has a least member.
LEMMA Smallest ==
    ASSUME NEW S, S \subseteq Nat, S # {}
    PROVE  \E n \in S : \A m \in S : n <= m
<1> DEFINE R == OpToRel(<, Nat)
<1>1. PICK n \in S : \A m \in S : ~ (<<m, n>> \in R)
  <2> HIDE DEF R
  <2>1. IsWellFoundedOn(R, Nat)
    BY NatLessThanWellFounded DEF R
  <2> QED
    BY <2>1, WFMin, Zenon
<1>2. \A m \in S : ~ (m < n)
  <2>1. SUFFICES ASSUME NEW m \in S, m < n PROVE FALSE
    OBVIOUS
  <2>2. <<m, n>> \in R
    BY <2>1 DEF OpToRel
  <2> QED
    BY <2>2, <1>1
<1> QED
  BY <1>2

\* os.ReadDir lists an entry of those there are.
LEMMA FirstIsOne ==
    ASSUME NEW entries, entries \subseteq Entries, entries # {}
    PROVE  First(entries) \in entries
<1>1. \E e \in entries : \A f \in entries : e <= f
  BY Smallest, TreeAssumption
<1> QED
  BY <1>1 DEF First

\* What a commit holds, and a tree that holds nothing.
LEMMA Contents ==
    /\ Absent \in Blobs /\ Empty \in [Entries -> Blobs]
    /\ \A c \in Commits : Content[c] \in [Entries -> Blobs]
<1>1. Absent \in Blobs
  BY DEF Blobs
<1> QED
  BY <1>1, ContentAssumption DEF Empty

\* The placements that run.
Going ==
    [pc : { "checkout", "arrive", "remove", "rename", "record" },
     of : Volumes, commit : Commits, todo : SUBSET Entries, stale : BOOLEAN]

\* A placement is idle or runs, never both.
LEMMA PlacementGoes == Placements = {Idle} \cup Going /\ Idle \notin Going
<1>1. \A p \in Going : p.pc # "idle"
  BY DEF Going
<1>2. Idle.pc = "idle"
  BY DEF Idle
<1> QED
  BY <1>1, <1>2 DEF Placements, Going

\* A new placement runs, from its checkout.
LEMMA PlacementBegins ==
    ASSUME NEW v \in Volumes, NEW commit \in Commits, NEW stale \in BOOLEAN
    PROVE  LET p == Placement(v, commit, stale) IN
           /\ p \in Going /\ p # Idle
           /\ p.pc = "checkout" /\ p.of = v /\ p.commit = commit /\ p.stale = stale
<1>1. Placement(v, commit, stale) \in Going
  BY DEF Placement, Going
<1> QED
  BY <1>1, PlacementGoes DEF Placement

\* A placement that goes on stays one of the same commit for the same volume.
LEMMA PlacementContinues ==
    ASSUME placing \in Going, NEW todo \in SUBSET Entries,
           NEW pc \in { "checkout", "arrive", "remove", "rename", "record" },
           Continue(pc, todo)
    PROVE  /\ placing' \in Going /\ placing' # Idle
           /\ placing'.pc = pc /\ placing'.todo = todo
           /\ placing'.of = placing.of /\ placing'.commit = placing.commit
           /\ placing'.stale = placing.stale
<1>1. placing' \in Going
  BY DEF Continue, Going
<1> QED
  BY <1>1, PlacementGoes DEF Continue, Going

\* TypeOK in parts.
RemoteType == remote \in Commits /\ copy \in Commits \cup {0}

TreeType ==
    /\ next \subseteq Volumes /\ tree \subseteq Volumes
    /\ files \in [Volumes -> [Entries -> Blobs]]
    /\ placed \in [Volumes -> Commits \cup {0}]

HalfType == half \in [Volumes -> { "no", "half", "moved" }]

RecordType ==
    /\ record \subseteq Volumes
    /\ recorded \in [Volumes -> SUBSET Targets]
    /\ \A v \in Volumes : recorded[v] \subseteq TargetsOf(v)

PodType ==
    /\ mounts \in [Targets -> { "none", "tree", "gone" }]
    /\ running \subseteq asked /\ unrecorded \subseteq asked /\ asked \subseteq Targets

HeldType ==
    /\ up \in BOOLEAN /\ held \subseteq Volumes /\ followed \subseteq held
    /\ bound \in [Volumes -> SUBSET Targets]
    /\ \A v \in Volumes : bound[v] \subseteq TargetsOf(v)

ReportType ==
    /\ standing \in [Volumes -> Commits \cup {0}]
    /\ trouble \subseteq Volumes /\ fresh \subseteq Volumes

CallType ==
    /\ call \in [Volumes -> Phases]
    /\ at \in [Volumes -> Targets \cup {NoTarget}]

LockType ==
    /\ lock \in Volumes \cup { "free", "pass" }
    /\ pass \subseteq Volumes /\ live \in BOOLEAN

PlacingType ==
    /\ placing = Idle \/ placing \in Going
    /\ placing # Idle => lock \in { "pass", placing.of }

BoundType == faults \in 0..MaxFaults /\ upsets \in 0..MaxUpsets

\* TypeOK is the conjunction of its parts.
LEMMA TypeParts ==
    TypeOK <=> /\ RemoteType /\ TreeType /\ HalfType /\ RecordType /\ PodType
               /\ HeldType /\ ReportType /\ CallType /\ LockType /\ PlacingType
               /\ BoundType
BY PlacementGoes
   DEF TypeOK, RemoteType, TreeType, HalfType, RecordType, PodType, HeldType,
       ReportType, CallType, LockType, PlacingType, BoundType

\* The volume of a target, and the one target of an inline volume.
LEMMA Owners ==
    /\ \A t \in Targets : Owner[t] \in Volumes /\ t \in TargetsOf(Owner[t])
    /\ \A v : \A t \in TargetsOf(v) : t \in Targets /\ Owner[t] = v
    /\ \A v \in Volumes :
          (v \in Claims /\ v \notin Inlines) \/ (v \in Inlines /\ v \notin Claims)
    /\ \A v \in Inlines : \A t, u \in TargetsOf(v) : t = u
<1>1. \A v \in Inlines : \A t, u \in TargetsOf(v) : t = u
  BY InlineAssumption DEF TargetsOf
<1> QED
  BY <1>1, TreeAssumption DEF TargetsOf, Volumes

\* The locks' names are no volumes.
LEMMA LockNames == "free" \notin Volumes /\ "pass" \notin Volumes
BY TreeAssumption

-----------------------------------------------------------------------------
(* What pods that read rely on *)

\* The phases of a stage, and of the publish of an inline volume before its bind.
Staging(v) == call[v] \in { "lock", "place", "failed", "record", "hold" }

\* What the call of a volume has as its target, and what it has done so far. It
\* has the repository's lock while it places.
CallOf(v) ==
    /\ ~up => call[v] = "none"
    /\ lock = v <=> call[v] = "place"
    /\ call[v] \in { "bind", "rewrite", "unmount", "unmount_only" }
          => at[v] \in TargetsOf(v) /\ at[v] \in asked
    /\ call[v] = "forget" => at[v] \in TargetsOf(v)
    /\ Staging(v) \/ call[v] = "remove" => v \notin held
    /\ call[v] \in { "unmount", "unmount_only", "forget" }
          => at[v] \notin running /\ at[v] \notin bound[v]

ClaimCall(v) ==
    v \in Claims =>
        /\ call[v] \in { "bind", "rewrite" } => v \in held
        /\ call[v] = "bind" => at[v] \notin bound[v]
        /\ call[v] = "rewrite" => at[v] \in bound[v]

InlineCall(v) ==
    v \in Inlines =>
        /\ call[v] \notin { "rewrite", "forget" }
        /\ call[v] # "none" => v \notin held
        /\ Staging(v) => at[v] \in TargetsOf(v) /\ at[v] \in asked
        /\ call[v] \in { "record", "hold" } => mounts[at[v]] = "tree"
        /\ call[v] = "hold" => at[v] \in unrecorded \/ at[v] \in recorded[v]

\* The loop follows what the node holds, and nothing else has targets. A claim
\* that is not held has no target in a record that a stage would find again.
HeldOf(v) ==
    /\ v \in held => v \in followed /\ up
    /\ v \in Inlines \/ v \notin held => bound[v] = {}
    /\ v \in Claims /\ v \notin held /\ up /\ call[v] # "remove" => recorded[v] = {}

\* What is bound is a target the kubelet asked for, and a record never names a
\* directory that was removed.
MountOf(v) ==
    /\ \A t \in TargetsOf(v) :
        /\ mounts[t] # "none" => t \in asked
        /\ mounts[t] = "tree" => v \in tree
    /\ \A t \in recorded[v] : v \in record /\ mounts[t] # "gone"

\* The targets the driver holds are bound to the tree, and are in the record
\* unless its write failed or is still to come.
Keeps(v, t) == v \in held /\ (v \in Claims => t \in bound[v])

KeptOf(v) ==
    \A t \in TargetsOf(v) : Keeps(v, t) =>
        /\ mounts[t] = "tree"
        /\ \/ t \in unrecorded \/ t \in recorded[v]
           \/ call[v] = "rewrite" /\ at[v] = t

\* A pod that reads has its target in the record, the tree bound there, and is
\* held while the driver runs.
RunOf(v) ==
    \A t \in TargetsOf(v) : t \in running /\ t \notin unrecorded =>
        /\ t \in recorded[v] /\ mounts[t] = "tree"
        /\ up => Keeps(v, t)

PodOf(v) ==
    /\ CallOf(v) /\ ClaimCall(v) /\ InlineCall(v)
    /\ HeldOf(v) /\ MountOf(v) /\ KeptOf(v) /\ RunOf(v)

PodInv == \A v \in Volumes : PodOf(v)

\* Nothing of a volume is touched, but that its tree may have come.
Spared(v) ==
    /\ up' = up /\ (lock' = v <=> lock = v)
    /\ call'[v] = call[v] /\ at'[v] = at[v]
    /\ recorded'[v] = recorded[v] /\ bound'[v] = bound[v]
    /\ (v \in held' <=> v \in held) /\ (v \in followed' <=> v \in followed)
    /\ (v \in record' <=> v \in record) /\ (v \in tree => v \in tree')
    /\ \A t \in TargetsOf(v) :
        /\ mounts'[t] = mounts[t] /\ (t \in asked' <=> t \in asked)
        /\ t \in running' <=> t \in running
        /\ t \in unrecorded' <=> t \in unrecorded

\* What a volume's pods rely on outlives a step that spares it.
LEMMA SparedPods ==
    ASSUME NEW v \in Volumes, PodOf(v), Spared(v), RecordType
    PROVE  PodOf(v)'
<1> USE DEF Spared
<1>1. \A t \in recorded[v] : t \in TargetsOf(v)
  BY DEF RecordType
<1>2. CallOf(v)'
  BY DEF PodOf, CallOf, Staging
<1>3. ClaimCall(v)'
  BY DEF PodOf, ClaimCall
<1>4. InlineCall(v)'
  BY DEF PodOf, InlineCall, Staging
<1>5. HeldOf(v)'
  BY DEF PodOf, HeldOf
<1>6. MountOf(v)'
  BY <1>1 DEF PodOf, MountOf
<1>7. KeptOf(v)'
  BY DEF PodOf, KeptOf, Keeps
<1>8. RunOf(v)'
  BY DEF PodOf, RunOf, Keeps
<1> QED
  BY <1>2, <1>3, <1>4, <1>5, <1>6, <1>7, <1>8 DEF PodOf

-----------------------------------------------------------------------------
(* The types are kept *)

\* A step of a placement leaves it one of the same commit for the same volume.
LEMMA PlaceStepGoes ==
    ASSUME TypeOK, PlaceStep
    PROVE  /\ placing \in Going /\ placing # Idle
           /\ placing' \in Going /\ placing' # Idle
           /\ placing'.of = placing.of /\ placing'.commit = placing.commit
           /\ placing'.stale = placing.stale
<1>1. placing \in Going /\ placing # Idle
  BY TypeParts
     DEF PlacingType, PlaceStep, Checkout, ArriveWhole, ArriveInside, RemoveEntry,
         RemoveKind, RenameEntry, RenamedAll, Placing
<1>2. placing.todo \subseteq Entries
  BY <1>1 DEF Going
<1>3. UNCHANGED placing
      \/ \E pc \in { "checkout", "arrive", "remove", "rename", "record" },
            todo \in SUBSET Entries : Continue(pc, todo)
  <2>1. CASE Checkout
    BY <2>1 DEF Checkout
  <2>2. CASE ArriveWhole
    BY <2>2 DEF ArriveWhole
  <2>3. CASE ArriveInside
    BY <2>3 DEF ArriveInside, Removing
  <2>4. CASE RemoveEntry
    <3>1. placing.todo \ {First(placing.todo)} \subseteq Entries
      BY <1>2
    <3> QED
      BY <2>4, <3>1 DEF RemoveEntry, Removing
  <2>5. CASE RemoveKind
    BY <2>5 DEF RemoveKind
  <2>6. CASE RenameEntry
    <3>1. placing.todo \ {First(placing.todo)} \subseteq Entries
      BY <1>2
    <3> QED
      BY <2>6, <3>1 DEF RenameEntry
  <2>7. CASE RenamedAll
    BY <2>7 DEF RenamedAll
  <2> QED
    BY <2>1, <2>2, <2>3, <2>4, <2>5, <2>6, <2>7 DEF PlaceStep
<1> QED
  BY <1>1, <1>3, PlacementContinues

\* The remote and the store's copy keep their types.
LEMMA RemoteTyped ==
    ASSUME TypeOK,
           [Next]_vars
    PROVE  RemoteType'
<1> USE DEF remoteVars, treeVars, recordVars, kubeletVars, memoryVars, reportVars,
            callVars, passVars
<1> USE DEF RemoteType
<1>1. RemoteType
  BY TypeParts
<1>2. CASE UNCHANGED remoteVars
  BY <1>2, <1>1
<1>3. ASSUME NEW v \in Volumes, StageFetch(v) PROVE RemoteType'
  BY <1>3, <1>1 DEF StageFetch, StagePlaces, FetchBegins, Goto, NoFault
<1>4. ASSUME NEW v \in Volumes, PassFetches(v) PROVE RemoteType'
  BY <1>4, <1>1 DEF PassFetches, Report, Placement
<1>5. ASSUME RemoteMoves PROVE RemoteType'
  BY <1>5, <1>1 DEF RemoteMoves
<1> HIDE DEF RemoteType, remoteVars, treeVars, recordVars, kubeletVars, memoryVars,
             reportVars, callVars, passVars
<1> QED
  BY <1>2, <1>3, <1>4, <1>5, RemoteFrame

\* The mark of a placement cut short keeps its type.
LEMMA HalfTyped ==
    ASSUME TypeOK,
           [Next]_vars
    PROVE  HalfType'
<1> USE DEF remoteVars, treeVars, recordVars, kubeletVars, memoryVars, reportVars,
            callVars, passVars
<1> USE DEF HalfType
<1>1. HalfType
  BY TypeParts
<1>2. CASE UNCHANGED half
  BY <1>2, <1>1
<1>3. ASSUME NEW v \in Volumes, CallFailed(v) PROVE HalfType'
  BY <1>3, <1>1 DEF CallFailed, RemoveDirectories, Done, Goto
<1>4. ASSUME NEW v \in Volumes, RemoveVolume(v) PROVE HalfType'
  BY <1>4, <1>1 DEF RemoveVolume, RemoveDirectories, Done, Goto
<1>5. ASSUME Placed PROVE HalfType'
  BY <1>5, <1>1 DEF Placed, Placing, Report, Goto
<1>6. ASSUME PlaceFails PROVE HalfType'
  BY <1>6, <1>1 DEF PlaceFails, Goto, LeftHalf
<1>7. ASSUME RemoteMoves PROVE HalfType'
  BY <1>7, <1>1 DEF RemoteMoves
<1>8. ASSUME Crash PROVE HalfType'
  BY <1>8, <1>1 DEF Crash, Stop, LeftHalf
<1>9. ASSUME Reboot PROVE HalfType'
  BY <1>9, <1>1 DEF Reboot, Stop, LeftHalf
<1>10. ASSUME Resume PROVE HalfType'
  BY <1>10, <1>1 DEF Resume, RemoveDirectories
<1> HIDE DEF HalfType, remoteVars, treeVars, recordVars, kubeletVars, memoryVars,
             reportVars, callVars, passVars
<1> QED
  BY <1>2, <1>3, <1>4, <1>5, <1>6, <1>7, <1>8, <1>9, <1>10, HalfFrame

\* The records on disk name only their own volume's targets.
LEMMA RecordTyped ==
    ASSUME TypeOK,
           PodInv,
           [Next]_vars
    PROVE  RecordType'
<1> USE DEF remoteVars, treeVars, recordVars, kubeletVars, memoryVars, reportVars,
            callVars, passVars
<1> USE DEF RecordType
<1>1. RecordType /\ HeldType /\ CallType
  BY TypeParts
<1>2. \A u \in Volumes : CallOf(u) /\ ClaimCall(u) /\ InlineCall(u)
  BY DEF PodInv, PodOf
<1>3. CASE UNCHANGED recordVars
  BY <1>3, <1>1
<1>4. ASSUME NEW v \in Volumes, CallFailed(v) PROVE RecordType'
  BY <1>4, <1>1 DEF CallFailed, RemoveDirectories, Done, Goto
<1>5. ASSUME NEW v \in Volumes, Record(v) PROVE RecordType'
  <2>1. Named(v) \subseteq TargetsOf(v)
    <3>1. call[v] # "none" /\ (v \in Inlines => call[v] = "record")
      BY <1>5, <1>2 DEF Record, InlineCall
    <3>2. v \in Inlines => at[v] \in TargetsOf(v)
      BY <3>1, <1>2 DEF InlineCall, Staging
    <3> QED
      BY <1>1, <3>2 DEF Named, HeldType, Volumes
  <2>2. Named(v) \in SUBSET Targets
    BY <2>1 DEF TargetsOf
  <2> QED
    BY <1>5, <1>1, <2>1, <2>2 DEF Record, RecordTargets
<1>6. ASSUME NEW v \in Volumes, Rewrite(v) PROVE RecordType'
  <2>1. Named(v) \subseteq TargetsOf(v)
    <3>1. call[v] # "none" /\ (v \in Inlines => call[v] = "record")
      BY <1>6, <1>2 DEF Rewrite, InlineCall
    <3>2. v \in Inlines => at[v] \in TargetsOf(v)
      BY <3>1, <1>2 DEF InlineCall, Staging
    <3> QED
      BY <1>1, <3>2 DEF Named, HeldType, Volumes
  <2>2. Named(v) \in SUBSET Targets
    BY <2>1 DEF TargetsOf
  <2> QED
    BY <1>6, <1>1, <2>1, <2>2 DEF Rewrite, RecordTargets
<1>7. ASSUME NEW v \in Volumes, Forget(v) PROVE RecordType'
  <2>1. Named(v) \subseteq TargetsOf(v)
    <3>1. call[v] # "none" /\ (v \in Inlines => call[v] = "record")
      BY <1>7, <1>2 DEF Forget, InlineCall
    <3>2. v \in Inlines => at[v] \in TargetsOf(v)
      BY <3>1, <1>2 DEF InlineCall, Staging
    <3> QED
      BY <1>1, <3>2 DEF Named, HeldType, Volumes
  <2>2. Named(v) \in SUBSET Targets
    BY <2>1 DEF TargetsOf
  <2> QED
    BY <1>7, <1>1, <2>1, <2>2 DEF Forget, RecordTargets
<1>8. ASSUME NEW v \in Volumes, Hold(v) PROVE RecordType'
  BY <1>8, <1>1 DEF Hold, Follow, Done, Goto
<1>9. ASSUME NEW v \in Volumes, Unmount(v) PROVE RecordType'
  BY <1>9, <1>1 DEF Unmount, Done, Goto
<1>10. ASSUME NEW v \in Volumes, RemoveVolume(v) PROVE RecordType'
  BY <1>10, <1>1 DEF RemoveVolume, RemoveDirectories, Done, Goto
<1>11. ASSUME Reboot PROVE RecordType'
  BY <1>11, <1>1 DEF Reboot, Stop
<1>12. ASSUME Resume PROVE RecordType'
  BY <1>12, <1>1 DEF Resume, RemoveDirectories, MountedTargets, Resumed
<1> HIDE DEF RecordType, remoteVars, treeVars, recordVars, kubeletVars, memoryVars,
             reportVars, callVars, passVars
<1> QED
  BY <1>3, <1>4, <1>5, <1>6, <1>7, <1>8, <1>9, <1>10, <1>11, <1>12, RecordFrame

\* The reports keep their types.
LEMMA ReportTyped ==
    ASSUME TypeOK,
           [Next]_vars
    PROVE  ReportType'
<1> USE DEF remoteVars, treeVars, recordVars, kubeletVars, memoryVars, reportVars,
            callVars, passVars
<1> USE DEF ReportType
<1>1. ReportType /\ RemoteType /\ TreeType /\ PlacingType
  BY TypeParts
<1>2. CASE UNCHANGED reportVars
  BY <1>2, <1>1
<1>3. ASSUME NEW v \in Volumes, StageFetch(v) PROVE ReportType'
  BY <1>3, <1>1 DEF StageFetch, StagePlaces, FetchBegins, Goto, NoFault
<1>4. ASSUME NEW v \in Volumes, StageStale(v) PROVE ReportType'
  BY <1>4, <1>1 DEF StageStale, StagePlaces, FetchBegins, Goto, Fault
<1>5. ASSUME NEW v \in Volumes, StageRefused(v) PROVE ReportType'
  BY <1>5, <1>1 DEF StageRefused, FetchBegins, Goto, Fault
<1>6. ASSUME Placed PROVE ReportType'
  BY <1>6, <1>1 DEF Placed, Placing, Report, Goto, PlacingType, Going
<1>7. ASSUME PlaceFails PROVE ReportType'
  BY <1>7, <1>1 DEF PlaceFails, Goto, PlacingType, Going
<1>8. ASSUME NEW v \in Volumes, PassFetches(v) PROVE ReportType'
  BY <1>8, <1>1 DEF PassFetches, Report, Placement, RemoteType
<1>9. ASSUME NEW v \in Volumes, PassFetchFails(v) PROVE ReportType'
  BY <1>9, <1>1 DEF PassFetchFails
<1>10. ASSUME Crash PROVE ReportType'
  BY <1>10, <1>1 DEF Crash, Stop, NoCommits
<1>11. ASSUME Reboot PROVE ReportType'
  BY <1>11, <1>1 DEF Reboot, Stop, NoCommits
<1>12. ASSUME Resume PROVE ReportType'
  BY <1>12, <1>1 DEF Resume, RemoveDirectories, TreeType
<1> HIDE DEF ReportType, remoteVars, treeVars, recordVars, kubeletVars, memoryVars,
             reportVars, callVars, passVars
<1> QED
  BY <1>2, <1>3, <1>4, <1>5, <1>6, <1>7, <1>8, <1>9, <1>10, <1>11, <1>12, ReportFrame

\* The calls and their targets keep their types.
LEMMA CallTyped ==
    ASSUME TypeOK,
           [Next]_vars
    PROVE  CallType'
<1> USE DEF remoteVars, treeVars, recordVars, kubeletVars, memoryVars, reportVars,
            callVars, passVars
<1> USE DEF CallType
<1>1. CallType
  BY TypeParts
<1>2. CASE UNCHANGED callVars
  BY <1>2, <1>1
<1>3. ASSUME NEW v \in Volumes, StageClaim(v) PROVE CallType'
  BY <1>3, <1>1 DEF StageClaim, Goto, Phases
<1>4. ASSUME NEW v \in Volumes, StageFetch(v) PROVE CallType'
  BY <1>4, <1>1 DEF StageFetch, StagePlaces, FetchBegins, Goto, NoFault, Phases
<1>5. ASSUME NEW v \in Volumes, StageStale(v) PROVE CallType'
  BY <1>5, <1>1 DEF StageStale, StagePlaces, FetchBegins, Goto, Fault, Phases
<1>6. ASSUME NEW v \in Volumes, StageRefused(v) PROVE CallType'
  BY <1>6, <1>1 DEF StageRefused, FetchBegins, Goto, Fault, Phases
<1>7. ASSUME NEW v \in Volumes, CallFailed(v) PROVE CallType'
  BY <1>7, <1>1 DEF CallFailed, RemoveDirectories, Done, Goto, Phases
<1>8. ASSUME NEW v \in Volumes, Bind(v) PROVE CallType'
  BY <1>8, <1>1 DEF Bind, Goto, NoFault, Phases
<1>9. ASSUME NEW v \in Volumes, BindFails(v) PROVE CallType'
  BY <1>9, <1>1 DEF BindFails, Done, Goto, Fault, Phases
<1>10. ASSUME NEW v \in Volumes, Record(v) PROVE CallType'
  BY <1>10, <1>1 DEF Record, RecordTargets, Named, Goto, Fault, NoFault, Phases
<1>11. ASSUME NEW v \in Volumes, Rewrite(v) PROVE CallType'
  BY <1>11, <1>1 DEF Rewrite, RecordTargets, Named, Done, Goto, Fault, NoFault, Phases
<1>12. ASSUME NEW v \in Volumes, Forget(v) PROVE CallType'
  BY <1>12, <1>1 DEF Forget, RecordTargets, Named, Done, Goto, Fault, NoFault, Phases
<1>13. ASSUME NEW v \in Volumes, Hold(v) PROVE CallType'
  BY <1>13, <1>1 DEF Hold, Follow, Done, Goto, Phases
<1>14. ASSUME NEW v \in Volumes, Unmount(v) PROVE CallType'
  BY <1>14, <1>1 DEF Unmount, Done, Goto, Phases
<1>15. ASSUME NEW v \in Volumes, UnmountFails(v) PROVE CallType'
  BY <1>15, <1>1 DEF UnmountFails, Done, Goto, Fault, Phases
<1>16. ASSUME NEW v \in Volumes, UnstageClaim(v) PROVE CallType'
  BY <1>16, <1>1 DEF UnstageClaim, Unfollow, Goto, Phases
<1>17. ASSUME NEW v \in Volumes, RemoveVolume(v) PROVE CallType'
  BY <1>17, <1>1 DEF RemoveVolume, RemoveDirectories, Done, Goto, Phases
<1>18. ASSUME NEW t \in Targets, PublishInline(t) PROVE CallType'
  BY <1>18, <1>1 DEF PublishInline, Goto, Phases
<1>19. ASSUME NEW t \in Targets, PublishClaim(t) PROVE CallType'
  BY <1>19, <1>1 DEF PublishClaim, Goto, Phases
<1>20. ASSUME NEW t \in Targets, UnpublishClaim(t) PROVE CallType'
  BY <1>20, <1>1 DEF UnpublishClaim, Goto, Phases
<1>21. ASSUME NEW t \in Targets, UnpublishInline(t) PROVE CallType'
  BY <1>21, <1>1 DEF UnpublishInline, Unfollow, Goto, Phases
<1>22. ASSUME Placed PROVE CallType'
  BY <1>22, <1>1 DEF Placed, Placing, Report, Goto, Phases
<1>23. ASSUME PlaceFails PROVE CallType'
  BY <1>23, <1>1 DEF PlaceFails, Goto, Phases
<1>24. ASSUME Crash PROVE CallType'
  BY <1>24, <1>1 DEF Crash, Stop, Phases
<1>25. ASSUME Reboot PROVE CallType'
  BY <1>25, <1>1 DEF Reboot, Stop, Phases
<1> HIDE DEF CallType, remoteVars, treeVars, recordVars, kubeletVars, memoryVars,
             reportVars, callVars, passVars
<1> QED
  BY <1>2, <1>3, <1>4, <1>5, <1>6, <1>7, <1>8, <1>9, <1>10, <1>11, <1>12, <1>13, <1>14,
     <1>15, <1>16, <1>17, <1>18, <1>19, <1>20, <1>21, <1>22, <1>23, <1>24, <1>25,
          CallFrame

\* The tree's lock and the loop's pass keep their types.
LEMMA LockTyped ==
    ASSUME TypeOK,
           [Next]_vars
    PROVE  LockType'
<1> USE DEF remoteVars, treeVars, recordVars, kubeletVars, memoryVars, reportVars,
            callVars, passVars
<1> USE DEF LockType
<1>1. LockType /\ HeldType
  BY TypeParts
<1>2. CASE UNCHANGED <<lock, passVars>>
  BY <1>2, <1>1
<1>3. ASSUME NEW v \in Volumes, StageFetch(v) PROVE LockType'
  BY <1>3, <1>1 DEF StageFetch, StagePlaces, FetchBegins, Goto, NoFault
<1>4. ASSUME NEW v \in Volumes, StageStale(v) PROVE LockType'
  BY <1>4, <1>1 DEF StageStale, StagePlaces, FetchBegins, Goto, Fault
<1>5. ASSUME NEW v \in Volumes, UnstageClaim(v) PROVE LockType'
  BY <1>5, <1>1 DEF UnstageClaim, Unfollow, Goto
<1>6. ASSUME NEW t \in Targets, UnpublishInline(t) PROVE LockType'
  BY <1>6, <1>1 DEF UnpublishInline, Unfollow, Goto
<1>7. ASSUME Placed PROVE LockType'
  BY <1>7, <1>1 DEF Placed, Placing, Report, Goto
<1>8. ASSUME PlaceFails PROVE LockType'
  BY <1>8, <1>1 DEF PlaceFails, Goto
<1>9. ASSUME PassBegins PROVE LockType'
  BY <1>9, <1>1 DEF PassBegins, HeldType
<1>10. ASSUME NEW v \in Volumes, PassFetches(v) PROVE LockType'
  BY <1>10, <1>1 DEF PassFetches, Report, Placement
<1>11. ASSUME NEW v \in Volumes, PassFetchFails(v) PROVE LockType'
  BY <1>11, <1>1 DEF PassFetchFails
<1>12. ASSUME PassEnds PROVE LockType'
  BY <1>12, <1>1 DEF PassEnds
<1>13. ASSUME Crash PROVE LockType'
  BY <1>13, <1>1 DEF Crash, Stop
<1>14. ASSUME Reboot PROVE LockType'
  BY <1>14, <1>1 DEF Reboot, Stop
<1> HIDE DEF LockType, remoteVars, treeVars, recordVars, kubeletVars, memoryVars,
             reportVars, callVars, passVars
<1> QED
  BY <1>2, <1>3, <1>4, <1>5, <1>6, <1>7, <1>8, <1>9, <1>10, <1>11, <1>12, <1>13, <1>14,
     LockFrame, PassFrame

\* The counts of faults and of upsets stay in their bounds.
LEMMA BoundTyped ==
    ASSUME TypeOK,
           [Next]_vars
    PROVE  BoundType'
<1> USE DEF remoteVars, treeVars, recordVars, kubeletVars, memoryVars, reportVars,
            callVars, passVars
<1> USE DEF BoundType, Fault, NoFault, Upset
<1>1. BoundType
  BY TypeParts
<1>2. CASE UNCHANGED <<faults, upsets>>
  BY <1>2, <1>1, TreeAssumption
<1>3. ASSUME NEW v \in Volumes, StageFetch(v) PROVE BoundType'
  BY <1>3, <1>1, TreeAssumption DEF StageFetch, StagePlaces, FetchBegins, Goto, NoFault
<1>4. ASSUME NEW v \in Volumes, StageStale(v) PROVE BoundType'
  BY <1>4, <1>1, TreeAssumption DEF StageStale, StagePlaces, FetchBegins, Goto, Fault
<1>5. ASSUME NEW v \in Volumes, StageRefused(v) PROVE BoundType'
  BY <1>5, <1>1, TreeAssumption DEF StageRefused, FetchBegins, Goto, Fault
<1>6. ASSUME NEW v \in Volumes, Bind(v) PROVE BoundType'
  BY <1>6, <1>1, TreeAssumption DEF Bind, Goto, NoFault
<1>7. ASSUME NEW v \in Volumes, BindFails(v) PROVE BoundType'
  BY <1>7, <1>1, TreeAssumption DEF BindFails, Done, Goto, Fault
<1>8. ASSUME NEW v \in Volumes, Record(v) PROVE BoundType'
  BY <1>8, <1>1, TreeAssumption DEF Record, RecordTargets, Named, Goto, Fault, NoFault
<1>9. ASSUME NEW v \in Volumes, Rewrite(v) PROVE BoundType'
  BY <1>9, <1>1, TreeAssumption
     DEF Rewrite, RecordTargets, Named, Done, Goto, Fault, NoFault
<1>10. ASSUME NEW v \in Volumes, Forget(v) PROVE BoundType'
  BY <1>10, <1>1, TreeAssumption
     DEF Forget, RecordTargets, Named, Done, Goto, Fault, NoFault
<1>11. ASSUME NEW v \in Volumes, UnmountFails(v) PROVE BoundType'
  <2>1. Fault /\ UNCHANGED upsets
    BY <1>11 DEF UnmountFails
  <2> QED
    BY <2>1, <1>1, TreeAssumption
<1>12. ASSUME PlaceStep PROVE BoundType'
  BY <1>12, <1>1, TreeAssumption
     DEF PlaceStep, Checkout, ArriveWhole, ArriveInside, RemoveEntry, RemoveKind,
         RenameEntry, RenamedAll
<1>13. ASSUME PlaceFails PROVE BoundType'
  BY <1>13, <1>1, TreeAssumption DEF PlaceFails, Goto, Fails
<1>14. ASSUME NEW v \in Volumes, PassFetchFails(v) PROVE BoundType'
  BY <1>14, <1>1, TreeAssumption DEF PassFetchFails
<1>15. ASSUME RemoteMoves PROVE BoundType'
  BY <1>15, <1>1, TreeAssumption DEF RemoteMoves
<1>16. ASSUME Crash PROVE BoundType'
  BY <1>16, <1>1, TreeAssumption DEF Crash, Stop
<1>17. ASSUME Reboot PROVE BoundType'
  BY <1>17, <1>1, TreeAssumption DEF Reboot, Stop
<1>18. ASSUME Resume PROVE BoundType'
  BY <1>18, <1>1, TreeAssumption DEF Resume, RemoveDirectories
<1> HIDE DEF BoundType, Fault, NoFault, Upset, remoteVars, treeVars, recordVars,
             kubeletVars, memoryVars, reportVars, callVars, passVars
<1> QED
  BY <1>2, <1>3, <1>4, <1>5, <1>6, <1>7, <1>8, <1>9, <1>10, <1>11, <1>12, <1>13, <1>14,
     <1>15, <1>16, <1>17, <1>18, FaultFrame, UpsetFrame

\* The trees, their files and their commits keep their types.
LEMMA TreeTyped ==
    ASSUME TypeOK,
           [Next]_vars
    PROVE  TreeType'
<1> USE DEF remoteVars, treeVars, recordVars, kubeletVars, memoryVars, reportVars,
            callVars, passVars
<1> USE DEF TreeType
<1>1. TreeType /\ PlacingType
  BY TypeParts
<1>2. CASE UNCHANGED treeVars
  BY <1>2, <1>1
<1>3. ASSUME NEW v \in Volumes, CallFailed(v) PROVE TreeType'
  BY <1>3, <1>1, Contents DEF CallFailed, RemoveDirectories
<1>4. ASSUME NEW v \in Volumes, RemoveVolume(v) PROVE TreeType'
  BY <1>4, <1>1, Contents DEF RemoveVolume, RemoveDirectories
<1>5. ASSUME PlaceStep PROVE TreeType'
  <2>1. placing.of \in Volumes /\ placing.commit \in Commits
    BY <1>5, PlaceStepGoes DEF Going
  <2>2. Absent \in Blobs /\ Content[placing.commit] \in [Entries -> Blobs]
    BY <2>1, Contents
  <2>3. CASE Checkout \/ RenamedAll
    BY <2>3, <2>1, <1>1 DEF Checkout, RenamedAll
  <2>4. CASE ArriveWhole
    BY <2>4, <2>1, <2>2, <1>1 DEF ArriveWhole
  <2>5. CASE ArriveInside
    BY <2>5, <1>1 DEF ArriveInside
  <2>6. CASE RemoveEntry \/ RemoveKind
    BY <2>6, <2>1, <2>2, <1>1 DEF RemoveEntry, RemoveKind, Write
  <2>7. CASE RenameEntry
    <3> DEFINE e == First(placing.todo)
    <3>1. e \in Entries
      BY <2>7, PlaceStepGoes, <1>5, FirstIsOne DEF RenameEntry, Going
    <3> HIDE DEF e
    <3>2. Write(placing.of, e, Content[placing.commit][e])
      BY <2>7 DEF RenameEntry, e
    <3>3. Content[placing.commit][e] \in Blobs
      BY <2>2, <3>1
    <3>4. UNCHANGED <<next, tree, placed>>
      BY <2>7 DEF RenameEntry
    <3> HIDE DEF e
    <3> QED
      BY <3>1, <3>2, <3>3, <3>4, <2>1, <1>1 DEF Write
  <2> QED
    BY <1>5, <2>3, <2>4, <2>5, <2>6, <2>7 DEF PlaceStep
<1>6. ASSUME Placed PROVE TreeType'
  BY <1>6, <1>1 DEF Placed, Placing, Report, Goto, PlacingType, Going
<1>7. ASSUME Resume PROVE TreeType'
  BY <1>7, <1>1, Contents DEF Resume, RemoveDirectories
<1> HIDE DEF TreeType, remoteVars, treeVars, recordVars, kubeletVars, memoryVars,
             reportVars, callVars, passVars
<1> QED
  BY <1>2, <1>3, <1>4, <1>5, <1>6, <1>7, TreeFrame

\* What the driver holds names only its own volumes' targets.
LEMMA HeldTyped ==
    ASSUME TypeOK,
           PodInv,
           [Next]_vars
    PROVE  HeldType'
<1> USE DEF remoteVars, treeVars, recordVars, kubeletVars, memoryVars, reportVars,
            callVars, passVars
<1> USE DEF HeldType
<1>1. HeldType /\ RecordType /\ CallType /\ PodType
  BY TypeParts
<1>2. \A u \in Volumes : CallOf(u) /\ ClaimCall(u) /\ InlineCall(u)
  BY DEF PodInv, PodOf
<1>3. CASE UNCHANGED <<memoryVars, up>>
  BY <1>3, <1>1
<1>4. ASSUME NEW v \in Volumes, Bind(v) PROVE HeldType'
  <2>1. at[v] \in TargetsOf(v) \cap asked
    BY <1>4, <1>2 DEF Bind, CallOf
  <2>2. at[v] \in Targets /\ Owner[at[v]] = v
    BY <2>1, Owners
  <2> QED
    BY <1>4, <1>1, <2>1, <2>2 DEF Bind
<1>5. ASSUME NEW v \in Volumes, Hold(v) PROVE HeldType'
  BY <1>5, <1>1, <1>2, Owners
     DEF Hold, Follow, Done, Goto, CallOf, ClaimCall, InlineCall, Staging, CallType
<1>6. ASSUME NEW v \in Volumes, UnstageClaim(v) PROVE HeldType'
  BY <1>6, <1>1 DEF UnstageClaim, Unfollow, Goto
<1>7. ASSUME NEW t \in Targets, UnpublishClaim(t) PROVE HeldType'
  <2>1. bound' = [bound EXCEPT ![Owner[t]] = @ \ {t}] /\ UNCHANGED <<up, held, followed>>
    BY <1>7 DEF UnpublishClaim
  <2>2. Owner[t] \in Volumes
    BY Owners
  <2> QED
    BY <1>1, <2>1, <2>2
<1>8. ASSUME NEW t \in Targets, UnpublishInline(t) PROVE HeldType'
  BY <1>8, <1>1, Owners DEF UnpublishInline, Unfollow, Goto
<1>9. ASSUME Crash PROVE HeldType'
  BY <1>9, <1>1 DEF Crash, Stop, Nowhere
<1>10. ASSUME Reboot PROVE HeldType'
  BY <1>10, <1>1 DEF Reboot, Stop, Nowhere
<1>11. ASSUME Resume PROVE HeldType'
  BY <1>11, <1>1, Owners
     DEF Resume, RemoveDirectories, Resumed, MountedTargets, RecordType
<1> HIDE DEF HeldType, remoteVars, treeVars, recordVars, kubeletVars, memoryVars,
             reportVars, callVars, passVars
<1> QED
  BY <1>3, <1>4, <1>5, <1>6, <1>7, <1>8, <1>9, <1>10, <1>11, MemoryFrame, UpFrame

\* Mounts keep their type, and only pods that were asked for run.
LEMMA PodTyped ==
    ASSUME TypeOK,
           PodInv,
           [Next]_vars
    PROVE  PodType'
<1> USE DEF remoteVars, treeVars, recordVars, kubeletVars, memoryVars, reportVars,
            callVars, passVars
<1> USE DEF PodType
<1>1. PodType /\ RecordType /\ HeldType /\ CallType
  BY TypeParts
<1>2. \A u \in Volumes : /\ CallOf(u) /\ ClaimCall(u) /\ InlineCall(u)
                           /\ HeldOf(u) /\ MountOf(u) /\ KeptOf(u)
  BY DEF PodInv, PodOf
<1>3. CASE UNCHANGED <<mounts, kubeletVars, recordVars>>
  BY <1>3, <1>1
<1>4. ASSUME NEW v \in Volumes, CallFailed(v) PROVE PodType'
  BY <1>4, <1>1 DEF CallFailed, RemoveDirectories, Done, Goto
<1>5. ASSUME NEW v \in Volumes, Bind(v) PROVE PodType'
  <2>1. at[v] \in TargetsOf(v) \cap asked
    BY <1>5, <1>2 DEF Bind, CallOf
  <2>2. at[v] \in Targets /\ Owner[at[v]] = v
    BY <2>1, Owners
  <2> QED
    BY <1>5, <1>1, <2>1, <2>2 DEF Bind
<1>6. ASSUME NEW v \in Volumes, BindFails(v) PROVE PodType'
  <2>1. at[v] \in TargetsOf(v) \cap asked
    BY <1>6, <1>2 DEF BindFails, CallOf
  <2>2. at[v] \in Targets /\ Owner[at[v]] = v
    BY <2>1, Owners
  <2> QED
    BY <1>6, <1>1, <2>1, <2>2 DEF BindFails
<1>7. ASSUME NEW v \in Volumes, Record(v) PROVE PodType'
  <2>1. Named(v) \subseteq asked
    <3>1. call[v] # "none" /\ (v \in Inlines => call[v] = "record")
      BY <1>7, <1>2 DEF Record, InlineCall
    <3>2. v \in Inlines => at[v] \in asked
      BY <3>1, <1>2 DEF InlineCall, Staging
    <3>3. v \in Claims => bound[v] \subseteq asked
      <4>1. ASSUME v \in Claims, NEW t \in bound[v] PROVE t \in asked
        <5>1. t \in TargetsOf(v) /\ v \in held
          BY <1>1, <1>2, <4>1 DEF HeldType, HeldOf
        <5> QED
          BY <5>1, <4>1, <1>2 DEF KeptOf, MountOf, Keeps
      <4> QED
        BY <4>1
    <3> QED
      BY <3>2, <3>3 DEF Named, Volumes
  <2> QED
    BY <1>7, <1>1, <2>1 DEF Record, RecordTargets
<1>8. ASSUME NEW v \in Volumes, Rewrite(v) PROVE PodType'
  <2>1. Named(v) \subseteq asked
    <3>1. call[v] # "none" /\ (v \in Inlines => call[v] = "record")
      BY <1>8, <1>2 DEF Rewrite, InlineCall
    <3>2. v \in Inlines => at[v] \in asked
      BY <3>1, <1>2 DEF InlineCall, Staging
    <3>3. v \in Claims => bound[v] \subseteq asked
      <4>1. ASSUME v \in Claims, NEW t \in bound[v] PROVE t \in asked
        <5>1. t \in TargetsOf(v) /\ v \in held
          BY <1>1, <1>2, <4>1 DEF HeldType, HeldOf
        <5> QED
          BY <5>1, <4>1, <1>2 DEF KeptOf, MountOf, Keeps
      <4> QED
        BY <4>1
    <3> QED
      BY <3>2, <3>3 DEF Named, Volumes
  <2>2. at[v] \in asked
    BY <1>8, <1>2 DEF Rewrite, CallOf
  <2> QED
    BY <1>8, <1>1, <2>1, <2>2 DEF Rewrite, RecordTargets
<1>9. ASSUME NEW v \in Volumes, Forget(v) PROVE PodType'
  <2>1. Named(v) \subseteq asked
    <3>1. call[v] # "none" /\ (v \in Inlines => call[v] = "record")
      BY <1>9, <1>2 DEF Forget, InlineCall
    <3>2. v \in Inlines => at[v] \in asked
      BY <3>1, <1>2 DEF InlineCall, Staging
    <3>3. v \in Claims => bound[v] \subseteq asked
      <4>1. ASSUME v \in Claims, NEW t \in bound[v] PROVE t \in asked
        <5>1. t \in TargetsOf(v) /\ v \in held
          BY <1>1, <1>2, <4>1 DEF HeldType, HeldOf
        <5> QED
          BY <5>1, <4>1, <1>2 DEF KeptOf, MountOf, Keeps
      <4> QED
        BY <4>1
    <3> QED
      BY <3>2, <3>3 DEF Named, Volumes
  <2> QED
    BY <1>9, <1>1, <2>1 DEF Forget, RecordTargets
<1>10. ASSUME NEW v \in Volumes, Hold(v) PROVE PodType'
  BY <1>10, <1>1, <1>2, Owners
     DEF Hold, Follow, Done, Goto, InlineCall, Staging, HeldType
<1>11. ASSUME NEW v \in Volumes, Unmount(v) PROVE PodType'
  <2>1. at[v] \in TargetsOf(v) \cap asked
    BY <1>11, <1>2 DEF Unmount, CallOf
  <2>2. at[v] \in Targets /\ Owner[at[v]] = v
    BY <2>1, Owners
  <2>3. at[v] \notin running
    BY <1>11, <1>2 DEF Unmount, CallOf
  <2> QED
    BY <1>11, <1>1, <2>3, <2>1, <2>2 DEF Unmount
<1>12. ASSUME NEW v \in Volumes, UnmountFails(v) PROVE PodType'
  <2>1. at[v] \in TargetsOf(v) \cap asked
    BY <1>12, <1>2 DEF UnmountFails, CallOf
  <2>2. at[v] \in Targets /\ Owner[at[v]] = v
    BY <2>1, Owners
  <2> QED
    BY <1>12, <1>1, <2>1, <2>2 DEF UnmountFails
<1>13. ASSUME NEW v \in Volumes, RemoveVolume(v) PROVE PodType'
  BY <1>13, <1>1 DEF RemoveVolume, RemoveDirectories, Done, Goto
<1>14. ASSUME NEW t \in Targets, PublishAgain(t) PROVE PodType'
  BY <1>14, <1>1 DEF PublishAgain
<1>15. ASSUME NEW t \in Targets, PublishInline(t) PROVE PodType'
  BY <1>15, <1>1 DEF PublishInline, Goto
<1>16. ASSUME NEW t \in Targets, PublishClaim(t) PROVE PodType'
  BY <1>16, <1>1 DEF PublishClaim, Goto
<1>17. ASSUME NEW t \in Targets, UnpublishClaim(t) PROVE PodType'
  BY <1>17, <1>1 DEF UnpublishClaim, Goto
<1>18. ASSUME NEW t \in Targets, UnpublishInline(t) PROVE PodType'
  BY <1>18, <1>1 DEF UnpublishInline, Unfollow, Goto
<1>19. ASSUME Reboot PROVE PodType'
  BY <1>19, <1>1 DEF Reboot, Stop
<1>20. ASSUME Resume PROVE PodType'
  BY <1>20, <1>1 DEF Resume, RemoveDirectories
<1> HIDE DEF PodType, remoteVars, treeVars, recordVars, kubeletVars, memoryVars,
             reportVars, callVars, passVars
<1> QED
  BY <1>3, <1>4, <1>5, <1>6, <1>7, <1>8, <1>9, <1>10, <1>11, <1>12, <1>13, <1>14,
     <1>15, <1>16, <1>17, <1>18, <1>19, <1>20, MountFrame, KubeletFrame, RecordFrame

\* A placement runs only under the loop's lock or its own volume's.
LEMMA PlacingTyped ==
    ASSUME TypeOK,
           [Next]_vars
    PROVE  PlacingType'
<1> USE DEF remoteVars, treeVars, recordVars, kubeletVars, memoryVars, reportVars,
            callVars, passVars
<1> USE DEF PlacingType
<1>1. PlacingType /\ RemoteType /\ LockType
  BY TypeParts
<1>2. \A v \in Volumes : v # "free" /\ v # "pass"
  BY LockNames
<1>3. CASE UNCHANGED <<lock, placing>>
  BY <1>3, <1>1, <1>2
<1>4. ASSUME NEW v \in Volumes, StageFetch(v) PROVE PlacingType'
  BY <1>4, <1>1, PlacementBegins DEF StageFetch, StagePlaces, RemoteType
<1>5. ASSUME NEW v \in Volumes, StageStale(v) PROVE PlacingType'
  BY <1>5, <1>1, PlacementBegins DEF StageStale, StagePlaces, RemoteType
<1>6. ASSUME PlaceStep PROVE PlacingType'
  BY <1>6, <1>1, PlaceStepGoes DEF PlaceStep
<1>7. ASSUME Placed PROVE PlacingType'
  BY <1>7, <1>1, <1>2 DEF Placed, Placing, Report, Goto
<1>8. ASSUME PlaceFails PROVE PlacingType'
  BY <1>8, <1>1, <1>2 DEF PlaceFails, Goto
<1>9. ASSUME PassBegins PROVE PlacingType'
  BY <1>9, <1>1, <1>2 DEF PassBegins, Going
<1>10. ASSUME NEW v \in Volumes, PassFetches(v) PROVE PlacingType'
  <2>1. placing' = placing \/ placing' = Placement(v, remote, FALSE)
    BY <1>10 DEF PassFetches
  <2>2. lock = "pass" /\ UNCHANGED lock
    BY <1>10 DEF PassFetches
  <2>3. Placement(v, remote, FALSE) \in Going
    BY <1>1, PlacementBegins DEF RemoteType
  <2> QED
    BY <2>1, <2>2, <2>3, <1>1
<1>11. ASSUME PassEnds PROVE PlacingType'
  BY <1>11, <1>1, <1>2 DEF PassEnds
<1>12. ASSUME Crash PROVE PlacingType'
  BY <1>12, <1>1, <1>2 DEF Crash, Stop
<1>13. ASSUME Reboot PROVE PlacingType'
  BY <1>13, <1>1, <1>2 DEF Reboot, Stop
<1> HIDE DEF PlacingType, remoteVars, treeVars, recordVars, kubeletVars, memoryVars,
             reportVars, callVars, passVars
<1> QED
  BY <1>3, <1>4, <1>5, <1>6, <1>7, <1>8, <1>9, <1>10, <1>11, <1>12, <1>13, LockFrame,
     PlacingFrame

-----------------------------------------------------------------------------
(* What the steps make of a volume and its pods *)

\* The stage of a claim takes the call and leaves its pods alone.
LEMMA StageClaimPods ==
    ASSUME TypeOK, PodInv, NEW v \in Volumes, StageClaim(v)
    PROVE  PodOf(v)' /\ \A w \in Volumes \ {v} : Spared(w)
<1> USE DEF remoteVars, treeVars, recordVars, kubeletVars, memoryVars, reportVars,
            callVars, passVars
<1>1. v \in Volumes /\ PodOf(v)
  BY Owners DEF PodInv
<1>2. CallType /\ HeldType /\ PodType /\ RecordType /\ LockType /\ TreeType
  BY TypeParts
<1>3. /\ (v \in Claims /\ v \notin Inlines) \/ (v \in Inlines /\ v \notin Claims)
      /\ \A t \in recorded[v] : t \in TargetsOf(v)
      /\ \A t \in bound[v] : t \in TargetsOf(v)
      /\ \A t \in TargetsOf(v) : t \in Targets /\ Owner[t] = v
      /\ \A w \in Volumes \ {v} : \A t \in TargetsOf(w) : t \in Targets /\ Owner[t] = w
  BY <1>1, <1>2, Owners DEF RecordType, HeldType
<1>4. v # "free" /\ v # "pass"
  BY <1>1, LockNames
<1>5. /\ call[v] = "none" /\ v \in Claims /\ v \notin held /\ up
      /\ call'[v] = "lock"
      /\ UNCHANGED <<up, lock, at, asked, running, held, followed, bound, mounts, tree,
           record, recorded, unrecorded>>
  BY <1>1, <1>2, <1>3, <1>4
     DEF StageClaim, Goto, CallType, HeldType, PodType, RecordType
<1>6. ASSUME NEW w \in Volumes \ {v} PROVE Spared(w)
  <2>1. /\ up' = up /\ (lock' = w <=> lock = w)
        /\ call'[w] = call[w] /\ at'[w] = at[w]
        /\ recorded'[w] = recorded[w] /\ bound'[w] = bound[w]
        /\ (w \in held' <=> w \in held) /\ (w \in followed' <=> w \in followed)
        /\ (w \in record' <=> w \in record) /\ (w \in tree => w \in tree')
    BY <1>1, <1>2, <1>3, <1>4, <1>6, LockNames
       DEF StageClaim, Goto, CallType, HeldType, RecordType, LockType
  <2>2. ASSUME NEW t \in TargetsOf(w)
        PROVE  /\ mounts'[t] = mounts[t] /\ (t \in asked' <=> t \in asked)
               /\ t \in running' <=> t \in running
               /\ t \in unrecorded' <=> t \in unrecorded
    BY <1>1, <1>2, <1>3, <1>4, <1>6 DEF StageClaim, Goto, PodType, RecordType, HeldType
  <2> QED
    BY <2>1, <2>2 DEF Spared
<1> HIDE DEF remoteVars, treeVars, recordVars, kubeletVars, memoryVars, reportVars,
             callVars, passVars
<1>7. CallOf(v)'
  BY <1>1, <1>2, <1>3, <1>4, <1>5, Owners, LockNames
     DEF PodOf, CallOf, ClaimCall, InlineCall, HeldOf, Staging, HeldType, PodType
<1>8. ClaimCall(v)' /\ InlineCall(v)'
  BY <1>1, <1>2, <1>3, <1>4, <1>5, Owners
     DEF PodOf, CallOf, ClaimCall, InlineCall, HeldOf, Staging
<1>9. HeldOf(v)'
  BY <1>1, <1>2, <1>3, <1>4, <1>5, Owners
     DEF PodOf, CallOf, ClaimCall, InlineCall, HeldOf, Staging
<1>10. MountOf(v)'
  BY <1>1, <1>2, <1>3, <1>4, <1>5, Owners
     DEF PodOf, CallOf, ClaimCall, InlineCall, HeldOf, MountOf, KeptOf, Keeps, Staging,
         RecordType, PodType
<1>11. KeptOf(v)'
  BY <1>1, <1>2, <1>3, <1>4, <1>5, Owners
     DEF PodOf, CallOf, ClaimCall, InlineCall, HeldOf, KeptOf, Keeps, Staging, RunOf
<1>12. RunOf(v)'
  BY <1>1, <1>2, <1>3, <1>4, <1>5, Owners
     DEF PodOf, CallOf, ClaimCall, InlineCall, HeldOf, MountOf, KeptOf, RunOf, Keeps,
         Staging, PodType
<1> QED
  BY <1>6, <1>7, <1>8, <1>9, <1>10, <1>11, <1>12 DEF PodOf

\* The fetch of a stage moves only the call and the lock.
LEMMA StageFetchPods ==
    ASSUME TypeOK, PodInv, NEW v \in Volumes, StageFetch(v)
    PROVE  PodOf(v)' /\ \A w \in Volumes \ {v} : Spared(w)
<1> USE DEF remoteVars, treeVars, recordVars, kubeletVars, memoryVars, reportVars,
            callVars, passVars
<1>1. v \in Volumes /\ PodOf(v)
  BY Owners DEF PodInv
<1>2. CallType /\ HeldType /\ PodType /\ RecordType /\ LockType /\ TreeType
  BY TypeParts
<1>3. /\ (v \in Claims /\ v \notin Inlines) \/ (v \in Inlines /\ v \notin Claims)
      /\ \A t \in recorded[v] : t \in TargetsOf(v)
      /\ \A t \in bound[v] : t \in TargetsOf(v)
      /\ \A t \in TargetsOf(v) : t \in Targets /\ Owner[t] = v
      /\ \A w \in Volumes \ {v} : \A t \in TargetsOf(w) : t \in Targets /\ Owner[t] = w
  BY <1>1, <1>2, Owners DEF RecordType, HeldType
<1>4. v # "free" /\ v # "pass"
  BY <1>1, LockNames
<1>5. /\ call[v] = "lock" /\ call'[v] = "place" /\ lock' = v
      /\ UNCHANGED <<up, at, asked, running, held, followed, bound, mounts, tree,
           record, recorded, unrecorded>>
  BY <1>1, <1>2, <1>3, <1>4
     DEF StageFetch, StagePlaces, FetchBegins, Goto, NoFault, CallType, HeldType,
         PodType, RecordType
<1>6. ASSUME NEW w \in Volumes \ {v} PROVE Spared(w)
  <2>1. /\ up' = up /\ (lock' = w <=> lock = w)
        /\ call'[w] = call[w] /\ at'[w] = at[w]
        /\ recorded'[w] = recorded[w] /\ bound'[w] = bound[w]
        /\ (w \in held' <=> w \in held) /\ (w \in followed' <=> w \in followed)
        /\ (w \in record' <=> w \in record) /\ (w \in tree => w \in tree')
    BY <1>1, <1>2, <1>3, <1>4, <1>6, LockNames
       DEF StageFetch, StagePlaces, FetchBegins, Goto, NoFault, CallType, HeldType,
           RecordType, LockType
  <2>2. ASSUME NEW t \in TargetsOf(w)
        PROVE  /\ mounts'[t] = mounts[t] /\ (t \in asked' <=> t \in asked)
               /\ t \in running' <=> t \in running
               /\ t \in unrecorded' <=> t \in unrecorded
    BY <1>1, <1>2, <1>3, <1>4, <1>6
       DEF StageFetch, StagePlaces, FetchBegins, Goto, NoFault, PodType, RecordType,
           HeldType
  <2> QED
    BY <2>1, <2>2 DEF Spared
<1> HIDE DEF remoteVars, treeVars, recordVars, kubeletVars, memoryVars, reportVars,
             callVars, passVars
<1>7. CallOf(v)'
  BY <1>1, <1>2, <1>3, <1>4, <1>5, Owners, LockNames
     DEF PodOf, CallOf, ClaimCall, InlineCall, HeldOf, Staging, HeldType, PodType
<1>8. ClaimCall(v)' /\ InlineCall(v)'
  BY <1>1, <1>2, <1>3, <1>4, <1>5, Owners
     DEF PodOf, CallOf, ClaimCall, InlineCall, HeldOf, Staging
<1>9. HeldOf(v)'
  BY <1>1, <1>2, <1>3, <1>4, <1>5, Owners
     DEF PodOf, CallOf, ClaimCall, InlineCall, HeldOf, Staging
<1>10. MountOf(v)'
  BY <1>1, <1>2, <1>3, <1>4, <1>5, Owners
     DEF PodOf, CallOf, ClaimCall, InlineCall, HeldOf, MountOf, KeptOf, Keeps, Staging,
         RecordType, PodType
<1>11. KeptOf(v)'
  BY <1>1, <1>2, <1>3, <1>4, <1>5, Owners
     DEF PodOf, CallOf, ClaimCall, InlineCall, HeldOf, KeptOf, Keeps, Staging, RunOf
<1>12. RunOf(v)'
  BY <1>1, <1>2, <1>3, <1>4, <1>5, Owners
     DEF PodOf, CallOf, ClaimCall, InlineCall, HeldOf, MountOf, KeptOf, RunOf, Keeps,
         Staging, PodType
<1> QED
  BY <1>6, <1>7, <1>8, <1>9, <1>10, <1>11, <1>12 DEF PodOf

\* A stage served from the store's copy moves only the call and the lock.
LEMMA StageStalePods ==
    ASSUME TypeOK, PodInv, NEW v \in Volumes, StageStale(v)
    PROVE  PodOf(v)' /\ \A w \in Volumes \ {v} : Spared(w)
<1> USE DEF remoteVars, treeVars, recordVars, kubeletVars, memoryVars, reportVars,
            callVars, passVars
<1>1. v \in Volumes /\ PodOf(v)
  BY Owners DEF PodInv
<1>2. CallType /\ HeldType /\ PodType /\ RecordType /\ LockType /\ TreeType
  BY TypeParts
<1>3. /\ (v \in Claims /\ v \notin Inlines) \/ (v \in Inlines /\ v \notin Claims)
      /\ \A t \in recorded[v] : t \in TargetsOf(v)
      /\ \A t \in bound[v] : t \in TargetsOf(v)
      /\ \A t \in TargetsOf(v) : t \in Targets /\ Owner[t] = v
      /\ \A w \in Volumes \ {v} : \A t \in TargetsOf(w) : t \in Targets /\ Owner[t] = w
  BY <1>1, <1>2, Owners DEF RecordType, HeldType
<1>4. v # "free" /\ v # "pass"
  BY <1>1, LockNames
<1>5. /\ call[v] = "lock" /\ call'[v] = "place" /\ lock' = v
      /\ UNCHANGED <<up, at, asked, running, held, followed, bound, mounts, tree,
           record, recorded, unrecorded>>
  BY <1>1, <1>2, <1>3, <1>4
     DEF StageStale, StagePlaces, FetchBegins, Goto, Fault, CallType, HeldType,
         PodType, RecordType
<1>6. ASSUME NEW w \in Volumes \ {v} PROVE Spared(w)
  <2>1. /\ up' = up /\ (lock' = w <=> lock = w)
        /\ call'[w] = call[w] /\ at'[w] = at[w]
        /\ recorded'[w] = recorded[w] /\ bound'[w] = bound[w]
        /\ (w \in held' <=> w \in held) /\ (w \in followed' <=> w \in followed)
        /\ (w \in record' <=> w \in record) /\ (w \in tree => w \in tree')
    BY <1>1, <1>2, <1>3, <1>4, <1>6, LockNames
       DEF StageStale, StagePlaces, FetchBegins, Goto, Fault, CallType, HeldType,
           RecordType, LockType
  <2>2. ASSUME NEW t \in TargetsOf(w)
        PROVE  /\ mounts'[t] = mounts[t] /\ (t \in asked' <=> t \in asked)
               /\ t \in running' <=> t \in running
               /\ t \in unrecorded' <=> t \in unrecorded
    BY <1>1, <1>2, <1>3, <1>4, <1>6
       DEF StageStale, StagePlaces, FetchBegins, Goto, Fault, PodType, RecordType,
           HeldType
  <2> QED
    BY <2>1, <2>2 DEF Spared
<1> HIDE DEF remoteVars, treeVars, recordVars, kubeletVars, memoryVars, reportVars,
             callVars, passVars
<1>7. CallOf(v)'
  BY <1>1, <1>2, <1>3, <1>4, <1>5, Owners, LockNames
     DEF PodOf, CallOf, ClaimCall, InlineCall, HeldOf, Staging, HeldType, PodType
<1>8. ClaimCall(v)' /\ InlineCall(v)'
  BY <1>1, <1>2, <1>3, <1>4, <1>5, Owners
     DEF PodOf, CallOf, ClaimCall, InlineCall, HeldOf, Staging
<1>9. HeldOf(v)'
  BY <1>1, <1>2, <1>3, <1>4, <1>5, Owners
     DEF PodOf, CallOf, ClaimCall, InlineCall, HeldOf, Staging
<1>10. MountOf(v)'
  BY <1>1, <1>2, <1>3, <1>4, <1>5, Owners
     DEF PodOf, CallOf, ClaimCall, InlineCall, HeldOf, MountOf, KeptOf, Keeps, Staging,
         RecordType, PodType
<1>11. KeptOf(v)'
  BY <1>1, <1>2, <1>3, <1>4, <1>5, Owners
     DEF PodOf, CallOf, ClaimCall, InlineCall, HeldOf, KeptOf, Keeps, Staging, RunOf
<1>12. RunOf(v)'
  BY <1>1, <1>2, <1>3, <1>4, <1>5, Owners
     DEF PodOf, CallOf, ClaimCall, InlineCall, HeldOf, MountOf, KeptOf, RunOf, Keeps,
         Staging, PodType
<1> QED
  BY <1>6, <1>7, <1>8, <1>9, <1>10, <1>11, <1>12 DEF PodOf

\* A refused stage fails its call and leaves its pods alone.
LEMMA StageRefusedPods ==
    ASSUME TypeOK, PodInv, NEW v \in Volumes, StageRefused(v)
    PROVE  PodOf(v)' /\ \A w \in Volumes \ {v} : Spared(w)
<1> USE DEF remoteVars, treeVars, recordVars, kubeletVars, memoryVars, reportVars,
            callVars, passVars
<1>1. v \in Volumes /\ PodOf(v)
  BY Owners DEF PodInv
<1>2. CallType /\ HeldType /\ PodType /\ RecordType /\ LockType /\ TreeType
  BY TypeParts
<1>3. /\ (v \in Claims /\ v \notin Inlines) \/ (v \in Inlines /\ v \notin Claims)
      /\ \A t \in recorded[v] : t \in TargetsOf(v)
      /\ \A t \in bound[v] : t \in TargetsOf(v)
      /\ \A t \in TargetsOf(v) : t \in Targets /\ Owner[t] = v
      /\ \A w \in Volumes \ {v} : \A t \in TargetsOf(w) : t \in Targets /\ Owner[t] = w
  BY <1>1, <1>2, Owners DEF RecordType, HeldType
<1>4. v # "free" /\ v # "pass"
  BY <1>1, LockNames
<1>5. /\ call[v] = "lock" /\ call'[v] = "failed"
      /\ UNCHANGED <<up, lock, at, asked, running, held, followed, bound, mounts, tree,
           record, recorded, unrecorded>>
  BY <1>1, <1>2, <1>3, <1>4
     DEF StageRefused, FetchBegins, Goto, Fault, CallType, HeldType, PodType, RecordType
<1>6. ASSUME NEW w \in Volumes \ {v} PROVE Spared(w)
  <2>1. /\ up' = up /\ (lock' = w <=> lock = w)
        /\ call'[w] = call[w] /\ at'[w] = at[w]
        /\ recorded'[w] = recorded[w] /\ bound'[w] = bound[w]
        /\ (w \in held' <=> w \in held) /\ (w \in followed' <=> w \in followed)
        /\ (w \in record' <=> w \in record) /\ (w \in tree => w \in tree')
    BY <1>1, <1>2, <1>3, <1>4, <1>6, LockNames
       DEF StageRefused, FetchBegins, Goto, Fault, CallType, HeldType, RecordType,
           LockType
  <2>2. ASSUME NEW t \in TargetsOf(w)
        PROVE  /\ mounts'[t] = mounts[t] /\ (t \in asked' <=> t \in asked)
               /\ t \in running' <=> t \in running
               /\ t \in unrecorded' <=> t \in unrecorded
    BY <1>1, <1>2, <1>3, <1>4, <1>6
       DEF StageRefused, FetchBegins, Goto, Fault, PodType, RecordType, HeldType
  <2> QED
    BY <2>1, <2>2 DEF Spared
<1> HIDE DEF remoteVars, treeVars, recordVars, kubeletVars, memoryVars, reportVars,
             callVars, passVars
<1>7. CallOf(v)'
  BY <1>1, <1>2, <1>3, <1>4, <1>5, Owners, LockNames
     DEF PodOf, CallOf, ClaimCall, InlineCall, HeldOf, Staging, HeldType, PodType
<1>8. ClaimCall(v)' /\ InlineCall(v)'
  BY <1>1, <1>2, <1>3, <1>4, <1>5, Owners
     DEF PodOf, CallOf, ClaimCall, InlineCall, HeldOf, Staging
<1>9. HeldOf(v)'
  BY <1>1, <1>2, <1>3, <1>4, <1>5, Owners
     DEF PodOf, CallOf, ClaimCall, InlineCall, HeldOf, Staging
<1>10. MountOf(v)'
  BY <1>1, <1>2, <1>3, <1>4, <1>5, Owners
     DEF PodOf, CallOf, ClaimCall, InlineCall, HeldOf, MountOf, KeptOf, Keeps, Staging,
         RecordType, PodType
<1>11. KeptOf(v)'
  BY <1>1, <1>2, <1>3, <1>4, <1>5, Owners
     DEF PodOf, CallOf, ClaimCall, InlineCall, HeldOf, KeptOf, Keeps, Staging, RunOf
<1>12. RunOf(v)'
  BY <1>1, <1>2, <1>3, <1>4, <1>5, Owners
     DEF PodOf, CallOf, ClaimCall, InlineCall, HeldOf, MountOf, KeptOf, RunOf, Keeps,
         Staging, PodType
<1> QED
  BY <1>6, <1>7, <1>8, <1>9, <1>10, <1>11, <1>12 DEF PodOf

\* A failed call takes down a tree that no pod runs on.
LEMMA CallFailedPods ==
    ASSUME TypeOK, PodInv, NEW v \in Volumes, CallFailed(v)
    PROVE  PodOf(v)' /\ \A w \in Volumes \ {v} : Spared(w)
<1> USE DEF remoteVars, treeVars, recordVars, kubeletVars, memoryVars, reportVars,
            callVars, passVars
<1>1. v \in Volumes /\ PodOf(v)
  BY Owners DEF PodInv
<1>2. CallType /\ HeldType /\ PodType /\ RecordType /\ LockType /\ TreeType
  BY TypeParts
<1>3. /\ (v \in Claims /\ v \notin Inlines) \/ (v \in Inlines /\ v \notin Claims)
      /\ \A t \in recorded[v] : t \in TargetsOf(v)
      /\ \A t \in bound[v] : t \in TargetsOf(v)
      /\ \A t \in TargetsOf(v) : t \in Targets /\ Owner[t] = v
      /\ \A w \in Volumes \ {v} : \A t \in TargetsOf(w) : t \in Targets /\ Owner[t] = w
  BY <1>1, <1>2, Owners DEF RecordType, HeldType
<1>4. v # "free" /\ v # "pass"
  BY <1>1, LockNames
<1>5. /\ call[v] = "failed"
      /\ call'[v] = "none" /\ recorded'[v] = {} /\ v \notin record' /\ v \notin tree'
      /\ \A t \in TargetsOf(v) :
            mounts'[t] = IF mounts[t] = "tree" THEN "gone" ELSE mounts[t]
      /\ UNCHANGED <<up, lock, asked, running, held, followed, bound, unrecorded>>
  BY <1>1, <1>2, <1>3, <1>4
     DEF CallFailed, RemoveDirectories, Done, Goto, CallType, HeldType, PodType,
         RecordType
<1>6. ASSUME NEW w \in Volumes \ {v} PROVE Spared(w)
  <2>1. /\ up' = up /\ (lock' = w <=> lock = w)
        /\ call'[w] = call[w] /\ at'[w] = at[w]
        /\ recorded'[w] = recorded[w] /\ bound'[w] = bound[w]
        /\ (w \in held' <=> w \in held) /\ (w \in followed' <=> w \in followed)
        /\ (w \in record' <=> w \in record) /\ (w \in tree => w \in tree')
    BY <1>1, <1>2, <1>3, <1>4, <1>6, LockNames
       DEF CallFailed, RemoveDirectories, Done, Goto, CallType, HeldType, RecordType,
           LockType
  <2>2. ASSUME NEW t \in TargetsOf(w)
        PROVE  /\ mounts'[t] = mounts[t] /\ (t \in asked' <=> t \in asked)
               /\ t \in running' <=> t \in running
               /\ t \in unrecorded' <=> t \in unrecorded
    BY <1>1, <1>2, <1>3, <1>4, <1>6
       DEF CallFailed, RemoveDirectories, Done, Goto, PodType, RecordType, HeldType
  <2> QED
    BY <2>1, <2>2 DEF Spared
<1> HIDE DEF remoteVars, treeVars, recordVars, kubeletVars, memoryVars, reportVars,
             callVars, passVars
<1>7. CallOf(v)'
  BY <1>1, <1>2, <1>3, <1>4, <1>5, Owners, LockNames
     DEF PodOf, CallOf, ClaimCall, InlineCall, HeldOf, Staging, HeldType, PodType
<1>8. ClaimCall(v)' /\ InlineCall(v)'
  BY <1>1, <1>2, <1>3, <1>4, <1>5, Owners
     DEF PodOf, CallOf, ClaimCall, InlineCall, HeldOf, Staging
<1>9. HeldOf(v)'
  BY <1>1, <1>2, <1>3, <1>4, <1>5, Owners
     DEF PodOf, CallOf, ClaimCall, InlineCall, HeldOf, Staging
<1>10. MountOf(v)'
  BY <1>1, <1>2, <1>3, <1>4, <1>5, Owners
     DEF PodOf, CallOf, ClaimCall, InlineCall, HeldOf, MountOf, KeptOf, Keeps, Staging,
         RecordType, PodType
<1>11. KeptOf(v)'
  BY <1>1, <1>2, <1>3, <1>4, <1>5, Owners
     DEF PodOf, CallOf, ClaimCall, InlineCall, HeldOf, KeptOf, Keeps, Staging, RunOf
<1>12. RunOf(v)'
  BY <1>1, <1>2, <1>3, <1>4, <1>5, Owners
     DEF PodOf, CallOf, ClaimCall, InlineCall, HeldOf, MountOf, KeptOf, RunOf, Keeps,
         Staging, PodType
<1> QED
  BY <1>6, <1>7, <1>8, <1>9, <1>10, <1>11, <1>12 DEF PodOf

\* A bind mount puts the tree under the target of its call.
LEMMA BindPods ==
    ASSUME TypeOK, PodInv, NEW v \in Volumes, Bind(v)
    PROVE  PodOf(v)' /\ \A w \in Volumes \ {v} : Spared(w)
<1> USE DEF remoteVars, treeVars, recordVars, kubeletVars, memoryVars, reportVars,
            callVars, passVars
<1>1. v \in Volumes /\ PodOf(v)
  BY Owners DEF PodInv
<1>2. CallType /\ HeldType /\ PodType /\ RecordType /\ LockType /\ TreeType
  BY TypeParts
<1>3. /\ (v \in Claims /\ v \notin Inlines) \/ (v \in Inlines /\ v \notin Claims)
      /\ \A t \in recorded[v] : t \in TargetsOf(v)
      /\ \A t \in bound[v] : t \in TargetsOf(v)
      /\ \A t \in TargetsOf(v) : t \in Targets /\ Owner[t] = v
      /\ \A w \in Volumes \ {v} : \A t \in TargetsOf(w) : t \in Targets /\ Owner[t] = w
  BY <1>1, <1>2, Owners DEF RecordType, HeldType
<1>4. at[v] \in TargetsOf(v)
  BY <1>1 DEF Bind, PodOf, CallOf
<1>5. /\ call[v] = "bind" /\ v \in tree
      /\ \A t \in TargetsOf(v) : mounts'[t] = IF t = at[v] THEN "tree" ELSE mounts[t]
      /\ v \in Claims => bound'[v] = bound[v] \cup {at[v]} /\ call'[v] = "rewrite"
      /\ v \in Inlines => bound'[v] = bound[v] /\ call'[v] = "record"
      /\ UNCHANGED <<up, lock, at, asked, running, held, followed, tree, record,
           recorded, unrecorded>>
  BY <1>1, <1>2, <1>3, <1>4
     DEF Bind, Goto, NoFault, CallType, HeldType, PodType, RecordType
<1>6. ASSUME NEW w \in Volumes \ {v} PROVE Spared(w)
  <2>1. /\ up' = up /\ (lock' = w <=> lock = w)
        /\ call'[w] = call[w] /\ at'[w] = at[w]
        /\ recorded'[w] = recorded[w] /\ bound'[w] = bound[w]
        /\ (w \in held' <=> w \in held) /\ (w \in followed' <=> w \in followed)
        /\ (w \in record' <=> w \in record) /\ (w \in tree => w \in tree')
    BY <1>1, <1>2, <1>3, <1>4, <1>6, LockNames
       DEF Bind, Goto, NoFault, CallType, HeldType, RecordType, LockType
  <2>2. ASSUME NEW t \in TargetsOf(w)
        PROVE  /\ mounts'[t] = mounts[t] /\ (t \in asked' <=> t \in asked)
               /\ t \in running' <=> t \in running
               /\ t \in unrecorded' <=> t \in unrecorded
    BY <1>1, <1>2, <1>3, <1>4, <1>6
       DEF Bind, Goto, NoFault, PodType, RecordType, HeldType
  <2> QED
    BY <2>1, <2>2 DEF Spared
<1> HIDE DEF remoteVars, treeVars, recordVars, kubeletVars, memoryVars, reportVars,
             callVars, passVars
<1>7. CallOf(v)'
  BY <1>1, <1>2, <1>3, <1>4, <1>5, Owners, LockNames
     DEF PodOf, CallOf, ClaimCall, InlineCall, HeldOf, Staging, HeldType, PodType
<1>8. ClaimCall(v)' /\ InlineCall(v)'
  BY <1>1, <1>2, <1>3, <1>4, <1>5, Owners
     DEF PodOf, CallOf, ClaimCall, InlineCall, HeldOf, Staging
<1>9. HeldOf(v)'
  BY <1>1, <1>2, <1>3, <1>4, <1>5, Owners
     DEF PodOf, CallOf, ClaimCall, InlineCall, HeldOf, Staging
<1>10. MountOf(v)'
  BY <1>1, <1>2, <1>3, <1>4, <1>5, Owners
     DEF PodOf, CallOf, ClaimCall, InlineCall, HeldOf, MountOf, KeptOf, Keeps, Staging,
         RecordType, PodType
<1>11. KeptOf(v)'
  BY <1>1, <1>2, <1>3, <1>4, <1>5, Owners
     DEF PodOf, CallOf, ClaimCall, InlineCall, HeldOf, KeptOf, Keeps, Staging, RunOf
<1>12. RunOf(v)'
  BY <1>1, <1>2, <1>3, <1>4, <1>5, Owners
     DEF PodOf, CallOf, ClaimCall, InlineCall, HeldOf, MountOf, KeptOf, RunOf, Keeps,
         Staging, PodType
<1> QED
  BY <1>6, <1>7, <1>8, <1>9, <1>10, <1>11, <1>12 DEF PodOf

\* A failed bind leaves every other target's mount.
LEMMA BindFailsPods ==
    ASSUME TypeOK, PodInv, NEW v \in Volumes, BindFails(v)
    PROVE  PodOf(v)' /\ \A w \in Volumes \ {v} : Spared(w)
<1> USE DEF remoteVars, treeVars, recordVars, kubeletVars, memoryVars, reportVars,
            callVars, passVars
<1>1. v \in Volumes /\ PodOf(v)
  BY Owners DEF PodInv
<1>2. CallType /\ HeldType /\ PodType /\ RecordType /\ LockType /\ TreeType
  BY TypeParts
<1>3. /\ (v \in Claims /\ v \notin Inlines) \/ (v \in Inlines /\ v \notin Claims)
      /\ \A t \in recorded[v] : t \in TargetsOf(v)
      /\ \A t \in bound[v] : t \in TargetsOf(v)
      /\ \A t \in TargetsOf(v) : t \in Targets /\ Owner[t] = v
      /\ \A w \in Volumes \ {v} : \A t \in TargetsOf(w) : t \in Targets /\ Owner[t] = w
  BY <1>1, <1>2, Owners DEF RecordType, HeldType
<1>4. at[v] \in TargetsOf(v)
  BY <1>1 DEF BindFails, PodOf, CallOf
<1>5. /\ call[v] = "bind"
      /\ \A t \in TargetsOf(v) :
            mounts'[t] = mounts[t] \/ (t = at[v] /\ mounts'[t] = "none")
      /\ v \in Claims => call'[v] = "none"
      /\ v \in Inlines => call'[v] = "failed" /\ at'[v] = at[v]
      /\ UNCHANGED <<up, lock, asked, running, held, followed, bound, tree, record,
           recorded, unrecorded>>
  BY <1>1, <1>2, <1>3, <1>4
     DEF BindFails, Done, Goto, Fault, CallType, HeldType, PodType, RecordType
<1>6. ASSUME NEW w \in Volumes \ {v} PROVE Spared(w)
  <2>1. /\ up' = up /\ (lock' = w <=> lock = w)
        /\ call'[w] = call[w] /\ at'[w] = at[w]
        /\ recorded'[w] = recorded[w] /\ bound'[w] = bound[w]
        /\ (w \in held' <=> w \in held) /\ (w \in followed' <=> w \in followed)
        /\ (w \in record' <=> w \in record) /\ (w \in tree => w \in tree')
    BY <1>1, <1>2, <1>3, <1>4, <1>6, LockNames
       DEF BindFails, Done, Goto, Fault, CallType, HeldType, RecordType, LockType
  <2>2. ASSUME NEW t \in TargetsOf(w)
        PROVE  /\ mounts'[t] = mounts[t] /\ (t \in asked' <=> t \in asked)
               /\ t \in running' <=> t \in running
               /\ t \in unrecorded' <=> t \in unrecorded
    BY <1>1, <1>2, <1>3, <1>4, <1>6
       DEF BindFails, Done, Goto, Fault, PodType, RecordType, HeldType
  <2> QED
    BY <2>1, <2>2 DEF Spared
<1> HIDE DEF remoteVars, treeVars, recordVars, kubeletVars, memoryVars, reportVars,
             callVars, passVars
<1>7. CallOf(v)'
  BY <1>1, <1>2, <1>3, <1>4, <1>5, Owners, LockNames
     DEF PodOf, CallOf, ClaimCall, InlineCall, HeldOf, Staging, HeldType, PodType
<1>8. ClaimCall(v)' /\ InlineCall(v)'
  BY <1>1, <1>2, <1>3, <1>4, <1>5, Owners
     DEF PodOf, CallOf, ClaimCall, InlineCall, HeldOf, Staging
<1>9. HeldOf(v)'
  BY <1>1, <1>2, <1>3, <1>4, <1>5, Owners
     DEF PodOf, CallOf, ClaimCall, InlineCall, HeldOf, Staging
<1>10. MountOf(v)'
  BY <1>1, <1>2, <1>3, <1>4, <1>5, Owners
     DEF PodOf, CallOf, ClaimCall, InlineCall, HeldOf, MountOf, KeptOf, Keeps, Staging,
         RecordType, PodType
<1>11. KeptOf(v)'
  BY <1>1, <1>2, <1>3, <1>4, <1>5, Owners
     DEF PodOf, CallOf, ClaimCall, InlineCall, HeldOf, KeptOf, Keeps, Staging, RunOf
<1>12. RunOf(v)'
  BY <1>1, <1>2, <1>3, <1>4, <1>5, Owners
     DEF PodOf, CallOf, ClaimCall, InlineCall, HeldOf, MountOf, KeptOf, RunOf, Keeps,
         Staging, PodType
<1> QED
  BY <1>6, <1>7, <1>8, <1>9, <1>10, <1>11, <1>12 DEF PodOf

\* A record names the targets bound, or leaves them unrecorded.
LEMMA RecordPods ==
    ASSUME TypeOK, PodInv, NEW v \in Volumes, Record(v)
    PROVE  PodOf(v)' /\ \A w \in Volumes \ {v} : Spared(w)
<1> USE DEF remoteVars, treeVars, recordVars, kubeletVars, memoryVars, reportVars,
            callVars, passVars
<1>1. v \in Volumes /\ PodOf(v)
  BY Owners DEF PodInv
<1>2. CallType /\ HeldType /\ PodType /\ RecordType /\ LockType /\ TreeType
  BY TypeParts
<1>3. /\ (v \in Claims /\ v \notin Inlines) \/ (v \in Inlines /\ v \notin Claims)
      /\ \A t \in recorded[v] : t \in TargetsOf(v)
      /\ \A t \in bound[v] : t \in TargetsOf(v)
      /\ \A t \in TargetsOf(v) : t \in Targets /\ Owner[t] = v
      /\ \A w \in Volumes \ {v} : \A t \in TargetsOf(w) : t \in Targets /\ Owner[t] = w
  BY <1>1, <1>2, Owners DEF RecordType, HeldType
<1>4. (\A t \in Named(v) : t \in TargetsOf(v)) /\ (v \in Inlines => at[v] \in TargetsOf(v))
      /\ (call[v] \in {"rewrite", "forget"} => at[v] \in TargetsOf(v))
  BY <1>1, <1>3 DEF Record, PodOf, CallOf, InlineCall, Staging, Named
<1>5. /\ call[v] = "record" /\ call'[v] = "hold"
      /\ \/ /\ v \in record' /\ recorded'[v] = Named(v)
            /\ \A t \in TargetsOf(v) :
                 t \in unrecorded' <=>
                   t \in unrecorded /\ ~(t \in bound[v] /\ t \in Named(v))
         \/ /\ UNCHANGED <<record, recorded>>
            /\ \A t \in TargetsOf(v) :
                 t \in unrecorded' <=>
                   t \in unrecorded \/ (t \in Named(v) /\ t \notin recorded[v])
      /\ UNCHANGED <<up, lock, at, asked, running, held, followed, bound, mounts, tree>>
  BY <1>1, <1>2, <1>3, <1>4
     DEF Record, RecordTargets, Goto, Fault, NoFault, CallType, HeldType, PodType,
         RecordType
<1>6. ASSUME NEW w \in Volumes \ {v} PROVE Spared(w)
  <2>1. /\ up' = up /\ (lock' = w <=> lock = w)
        /\ call'[w] = call[w] /\ at'[w] = at[w]
        /\ recorded'[w] = recorded[w] /\ bound'[w] = bound[w]
        /\ (w \in held' <=> w \in held) /\ (w \in followed' <=> w \in followed)
        /\ (w \in record' <=> w \in record) /\ (w \in tree => w \in tree')
    BY <1>1, <1>2, <1>3, <1>4, <1>6, LockNames
       DEF Record, RecordTargets, Goto, Fault, NoFault, CallType, HeldType, RecordType,
           LockType
  <2>2. ASSUME NEW t \in TargetsOf(w)
        PROVE  /\ mounts'[t] = mounts[t] /\ (t \in asked' <=> t \in asked)
               /\ t \in running' <=> t \in running
               /\ t \in unrecorded' <=> t \in unrecorded
    BY <1>1, <1>2, <1>3, <1>4, <1>6
       DEF Record, RecordTargets, Goto, Fault, NoFault, PodType, RecordType, HeldType
  <2> QED
    BY <2>1, <2>2 DEF Spared
<1> HIDE DEF remoteVars, treeVars, recordVars, kubeletVars, memoryVars, reportVars,
             callVars, passVars
<1>7. CallOf(v)'
  BY <1>1, <1>2, <1>3, <1>4, <1>5, Owners, LockNames
     DEF PodOf, CallOf, ClaimCall, InlineCall, HeldOf, Staging, HeldType, PodType
<1>8. ClaimCall(v)' /\ InlineCall(v)'
  BY <1>1, <1>2, <1>3, <1>4, <1>5, Owners
     DEF PodOf, CallOf, ClaimCall, InlineCall, HeldOf, Staging, Named
<1>9. HeldOf(v)'
  BY <1>1, <1>2, <1>3, <1>4, <1>5, Owners
     DEF PodOf, CallOf, ClaimCall, InlineCall, HeldOf, Staging, Named
<1>10. MountOf(v)'
  BY <1>1, <1>2, <1>3, <1>4, <1>5, Owners
     DEF PodOf, CallOf, ClaimCall, InlineCall, HeldOf, MountOf, KeptOf, Keeps, Staging,
         RecordType, PodType, Named
<1>11. KeptOf(v)'
  BY <1>1, <1>2, <1>3, <1>4, <1>5, Owners
     DEF PodOf, CallOf, ClaimCall, InlineCall, HeldOf, KeptOf, Keeps, Staging, RunOf,
         Named
<1>12. RunOf(v)'
  BY <1>1, <1>2, <1>3, <1>4, <1>5, Owners
     DEF PodOf, CallOf, ClaimCall, InlineCall, HeldOf, MountOf, KeptOf, RunOf, Keeps,
         Staging, PodType, Named
<1> QED
  BY <1>6, <1>7, <1>8, <1>9, <1>10, <1>11, <1>12 DEF PodOf

\* A record written again after a publish names that target too.
LEMMA RewritePods ==
    ASSUME TypeOK, PodInv, NEW v \in Volumes, Rewrite(v)
    PROVE  PodOf(v)' /\ \A w \in Volumes \ {v} : Spared(w)
<1> USE DEF remoteVars, treeVars, recordVars, kubeletVars, memoryVars, reportVars,
            callVars, passVars
<1>1. v \in Volumes /\ PodOf(v)
  BY Owners DEF PodInv
<1>2. CallType /\ HeldType /\ PodType /\ RecordType /\ LockType /\ TreeType
  BY TypeParts
<1>3. /\ (v \in Claims /\ v \notin Inlines) \/ (v \in Inlines /\ v \notin Claims)
      /\ \A t \in recorded[v] : t \in TargetsOf(v)
      /\ \A t \in bound[v] : t \in TargetsOf(v)
      /\ \A t \in TargetsOf(v) : t \in Targets /\ Owner[t] = v
      /\ \A w \in Volumes \ {v} : \A t \in TargetsOf(w) : t \in Targets /\ Owner[t] = w
  BY <1>1, <1>2, Owners DEF RecordType, HeldType
<1>4. (\A t \in Named(v) : t \in TargetsOf(v)) /\ (v \in Inlines => at[v] \in TargetsOf(v))
      /\ (call[v] \in {"rewrite", "forget"} => at[v] \in TargetsOf(v))
  BY <1>1, <1>3 DEF Rewrite, PodOf, CallOf, InlineCall, Staging, Named
<1>5. /\ call[v] = "rewrite" /\ call'[v] = "none"
      /\ \A t \in TargetsOf(v) : t \in running' <=> t \in running \/ t = at[v]
      /\ \/ /\ v \in record' /\ recorded'[v] = Named(v)
            /\ \A t \in TargetsOf(v) :
                 t \in unrecorded' <=>
                   t \in unrecorded /\ ~(t \in bound[v] /\ t \in Named(v))
         \/ /\ UNCHANGED <<record, recorded>>
            /\ \A t \in TargetsOf(v) :
                 t \in unrecorded' <=>
                   t \in unrecorded \/ (t \in Named(v) /\ t \notin recorded[v])
      /\ UNCHANGED <<up, lock, asked, held, followed, bound, mounts, tree>>
  BY <1>1, <1>2, <1>3, <1>4
     DEF Rewrite, RecordTargets, Done, Goto, Fault, NoFault, CallType, HeldType,
         PodType, RecordType
<1>6. ASSUME NEW w \in Volumes \ {v} PROVE Spared(w)
  <2>1. /\ up' = up /\ (lock' = w <=> lock = w)
        /\ call'[w] = call[w] /\ at'[w] = at[w]
        /\ recorded'[w] = recorded[w] /\ bound'[w] = bound[w]
        /\ (w \in held' <=> w \in held) /\ (w \in followed' <=> w \in followed)
        /\ (w \in record' <=> w \in record) /\ (w \in tree => w \in tree')
    BY <1>1, <1>2, <1>3, <1>4, <1>6, LockNames
       DEF Rewrite, RecordTargets, Done, Goto, Fault, NoFault, CallType, HeldType,
           RecordType, LockType
  <2>2. ASSUME NEW t \in TargetsOf(w)
        PROVE  /\ mounts'[t] = mounts[t] /\ (t \in asked' <=> t \in asked)
               /\ t \in running' <=> t \in running
               /\ t \in unrecorded' <=> t \in unrecorded
    BY <1>1, <1>2, <1>3, <1>4, <1>6
       DEF Rewrite, RecordTargets, Done, Goto, Fault, NoFault, PodType, RecordType,
           HeldType
  <2> QED
    BY <2>1, <2>2 DEF Spared
<1> HIDE DEF remoteVars, treeVars, recordVars, kubeletVars, memoryVars, reportVars,
             callVars, passVars
<1>7. CallOf(v)'
  BY <1>1, <1>2, <1>3, <1>4, <1>5, Owners, LockNames
     DEF PodOf, CallOf, ClaimCall, InlineCall, HeldOf, Staging, HeldType, PodType
<1>8. ClaimCall(v)' /\ InlineCall(v)'
  BY <1>1, <1>2, <1>3, <1>4, <1>5, Owners
     DEF PodOf, CallOf, ClaimCall, InlineCall, HeldOf, Staging, Named
<1>9. HeldOf(v)'
  BY <1>1, <1>2, <1>3, <1>4, <1>5, Owners
     DEF PodOf, CallOf, ClaimCall, InlineCall, HeldOf, Staging, Named
<1>10. MountOf(v)'
  BY <1>1, <1>2, <1>3, <1>4, <1>5, Owners
     DEF PodOf, CallOf, ClaimCall, InlineCall, HeldOf, MountOf, KeptOf, Keeps, Staging,
         RecordType, PodType, Named
<1>11. KeptOf(v)'
  BY <1>1, <1>2, <1>3, <1>4, <1>5, Owners
     DEF PodOf, CallOf, ClaimCall, InlineCall, HeldOf, KeptOf, Keeps, Staging, RunOf,
         Named
<1>12. RunOf(v)'
  BY <1>1, <1>2, <1>3, <1>4, <1>5, Owners
     DEF PodOf, CallOf, ClaimCall, InlineCall, HeldOf, MountOf, KeptOf, RunOf, Keeps,
         Staging, PodType, Named
<1> QED
  BY <1>6, <1>7, <1>8, <1>9, <1>10, <1>11, <1>12 DEF PodOf

\* A record written after an unpublish forgets only its target.
LEMMA ForgetPods ==
    ASSUME TypeOK, PodInv, NEW v \in Volumes, Forget(v)
    PROVE  PodOf(v)' /\ \A w \in Volumes \ {v} : Spared(w)
<1> USE DEF remoteVars, treeVars, recordVars, kubeletVars, memoryVars, reportVars,
            callVars, passVars
<1>1. v \in Volumes /\ PodOf(v)
  BY Owners DEF PodInv
<1>2. CallType /\ HeldType /\ PodType /\ RecordType /\ LockType /\ TreeType
  BY TypeParts
<1>3. /\ (v \in Claims /\ v \notin Inlines) \/ (v \in Inlines /\ v \notin Claims)
      /\ \A t \in recorded[v] : t \in TargetsOf(v)
      /\ \A t \in bound[v] : t \in TargetsOf(v)
      /\ \A t \in TargetsOf(v) : t \in Targets /\ Owner[t] = v
      /\ \A w \in Volumes \ {v} : \A t \in TargetsOf(w) : t \in Targets /\ Owner[t] = w
  BY <1>1, <1>2, Owners DEF RecordType, HeldType
<1>4. (\A t \in Named(v) : t \in TargetsOf(v)) /\ (v \in Inlines => at[v] \in TargetsOf(v))
      /\ (call[v] \in {"rewrite", "forget"} => at[v] \in TargetsOf(v))
  BY <1>1, <1>3 DEF Forget, PodOf, CallOf, InlineCall, Staging, Named
<1>5. /\ call[v] = "forget" /\ call'[v] = "none"
      /\ \/ /\ v \in record' /\ recorded'[v] = Named(v)
            /\ \A t \in TargetsOf(v) :
                 t \in unrecorded' <=>
                   t \in unrecorded /\ ~(t \in bound[v] /\ t \in Named(v))
         \/ /\ UNCHANGED <<record, recorded>>
            /\ \A t \in TargetsOf(v) :
                 t \in unrecorded' <=>
                   t \in unrecorded \/ (t \in Named(v) /\ t \notin recorded[v])
      /\ UNCHANGED <<up, lock, asked, running, held, followed, bound, mounts, tree>>
  BY <1>1, <1>2, <1>3, <1>4
     DEF Forget, RecordTargets, Done, Goto, Fault, NoFault, CallType, HeldType,
         PodType, RecordType
<1>6. ASSUME NEW w \in Volumes \ {v} PROVE Spared(w)
  <2>1. /\ up' = up /\ (lock' = w <=> lock = w)
        /\ call'[w] = call[w] /\ at'[w] = at[w]
        /\ recorded'[w] = recorded[w] /\ bound'[w] = bound[w]
        /\ (w \in held' <=> w \in held) /\ (w \in followed' <=> w \in followed)
        /\ (w \in record' <=> w \in record) /\ (w \in tree => w \in tree')
    BY <1>1, <1>2, <1>3, <1>4, <1>6, LockNames
       DEF Forget, RecordTargets, Done, Goto, Fault, NoFault, CallType, HeldType,
           RecordType, LockType
  <2>2. ASSUME NEW t \in TargetsOf(w)
        PROVE  /\ mounts'[t] = mounts[t] /\ (t \in asked' <=> t \in asked)
               /\ t \in running' <=> t \in running
               /\ t \in unrecorded' <=> t \in unrecorded
    BY <1>1, <1>2, <1>3, <1>4, <1>6
       DEF Forget, RecordTargets, Done, Goto, Fault, NoFault, PodType, RecordType,
           HeldType
  <2> QED
    BY <2>1, <2>2 DEF Spared
<1> HIDE DEF remoteVars, treeVars, recordVars, kubeletVars, memoryVars, reportVars,
             callVars, passVars
<1>7. CallOf(v)'
  BY <1>1, <1>2, <1>3, <1>4, <1>5, Owners, LockNames
     DEF PodOf, CallOf, ClaimCall, InlineCall, HeldOf, Staging, HeldType, PodType
<1>8. ClaimCall(v)' /\ InlineCall(v)'
  BY <1>1, <1>2, <1>3, <1>4, <1>5, Owners
     DEF PodOf, CallOf, ClaimCall, InlineCall, HeldOf, Staging, Named
<1>9. HeldOf(v)'
  BY <1>1, <1>2, <1>3, <1>4, <1>5, Owners
     DEF PodOf, CallOf, ClaimCall, InlineCall, HeldOf, Staging, Named
<1>10. MountOf(v)'
  BY <1>1, <1>2, <1>3, <1>4, <1>5, Owners
     DEF PodOf, CallOf, ClaimCall, InlineCall, HeldOf, MountOf, KeptOf, Keeps, Staging,
         RecordType, PodType, Named
<1>11. KeptOf(v)'
  BY <1>1, <1>2, <1>3, <1>4, <1>5, Owners
     DEF PodOf, CallOf, ClaimCall, InlineCall, HeldOf, KeptOf, Keeps, Staging, RunOf,
         Named
<1>12. RunOf(v)'
  BY <1>1, <1>2, <1>3, <1>4, <1>5, Owners
     DEF PodOf, CallOf, ClaimCall, InlineCall, HeldOf, MountOf, KeptOf, RunOf, Keeps,
         Staging, PodType, Named
<1> QED
  BY <1>6, <1>7, <1>8, <1>9, <1>10, <1>11, <1>12 DEF PodOf

\* A stage that ends hands the volume over to the loop.
LEMMA HoldPods ==
    ASSUME TypeOK, PodInv, NEW v \in Volumes, Hold(v)
    PROVE  PodOf(v)' /\ \A w \in Volumes \ {v} : Spared(w)
<1> USE DEF remoteVars, treeVars, recordVars, kubeletVars, memoryVars, reportVars,
            callVars, passVars
<1>1. v \in Volumes /\ PodOf(v)
  BY Owners DEF PodInv
<1>2. CallType /\ HeldType /\ PodType /\ RecordType /\ LockType /\ TreeType
  BY TypeParts
<1>3. /\ (v \in Claims /\ v \notin Inlines) \/ (v \in Inlines /\ v \notin Claims)
      /\ \A t \in recorded[v] : t \in TargetsOf(v)
      /\ \A t \in bound[v] : t \in TargetsOf(v)
      /\ \A t \in TargetsOf(v) : t \in Targets /\ Owner[t] = v
      /\ \A w \in Volumes \ {v} : \A t \in TargetsOf(w) : t \in Targets /\ Owner[t] = w
  BY <1>1, <1>2, Owners DEF RecordType, HeldType
<1>4. v # "free" /\ v # "pass"
  BY <1>1, LockNames
<1>5. /\ call[v] = "hold" /\ call'[v] = "none"
      /\ v \in held' /\ v \in followed'
      /\ \A t \in TargetsOf(v) :
           /\ t \in running' <=> t \in running \/ v \in Inlines
           /\ t \in unrecorded' <=> t \in unrecorded /\ t \notin recorded[v]
      /\ UNCHANGED <<up, lock, asked, bound, mounts, tree, record, recorded>>
  BY <1>1, <1>2, <1>3, <1>4
     DEF Hold, Follow, Done, Goto, CallType, HeldType, PodType, RecordType
<1>6. ASSUME NEW w \in Volumes \ {v} PROVE Spared(w)
  <2>1. /\ up' = up /\ (lock' = w <=> lock = w)
        /\ call'[w] = call[w] /\ at'[w] = at[w]
        /\ recorded'[w] = recorded[w] /\ bound'[w] = bound[w]
        /\ (w \in held' <=> w \in held) /\ (w \in followed' <=> w \in followed)
        /\ (w \in record' <=> w \in record) /\ (w \in tree => w \in tree')
    BY <1>1, <1>2, <1>3, <1>4, <1>6, LockNames
       DEF Hold, Follow, Done, Goto, CallType, HeldType, RecordType, LockType
  <2>2. ASSUME NEW t \in TargetsOf(w)
        PROVE  /\ mounts'[t] = mounts[t] /\ (t \in asked' <=> t \in asked)
               /\ t \in running' <=> t \in running
               /\ t \in unrecorded' <=> t \in unrecorded
    BY <1>1, <1>2, <1>3, <1>4, <1>6
       DEF Hold, Follow, Done, Goto, PodType, RecordType, HeldType
  <2> QED
    BY <2>1, <2>2 DEF Spared
<1> HIDE DEF remoteVars, treeVars, recordVars, kubeletVars, memoryVars, reportVars,
             callVars, passVars
<1>7. CallOf(v)'
  BY <1>1, <1>2, <1>3, <1>4, <1>5, Owners, LockNames
     DEF PodOf, CallOf, ClaimCall, InlineCall, HeldOf, Staging, HeldType, PodType
<1>8. ClaimCall(v)' /\ InlineCall(v)'
  BY <1>1, <1>2, <1>3, <1>4, <1>5, Owners
     DEF PodOf, CallOf, ClaimCall, InlineCall, HeldOf, Staging
<1>9. HeldOf(v)'
  BY <1>1, <1>2, <1>3, <1>4, <1>5, Owners
     DEF PodOf, CallOf, ClaimCall, InlineCall, HeldOf, Staging
<1>10. MountOf(v)'
  BY <1>1, <1>2, <1>3, <1>4, <1>5, Owners
     DEF PodOf, CallOf, ClaimCall, InlineCall, HeldOf, MountOf, KeptOf, Keeps, Staging,
         RecordType, PodType
<1>11. KeptOf(v)'
  BY <1>1, <1>2, <1>3, <1>4, <1>5, Owners
     DEF PodOf, CallOf, ClaimCall, InlineCall, HeldOf, KeptOf, Keeps, Staging, RunOf
<1>12. RunOf(v)'
  BY <1>1, <1>2, <1>3, <1>4, <1>5, Owners
     DEF PodOf, CallOf, ClaimCall, InlineCall, HeldOf, MountOf, KeptOf, RunOf, Keeps,
         Staging, PodType
<1> QED
  BY <1>6, <1>7, <1>8, <1>9, <1>10, <1>11, <1>12 DEF PodOf

\* An unmount takes the target of its call and no other.
LEMMA UnmountPods ==
    ASSUME TypeOK, PodInv, NEW v \in Volumes, Unmount(v)
    PROVE  PodOf(v)' /\ \A w \in Volumes \ {v} : Spared(w)
<1> USE DEF remoteVars, treeVars, recordVars, kubeletVars, memoryVars, reportVars,
            callVars, passVars
<1>1. v \in Volumes /\ PodOf(v)
  BY Owners DEF PodInv
<1>2. CallType /\ HeldType /\ PodType /\ RecordType /\ LockType /\ TreeType
  BY TypeParts
<1>3. /\ (v \in Claims /\ v \notin Inlines) \/ (v \in Inlines /\ v \notin Claims)
      /\ \A t \in recorded[v] : t \in TargetsOf(v)
      /\ \A t \in bound[v] : t \in TargetsOf(v)
      /\ \A t \in TargetsOf(v) : t \in Targets /\ Owner[t] = v
      /\ \A w \in Volumes \ {v} : \A t \in TargetsOf(w) : t \in Targets /\ Owner[t] = w
  BY <1>1, <1>2, Owners DEF RecordType, HeldType
<1>4. at[v] \in TargetsOf(v)
  BY <1>1 DEF Unmount, PodOf, CallOf
<1>5. /\ call[v] \in { "unmount", "unmount_only" }
      /\ \A t \in TargetsOf(v) :
           /\ mounts'[t] = IF t = at[v] THEN "none" ELSE mounts[t]
           /\ t \in asked' <=> t \in asked /\ t # at[v]
           /\ t \in unrecorded' <=> t \in unrecorded /\ t # at[v]
      /\ \/ call'[v] = "none"
         \/ at'[v] = at[v] /\ call'[v] = IF v \in Claims THEN "forget" ELSE "remove"
      /\ UNCHANGED <<up, lock, running, held, followed, bound, tree, record, recorded>>
  BY <1>1, <1>2, <1>3, <1>4
     DEF Unmount, Done, Goto, CallType, HeldType, PodType, RecordType
<1>6. ASSUME NEW w \in Volumes \ {v} PROVE Spared(w)
  <2>1. /\ up' = up /\ (lock' = w <=> lock = w)
        /\ call'[w] = call[w] /\ at'[w] = at[w]
        /\ recorded'[w] = recorded[w] /\ bound'[w] = bound[w]
        /\ (w \in held' <=> w \in held) /\ (w \in followed' <=> w \in followed)
        /\ (w \in record' <=> w \in record) /\ (w \in tree => w \in tree')
    BY <1>1, <1>2, <1>3, <1>4, <1>6, LockNames
       DEF Unmount, Done, Goto, CallType, HeldType, RecordType, LockType
  <2>2. ASSUME NEW t \in TargetsOf(w)
        PROVE  /\ mounts'[t] = mounts[t] /\ (t \in asked' <=> t \in asked)
               /\ t \in running' <=> t \in running
               /\ t \in unrecorded' <=> t \in unrecorded
    BY <1>1, <1>2, <1>3, <1>4, <1>6
       DEF Unmount, Done, Goto, PodType, RecordType, HeldType
  <2> QED
    BY <2>1, <2>2 DEF Spared
<1> HIDE DEF remoteVars, treeVars, recordVars, kubeletVars, memoryVars, reportVars,
             callVars, passVars
<1>7. CallOf(v)'
  BY <1>1, <1>2, <1>3, <1>4, <1>5, Owners, LockNames
     DEF PodOf, CallOf, ClaimCall, InlineCall, HeldOf, Staging, HeldType, PodType
<1>8. ClaimCall(v)' /\ InlineCall(v)'
  BY <1>1, <1>2, <1>3, <1>4, <1>5, Owners
     DEF PodOf, CallOf, ClaimCall, InlineCall, HeldOf, Staging
<1>9. HeldOf(v)'
  BY <1>1, <1>2, <1>3, <1>4, <1>5, Owners
     DEF PodOf, CallOf, ClaimCall, InlineCall, HeldOf, Staging
<1>10. MountOf(v)'
  BY <1>1, <1>2, <1>3, <1>4, <1>5, Owners
     DEF PodOf, CallOf, ClaimCall, InlineCall, HeldOf, MountOf, KeptOf, Keeps, Staging,
         RecordType, PodType
<1>11. KeptOf(v)'
  BY <1>1, <1>2, <1>3, <1>4, <1>5, Owners
     DEF PodOf, CallOf, ClaimCall, InlineCall, HeldOf, KeptOf, Keeps, Staging, RunOf
<1>12. RunOf(v)'
  BY <1>1, <1>2, <1>3, <1>4, <1>5, Owners
     DEF PodOf, CallOf, ClaimCall, InlineCall, HeldOf, MountOf, KeptOf, RunOf, Keeps,
         Staging, PodType
<1> QED
  BY <1>6, <1>7, <1>8, <1>9, <1>10, <1>11, <1>12 DEF PodOf

\* A failed unmount may take the mount of its target, and nothing else.
LEMMA UnmountFailsPods ==
    ASSUME TypeOK, PodInv, NEW v \in Volumes, UnmountFails(v)
    PROVE  PodOf(v)' /\ \A w \in Volumes \ {v} : Spared(w)
<1> USE DEF remoteVars, treeVars, recordVars, kubeletVars, memoryVars, reportVars,
            callVars, passVars
<1>1. v \in Volumes /\ PodOf(v)
  BY Owners DEF PodInv
<1>2. CallType /\ HeldType /\ PodType /\ RecordType /\ LockType /\ TreeType
  BY TypeParts
<1>3. /\ (v \in Claims /\ v \notin Inlines) \/ (v \in Inlines /\ v \notin Claims)
      /\ \A t \in recorded[v] : t \in TargetsOf(v)
      /\ \A t \in bound[v] : t \in TargetsOf(v)
      /\ \A t \in TargetsOf(v) : t \in Targets /\ Owner[t] = v
      /\ \A w \in Volumes \ {v} : \A t \in TargetsOf(w) : t \in Targets /\ Owner[t] = w
  BY <1>1, <1>2, Owners DEF RecordType, HeldType
<1>4. at[v] \in TargetsOf(v)
  BY <1>1 DEF UnmountFails, PodOf, CallOf
<1>5. /\ call[v] \in { "unmount", "unmount_only" } /\ call'[v] = "none"
      /\ \A t \in TargetsOf(v) :
            mounts'[t] = mounts[t] \/ (t = at[v] /\ mounts'[t] = "none")
      /\ UNCHANGED <<up, lock, asked, running, held, followed, bound, tree, record,
           recorded, unrecorded>>
  BY <1>1, <1>2, <1>3, <1>4
     DEF UnmountFails, Done, Goto, Fault, CallType, HeldType, PodType, RecordType
<1>6. ASSUME NEW w \in Volumes \ {v} PROVE Spared(w)
  <2>1. /\ up' = up /\ (lock' = w <=> lock = w)
        /\ call'[w] = call[w] /\ at'[w] = at[w]
        /\ recorded'[w] = recorded[w] /\ bound'[w] = bound[w]
        /\ (w \in held' <=> w \in held) /\ (w \in followed' <=> w \in followed)
        /\ (w \in record' <=> w \in record) /\ (w \in tree => w \in tree')
    BY <1>1, <1>2, <1>3, <1>4, <1>6, LockNames
       DEF UnmountFails, Done, Goto, Fault, CallType, HeldType, RecordType, LockType
  <2>2. ASSUME NEW t \in TargetsOf(w)
        PROVE  /\ mounts'[t] = mounts[t] /\ (t \in asked' <=> t \in asked)
               /\ t \in running' <=> t \in running
               /\ t \in unrecorded' <=> t \in unrecorded
    BY <1>1, <1>2, <1>3, <1>4, <1>6
       DEF UnmountFails, Done, Goto, Fault, PodType, RecordType, HeldType
  <2> QED
    BY <2>1, <2>2 DEF Spared
<1> HIDE DEF remoteVars, treeVars, recordVars, kubeletVars, memoryVars, reportVars,
             callVars, passVars
<1>7. CallOf(v)'
  BY <1>1, <1>2, <1>3, <1>4, <1>5, Owners, LockNames
     DEF PodOf, CallOf, ClaimCall, InlineCall, HeldOf, Staging, HeldType, PodType
<1>8. ClaimCall(v)' /\ InlineCall(v)'
  BY <1>1, <1>2, <1>3, <1>4, <1>5, Owners
     DEF PodOf, CallOf, ClaimCall, InlineCall, HeldOf, Staging
<1>9. HeldOf(v)'
  BY <1>1, <1>2, <1>3, <1>4, <1>5, Owners
     DEF PodOf, CallOf, ClaimCall, InlineCall, HeldOf, Staging
<1>10. MountOf(v)'
  BY <1>1, <1>2, <1>3, <1>4, <1>5, Owners
     DEF PodOf, CallOf, ClaimCall, InlineCall, HeldOf, MountOf, KeptOf, Keeps, Staging,
         RecordType, PodType
<1>11. KeptOf(v)'
  BY <1>1, <1>2, <1>3, <1>4, <1>5, Owners
     DEF PodOf, CallOf, ClaimCall, InlineCall, HeldOf, KeptOf, Keeps, Staging, RunOf
<1>12. RunOf(v)'
  BY <1>1, <1>2, <1>3, <1>4, <1>5, Owners
     DEF PodOf, CallOf, ClaimCall, InlineCall, HeldOf, MountOf, KeptOf, RunOf, Keeps,
         Staging, PodType
<1> QED
  BY <1>6, <1>7, <1>8, <1>9, <1>10, <1>11, <1>12 DEF PodOf

\* The unstage of a claim begins when no pod has it.
LEMMA UnstageClaimPods ==
    ASSUME TypeOK, PodInv, NEW v \in Volumes, UnstageClaim(v)
    PROVE  PodOf(v)' /\ \A w \in Volumes \ {v} : Spared(w)
<1> USE DEF remoteVars, treeVars, recordVars, kubeletVars, memoryVars, reportVars,
            callVars, passVars
<1>1. v \in Volumes /\ PodOf(v)
  BY Owners DEF PodInv
<1>2. CallType /\ HeldType /\ PodType /\ RecordType /\ LockType /\ TreeType
  BY TypeParts
<1>3. /\ (v \in Claims /\ v \notin Inlines) \/ (v \in Inlines /\ v \notin Claims)
      /\ \A t \in recorded[v] : t \in TargetsOf(v)
      /\ \A t \in bound[v] : t \in TargetsOf(v)
      /\ \A t \in TargetsOf(v) : t \in Targets /\ Owner[t] = v
      /\ \A w \in Volumes \ {v} : \A t \in TargetsOf(w) : t \in Targets /\ Owner[t] = w
  BY <1>1, <1>2, Owners DEF RecordType, HeldType
<1>4. v # "free" /\ v # "pass"
  BY <1>1, LockNames
<1>5. /\ up /\ v \in Claims /\ v \in held /\ call[v] = "none"
      /\ \A t \in TargetsOf(v) : t \notin asked
      /\ v \notin held' /\ v \notin followed' /\ bound'[v] = {} /\ call'[v] = "remove"
      /\ UNCHANGED <<up, lock, at, asked, running, mounts, tree, record, recorded,
           unrecorded>>
  BY <1>1, <1>2, <1>3, <1>4
     DEF UnstageClaim, Unfollow, Goto, CallType, HeldType, PodType, RecordType
<1>6. ASSUME NEW w \in Volumes \ {v} PROVE Spared(w)
  <2>1. /\ up' = up /\ (lock' = w <=> lock = w)
        /\ call'[w] = call[w] /\ at'[w] = at[w]
        /\ recorded'[w] = recorded[w] /\ bound'[w] = bound[w]
        /\ (w \in held' <=> w \in held) /\ (w \in followed' <=> w \in followed)
        /\ (w \in record' <=> w \in record) /\ (w \in tree => w \in tree')
    BY <1>1, <1>2, <1>3, <1>4, <1>6, LockNames
       DEF UnstageClaim, Unfollow, Goto, CallType, HeldType, RecordType, LockType
  <2>2. ASSUME NEW t \in TargetsOf(w)
        PROVE  /\ mounts'[t] = mounts[t] /\ (t \in asked' <=> t \in asked)
               /\ t \in running' <=> t \in running
               /\ t \in unrecorded' <=> t \in unrecorded
    BY <1>1, <1>2, <1>3, <1>4, <1>6
       DEF UnstageClaim, Unfollow, Goto, PodType, RecordType, HeldType
  <2> QED
    BY <2>1, <2>2 DEF Spared
<1> HIDE DEF remoteVars, treeVars, recordVars, kubeletVars, memoryVars, reportVars,
             callVars, passVars
<1>7. CallOf(v)'
  BY <1>1, <1>2, <1>3, <1>4, <1>5, Owners, LockNames
     DEF PodOf, CallOf, ClaimCall, InlineCall, HeldOf, Staging, HeldType, PodType
<1>8. ClaimCall(v)' /\ InlineCall(v)'
  BY <1>1, <1>2, <1>3, <1>4, <1>5, Owners
     DEF PodOf, CallOf, ClaimCall, InlineCall, HeldOf, Staging
<1>9. HeldOf(v)'
  BY <1>1, <1>2, <1>3, <1>4, <1>5, Owners
     DEF PodOf, CallOf, ClaimCall, InlineCall, HeldOf, Staging
<1>10. MountOf(v)'
  BY <1>1, <1>2, <1>3, <1>4, <1>5, Owners
     DEF PodOf, CallOf, ClaimCall, InlineCall, HeldOf, MountOf, KeptOf, Keeps, Staging,
         RecordType, PodType
<1>11. KeptOf(v)'
  BY <1>1, <1>2, <1>3, <1>4, <1>5, Owners
     DEF PodOf, CallOf, ClaimCall, InlineCall, HeldOf, KeptOf, Keeps, Staging, RunOf
<1>12. RunOf(v)'
  BY <1>1, <1>2, <1>3, <1>4, <1>5, Owners
     DEF PodOf, CallOf, ClaimCall, InlineCall, HeldOf, MountOf, KeptOf, RunOf, Keeps,
         Staging, PodType
<1> QED
  BY <1>6, <1>7, <1>8, <1>9, <1>10, <1>11, <1>12 DEF PodOf

\* The removal of a volume takes a tree that no pod runs on.
LEMMA RemoveVolumePods ==
    ASSUME TypeOK, PodInv, NEW v \in Volumes, RemoveVolume(v)
    PROVE  PodOf(v)' /\ \A w \in Volumes \ {v} : Spared(w)
<1> USE DEF remoteVars, treeVars, recordVars, kubeletVars, memoryVars, reportVars,
            callVars, passVars
<1>1. v \in Volumes /\ PodOf(v)
  BY Owners DEF PodInv
<1>2. CallType /\ HeldType /\ PodType /\ RecordType /\ LockType /\ TreeType
  BY TypeParts
<1>3. /\ (v \in Claims /\ v \notin Inlines) \/ (v \in Inlines /\ v \notin Claims)
      /\ \A t \in recorded[v] : t \in TargetsOf(v)
      /\ \A t \in bound[v] : t \in TargetsOf(v)
      /\ \A t \in TargetsOf(v) : t \in Targets /\ Owner[t] = v
      /\ \A w \in Volumes \ {v} : \A t \in TargetsOf(w) : t \in Targets /\ Owner[t] = w
  BY <1>1, <1>2, Owners DEF RecordType, HeldType
<1>4. v # "free" /\ v # "pass"
  BY <1>1, LockNames
<1>5. /\ call[v] = "remove"
      /\ call'[v] = "none" /\ recorded'[v] = {} /\ v \notin record' /\ v \notin tree'
      /\ \A t \in TargetsOf(v) :
            mounts'[t] = IF mounts[t] = "tree" THEN "gone" ELSE mounts[t]
      /\ UNCHANGED <<up, lock, asked, running, held, followed, bound, unrecorded>>
  BY <1>1, <1>2, <1>3, <1>4
     DEF RemoveVolume, RemoveDirectories, Done, Goto, CallType, HeldType, PodType,
         RecordType
<1>6. ASSUME NEW w \in Volumes \ {v} PROVE Spared(w)
  <2>1. /\ up' = up /\ (lock' = w <=> lock = w)
        /\ call'[w] = call[w] /\ at'[w] = at[w]
        /\ recorded'[w] = recorded[w] /\ bound'[w] = bound[w]
        /\ (w \in held' <=> w \in held) /\ (w \in followed' <=> w \in followed)
        /\ (w \in record' <=> w \in record) /\ (w \in tree => w \in tree')
    BY <1>1, <1>2, <1>3, <1>4, <1>6, LockNames
       DEF RemoveVolume, RemoveDirectories, Done, Goto, CallType, HeldType, RecordType,
           LockType
  <2>2. ASSUME NEW t \in TargetsOf(w)
        PROVE  /\ mounts'[t] = mounts[t] /\ (t \in asked' <=> t \in asked)
               /\ t \in running' <=> t \in running
               /\ t \in unrecorded' <=> t \in unrecorded
    BY <1>1, <1>2, <1>3, <1>4, <1>6
       DEF RemoveVolume, RemoveDirectories, Done, Goto, PodType, RecordType, HeldType
  <2> QED
    BY <2>1, <2>2 DEF Spared
<1> HIDE DEF remoteVars, treeVars, recordVars, kubeletVars, memoryVars, reportVars,
             callVars, passVars
<1>7. CallOf(v)'
  BY <1>1, <1>2, <1>3, <1>4, <1>5, Owners, LockNames
     DEF PodOf, CallOf, ClaimCall, InlineCall, HeldOf, Staging, HeldType, PodType
<1>8. ClaimCall(v)' /\ InlineCall(v)'
  BY <1>1, <1>2, <1>3, <1>4, <1>5, Owners
     DEF PodOf, CallOf, ClaimCall, InlineCall, HeldOf, Staging
<1>9. HeldOf(v)'
  BY <1>1, <1>2, <1>3, <1>4, <1>5, Owners
     DEF PodOf, CallOf, ClaimCall, InlineCall, HeldOf, Staging
<1>10. MountOf(v)'
  BY <1>1, <1>2, <1>3, <1>4, <1>5, Owners
     DEF PodOf, CallOf, ClaimCall, InlineCall, HeldOf, MountOf, KeptOf, Keeps, Staging,
         RecordType, PodType
<1>11. KeptOf(v)'
  BY <1>1, <1>2, <1>3, <1>4, <1>5, Owners
     DEF PodOf, CallOf, ClaimCall, InlineCall, HeldOf, KeptOf, Keeps, Staging, RunOf
<1>12. RunOf(v)'
  BY <1>1, <1>2, <1>3, <1>4, <1>5, Owners
     DEF PodOf, CallOf, ClaimCall, InlineCall, HeldOf, MountOf, KeptOf, RunOf, Keeps,
         Staging, PodType
<1> QED
  BY <1>6, <1>7, <1>8, <1>9, <1>10, <1>11, <1>12 DEF PodOf

\* A publish sent again lets the pod run on a target already bound.
LEMMA PublishAgainPods ==
    ASSUME TypeOK, PodInv, NEW u \in Targets, PublishAgain(u), NEW v, v = Owner[u]
    PROVE  PodOf(v)' /\ \A w \in Volumes \ {v} : Spared(w)
<1> USE DEF remoteVars, treeVars, recordVars, kubeletVars, memoryVars, reportVars,
            callVars, passVars
<1>1. v \in Volumes /\ PodOf(v) /\ u \in TargetsOf(v)
  BY Owners DEF PodInv
<1>2. CallType /\ HeldType /\ PodType /\ RecordType /\ LockType /\ TreeType
  BY TypeParts
<1>3. /\ (v \in Claims /\ v \notin Inlines) \/ (v \in Inlines /\ v \notin Claims)
      /\ \A t \in recorded[v] : t \in TargetsOf(v)
      /\ \A t \in bound[v] : t \in TargetsOf(v)
      /\ \A t \in TargetsOf(v) : t \in Targets /\ Owner[t] = v
      /\ \A w \in Volumes \ {v} : \A t \in TargetsOf(w) : t \in Targets /\ Owner[t] = w
  BY <1>1, <1>2, Owners DEF RecordType, HeldType
<1>4. v # "free" /\ v # "pass"
  BY <1>1, LockNames
<1>5. /\ up /\ call[v] = "none" /\ u \in asked /\ u \notin running /\ v \in held
      /\ v \in Claims => u \in bound[v]
      /\ \A t \in TargetsOf(v) : t \in running' <=> t \in running \/ t = u
      /\ UNCHANGED <<up, lock, call, at, asked, held, followed, bound, mounts, tree,
           record, recorded, unrecorded>>
  BY <1>1, <1>2, <1>3, <1>4 DEF PublishAgain, CallType, HeldType, PodType, RecordType
<1>6. ASSUME NEW w \in Volumes \ {v} PROVE Spared(w)
  <2>1. /\ up' = up /\ (lock' = w <=> lock = w)
        /\ call'[w] = call[w] /\ at'[w] = at[w]
        /\ recorded'[w] = recorded[w] /\ bound'[w] = bound[w]
        /\ (w \in held' <=> w \in held) /\ (w \in followed' <=> w \in followed)
        /\ (w \in record' <=> w \in record) /\ (w \in tree => w \in tree')
    BY <1>1, <1>2, <1>3, <1>4, <1>6, LockNames
       DEF PublishAgain, CallType, HeldType, RecordType, LockType
  <2>2. ASSUME NEW t \in TargetsOf(w)
        PROVE  /\ mounts'[t] = mounts[t] /\ (t \in asked' <=> t \in asked)
               /\ t \in running' <=> t \in running
               /\ t \in unrecorded' <=> t \in unrecorded
    BY <1>1, <1>2, <1>3, <1>4, <1>6 DEF PublishAgain, PodType, RecordType, HeldType
  <2> QED
    BY <2>1, <2>2 DEF Spared
<1> HIDE DEF remoteVars, treeVars, recordVars, kubeletVars, memoryVars, reportVars,
             callVars, passVars
<1>7. CallOf(v)'
  BY <1>1, <1>2, <1>3, <1>4, <1>5, Owners, LockNames
     DEF PodOf, CallOf, ClaimCall, InlineCall, HeldOf, Staging, HeldType, PodType
<1>8. ClaimCall(v)' /\ InlineCall(v)'
  BY <1>1, <1>2, <1>3, <1>4, <1>5, Owners
     DEF PodOf, CallOf, ClaimCall, InlineCall, HeldOf, Staging
<1>9. HeldOf(v)'
  BY <1>1, <1>2, <1>3, <1>4, <1>5, Owners
     DEF PodOf, CallOf, ClaimCall, InlineCall, HeldOf, Staging
<1>10. MountOf(v)'
  BY <1>1, <1>2, <1>3, <1>4, <1>5, Owners
     DEF PodOf, CallOf, ClaimCall, InlineCall, HeldOf, MountOf, KeptOf, Keeps, Staging,
         RecordType, PodType
<1>11. KeptOf(v)'
  BY <1>1, <1>2, <1>3, <1>4, <1>5, Owners
     DEF PodOf, CallOf, ClaimCall, InlineCall, HeldOf, KeptOf, Keeps, Staging, RunOf
<1>12. RunOf(v)'
  BY <1>1, <1>2, <1>3, <1>4, <1>5, Owners
     DEF PodOf, CallOf, ClaimCall, InlineCall, HeldOf, MountOf, KeptOf, RunOf, Keeps,
         Staging, PodType
<1> QED
  BY <1>6, <1>7, <1>8, <1>9, <1>10, <1>11, <1>12 DEF PodOf

\* The publish of an inline volume begins its stage.
LEMMA PublishInlinePods ==
    ASSUME TypeOK, PodInv, NEW u \in Targets, PublishInline(u), NEW v, v = Owner[u]
    PROVE  PodOf(v)' /\ \A w \in Volumes \ {v} : Spared(w)
<1> USE DEF remoteVars, treeVars, recordVars, kubeletVars, memoryVars, reportVars,
            callVars, passVars
<1>1. v \in Volumes /\ PodOf(v) /\ u \in TargetsOf(v)
  BY Owners DEF PodInv
<1>2. CallType /\ HeldType /\ PodType /\ RecordType /\ LockType /\ TreeType
  BY TypeParts
<1>3. /\ (v \in Claims /\ v \notin Inlines) \/ (v \in Inlines /\ v \notin Claims)
      /\ \A t \in recorded[v] : t \in TargetsOf(v)
      /\ \A t \in bound[v] : t \in TargetsOf(v)
      /\ \A t \in TargetsOf(v) : t \in Targets /\ Owner[t] = v
      /\ \A w \in Volumes \ {v} : \A t \in TargetsOf(w) : t \in Targets /\ Owner[t] = w
  BY <1>1, <1>2, Owners DEF RecordType, HeldType
<1>4. v # "free" /\ v # "pass"
  BY <1>1, LockNames
<1>5. /\ up /\ v \in Inlines /\ v \notin held /\ call[v] = "none"
      /\ call'[v] = "lock" /\ at'[v] = u
      /\ \A t \in TargetsOf(v) : t \in asked' <=> t \in asked \/ t = u
      /\ UNCHANGED <<up, lock, running, held, followed, bound, mounts, tree, record,
           recorded, unrecorded>>
  BY <1>1, <1>2, <1>3, <1>4
     DEF PublishInline, Goto, CallType, HeldType, PodType, RecordType
<1>6. ASSUME NEW w \in Volumes \ {v} PROVE Spared(w)
  <2>1. /\ up' = up /\ (lock' = w <=> lock = w)
        /\ call'[w] = call[w] /\ at'[w] = at[w]
        /\ recorded'[w] = recorded[w] /\ bound'[w] = bound[w]
        /\ (w \in held' <=> w \in held) /\ (w \in followed' <=> w \in followed)
        /\ (w \in record' <=> w \in record) /\ (w \in tree => w \in tree')
    BY <1>1, <1>2, <1>3, <1>4, <1>6, LockNames
       DEF PublishInline, Goto, CallType, HeldType, RecordType, LockType
  <2>2. ASSUME NEW t \in TargetsOf(w)
        PROVE  /\ mounts'[t] = mounts[t] /\ (t \in asked' <=> t \in asked)
               /\ t \in running' <=> t \in running
               /\ t \in unrecorded' <=> t \in unrecorded
    BY <1>1, <1>2, <1>3, <1>4, <1>6
       DEF PublishInline, Goto, PodType, RecordType, HeldType
  <2> QED
    BY <2>1, <2>2 DEF Spared
<1> HIDE DEF remoteVars, treeVars, recordVars, kubeletVars, memoryVars, reportVars,
             callVars, passVars
<1>7. CallOf(v)'
  BY <1>1, <1>2, <1>3, <1>4, <1>5, Owners, LockNames
     DEF PodOf, CallOf, ClaimCall, InlineCall, HeldOf, Staging, HeldType, PodType
<1>8. ClaimCall(v)' /\ InlineCall(v)'
  BY <1>1, <1>2, <1>3, <1>4, <1>5, Owners
     DEF PodOf, CallOf, ClaimCall, InlineCall, HeldOf, Staging
<1>9. HeldOf(v)'
  BY <1>1, <1>2, <1>3, <1>4, <1>5, Owners
     DEF PodOf, CallOf, ClaimCall, InlineCall, HeldOf, Staging
<1>10. MountOf(v)'
  BY <1>1, <1>2, <1>3, <1>4, <1>5, Owners
     DEF PodOf, CallOf, ClaimCall, InlineCall, HeldOf, MountOf, KeptOf, Keeps, Staging,
         RecordType, PodType
<1>11. KeptOf(v)'
  BY <1>1, <1>2, <1>3, <1>4, <1>5, Owners
     DEF PodOf, CallOf, ClaimCall, InlineCall, HeldOf, KeptOf, Keeps, Staging, RunOf
<1>12. RunOf(v)'
  BY <1>1, <1>2, <1>3, <1>4, <1>5, Owners
     DEF PodOf, CallOf, ClaimCall, InlineCall, HeldOf, MountOf, KeptOf, RunOf, Keeps,
         Staging, PodType
<1> QED
  BY <1>6, <1>7, <1>8, <1>9, <1>10, <1>11, <1>12 DEF PodOf

\* The publish of a claim begins its bind.
LEMMA PublishClaimPods ==
    ASSUME TypeOK, PodInv, NEW u \in Targets, PublishClaim(u), NEW v, v = Owner[u]
    PROVE  PodOf(v)' /\ \A w \in Volumes \ {v} : Spared(w)
<1> USE DEF remoteVars, treeVars, recordVars, kubeletVars, memoryVars, reportVars,
            callVars, passVars
<1>1. v \in Volumes /\ PodOf(v) /\ u \in TargetsOf(v)
  BY Owners DEF PodInv
<1>2. CallType /\ HeldType /\ PodType /\ RecordType /\ LockType /\ TreeType
  BY TypeParts
<1>3. /\ (v \in Claims /\ v \notin Inlines) \/ (v \in Inlines /\ v \notin Claims)
      /\ \A t \in recorded[v] : t \in TargetsOf(v)
      /\ \A t \in bound[v] : t \in TargetsOf(v)
      /\ \A t \in TargetsOf(v) : t \in Targets /\ Owner[t] = v
      /\ \A w \in Volumes \ {v} : \A t \in TargetsOf(w) : t \in Targets /\ Owner[t] = w
  BY <1>1, <1>2, Owners DEF RecordType, HeldType
<1>4. v # "free" /\ v # "pass"
  BY <1>1, LockNames
<1>5. /\ up /\ v \in Claims /\ v \in held /\ call[v] = "none" /\ u \notin bound[v]
      /\ call'[v] = "bind" /\ at'[v] = u
      /\ \A t \in TargetsOf(v) : t \in asked' <=> t \in asked \/ t = u
      /\ UNCHANGED <<up, lock, running, held, followed, bound, mounts, tree, record,
           recorded, unrecorded>>
  BY <1>1, <1>2, <1>3, <1>4
     DEF PublishClaim, Goto, CallType, HeldType, PodType, RecordType
<1>6. ASSUME NEW w \in Volumes \ {v} PROVE Spared(w)
  <2>1. /\ up' = up /\ (lock' = w <=> lock = w)
        /\ call'[w] = call[w] /\ at'[w] = at[w]
        /\ recorded'[w] = recorded[w] /\ bound'[w] = bound[w]
        /\ (w \in held' <=> w \in held) /\ (w \in followed' <=> w \in followed)
        /\ (w \in record' <=> w \in record) /\ (w \in tree => w \in tree')
    BY <1>1, <1>2, <1>3, <1>4, <1>6, LockNames
       DEF PublishClaim, Goto, CallType, HeldType, RecordType, LockType
  <2>2. ASSUME NEW t \in TargetsOf(w)
        PROVE  /\ mounts'[t] = mounts[t] /\ (t \in asked' <=> t \in asked)
               /\ t \in running' <=> t \in running
               /\ t \in unrecorded' <=> t \in unrecorded
    BY <1>1, <1>2, <1>3, <1>4, <1>6
       DEF PublishClaim, Goto, PodType, RecordType, HeldType
  <2> QED
    BY <2>1, <2>2 DEF Spared
<1> HIDE DEF remoteVars, treeVars, recordVars, kubeletVars, memoryVars, reportVars,
             callVars, passVars
<1>7. CallOf(v)'
  BY <1>1, <1>2, <1>3, <1>4, <1>5, Owners, LockNames
     DEF PodOf, CallOf, ClaimCall, InlineCall, HeldOf, Staging, HeldType, PodType
<1>8. ClaimCall(v)' /\ InlineCall(v)'
  BY <1>1, <1>2, <1>3, <1>4, <1>5, Owners
     DEF PodOf, CallOf, ClaimCall, InlineCall, HeldOf, Staging
<1>9. HeldOf(v)'
  BY <1>1, <1>2, <1>3, <1>4, <1>5, Owners
     DEF PodOf, CallOf, ClaimCall, InlineCall, HeldOf, Staging
<1>10. MountOf(v)'
  BY <1>1, <1>2, <1>3, <1>4, <1>5, Owners
     DEF PodOf, CallOf, ClaimCall, InlineCall, HeldOf, MountOf, KeptOf, Keeps, Staging,
         RecordType, PodType
<1>11. KeptOf(v)'
  BY <1>1, <1>2, <1>3, <1>4, <1>5, Owners
     DEF PodOf, CallOf, ClaimCall, InlineCall, HeldOf, KeptOf, Keeps, Staging, RunOf
<1>12. RunOf(v)'
  BY <1>1, <1>2, <1>3, <1>4, <1>5, Owners
     DEF PodOf, CallOf, ClaimCall, InlineCall, HeldOf, MountOf, KeptOf, RunOf, Keeps,
         Staging, PodType
<1> QED
  BY <1>6, <1>7, <1>8, <1>9, <1>10, <1>11, <1>12 DEF PodOf

\* The unpublish of a claim begins once its pod has stopped.
LEMMA UnpublishClaimPods ==
    ASSUME TypeOK, PodInv, NEW u \in Targets, UnpublishClaim(u), NEW v, v = Owner[u]
    PROVE  PodOf(v)' /\ \A w \in Volumes \ {v} : Spared(w)
<1> USE DEF remoteVars, treeVars, recordVars, kubeletVars, memoryVars, reportVars,
            callVars, passVars
<1>1. v \in Volumes /\ PodOf(v) /\ u \in TargetsOf(v)
  BY Owners DEF PodInv
<1>2. CallType /\ HeldType /\ PodType /\ RecordType /\ LockType /\ TreeType
  BY TypeParts
<1>3. /\ (v \in Claims /\ v \notin Inlines) \/ (v \in Inlines /\ v \notin Claims)
      /\ \A t \in recorded[v] : t \in TargetsOf(v)
      /\ \A t \in bound[v] : t \in TargetsOf(v)
      /\ \A t \in TargetsOf(v) : t \in Targets /\ Owner[t] = v
      /\ \A w \in Volumes \ {v} : \A t \in TargetsOf(w) : t \in Targets /\ Owner[t] = w
  BY <1>1, <1>2, Owners DEF RecordType, HeldType
<1>4. v # "free" /\ v # "pass"
  BY <1>1, LockNames
<1>5. /\ up /\ v \in Claims /\ u \in asked /\ call[v] = "none"
      /\ bound'[v] = bound[v] \ {u}
      /\ call'[v] \in { "unmount", "unmount_only" } /\ at'[v] = u
      /\ \A t \in TargetsOf(v) : t \in running' <=> t \in running /\ t # u
      /\ UNCHANGED <<up, lock, asked, held, followed, mounts, tree, record, recorded,
           unrecorded>>
  BY <1>1, <1>2, <1>3, <1>4
     DEF UnpublishClaim, Goto, CallType, HeldType, PodType, RecordType
<1>6. ASSUME NEW w \in Volumes \ {v} PROVE Spared(w)
  <2>1. /\ up' = up /\ (lock' = w <=> lock = w)
        /\ call'[w] = call[w] /\ at'[w] = at[w]
        /\ recorded'[w] = recorded[w] /\ bound'[w] = bound[w]
        /\ (w \in held' <=> w \in held) /\ (w \in followed' <=> w \in followed)
        /\ (w \in record' <=> w \in record) /\ (w \in tree => w \in tree')
    BY <1>1, <1>2, <1>3, <1>4, <1>6, LockNames
       DEF UnpublishClaim, Goto, CallType, HeldType, RecordType, LockType
  <2>2. ASSUME NEW t \in TargetsOf(w)
        PROVE  /\ mounts'[t] = mounts[t] /\ (t \in asked' <=> t \in asked)
               /\ t \in running' <=> t \in running
               /\ t \in unrecorded' <=> t \in unrecorded
    BY <1>1, <1>2, <1>3, <1>4, <1>6
       DEF UnpublishClaim, Goto, PodType, RecordType, HeldType
  <2> QED
    BY <2>1, <2>2 DEF Spared
<1> HIDE DEF remoteVars, treeVars, recordVars, kubeletVars, memoryVars, reportVars,
             callVars, passVars
<1>7. CallOf(v)'
  BY <1>1, <1>2, <1>3, <1>4, <1>5, Owners, LockNames
     DEF PodOf, CallOf, ClaimCall, InlineCall, HeldOf, Staging, HeldType, PodType
<1>8. ClaimCall(v)' /\ InlineCall(v)'
  BY <1>1, <1>2, <1>3, <1>4, <1>5, Owners
     DEF PodOf, CallOf, ClaimCall, InlineCall, HeldOf, Staging
<1>9. HeldOf(v)'
  BY <1>1, <1>2, <1>3, <1>4, <1>5, Owners
     DEF PodOf, CallOf, ClaimCall, InlineCall, HeldOf, Staging
<1>10. MountOf(v)'
  BY <1>1, <1>2, <1>3, <1>4, <1>5, Owners
     DEF PodOf, CallOf, ClaimCall, InlineCall, HeldOf, MountOf, KeptOf, Keeps, Staging,
         RecordType, PodType
<1>11. KeptOf(v)'
  BY <1>1, <1>2, <1>3, <1>4, <1>5, Owners
     DEF PodOf, CallOf, ClaimCall, InlineCall, HeldOf, KeptOf, Keeps, Staging, RunOf
<1>12. RunOf(v)'
  BY <1>1, <1>2, <1>3, <1>4, <1>5, Owners
     DEF PodOf, CallOf, ClaimCall, InlineCall, HeldOf, MountOf, KeptOf, RunOf, Keeps,
         Staging, PodType
<1> QED
  BY <1>6, <1>7, <1>8, <1>9, <1>10, <1>11, <1>12 DEF PodOf

\* The unpublish of an inline volume begins once its pod has stopped.
LEMMA UnpublishInlinePods ==
    ASSUME TypeOK, PodInv, NEW u \in Targets, UnpublishInline(u), NEW v, v = Owner[u]
    PROVE  PodOf(v)' /\ \A w \in Volumes \ {v} : Spared(w)
<1> USE DEF remoteVars, treeVars, recordVars, kubeletVars, memoryVars, reportVars,
            callVars, passVars
<1>1. v \in Volumes /\ PodOf(v) /\ u \in TargetsOf(v)
  BY Owners DEF PodInv
<1>2. CallType /\ HeldType /\ PodType /\ RecordType /\ LockType /\ TreeType
  BY TypeParts
<1>3. /\ (v \in Claims /\ v \notin Inlines) \/ (v \in Inlines /\ v \notin Claims)
      /\ \A t \in recorded[v] : t \in TargetsOf(v)
      /\ \A t \in bound[v] : t \in TargetsOf(v)
      /\ \A t \in TargetsOf(v) : t \in Targets /\ Owner[t] = v
      /\ \A w \in Volumes \ {v} : \A t \in TargetsOf(w) : t \in Targets /\ Owner[t] = w
  BY <1>1, <1>2, Owners DEF RecordType, HeldType
<1>4. v # "free" /\ v # "pass"
  BY <1>1, LockNames
<1>5. /\ up /\ v \in Inlines /\ u \in asked /\ call[v] = "none"
      /\ v \notin held' /\ v \notin followed'
      /\ call'[v] \in { "unmount", "unmount_only" } /\ at'[v] = u
      /\ \A t \in TargetsOf(v) : t \in running' <=> t \in running /\ t # u
      /\ UNCHANGED <<up, lock, asked, bound, mounts, tree, record, recorded,
           unrecorded>>
  BY <1>1, <1>2, <1>3, <1>4
     DEF UnpublishInline, Unfollow, Goto, CallType, HeldType, PodType, RecordType
<1>6. ASSUME NEW w \in Volumes \ {v} PROVE Spared(w)
  <2>1. /\ up' = up /\ (lock' = w <=> lock = w)
        /\ call'[w] = call[w] /\ at'[w] = at[w]
        /\ recorded'[w] = recorded[w] /\ bound'[w] = bound[w]
        /\ (w \in held' <=> w \in held) /\ (w \in followed' <=> w \in followed)
        /\ (w \in record' <=> w \in record) /\ (w \in tree => w \in tree')
    BY <1>1, <1>2, <1>3, <1>4, <1>6, LockNames
       DEF UnpublishInline, Unfollow, Goto, CallType, HeldType, RecordType, LockType
  <2>2. ASSUME NEW t \in TargetsOf(w)
        PROVE  /\ mounts'[t] = mounts[t] /\ (t \in asked' <=> t \in asked)
               /\ t \in running' <=> t \in running
               /\ t \in unrecorded' <=> t \in unrecorded
    BY <1>1, <1>2, <1>3, <1>4, <1>6
       DEF UnpublishInline, Unfollow, Goto, PodType, RecordType, HeldType
  <2> QED
    BY <2>1, <2>2 DEF Spared
<1> HIDE DEF remoteVars, treeVars, recordVars, kubeletVars, memoryVars, reportVars,
             callVars, passVars
<1>7. CallOf(v)'
  BY <1>1, <1>2, <1>3, <1>4, <1>5, Owners, LockNames
     DEF PodOf, CallOf, ClaimCall, InlineCall, HeldOf, Staging, HeldType, PodType
<1>8. ClaimCall(v)' /\ InlineCall(v)'
  BY <1>1, <1>2, <1>3, <1>4, <1>5, Owners
     DEF PodOf, CallOf, ClaimCall, InlineCall, HeldOf, Staging
<1>9. HeldOf(v)'
  BY <1>1, <1>2, <1>3, <1>4, <1>5, Owners
     DEF PodOf, CallOf, ClaimCall, InlineCall, HeldOf, Staging
<1>10. MountOf(v)'
  BY <1>1, <1>2, <1>3, <1>4, <1>5, Owners
     DEF PodOf, CallOf, ClaimCall, InlineCall, HeldOf, MountOf, KeptOf, Keeps, Staging,
         RecordType, PodType
<1>11. KeptOf(v)'
  BY <1>1, <1>2, <1>3, <1>4, <1>5, Owners
     DEF PodOf, CallOf, ClaimCall, InlineCall, HeldOf, KeptOf, Keeps, Staging, RunOf
<1>12. RunOf(v)'
  BY <1>1, <1>2, <1>3, <1>4, <1>5, Owners
     DEF PodOf, CallOf, ClaimCall, InlineCall, HeldOf, MountOf, KeptOf, RunOf, Keeps,
         Staging, PodType
<1> QED
  BY <1>6, <1>7, <1>8, <1>9, <1>10, <1>11, <1>12 DEF PodOf

\* The end of a placement gives the lock back and moves the call on.
LEMMA PlacedPods ==
    ASSUME TypeOK, PodInv, Placed
    PROVE  \A w \in Volumes : PodOf(w)' \/ Spared(w)
<1> USE DEF remoteVars, treeVars, recordVars, kubeletVars, memoryVars, reportVars,
            callVars, passVars
<1>1. PICK v \in Volumes : v = placing.of /\ PodOf(v)
  BY TypeParts DEF PlacingType, Going, PodInv, Placed, Placing
<1>2. CallType /\ HeldType /\ PodType /\ RecordType /\ LockType /\ TreeType
  BY TypeParts
<1>3. /\ (v \in Claims /\ v \notin Inlines) \/ (v \in Inlines /\ v \notin Claims)
      /\ \A t \in recorded[v] : t \in TargetsOf(v)
      /\ \A t \in bound[v] : t \in TargetsOf(v)
      /\ \A t \in TargetsOf(v) : t \in Targets /\ Owner[t] = v
      /\ v \in Inlines => \A t, u \in TargetsOf(v) : t = u
  BY <1>1, <1>2, Owners DEF RecordType, HeldType
<1>4. CASE lock = "pass"
  BY <1>1, <1>4, LockNames DEF Placed, Spared
<1>5. CASE lock = v
  <2>1. /\ call[v] = "place" /\ call'[v] = (IF v \in Claims THEN "record" ELSE "bind")
        /\ lock' = "free"
        /\ UNCHANGED <<up, at, asked, running, held, followed, bound, mounts, tree, record,
             recorded, unrecorded>>
    BY <1>1, <1>2, <1>5, LockNames DEF Placed, Goto, CallType, PodOf, CallOf
  <2>2. ASSUME NEW w \in Volumes \ {v} PROVE Spared(w)
    <3>1. call'[w] = call[w] /\ (lock' = w <=> lock = w)
      BY <1>1, <1>2, <1>5, <2>2, LockNames DEF Placed, Goto, CallType
    <3> QED
      BY <2>1, <3>1 DEF Spared
  <2> HIDE DEF remoteVars, treeVars, recordVars, kubeletVars, memoryVars, reportVars,
               callVars, passVars
  <2>7. CallOf(v)'
    BY <1>1, <1>2, <1>3, <2>1, LockNames
       DEF PodOf, CallOf, ClaimCall, InlineCall, HeldOf, Staging, HeldType, PodType
  <2>8. ClaimCall(v)' /\ InlineCall(v)'
    BY <1>1, <1>2, <1>3, <2>1 DEF PodOf, CallOf, ClaimCall, InlineCall, HeldOf, Staging
  <2>9. HeldOf(v)'
    BY <1>1, <1>2, <1>3, <2>1 DEF PodOf, CallOf, ClaimCall, InlineCall, HeldOf, Staging
  <2>10. MountOf(v)'
    BY <1>1, <1>2, <1>3, <2>1
       DEF PodOf, CallOf, ClaimCall, InlineCall, HeldOf, MountOf, KeptOf, Keeps, Staging
  <2>11. KeptOf(v)'
    BY <1>1, <1>2, <1>3, <2>1
       DEF PodOf, CallOf, ClaimCall, InlineCall, HeldOf, MountOf, KeptOf, Keeps,
           Staging, RunOf
  <2>12. RunOf(v)'
    BY <1>1, <1>2, <1>3, <2>1
       DEF PodOf, CallOf, ClaimCall, InlineCall, HeldOf, MountOf, KeptOf, RunOf, Keeps,
           Staging
  <2> QED
    BY <2>2, <2>7, <2>8, <2>9, <2>10, <2>11, <2>12 DEF PodOf
<1> QED
  BY <1>1, <1>4, <1>5 DEF Placed

\* A failed placement of a stage gives the lock back and fails the call.
LEMMA PlaceFailsPods ==
    ASSUME TypeOK, PodInv, PlaceFails
    PROVE  \A w \in Volumes : PodOf(w)' \/ Spared(w)
<1> USE DEF remoteVars, treeVars, recordVars, kubeletVars, memoryVars, reportVars,
            callVars, passVars
<1>1. PICK v \in Volumes : v = placing.of /\ PodOf(v)
  BY TypeParts DEF PlacingType, Going, PodInv, PlaceFails
<1>2. CallType /\ HeldType /\ PodType /\ RecordType /\ LockType /\ TreeType
  BY TypeParts
<1>3. /\ (v \in Claims /\ v \notin Inlines) \/ (v \in Inlines /\ v \notin Claims)
      /\ \A t \in recorded[v] : t \in TargetsOf(v)
      /\ \A t \in bound[v] : t \in TargetsOf(v)
      /\ \A t \in TargetsOf(v) : t \in Targets /\ Owner[t] = v
      /\ v \in Inlines => \A t, u \in TargetsOf(v) : t = u
  BY <1>1, <1>2, Owners DEF RecordType, HeldType
<1>4. CASE lock = "pass"
  BY <1>1, <1>4, LockNames DEF PlaceFails, Spared
<1>5. CASE lock = v
  <2>1. /\ call[v] = "place" /\ call'[v] = "failed" /\ lock' = "free"
        /\ UNCHANGED <<up, at, asked, running, held, followed, bound, mounts, tree, record,
             recorded, unrecorded>>
    BY <1>1, <1>2, <1>5, LockNames DEF PlaceFails, Goto, CallType, PodOf, CallOf
  <2>2. ASSUME NEW w \in Volumes \ {v} PROVE Spared(w)
    <3>1. call'[w] = call[w] /\ (lock' = w <=> lock = w)
      BY <1>1, <1>2, <1>5, <2>2, LockNames DEF PlaceFails, Goto, CallType
    <3> QED
      BY <2>1, <3>1 DEF Spared
  <2> HIDE DEF remoteVars, treeVars, recordVars, kubeletVars, memoryVars, reportVars,
               callVars, passVars
  <2>7. CallOf(v)'
    BY <1>1, <1>2, <1>3, <2>1, LockNames
       DEF PodOf, CallOf, ClaimCall, InlineCall, HeldOf, Staging, HeldType, PodType
  <2>8. ClaimCall(v)' /\ InlineCall(v)'
    BY <1>1, <1>2, <1>3, <2>1 DEF PodOf, CallOf, ClaimCall, InlineCall, HeldOf, Staging
  <2>9. HeldOf(v)'
    BY <1>1, <1>2, <1>3, <2>1 DEF PodOf, CallOf, ClaimCall, InlineCall, HeldOf, Staging
  <2>10. MountOf(v)'
    BY <1>1, <1>2, <1>3, <2>1
       DEF PodOf, CallOf, ClaimCall, InlineCall, HeldOf, MountOf, KeptOf, Keeps, Staging
  <2>11. KeptOf(v)'
    BY <1>1, <1>2, <1>3, <2>1
       DEF PodOf, CallOf, ClaimCall, InlineCall, HeldOf, MountOf, KeptOf, Keeps,
           Staging, RunOf
  <2>12. RunOf(v)'
    BY <1>1, <1>2, <1>3, <2>1
       DEF PodOf, CallOf, ClaimCall, InlineCall, HeldOf, MountOf, KeptOf, RunOf, Keeps,
           Staging
  <2> QED
    BY <2>2, <2>7, <2>8, <2>9, <2>10, <2>11, <2>12 DEF PodOf
<1> QED
  BY <1>1, <1>4, <1>5 DEF PlaceFails

\* A kill of the driver forgets the calls and leaves the mounts.
LEMMA CrashPods ==
    ASSUME TypeOK, PodInv, Crash, NEW v \in Volumes
    PROVE  PodOf(v)'
<1> USE DEF remoteVars, treeVars, recordVars, kubeletVars, memoryVars, reportVars,
            callVars, passVars
<1>1. PodOf(v)
  BY DEF PodInv
<1>2. CallType /\ HeldType /\ PodType /\ RecordType /\ LockType /\ TreeType
  BY TypeParts
<1>3. /\ (v \in Claims /\ v \notin Inlines) \/ (v \in Inlines /\ v \notin Claims)
      /\ \A t \in recorded[v] : t \in TargetsOf(v)
      /\ \A t \in bound[v] : t \in TargetsOf(v)
      /\ \A t \in TargetsOf(v) : t \in Targets /\ Owner[t] = v
      /\ v \in Inlines => \A t, u \in TargetsOf(v) : t = u
  BY <1>1, <1>2, Owners DEF RecordType, HeldType
<1>5. /\ ~up' /\ lock' = "free" /\ call'[v] = "none" /\ v \notin held' /\ v \notin followed'
      /\ bound'[v] = {}
      /\ UNCHANGED <<asked, running, mounts, tree, record, recorded, unrecorded>>
  BY <1>1, <1>3 DEF Crash, Stop, Nowhere
<1> HIDE DEF remoteVars, treeVars, recordVars, kubeletVars, memoryVars, reportVars,
             callVars, passVars
<1>7. CallOf(v)'
  BY <1>1, <1>2, <1>3, <1>5, LockNames
     DEF PodOf, CallOf, ClaimCall, InlineCall, HeldOf, Staging, HeldType, PodType
<1>8. ClaimCall(v)' /\ InlineCall(v)'
  BY <1>1, <1>2, <1>3, <1>5 DEF PodOf, CallOf, ClaimCall, InlineCall, HeldOf, Staging
<1>9. HeldOf(v)'
  BY <1>1, <1>2, <1>3, <1>5 DEF PodOf, CallOf, ClaimCall, InlineCall, HeldOf, Staging
<1>10. MountOf(v)'
  BY <1>1, <1>2, <1>3, <1>5
     DEF PodOf, CallOf, ClaimCall, InlineCall, HeldOf, MountOf, KeptOf, Keeps, Staging
<1>11. KeptOf(v)'
  BY <1>1, <1>2, <1>3, <1>5
     DEF PodOf, CallOf, ClaimCall, InlineCall, HeldOf, MountOf, KeptOf, Keeps, Staging,
         RunOf
<1>12. RunOf(v)'
  BY <1>1, <1>2, <1>3, <1>5
     DEF PodOf, CallOf, ClaimCall, InlineCall, HeldOf, MountOf, KeptOf, RunOf, Keeps,
         Staging
<1> QED
  BY <1>7, <1>8, <1>9, <1>10, <1>11, <1>12 DEF PodOf

\* A reboot takes every mount and every pod.
LEMMA RebootPods ==
    ASSUME TypeOK, PodInv, Reboot, NEW v \in Volumes
    PROVE  PodOf(v)'
<1> USE DEF remoteVars, treeVars, recordVars, kubeletVars, memoryVars, reportVars,
            callVars, passVars
<1>1. PodOf(v)
  BY DEF PodInv
<1>2. CallType /\ HeldType /\ PodType /\ RecordType /\ LockType /\ TreeType
  BY TypeParts
<1>3. /\ (v \in Claims /\ v \notin Inlines) \/ (v \in Inlines /\ v \notin Claims)
      /\ \A t \in recorded[v] : t \in TargetsOf(v)
      /\ \A t \in bound[v] : t \in TargetsOf(v)
      /\ \A t \in TargetsOf(v) : t \in Targets /\ Owner[t] = v
      /\ v \in Inlines => \A t, u \in TargetsOf(v) : t = u
  BY <1>1, <1>2, Owners DEF RecordType, HeldType
<1>5. /\ ~up' /\ lock' = "free" /\ call'[v] = "none" /\ v \notin held' /\ v \notin followed'
      /\ bound'[v] = {}
      /\ \A t \in TargetsOf(v) : mounts'[t] = "none" /\ t \notin asked' /\ t \notin running'
      /\ UNCHANGED <<tree, record, recorded>>
  BY <1>1, <1>3 DEF Reboot, Stop, Nowhere
<1> HIDE DEF remoteVars, treeVars, recordVars, kubeletVars, memoryVars, reportVars,
             callVars, passVars
<1>7. CallOf(v)'
  BY <1>1, <1>2, <1>3, <1>5, LockNames
     DEF PodOf, CallOf, ClaimCall, InlineCall, HeldOf, Staging, HeldType, PodType
<1>8. ClaimCall(v)' /\ InlineCall(v)'
  BY <1>1, <1>2, <1>3, <1>5 DEF PodOf, CallOf, ClaimCall, InlineCall, HeldOf, Staging
<1>9. HeldOf(v)'
  BY <1>1, <1>2, <1>3, <1>5 DEF PodOf, CallOf, ClaimCall, InlineCall, HeldOf, Staging
<1>10. MountOf(v)'
  BY <1>1, <1>2, <1>3, <1>5
     DEF PodOf, CallOf, ClaimCall, InlineCall, HeldOf, MountOf, KeptOf, Keeps, Staging
<1>11. KeptOf(v)'
  BY <1>1, <1>2, <1>3, <1>5
     DEF PodOf, CallOf, ClaimCall, InlineCall, HeldOf, MountOf, KeptOf, Keeps, Staging,
         RunOf
<1>12. RunOf(v)'
  BY <1>1, <1>2, <1>3, <1>5
     DEF PodOf, CallOf, ClaimCall, InlineCall, HeldOf, MountOf, KeptOf, RunOf, Keeps,
         Staging
<1> QED
  BY <1>7, <1>8, <1>9, <1>10, <1>11, <1>12 DEF PodOf

\* A resumed driver holds again the volumes whose records it reads.
LEMMA ResumePods ==
    ASSUME TypeOK, PodInv, Resume, NEW v \in Volumes
    PROVE  PodOf(v)'
<1> USE DEF remoteVars, treeVars, recordVars, kubeletVars, memoryVars, reportVars,
            callVars, passVars
<1>1. PodOf(v)
  BY DEF PodInv
<1>2. CallType /\ HeldType /\ PodType /\ RecordType /\ LockType /\ TreeType
  BY TypeParts
<1>3. /\ (v \in Claims /\ v \notin Inlines) \/ (v \in Inlines /\ v \notin Claims)
      /\ \A t \in recorded[v] : t \in TargetsOf(v)
      /\ \A t \in bound[v] : t \in TargetsOf(v)
      /\ \A t \in TargetsOf(v) : t \in Targets /\ Owner[t] = v
      /\ v \in Inlines => \A t, u \in TargetsOf(v) : t = u
  BY <1>1, <1>2, Owners DEF RecordType, HeldType
<1>5. /\ ~up /\ up' /\ UNCHANGED <<lock, call, at, asked, running, unrecorded>>
      /\ v \in held' <=> v \in Resumed
      /\ v \in followed' <=> v \in Resumed
      /\ v \in Resumed <=> v \in record /\ \E t \in recorded[v] : mounts[t] # "none"
      /\ bound'[v] = IF v \in Resumed /\ v \in Claims THEN MountedTargets(v) ELSE {}
      /\ v \notin Resumed => recorded'[v] = {}
      /\ v \in Resumed =>
           /\ v \in record' /\ (v \in tree => v \in tree')
           /\ \A t \in TargetsOf(v) : mounts'[t] = mounts[t]
           /\ recorded'[v] = recorded[v] \/ recorded'[v] = MountedTargets(v)
      /\ v \notin Resumed /\ v \in record =>
           \A t \in TargetsOf(v) :
              mounts'[t] = IF mounts[t] = "tree" THEN "gone" ELSE mounts[t]
      /\ v \notin record =>
           /\ v \in tree => v \in tree'
           /\ \A t \in TargetsOf(v) : mounts'[t] = mounts[t]
  <2>1. /\ ~up /\ up' /\ UNCHANGED <<lock, call, at, asked, running, unrecorded>>
        /\ held' = Resumed /\ followed' = Resumed
        /\ RemoveDirectories(record \ Resumed)
        /\ bound'[v] = IF v \in Resumed /\ v \in Claims THEN MountedTargets(v) ELSE {}
        /\ v \notin Resumed => recorded'[v] = {}
        /\ v \in Resumed =>
             recorded'[v] = recorded[v] \/ recorded'[v] = MountedTargets(v)
    BY DEF Resume
  <2>2. v \in Resumed <=> v \in record /\ \E t \in recorded[v] : mounts[t] # "none"
    BY DEF Resumed, MountedTargets
  <2>3. /\ v \in record \ Resumed \/ (v \in tree => v \in tree')
        /\ v \in Resumed => v \in record'
        /\ \A t \in TargetsOf(v) :
             mounts'[t] = IF mounts[t] = "tree" /\ v \in record \ Resumed
                          THEN "gone" ELSE mounts[t]
    BY <2>1, <2>2, <1>3 DEF RemoveDirectories
  <2> QED
    BY <2>1, <2>2, <2>3
<1>6. \A t : t \in MountedTargets(v) <=> t \in recorded[v] /\ mounts[t] # "none"
  BY DEF MountedTargets
<1> HIDE DEF remoteVars, treeVars, recordVars, kubeletVars, memoryVars, reportVars,
             callVars, passVars
<1>7. CallOf(v)'
  BY <1>1, <1>2, <1>3, <1>5, <1>6, LockNames
     DEF PodOf, CallOf, ClaimCall, InlineCall, HeldOf, Staging, HeldType, PodType
<1>8. ClaimCall(v)' /\ InlineCall(v)'
  BY <1>1, <1>2, <1>3, <1>5, <1>6
     DEF PodOf, CallOf, ClaimCall, InlineCall, HeldOf, Staging
<1>9. HeldOf(v)'
  BY <1>1, <1>2, <1>3, <1>5, <1>6
     DEF PodOf, CallOf, ClaimCall, InlineCall, HeldOf, Staging
<1>10. MountOf(v)'
  BY <1>1, <1>2, <1>3, <1>5, <1>6
     DEF PodOf, CallOf, ClaimCall, InlineCall, HeldOf, MountOf, KeptOf, Keeps, Staging,
         PodType
<1>11. KeptOf(v)'
  BY <1>1, <1>2, <1>3, <1>5, <1>6
     DEF PodOf, CallOf, ClaimCall, InlineCall, HeldOf, MountOf, KeptOf, Keeps, Staging,
         PodType
<1>12. RunOf(v)'
  BY <1>1, <1>2, <1>3, <1>5, <1>6
     DEF PodOf, CallOf, ClaimCall, InlineCall, HeldOf, MountOf, KeptOf, RunOf, Keeps,
         Staging
<1> QED
  BY <1>7, <1>8, <1>9, <1>10, <1>11, <1>12 DEF PodOf

\* No step disturbs what a volume's pods rely on.
LEMMA PodKept ==
    ASSUME TypeOK,
           PodInv,
           [Next]_vars
    PROVE  PodInv'
<1> USE DEF remoteVars, treeVars, recordVars, kubeletVars, memoryVars, reportVars,
            callVars, passVars
<1>0. RecordType
  BY TypeParts
<1>1. ASSUME \A w \in Volumes : Spared(w) PROVE PodInv'
  <2>1. RecordType
    BY TypeParts
  <2> QED
    BY <1>1, <2>1, SparedPods DEF PodInv
<1>2. CASE UNCHANGED <<callVars, kubeletVars, memoryVars, up, mounts, recordVars, lock,
     treeVars>>
  <2>1. ASSUME NEW w \in Volumes PROVE Spared(w)
    BY <1>2 DEF Spared
  <2> QED
    BY <2>1, <1>1
<1>3. ASSUME NEW v \in Volumes, StageClaim(v) PROVE PodInv'
  BY <1>3, <1>1, StageClaimPods, SparedPods, <1>0 DEF PodInv
<1>4. ASSUME NEW v \in Volumes, StageFetch(v) PROVE PodInv'
  BY <1>4, <1>1, StageFetchPods, SparedPods, <1>0 DEF PodInv
<1>5. ASSUME NEW v \in Volumes, StageStale(v) PROVE PodInv'
  BY <1>5, <1>1, StageStalePods, SparedPods, <1>0 DEF PodInv
<1>6. ASSUME NEW v \in Volumes, StageRefused(v) PROVE PodInv'
  BY <1>6, <1>1, StageRefusedPods, SparedPods, <1>0 DEF PodInv
<1>7. ASSUME NEW v \in Volumes, CallFailed(v) PROVE PodInv'
  BY <1>7, <1>1, CallFailedPods, SparedPods, <1>0 DEF PodInv
<1>8. ASSUME NEW v \in Volumes, Bind(v) PROVE PodInv'
  BY <1>8, <1>1, BindPods, SparedPods, <1>0 DEF PodInv
<1>9. ASSUME NEW v \in Volumes, BindFails(v) PROVE PodInv'
  BY <1>9, <1>1, BindFailsPods, SparedPods, <1>0 DEF PodInv
<1>10. ASSUME NEW v \in Volumes, Record(v) PROVE PodInv'
  BY <1>10, <1>1, RecordPods, SparedPods, <1>0 DEF PodInv
<1>11. ASSUME NEW v \in Volumes, Rewrite(v) PROVE PodInv'
  BY <1>11, <1>1, RewritePods, SparedPods, <1>0 DEF PodInv
<1>12. ASSUME NEW v \in Volumes, Forget(v) PROVE PodInv'
  BY <1>12, <1>1, ForgetPods, SparedPods, <1>0 DEF PodInv
<1>13. ASSUME NEW v \in Volumes, Hold(v) PROVE PodInv'
  BY <1>13, <1>1, HoldPods, SparedPods, <1>0 DEF PodInv
<1>14. ASSUME NEW v \in Volumes, Unmount(v) PROVE PodInv'
  BY <1>14, <1>1, UnmountPods, SparedPods, <1>0 DEF PodInv
<1>15. ASSUME NEW v \in Volumes, UnmountFails(v) PROVE PodInv'
  BY <1>15, <1>1, UnmountFailsPods, SparedPods, <1>0 DEF PodInv
<1>16. ASSUME NEW v \in Volumes, UnstageClaim(v) PROVE PodInv'
  BY <1>16, <1>1, UnstageClaimPods, SparedPods, <1>0 DEF PodInv
<1>17. ASSUME NEW v \in Volumes, RemoveVolume(v) PROVE PodInv'
  BY <1>17, <1>1, RemoveVolumePods, SparedPods, <1>0 DEF PodInv
<1>18. ASSUME NEW t \in Targets, PublishAgain(t) PROVE PodInv'
  <2>1. PodOf(Owner[t])' /\ \A w \in Volumes \ {Owner[t]} : Spared(w)
    BY <1>18, PublishAgainPods
  <2> QED
    BY <2>1, <1>1, SparedPods, <1>0 DEF PodInv
<1>19. ASSUME NEW t \in Targets, PublishInline(t) PROVE PodInv'
  <2>1. PodOf(Owner[t])' /\ \A w \in Volumes \ {Owner[t]} : Spared(w)
    BY <1>19, PublishInlinePods
  <2> QED
    BY <2>1, <1>1, SparedPods, <1>0 DEF PodInv
<1>20. ASSUME NEW t \in Targets, PublishClaim(t) PROVE PodInv'
  <2>1. PodOf(Owner[t])' /\ \A w \in Volumes \ {Owner[t]} : Spared(w)
    BY <1>20, PublishClaimPods
  <2> QED
    BY <2>1, <1>1, SparedPods, <1>0 DEF PodInv
<1>21. ASSUME NEW t \in Targets, UnpublishClaim(t) PROVE PodInv'
  <2>1. PodOf(Owner[t])' /\ \A w \in Volumes \ {Owner[t]} : Spared(w)
    BY <1>21, UnpublishClaimPods
  <2> QED
    BY <2>1, <1>1, SparedPods, <1>0 DEF PodInv
<1>22. ASSUME NEW t \in Targets, UnpublishInline(t) PROVE PodInv'
  <2>1. PodOf(Owner[t])' /\ \A w \in Volumes \ {Owner[t]} : Spared(w)
    BY <1>22, UnpublishInlinePods
  <2> QED
    BY <2>1, <1>1, SparedPods, <1>0 DEF PodInv
<1>23. ASSUME PlaceStep PROVE PodInv'
  <2>1. ASSUME NEW w \in Volumes PROVE Spared(w)
    BY <1>23
       DEF PlaceStep, Checkout, ArriveWhole, ArriveInside, RemoveEntry, RemoveKind,
             RenameEntry, RenamedAll, Spared
  <2> QED
    BY <2>1, <1>1
<1>24. ASSUME Placed PROVE PodInv'
  BY <1>24, <1>1, PlacedPods, SparedPods, <1>0 DEF PodInv
<1>25. ASSUME PlaceFails PROVE PodInv'
  BY <1>25, <1>1, PlaceFailsPods, SparedPods, <1>0 DEF PodInv
<1>26. ASSUME PassBegins PROVE PodInv'
  <2>1. ASSUME NEW w \in Volumes PROVE Spared(w)
    BY <1>26, LockNames DEF PassBegins, Spared
  <2> QED
    BY <2>1, <1>1
<1>27. ASSUME PassEnds PROVE PodInv'
  <2>1. ASSUME NEW w \in Volumes PROVE Spared(w)
    BY <1>27, LockNames DEF PassEnds, Spared
  <2> QED
    BY <2>1, <1>1
<1>28. ASSUME Crash PROVE PodInv'
  BY <1>28, <1>1, CrashPods, SparedPods, <1>0 DEF PodInv
<1>29. ASSUME Reboot PROVE PodInv'
  BY <1>29, <1>1, RebootPods, SparedPods, <1>0 DEF PodInv
<1>30. ASSUME Resume PROVE PodInv'
  BY <1>30, <1>1, ResumePods, SparedPods, <1>0 DEF PodInv
<1> HIDE DEF remoteVars, treeVars, recordVars, kubeletVars, memoryVars, reportVars,
             callVars, passVars
<1> QED
  BY <1>2, <1>3, <1>4, <1>5, <1>6, <1>7, <1>8, <1>9, <1>10, <1>11, <1>12, <1>13, <1>14,
     <1>15, <1>16, <1>17, <1>18, <1>19, <1>20, <1>21, <1>22, <1>23, <1>24, <1>25,
          <1>26, <1>27, <1>28, <1>29, <1>30, CallFrame, KubeletFrame, MemoryFrame,
               UpFrame, MountFrame, RecordFrame, LockFrame, TreeFrame

-----------------------------------------------------------------------------
(* The first invariant of the specification *)

\* A fresh node has its types and no pods.
LEMMA InitPods == Init => TypeOK /\ PodInv
<1> SUFFICES ASSUME Init PROVE TypeOK /\ PodInv
  OBVIOUS
<1> USE DEF Init
<1>1. remote \in Commits
  <2>1. \E c \in Commits : \A d \in Commits : c <= d
    <3>1. Commits \subseteq Nat /\ Commits # {}
      BY TreeAssumption
    <3> QED
      BY <3>1, Smallest
  <2> QED
    BY <2>1
<1>2. RemoteType /\ TreeType /\ HalfType
  BY <1>1, Contents DEF RemoteType, TreeType, HalfType, NoCommits
<1>3. RecordType /\ PodType /\ HeldType
  BY DEF RecordType, PodType, HeldType, Nowhere
<1>4. ReportType /\ CallType
  BY DEF ReportType, CallType, Phases, NoCommits
<1>5. LockType /\ PlacingType /\ BoundType
  <2>1. LockType /\ PlacingType
    BY DEF LockType, PlacingType
  <2>2. faults \in 0..MaxFaults /\ upsets \in 0..MaxUpsets
    BY TreeAssumption
  <2> QED
    BY <2>1, <2>2 DEF BoundType
<1>6. ASSUME NEW v \in Volumes PROVE PodOf(v)
  <2>1. lock # v
    BY LockNames
  <2> QED
    BY <2>1, Owners
       DEF PodOf, CallOf, ClaimCall, InlineCall, HeldOf, MountOf, KeptOf, Keeps, RunOf,
           Staging, Nowhere
<1> HIDE DEF Init
<1> QED
  BY <1>2, <1>3, <1>4, <1>5, <1>6, TypeParts DEF PodInv

\* Every step keeps the types and what the pods rely on.
LEMMA NextPods == TypeOK /\ PodInv /\ [Next]_vars => TypeOK' /\ PodInv'
<1> SUFFICES ASSUME TypeOK, PodInv, [Next]_vars PROVE TypeOK' /\ PodInv'
  OBVIOUS
<1>1. TypeOK'
  <2>1. TypeOK' <=> /\ RemoteType' /\ TreeType' /\ HalfType' /\ RecordType' /\ PodType'
                    /\ HeldType' /\ ReportType' /\ CallType' /\ LockType'
                    /\ PlacingType' /\ BoundType'
    BY PlacementGoes
       DEF TypeOK, RemoteType, TreeType, HalfType, RecordType, PodType, HeldType,
           ReportType, CallType, LockType, PlacingType, BoundType
  <2> QED
    BY <2>1, RemoteTyped, TreeTyped, HalfTyped, RecordTyped, PodTyped, HeldTyped,
       ReportTyped, CallTyped, LockTyped, PlacingTyped, BoundTyped
<1> QED
  BY <1>1, PodKept

\* The types and what the pods rely on hold in every reachable state.
LEMMA PodInvariant == Spec => [](TypeOK /\ PodInv)
BY InitPods, NextPods, PTL DEF Spec

(* Every variable of ReadOnlyTree keeps to its values, for any number of   *)
(* volumes, targets, entries, commits, faults and kills: pods read only    *)
(* what was asked for, and the placement that runs is under its lock.      *)
THEOREM TreesTyped == Spec => []TypeOK
BY PodInvariant, PTL

(* A pod that reads has the tree of its volume bound, and a running driver *)
(* holds and follows that volume at that target, across failed calls,      *)
(* unmounts, kills and restarts (node.go, records.go resume), as long as   *)
(* the last write of the record went through.                              *)
THEOREM PodsAreFollowed == Spec => []RunningIsFollowed
<1>1. TypeOK /\ PodInv => RunningIsFollowed
  <2> SUFFICES ASSUME TypeOK, PodInv, NEW t \in running \ unrecorded
               PROVE  /\ mounts[t] = "tree" /\ Owner[t] \in tree
                      /\ up => /\ Owner[t] \in held \cap followed
                               /\ Owner[t] \in Claims => t \in bound[Owner[t]]
    BY DEF RunningIsFollowed
  <2>1. t \in Targets /\ Owner[t] \in Volumes /\ t \in TargetsOf(Owner[t])
    BY TypeParts, Owners DEF PodType
  <2>2. PodOf(Owner[t])
    BY <2>1 DEF PodInv
  <2> QED
    BY <2>1, <2>2 DEF PodOf, HeldOf, MountOf, RunOf, Keeps
<1> QED
  BY <1>1, PodInvariant, PTL

-----------------------------------------------------------------------------
(* What a report of a commit relies on *)

\* The pass and the stages have the lock in turn.
TurnInv ==
    /\ ~up => lock = "free"
    /\ lock # "pass" => pass = {}
    /\ lock \in Volumes => placing # Idle

\* A placement goes on from what it has done to the tree.
PlaceInv ==
    placing # Idle =>
        LET c == placing.commit
            v == placing.of IN
        /\ placing.pc = "remove" =>
             placing.todo # {} /\ \A e \in placing.todo : Content[c][e] = Absent
        /\ placing.pc = "remove" /\ v \in tree => \A e \in Entries \ placing.todo :
             Content[c][e] = Absent => files[v][e] = Absent
        /\ placing.pc = "rename" /\ v \in tree => \A e \in Entries \ placing.todo :
             files[v][e] = Content[c][e]
        /\ placing.pc = "record" /\ v \in tree => files[v] = Content[c]

\* A placement works on the volume, or is past the point where its tree changes.
Works(v) == placing # Idle /\ placing.of = v

Inside(v) == Works(v) /\ placing.pc \in { "remove", "rename", "record" }

\* The tree is of the commit that was placed last, unless another placement is at
\* work inside it, or ended there: one that ended half way was of the commit the ref
\* names, or the ref moved since.
FilesOf(v) ==
    placed[v] # 0 =>
        /\ v \in tree
        /\ \/ half[v] = "moved"
           \/ half[v] = "half" /\ placed[v] # remote
           \/ Inside(v) /\ placing.commit # placed[v]
           \/ files[v] = Content[placed[v]]

\* A stage that has placed, and has not handed its volume to the loop.
Staged(v) ==
    \/ call[v] \in { "record", "hold" }
    \/ v \in Inlines /\ call[v] = "bind"

StagedOf(v) == Staged(v) => v \notin pass /\ ~Works(v) /\ half[v] = "no"

\* What stands is what was placed, and a loop without trouble left half a tree only
\* of another commit than the one that stands.
StandOf(v) ==
    /\ v \in fresh => standing[v] # 0 /\ up
    /\ v \in held \/ Staged(v) => standing[v] \in { 0, placed[v] }
    /\ v \in held /\ v \in fresh /\ v \notin trouble /\ half[v] = "half"
          => standing[v] = remote

ReportOf(v) == FilesOf(v) /\ StagedOf(v) /\ StandOf(v)

ReportInv == TurnInv /\ PlaceInv /\ \A v \in Volumes : ReportOf(v)

\* Nothing happens to a volume that its report could rest on, but that the loop
\* gives it up or has trouble with it, or that the stage hands it over.
Left(v) ==
    /\ remote' = remote /\ up' = up
    /\ placed'[v] = placed[v] /\ (v \in tree' <=> v \in tree) /\ files'[v] = files[v]
    /\ half'[v] = half[v] /\ standing'[v] = standing[v]
    /\ v \in fresh' => v \in fresh
    /\ v \in trouble => v \in trouble'
    /\ v \in held' => v \in held \/ Staged(v)
    /\ Staged(v)' => Staged(v)
    /\ Staged(v)' /\ v \in pass' => v \in pass
    /\ Works(v) => placing' = placing
    /\ Works(v)' => Works(v)

\* What a report rests on outlives a step that leaves the volume alone.
LEMMA LeftReports ==
    ASSUME NEW v \in Volumes, ReportOf(v), Left(v)
    PROVE  ReportOf(v)'
<1> USE DEF Left
<1>1. FilesOf(v)'
  BY DEF ReportOf, FilesOf, Inside, Works
<1>2. StagedOf(v)'
  BY DEF ReportOf, StagedOf, Works
<1>3. StandOf(v)'
  BY DEF ReportOf, StandOf, StagedOf
<1> QED
  BY <1>1, <1>2, <1>3 DEF ReportOf

\* The loop has a pass only under the lock, and a stage has the lock only to place.
LEMMA TurnKept ==
    ASSUME TypeOK,
           PodInv,
           ReportInv,
           [Next]_vars
    PROVE  TurnInv'
<1> USE DEF remoteVars, treeVars, recordVars, kubeletVars, memoryVars, reportVars,
            callVars, passVars
<1> USE DEF TurnInv
<1>1. LockType /\ PlacingType /\ HeldType
  BY TypeParts
<1>2. TurnInv /\ "free" \notin Volumes /\ "pass" \notin Volumes
  BY LockNames DEF ReportInv
<1>3. CASE UNCHANGED <<up, lock, passVars, placing>>
  BY <1>3, <1>1, <1>2
<1>4. ASSUME NEW v \in Volumes, StageFetch(v) PROVE TurnInv'
  <2>1. placing' # Idle
    BY <1>4, PlacementBegins, TypeParts DEF StageFetch, StagePlaces, RemoteType
  <2>2. v \in Volumes /\ PodOf(v) /\ call[v] # "none"
    BY <1>4 DEF PodInv, StageFetch, StagePlaces, FetchBegins
  <2> QED
    BY <1>4, <2>1, <2>2, <1>2 DEF StageFetch, StagePlaces, FetchBegins, PodOf, CallOf
<1>5. ASSUME NEW v \in Volumes, StageStale(v) PROVE TurnInv'
  <2>1. placing' # Idle
    BY <1>5, PlacementBegins, TypeParts DEF StageStale, StagePlaces, RemoteType
  <2>2. v \in Volumes /\ PodOf(v) /\ call[v] # "none"
    BY <1>5 DEF PodInv, StageStale, StagePlaces, FetchBegins
  <2> QED
    BY <1>5, <2>1, <2>2, <1>2 DEF StageStale, StagePlaces, FetchBegins, PodOf, CallOf
<1>6. ASSUME NEW v \in Volumes, UnstageClaim(v) PROVE TurnInv'
  BY <1>6, <1>1, <1>2 DEF UnstageClaim, Unfollow, Goto
<1>7. ASSUME NEW t \in Targets, UnpublishInline(t) PROVE TurnInv'
  BY <1>7, <1>1, <1>2 DEF UnpublishInline, Unfollow, Goto
<1>8. ASSUME PlaceStep PROVE TurnInv'
  BY <1>8, <1>2, PlaceStepGoes DEF PlaceStep
<1>9. ASSUME Placed PROVE TurnInv'
  <2>1. placing.of \in Volumes
    BY <1>9, <1>1, PlacementGoes DEF Placed, Placing, PlacingType, Going
  <2>2. /\ up' = up /\ pass' = pass /\ placing.of # "pass"
        /\ \/ lock = placing.of /\ lock' = "free"
           \/ lock = "pass" /\ lock' = lock
    BY <1>9, <2>1, <1>2 DEF Placed
  <2> QED
    BY <2>1, <2>2, <1>2
<1>10. ASSUME PlaceFails PROVE TurnInv'
  <2>1. placing.of \in Volumes
    BY <1>10, <1>1, PlacementGoes DEF PlaceFails, PlacingType, Going
  <2>2. /\ up' = up /\ pass' = pass /\ placing.of # "pass"
        /\ \/ lock = placing.of /\ lock' = "free"
           \/ lock = "pass" /\ lock' = lock
    BY <1>10, <2>1, <1>2 DEF PlaceFails
  <2> QED
    BY <2>1, <2>2, <1>2
<1>11. ASSUME PassBegins PROVE TurnInv'
  BY <1>11, <1>1, <1>2 DEF PassBegins
<1>12. ASSUME NEW v \in Volumes, PassFetches(v) PROVE TurnInv'
  BY <1>12, <1>1, <1>2 DEF PassFetches, Report, Placement
<1>13. ASSUME NEW v \in Volumes, PassFetchFails(v) PROVE TurnInv'
  BY <1>13, <1>1, <1>2 DEF PassFetchFails
<1>14. ASSUME PassEnds PROVE TurnInv'
  BY <1>14, <1>1, <1>2 DEF PassEnds
<1>15. ASSUME Crash PROVE TurnInv'
  BY <1>15, <1>1, <1>2 DEF Crash, Stop
<1>16. ASSUME Reboot PROVE TurnInv'
  BY <1>16, <1>1, <1>2 DEF Reboot, Stop
<1>17. ASSUME Resume PROVE TurnInv'
  BY <1>17, <1>1, <1>2 DEF Resume, RemoveDirectories
<1> HIDE DEF TurnInv, remoteVars, treeVars, recordVars, kubeletVars, memoryVars,
             reportVars, callVars, passVars
<1> QED
  BY <1>3, <1>4, <1>5, <1>6, <1>7, <1>8, <1>9, <1>10, <1>11, <1>12, <1>13, <1>14,
     <1>15, <1>16, <1>17, UpFrame, LockFrame, PassFrame, PlacingFrame

\* A step of a placement keeps the files it has placed so far.
LEMMA PlaceStepKeepsPlace ==
    ASSUME TypeOK, PlaceInv, PlaceStep
    PROVE  PlaceInv'
<1> USE DEF treeVars
<1>1. TreeType /\ PlacingType
  BY TypeParts
<1>2. PICK v \in Volumes, c \in Commits, todo \in SUBSET Entries :
        v = placing.of /\ c = placing.commit /\ todo = placing.todo
  BY PlaceStepGoes DEF Going
<1>3. /\ placing \in Going /\ placing # Idle /\ placing' \in Going /\ placing' # Idle
      /\ placing'.of = v /\ placing'.commit = c
  BY <1>2, PlaceStepGoes
<1>4. Content[c] \in [Entries -> Blobs] /\ files[v] \in [Entries -> Blobs]
  BY <1>1, Contents DEF TreeType
<1> DEFINE
      Goal == /\ placing'.pc = "remove" =>
                   placing'.todo # {} /\ \A e \in placing'.todo : Content[c][e] = Absent
              /\ placing'.pc = "remove" /\ v \in tree' =>
                   \A e \in Entries \ placing'.todo :
                      Content[c][e] = Absent => files'[v][e] = Absent
              /\ placing'.pc = "rename" /\ v \in tree' =>
                   \A e \in Entries \ placing'.todo : files'[v][e] = Content[c][e]
              /\ placing'.pc = "record" /\ v \in tree' => files'[v] = Content[c]
<1>5. SUFFICES Goal
  BY <1>3 DEF PlaceInv
<1>6. ASSUME NEW left \in SUBSET Entries, Removing(left),
             v \in tree => v \in tree', files' \in [Volumes -> [Entries -> Blobs]],
             \A e \in left : Content[c][e] = Absent,
             \A e \in Entries \ left : Content[c][e] = Absent => files'[v][e] = Absent
      PROVE  Goal
  <2>1. CASE left # {}
    <3>1. placing'.pc = "remove" /\ placing'.todo = left
      BY <2>1, <1>6, <1>3, PlacementContinues DEF Removing
    <3> QED
      BY <3>1, <2>1, <1>6
  <2>2. CASE left = {}
    <3> DEFINE come == { e \in Entries : Content[c][e] # Absent }
    <3>1. come \in SUBSET Entries /\ Continue("rename", come)
      BY <2>2, <1>6, <1>2 DEF Removing
    <3>2. placing'.pc = "rename" /\ placing'.todo = come
      BY <3>1, <1>3, PlacementContinues
    <3> QED
      BY <3>2, <1>6, <2>2
  <2> QED
    BY <2>1, <2>2
<1>7. CASE Checkout
  <2>1. placing'.pc = "arrive"
    BY <1>7, <1>3, PlacementContinues DEF Checkout
  <2> QED
    BY <2>1
<1>8. CASE ArriveWhole
  <2>1. placing'.pc = "record"
    BY <1>8, <1>3, PlacementContinues DEF ArriveWhole
  <2>2. files' = [files EXCEPT ![v] = Content[c]]
    BY <1>8, <1>2 DEF ArriveWhole
  <2> QED
    BY <2>1, <2>2, <1>1 DEF TreeType
<1>9. CASE ArriveInside
  <2> DEFINE gone == { e \in Entries : files[v][e] # Absent /\ Content[c][e] = Absent }
  <2>1. Removing(gone) /\ UNCHANGED <<tree, files>>
    BY <1>9, <1>2 DEF ArriveInside
  <2>2. /\ gone \in SUBSET Entries /\ \A e \in gone : Content[c][e] = Absent
        /\ \A e \in Entries \ gone : Content[c][e] = Absent => files'[v][e] = Absent
    BY <2>1
  <2> HIDE DEF gone, Goal
  <2> QED
    BY <2>1, <2>2, <1>1, <1>6 DEF TreeType
<1>10. CASE RemoveEntry
  <2> DEFINE e == First(todo)
  <2>1. /\ placing.pc = "remove" /\ v \in tree /\ UNCHANGED tree
        /\ Write(v, e, Absent) /\ Removing(todo \ {e})
    BY <1>10, <1>2 DEF RemoveEntry, Placing
  <2> HIDE DEF e
  <2>2. /\ \A f \in todo : Content[c][f] = Absent
        /\ \A f \in Entries \ todo : Content[c][f] = Absent => files[v][f] = Absent
    BY <2>1, <1>2, <1>3 DEF PlaceInv
  <2>3. files' = [files EXCEPT ![v][e] = Absent]
    BY <2>1 DEF Write
  <2>4. files' \in [Volumes -> [Entries -> Blobs]]
    BY <2>3, <1>1, Contents DEF TreeType
  <2>5. \A f \in Entries : files'[v][f] = IF f = e THEN Absent ELSE files[v][f]
    BY <2>3, <1>1 DEF TreeType
  <2>6. \A f \in Entries \ (todo \ {e}) : Content[c][f] = Absent => files'[v][f] = Absent
    BY <2>2, <2>5
  <2>7. todo \ {e} \in SUBSET Entries /\ \A f \in todo \ {e} : Content[c][f] = Absent
    BY <2>2
  <2> HIDE DEF Goal
  <2> QED
    BY <2>1, <2>4, <2>6, <2>7, <1>6
<1>11. CASE RemoveKind
  <2> DEFINE e == First(todo)
  <2>1. placing.pc = "rename" /\ v \in tree /\ UNCHANGED placing /\ Write(v, e, Absent)
        /\ e \in todo
    BY <1>11, <1>2, FirstIsOne DEF RemoveKind, Placing
  <2> HIDE DEF e
  <2>2. \A f \in Entries \ todo : files[v][f] = Content[c][f]
    BY <2>1, <1>2, <1>3 DEF PlaceInv
  <2>3. \A f \in Entries \ todo : files'[v][f] = files[v][f]
    BY <2>1, <1>1 DEF Write, TreeType
  <2> QED
    BY <2>1, <2>2, <2>3, <1>2
<1>12. CASE RenameEntry
  <2> DEFINE e == First(todo)
  <2>1. /\ placing.pc = "rename" /\ v \in tree /\ Continue("rename", todo \ {e})
        /\ Write(v, e, Content[c][e])
    BY <1>12, <1>2 DEF RenameEntry, Placing
  <2> HIDE DEF e
  <2>2. \A f \in Entries \ todo : files[v][f] = Content[c][f]
    BY <2>1, <1>2, <1>3 DEF PlaceInv
  <2>3. \A f \in Entries : files'[v][f] = IF f = e THEN Content[c][e] ELSE files[v][f]
    BY <2>1, <1>1 DEF Write, TreeType
  <2>4. placing'.pc = "rename" /\ placing'.todo = todo \ {e}
    BY <2>1, <1>3, PlacementContinues
  <2> QED
    BY <2>2, <2>3, <2>4
<1>13. CASE RenamedAll
  <2>1. placing.pc = "rename" /\ todo = {} /\ UNCHANGED <<tree, files>>
    BY <1>13, <1>2 DEF RenamedAll, Placing
  <2>2. v \in tree => \A f \in Entries : files[v][f] = Content[c][f]
    BY <2>1, <1>2, <1>3 DEF PlaceInv
  <2>3. v \in tree => files[v] = Content[c]
    BY <2>2, <1>4
  <2>4. placing'.pc = "record"
    BY <1>13, <1>3, PlacementContinues DEF RenamedAll
  <2> QED
    BY <2>1, <2>3, <2>4
<1> QED
  BY <1>7, <1>8, <1>9, <1>10, <1>11, <1>12, <1>13 DEF PlaceStep

\* Every step keeps what the running placement has done to the files.
LEMMA PlaceKept ==
    ASSUME TypeOK,
           ReportInv,
           [Next]_vars
    PROVE  PlaceInv'
<1> USE DEF remoteVars, treeVars, recordVars, kubeletVars, memoryVars, reportVars,
            callVars, passVars
<1>1. RemoteType /\ PlacingType /\ TreeType
  BY TypeParts
<1>2. PlaceInv
  BY DEF ReportInv
<1>3. CASE UNCHANGED <<placing, treeVars>>
  BY <1>3, <1>1, <1>2 DEF PlaceInv
<1>4. ASSUME NEW v \in Volumes, StageFetch(v) PROVE PlaceInv'
  <2>1. placing' = placing \/ (placing' # Idle /\ placing'.pc = "checkout")
    BY <1>4, <1>1, PlacementBegins DEF StageFetch, StagePlaces, RemoteType
  <2> QED
    BY <1>4, <2>1, <1>2 DEF StageFetch, StagePlaces, PlaceInv
<1>5. ASSUME NEW v \in Volumes, StageStale(v) PROVE PlaceInv'
  <2>1. placing' = placing \/ (placing' # Idle /\ placing'.pc = "checkout")
    BY <1>5, <1>1, PlacementBegins DEF StageStale, StagePlaces, RemoteType
  <2> QED
    BY <1>5, <2>1, <1>2 DEF StageStale, StagePlaces, PlaceInv
<1>6. ASSUME NEW v \in Volumes, CallFailed(v) PROVE PlaceInv'
  BY <1>6, <1>1, <1>2
     DEF CallFailed, RemoveDirectories, PlaceInv, TreeType, PlacingType, Going
<1>7. ASSUME NEW v \in Volumes, RemoveVolume(v) PROVE PlaceInv'
  BY <1>7, <1>1, <1>2
     DEF RemoveVolume, RemoveDirectories, PlaceInv, TreeType, PlacingType, Going
<1>8. ASSUME PlaceStep PROVE PlaceInv'
  BY <1>8, <1>2, PlaceStepKeepsPlace
<1>9. ASSUME Placed PROVE PlaceInv'
  BY <1>9 DEF Placed, PlaceInv
<1>10. ASSUME PlaceFails PROVE PlaceInv'
  BY <1>10 DEF PlaceFails, PlaceInv
<1>11. ASSUME NEW v \in Volumes, PassFetches(v) PROVE PlaceInv'
  <2>1. placing' = placing \/ placing' = Placement(v, remote, FALSE)
    BY <1>11 DEF PassFetches
  <2>2. Placement(v, remote, FALSE) # Idle
        /\ Placement(v, remote, FALSE).pc = "checkout"
    BY <1>1, PlacementBegins DEF RemoteType
  <2>3. placing' = placing \/ (placing' # Idle /\ placing'.pc = "checkout")
    BY <2>1, <2>2
  <2> QED
    BY <1>11, <2>3, <1>2 DEF PassFetches, PlaceInv
<1>12. ASSUME Crash PROVE PlaceInv'
  BY <1>12 DEF Crash, Stop, PlaceInv
<1>13. ASSUME Reboot PROVE PlaceInv'
  BY <1>13 DEF Reboot, Stop, PlaceInv
<1>14. ASSUME Resume PROVE PlaceInv'
  BY <1>14, <1>1, <1>2
     DEF Resume, RemoveDirectories, PlaceInv, TreeType, PlacingType, Going
<1> HIDE DEF remoteVars, treeVars, recordVars, kubeletVars, memoryVars, reportVars,
             callVars, passVars
<1> QED
  BY <1>3, <1>4, <1>5, <1>6, <1>7, <1>8, <1>9, <1>10, <1>11, <1>12, <1>13, <1>14,
     PlacingFrame, TreeFrame

\* The volumes of a stage are not the loop's yet.
LEMMA StagedIsNotHeld ==
    ASSUME TypeOK, PodInv, NEW v \in Volumes
    PROVE  /\ Staged(v) => v \notin held /\ v \notin followed
           /\ call[v] \in { "none", "lock", "place", "failed", "remove" } => ~Staged(v)
           /\ call[v] \in { "lock", "place", "failed", "remove" } => v \notin held /\ up
           /\ lock = v => call[v] = "place"
           /\ v \in held => up
           /\ ~up => call[v] = "none"
<1>1. PodOf(v) /\ followed \subseteq held
  BY TypeParts DEF PodInv, HeldType
<1>2. (v \in Claims /\ v \notin Inlines) \/ (v \in Inlines /\ v \notin Claims)
  BY Owners
<1> QED
  BY <1>1, <1>2 DEF PodOf, CallOf, InlineCall, HeldOf, Staged, Staging

\* What a placement that ends leaves of its tree.
LEMMA EndedHalf ==
    ASSUME TypeOK, ReportInv, NEW v \in Volumes, half' = LeftHalf, placing' = Idle,
           UNCHANGED <<treeVars, remote>>
    PROVE  /\ ~Works(v) => half'[v] = half[v]
           /\ FilesOf(v)'
<1>1. HalfType /\ PlacingType /\ FilesOf(v)
  BY TypeParts DEF ReportInv, ReportOf
<1>2. ~Inside(v) => half'[v] = half[v]
  BY <1>1 DEF LeftHalf, HalfType, Inside, Works
<1>3. Inside(v) => half'[v] = IF half[v] = "moved" \/ remote # placing.commit
                              THEN "moved" ELSE "half"
  BY <1>1 DEF LeftHalf, HalfType, Inside, Works
<1>4. ~Inside(v)'
  BY DEF Inside, Works
<1>5. ASSUME Inside(v) PROVE FilesOf(v)'
  <2>1. UNCHANGED <<placed, tree, files, remote>>
    BY DEF treeVars
  <2>2. CASE half'[v] = "moved"
    BY <1>1, <2>1, <2>2 DEF FilesOf
  <2>3. CASE half'[v] # "moved"
    <3>1. half'[v] = "half" /\ half[v] # "moved" /\ remote = placing.commit
      BY <1>3, <1>5, <2>3
    <3> QED
      BY <1>1, <2>1, <3>1 DEF FilesOf
  <2> QED
    BY <2>2, <2>3
<1>6. ASSUME ~Inside(v) PROVE FilesOf(v)'
  BY <1>1, <1>2, <1>4, <1>6 DEF FilesOf, treeVars
<1> QED
  BY <1>2, <1>5, <1>6 DEF Inside

\* Between the steps of a placement the tree is whole, or is marked half placed.
LEMMA PlaceStepFiles ==
    ASSUME TypeOK, ReportInv, PlaceStep, NEW v \in Volumes, Works(v)
    PROVE  FilesOf(v)'
<1> USE DEF treeVars
<1>1. TreeType /\ FilesOf(v) /\ PlaceInv
  BY TypeParts DEF ReportInv, ReportOf
<1>2. PICK c \in Commits, todo \in SUBSET Entries :
        c = placing.commit /\ todo = placing.todo
  BY PlaceStepGoes DEF Going
<1>3. /\ placing \in Going /\ placing # Idle /\ placing' \in Going /\ placing' # Idle
      /\ placing.of = v /\ placing'.of = v /\ placing'.commit = c
  BY <1>2, PlaceStepGoes DEF Works
<1>4. Content[c] \in [Entries -> Blobs] /\ files[v] \in [Entries -> Blobs]
  BY <1>1, Contents DEF TreeType
<1>5. UNCHANGED <<placed, remote, half>>
  <2>1. UNCHANGED <<remote, half>>
    BY DEF PlaceStep, remoteVars
  <2>2. UNCHANGED placed
    BY DEF PlaceStep, Checkout, ArriveWhole, ArriveInside, RemoveEntry, RemoveKind,
           RenameEntry, RenamedAll
  <2> QED
    BY <2>1, <2>2
<1>6. CASE ArriveWhole
  <2>1. v \notin tree
    BY <1>6, <1>3 DEF ArriveWhole
  <2> QED
    BY <2>1, <1>1, <1>5 DEF FilesOf
<1>7. ASSUME v \in tree => v \in tree',
             files'[v] = files[v]
               \/ (Inside(v) /\ (files[v] = Content[c] => files'[v] = files[v])),
             Inside(v) => Inside(v)'
      PROVE  FilesOf(v)'
  BY <1>1, <1>2, <1>3, <1>5, <1>7 DEF FilesOf, Inside, Works
<1>8. CASE Checkout
  <2>1. ~Inside(v) /\ UNCHANGED <<tree, files>>
    BY <1>8 DEF Checkout, Placing, Inside
  <2> QED
    BY <2>1, <1>7
<1>9. CASE ArriveInside
  <2>1. ~Inside(v) /\ UNCHANGED <<tree, files>>
    BY <1>9 DEF ArriveInside, Placing, Inside
  <2> QED
    BY <2>1, <1>7
<1>10. CASE RemoveEntry
  <2> DEFINE e == First(todo)
  <2>1. /\ placing.pc = "remove" /\ v \in tree /\ UNCHANGED tree
        /\ Write(v, e, Absent) /\ Removing(todo \ {e})
    BY <1>10, <1>2, <1>3 DEF RemoveEntry, Placing
  <2>2. todo # {} => e \in todo
    BY FirstIsOne
  <2> HIDE DEF e
  <2>3. files[v] = Content[c] /\ e \in todo => files[v][e] = Absent
    BY <2>1, <1>1, <1>2, <1>3 DEF PlaceInv
  <2>4. files'[v] = [files[v] EXCEPT ![e] = Absent]
    BY <2>1, <1>1 DEF Write, TreeType
  <2>5. placing'.pc \in { "remove", "rename" }
    <3> DEFINE come == { f \in Entries : Content[c][f] # Absent }
    <3>1. \/ todo \ {e} \in SUBSET Entries /\ Continue("remove", todo \ {e})
          \/ come \in SUBSET Entries /\ Continue("rename", come)
      BY <2>1, <1>2 DEF Removing
    <3> QED
      BY <3>1, <1>3, PlacementContinues
  <2>6. Inside(v) /\ Inside(v)'
    BY <2>1, <2>5, <1>3 DEF Inside, Works
  <2>7. files[v] = Content[c] => files'[v] = files[v]
    <3>1. todo # {}
      BY <2>1, <1>1, <1>2, <1>3 DEF PlaceInv
    <3> QED
      BY <3>1, <2>2, <2>3, <2>4, <1>4
  <2> QED
    BY <2>1, <2>6, <2>7, <1>7
<1>11. CASE RemoveKind
  <2> DEFINE e == First(todo)
  <2>1. /\ placing.pc = "rename" /\ UNCHANGED <<tree, placing>>
        /\ Differs(c, e, v)
    BY <1>11, <1>2, <1>3 DEF RemoveKind, Placing
  <2> HIDE DEF e
  <2>2. files[v] # Content[c]
    BY <2>1 DEF Differs
  <2>3. Inside(v) /\ Inside(v)'
    BY <2>1, <1>3 DEF Inside, Works
  <2> QED
    BY <2>1, <2>2, <2>3, <1>7
<1>12. CASE RenameEntry
  <2> DEFINE e == First(todo)
  <2>1. /\ placing.pc = "rename" /\ UNCHANGED tree /\ Continue("rename", todo \ {e})
        /\ Write(v, e, Content[c][e])
    BY <1>12, <1>2, <1>3 DEF RenameEntry, Placing
  <2> HIDE DEF e
  <2>2. files'[v] = [files[v] EXCEPT ![e] = Content[c][e]]
    BY <2>1, <1>1 DEF Write, TreeType
  <2>3. placing'.pc = "rename"
    <3>1. todo \ {e} \in SUBSET Entries
      OBVIOUS
    <3> QED
      BY <2>1, <3>1, <1>3, PlacementContinues
  <2>4. Inside(v) /\ Inside(v)'
    BY <2>1, <2>3, <1>3 DEF Inside, Works
  <2>5. files[v] = Content[c] => files'[v] = files[v]
    BY <2>2, <1>4
  <2> QED
    BY <2>1, <2>4, <2>5, <1>7
<1>13. CASE RenamedAll
  <2>1. placing.pc = "rename" /\ UNCHANGED <<tree, files>>
    BY <1>13, <1>2 DEF RenamedAll, Placing
  <2>2. placing'.pc = "record"
    BY <1>13, <1>3, PlacementContinues DEF RenamedAll
  <2>3. Inside(v) /\ Inside(v)'
    BY <2>1, <2>2, <1>3 DEF Inside, Works
  <2> QED
    BY <2>1, <2>3, <1>7
<1> QED
  BY <1>6, <1>8, <1>9, <1>10, <1>11, <1>12, <1>13 DEF PlaceStep

\* No step leaves a report of a commit the tree does not hold.
LEMMA ReportsKept ==
    ASSUME TypeOK,
           PodInv,
           ReportInv,
           [Next]_vars
    PROVE  \A w \in Volumes : ReportOf(w)'
<1> USE DEF remoteVars, treeVars, recordVars, kubeletVars, memoryVars, reportVars,
            callVars, passVars
<1>1. /\ RemoteType /\ TreeType /\ HalfType /\ ReportType /\ CallType /\ LockType
      /\ PlacingType /\ HeldType
  BY TypeParts
<1>2. TurnInv /\ PlaceInv
  BY DEF ReportInv
<1>3. \A w \in Volumes : ReportOf(w)
  BY DEF ReportInv
<1>4. CASE UNCHANGED <<remoteVars, treeVars, up, memoryVars, reportVars, callVars,
     passVars, placing, half, kubeletVars>>
  <2>1. ASSUME NEW w \in Volumes PROVE Left(w)
    BY <1>4 DEF Left, Staged, Works
  <2> QED
    BY <2>1, <1>3, LeftReports
<1>5. ASSUME NEW v \in Volumes, StageClaim(v) PROVE \A w \in Volumes : ReportOf(w)'
  <2>1. ASSUME NEW w \in Volumes PROVE Left(w)
    BY <1>5, <1>1, <2>1, Owners DEF Left, Staged, Works, StageClaim, Goto, CallType
  <2> QED
    BY <2>1, <1>3, LeftReports
<1>6. ASSUME NEW v \in Volumes, StageFetch(v) PROVE \A w \in Volumes : ReportOf(w)'
  <2>1. ~\E w \in Volumes : Works(w)
    BY <1>6, <1>1, LockNames
       DEF StageFetch, StagePlaces, FetchBegins, PlacingType, Going, Works
  <2>2. /\ placing' # Idle /\ placing'.pc = "checkout" /\ placing'.of = v
    BY <1>6, <1>1, PlacementBegins DEF StageFetch, StagePlaces, RemoteType
  <2>3. ASSUME NEW w \in Volumes \ {v} PROVE Left(w)
    BY <1>6, <1>1, <2>1, <2>2, <2>3
       DEF Left, Staged, Works, StageFetch, StagePlaces, FetchBegins, Goto, CallType,
           ReportType
  <2>4. ReportOf(v)'
    <3>1. /\ call[v] = "lock" /\ call'[v] = "place" /\ standing'[v] = 0 /\ v \notin fresh'
          /\ UNCHANGED <<tree, files, placed, half, held, remote>>
      BY <1>6, <1>1 DEF StageFetch, StagePlaces, FetchBegins, Goto, CallType, ReportType
    <3>2. ~Inside(v) /\ ~Inside(v)' /\ ~Staged(v)' /\ v \notin held'
      BY <2>1, <2>2, <3>1, StagedIsNotHeld DEF Inside, Works, Staged
    <3> QED
      BY <3>1, <3>2, <1>3 DEF ReportOf, FilesOf, StagedOf, StandOf
  <2> QED
    BY <2>3, <2>4, <1>3, LeftReports
<1>7. ASSUME NEW v \in Volumes, StageStale(v) PROVE \A w \in Volumes : ReportOf(w)'
  <2>1. ~\E w \in Volumes : Works(w)
    BY <1>7, <1>1, LockNames
       DEF StageStale, StagePlaces, FetchBegins, PlacingType, Going, Works
  <2>2. /\ placing' # Idle /\ placing'.pc = "checkout" /\ placing'.of = v
    BY <1>7, <1>1, PlacementBegins DEF StageStale, StagePlaces, RemoteType
  <2>3. ASSUME NEW w \in Volumes \ {v} PROVE Left(w)
    BY <1>7, <1>1, <2>1, <2>2, <2>3
       DEF Left, Staged, Works, StageStale, StagePlaces, FetchBegins, Goto, CallType,
           ReportType
  <2>4. ReportOf(v)'
    <3>1. /\ call[v] = "lock" /\ call'[v] = "place" /\ standing'[v] = 0 /\ v \notin fresh'
          /\ UNCHANGED <<tree, files, placed, half, held, remote>>
      BY <1>7, <1>1 DEF StageStale, StagePlaces, FetchBegins, Goto, CallType, ReportType
    <3>2. ~Inside(v) /\ ~Inside(v)' /\ ~Staged(v)' /\ v \notin held'
      BY <2>1, <2>2, <3>1, StagedIsNotHeld DEF Inside, Works, Staged
    <3> QED
      BY <3>1, <3>2, <1>3 DEF ReportOf, FilesOf, StagedOf, StandOf
  <2> QED
    BY <2>3, <2>4, <1>3, LeftReports
<1>8. ASSUME NEW v \in Volumes, StageRefused(v) PROVE \A w \in Volumes : ReportOf(w)'
  <2>1. ASSUME NEW w \in Volumes \ {v} PROVE Left(w)
    BY <1>8, <1>1, <2>1
       DEF Left, Staged, Works, StageRefused, FetchBegins, Goto, CallType, ReportType
  <2>2. ReportOf(v)'
    <3>1. /\ call[v] = "lock" /\ call'[v] = "failed" /\ standing'[v] = 0
          /\ v \notin fresh'
          /\ UNCHANGED <<tree, files, placed, half, held, remote, placing>>
      BY <1>8, <1>1 DEF StageRefused, FetchBegins, Goto, CallType, ReportType
    <3>2. ~Staged(v)' /\ v \notin held'
      BY <3>1, StagedIsNotHeld DEF Staged
    <3> QED
      BY <3>1, <3>2, <1>3 DEF ReportOf, FilesOf, StagedOf, StandOf, Inside, Works
  <2> QED
    BY <2>1, <2>2, <1>3, LeftReports
<1>9. ASSUME NEW v \in Volumes, CallFailed(v) PROVE \A w \in Volumes : ReportOf(w)'
  <2>1. ASSUME NEW w \in Volumes \ {v} PROVE Left(w)
    BY <1>9, <1>1, <2>1
       DEF Left, Staged, Works, CallFailed, RemoveDirectories, Done, Goto, CallType,
           TreeType, HalfType
  <2>2. ReportOf(v)'
    <3>1. /\ call[v] = "failed" /\ call'[v] = "none" /\ placed'[v] = 0
          /\ UNCHANGED <<standing, fresh, held, up>>
      BY <1>9, <1>1 DEF CallFailed, RemoveDirectories, Done, Goto, CallType
    <3>2. ~Staged(v)' /\ v \notin held'
      BY <3>1, StagedIsNotHeld DEF Staged
    <3> QED
      BY <3>1, <3>2, <1>3 DEF ReportOf, FilesOf, StagedOf, StandOf
  <2> QED
    BY <2>1, <2>2, <1>3, LeftReports
<1>10. ASSUME NEW v \in Volumes, Bind(v) PROVE \A w \in Volumes : ReportOf(w)'
  <2>1. ASSUME NEW w \in Volumes PROVE Left(w)
    BY <1>10, <1>1, <2>1, Owners DEF Left, Staged, Works, Bind, Goto, NoFault, CallType
  <2> QED
    BY <2>1, <1>3, LeftReports
<1>11. ASSUME NEW v \in Volumes, BindFails(v) PROVE \A w \in Volumes : ReportOf(w)'
  <2>1. ASSUME NEW w \in Volumes PROVE Left(w)
    BY <1>11, <1>1, <2>1, Owners
       DEF Left, Staged, Works, BindFails, Done, Goto, Fault, CallType
  <2> QED
    BY <2>1, <1>3, LeftReports
<1>12. ASSUME NEW v \in Volumes, Record(v) PROVE \A w \in Volumes : ReportOf(w)'
  <2>1. ASSUME NEW w \in Volumes PROVE Left(w)
    BY <1>12, <1>1, <2>1, Owners
       DEF Left, Staged, Works, Record, Goto, Fault, NoFault, CallType
  <2> QED
    BY <2>1, <1>3, LeftReports
<1>13. ASSUME NEW v \in Volumes, Rewrite(v) PROVE \A w \in Volumes : ReportOf(w)'
  <2>1. ASSUME NEW w \in Volumes PROVE Left(w)
    BY <1>13, <1>1, <2>1, Owners
       DEF Left, Staged, Works, Rewrite, Done, Goto, Fault, NoFault, CallType
  <2> QED
    BY <2>1, <1>3, LeftReports
<1>14. ASSUME NEW v \in Volumes, Forget(v) PROVE \A w \in Volumes : ReportOf(w)'
  <2>1. ASSUME NEW w \in Volumes PROVE Left(w)
    BY <1>14, <1>1, <2>1, Owners
       DEF Left, Staged, Works, Forget, Done, Goto, Fault, NoFault, CallType
  <2> QED
    BY <2>1, <1>3, LeftReports
<1>15. ASSUME NEW v \in Volumes, Hold(v) PROVE \A w \in Volumes : ReportOf(w)'
  <2>1. ASSUME NEW w \in Volumes PROVE Left(w)
    BY <1>15, <1>1, <2>1, Owners
       DEF Left, Staged, Works, Hold, Follow, Done, Goto, CallType
  <2> QED
    BY <2>1, <1>3, LeftReports
<1>16. ASSUME NEW v \in Volumes, Unmount(v) PROVE \A w \in Volumes : ReportOf(w)'
  <2>1. ASSUME NEW w \in Volumes PROVE Left(w)
    BY <1>16, <1>1, <2>1, Owners DEF Left, Staged, Works, Unmount, Done, Goto, CallType
  <2> QED
    BY <2>1, <1>3, LeftReports
<1>17. ASSUME NEW v \in Volumes, UnmountFails(v) PROVE \A w \in Volumes : ReportOf(w)'
  <2>1. ASSUME NEW w \in Volumes PROVE Left(w)
    BY <1>17, <1>1, <2>1, Owners
       DEF Left, Staged, Works, UnmountFails, Done, Goto, Fault, CallType
  <2> QED
    BY <2>1, <1>3, LeftReports
<1>18. ASSUME NEW v \in Volumes, UnstageClaim(v) PROVE \A w \in Volumes : ReportOf(w)'
  <2>1. ASSUME NEW w \in Volumes PROVE Left(w)
    BY <1>18, <1>1, <2>1, Owners
       DEF Left, Staged, Works, UnstageClaim, Unfollow, Goto, CallType
  <2> QED
    BY <2>1, <1>3, LeftReports
<1>19. ASSUME NEW v \in Volumes, RemoveVolume(v) PROVE \A w \in Volumes : ReportOf(w)'
  <2>1. ASSUME NEW w \in Volumes \ {v} PROVE Left(w)
    BY <1>19, <1>1, <2>1
       DEF Left, Staged, Works, RemoveVolume, RemoveDirectories, Done, Goto, CallType,
           TreeType, HalfType
  <2>2. ReportOf(v)'
    <3>1. /\ call[v] = "remove" /\ call'[v] = "none" /\ placed'[v] = 0
          /\ UNCHANGED <<standing, fresh, held, up>>
      BY <1>19, <1>1 DEF RemoveVolume, RemoveDirectories, Done, Goto, CallType
    <3>2. ~Staged(v)' /\ v \notin held'
      BY <3>1, StagedIsNotHeld DEF Staged
    <3> QED
      BY <3>1, <3>2, <1>3 DEF ReportOf, FilesOf, StagedOf, StandOf
  <2> QED
    BY <2>1, <2>2, <1>3, LeftReports
<1>20. ASSUME NEW t \in Targets, PublishAgain(t) PROVE \A w \in Volumes : ReportOf(w)'
  <2>1. ASSUME NEW w \in Volumes PROVE Left(w)
    BY <1>20, <1>1, <2>1, Owners DEF Left, Staged, Works, PublishAgain, CallType
  <2> QED
    BY <2>1, <1>3, LeftReports
<1>21. ASSUME NEW t \in Targets, PublishInline(t) PROVE \A w \in Volumes : ReportOf(w)'
  <2>1. ASSUME NEW w \in Volumes PROVE Left(w)
    BY <1>21, <1>1, <2>1, Owners DEF Left, Staged, Works, PublishInline, Goto, CallType
  <2> QED
    BY <2>1, <1>3, LeftReports
<1>22. ASSUME NEW t \in Targets, PublishClaim(t) PROVE \A w \in Volumes : ReportOf(w)'
  <2>1. ASSUME NEW w \in Volumes PROVE Left(w)
    BY <1>22, <1>1, <2>1, Owners DEF Left, Staged, Works, PublishClaim, Goto, CallType
  <2> QED
    BY <2>1, <1>3, LeftReports
<1>23. ASSUME NEW t \in Targets, UnpublishClaim(t) PROVE \A w \in Volumes : ReportOf(w)'
  <2>1. ASSUME NEW w \in Volumes PROVE Left(w)
    BY <1>23, <1>1, <2>1, Owners DEF Left, Staged, Works, UnpublishClaim, Goto, CallType
  <2> QED
    BY <2>1, <1>3, LeftReports
<1>24. ASSUME NEW t \in Targets, UnpublishInline(t) PROVE \A w \in Volumes : ReportOf(w)'
  <2>1. ASSUME NEW w \in Volumes PROVE Left(w)
    BY <1>24, <1>1, <2>1, Owners
       DEF Left, Staged, Works, UnpublishInline, Unfollow, Goto, CallType
  <2> QED
    BY <2>1, <1>3, LeftReports
<1>25. ASSUME PlaceStep PROVE \A w \in Volumes : ReportOf(w)'
  <2>1. PICK v \in Volumes : Works(v)
    BY <1>25, PlaceStepGoes DEF Works, Going
  <2>2. /\ placing # Idle /\ placing' # Idle /\ placing.of = v /\ placing'.of = v
        /\ UNCHANGED <<remote, up, half, standing, fresh, trouble, held, call, pass>>
        /\ UNCHANGED placed
    <3>1. UNCHANGED placed
      BY <1>25
         DEF PlaceStep, Checkout, ArriveWhole, ArriveInside, RemoveEntry, RemoveKind,
                RenameEntry, RenamedAll
    <3> QED
      BY <1>25, <2>1, <3>1, PlaceStepGoes DEF PlaceStep, Works
  <2>3. ASSUME NEW w \in Volumes \ {v} PROVE Left(w)
    <3>1. files'[w] = files[w] /\ (w \in tree' <=> w \in tree)
      BY <1>25, <1>1, <2>2, <2>3
         DEF PlaceStep, Checkout, ArriveWhole, ArriveInside, RemoveEntry, RemoveKind,
             RenameEntry, RenamedAll, Write, TreeType
    <3> QED
      BY <2>2, <2>3, <3>1 DEF Left, Staged, Works
  <2>4. FilesOf(v)'
    BY <1>25, <2>1, PlaceStepFiles
  <2>5. StagedOf(v)' /\ StandOf(v)'
    BY <2>1, <2>2, <1>3 DEF ReportOf, StagedOf, StandOf, Staged
  <2> QED
    BY <2>3, <2>4, <2>5, <1>3, LeftReports DEF ReportOf
<1>26. ASSUME Placed PROVE \A w \in Volumes : ReportOf(w)'
  <2>1. PICK v \in Volumes, c \in Commits : Works(v) /\ c = placing.commit
    BY <1>26, <1>1 DEF Placed, Placing, PlacingType, Going, Works
  <2>2. /\ placing # Idle /\ placing.of = v /\ placing.pc = "record" /\ v \in tree
        /\ placing' = Idle /\ UNCHANGED <<remote, up, tree, files, held, pass>>
        /\ placed' = [placed EXCEPT ![v] = c] /\ half' = [half EXCEPT ![v] = "no"]
        /\ standing' = [standing EXCEPT ![v] = c] /\ fresh' = fresh \cup {v}
        /\ \A w \in Volumes \ {v} : w \in trouble' <=> w \in trouble
    BY <1>26, <2>1 DEF Placed, Placing, Report, Works
  <2>3. \/ lock = v /\ call' =
              [call EXCEPT ![v] = IF v \in Claims THEN "record" ELSE "bind"]
        \/ lock = "pass" /\ UNCHANGED call
    BY <1>26, <2>2 DEF Placed, Goto
  <2>4. ASSUME NEW w \in Volumes \ {v} PROVE Left(w)
    BY <2>2, <2>3, <2>4, <1>1
       DEF Left, Staged, Works, CallType, TreeType, HalfType, ReportType
  <2>5. files[v] = Content[c] /\ c # 0
    BY <2>1, <2>2, <1>2, TreeAssumption DEF PlaceInv
  <2>6. placed'[v] = c /\ standing'[v] = c /\ half'[v] = "no"
    BY <2>2, <1>1 DEF TreeType, HalfType, ReportType
  <2>7. FilesOf(v)'
    BY <2>2, <2>5, <2>6 DEF FilesOf
  <2>8. Staged(v)' => v \notin pass
    <3>1. lock = "pass" => ~Staged(v)'
      BY <2>1, <2>3, <1>3, LockNames DEF ReportOf, StagedOf, Staged
    <3>2. lock = v => pass = {}
      BY <1>2, LockNames DEF TurnInv
    <3> QED
      BY <2>3, <3>1, <3>2
  <2>9. up
    BY <2>2, <2>3, <1>2, LockNames DEF TurnInv
  <2>10. StagedOf(v)' /\ StandOf(v)'
    BY <2>2, <2>5, <2>6, <2>8, <2>9 DEF StagedOf, StandOf, Works
  <2> QED
    BY <2>4, <2>7, <2>10, <1>3, LeftReports DEF ReportOf
<1>27. ASSUME PlaceFails PROVE \A w \in Volumes : ReportOf(w)'
  <2>1. PICK v \in Volumes : Works(v)
    BY <1>27, <1>1 DEF PlaceFails, PlacingType, Going, Works
  <2>2. /\ placing # Idle /\ placing.of = v /\ placing' = Idle /\ half' = LeftHalf
        /\ UNCHANGED <<treeVars, remote>>
        /\ UNCHANGED <<up, tree, files, placed, held, pass, standing, fresh>>
    BY <1>27, <2>1 DEF PlaceFails, Works
  <2>3. \/ /\ lock = v /\ call' = [call EXCEPT ![v] = "failed"] /\ UNCHANGED trouble
        \/ lock = "pass" /\ UNCHANGED call /\ trouble' = trouble \cup {v}
    BY <1>27, <2>2 DEF PlaceFails, Goto
  <2>4. ASSUME NEW w \in Volumes \ {v} PROVE Left(w)
    <3>1. ~Works(w) /\ half'[w] = half[w]
      BY <2>2, <2>4, EndedHalf DEF Works
    <3> QED
      BY <2>2, <2>3, <2>4, <3>1, <1>1 DEF Left, Staged, Works, CallType
  <2>5. FilesOf(v)'
    BY <2>2, EndedHalf
  <2>6. StagedOf(v)' /\ StandOf(v)'
    <3>1. ~Staged(v)
      BY <2>1, <1>3 DEF ReportOf, StagedOf
    <3>2. CASE lock = v
      <4>1. call'[v] = "failed" /\ v \notin held
        BY <3>2, <2>3, <1>1, LockNames, StagedIsNotHeld DEF CallType
      <4> QED
        BY <4>1, <2>2, <1>3 DEF ReportOf, StagedOf, StandOf, Staged
    <3>3. CASE lock # v
      BY <3>1, <3>3, <2>2, <2>3, <1>3 DEF ReportOf, StagedOf, StandOf, Staged
    <3> QED
      BY <3>2, <3>3
  <2> QED
    BY <2>4, <2>5, <2>6, <1>3, LeftReports DEF ReportOf
<1>28. ASSUME PassBegins PROVE \A w \in Volumes : ReportOf(w)'
  <2>1. ASSUME NEW w \in Volumes PROVE Left(w)
    BY <1>28, <1>1, <2>1, StagedIsNotHeld DEF Left, Staged, Works, PassBegins
  <2> QED
    BY <2>1, <1>3, LeftReports
<1>29. ASSUME NEW v \in Volumes, PassFetches(v) PROVE \A w \in Volumes : ReportOf(w)'
  <2>1. ~\E w \in Volumes : Works(w)
    BY <1>29 DEF PassFetches, Works
  <2>2. /\ v \in pass /\ pass' = pass \ {v} /\ up
        /\ UNCHANGED <<remote, up, tree, files, placed, half, held, call>>
    BY <1>29, <1>2 DEF PassFetches, TurnInv
  <2>3. \/ /\ standing[v] = remote /\ Report(v, remote, FALSE) /\ UNCHANGED placing
        \/ /\ placing' = Placement(v, remote, FALSE)
           /\ UNCHANGED <<standing, trouble, fresh>>
    BY <1>29 DEF PassFetches
  <2>4. Placement(v, remote, FALSE) # Idle
        /\ Placement(v, remote, FALSE).of = v /\ Placement(v, remote, FALSE).pc = "checkout"
    BY <1>1, PlacementBegins DEF RemoteType
  <2>5. ASSUME NEW w \in Volumes \ {v} PROVE Left(w)
    BY <2>1, <2>2, <2>3, <2>4, <2>5, <1>1 DEF Left, Staged, Works, Report, ReportType
  <2>6. ~Staged(v)' /\ ~Inside(v) /\ ~Inside(v)'
    BY <2>1, <2>2, <2>3, <2>4, <1>3 DEF ReportOf, StagedOf, Staged, Inside, Works
  <2>7. FilesOf(v)'
    BY <2>2, <2>6, <1>3 DEF ReportOf, FilesOf
  <2>8. remote # 0
    BY <1>1, TreeAssumption DEF RemoteType
  <2>9. StagedOf(v)' /\ StandOf(v)'
    BY <2>2, <2>3, <2>6, <2>8, <1>1, <1>3
       DEF ReportOf, StagedOf, StandOf, Report, ReportType
  <2> QED
    BY <2>5, <2>7, <2>9, <1>3, LeftReports DEF ReportOf
<1>30. ASSUME NEW v \in Volumes, PassFetchFails(v) PROVE \A w \in Volumes : ReportOf(w)'
  <2>1. ASSUME NEW w \in Volumes PROVE Left(w)
    BY <1>30, <1>1, <2>1, Owners DEF Left, Staged, Works, PassFetchFails, CallType
  <2> QED
    BY <2>1, <1>3, LeftReports
<1>31. ASSUME PassEnds PROVE \A w \in Volumes : ReportOf(w)'
  <2>1. ASSUME NEW w \in Volumes PROVE Left(w)
    BY <1>31, <1>1, <2>1, Owners DEF Left, Staged, Works, PassEnds, CallType
  <2> QED
    BY <2>1, <1>3, LeftReports
<1>32. ASSUME RemoteMoves PROVE \A w \in Volumes : ReportOf(w)'
  <2>1. ASSUME NEW w \in Volumes PROVE ReportOf(w)'
    <3>1. /\ half'[w] = (IF half[w] = "no" THEN "no" ELSE "moved")
          /\ UNCHANGED <<tree, files, placed, placing, standing, fresh, trouble, held, call,
               pass, up>>
      BY <1>32 DEF RemoteMoves
    <3> QED
      BY <3>1, <1>3 DEF ReportOf, FilesOf, StagedOf, StandOf, Staged, Inside, Works
  <2> QED
    BY <2>1
<1>33. ASSUME Crash PROVE \A w \in Volumes : ReportOf(w)'
  <2>1. ASSUME NEW w \in Volumes PROVE ReportOf(w)'
    <3>1. /\ half' = LeftHalf /\ placing' = Idle /\ UNCHANGED <<treeVars, remote>>
          /\ standing'[w] = 0 /\ w \notin fresh' /\ w \notin held' /\ call'[w] = "none"
      BY <1>33 DEF Crash, Stop, NoCommits
    <3>2. FilesOf(w)'
      BY <3>1, EndedHalf
    <3> QED
      BY <3>1, <3>2 DEF ReportOf, StagedOf, StandOf, Staged
  <2> QED
    BY <2>1
<1>34. ASSUME Reboot PROVE \A w \in Volumes : ReportOf(w)'
  <2>1. ASSUME NEW w \in Volumes PROVE ReportOf(w)'
    <3>1. /\ half' = LeftHalf /\ placing' = Idle /\ UNCHANGED <<treeVars, remote>>
          /\ standing'[w] = 0 /\ w \notin fresh' /\ w \notin held' /\ call'[w] = "none"
      BY <1>34 DEF Reboot, Stop, NoCommits
    <3>2. FilesOf(w)'
      BY <3>1, EndedHalf
    <3> QED
      BY <3>1, <3>2 DEF ReportOf, StagedOf, StandOf, Staged
  <2> QED
    BY <2>1
<1>35. ASSUME Resume PROVE \A w \in Volumes : ReportOf(w)'
  <2>1. ASSUME NEW w \in Volumes PROVE ReportOf(w)'
    <3>1. /\ ~up /\ UNCHANGED <<remote, placing, fresh, call>>
          /\ held' = Resumed
          /\ standing'[w] = IF w \in Resumed THEN placed[w] ELSE 0
          /\ placed'[w] = IF w \in record \ Resumed THEN 0 ELSE placed[w]
          /\ w \notin record \ Resumed =>
                (w \in tree => w \in tree') /\ files'[w] = files[w] /\ half'[w] = half[w]
      BY <1>35 DEF Resume, RemoveDirectories
    <3>2. call'[w] = "none" /\ w \notin fresh'
      BY <3>1, <1>3, StagedIsNotHeld DEF ReportOf, StandOf
    <3>3. FilesOf(w)'
      BY <3>1, <1>3 DEF ReportOf, FilesOf, Inside, Works
    <3> QED
      BY <3>1, <3>2, <3>3 DEF ReportOf, StagedOf, StandOf, Staged
  <2> QED
    BY <2>1
<1> HIDE DEF remoteVars, treeVars, recordVars, kubeletVars, memoryVars, reportVars,
             callVars, passVars
<1> QED
  BY <1>4, <1>5, <1>6, <1>7, <1>8, <1>9, <1>10, <1>11, <1>12, <1>13, <1>14, <1>15,
     <1>16, <1>17, <1>18, <1>19, <1>20, <1>21, <1>22, <1>23, <1>24, <1>25, <1>26,
          <1>27, <1>28, <1>29, <1>30, <1>31, <1>32, <1>33, <1>34, <1>35, RemoteFrame,
               TreeFrame, UpFrame, MemoryFrame, ReportFrame, CallFrame, PassFrame,
                    PlacingFrame, HalfFrame, KubeletFrame

-----------------------------------------------------------------------------
(* The second invariant of the specification, and the files of the pods *)

\* The types, the pods' part and the reports' part hold in every reachable state.
LEMMA ReportInvariant == Spec => [](TypeOK /\ PodInv /\ ReportInv)
<1>1. Init => ReportInv
  <2> SUFFICES ASSUME Init PROVE ReportInv
    OBVIOUS
  <2>1. TurnInv /\ PlaceInv
    BY LockNames DEF Init, TurnInv, PlaceInv
  <2>2. ASSUME NEW v \in Volumes PROVE ReportOf(v)
    BY DEF Init, ReportOf, FilesOf, StagedOf, StandOf, Staged, NoCommits
  <2> QED
    BY <2>1, <2>2 DEF ReportInv
<1>2. TypeOK /\ PodInv /\ ReportInv /\ [Next]_vars => ReportInv'
  BY TurnKept, PlaceKept, ReportsKept DEF ReportInv
<1> QED
  BY <1>1, <1>2, InitPods, NextPods, PTL DEF Spec

(* A volume that reports a commit and no trouble holds exactly the entries *)
(* of that commit (follow.go refresh), whatever placements failed half     *)
(* way, were killed or came back after a restart; but for a ref that moved *)
(* away and back over a placement that ended half way.                     *)
THEOREM ReportsAreTrue == Spec => []TreeIsReported
<1>1. TypeOK /\ ReportInv => TreeIsReported
  <2> SUFFICES ASSUME TypeOK, ReportInv, NEW v \in (held \cap fresh) \ trouble,
                      ~Works(v), half[v] # "moved"
               PROVE  files[v] = Content[standing[v]]
    BY DEF TreeIsReported, Works
  <2>1. v \in Volumes /\ HalfType
    BY TypeParts DEF ReportType
  <2>2. ReportOf(v)
    BY <2>1 DEF ReportInv
  <2>3. standing[v] # 0 /\ standing[v] = placed[v]
    BY <2>2 DEF ReportOf, StandOf
  <2>4. half[v] = "half" => placed[v] = remote
    BY <2>2, <2>3 DEF ReportOf, StandOf
  <2> QED
    BY <2>2, <2>3, <2>4 DEF ReportOf, FilesOf, Inside
<1> QED
  BY <1>1, ReportInvariant, PTL

\* A pod that reads goes on reading the tree.
LEMMA ReadersStay ==
    ASSUME TypeOK, PodInv, NEW t \in Targets, t \in running, t \notin unrecorded,
           t \in running', [Next]_vars
    PROVE  /\ Owner[t] \in Volumes /\ Owner[t] \in tree
           /\ mounts[t] = "tree" /\ mounts'[t] = "tree"
<1> USE DEF remoteVars, treeVars, recordVars, kubeletVars, memoryVars, reportVars,
            callVars, passVars
<1>1. /\ Owner[t] \in Volumes /\ t \in TargetsOf(Owner[t])
      /\ \A v \in Volumes : \A u \in TargetsOf(v) : Owner[u] = v
  BY Owners
<1>2. \A v \in Volumes : /\ CallOf(v) /\ ClaimCall(v) /\ InlineCall(v)
                         /\ MountOf(v) /\ RunOf(v)
  BY DEF PodInv, PodOf
<1>3. /\ mounts[t] = "tree" /\ t \in recorded[Owner[t]] /\ Owner[t] \in tree
      /\ up => Keeps(Owner[t], t)
  BY <1>1, <1>2 DEF RunOf, MountOf
<1>4. PodType
  BY TypeParts
<1>5. \A v \in Volumes : v \in Claims \/ v \in Inlines
  BY DEF Volumes
<1>6. ASSUME UNCHANGED mounts PROVE mounts'[t] = "tree"
  BY <1>6, <1>3
<1>7. ASSUME NEW v \in Volumes, CallFailed(v) PROVE mounts'[t] = "tree"
  <2>1. v \notin held /\ up
    BY <1>7, StagedIsNotHeld DEF CallFailed
  <2>2. v # Owner[t]
    BY <2>1, <1>3 DEF Keeps
  <2> QED
    BY <1>7, <1>3, <2>2 DEF CallFailed, RemoveDirectories
<1>8. ASSUME NEW v \in Volumes, Bind(v) PROVE mounts'[t] = "tree"
  BY <1>8, <1>3, <1>4 DEF Bind, PodType
<1>9. ASSUME NEW v \in Volumes, BindFails(v) PROVE mounts'[t] = "tree"
  <2>1. at[v] \in TargetsOf(v) /\ up
    BY <1>9, <1>2 DEF BindFails, CallOf
  <2>2. at[v] # t
    BY <1>9, <2>1, <1>1, <1>2, <1>3, <1>5 DEF BindFails, Keeps, ClaimCall, InlineCall
  <2> QED
    BY <1>9, <2>2, <1>3, <1>4 DEF BindFails, PodType
<1>10. ASSUME NEW v \in Volumes, Unmount(v) PROVE mounts'[t] = "tree"
  <2>1. at[v] # t
    BY <1>10, <1>2 DEF Unmount, CallOf
  <2> QED
    BY <1>10, <2>1, <1>3, <1>4 DEF Unmount, PodType
<1>11. ASSUME NEW v \in Volumes, UnmountFails(v) PROVE mounts'[t] = "tree"
  <2>1. at[v] # t
    BY <1>11, <1>2 DEF UnmountFails, CallOf
  <2> QED
    BY <1>11, <2>1, <1>3, <1>4 DEF UnmountFails, PodType
<1>12. ASSUME NEW v \in Volumes, RemoveVolume(v) PROVE mounts'[t] = "tree"
  <2>1. v \notin held /\ up
    BY <1>12, StagedIsNotHeld DEF RemoveVolume
  <2>2. v # Owner[t]
    BY <2>1, <1>3 DEF Keeps
  <2> QED
    BY <1>12, <1>3, <2>2 DEF RemoveVolume, RemoveDirectories
<1>13. ASSUME Reboot PROVE mounts'[t] = "tree"
  BY <1>13 DEF Reboot
<1>14. ASSUME Resume PROVE mounts'[t] = "tree"
  <2>1. Owner[t] \in Resumed
    BY <1>1, <1>2, <1>3 DEF Resumed, MountedTargets, MountOf
  <2> QED
    BY <1>14, <2>1, <1>3 DEF Resume, RemoveDirectories
<1> HIDE DEF remoteVars, treeVars, recordVars, kubeletVars, memoryVars, reportVars,
             callVars, passVars
<1>15. mounts'[t] = "tree"
  BY <1>6, <1>7, <1>8, <1>9, <1>10, <1>11, <1>12, <1>13, <1>14, MountFrame
<1> QED
  BY <1>1, <1>3, <1>15

\* What its tree holds changes only to what the placement brings.
LEMMA ReadersFiles ==
    ASSUME TypeOK, PodInv, ReportInv, NEW t \in Targets, t \in running,
           t \notin unrecorded, t \in running', NEW e \in Entries, [Next]_vars
    PROVE  LET v == Owner[t]
               c == placing.commit
           IN  \/ files'[v][e] = files[v][e]
               \/ /\ Works(v)
                  /\ \/ files'[v][e] = Content[c][e]
                     \/ files'[v][e] = Absent /\ Differs(c, e, v)
<1> USE DEF remoteVars, treeVars, recordVars, kubeletVars, memoryVars, reportVars,
            callVars, passVars
<1>1. Owner[t] \in Volumes /\ Owner[t] \in tree
  BY ReadersStay
<1>2. /\ up => Owner[t] \in held
      /\ t \in recorded[Owner[t]] /\ Owner[t] \in record /\ mounts[t] = "tree"
  <2>1. PodOf(Owner[t]) /\ t \in TargetsOf(Owner[t])
    BY Owners DEF PodInv
  <2> QED
    BY <2>1 DEF PodOf, RunOf, MountOf, Keeps
<1>3. TreeType
  BY TypeParts
<1>4. PlaceInv
  BY DEF ReportInv
<1> DEFINE Kept ==
      \/ files'[Owner[t]][e] = files[Owner[t]][e]
      \/ /\ Works(Owner[t])
         /\ \/ files'[Owner[t]][e] = Content[placing.commit][e]
            \/ files'[Owner[t]][e] = Absent /\ Differs(placing.commit, e, Owner[t])
<1>5. ASSUME UNCHANGED treeVars PROVE Kept
  BY <1>5
<1>6. ASSUME NEW v \in Volumes, CallFailed(v) PROVE Kept
  <2>1. v # Owner[t]
    BY <1>6, <1>2, StagedIsNotHeld DEF CallFailed
  <2> QED
    BY <1>6, <1>1, <2>1 DEF CallFailed, RemoveDirectories
<1>7. ASSUME NEW v \in Volumes, RemoveVolume(v) PROVE Kept
  <2>1. v # Owner[t]
    BY <1>7, <1>2, StagedIsNotHeld DEF RemoveVolume
  <2> QED
    BY <1>7, <1>1, <2>1 DEF RemoveVolume, RemoveDirectories
<1>8. ASSUME PlaceStep PROVE Kept
  <2>1. PICK v \in Volumes : v = placing.of /\ placing # Idle
    BY <1>8, PlaceStepGoes DEF Going
  <2>2. CASE Checkout \/ ArriveInside \/ RenamedAll
    BY <2>2 DEF Checkout, ArriveInside, RenamedAll
  <2>3. CASE ArriveWhole
    BY <2>3, <2>1, <1>1, <1>3 DEF ArriveWhole, TreeType
  <2>4. CASE RemoveEntry
    <3> DEFINE f == First(placing.todo)
    <3>1. placing.pc = "remove" /\ Write(v, f, Absent) /\ placing.todo \subseteq Entries
      BY <2>4, <2>1, <1>8, PlaceStepGoes DEF RemoveEntry, Placing, Going
    <3>2. f \in placing.todo /\ Content[placing.commit][f] = Absent
      BY <3>1, <2>1, <1>4, FirstIsOne DEF PlaceInv
    <3> HIDE DEF f
    <3>3. v # Owner[t] \/ f # e => files'[Owner[t]][e] = files[Owner[t]][e]
      BY <3>1, <1>1, <1>3 DEF Write, TreeType
    <3>4. v = Owner[t] /\ f = e => files'[v][e] = Content[placing.commit][e]
      BY <3>1, <3>2, <1>3 DEF Write, TreeType
    <3> QED
      BY <3>3, <3>4, <2>1 DEF Works
  <2>5. CASE RemoveKind
    <3> DEFINE f == First(placing.todo)
    <3>1. Differs(placing.commit, f, v) /\ Write(v, f, Absent)
      BY <2>5, <2>1 DEF RemoveKind
    <3> HIDE DEF f
    <3>2. v # Owner[t] \/ f # e => files'[Owner[t]][e] = files[Owner[t]][e]
      BY <3>1, <1>1, <1>3 DEF Write, TreeType
    <3>3. v = Owner[t] /\ f = e => files'[v][e] = Absent
      BY <3>1, <1>3 DEF Write, TreeType
    <3> QED
      BY <3>1, <3>2, <3>3, <2>1 DEF Works
  <2>6. CASE RenameEntry
    <3> DEFINE f == First(placing.todo)
    <3>1. Write(v, f, Content[placing.commit][f])
      BY <2>6, <2>1 DEF RenameEntry
    <3> HIDE DEF f
    <3>2. v # Owner[t] \/ f # e => files'[Owner[t]][e] = files[Owner[t]][e]
      BY <3>1, <1>1, <1>3 DEF Write, TreeType
    <3>3. v = Owner[t] /\ f = e => files'[v][e] = Content[placing.commit][e]
      BY <3>1, <1>3 DEF Write, TreeType
    <3> QED
      BY <3>2, <3>3, <2>1 DEF Works
  <2> QED
    BY <1>8, <2>2, <2>3, <2>4, <2>5, <2>6 DEF PlaceStep
<1>9. ASSUME Placed PROVE Kept
  BY <1>9 DEF Placed
<1>10. ASSUME Resume PROVE Kept
  <2>1. Owner[t] \in Resumed
    BY <1>1, <1>2 DEF Resumed, MountedTargets
  <2> QED
    BY <1>10, <2>1, <1>1 DEF Resume, RemoveDirectories
<1> HIDE DEF remoteVars, treeVars, recordVars, kubeletVars, memoryVars, reportVars,
             callVars, passVars
<1>11. Kept
  BY <1>5, <1>6, <1>7, <1>8, <1>9, <1>10, TreeFrame
<1> QED
  BY <1>11

(* A pod that reads finds in every entry what was there, or what the       *)
(* commit that arrives holds; nothing goes that the commit still has as    *)
(* the same kind (store.go replaceTree), and no failed call, unstage, kill *)
(* or restart takes the tree away under it.                                *)
THEOREM ReadersAreSafe == Spec => ReadersKeepFiles
<1>1. TypeOK /\ PodInv /\ ReportInv /\ [Next]_vars
      => [\A t \in (running \ unrecorded) \cap running' :
            \A e \in Entries : MayRead(t, e)]_<<files, mounts>>
  <2> SUFFICES ASSUME TypeOK, PodInv, ReportInv, [Next]_vars,
                      NEW t \in (running \ unrecorded) \cap running',
                      NEW e \in Entries
               PROVE  MayRead(t, e)
    OBVIOUS
  <2>1. t \in Targets
    BY TypeParts DEF PodType
  <2>2. mounts[t] = "tree" /\ mounts'[t] = "tree"
    BY <2>1, ReadersStay
  <2>3. Reads(t)[e] = files[Owner[t]][e] /\ Reads(t)'[e] = files'[Owner[t]][e]
    BY <2>2 DEF Reads
  <2> QED
    BY <2>1, <2>3, ReadersFiles DEF MayRead, Works
<1> QED
  BY <1>1, ReportInvariant, PTL DEF Spec, ReadersKeepFiles

=============================================================================
