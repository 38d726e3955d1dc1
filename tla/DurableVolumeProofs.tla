------------------------ MODULE DurableVolumeProofs ------------------------
(***************************************************************************)
(* Proofs that the volumes of WriteableVolume keep what DurableVolume       *)
(* promises, and of what that rests on: what the driver knows of a volume's *)
(* divergence and of a deleted ref, and where the last copy of every change *)
(* is when a tree or a branch is removed.                                  *)
(***************************************************************************)
EXTENDS WriteableVolumeProofs

-----------------------------------------------------------------------------
(* The state in memory is the state on disk *)

\* Without a kill, the two states differ only where a stage has not read the
\* disk yet, or found no ref to read it for; a deleted ref is never pushed to.
KnownInv ==
    \A v \in Volumes :
        /\ pc[v] # "down"
        /\ pc[v] \in Staging \cup { "out" } => ~diverged[v] /\ ~refDeleted[v]
        /\ pc[v] \in Pushing \cup { "marking" } => ~refDeleted[v]
        /\ pc[v] \notin Staging \cup { "out" } /\ ~refDeleted[v]
           => (diverged[v] <=> config[v])
        /\ \/ tree[v] # "made"
           \/ pc[v] \in { "create", "checkout", "markCreated" }
           => ~config[v]
        /\ tree[v] = "unmarked" => pc[v] = "markCreated"

\* Every step keeps the two states in agreement.
LEMMA KnownStep ==
    ASSUME TypeOK,
           ControlInv,
           KnownInv,
           ~ConfigFails,
           MaxCrashes = 0,
           [Next]_vars
    PROVE  KnownInv'
<1> USE DEF Goto, At, remoteVars, recordVars, diskVars, memoryVars, localVars,
            storyVars, boundVars
<1> USE DEF TypeOK, DiskType, MemoryType, KnownInv, Staging, Pushing
<1>1. ASSUME NEW v \in Volumes, StageTree(v) PROVE KnownInv'
  BY <1>1 DEF StageTree, Fault
<1>2. ASSUME NEW v \in Volumes, RefDeleted(v) PROVE KnownInv'
  BY <1>2 DEF RefDeleted
<1>3. ASSUME NEW v \in Volumes, StageRefused(v) PROVE KnownInv'
  BY <1>3 DEF StageRefused, vars
<1>4. ASSUME NEW v \in Volumes, Create(v) PROVE KnownInv'
  BY <1>4 DEF Create
<1>5. ASSUME NEW v \in Volumes, Checkout(v) PROVE KnownInv'
  BY <1>5 DEF Checkout
<1>6. ASSUME NEW v \in Volumes, MarkCreated(v) PROVE KnownInv'
  BY <1>6 DEF MarkCreated, restore, Fault, DropLocals
<1>7. ASSUME NEW v \in Volumes, Hold(v) PROVE KnownInv'
  BY <1>7 DEF Hold, DropLocals
<1>8. ASSUME NEW v \in Volumes, HealReset(v) PROVE KnownInv'
  BY <1>8 DEF HealReset, reset
<1>9. ASSUME NEW v \in Volumes, LeaveTree(v) PROVE KnownInv'
  BY <1>9 DEF LeaveTree, DropLocals
<1>10. ASSUME NEW v \in Volumes, FastForwardTree(v) PROVE KnownInv'
  BY <1>10 DEF FastForwardTree, MayRewrite, reset
<1>11. ASSUME NEW v \in Volumes, RebaseTree(v) PROVE KnownInv'
  <2>1. tree[v] = "made"
    BY <1>11 DEF RebaseTree, MayRewrite, ControlInv, TreeInv
  <2>2. CASE UNCHANGED <<config, diverged>>
    BY <1>11, <2>2
       DEF RebaseTree, MayRewrite, rebaseAside, rebaseAborted, DropLocals
  <2>3. CASE /\ diverged' = [diverged EXCEPT ![v] = TRUE]
             /\ config' = [config EXCEPT ![v] = TRUE]
    BY <1>11, <2>1, <2>3
       DEF RebaseTree, MayRewrite, rebaseAside, rebaseAborted, DropLocals
  <2> QED
    BY <1>11, <2>2, <2>3, ConstantsAssumption DEF RebaseTree, markDiverged
<1>12. ASSUME NEW v \in Volumes, StageMark(v) PROVE KnownInv'
  BY <1>12 DEF StageMark, MarkUpstream, restore, Fault, DropLocals
<1>13. ASSUME NEW v \in Volumes, StageHealed(v) PROVE KnownInv'
  BY <1>13 DEF StageHealed, DropLocals, CannotClear
<1>14. ASSUME NEW v \in Volumes, PushNow(v) PROVE KnownInv'
  BY <1>14 DEF PushNow, Blocked
<1>15. ASSUME NEW v \in Volumes, PushSkipped(v) PROVE KnownInv'
  BY <1>15 DEF PushSkipped, AfterPush, ControlInv, CallInv
<1>16. ASSUME NEW v \in Volumes, HealFetch(v) PROVE KnownInv'
  BY <1>16 DEF HealFetch, fetchUpstream, fetchFails, Fault
<1>17. ASSUME NEW v \in Volumes, HealRebase(v) PROVE KnownInv'
  BY <1>17 DEF HealRebase, rebaseAside, rebaseAborted
<1>18. ASSUME NEW v \in Volumes, RemoveSide(v) PROVE KnownInv'
  BY <1>18 DEF RemoveSide, Fault
<1>19. ASSUME NEW v \in Volumes, Healed(v) PROVE KnownInv'
  BY <1>19 DEF Healed, CannotClear
<1>20. ASSUME NEW v \in Volumes, SendTo(v) PROVE KnownInv'
  BY <1>20
     DEF SendTo, sendFails, receive, receiveBranch, receiveRecord, Fault, AfterPush,
         DropLocals
<1>21. ASSUME NEW v \in Volumes, RetryFetch(v) PROVE KnownInv'
  BY <1>21 DEF RetryFetch, fetchUpstream, fetchFails, Fault
<1>22. ASSUME NEW v \in Volumes, RetryRebase(v) PROVE KnownInv'
  BY <1>22 DEF RetryRebase, rebaseAside, rebaseAborted, reparentMetadata
<1>23. ASSUME NEW v \in Volumes, Resend(v) PROVE KnownInv'
  BY <1>23
     DEF Resend, sendFails, receive, receiveBranch, receiveRecord, Fault, AttemptsUsed,
         rebaseAttempts
<1>24. ASSUME NEW v \in Volumes, Diverge(v) PROVE KnownInv'
  <2>1. /\ diverged' = [diverged EXCEPT ![v] = TRUE]
        /\ config' = [config EXCEPT ![v] = TRUE]
    BY <1>24, ConstantsAssumption DEF Diverge, markDiverged
  <2>2. tree[v] = "made"
    BY <1>24 DEF Diverge, ControlInv, TreeInv
  <2> QED
    BY <1>24, <2>1, <2>2 DEF Diverge
<1>25. ASSUME NEW v \in Volumes, MarkPushed(v) PROVE KnownInv'
  BY <1>25 DEF MarkPushed, AfterPush, DropLocals
<1>26. ASSUME NEW v \in Volumes, Publish(v) PROVE KnownInv'
  BY <1>26 DEF Publish
<1>27. ASSUME NEW v \in Volumes, Republish(v) PROVE KnownInv'
  BY <1>27 DEF Republish
<1>28. ASSUME NEW v \in Volumes, Commit(v) PROVE KnownInv'
  BY <1>28 DEF Commit, commit
<1>29. ASSUME NEW v \in Volumes, Unpublish(v) PROVE KnownInv'
  BY <1>29 DEF Unpublish, commit
<1>30. ASSUME NEW v \in Volumes, Unstage(v) PROVE KnownInv'
  BY <1>30 DEF Unstage
<1>31. ASSUME NEW v \in Volumes, MarkUnstaged(v) PROVE KnownInv'
  BY <1>31 DEF MarkUnstaged, Forget
<1>32. ASSUME NEW v \in Volumes, Sweep(v) PROVE KnownInv'
  BY <1>32 DEF Sweep, Sweepable
<1>33. ASSUME NEW v \in Volumes, Crash(v) PROVE KnownInv'
  BY <1>33, ConstantsAssumption DEF Crash, Forget, DropLocals, BoundType
<1>34. ASSUME NEW v \in Volumes, Resume(v) PROVE KnownInv'
  BY <1>34 DEF Resume
<1>35. ASSUME NEW v \in Volumes, MergeSide(v) PROVE KnownInv'
  BY <1>35 DEF MergeSide
<1>36. ASSUME NEW v \in Volumes, DeleteSide(v) PROVE KnownInv'
  BY <1>36 DEF DeleteSide
<1>37. ASSUME NEW v \in Volumes, NEW change \in Writes, Write(v, change)
     PROVE  KnownInv'
  BY <1>37 DEF Write
<1>38. ASSUME NEW change \in Foreign, OtherPush(change) PROVE KnownInv'
  BY <1>38 DEF OtherPush
<1>39. ASSUME DeleteRef PROVE KnownInv'
  BY <1>39 DEF DeleteRef
<1>40. ASSUME RestoreRef PROVE KnownInv'
  BY <1>40 DEF RestoreRef
<1>41. CASE UNCHANGED vars
  BY <1>41 DEF vars
<1> QED
  BY <1>1, <1>2, <1>3, <1>4, <1>5, <1>6, <1>7, <1>8, <1>9, <1>10, <1>11, <1>12, <1>13,
     <1>14, <1>15, <1>16, <1>17, <1>18, <1>19, <1>20, <1>21, <1>22, <1>23, <1>24,
          <1>25, <1>26, <1>27, <1>28, <1>29, <1>30, <1>31, <1>32, <1>33, <1>34, <1>35,
               <1>36, <1>37, <1>38, <1>39, <1>40, <1>41 DEF Next, StageStep, PushStep,
                    PodStep, OtherStep

\* A push and a stage agree on where the volume's work goes. Excluded are a
\* kill, which forgets the state until a stage reads it again (resumeOne), and
\* a state that cannot be written or cleared (markDiverged, clearDiverged).
THEOREM DivergenceIsKnown ==
    ASSUME MaxCrashes = 0, ~ConfigFails
    PROVE  Spec => []DivergedIsKnown
<1>1. Init => KnownInv
  BY DEF Init, KnownInv, Staging, Pushing
<1>2. TypeOK /\ ControlInv /\ KnownInv /\ [Next]_vars => KnownInv'
  BY KnownStep
<1>3. TypeOK /\ KnownInv => DivergedIsKnown
  BY DEF KnownInv, DivergedIsKnown, Staging, TypeOK, DiskType, MemoryType
<1> QED
  BY <1>1, <1>2, <1>3, Control, PTL DEF Spec

-----------------------------------------------------------------------------
(* A deleted ref stays deleted *)

\* A volume that was told so pushes nothing until the ref is back, or a stage
\* finds it: it is staged and knows, or it is not staged.
ToldInv ==
    \A v \in Volumes :
        told[v] =>
            /\ ~refHere
            /\ \/ pc[v] = "out"
               \/ pc[v] \in { "idle", "push", "leave" } /\ refDeleted[v]

\* Every step keeps it.
LEMMA ToldStep ==
    ASSUME TypeOK,
           ToldInv,
           MaxCrashes = 0,
           [Next]_vars
    PROVE  ToldInv'
<1> USE DEF Goto, At, remoteVars, recordVars, diskVars, memoryVars, localVars,
            storyVars, boundVars
<1> USE DEF TypeOK, RemoteType, MemoryType, StoryType, ToldInv
<1>1. ASSUME NEW v \in Volumes, StageTree(v) PROVE ToldInv'
  BY <1>1 DEF StageTree, Fault
<1>2. ASSUME NEW v \in Volumes, RefDeleted(v) PROVE ToldInv'
  BY <1>2 DEF RefDeleted
<1>3. ASSUME NEW v \in Volumes, StageRefused(v) PROVE ToldInv'
  BY <1>3 DEF StageRefused, vars
<1>4. ASSUME NEW v \in Volumes, Create(v) PROVE ToldInv'
  BY <1>4 DEF Create
<1>5. ASSUME NEW v \in Volumes, Checkout(v) PROVE ToldInv'
  BY <1>5 DEF Checkout
<1>6. ASSUME NEW v \in Volumes, MarkCreated(v) PROVE ToldInv'
  BY <1>6 DEF MarkCreated, restore, Fault, DropLocals
<1>7. ASSUME NEW v \in Volumes, Hold(v) PROVE ToldInv'
  BY <1>7 DEF Hold, DropLocals
<1>8. ASSUME NEW v \in Volumes, HealReset(v) PROVE ToldInv'
  BY <1>8 DEF HealReset, reset
<1>9. ASSUME NEW v \in Volumes, LeaveTree(v) PROVE ToldInv'
  BY <1>9 DEF LeaveTree, DropLocals
<1>10. ASSUME NEW v \in Volumes, FastForwardTree(v) PROVE ToldInv'
  BY <1>10 DEF FastForwardTree, MayRewrite, reset
<1>11. ASSUME NEW v \in Volumes, RebaseTree(v) PROVE ToldInv'
  BY <1>11
     DEF RebaseTree, MayRewrite, rebaseAside, rebaseAborted, markDiverged, DropLocals
<1>12. ASSUME NEW v \in Volumes, StageMark(v) PROVE ToldInv'
  BY <1>12 DEF StageMark, MarkUpstream, restore, Fault, DropLocals
<1>13. ASSUME NEW v \in Volumes, StageHealed(v) PROVE ToldInv'
  BY <1>13 DEF StageHealed, DropLocals
<1>14. ASSUME NEW v \in Volumes, PushNow(v) PROVE ToldInv'
  BY <1>14 DEF PushNow, Blocked
<1>15. ASSUME NEW v \in Volumes, PushSkipped(v) PROVE ToldInv'
  BY <1>15 DEF PushSkipped, AfterPush
<1>16. ASSUME NEW v \in Volumes, HealFetch(v) PROVE ToldInv'
  BY <1>16 DEF HealFetch, fetchUpstream, fetchFails, Fault
<1>17. ASSUME NEW v \in Volumes, HealRebase(v) PROVE ToldInv'
  BY <1>17 DEF HealRebase, rebaseAside, rebaseAborted
<1>18. ASSUME NEW v \in Volumes, RemoveSide(v) PROVE ToldInv'
  BY <1>18 DEF RemoveSide, Fault
<1>19. ASSUME NEW v \in Volumes, Healed(v) PROVE ToldInv'
  BY <1>19 DEF Healed
<1>20. ASSUME NEW v \in Volumes, SendTo(v) PROVE ToldInv'
  BY <1>20
     DEF SendTo, sendFails, receive, receiveBranch, receiveRecord, Fault, AfterPush,
         DropLocals
<1>21. ASSUME NEW v \in Volumes, RetryFetch(v) PROVE ToldInv'
  BY <1>21 DEF RetryFetch, fetchUpstream, fetchFails, Fault
<1>22. ASSUME NEW v \in Volumes, RetryRebase(v) PROVE ToldInv'
  BY <1>22 DEF RetryRebase, rebaseAside, rebaseAborted, reparentMetadata
<1>23. ASSUME NEW v \in Volumes, Resend(v) PROVE ToldInv'
  BY <1>23
     DEF Resend, sendFails, receive, receiveBranch, receiveRecord, Fault, AttemptsUsed,
         rebaseAttempts
<1>24. ASSUME NEW v \in Volumes, Diverge(v) PROVE ToldInv'
  BY <1>24 DEF Diverge, markDiverged
<1>25. ASSUME NEW v \in Volumes, MarkPushed(v) PROVE ToldInv'
  BY <1>25 DEF MarkPushed, AfterPush, DropLocals
<1>26. ASSUME NEW v \in Volumes, Publish(v) PROVE ToldInv'
  BY <1>26 DEF Publish
<1>27. ASSUME NEW v \in Volumes, Republish(v) PROVE ToldInv'
  BY <1>27 DEF Republish
<1>28. ASSUME NEW v \in Volumes, Commit(v) PROVE ToldInv'
  BY <1>28 DEF Commit, commit
<1>29. ASSUME NEW v \in Volumes, Unpublish(v) PROVE ToldInv'
  BY <1>29 DEF Unpublish, commit
<1>30. ASSUME NEW v \in Volumes, Unstage(v) PROVE ToldInv'
  BY <1>30 DEF Unstage
<1>31. ASSUME NEW v \in Volumes, MarkUnstaged(v) PROVE ToldInv'
  BY <1>31 DEF MarkUnstaged, Forget
<1>32. ASSUME NEW v \in Volumes, Sweep(v) PROVE ToldInv'
  BY <1>32 DEF Sweep
<1>33. ASSUME NEW v \in Volumes, Crash(v) PROVE ToldInv'
  BY <1>33, ConstantsAssumption DEF Crash, Forget, DropLocals, BoundType
<1>34. ASSUME NEW v \in Volumes, Resume(v) PROVE ToldInv'
  BY <1>34 DEF Resume
<1>35. ASSUME NEW v \in Volumes, MergeSide(v) PROVE ToldInv'
  BY <1>35 DEF MergeSide
<1>36. ASSUME NEW v \in Volumes, DeleteSide(v) PROVE ToldInv'
  BY <1>36 DEF DeleteSide
<1>37. ASSUME NEW v \in Volumes, NEW change \in Writes, Write(v, change)
     PROVE  ToldInv'
  BY <1>37 DEF Write
<1>38. ASSUME NEW change \in Foreign, OtherPush(change) PROVE ToldInv'
  BY <1>38 DEF OtherPush
<1>39. ASSUME DeleteRef PROVE ToldInv'
  BY <1>39 DEF DeleteRef
<1>40. ASSUME RestoreRef PROVE ToldInv'
  BY <1>40 DEF RestoreRef
<1>41. CASE UNCHANGED vars
  BY <1>41 DEF vars
<1> QED
  BY <1>1, <1>2, <1>3, <1>4, <1>5, <1>6, <1>7, <1>8, <1>9, <1>10, <1>11, <1>12, <1>13,
     <1>14, <1>15, <1>16, <1>17, <1>18, <1>19, <1>20, <1>21, <1>22, <1>23, <1>24,
          <1>25, <1>26, <1>27, <1>28, <1>29, <1>30, <1>31, <1>32, <1>33, <1>34, <1>35,
               <1>36, <1>37, <1>38, <1>39, <1>40, <1>41 DEF Next, StageStep, PushStep,
                    PodStep, OtherStep

\* A volume whose stage found the ref deleted does not push it back. Excluded
\* is a kill: a driver that resumes the volume knows nothing of the ref.
THEOREM DeletedIsRespected ==
    ASSUME MaxCrashes = 0
    PROVE  Spec => DeletedRefStaysDeleted
<1>1. Init => ToldInv
  BY DEF Init, ToldInv
<1>2. TypeOK /\ ToldInv /\ [Next]_vars => ToldInv'
  BY ToldStep
<1>3. ASSUME ToldInv, NEW v \in Volumes, told[v], pc[v] \in { "send", "resend" }
      PROVE  FALSE
  BY <1>3 DEF ToldInv
<1>4. ToldInv /\ [Next]_vars
      => [ \A v \in Volumes :
              /\ told[v] /\ ~refHere
              /\ pc[v] \in { "send", "resend" } /\ pc'[v] # pc[v]
              => ~refHere' ]_vars
  BY <1>3
<1> QED
  BY <1>1, <1>2, <1>4, Control, PTL DEF Spec, DeletedRefStaysDeleted

-----------------------------------------------------------------------------
(* Where the last copies are *)

\* A volume that pushes to its side branch has the state on disk too, and the
\* driver knows of none before a stage has read it.
DivergedInv ==
    \A v \in Volumes :
        /\ diverged[v] => config[v]
        /\ pc[v] \in Staging \cup { "out", "down" } => ~diverged[v]

\* Every step keeps the state in memory within the state on disk.
LEMMA DivergedStep ==
    ASSUME TypeOK,
           DivergedInv,
           ~ConfigFails,
           [Next]_vars
    PROVE  DivergedInv'
<1> USE DEF Goto, At, remoteVars, recordVars, diskVars, memoryVars, localVars,
            storyVars, boundVars
<1> USE DEF TypeOK, DiskType, MemoryType, DivergedInv, Staging
<1>1. ASSUME NEW v \in Volumes, StageTree(v) PROVE DivergedInv'
  BY <1>1 DEF StageTree, Fault
<1>2. ASSUME NEW v \in Volumes, RefDeleted(v) PROVE DivergedInv'
  BY <1>2 DEF RefDeleted
<1>3. ASSUME NEW v \in Volumes, StageRefused(v) PROVE DivergedInv'
  BY <1>3 DEF StageRefused, vars
<1>4. ASSUME NEW v \in Volumes, Create(v) PROVE DivergedInv'
  BY <1>4 DEF Create
<1>5. ASSUME NEW v \in Volumes, Checkout(v) PROVE DivergedInv'
  BY <1>5 DEF Checkout
<1>6. ASSUME NEW v \in Volumes, MarkCreated(v) PROVE DivergedInv'
  BY <1>6 DEF MarkCreated, restore, Fault, DropLocals
<1>7. ASSUME NEW v \in Volumes, Hold(v) PROVE DivergedInv'
  BY <1>7 DEF Hold, DropLocals
<1>8. ASSUME NEW v \in Volumes, HealReset(v) PROVE DivergedInv'
  BY <1>8 DEF HealReset, reset
<1>9. ASSUME NEW v \in Volumes, LeaveTree(v) PROVE DivergedInv'
  BY <1>9 DEF LeaveTree, DropLocals
<1>10. ASSUME NEW v \in Volumes, FastForwardTree(v) PROVE DivergedInv'
  BY <1>10 DEF FastForwardTree, MayRewrite, reset
<1>11. ASSUME NEW v \in Volumes, RebaseTree(v) PROVE DivergedInv'
  BY <1>11, ConstantsAssumption
     DEF RebaseTree, MayRewrite, rebaseAside, rebaseAborted, markDiverged, DropLocals
<1>12. ASSUME NEW v \in Volumes, StageMark(v) PROVE DivergedInv'
  BY <1>12 DEF StageMark, MarkUpstream, restore, Fault, DropLocals
<1>13. ASSUME NEW v \in Volumes, StageHealed(v) PROVE DivergedInv'
  BY <1>13 DEF StageHealed, DropLocals
<1>14. ASSUME NEW v \in Volumes, PushNow(v) PROVE DivergedInv'
  BY <1>14 DEF PushNow
<1>15. ASSUME NEW v \in Volumes, PushSkipped(v) PROVE DivergedInv'
  BY <1>15 DEF PushSkipped, AfterPush
<1>16. ASSUME NEW v \in Volumes, HealFetch(v) PROVE DivergedInv'
  BY <1>16 DEF HealFetch, fetchUpstream, fetchFails, Fault
<1>17. ASSUME NEW v \in Volumes, HealRebase(v) PROVE DivergedInv'
  BY <1>17 DEF HealRebase, rebaseAside, rebaseAborted
<1>18. ASSUME NEW v \in Volumes, RemoveSide(v) PROVE DivergedInv'
  BY <1>18 DEF RemoveSide, Fault
<1>19. ASSUME NEW v \in Volumes, Healed(v) PROVE DivergedInv'
  BY <1>19 DEF Healed
<1>20. ASSUME NEW v \in Volumes, SendTo(v) PROVE DivergedInv'
  BY <1>20
     DEF SendTo, sendFails, receive, receiveBranch, receiveRecord, Fault, AfterPush,
         DropLocals
<1>21. ASSUME NEW v \in Volumes, RetryFetch(v) PROVE DivergedInv'
  BY <1>21 DEF RetryFetch, fetchUpstream, fetchFails, Fault
<1>22. ASSUME NEW v \in Volumes, RetryRebase(v) PROVE DivergedInv'
  BY <1>22 DEF RetryRebase, rebaseAside, rebaseAborted, reparentMetadata
<1>23. ASSUME NEW v \in Volumes, Resend(v) PROVE DivergedInv'
  BY <1>23
     DEF Resend, sendFails, receive, receiveBranch, receiveRecord, Fault, AttemptsUsed,
         rebaseAttempts
<1>24. ASSUME NEW v \in Volumes, Diverge(v) PROVE DivergedInv'
  BY <1>24, ConstantsAssumption DEF Diverge, markDiverged
<1>25. ASSUME NEW v \in Volumes, MarkPushed(v) PROVE DivergedInv'
  BY <1>25 DEF MarkPushed, AfterPush, DropLocals
<1>26. ASSUME NEW v \in Volumes, Publish(v) PROVE DivergedInv'
  BY <1>26 DEF Publish
<1>27. ASSUME NEW v \in Volumes, Republish(v) PROVE DivergedInv'
  BY <1>27 DEF Republish
<1>28. ASSUME NEW v \in Volumes, Commit(v) PROVE DivergedInv'
  BY <1>28 DEF Commit, commit
<1>29. ASSUME NEW v \in Volumes, Unpublish(v) PROVE DivergedInv'
  BY <1>29 DEF Unpublish, commit
<1>30. ASSUME NEW v \in Volumes, Unstage(v) PROVE DivergedInv'
  BY <1>30 DEF Unstage
<1>31. ASSUME NEW v \in Volumes, MarkUnstaged(v) PROVE DivergedInv'
  BY <1>31 DEF MarkUnstaged, Forget
<1>32. ASSUME NEW v \in Volumes, Sweep(v) PROVE DivergedInv'
  BY <1>32 DEF Sweep, Sweepable
<1>33. ASSUME NEW v \in Volumes, Crash(v) PROVE DivergedInv'
  BY <1>33 DEF Crash, Forget, DropLocals
<1>34. ASSUME NEW v \in Volumes, Resume(v) PROVE DivergedInv'
  BY <1>34 DEF Resume
<1>35. ASSUME NEW v \in Volumes, MergeSide(v) PROVE DivergedInv'
  BY <1>35 DEF MergeSide
<1>36. ASSUME NEW v \in Volumes, DeleteSide(v) PROVE DivergedInv'
  BY <1>36 DEF DeleteSide
<1>37. ASSUME NEW v \in Volumes, NEW change \in Writes, Write(v, change)
     PROVE  DivergedInv'
  BY <1>37 DEF Write
<1>38. ASSUME NEW change \in Foreign, OtherPush(change) PROVE DivergedInv'
  BY <1>38 DEF OtherPush
<1>39. ASSUME DeleteRef PROVE DivergedInv'
  BY <1>39 DEF DeleteRef
<1>40. ASSUME RestoreRef PROVE DivergedInv'
  BY <1>40 DEF RestoreRef
<1>41. CASE UNCHANGED vars
  BY <1>41 DEF vars
<1> QED
  BY <1>1, <1>2, <1>3, <1>4, <1>5, <1>6, <1>7, <1>8, <1>9, <1>10, <1>11, <1>12, <1>13,
     <1>14, <1>15, <1>16, <1>17, <1>18, <1>19, <1>20, <1>21, <1>22, <1>23, <1>24,
          <1>25, <1>26, <1>27, <1>28, <1>29, <1>30, <1>31, <1>32, <1>33, <1>34, <1>35,
               <1>36, <1>37, <1>38, <1>39, <1>40, <1>41 DEF Next, StageStep, PushStep,
                    PodStep, OtherStep

\* All of a deleted ref counts as taken by the person who deleted it, so what
\* the ref still holds for its writers is not lost when it is pushed anew.
GoneInv == ~refHere => ChangesOf(ref) \subseteq gone

\* A tree that is not diverged needs no side branch: its mark covers only what
\* is on the ref, and so does a push that is about to be marked, and so will
\* the mark of a volume whose branch was just removed. So what a sweep takes
\* with a tree is on the ref.
HomeInv ==
    \A v \in Volumes :
        /\ tree[v] = "made" /\ ~config[v] => ChangesOf(mark[v]) \subseteq RefHolds
        /\ pc[v] = "marking" /\ ~config[v] => ChangesOf(sent[v]) \subseteq RefHolds
        /\ pc[v] \in { "healed", "stageHealed" }
           => ChangesOf(mark[v]) \subseteq RefHolds
        /\ swept[v] \subseteq RefHolds

\* Every step keeps it.
LEMMA HomeStep ==
    ASSUME TypeOK,
           ControlInv,
           PushedInv,
           NoCommitLost,
           DivergedInv,
           HomeInv,
           [Next]_vars
    PROVE  HomeInv'
<1>1. RefHolds \subseteq RefHolds'
  BY RemoteGrows DEF ControlInv, Grows
<1> USE DEF Goto, At, remoteVars, recordVars, diskVars, memoryVars, localVars,
            storyVars, boundVars
<1> USE DEF TypeOK, DiskType, MemoryType, LocalType, StoryType, DivergedInv, HomeInv,
            Staging, PushedInv, UpstreamInv
<1>2. ASSUME NEW v \in Volumes, StageTree(v) PROVE HomeInv'
  BY <1>2, <1>1 DEF StageTree, Fault, UnmarkedInv
<1>3. ASSUME NEW v \in Volumes, RefDeleted(v) PROVE HomeInv'
  BY <1>3, <1>1 DEF RefDeleted
<1>4. ASSUME NEW v \in Volumes, StageRefused(v) PROVE HomeInv'
  BY <1>4, <1>1 DEF StageRefused, vars
<1>5. ASSUME NEW v \in Volumes, Create(v) PROVE HomeInv'
  BY <1>5, <1>1 DEF Create
<1>6. ASSUME NEW v \in Volumes, Checkout(v) PROVE HomeInv'
  BY <1>6, <1>1 DEF Checkout
<1>7. ASSUME NEW v \in Volumes, MarkCreated(v) PROVE HomeInv'
  BY <1>7, <1>1 DEF MarkCreated, restore, Fault, DropLocals
<1>8. ASSUME NEW v \in Volumes, Hold(v) PROVE HomeInv'
  BY <1>8, <1>1 DEF Hold, DropLocals
<1>9. ASSUME NEW v \in Volumes, HealReset(v) PROVE HomeInv'
  BY <1>9, <1>1 DEF HealReset, reset
<1>10. ASSUME NEW v \in Volumes, LeaveTree(v) PROVE HomeInv'
  BY <1>10, <1>1 DEF LeaveTree, DropLocals
<1>11. ASSUME NEW v \in Volumes, FastForwardTree(v) PROVE HomeInv'
  BY <1>11, <1>1 DEF FastForwardTree, MayRewrite, reset
<1>12. ASSUME NEW v \in Volumes, RebaseTree(v) PROVE HomeInv'
  BY <1>12, <1>1
     DEF RebaseTree, MayRewrite, rebaseAside, rebaseAborted, markDiverged, DropLocals
<1>13. ASSUME NEW v \in Volumes, StageMark(v) PROVE HomeInv'
  BY <1>13, <1>1 DEF StageMark, MarkUpstream, restore, Fault, DropLocals
<1>14. ASSUME NEW v \in Volumes, StageHealed(v) PROVE HomeInv'
  BY <1>14, <1>1 DEF StageHealed, DropLocals
<1>15. ASSUME NEW v \in Volumes, PushNow(v) PROVE HomeInv'
  BY <1>15, <1>1 DEF PushNow
<1>16. ASSUME NEW v \in Volumes, PushSkipped(v) PROVE HomeInv'
  BY <1>16, <1>1 DEF PushSkipped, AfterPush
<1>17. ASSUME NEW v \in Volumes, HealFetch(v) PROVE HomeInv'
  BY <1>17, <1>1 DEF HealFetch, fetchUpstream, fetchFails, Fault
<1>18. ASSUME NEW v \in Volumes, HealRebase(v) PROVE HomeInv'
  BY <1>18, <1>1 DEF HealRebase, rebaseAside, rebaseAborted
<1>19. ASSUME NEW v \in Volumes, RemoveSide(v) PROVE HomeInv'
  BY <1>19, <1>1 DEF RemoveSide, Fault
<1>20. ASSUME NEW v \in Volumes, Healed(v) PROVE HomeInv'
  BY <1>20, <1>1 DEF Healed
<1>21. ASSUME NEW v \in Volumes, SendTo(v) PROVE HomeInv'
  <2>1. pc'[v] = "marking" /\ ~config[v] => ChangesOf(sent[v])' \subseteq RefHolds'
    <3> SUFFICES ASSUME pc'[v] = "marking", ~config[v]
                 PROVE  ChangesOf(sent[v])' \subseteq RefHolds'
      OBVIOUS
    <3>1. BranchTaken(v) /\ receiveBranch(v) /\ (sent'[v] = sent[v] \/ sent'[v] = head[v])
      BY <1>21 DEF SendTo, PushLanded, receive, DropLocals, AfterPush
    <3>2. ~diverged[v]
      OBVIOUS
    <3>3. ref' = head[v] /\ refHere'
      BY <3>1, <3>2 DEF receiveBranch
    <3>4. ChangesOf(sent[v])' \subseteq ChangesOf(head[v])
      BY <1>21, <3>1 DEF SentInv, Pushing, SendTo
    <3> QED
      BY <3>3, <3>4 DEF RefHolds
  <2>2. /\ \A w \in Volumes : w # v => pc'[w] = pc[w] /\ sent'[w] = sent[w]
        /\ pc'[v] \notin { "healed", "stageHealed" }
        /\ UNCHANGED <<tree, config, mark, swept>>
    BY <1>21 DEF SendTo, DropLocals, AfterPush
  <2> QED
    BY <1>21, <1>1, <2>1, <2>2
<1>22. ASSUME NEW v \in Volumes, RetryFetch(v) PROVE HomeInv'
  BY <1>22, <1>1 DEF RetryFetch, fetchUpstream, fetchFails, Fault
<1>23. ASSUME NEW v \in Volumes, RetryRebase(v) PROVE HomeInv'
  BY <1>23, <1>1 DEF RetryRebase, rebaseAside, rebaseAborted, reparentMetadata
<1>24. ASSUME NEW v \in Volumes, Resend(v) PROVE HomeInv'
  <2>1. pc'[v] = "marking" /\ ~config[v] => ChangesOf(sent[v])' \subseteq RefHolds'
    <3> SUFFICES ASSUME pc'[v] = "marking", ~config[v]
                 PROVE  ChangesOf(sent[v])' \subseteq RefHolds'
      OBVIOUS
    <3>1. BranchTaken(v) /\ receiveBranch(v) /\ (sent'[v] = sent[v] \/ sent'[v] = head[v])
      BY <1>24 DEF Resend, PushLanded, receive, AttemptsUsed
    <3>2. ~diverged[v]
      OBVIOUS
    <3>3. ref' = head[v] /\ refHere'
      BY <3>1, <3>2 DEF receiveBranch
    <3>4. ChangesOf(sent[v])' \subseteq ChangesOf(head[v])
      BY <1>24, <3>1 DEF SentInv, Pushing, Resend
    <3> QED
      BY <3>3, <3>4 DEF RefHolds
  <2>2. /\ \A w \in Volumes : w # v => pc'[w] = pc[w] /\ sent'[w] = sent[w]
        /\ pc'[v] \notin { "healed", "stageHealed" }
        /\ UNCHANGED <<tree, config, mark, swept>>
    BY <1>24 DEF Resend, AttemptsUsed
  <2> QED
    BY <1>24, <1>1, <2>1, <2>2
<1>25. ASSUME NEW v \in Volumes, Diverge(v) PROVE HomeInv'
  BY <1>25, <1>1 DEF Diverge, markDiverged
<1>26. ASSUME NEW v \in Volumes, MarkPushed(v) PROVE HomeInv'
  BY <1>26, <1>1 DEF MarkPushed, AfterPush, DropLocals
<1>27. ASSUME NEW v \in Volumes, Publish(v) PROVE HomeInv'
  BY <1>27, <1>1 DEF Publish
<1>28. ASSUME NEW v \in Volumes, Republish(v) PROVE HomeInv'
  BY <1>28, <1>1 DEF Republish
<1>29. ASSUME NEW v \in Volumes, Commit(v) PROVE HomeInv'
  BY <1>29, <1>1 DEF Commit, commit
<1>30. ASSUME NEW v \in Volumes, Unpublish(v) PROVE HomeInv'
  BY <1>30, <1>1 DEF Unpublish, commit
<1>31. ASSUME NEW v \in Volumes, Unstage(v) PROVE HomeInv'
  BY <1>31, <1>1 DEF Unstage
<1>32. ASSUME NEW v \in Volumes, MarkUnstaged(v) PROVE HomeInv'
  BY <1>32, <1>1 DEF MarkUnstaged, Forget
<1>33. ASSUME NEW v \in Volumes, Sweep(v) PROVE HomeInv'
  BY <1>33, <1>1 DEF Sweep, Sweepable, NoCommitLost
<1>34. ASSUME NEW v \in Volumes, Crash(v) PROVE HomeInv'
  BY <1>34, <1>1 DEF Crash, Forget, DropLocals
<1>35. ASSUME NEW v \in Volumes, Resume(v) PROVE HomeInv'
  BY <1>35, <1>1 DEF Resume
<1>36. ASSUME NEW v \in Volumes, MergeSide(v) PROVE HomeInv'
  BY <1>36, <1>1 DEF MergeSide
<1>37. ASSUME NEW v \in Volumes, DeleteSide(v) PROVE HomeInv'
  BY <1>37, <1>1 DEF DeleteSide
<1>38. ASSUME NEW v \in Volumes, NEW change \in Writes, Write(v, change)
     PROVE  HomeInv'
  BY <1>38, <1>1 DEF Write
<1>39. ASSUME NEW change \in Foreign, OtherPush(change) PROVE HomeInv'
  BY <1>39, <1>1 DEF OtherPush
<1>40. ASSUME DeleteRef PROVE HomeInv'
  BY <1>40, <1>1 DEF DeleteRef
<1>41. ASSUME RestoreRef PROVE HomeInv'
  BY <1>41, <1>1 DEF RestoreRef
<1>42. CASE UNCHANGED vars
  BY <1>42, <1>1 DEF vars
<1> QED
  BY <1>2, <1>3, <1>4, <1>5, <1>6, <1>7, <1>8, <1>9, <1>10, <1>11, <1>12, <1>13, <1>14,
     <1>15, <1>16, <1>17, <1>18, <1>19, <1>20, <1>21, <1>22, <1>23, <1>24, <1>25,
          <1>26, <1>27, <1>28, <1>29, <1>30, <1>31, <1>32, <1>33, <1>34, <1>35, <1>36,
               <1>37, <1>38, <1>39, <1>40, <1>41, <1>42 DEF Next, StageStep, PushStep,
                    PodStep, OtherStep

\* The first commit carries no content.
LEMMA ChangesOfEmpty == ChangesOf({}) = {}
  BY DEF ChangesOf

\* A rebase brings nothing into the tree but what upstream carries
\* (workTree.rebaseAside).
LEMMA ReplayAdds ==
    ASSUME NEW h, NEW u
    PROVE  ChangesOf(Replay(h, u)) \subseteq ChangesOf(h) \cup ChangesOf(u)
<1> DEFINE mine == { one \in h \ u : one[1] \notin ChangesOf(u) }
           copies == { <<object[1], object[2] + 1>> : object \in mine }
<1>1. CASE Ancestor(u, h)
  BY <1>1 DEF Replay
<1>2. CASE ~Ancestor(u, h)
  <2>1. Replay(h, u) = u \cup copies
    BY <1>2 DEF Replay
  <2>2. ChangesOf(copies) \subseteq ChangesOf(h)
    BY DEF ChangesOf
  <2> HIDE DEF copies
  <2> QED
    BY <2>1, <2>2, ChangesOfUnion
<1> QED
  BY <1>1, <1>2

\* What a call that rewrites the tree knows of it: the commit it is about to
\* mark is the tree's, and the one it rebases onto is on the ref. A tree
\* without a commit holds nothing.
TreeKnowsInv ==
    \A v \in Volumes :
        /\ tree[v] \in { "none", "init" } => head[v] = {}
        /\ pc[v] = "markCreated" => head[v] = upstream[v]
        /\ pc[v] = "stageMark"
           => ChangesOf(upstream[v]) \subseteq ChangesOf(head[v])
        /\ pc[v] \in { "healRebase", "retryRebase" }
           => ChangesOf(upstream[v]) \subseteq RefHolds
        /\ pc[v] = "marking" => ChangesOf(sent[v]) \subseteq ChangesOf(head[v])

\* A rebase that works leaves upstream in the tree.
LEMMA RebaseTakes ==
    ASSUME TypeOK, NEW v \in Volumes, rebaseAside(v)
    PROVE  /\ ChangesOf(upstream[v]) \subseteq ChangesOf(head[v])'
           /\ ChangesOf(head[v])' \subseteq ChangesOf(head[v]) \cup ChangesOf(upstream[v])
<1>1. head'[v] = Replay(head[v], upstream[v])
  BY DEF rebaseAside, TypeOK, DiskType
<1>2. head[v] \in Histories /\ upstream[v] \in Histories
  BY DEF TypeOK, DiskType, LocalType
<1> QED
  BY <1>1, <1>2, ReplayKeeps, ReplayAdds, ChangesOfSubset

\* Every step keeps it.
LEMMA TreeKnowsStep ==
    ASSUME TypeOK,
           ControlInv,
           PushedInv,
           TreeKnowsInv,
           [Next]_vars
    PROVE  TreeKnowsInv'
<1>1. RefHolds \subseteq RefHolds'
  BY RemoteGrows DEF ControlInv, Grows
<1> USE DEF Goto, At, remoteVars, recordVars, diskVars, memoryVars, localVars,
            storyVars, boundVars
<1> USE DEF TypeOK, DiskType, MemoryType, LocalType, TreeKnowsInv, TreeInv, ControlInv
<1>2. ASSUME NEW v \in Volumes, StageTree(v) PROVE TreeKnowsInv'
  BY <1>2, <1>1 DEF StageTree, Fault
<1>3. ASSUME NEW v \in Volumes, RefDeleted(v) PROVE TreeKnowsInv'
  BY <1>3, <1>1 DEF RefDeleted
<1>4. ASSUME NEW v \in Volumes, StageRefused(v) PROVE TreeKnowsInv'
  BY <1>4, <1>1 DEF StageRefused, vars
<1>5. ASSUME NEW v \in Volumes, Create(v) PROVE TreeKnowsInv'
  BY <1>5, <1>1 DEF Create
<1>6. ASSUME NEW v \in Volumes, Checkout(v) PROVE TreeKnowsInv'
  BY <1>6, <1>1 DEF Checkout
<1>7. ASSUME NEW v \in Volumes, MarkCreated(v) PROVE TreeKnowsInv'
  BY <1>7, <1>1 DEF MarkCreated, restore, Fault, DropLocals
<1>8. ASSUME NEW v \in Volumes, Hold(v) PROVE TreeKnowsInv'
  BY <1>8, <1>1 DEF Hold, DropLocals
<1>9. ASSUME NEW v \in Volumes, HealReset(v) PROVE TreeKnowsInv'
  BY <1>9, <1>1 DEF HealReset, reset
<1>10. ASSUME NEW v \in Volumes, LeaveTree(v) PROVE TreeKnowsInv'
  BY <1>10, <1>1 DEF LeaveTree, DropLocals
<1>11. ASSUME NEW v \in Volumes, FastForwardTree(v) PROVE TreeKnowsInv'
  BY <1>11, <1>1 DEF FastForwardTree, MayRewrite, reset
<1>12. ASSUME NEW v \in Volumes, RebaseTree(v) PROVE TreeKnowsInv'
  BY <1>12, <1>1, RebaseTakes
     DEF RebaseTree, MayRewrite, rebaseAside, rebaseAborted, markDiverged, DropLocals
<1>13. ASSUME NEW v \in Volumes, StageMark(v) PROVE TreeKnowsInv'
  BY <1>13, <1>1 DEF StageMark, MarkUpstream, restore, Fault, DropLocals
<1>14. ASSUME NEW v \in Volumes, StageHealed(v) PROVE TreeKnowsInv'
  BY <1>14, <1>1 DEF StageHealed, DropLocals
<1>15. ASSUME NEW v \in Volumes, PushNow(v) PROVE TreeKnowsInv'
  BY <1>15, <1>1 DEF PushNow
<1>16. ASSUME NEW v \in Volumes, PushSkipped(v) PROVE TreeKnowsInv'
  BY <1>16, <1>1 DEF PushSkipped, AfterPush
<1>17. ASSUME NEW v \in Volumes, HealFetch(v) PROVE TreeKnowsInv'
  BY <1>17, <1>1 DEF HealFetch, fetchUpstream, fetchFails, Fault, RefHolds, Merged
<1>18. ASSUME NEW v \in Volumes, HealRebase(v) PROVE TreeKnowsInv'
  BY <1>18, <1>1, RebaseTakes DEF HealRebase, rebaseAside, rebaseAborted
<1>19. ASSUME NEW v \in Volumes, RemoveSide(v) PROVE TreeKnowsInv'
  BY <1>19, <1>1 DEF RemoveSide, Fault
<1>20. ASSUME NEW v \in Volumes, Healed(v) PROVE TreeKnowsInv'
  BY <1>20, <1>1 DEF Healed
<1>21. ASSUME NEW v \in Volumes, SendTo(v) PROVE TreeKnowsInv'
  BY <1>21, <1>1
     DEF SendTo, sendFails, receive, receiveBranch, receiveRecord, Fault, AfterPush,
         DropLocals, PushedInv, SentInv, Pushing
<1>22. ASSUME NEW v \in Volumes, RetryFetch(v) PROVE TreeKnowsInv'
  BY <1>22, <1>1 DEF RetryFetch, fetchUpstream, fetchFails, Fault, RefHolds
<1>23. ASSUME NEW v \in Volumes, RetryRebase(v) PROVE TreeKnowsInv'
  BY <1>23, <1>1 DEF RetryRebase, rebaseAside, rebaseAborted, reparentMetadata
<1>24. ASSUME NEW v \in Volumes, Resend(v) PROVE TreeKnowsInv'
  BY <1>24, <1>1
     DEF Resend, sendFails, receive, receiveBranch, receiveRecord, Fault, AttemptsUsed,
         rebaseAttempts, PushedInv, SentInv, Pushing
<1>25. ASSUME NEW v \in Volumes, Diverge(v) PROVE TreeKnowsInv'
  BY <1>25, <1>1 DEF Diverge, markDiverged
<1>26. ASSUME NEW v \in Volumes, MarkPushed(v) PROVE TreeKnowsInv'
  BY <1>26, <1>1 DEF MarkPushed, AfterPush, DropLocals
<1>27. ASSUME NEW v \in Volumes, Publish(v) PROVE TreeKnowsInv'
  BY <1>27, <1>1 DEF Publish
<1>28. ASSUME NEW v \in Volumes, Republish(v) PROVE TreeKnowsInv'
  BY <1>28, <1>1 DEF Republish
<1>29. ASSUME NEW v \in Volumes, Commit(v) PROVE TreeKnowsInv'
  BY <1>29, <1>1, CommittedType DEF Commit, commit
<1>30. ASSUME NEW v \in Volumes, Unpublish(v) PROVE TreeKnowsInv'
  BY <1>30, <1>1 DEF Unpublish, commit
<1>31. ASSUME NEW v \in Volumes, Unstage(v) PROVE TreeKnowsInv'
  BY <1>31, <1>1 DEF Unstage
<1>32. ASSUME NEW v \in Volumes, MarkUnstaged(v) PROVE TreeKnowsInv'
  BY <1>32, <1>1 DEF MarkUnstaged, Forget
<1>33. ASSUME NEW v \in Volumes, Sweep(v) PROVE TreeKnowsInv'
  BY <1>33, <1>1 DEF Sweep
<1>34. ASSUME NEW v \in Volumes, Crash(v) PROVE TreeKnowsInv'
  BY <1>34, <1>1 DEF Crash, Forget, DropLocals
<1>35. ASSUME NEW v \in Volumes, Resume(v) PROVE TreeKnowsInv'
  BY <1>35, <1>1 DEF Resume
<1>36. ASSUME NEW v \in Volumes, MergeSide(v) PROVE TreeKnowsInv'
  BY <1>36, <1>1 DEF MergeSide
<1>37. ASSUME NEW v \in Volumes, DeleteSide(v) PROVE TreeKnowsInv'
  BY <1>37, <1>1 DEF DeleteSide
<1>38. ASSUME NEW v \in Volumes, NEW change \in Writes, Write(v, change)
     PROVE  TreeKnowsInv'
  BY <1>38, <1>1 DEF Write
<1>39. ASSUME NEW change \in Foreign, OtherPush(change) PROVE TreeKnowsInv'
  BY <1>39, <1>1 DEF OtherPush
<1>40. ASSUME DeleteRef PROVE TreeKnowsInv'
  BY <1>40, <1>1 DEF DeleteRef
<1>41. ASSUME RestoreRef PROVE TreeKnowsInv'
  BY <1>41, <1>1 DEF RestoreRef
<1>42. CASE UNCHANGED vars
  BY <1>42, <1>1 DEF vars
<1> QED
  BY <1>2, <1>3, <1>4, <1>5, <1>6, <1>7, <1>8, <1>9, <1>10, <1>11, <1>12, <1>13, <1>14,
     <1>15, <1>16, <1>17, <1>18, <1>19, <1>20, <1>21, <1>22, <1>23, <1>24, <1>25,
          <1>26, <1>27, <1>28, <1>29, <1>30, <1>31, <1>32, <1>33, <1>34, <1>35, <1>36,
               <1>37, <1>38, <1>39, <1>40, <1>41, <1>42 DEF Next, StageStep, PushStep,
                    PodStep, OtherStep

\* Every step keeps what a deleted ref held counted, and every side branch a
\* copy of what the ref and the tree hold.
LEMMA SideStep ==
    ASSUME TypeOK,
           ControlInv,
           HomeInv,
           TreeKnowsInv,
           GoneInv,
           SideIsACopy,
           [Next]_vars
    PROVE  (GoneInv /\ SideIsACopy)'
<1>1. ChangesOf(ref) \cup gone \subseteq ChangesOf(ref)' \cup gone'
  <2>1. RefHolds \subseteq RefHolds'
    BY RemoteGrows DEF ControlInv, Grows
  <2> QED
    BY <2>1 DEF RefHolds, GoneInv
<1> USE DEF Goto, At, remoteVars, recordVars, diskVars, memoryVars, localVars,
            storyVars, boundVars
<1> USE DEF TypeOK, RemoteType, DiskType, MemoryType, StoryType, GoneInv, SideIsACopy
<1>2. ASSUME NEW v \in Volumes, StageTree(v) PROVE (GoneInv /\ SideIsACopy)'
  BY <1>2, <1>1 DEF StageTree, Fault
<1>3. ASSUME NEW v \in Volumes, RefDeleted(v) PROVE (GoneInv /\ SideIsACopy)'
  BY <1>3, <1>1 DEF RefDeleted
<1>4. ASSUME NEW v \in Volumes, StageRefused(v) PROVE (GoneInv /\ SideIsACopy)'
  BY <1>4, <1>1 DEF StageRefused, vars
<1>5. ASSUME NEW v \in Volumes, Create(v) PROVE (GoneInv /\ SideIsACopy)'
  BY <1>5, <1>1 DEF Create
<1>6. ASSUME NEW v \in Volumes, Checkout(v) PROVE (GoneInv /\ SideIsACopy)'
  <2>1. head[v] = {}
    BY <1>6 DEF Checkout, TreeKnowsInv, ControlInv, TreeInv
  <2>2. ChangesOf(head[v]) = {}
    BY <2>1, ChangesOfEmpty
  <2> QED
    BY <1>6, <1>1, <2>2 DEF Checkout
<1>7. ASSUME NEW v \in Volumes, MarkCreated(v) PROVE (GoneInv /\ SideIsACopy)'
  BY <1>7, <1>1 DEF MarkCreated, restore, Fault, DropLocals
<1>8. ASSUME NEW v \in Volumes, Hold(v) PROVE (GoneInv /\ SideIsACopy)'
  BY <1>8, <1>1 DEF Hold, DropLocals
<1>9. ASSUME NEW v \in Volumes, HealReset(v) PROVE (GoneInv /\ SideIsACopy)'
  BY <1>9, <1>1, ChangesOfSubset DEF HealReset, reset, TreeIsUpstream, Ancestor
<1>10. ASSUME NEW v \in Volumes, LeaveTree(v) PROVE (GoneInv /\ SideIsACopy)'
  BY <1>10, <1>1 DEF LeaveTree, DropLocals
<1>11. ASSUME NEW v \in Volumes, FastForwardTree(v) PROVE (GoneInv /\ SideIsACopy)'
  BY <1>11, <1>1, ChangesOfSubset
     DEF FastForwardTree, MayRewrite, reset, TreeIsUpstream, Ancestor
<1>12. ASSUME NEW v \in Volumes, RebaseTree(v) PROVE (GoneInv /\ SideIsACopy)'
  BY <1>12, <1>1, RebaseKeeps
     DEF RebaseTree, MayRewrite, rebaseAside, rebaseAborted, markDiverged, DropLocals
<1>13. ASSUME NEW v \in Volumes, StageMark(v) PROVE (GoneInv /\ SideIsACopy)'
  BY <1>13, <1>1 DEF StageMark, MarkUpstream, restore, Fault, DropLocals
<1>14. ASSUME NEW v \in Volumes, StageHealed(v) PROVE (GoneInv /\ SideIsACopy)'
  BY <1>14, <1>1 DEF StageHealed, DropLocals
<1>15. ASSUME NEW v \in Volumes, PushNow(v) PROVE (GoneInv /\ SideIsACopy)'
  BY <1>15, <1>1 DEF PushNow
<1>16. ASSUME NEW v \in Volumes, PushSkipped(v) PROVE (GoneInv /\ SideIsACopy)'
  BY <1>16, <1>1 DEF PushSkipped, AfterPush
<1>17. ASSUME NEW v \in Volumes, HealFetch(v) PROVE (GoneInv /\ SideIsACopy)'
  BY <1>17, <1>1 DEF HealFetch, fetchUpstream, fetchFails, Fault
<1>18. ASSUME NEW v \in Volumes, HealRebase(v) PROVE (GoneInv /\ SideIsACopy)'
  BY <1>18, <1>1, RebaseKeeps DEF HealRebase, rebaseAside, rebaseAborted
<1>19. ASSUME NEW v \in Volumes, RemoveSide(v) PROVE (GoneInv /\ SideIsACopy)'
  BY <1>19, <1>1, ChangesOfEmpty DEF RemoveSide, Fault
<1>20. ASSUME NEW v \in Volumes, Healed(v) PROVE (GoneInv /\ SideIsACopy)'
  BY <1>20, <1>1 DEF Healed
<1>21. ASSUME NEW v \in Volumes, SendTo(v) PROVE (GoneInv /\ SideIsACopy)'
  BY <1>21, <1>1, ChangesOfSubset
     DEF SendTo, sendFails, receive, receiveBranch, receiveRecord, Fault, AfterPush,
         DropLocals
<1>22. ASSUME NEW v \in Volumes, RetryFetch(v) PROVE (GoneInv /\ SideIsACopy)'
  BY <1>22, <1>1 DEF RetryFetch, fetchUpstream, fetchFails, Fault
<1>23. ASSUME NEW v \in Volumes, RetryRebase(v) PROVE (GoneInv /\ SideIsACopy)'
  BY <1>23, <1>1, RebaseKeeps
     DEF RetryRebase, rebaseAside, rebaseAborted, reparentMetadata
<1>24. ASSUME NEW v \in Volumes, Resend(v) PROVE (GoneInv /\ SideIsACopy)'
  BY <1>24, <1>1, ChangesOfSubset
     DEF Resend, sendFails, receive, receiveBranch, receiveRecord, Fault, AttemptsUsed,
         rebaseAttempts
<1>25. ASSUME NEW v \in Volumes, Diverge(v) PROVE (GoneInv /\ SideIsACopy)'
  BY <1>25, <1>1 DEF Diverge, markDiverged
<1>26. ASSUME NEW v \in Volumes, MarkPushed(v) PROVE (GoneInv /\ SideIsACopy)'
  BY <1>26, <1>1 DEF MarkPushed, AfterPush, DropLocals
<1>27. ASSUME NEW v \in Volumes, Publish(v) PROVE (GoneInv /\ SideIsACopy)'
  BY <1>27, <1>1 DEF Publish
<1>28. ASSUME NEW v \in Volumes, Republish(v) PROVE (GoneInv /\ SideIsACopy)'
  BY <1>28, <1>1 DEF Republish
<1>29. ASSUME NEW v \in Volumes, Commit(v) PROVE (GoneInv /\ SideIsACopy)'
  BY <1>29, <1>1, CommittedType, ConstantsAssumption DEF Commit, commit
<1>30. ASSUME NEW v \in Volumes, Unpublish(v) PROVE (GoneInv /\ SideIsACopy)'
  BY <1>30, <1>1, CommittedType, ConstantsAssumption DEF Unpublish, commit
<1>31. ASSUME NEW v \in Volumes, Unstage(v) PROVE (GoneInv /\ SideIsACopy)'
  BY <1>31, <1>1 DEF Unstage
<1>32. ASSUME NEW v \in Volumes, MarkUnstaged(v) PROVE (GoneInv /\ SideIsACopy)'
  BY <1>32, <1>1 DEF MarkUnstaged, Forget
<1>33. ASSUME NEW v \in Volumes, Sweep(v) PROVE (GoneInv /\ SideIsACopy)'
  BY <1>33, <1>1 DEF Sweep, Sweepable, HomeInv, RefHolds
<1>34. ASSUME NEW v \in Volumes, Crash(v) PROVE (GoneInv /\ SideIsACopy)'
  BY <1>34, <1>1 DEF Crash, Forget, DropLocals
<1>35. ASSUME NEW v \in Volumes, Resume(v) PROVE (GoneInv /\ SideIsACopy)'
  BY <1>35, <1>1 DEF Resume
<1>36. ASSUME NEW v \in Volumes, MergeSide(v) PROVE (GoneInv /\ SideIsACopy)'
  BY <1>36, <1>1 DEF MergeSide
<1>37. ASSUME NEW v \in Volumes, DeleteSide(v) PROVE (GoneInv /\ SideIsACopy)'
  BY <1>37, <1>1, ChangesOfEmpty DEF DeleteSide
<1>38. ASSUME NEW v \in Volumes, NEW change \in Writes, Write(v, change)
     PROVE  (GoneInv /\ SideIsACopy)'
  BY <1>38, <1>1 DEF Write
<1>39. ASSUME NEW change \in Foreign, OtherPush(change) PROVE (GoneInv /\ SideIsACopy)'
  BY <1>39, <1>1 DEF OtherPush
<1>40. ASSUME DeleteRef PROVE (GoneInv /\ SideIsACopy)'
  BY <1>40, <1>1 DEF DeleteRef
<1>41. ASSUME RestoreRef PROVE (GoneInv /\ SideIsACopy)'
  BY <1>41, <1>1 DEF RestoreRef
<1>42. CASE UNCHANGED vars
  BY <1>42, <1>1 DEF vars
<1> QED
  BY <1>2, <1>3, <1>4, <1>5, <1>6, <1>7, <1>8, <1>9, <1>10, <1>11, <1>12, <1>13, <1>14,
     <1>15, <1>16, <1>17, <1>18, <1>19, <1>20, <1>21, <1>22, <1>23, <1>24, <1>25,
          <1>26, <1>27, <1>28, <1>29, <1>30, <1>31, <1>32, <1>33, <1>34, <1>35, <1>36,
               <1>37, <1>38, <1>39, <1>40, <1>41, <1>42 DEF Next, StageStep, PushStep,
                    PodStep, OtherStep

\* All that holds of the volumes where the configuration can be written and,
\* if refs are deleted, no driver is killed.
DurableInv ==
    /\ TypeOK /\ ControlInv /\ PushedInv /\ NoCommitLost
    /\ DivergedInv /\ HomeInv /\ TreeKnowsInv /\ GoneInv /\ SideIsACopy

\* It holds in every reachable state.
LEMMA Durability ==
    ASSUME ~ConfigFails, RefDeletes => MaxCrashes = 0
    PROVE  Spec => []DurableInv
<1>1. Init => DurableInv
  <2> SUFFICES ASSUME Init PROVE DurableInv
    OBVIOUS
  <2>1. TypeOK
    BY TypeInit
  <2>2. ControlInv
    BY DEF Init, ControlInv, AttemptsLeft, CallInv, TreeInv, SideInv, DeletedInv,
           Staging, Pushing, rebaseAttempts
  <2>3. PushedInv
    BY DEF Init, PushedInv, UpstreamInv, SentInv, UnmarkedInv, PushedIsOnRemote,
           Staging, Pushing
  <2>4. NoCommitLost /\ DivergedInv /\ HomeInv
    BY DEF Init, NoCommitLost, DivergedInv, HomeInv, Staging
  <2>5. TreeKnowsInv /\ GoneInv /\ SideIsACopy
    BY ChangesOfEmpty DEF Init, TreeKnowsInv, GoneInv, SideIsACopy
  <2> QED
    BY <2>1, <2>2, <2>3, <2>4, <2>5 DEF DurableInv
<1>2. DurableInv /\ [Next]_vars => DurableInv'
  <2> SUFFICES ASSUME DurableInv, [Next]_vars PROVE DurableInv'
    OBVIOUS
  <2> USE DEF DurableInv
  <2>1. TypeOK'
    BY TypeStep DEF ControlInv
  <2>2. ControlInv' /\ NoCommitLost'
    BY ControlStep, KeepStep
  <2>3. PushedInv'
    BY <2>1, PushedStep
  <2>4. DivergedInv' /\ HomeInv' /\ TreeKnowsInv'
    BY DivergedStep, HomeStep, TreeKnowsStep
  <2>5. (GoneInv /\ SideIsACopy)'
    BY SideStep
  <2> QED
    BY <2>1, <2>2, <2>3, <2>4, <2>5
<1> QED
  BY <1>1, <1>2, PTL DEF Spec

\* What a sweep removed with a tree is on the ref, or was deleted with it. A
\* state on disk that cannot be written or cleared is excluded: a tree without
\* one may be swept while only its side branch has its work.
THEOREM SweepIsSafe ==
    ASSUME ~ConfigFails, RefDeletes => MaxCrashes = 0
    PROVE  Spec => []SweptIsOnRemote
<1>1. DurableInv => SweptIsOnRemote
  BY DEF DurableInv, HomeInv, SweptIsOnRemote, RefHolds, RemoteHolds
<1> QED
  BY <1>1, Durability, PTL

\* A side branch that removeSide deletes by its name is a copy of what the ref
\* and the tree hold (diverged.go, removeSide).
THEOREM RemovedSideIsACopy ==
    ASSUME ~ConfigFails, RefDeletes => MaxCrashes = 0
    PROVE  Spec => []SideIsACopy
<1>1. DurableInv => SideIsACopy
  BY DEF DurableInv
<1> QED
  BY <1>1, Durability, PTL

-----------------------------------------------------------------------------
(* The volumes implement DurableVolume *)

\* The mapping: what the commits of each tree hold, and what its mark covers.
Kept == [v \in Volumes |-> ChangesOf(head[v])]

Counted ==
    [v \in Volumes |-> IF tree[v] = "made" THEN ChangesOf(mark[v]) ELSE {}]

DurableStep == Durable!Next \/ UNCHANGED Durable!vars

\* A step that moves no work is none of DurableVolume's.
LEMMA StutterMaps ==
    ASSUME UNCHANGED <<pending, Kept, Counted, RemoteWork>>
    PROVE  UNCHANGED Durable!vars
  BY DEF Durable!vars, Kept, Counted

\* A tree that takes in what the remote holds, in the terms of the mapping.
LEMMA TakeMaps ==
    ASSUME NEW v \in Volumes,
           Kept[v] \subseteq Kept'[v], Kept'[v] \subseteq Kept[v] \cup RemoteWork,
           pending'[v] \subseteq pending[v],
           pending'[v] = pending[v] \/ Kept'[v] \subseteq RemoteWork,
           Kept' = [Kept EXCEPT ![v] = Kept'[v]],
           pending' = [pending EXCEPT ![v] = pending'[v]],
           UNCHANGED <<Counted, RemoteWork>>
    PROVE  Durable!Next
<1>1. Durable!Take(v)
  BY DEF Durable!Take, Kept, Counted
<1> QED
  BY <1>1 DEF Durable!Next

\* A mark that moves, in the terms of the mapping.
LEMMA CountMaps ==
    ASSUME NEW v \in Volumes,
           Counted'[v] \subseteq Kept[v] \cap RemoteWork,
           Counted' = [Counted EXCEPT ![v] = Counted'[v]],
           UNCHANGED <<pending, Kept, RemoteWork>>
    PROVE  Durable!Next
<1>1. Durable!Count(v)
  BY DEF Durable!Count, Kept, Counted
<1> QED
  BY <1>1 DEF Durable!Next

\* A tree that lands on the remote, in the terms of the mapping.
LEMMA LandMaps ==
    ASSUME NEW v \in Volumes,
           RemoteWork' = RemoteWork \cup Kept[v],
           UNCHANGED <<pending, Kept, Counted>>
    PROVE  Durable!Next
<1>1. Durable!Land(v)
  BY DEF Durable!Land, Kept, Counted
<1> QED
  BY <1>1 DEF Durable!Next

\* A branch that is removed, in the terms of the mapping.
LEMMA WithdrawMaps ==
    ASSUME NEW v \in Volumes,
           RemoteWork' \subseteq RemoteWork,
           RemoteWork \ RemoteWork' \subseteq Kept[v],
           \A w \in Volumes : Counted[w] \subseteq RemoteWork',
           UNCHANGED <<pending, Kept, Counted>>
    PROVE  Durable!Next
<1>1. Durable!Withdraw(v)
  BY DEF Durable!Withdraw, Kept, Counted
<1> QED
  BY <1>1 DEF Durable!Next

\* A tree that is removed, in the terms of the mapping.
LEMMA RemoveMaps ==
    ASSUME NEW v \in Volumes,
           Counted[v] = Kept[v],
           pending' = [pending EXCEPT ![v] = {}],
           Kept' = [Kept EXCEPT ![v] = {}],
           Counted' = [Counted EXCEPT ![v] = {}],
           UNCHANGED RemoteWork
    PROVE  Durable!Next
<1>1. Durable!Remove(v)
  BY DEF Durable!Remove, Kept, Counted
<1> QED
  BY <1>1 DEF Durable!Next

\* A commit, in the terms of the mapping.
LEMMA KeepMaps ==
    ASSUME NEW v \in Volumes, NEW work \in SUBSET pending[v],
           pending' = [pending EXCEPT ![v] = @ \ work],
           Kept' = [Kept EXCEPT ![v] = Kept[v] \cup work],
           UNCHANGED <<Counted, RemoteWork>>
    PROVE  Durable!Next
<1>1. Durable!Keep(v)
  BY DEF Durable!Keep, Kept, Counted
<1> QED
  BY <1>1 DEF Durable!Next

\* A pod's write, in the terms of the mapping.
LEMMA WriteMaps ==
    ASSUME NEW v \in Volumes, NEW change \in Writes,
           pending' = [pending EXCEPT ![v] = @ \cup {change}],
           UNCHANGED <<Kept, Counted, RemoteWork>>
    PROVE  Durable!Next
<1>1. Durable!Write(v, change)
  BY DEF Durable!Write, Kept, Counted
<1> QED
  BY <1>1 DEF Durable!Next

\* Another writer's push, in the terms of the mapping.
LEMMA OtherPushMaps ==
    ASSUME NEW change \in Foreign,
           RemoteWork' = RemoteWork \cup {change},
           UNCHANGED <<pending, Kept, Counted>>
    PROVE  Durable!Next
<1>1. Durable!OtherPush(change)
  BY DEF Durable!OtherPush, Kept, Counted
<1> QED
  BY <1>1 DEF Durable!Next

\* What the parts of the mapping depend on.
LEMMA Frames ==
    /\ UNCHANGED head => UNCHANGED Kept
    /\ UNCHANGED <<tree, mark>> => UNCHANGED Counted
    /\ UNCHANGED <<ref, refHere, side, gone>> => UNCHANGED RemoteWork
  BY DEF Kept, Counted, RemoteWork

\* What the ref and one volume's side branch hold, the remote holds.
LEMMA RemoteInWork ==
    /\ RefHolds \subseteq RemoteWork
    /\ \A v \in Volumes : RemoteHolds(v) \subseteq RemoteWork
  BY DEF RefHolds, RemoteHolds, RemoteWork

\* The copies a person makes of changes carry just those changes.
LEMMA ChangesOfCopies ==
    ASSUME NEW C
    PROVE  ChangesOf({ <<change, 0>> : change \in C }) = C
<1> DEFINE copies == { <<change, 0>> : change \in C }
<1>1. \A object \in copies : object[1] \in C
  OBVIOUS
<1>2. \A change \in C : \E object \in copies : object[1] = change
  <2> TAKE change \in C
  <2>1. <<change, 0>> \in copies /\ <<change, 0>>[1] = change
    OBVIOUS
  <2> QED
    BY <2>1
<1> HIDE DEF copies
<1>3. ChangesOf(copies) = C
  BY <1>1, <1>2 DEF ChangesOf
<1> QED
  BY <1>3 DEF copies

\* A tree that takes in what the ref holds takes an abstract step.
LEMMA TakesHead ==
    ASSUME TypeOK, NEW v \in Volumes, NEW new,
           head' = [head EXCEPT ![v] = new],
           ChangesOf(head[v]) \subseteq ChangesOf(new),
           ChangesOf(new) \subseteq ChangesOf(head[v]) \cup RefHolds,
           \/ UNCHANGED pending
           \/ /\ pending' = [pending EXCEPT ![v] = pending'[v]]
              /\ pending'[v] \subseteq pending[v]
              /\ ChangesOf(new) \subseteq RefHolds,
           UNCHANGED <<Counted, RemoteWork>>
    PROVE  DurableStep
<1>1. Kept' = [Kept EXCEPT ![v] = ChangesOf(new)] /\ Kept[v] = ChangesOf(head[v])
  BY DEF Kept, TypeOK, DiskType
<1>2. Kept'[v] = ChangesOf(new) /\ Kept' = [Kept EXCEPT ![v] = Kept'[v]]
  BY <1>1 DEF Kept
<1>3. /\ pending' = [pending EXCEPT ![v] = pending'[v]]
      /\ pending'[v] \subseteq pending[v]
      /\ pending'[v] = pending[v] \/ ChangesOf(new) \subseteq RefHolds
  BY DEF TypeOK, DiskType
<1> QED
  BY <1>1, <1>2, <1>3, RemoteInWork, TakeMaps DEF DurableStep

\* A tree that is marked with a commit of its own that is on the remote takes
\* an abstract step.
LEMMA CountsMark ==
    ASSUME TypeOK, NEW v \in Volumes, NEW commits,
           tree' = [tree EXCEPT ![v] = "made"],
           mark' = [mark EXCEPT ![v] = commits],
           ChangesOf(commits) \subseteq ChangesOf(head[v]),
           ChangesOf(commits) \subseteq RemoteWork,
           UNCHANGED <<pending, Kept, RemoteWork>>
    PROVE  DurableStep
<1>1. Counted' = [Counted EXCEPT ![v] = ChangesOf(commits)]
  BY DEF Counted, TypeOK, DiskType
<1>2. Counted'[v] = ChangesOf(commits) /\ Counted' = [Counted EXCEPT ![v] = Counted'[v]]
  BY <1>1 DEF Counted
<1> QED
  BY <1>2, CountMaps DEF Kept, DurableStep

\* A branch the remote takes adds what the tree holds, and nothing else: it
\* goes on from what the branch held.
LEMMA LandsInWork ==
    ASSUME TypeOK, SideInv, GoneInv, NEW v \in Volumes,
           receiveBranch(v), BranchTaken(v), UNCHANGED gone
    PROVE  RemoteWork' = RemoteWork \cup ChangesOf(head[v])
<1>1. CASE diverged[v]
  <2>1. side' = [side EXCEPT ![v] = head[v]] /\ UNCHANGED <<ref, refHere>>
    BY <1>1 DEF receiveBranch
  <2>2. ChangesOf(side[v]) \subseteq ChangesOf(head[v])
    BY <1>1, ChangesOfSubset, ChangesOfEmpty
       DEF BranchTaken, SideInv, FastForward, Ancestor
  <2>3. \A w \in Volumes : side'[w] = IF w = v THEN head[v] ELSE side[w]
    BY <2>1 DEF TypeOK, RemoteType
  <2> QED
    BY <2>1, <2>2, <2>3 DEF RemoteWork
<1>2. CASE ~diverged[v]
  <2>1. ref' = head[v] /\ refHere' = TRUE /\ UNCHANGED side
    BY <1>2 DEF receiveBranch
  <2>2. refHere => ChangesOf(ref) \subseteq ChangesOf(head[v])
    BY <1>2, ChangesOfSubset DEF BranchTaken, FastForward, Ancestor
  <2> QED
    BY <2>1, <2>2 DEF RemoteWork
<1> QED
  BY <1>1, <1>2

\* Every step of the volumes is a step of DurableVolume, or none.
LEMMA RefinementStep ==
    ASSUME DurableInv,
           [Next]_vars
    PROVE  DurableStep
<1> USE DEF Goto, At, remoteVars, recordVars, diskVars, memoryVars, localVars,
            storyVars, boundVars
<1> USE DEF DurableInv
<1>1. ASSUME NEW v \in Volumes, StageTree(v) PROVE DurableStep
  <2>1. CASE tree[v] = "unmarked"
    <3>1. /\ tree' = [tree EXCEPT ![v] = "made"] /\ mark' = [mark EXCEPT ![v] = head[v]]
          /\ UNCHANGED <<pending, head, ref, refHere, side, gone>>
      BY <1>1, <2>1 DEF StageTree
    <3>2. ChangesOf(head[v]) \subseteq RemoteWork
      BY <2>1, RemoteInWork DEF PushedInv, UnmarkedInv
    <3> QED
      BY <3>1, <3>2, Frames, CountsMark
  <2>2. CASE tree[v] # "unmarked"
    BY <1>1, <2>2, Frames, StutterMaps DEF StageTree, DurableStep
  <2> QED
    BY <2>1, <2>2
<1>2. ASSUME NEW v \in Volumes, RefDeleted(v) PROVE DurableStep
  BY <1>2, Frames, StutterMaps DEF RefDeleted, DurableStep
<1>3. ASSUME NEW v \in Volumes, StageRefused(v) PROVE DurableStep
  BY <1>3, Frames, StutterMaps DEF StageRefused, vars, DurableStep
<1>4. ASSUME NEW v \in Volumes, Create(v) PROVE DurableStep
  <2>1. tree[v] = "none" /\ tree' = [tree EXCEPT ![v] = "init"] /\ UNCHANGED mark
    BY <1>4 DEF Create, ControlInv, TreeInv
  <2>2. UNCHANGED Counted
    BY <2>1 DEF Counted
  <2> QED
    BY <1>4, <2>2, Frames, StutterMaps DEF Create, DurableStep
<1>5. ASSUME NEW v \in Volumes, Checkout(v) PROVE DurableStep
  <2>1. tree[v] = "init" /\ tree' = [tree EXCEPT ![v] = "unmarked"] /\ UNCHANGED mark
    BY <1>5 DEF Checkout, ControlInv, TreeInv
  <2>2. UNCHANGED Counted
    BY <2>1 DEF Counted
  <2>3. ChangesOf(head[v]) = {}
    BY <2>1, ChangesOfEmpty DEF TreeKnowsInv
  <2>4. ChangesOf(upstream[v]) \subseteq RefHolds
    BY <1>5 DEF Checkout, PushedInv, UpstreamInv, Staging
  <2>5. /\ head' = [head EXCEPT ![v] = upstream[v]]
        /\ UNCHANGED <<pending, ref, refHere, side, gone>>
    BY <1>5 DEF Checkout
  <2> QED
    BY <2>2, <2>3, <2>4, <2>5, Frames, TakesHead
<1>6. ASSUME NEW v \in Volumes, MarkCreated(v) PROVE DurableStep
  <2>1. /\ tree' = [tree EXCEPT ![v] = "made"]
        /\ mark' = [mark EXCEPT ![v] = upstream[v]]
        /\ UNCHANGED <<pending, head, ref, refHere, side, gone>>
    BY <1>6 DEF MarkCreated, TypeOK, DiskType
  <2>2. ChangesOf(upstream[v]) \subseteq ChangesOf(head[v]) \cap RemoteWork
    BY <1>6, RemoteInWork DEF MarkCreated, TreeKnowsInv, PushedInv, UpstreamInv, Staging
  <2> QED
    BY <2>1, <2>2, Frames, CountsMark
<1>7. ASSUME NEW v \in Volumes, Hold(v) PROVE DurableStep
  BY <1>7, Frames, StutterMaps DEF Hold, DropLocals, DurableStep
<1>8. ASSUME NEW v \in Volumes, HealReset(v) PROVE DurableStep
  <2>1. head' = [head EXCEPT ![v] = upstream[v]]
    BY <1>8 DEF HealReset, reset, TypeOK, DiskType
  <2>2. ChangesOf(head[v]) \subseteq ChangesOf(upstream[v])
    BY <1>8, ChangesOfSubset DEF HealReset, TreeIsUpstream, Ancestor
  <2>3. ChangesOf(upstream[v]) \subseteq RefHolds
    BY <1>8 DEF HealReset, PushedInv, UpstreamInv, Staging
  <2>4. /\ pending' = [pending EXCEPT ![v] = pending'[v]]
        /\ pending'[v] \subseteq pending[v]
    BY <1>8 DEF HealReset, reset, TypeOK, DiskType
  <2>5. UNCHANGED <<tree, mark, ref, refHere, side, gone>>
    BY <1>8 DEF HealReset
  <2> QED
    BY <2>1, <2>2, <2>3, <2>4, <2>5, Frames, TakesHead
<1>9. ASSUME NEW v \in Volumes, LeaveTree(v) PROVE DurableStep
  BY <1>9, Frames, StutterMaps DEF LeaveTree, DropLocals, DurableStep
<1>10. ASSUME NEW v \in Volumes, FastForwardTree(v) PROVE DurableStep
  <2>1. head' = [head EXCEPT ![v] = upstream[v]]
    BY <1>10 DEF FastForwardTree, reset, TypeOK, DiskType
  <2>2. ChangesOf(head[v]) \subseteq ChangesOf(upstream[v])
    BY <1>10, ChangesOfSubset DEF FastForwardTree, TreeIsUpstream, Ancestor
  <2>3. ChangesOf(upstream[v]) \subseteq RefHolds
    BY <1>10 DEF FastForwardTree, MayRewrite, PushedInv, UpstreamInv, Staging
  <2>4. /\ pending' = [pending EXCEPT ![v] = pending'[v]]
        /\ pending'[v] \subseteq pending[v]
    BY <1>10 DEF FastForwardTree, reset, TypeOK, DiskType
  <2>5. UNCHANGED <<tree, mark, ref, refHere, side, gone>>
    BY <1>10 DEF FastForwardTree
  <2> QED
    BY <2>1, <2>2, <2>3, <2>4, <2>5, Frames, TakesHead
<1>11. ASSUME NEW v \in Volumes, RebaseTree(v) PROVE DurableStep
  <2>1. CASE rebaseAside(v)
    <3>1. head' = [head EXCEPT ![v] = Replay(head[v], upstream[v])]
      BY <2>1 DEF rebaseAside
    <3>2. /\ ChangesOf(head[v]) \subseteq ChangesOf(head[v])'
          /\ ChangesOf(head[v])' \subseteq ChangesOf(head[v]) \cup ChangesOf(upstream[v])
      BY <2>1, RebaseKeeps, RebaseTakes
    <3>3. ChangesOf(upstream[v]) \subseteq RefHolds
      BY <1>11 DEF RebaseTree, MayRewrite, PushedInv, UpstreamInv, Staging, TreeKnowsInv
    <3>4. UNCHANGED <<pending, tree, mark, ref, refHere, side, gone>>
      BY <1>11 DEF RebaseTree
    <3> QED
      BY <3>1, <3>2, <3>3, <3>4, Frames, TakesHead
  <2>2. CASE rebaseAborted(v)
    BY <1>11, <2>2, Frames, StutterMaps DEF RebaseTree, rebaseAborted, DurableStep
  <2> QED
    BY <1>11, <2>1, <2>2 DEF RebaseTree
<1>12. ASSUME NEW v \in Volumes, StageMark(v) PROVE DurableStep
  <2>1. /\ tree' = [tree EXCEPT ![v] = "made"]
        /\ mark' = [mark EXCEPT ![v] = upstream[v]]
        /\ UNCHANGED <<pending, head, ref, refHere, side, gone>>
    BY <1>12
       DEF StageMark, MarkUpstream, PushedInv, UnmarkedInv, ControlInv, TreeInv,
           TypeOK, DiskType
  <2>2. ChangesOf(upstream[v]) \subseteq ChangesOf(head[v]) \cap RemoteWork
    BY <1>12, RemoteInWork DEF StageMark, TreeKnowsInv, PushedInv, UpstreamInv, Staging
  <2> QED
    BY <2>1, <2>2, Frames, CountsMark
<1>13. ASSUME NEW v \in Volumes, StageHealed(v) PROVE DurableStep
  BY <1>13, Frames, StutterMaps DEF StageHealed, DropLocals, DurableStep
<1>14. ASSUME NEW v \in Volumes, PushNow(v) PROVE DurableStep
  BY <1>14, Frames, StutterMaps DEF PushNow, DurableStep
<1>15. ASSUME NEW v \in Volumes, PushSkipped(v) PROVE DurableStep
  BY <1>15, Frames, StutterMaps DEF PushSkipped, AfterPush, DurableStep
<1>16. ASSUME NEW v \in Volumes, HealFetch(v) PROVE DurableStep
  BY <1>16, Frames, StutterMaps DEF HealFetch, fetchUpstream, fetchFails, Fault, DurableStep
<1>17. ASSUME NEW v \in Volumes, HealRebase(v) PROVE DurableStep
  <2>1. CASE rebaseAside(v)
    <3>1. head' = [head EXCEPT ![v] = Replay(head[v], upstream[v])]
      BY <2>1 DEF rebaseAside
    <3>2. /\ ChangesOf(head[v]) \subseteq ChangesOf(head[v])'
          /\ ChangesOf(head[v])' \subseteq ChangesOf(head[v]) \cup ChangesOf(upstream[v])
      BY <2>1, RebaseKeeps, RebaseTakes
    <3>3. ChangesOf(upstream[v]) \subseteq RefHolds
      BY <1>17 DEF HealRebase, PushedInv, UpstreamInv, Staging, TreeKnowsInv
    <3>4. UNCHANGED <<pending, tree, mark, ref, refHere, side, gone>>
      BY <1>17 DEF HealRebase
    <3> QED
      BY <3>1, <3>2, <3>3, <3>4, Frames, TakesHead
  <2>2. CASE rebaseAborted(v)
    BY <1>17, <2>2, Frames, StutterMaps DEF HealRebase, rebaseAborted, DurableStep
  <2> QED
    BY <1>17, <2>1, <2>2 DEF HealRebase
<1>18. ASSUME NEW v \in Volumes, RemoveSide(v) PROVE DurableStep
  <2>1. UNCHANGED <<pending, head, tree, mark, ref, refHere, gone>>
    BY <1>18 DEF RemoveSide
  <2>2. CASE side' = [side EXCEPT ![v] = {}]
    <3>1. /\ RemoteWork' \subseteq RemoteWork
          /\ RemoteWork \subseteq RemoteWork' \cup ChangesOf(side[v])
          /\ RefHolds \subseteq RemoteWork'
          /\ \A w \in Volumes : w # v => ChangesOf(side[w]) \subseteq RemoteWork'
      BY <2>1, <2>2, ChangesOfEmpty DEF RemoteWork, RefHolds
    <3>2. ChangesOf(ref) \cup gone \subseteq RemoteWork'
      BY <3>1 DEF GoneInv, RefHolds
    <3>3. RemoteWork \ RemoteWork' \subseteq Kept[v]
      BY <3>1, <3>2 DEF SideIsACopy, Kept
    <3>4. \A w \in Volumes : Counted[w] \subseteq RemoteWork'
      <4> SUFFICES ASSUME NEW w \in Volumes, tree[w] = "made"
                   PROVE  ChangesOf(mark[w]) \subseteq RemoteWork'
        BY DEF Counted
      <4>1. CASE w = v
        BY <1>18, <3>1, <4>1 DEF RemoveSide, PushedInv, UpstreamInv
      <4>2. CASE w # v
        BY <3>1, <4>2 DEF PushedInv, PushedIsOnRemote, RemoteHolds, RefHolds
      <4> QED
        BY <4>1, <4>2
    <3> QED
      BY <2>1, <3>1, <3>3, <3>4, Frames, WithdrawMaps DEF DurableStep
  <2>3. CASE UNCHANGED side
    BY <2>1, <2>3, Frames, StutterMaps DEF DurableStep
  <2> QED
    BY <1>18, <2>2, <2>3 DEF RemoveSide
<1>19. ASSUME NEW v \in Volumes, Healed(v) PROVE DurableStep
  BY <1>19, Frames, StutterMaps DEF Healed, DurableStep
<1>20. ASSUME NEW v \in Volumes, SendTo(v) PROVE DurableStep
  <2>1. CASE receiveBranch(v) /\ BranchTaken(v)
    <3>1. RemoteWork' = RemoteWork \cup ChangesOf(head[v])
      BY <1>20, <2>1, LandsInWork DEF SendTo, ControlInv
    <3>2. UNCHANGED <<pending, head, tree, mark>>
      BY <1>20 DEF SendTo
    <3> QED
      BY <3>1, <3>2, Frames, LandMaps DEF Kept, DurableStep
  <2>2. CASE UNCHANGED <<ref, refHere, side>>
    BY <1>20, <2>2, Frames, StutterMaps DEF SendTo, DurableStep
  <2> QED
    BY <1>20, <2>1, <2>2 DEF SendTo, DropLocals, sendFails, receive, receiveBranch
<1>21. ASSUME NEW v \in Volumes, RetryFetch(v) PROVE DurableStep
  BY <1>21, Frames, StutterMaps
     DEF RetryFetch, fetchUpstream, fetchFails, Fault, DurableStep
<1>22. ASSUME NEW v \in Volumes, RetryRebase(v) PROVE DurableStep
  <2>1. CASE rebaseAside(v)
    <3>1. head' = [head EXCEPT ![v] = Replay(head[v], upstream[v])]
      BY <2>1 DEF rebaseAside
    <3>2. /\ ChangesOf(head[v]) \subseteq ChangesOf(head[v])'
          /\ ChangesOf(head[v])' \subseteq ChangesOf(head[v]) \cup ChangesOf(upstream[v])
      BY <2>1, RebaseKeeps, RebaseTakes
    <3>3. ChangesOf(upstream[v]) \subseteq RefHolds
      BY <1>22 DEF RetryRebase, PushedInv, UpstreamInv, Staging, TreeKnowsInv
    <3>4. UNCHANGED <<pending, tree, mark, ref, refHere, side, gone>>
      BY <1>22 DEF RetryRebase
    <3> QED
      BY <3>1, <3>2, <3>3, <3>4, Frames, TakesHead
  <2>2. CASE rebaseAborted(v)
    BY <1>22, <2>2, Frames, StutterMaps DEF RetryRebase, rebaseAborted, DurableStep
  <2> QED
    BY <1>22, <2>1, <2>2 DEF RetryRebase
<1>23. ASSUME NEW v \in Volumes, Resend(v) PROVE DurableStep
  <2>1. CASE receiveBranch(v) /\ BranchTaken(v)
    <3>1. RemoteWork' = RemoteWork \cup ChangesOf(head[v])
      BY <1>23, <2>1, LandsInWork DEF Resend, ControlInv
    <3>2. UNCHANGED <<pending, head, tree, mark>>
      BY <1>23 DEF Resend
    <3> QED
      BY <3>1, <3>2, Frames, LandMaps DEF Kept, DurableStep
  <2>2. CASE UNCHANGED <<ref, refHere, side>>
    BY <1>23, <2>2, Frames, StutterMaps DEF Resend, DurableStep
  <2> QED
    BY <1>23, <2>1, <2>2 DEF Resend, sendFails, receive, receiveBranch
<1>24. ASSUME NEW v \in Volumes, Diverge(v) PROVE DurableStep
  BY <1>24, Frames, StutterMaps DEF Diverge, markDiverged, DurableStep
<1>25. ASSUME NEW v \in Volumes, MarkPushed(v) PROVE DurableStep
  <2>1. /\ tree' = [tree EXCEPT ![v] = "made"]
        /\ mark' = [mark EXCEPT ![v] = sent[v]]
        /\ UNCHANGED <<pending, head, ref, refHere, side, gone>>
    BY <1>25 DEF MarkPushed, PushedInv, UnmarkedInv, ControlInv, TreeInv, TypeOK, DiskType
  <2>2. ChangesOf(sent[v]) \subseteq ChangesOf(head[v]) \cap RemoteWork
    BY <1>25, RemoteInWork DEF MarkPushed, TreeKnowsInv, PushedInv, SentInv
  <2> QED
    BY <2>1, <2>2, Frames, CountsMark
<1>26. ASSUME NEW v \in Volumes, Publish(v) PROVE DurableStep
  BY <1>26, Frames, StutterMaps DEF Publish, DurableStep
<1>27. ASSUME NEW v \in Volumes, Republish(v) PROVE DurableStep
  BY <1>27, Frames, StutterMaps DEF Republish, DurableStep
<1>28. ASSUME NEW v \in Volumes, Commit(v) PROVE DurableStep
  <2>1. PICK work \in SUBSET pending[v] : commit(v, work)
    BY <1>28 DEF Commit
  <2>2. Kept' = [Kept EXCEPT ![v] = Kept[v] \cup work]
    <3>1. work \in SUBSET Changes /\ head[v] \in Histories
      BY ConstantsAssumption DEF TypeOK, DiskType
    <3>2. ChangesOf(Committed(head[v], work)) = ChangesOf(head[v]) \cup work
      BY <3>1, CommittedType
    <3> QED
      BY <2>1, <3>2 DEF commit, Kept, TypeOK, DiskType
  <2>3. UNCHANGED <<tree, mark, ref, refHere, side, gone>>
    BY <1>28 DEF Commit
  <2> QED
    BY <2>1, <2>2, <2>3, Frames, KeepMaps DEF commit, DurableStep
<1>29. ASSUME NEW v \in Volumes, Unpublish(v) PROVE DurableStep
  <2>1. PICK work \in SUBSET pending[v] : commit(v, work)
    BY <1>29 DEF Unpublish
  <2>2. Kept' = [Kept EXCEPT ![v] = Kept[v] \cup work]
    <3>1. work \in SUBSET Changes /\ head[v] \in Histories
      BY ConstantsAssumption DEF TypeOK, DiskType
    <3>2. ChangesOf(Committed(head[v], work)) = ChangesOf(head[v]) \cup work
      BY <3>1, CommittedType
    <3> QED
      BY <2>1, <3>2 DEF commit, Kept, TypeOK, DiskType
  <2>3. UNCHANGED <<tree, mark, ref, refHere, side, gone>>
    BY <1>29 DEF Unpublish
  <2> QED
    BY <2>1, <2>2, <2>3, Frames, KeepMaps DEF commit, DurableStep
<1>30. ASSUME NEW v \in Volumes, Unstage(v) PROVE DurableStep
  BY <1>30, Frames, StutterMaps DEF Unstage, DurableStep
<1>31. ASSUME NEW v \in Volumes, MarkUnstaged(v) PROVE DurableStep
  BY <1>31, Frames, StutterMaps DEF MarkUnstaged, Forget, DurableStep
<1>32. ASSUME NEW v \in Volumes, Sweep(v) PROVE DurableStep
  <2>1. UNCHANGED <<ref, refHere, side, gone>>
    BY <1>32 DEF Sweep
  <2>2. Counted[v] = Kept[v]
    BY <1>32 DEF Sweep, Sweepable, Counted, Kept
  <2>3. Kept' = [Kept EXCEPT ![v] = {}] /\ Counted' = [Counted EXCEPT ![v] = {}]
    BY <1>32, ChangesOfEmpty DEF Sweep, Counted, Kept, TypeOK, DiskType
  <2> QED
    BY <1>32, <2>1, <2>2, <2>3, Frames, RemoveMaps DEF Sweep, DurableStep
<1>33. ASSUME NEW v \in Volumes, Crash(v) PROVE DurableStep
  BY <1>33, Frames, StutterMaps DEF Crash, Forget, DropLocals, DurableStep
<1>34. ASSUME NEW v \in Volumes, Resume(v) PROVE DurableStep
  BY <1>34, Frames, StutterMaps DEF Resume, DurableStep
<1>35. ASSUME NEW v \in Volumes, MergeSide(v) PROVE DurableStep
  <2>1. ChangesOf(ref)' = ChangesOf(ref) \cup ChangesOf(side[v])
    <3>1. CASE ref' = ref \cup side[v]
      BY <3>1, ChangesOfUnion
    <3>2. CASE ref' = ref \cup { <<change, 0>> : change \in ChangesOf(side[v])
                                                           \ ChangesOf(ref) }
      <4> DEFINE missing == ChangesOf(side[v]) \ ChangesOf(ref)
                 copies == { <<change, 0>> : change \in missing }
      <4>1. ChangesOf(copies) = missing
        BY ChangesOfCopies
      <4> HIDE DEF copies
      <4>2. ChangesOf(ref \cup copies) = ChangesOf(ref) \cup ChangesOf(copies)
        BY ChangesOfUnion
      <4> QED
        BY <3>2, <4>1, <4>2 DEF copies
    <3> QED
      BY <1>35, <3>1, <3>2 DEF MergeSide
  <2>2. UNCHANGED RemoteWork
    BY <1>35, <2>1 DEF MergeSide, RemoteWork
  <2> QED
    BY <1>35, <2>2, Frames, StutterMaps DEF MergeSide, DurableStep
<1>36. ASSUME NEW v \in Volumes, DeleteSide(v) PROVE DurableStep
  <2>1. UNCHANGED RemoteWork
    BY <1>36, ChangesOfEmpty DEF DeleteSide, RemoteWork
  <2> QED
    BY <1>36, <2>1, Frames, StutterMaps DEF DeleteSide, DurableStep
<1>37. ASSUME NEW v \in Volumes, NEW change \in Writes, Write(v, change)
     PROVE  DurableStep
  <2>1. UNCHANGED <<head, tree, mark, ref, refHere, side, gone>>
    BY <1>37 DEF Write
  <2> QED
    BY <1>37, <2>1, Frames, WriteMaps DEF Write, DurableStep
<1>38. ASSUME NEW change \in Foreign, OtherPush(change) PROVE DurableStep
  <2>1. ChangesOf(ref)' = ChangesOf(ref) \cup {change}
    BY <1>38, CommittedType, ConstantsAssumption DEF OtherPush, TypeOK, RemoteType
  <2>2. RemoteWork' = RemoteWork \cup {change}
    BY <1>38, <2>1 DEF OtherPush, RemoteWork
  <2>3. UNCHANGED <<pending, head, tree, mark>>
    BY <1>38 DEF OtherPush
  <2> QED
    BY <2>2, <2>3, Frames, OtherPushMaps DEF DurableStep
<1>39. ASSUME DeleteRef PROVE DurableStep
  <2>1. UNCHANGED RemoteWork
    BY <1>39 DEF DeleteRef, RemoteWork
  <2> QED
    BY <1>39, <2>1, Frames, StutterMaps DEF DeleteRef, DurableStep
<1>40. ASSUME RestoreRef PROVE DurableStep
  <2>1. UNCHANGED RemoteWork
    BY <1>40 DEF RestoreRef, RemoteWork, GoneInv
  <2> QED
    BY <1>40, <2>1, Frames, StutterMaps DEF RestoreRef, DurableStep
<1>41. CASE UNCHANGED vars
  BY <1>41, Frames, StutterMaps DEF vars, DurableStep
<1> QED
  BY <1>1, <1>2, <1>3, <1>4, <1>5, <1>6, <1>7, <1>8, <1>9, <1>10, <1>11, <1>12, <1>13,
     <1>14, <1>15, <1>16, <1>17, <1>18, <1>19, <1>20, <1>21, <1>22, <1>23, <1>24,
          <1>25, <1>26, <1>27, <1>28, <1>29, <1>30, <1>31, <1>32, <1>33, <1>34, <1>35,
               <1>36, <1>37, <1>38, <1>39, <1>40, <1>41 DEF Next, StageStep, PushStep,
                    PodStep, OtherStep

\* The volumes implement DurableVolume: through every reset, rebase, push,
\* retry, heal, sweep and kill, committed work leaves a tree only for the
\* remote, nothing is counted that is not there, and what the driver takes off
\* the remote is in a tree and uncounted (push.go, diverged.go, sweep.go).
THEOREM VolumesAreDurable ==
    ASSUME ~ConfigFails, RefDeletes => MaxCrashes = 0
    PROVE  Spec => ImplementsDurable
<1>1. Init => Durable!Init
  <2> SUFFICES ASSUME Init PROVE Durable!Init
    OBVIOUS
  <2>1. /\ [v \in Volumes |-> ChangesOf(head[v])] = [v \in Volumes |-> {}]
        /\ [v \in Volumes |-> IF tree[v] = "made" THEN ChangesOf(mark[v]) ELSE {}]
           = [v \in Volumes |-> {}]
    BY ChangesOfEmpty DEF Init
  <2>2. RemoteWork = {}
    BY ChangesOfEmpty DEF Init, RemoteWork
  <2> QED
    BY <2>1, <2>2 DEF Init, Durable!Init
<1>2. DurableInv /\ [Next]_vars => [Durable!Next]_(Durable!vars)
  BY RefinementStep DEF DurableStep
<1> QED
  BY <1>1, <1>2, Durability, PTL DEF Spec, ImplementsDurable, Durable!Spec

=============================================================================
