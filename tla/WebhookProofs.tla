--------------------------- MODULE WebhookProofs ---------------------------
(***************************************************************************)
(* Proofs about Webhook, for any number of volumes and requests, any match *)
(* and any bounds: a push stands as a demand, the marks of racing handlers *)
(* take a demand back by no more than the deadline, and a rotated Secret   *)
(* is taken inside the window.                                             *)
(*                                                                         *)
(* All rest on one fact about time: a call of a handler that is under way  *)
(* ends by the deadline, so what it read or stamped is at most that old    *)
(* when it lands.                                                          *)
(***************************************************************************)
EXTENDS Webhook, TLAPS

-----------------------------------------------------------------------------
(* The inductive invariant *)

\* A handler's call ends by its deadline, and what it brings is no older
\* than the handler.
CallInv(r) ==
    /\ pc[r] = "read" =>
           /\ now <= begun[r] + Deadline
           /\ value[r] # secret => begun[r] <= rotated
    /\ mark[r] # 0 =>
           /\ pc[r] = "mark" /\ todo[r] # {}
           /\ begun[r] <= mark[r] /\ now <= begun[r] + Deadline

\* An old value in the cache was put there by the deadline of a handler that
\* read it before the rotation.
CacheInv ==
    held.value # 0 /\ held.value # secret => held.read <= rotated + Deadline

VerifyInv(r) ==
    pc[r] = "verify" /\ value[r] # secret => begun[r] < rotated + TTL + Deadline

SecretInv == CacheInv /\ \A r \in Requests : CallInv(r) /\ VerifyInv(r)

\* The demand on v is one the push of r may rely on.
Stands(r, v) == stamp[v] + Deadline >= sent[r] /\ stamp[v] # 0

\* A push counts on the volumes its handler, or the start after it was lost,
\* has come to.
PushInv(r) ==
    /\ pc[r] = "mark" =>
           \A v \in Volumes : Matches(v) => v \in todo[r] \/ Stands(r, v)
    /\ pc[r] = "accepted" => \A v \in Volumes : Matches(v) => Stands(r, v)
    /\ pc[r] = "lost" /\ phase = "demanding" =>
           \A v \in Volumes : Matches(v) => v \in unmarked \/ Stands(r, v)
    /\ pc[r] = "lost" /\ phase = "serving" =>
           \A v \in Volumes : Matches(v) => Stands(r, v)

DemandInv == \A r \in Requests \ logged : PushInv(r)

-----------------------------------------------------------------------------
(* Types *)

\* The ranges of the clock, the calls and the marks.
THEOREM WebhookTyped == Spec => []TypeOK
<1> USE WebhookAssumption
<1>1. Init => TypeOK
  BY DEF Init, TypeOK, Secrets, Times, Every, NotHeld
<1>2. TypeOK /\ [Next]_vars => TypeOK'
  <2> SUFFICES ASSUME TypeOK, [Next]_vars PROVE TypeOK'
    OBVIOUS
  <2> USE DEF TypeOK, Secrets, Times, clusterVars, controllerVars, requestVars,
              NotHeld, Goto, Fault
  <2>1. ASSUME NEW r \in Requests, Send(r) PROVE TypeOK'
    BY <2>1 DEF Send
  <2>2. ASSUME NEW r \in Requests, Begin(r) PROVE TypeOK'
    BY <2>2 DEF Begin
  <2>3. ASSUME NEW r \in Requests, TakeCached(r) PROVE TypeOK'
    BY <2>3 DEF TakeCached
  <2>4. ASSUME NEW r \in Requests, ReadSecret(r) PROVE TypeOK'
    BY <2>4 DEF ReadSecret
  <2>5. ASSUME NEW r \in Requests, Remember(r) PROVE TypeOK'
    BY <2>5 DEF Remember
  <2>6. ASSUME NEW r \in Requests, CallFails(r) PROVE TypeOK'
    BY <2>6 DEF CallFails
  <2>7. ASSUME NEW r \in Requests, Verify(r) PROVE TypeOK'
    BY <2>7 DEF Verify
  <2>8. ASSUME NEW r \in Requests, List(r) PROVE TypeOK'
    BY <2>8 DEF List
  <2>9. ASSUME NEW r \in Requests, Stamp(r) PROVE TypeOK'
    BY <2>9 DEF Stamp
  <2>10. ASSUME NEW r \in Requests, Patch(r) PROVE TypeOK'
    BY <2>10 DEF Patch
  <2>11. ASSUME NEW r \in Requests, PatchFails(r) PROVE TypeOK'
    BY <2>11 DEF PatchFails
  <2>12. ASSUME NEW r \in Requests, Accept(r) PROVE TypeOK'
    BY <2>12 DEF Accept
  <2>13. ASSUME StartUp \/ StartLists \/ StartListFails \/ Serve PROVE TypeOK'
    BY <2>13 DEF StartUp, StartLists, StartListFails, Serve, Lost
  <2>14. ASSUME NEW v \in Volumes, StartMarks(v) \/ StartMarkFails(v) PROVE TypeOK'
    BY <2>14 DEF StartMarks, StartMarkFails, Lost
  <2>15. ASSUME Rotate PROVE TypeOK'
    BY <2>15 DEF Rotate
  <2>16. ASSUME Tick PROVE TypeOK'
    BY <2>16 DEF Tick
  <2>17. ASSUME Crash PROVE TypeOK'
    BY <2>17 DEF Crash, Every
  <2>18. CASE UNCHANGED vars
    BY <2>18 DEF vars
  <2> QED
    BY <2>1, <2>2, <2>3, <2>4, <2>5, <2>6, <2>7, <2>8, <2>9, <2>10, <2>11, <2>12,
       <2>13, <2>14, <2>15, <2>16, <2>17, <2>18 DEF Next, Handler, Start
<1> QED
  BY <1>1, <1>2, PTL DEF Spec

-----------------------------------------------------------------------------
(* The Secret *)

LEMMA SecretStep == TypeOK /\ SecretInv /\ [Next]_vars => SecretInv'
<1> USE WebhookAssumption
<1>1. SUFFICES ASSUME TypeOK, SecretInv, [Next]_vars PROVE SecretInv'
  OBVIOUS
<1>2. QED
  <2> USE <1>1 DEF TypeOK, Secrets, Times, clusterVars, controllerVars, requestVars,
                   NotHeld, Goto, Fault, SecretInv, CacheInv, CallInv, VerifyInv
  <2>1. ASSUME NEW r \in Requests, Send(r) PROVE SecretInv'
    BY <2>1 DEF Send
  <2>2. ASSUME NEW r \in Requests, Begin(r) PROVE SecretInv'
    BY <2>2 DEF Begin
  <2>3. ASSUME NEW r \in Requests, TakeCached(r) PROVE SecretInv'
    BY <2>3 DEF TakeCached, Fresh
  <2>4. ASSUME NEW r \in Requests, ReadSecret(r) PROVE SecretInv'
    BY <2>4 DEF ReadSecret, Expired
  <2>5. ASSUME NEW r \in Requests, Remember(r) PROVE SecretInv'
    BY <2>5 DEF Remember
  <2>6. ASSUME NEW r \in Requests, CallFails(r) PROVE SecretInv'
    BY <2>6 DEF CallFails
  <2>7. ASSUME NEW r \in Requests, Verify(r) PROVE SecretInv'
    BY <2>7 DEF Verify
  <2>8. ASSUME NEW r \in Requests, List(r) PROVE SecretInv'
    BY <2>8 DEF List
  <2>9. ASSUME NEW r \in Requests, Stamp(r) PROVE SecretInv'
    BY <2>9 DEF Stamp, Expired
  <2>10. ASSUME NEW r \in Requests, Patch(r) PROVE SecretInv'
    BY <2>10 DEF Patch
  <2>11. ASSUME NEW r \in Requests, PatchFails(r) PROVE SecretInv'
    BY <2>11 DEF PatchFails
  <2>12. ASSUME NEW r \in Requests, Accept(r) PROVE SecretInv'
    BY <2>12 DEF Accept
  <2>13. ASSUME StartUp \/ StartLists \/ StartListFails \/ Serve PROVE SecretInv'
    BY <2>13 DEF StartUp, StartLists, StartListFails, Serve
  <2>14. ASSUME NEW v \in Volumes, StartMarks(v) \/ StartMarkFails(v) PROVE SecretInv'
    BY <2>14 DEF StartMarks, StartMarkFails
  <2>15. ASSUME Rotate PROVE SecretInv'
    BY <2>15 DEF Rotate
  <2>16. ASSUME Tick PROVE SecretInv'
    BY <2>16 DEF Tick, Expired
  <2>17. ASSUME Crash PROVE SecretInv'
    BY <2>17 DEF Crash, Every
  <2>18. CASE UNCHANGED vars
    BY <2>18 DEF vars
  <2> QED
    BY <2>1, <2>2, <2>3, <2>4, <2>5, <2>6, <2>7, <2>8, <2>9, <2>10, <2>11, <2>12,
       <2>13, <2>14, <2>15, <2>16, <2>17, <2>18 DEF Next, Handler, Start

\* What a handler's call brings is at most a deadline old, and the cache
\* holds no value that was rotated more than a TTL and a deadline ago.
LEMMA SecretAlways == Spec => [](TypeOK /\ SecretInv)
<1>1. Init => SecretInv
  BY WebhookAssumption
     DEF Init, SecretInv, CacheInv, CallInv, VerifyInv, Every, NotHeld
<1> QED
  BY <1>1, WebhookTyped, SecretStep, PTL DEF Spec

\* A request whose handler begins a TTL and a deadline after a rotation is
\* verified against the new value.
THEOREM RotationTaken == Spec => []SecretIsTaken
<1>1. TypeOK /\ SecretInv => SecretIsTaken
  BY WebhookAssumption DEF TypeOK, Times, SecretInv, VerifyInv, SecretIsTaken
<1> QED
  BY <1>1, SecretAlways, PTL

-----------------------------------------------------------------------------
(* The demands *)

\* A patch lands within the deadline of the handler that stamped it.
LEMMA PatchIsRecent ==
    ASSUME TypeOK, SecretInv, NEW r \in Requests, Patch(r)
    PROVE  \E v \in Volumes, time \in 1..now :
               time + Deadline >= now /\ stamp' = [stamp EXCEPT ![v] = time]
<1>1. PICK v \in todo[r] : stamp' = [stamp EXCEPT ![v] = mark[r]]
  BY DEF Patch
<1>2. v \in Volumes /\ mark[r] \in 1..now
  BY DEF TypeOK, Patch, Times
<1>3. mark[r] + Deadline >= now
  BY <1>2, WebhookAssumption DEF TypeOK, SecretInv, CallInv, Patch, Times
<1> QED
  BY <1>1, <1>2, <1>3

\* Marks of racing handlers take a demand back by no more than the deadline.
THEOREM MarksInOrder == Spec => MarksNearlyInOrder
<1>1. TypeOK /\ SecretInv /\ [Next]_vars
      => [\A v \in Volumes : stamp'[v] + Deadline >= stamp[v]]_vars
  <2> SUFFICES ASSUME TypeOK, SecretInv, [Next]_vars, NEW w \in Volumes, ~UNCHANGED vars
               PROVE  stamp'[w] + Deadline >= stamp[w]
    OBVIOUS
  <2> USE WebhookAssumption DEF TypeOK, Times
  <2>1. ASSUME NEW r \in Requests, Patch(r) PROVE stamp'[w] + Deadline >= stamp[w]
    BY <2>1, PatchIsRecent
  <2>2. ASSUME NEW v \in Volumes, StartMarks(v) PROVE stamp'[w] + Deadline >= stamp[w]
    BY <2>2 DEF StartMarks
  <2>3. CASE UNCHANGED stamp
    BY <2>3
  <2> QED
    BY <2>1, <2>2, <2>3
       DEF Next, Handler, Start, Send, Begin, TakeCached, ReadSecret, Remember,
           CallFails, Verify, List, Stamp, PatchFails, Accept, StartUp, StartLists,
           StartListFails, Serve, StartMarkFails, Rotate, Tick, Crash, clusterVars
<1> QED
  BY <1>1, SecretAlways, PTL DEF Spec, MarksNearlyInOrder

LEMMA DemandStep == TypeOK /\ SecretInv /\ DemandInv /\ [Next]_vars => DemandInv'
<1> USE WebhookAssumption
<1>1. SUFFICES ASSUME TypeOK, SecretInv, DemandInv, [Next]_vars PROVE DemandInv'
  OBVIOUS
<1>2. QED
  <2> USE <1>1 DEF TypeOK, Secrets, Times, clusterVars, controllerVars, requestVars,
                   Goto, Fault, DemandInv, PushInv, Stands
  <2>1. ASSUME NEW r \in Requests, Send(r) PROVE DemandInv'
    BY <2>1 DEF Send
  <2>2. ASSUME NEW r \in Requests, Begin(r) PROVE DemandInv'
    BY <2>2 DEF Begin
  <2>3. ASSUME NEW r \in Requests, TakeCached(r) PROVE DemandInv'
    BY <2>3 DEF TakeCached
  <2>4. ASSUME NEW r \in Requests, ReadSecret(r) PROVE DemandInv'
    BY <2>4 DEF ReadSecret
  <2>5. ASSUME NEW r \in Requests, Remember(r) PROVE DemandInv'
    BY <2>5 DEF Remember
  <2>6. ASSUME NEW r \in Requests, CallFails(r) PROVE DemandInv'
    BY <2>6 DEF CallFails
  <2>7. ASSUME NEW r \in Requests, Verify(r) PROVE DemandInv'
    BY <2>7 DEF Verify
  <2>8. ASSUME NEW r \in Requests, List(r) PROVE DemandInv'
    BY <2>8 DEF List
  <2>9. ASSUME NEW r \in Requests, Stamp(r) PROVE DemandInv'
    BY <2>9 DEF Stamp
  <2>10. ASSUME NEW r \in Requests, Patch(r) PROVE DemandInv'
    <3>1. PICK v \in todo[r] : /\ stamp' = [stamp EXCEPT ![v] = mark[r]]
                               /\ todo' = [todo EXCEPT ![r] = @ \ {v}]
      BY <2>10 DEF Patch
    <3>2. mark[r] \in 1..now /\ mark[r] + Deadline >= now /\ pc[r] = "mark"
      BY <2>10 DEF Patch, SecretInv, CallInv
    <3>3. \A q \in Requests, w \in Volumes : Stands(q, w) => Stands(q, w)'
      BY <2>10, <3>1, <3>2 DEF Patch
    <3>4. \A q \in Requests : Stands(q, v)'
      BY <2>10, <3>1, <3>2 DEF Patch
    <3> QED
      BY <2>10, <3>1, <3>3, <3>4 DEF Patch
  <2>11. ASSUME NEW r \in Requests, PatchFails(r) PROVE DemandInv'
    BY <2>11 DEF PatchFails
  <2>12. ASSUME NEW r \in Requests, Accept(r) PROVE DemandInv'
    BY <2>12 DEF Accept
  <2>13. ASSUME StartUp \/ StartListFails \/ Serve PROVE DemandInv'
    BY <2>13 DEF StartUp, StartListFails, Serve, Lost
  <2>14. ASSUME StartLists PROVE DemandInv'
    <3>1. \A v \in Volumes : Matches(v) => ReadOnlyClaim(v)
      BY DEF Matches
    <3> QED
      BY <2>14, <3>1 DEF StartLists
  <2>15. ASSUME NEW v \in Volumes, StartMarks(v) PROVE DemandInv'
    BY <2>15 DEF StartMarks
  <2>16. ASSUME NEW v \in Volumes, StartMarkFails(v) PROVE DemandInv'
    BY <2>16 DEF StartMarkFails, Lost
  <2>17. ASSUME Rotate PROVE DemandInv'
    BY <2>17 DEF Rotate
  <2>18. ASSUME Tick PROVE DemandInv'
    BY <2>18 DEF Tick
  <2>19. ASSUME Crash PROVE DemandInv'
    BY <2>19 DEF Crash
  <2>20. CASE UNCHANGED vars
    BY <2>20 DEF vars
  <2> QED
    BY <2>1, <2>2, <2>3, <2>4, <2>5, <2>6, <2>7, <2>8, <2>9, <2>10, <2>11, <2>12,
       <2>13, <2>15, <2>16, <2>17, <2>18, <2>19, <2>20, <2>14 DEF Next, Handler, Start

\* A push that was accepted, or lost before a start, stands as a demand on
\* every volume it names.
THEOREM PushesStand == Spec => []PushStands
<1>1. Init => DemandInv
  BY DEF Init, DemandInv, PushInv, Every
<1>2. DemandInv => PushStands
  BY DEF DemandInv, PushInv, PushStands, Demanded, Stands
<1> QED
  BY <1>1, <1>2, SecretAlways, DemandStep, PTL DEF Spec

=============================================================================
