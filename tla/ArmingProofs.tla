---------------------------- MODULE ArmingProofs ----------------------------
(***************************************************************************)
(* Proofs about Arming, for any number of stages, classes, changes, writes *)
(* and kills: the reads never settle on an old copy of the claim, exactly  *)
(* the object the node holds has an arming loop, and a write in an armed   *)
(* tree always has something on its way that commits it.                   *)
(***************************************************************************)
EXTENDS Arming, TLAPS

-----------------------------------------------------------------------------
(* The inductive invariants *)

\* A volume that is not watched has no event, no slot and no timer.
IdleInv == watchers = None => timer = Off /\ ~event /\ ~changes /\ ~classed

\* Objects whose loop does not read yet, or is over, hold nothing.
FreshInv ==
    \A o \in Objects :
        loop[o] \in { "none", "find", "ended" } =>
            /\ taken[o] = Empty /\ latest[o] = Empty
            /\ offering[o] = Empty /\ offered[o] = Empty
            /\ rules[o] = None

\* A stage and an unstage of one volume do not overlap, and the cancel in
\* the map is that of the one there is.
CallsInv ==
    /\ staged = None \/ unstaging = None
    /\ staged # None => armings = staged
    /\ unstaging # None => armings = unstaging
    /\ staged = None /\ unstaging = None => armings = None
    /\ LoopIsStaged

\* With no copy on its way, what the slot holds is the newest, else what the
\* reads hold, else what is in force.
ReadInv ==
    \A o \in Objects :
        /\ loop[o] \in { "idle", "wake" } => taken[o] = Empty
        /\ offering[o] = Empty =>
               /\ latest[o] # Empty => latest[o] = offered[o]
               /\ latest[o] = Empty /\ taken[o] # Empty => taken[o] = offered[o]
               /\ latest[o] = Empty /\ taken[o] = Empty
                  => \A k \in offered[o] : rules[o] = RulesOf(k)

\* A timer that nothing is about to set again does not end before the rest.
RestInv ==
    /\ watchers # None /\ rules[watchers] # None
    /\ ~event /\ ~changes /\ ~classed /\ loop[watchers] # "wake"
    /\ timer \in Nat
    => quiet + timer >= rules[watchers]

-----------------------------------------------------------------------------
(* Rests and types *)

\* Every rest is one the quiet time can come to.
LEMMA RestsBounded ==
    /\ MaxRest \in Nat \ {0} /\ DriverRest <= MaxRest
    /\ \A r \in Rests : r \in 1..MaxRest
<1>1. PICK r \in AllRests : \A s \in AllRests : s <= r
  BY RestAssumption
<1>2. MaxRest \in AllRests /\ \A s \in AllRests : s <= MaxRest
  BY <1>1 DEF MaxRest
<1> QED
  BY <1>2, ArmingAssumption DEF AllRests

\* A class arms with a rest of its own or not at all.
LEMMA RulesInRests == \A k \in Names : RulesOf(k) \in Rests \cup {None}
  BY NoClassAssumption DEF Names, RulesOf, Rests, None

\* What the reads hold names one class.
LEMMA TakenNamed ==
    ASSUME NEW o \in Objects, taken[o] \in Slots, taken[o] # Empty
    PROVE  TakenName(o) \in Names /\ taken[o] = {TakenName(o)}
  BY DEF TakenName, Slots, Empty

\* A slot is empty or holds one copy.
LEMMA SlotsHold == Empty \in Slots /\ \A k \in Names : {k} \in Slots
  BY DEF Slots, Empty

\* The parts of TypeOK: the loops and the calls, and the watch of the tree.
LoopsOK ==
    /\ claim \in Names /\ there \subseteq Classes
    /\ made \in 0..MaxStages
    /\ staged \in 0..made /\ armings \in 0..made
    /\ watchers \in {None, staged} /\ unstaging \in 0..made
    /\ cancelled \subseteq 1..made
    /\ loop \in [Objects -> { "none", "find", "idle", "get", "arm", "wake",
                              "wait", "ended" }]
    /\ taken \in [Objects -> Slots] /\ latest \in [Objects -> Slots]
    /\ offering \in [Objects -> Slots] /\ offered \in [Objects -> Slots]
    /\ rules \in [Objects -> Rests \cup {None}]
    /\ moves \in 0..MaxChanges /\ writes \in 0..MaxWrites
    /\ crashes \in 0..MaxCrashes
    /\ \A o \in Objects : loop[o] \in { "get", "arm", "wait" } => taken[o] # Empty
    /\ \A o \in Objects : o > made => loop[o] = "none"

FlagsOK ==
    /\ dirty \in BOOLEAN /\ event \in BOOLEAN
    /\ changes \in BOOLEAN /\ classed \in BOOLEAN

ClockOK == quiet \in 0..MaxRest /\ timer \in 0..MaxRest \cup {Off, Unset}

ClockInv == ClockOK /\ IdleInv

TypeInv == LoopsOK /\ FlagsOK /\ ClockInv

\* The timer of a watched tree is set to a rest above zero.
LEMMA RestTyped ==
    ASSUME LoopsOK, watchers # None
    PROVE  watchers \in Objects /\ Rest \in 1..MaxRest
<1>1. watchers \in Objects
  BY ArmingAssumption DEF LoopsOK, Objects, None
<1>2. rules[watchers] \in Rests \cup {None}
  BY <1>1 DEF LoopsOK
<1>3. DriverRest \in 1..MaxRest
  BY RestsBounded, ArmingAssumption
<1> QED
  BY <1>1, <1>2, <1>3, RestsBounded DEF Rest

LEMMA LoopsStep ==
    LoopsOK /\ [Next]_vars => LoopsOK'
<1>1. SUFFICES ASSUME LoopsOK, [Next]_vars
               PROVE  LoopsOK'
  OBVIOUS
<1>2. QED
  <2> USE <1>1, ArmingAssumption, RulesInRests, SlotsHold
      DEF LoopsOK, Objects, None, clusterVars, nodeVars,
          readVars, slotVars, watchVars, boundVars
  <2>1. ASSUME NEW o \in Objects, FindClaim(o) PROVE LoopsOK'
    BY <2>1 DEF FindClaim, Goto
  <2>2. ASSUME NEW o \in Objects, Drain(o) PROVE LoopsOK'
    BY <2>2 DEF Drain
  <2>3. ASSUME NEW o \in Objects, Send(o) PROVE LoopsOK'
    BY <2>3 DEF Send
  <2>4. ASSUME NEW o \in Objects, Take(o) PROVE LoopsOK'
    BY <2>4 DEF Take, Goto
  <2>5. ASSUME NEW o \in Objects, ReadClass(o) PROVE LoopsOK'
    BY <2>5 DEF ReadClass, Goto
  <2>6. ASSUME NEW o \in Objects, ReadFails(o) PROVE LoopsOK'
    BY <2>6 DEF ReadFails, Goto
  <2>7. ASSUME NEW o \in Objects, Retry(o) PROVE LoopsOK'
    BY <2>7 DEF Retry, Goto
  <2>8. ASSUME NEW o \in Objects, ReportArmed(o) PROVE LoopsOK'
    <3>1. TakenName(o) \in Names
      BY <2>8, TakenNamed DEF ReportArmed
    <3> QED
      BY <2>8, <3>1 DEF ReportArmed, Goto
  <2>9. ASSUME NEW o \in Objects, ClassChanged(o) PROVE LoopsOK'
    BY <2>9 DEF ClassChanged, Goto
  <2>10. ASSUME NEW o \in Objects, LoopEnds(o) PROVE LoopsOK'
    BY <2>10 DEF LoopEnds, Goto
  <2>11. CASE ClaimMoves
    BY <2>11 DEF ClaimMoves
  <2>12. CASE ClassArrives
    BY <2>12 DEF ClassArrives
  <2>13. CASE Stage
    BY <2>13 DEF Stage, Arm
  <2>14. CASE Publish
    BY <2>14 DEF Publish, Watch
  <2>15. CASE Unpublish
    BY <2>15 DEF Unpublish, Unwatched
  <2>16. CASE UnstageBegins
    BY <2>16 DEF UnstageBegins
  <2>17. CASE UnstageEnds
    BY <2>17 DEF UnstageEnds
  <2>18. CASE Restart
    <3>1. CASE watchers # None
      BY <2>18, <3>1 DEF Restart, Watch, Every
    <3>2. CASE watchers = None
      BY <2>18, <3>2 DEF Restart, Unwatched, Every
    <3> QED
      BY <3>1, <3>2
  <2>19. CASE Write
    BY <2>19 DEF Write
  <2>20. CASE Nudge
    BY <2>20 DEF Nudge
  <2>21. CASE RunStarts
    BY <2>21 DEF RunStarts, Scan, Rest
  <2>22. CASE TakeChange
    BY <2>22 DEF TakeChange, Rest
  <2>23. CASE TakeClassed
    BY <2>23 DEF TakeClassed, Rest
  <2>24. CASE TimerFires
    BY <2>24 DEF TimerFires, Scan, Rest
  <2>25. CASE Tick
    BY <2>25 DEF Tick
  <2>26. CASE UNCHANGED vars
    BY <2>26 DEF vars
  <2> HIDE DEF LoopsOK
  <2> QED
    BY <1>1, <2>1, <2>2, <2>3, <2>4, <2>5, <2>6, <2>7, <2>8, <2>9, <2>10, <2>11, <2>12,
       <2>13, <2>14, <2>15, <2>16, <2>17, <2>18, <2>19, <2>20, <2>21, <2>22,
       <2>23, <2>24, <2>25, <2>26
       DEF Next, LoopStep, Handler, RunStep

LEMMA FlagsStep ==
    FlagsOK /\ [Next]_vars => FlagsOK'
<1>1. SUFFICES ASSUME FlagsOK, [Next]_vars
               PROVE  FlagsOK'
  OBVIOUS
<1>2. QED
  <2> USE <1>1
      DEF FlagsOK, clusterVars, nodeVars,
          readVars, slotVars, watchVars, boundVars
  <2>1. ASSUME NEW o \in Objects, FindClaim(o) PROVE FlagsOK'
    BY <2>1 DEF FindClaim, Goto
  <2>2. ASSUME NEW o \in Objects, Drain(o) PROVE FlagsOK'
    BY <2>2 DEF Drain
  <2>3. ASSUME NEW o \in Objects, Send(o) PROVE FlagsOK'
    BY <2>3 DEF Send
  <2>4. ASSUME NEW o \in Objects, Take(o) PROVE FlagsOK'
    BY <2>4 DEF Take, Goto
  <2>5. ASSUME NEW o \in Objects, ReadClass(o) PROVE FlagsOK'
    BY <2>5 DEF ReadClass, Goto
  <2>6. ASSUME NEW o \in Objects, ReadFails(o) PROVE FlagsOK'
    BY <2>6 DEF ReadFails, Goto
  <2>7. ASSUME NEW o \in Objects, Retry(o) PROVE FlagsOK'
    BY <2>7 DEF Retry, Goto
  <2>8. ASSUME NEW o \in Objects, ReportArmed(o) PROVE FlagsOK'
    BY <2>8 DEF ReportArmed, Goto
  <2>9. ASSUME NEW o \in Objects, ClassChanged(o) PROVE FlagsOK'
    <3>1. classed' \in BOOLEAN
      BY Zenon, <2>9 DEF ClassChanged
    <3> QED
      BY <2>9, <3>1 DEF ClassChanged
  <2>10. ASSUME NEW o \in Objects, LoopEnds(o) PROVE FlagsOK'
    BY <2>10 DEF LoopEnds, Goto
  <2>11. CASE ClaimMoves
    BY <2>11 DEF ClaimMoves
  <2>12. CASE ClassArrives
    BY <2>12 DEF ClassArrives
  <2>13. CASE Stage
    BY <2>13 DEF Stage, Arm
  <2>14. CASE Publish
    BY <2>14 DEF Publish, Watch
  <2>15. CASE Unpublish
    BY <2>15 DEF Unpublish, Unwatched
  <2>16. CASE UnstageBegins
    BY <2>16 DEF UnstageBegins
  <2>17. CASE UnstageEnds
    BY <2>17 DEF UnstageEnds
  <2>18. CASE Restart
    BY <2>18 DEF Restart, Watch, Unwatched, Every
  <2>19. CASE Write
    BY <2>19 DEF Write
  <2>20. CASE Nudge
    BY <2>20 DEF Nudge
  <2>21. CASE RunStarts
    BY <2>21 DEF RunStarts, Scan, Rest
  <2>22. CASE TakeChange
    BY <2>22 DEF TakeChange, Rest
  <2>23. CASE TakeClassed
    BY <2>23 DEF TakeClassed, Rest
  <2>24. CASE TimerFires
    BY <2>24 DEF TimerFires, Scan, Rest
  <2>25. CASE Tick
    BY <2>25 DEF Tick
  <2>26. CASE UNCHANGED vars
    BY <2>26 DEF vars
  <2> HIDE DEF FlagsOK
  <2> QED
    BY <1>1, <2>1, <2>2, <2>3, <2>4, <2>5, <2>6, <2>7, <2>8, <2>9, <2>10, <2>11, <2>12,
       <2>13, <2>14, <2>15, <2>16, <2>17, <2>18, <2>19, <2>20, <2>21, <2>22,
       <2>23, <2>24, <2>25, <2>26
       DEF Next, LoopStep, Handler, RunStep

LEMMA ClockStep ==
    LoopsOK /\ ClockInv /\ [Next]_vars => ClockInv'
<1>1. SUFFICES ASSUME LoopsOK, ClockInv, [Next]_vars
               PROVE  ClockInv'
  OBVIOUS
<1>2. QED
  <2> USE <1>1, ArmingAssumption, RestsBounded
      DEF LoopsOK, ClockInv, ClockOK, IdleInv, Objects, None, clusterVars, nodeVars,
          readVars, slotVars, watchVars, boundVars
  <2>1. ASSUME NEW o \in Objects, FindClaim(o) PROVE ClockInv'
    BY <2>1 DEF FindClaim, Goto
  <2>2. ASSUME NEW o \in Objects, Drain(o) PROVE ClockInv'
    BY <2>2 DEF Drain
  <2>3. ASSUME NEW o \in Objects, Send(o) PROVE ClockInv'
    BY <2>3 DEF Send
  <2>4. ASSUME NEW o \in Objects, Take(o) PROVE ClockInv'
    BY <2>4 DEF Take, Goto
  <2>5. ASSUME NEW o \in Objects, ReadClass(o) PROVE ClockInv'
    BY <2>5 DEF ReadClass, Goto
  <2>6. ASSUME NEW o \in Objects, ReadFails(o) PROVE ClockInv'
    BY <2>6 DEF ReadFails, Goto
  <2>7. ASSUME NEW o \in Objects, Retry(o) PROVE ClockInv'
    BY <2>7 DEF Retry, Goto
  <2>8. ASSUME NEW o \in Objects, ReportArmed(o) PROVE ClockInv'
    BY <2>8 DEF ReportArmed, Goto
  <2>9. ASSUME NEW o \in Objects, ClassChanged(o) PROVE ClockInv'
    <3>1. watchers = None => classed' = FALSE
      <4>1. watchers = None => watchers # o
        OBVIOUS
      <4> HIDE <1>1, ArmingAssumption, RestsBounded DEF LoopsOK, ClockInv, ClockOK
      <4>2. IdleInv
        BY <1>1 DEF ClockInv
      <4> QED
        BY Zenon, <2>9, <4>1, <4>2 DEF ClassChanged
    <3>2. UNCHANGED <<watchers, event, changes, quiet, timer>>
      BY <2>9 DEF ClassChanged
    <3> QED
      BY <3>1, <3>2
  <2>10. ASSUME NEW o \in Objects, LoopEnds(o) PROVE ClockInv'
    BY <2>10 DEF LoopEnds, Goto
  <2>11. CASE ClaimMoves
    BY <2>11 DEF ClaimMoves
  <2>12. CASE ClassArrives
    BY <2>12 DEF ClassArrives
  <2>13. CASE Stage
    BY <2>13 DEF Stage, Arm
  <2>14. CASE Publish
    BY <2>14 DEF Publish, Watch
  <2>15. CASE Unpublish
    BY <2>15 DEF Unpublish, Unwatched
  <2>16. CASE UnstageBegins
    BY <2>16 DEF UnstageBegins
  <2>17. CASE UnstageEnds
    BY <2>17 DEF UnstageEnds
  <2>18. CASE Restart
    BY <2>18 DEF Restart, Watch, Unwatched, Every
  <2>19. CASE Write
    BY <2>19 DEF Write
  <2>20. CASE Nudge
    BY <2>20 DEF Nudge
  <2>21. CASE RunStarts
    BY <2>21 DEF RunStarts, Scan, Rest
  <2>22. CASE TakeChange
    BY <2>22 DEF TakeChange, Rest
  <2>23. CASE TakeClassed
    <3>1. watchers # None
      BY <2>23 DEF TakeClassed
    <3>2. Rest \in 1..MaxRest
      BY <3>1, RestTyped
    <3>3. timer' \in 0..MaxRest
      BY <2>23, <3>2 DEF TakeClassed
    <3>4. quiet' = quiet /\ watchers' = watchers
      BY <2>23 DEF TakeClassed
    <3> QED
      BY <3>1, <3>3, <3>4
  <2>24. CASE TimerFires
    BY <2>24 DEF TimerFires, Scan, Rest
  <2>25. CASE Tick
    BY <2>25 DEF Tick
  <2>26. CASE UNCHANGED vars
    BY <2>26 DEF vars
  <2> HIDE DEF LoopsOK, ClockInv, ClockOK, IdleInv
  <2> QED
    BY <1>1, <2>1, <2>2, <2>3, <2>4, <2>5, <2>6, <2>7, <2>8, <2>9, <2>10, <2>11, <2>12,
       <2>13, <2>14, <2>15, <2>16, <2>17, <2>18, <2>19, <2>20, <2>21, <2>22,
       <2>23, <2>24, <2>25, <2>26
       DEF Next, LoopStep, Handler, RunStep

\* The ranges of the loops, the slots and the timer; a watch is one of the
\* staged object.
LEMMA TypesHold == Spec => []TypeInv
<1>1. Init => FlagsOK
  BY DEF Init, FlagsOK
<1>2. Init => LoopsOK
  <2>1. SUFFICES ASSUME Init PROVE LoopsOK
    OBVIOUS
  <2>2. there \subseteq Classes
    BY <2>1 DEF Init
  <2>3. /\ loop \in [Objects -> { "none" }] /\ rules \in [Objects -> {None}]
        /\ taken \in [Objects -> Slots] /\ latest \in [Objects -> Slots]
        /\ offering \in [Objects -> Slots] /\ offered \in [Objects -> Slots]
    BY <2>1, SlotsHold DEF Init, Every
  <2> QED
    BY <2>1, <2>2, <2>3, ArmingAssumption DEF Init, LoopsOK, None, Names
<1>3. Init => ClockInv
  BY ArmingAssumption, RestsBounded DEF Init, ClockInv, ClockOK, IdleInv
<1> QED
  BY <1>1, <1>2, <1>3, LoopsStep, FlagsStep, ClockStep, PTL DEF Spec, TypeInv

\* The ranges of the arming loops, their slots, the calls and the timer
\* (arming.go, watch.go).
THEOREM ArmingTyped == Spec => []TypeOK
<1>1. TypeInv => TypeOK
  BY DEF TypeInv, LoopsOK, FlagsOK, ClockInv, ClockOK, TypeOK
<1> QED
  BY <1>1, TypesHold, PTL

-----------------------------------------------------------------------------
(* The slot and the reads *)

LEMMA FreshStep ==
    LoopsOK /\ FreshInv /\ [Next]_vars => FreshInv'
<1>1. SUFFICES ASSUME LoopsOK, FreshInv, [Next]_vars
               PROVE  FreshInv'
  OBVIOUS
<1>2. QED
  <2> USE <1>1, ArmingAssumption
      DEF FreshInv, LoopsOK, Objects, None, clusterVars, nodeVars,
          readVars, slotVars, watchVars, boundVars
  <2>1. ASSUME NEW o \in Objects, FindClaim(o) PROVE FreshInv'
    BY <2>1 DEF FindClaim, Goto
  <2>2. ASSUME NEW o \in Objects, Drain(o) PROVE FreshInv'
    BY <2>2 DEF Drain
  <2>3. ASSUME NEW o \in Objects, Send(o) PROVE FreshInv'
    BY <2>3 DEF Send
  <2>4. ASSUME NEW o \in Objects, Take(o) PROVE FreshInv'
    BY <2>4 DEF Take, Goto
  <2>5. ASSUME NEW o \in Objects, ReadClass(o) PROVE FreshInv'
    BY <2>5 DEF ReadClass, Goto
  <2>6. ASSUME NEW o \in Objects, ReadFails(o) PROVE FreshInv'
    BY <2>6 DEF ReadFails, Goto
  <2>7. ASSUME NEW o \in Objects, Retry(o) PROVE FreshInv'
    BY <2>7 DEF Retry, Goto
  <2>8. ASSUME NEW o \in Objects, ReportArmed(o) PROVE FreshInv'
    BY <2>8 DEF ReportArmed, Goto
  <2>9. ASSUME NEW o \in Objects, ClassChanged(o) PROVE FreshInv'
    BY <2>9 DEF ClassChanged, Goto
  <2>10. ASSUME NEW o \in Objects, LoopEnds(o) PROVE FreshInv'
    BY <2>10 DEF LoopEnds, Goto
  <2>11. CASE ClaimMoves
    BY <2>11 DEF ClaimMoves
  <2>12. CASE ClassArrives
    BY <2>12 DEF ClassArrives
  <2>13. CASE Stage
    BY <2>13 DEF Stage, Arm
  <2>14. CASE Publish
    BY <2>14 DEF Publish, Watch
  <2>15. CASE Unpublish
    BY <2>15 DEF Unpublish, Unwatched
  <2>16. CASE UnstageBegins
    BY <2>16 DEF UnstageBegins
  <2>17. CASE UnstageEnds
    BY <2>17 DEF UnstageEnds
  <2>18. CASE Restart
    BY <2>18 DEF Restart, Watch, Unwatched, Every
  <2>19. CASE Write
    BY <2>19 DEF Write
  <2>20. CASE Nudge
    BY <2>20 DEF Nudge
  <2>21. CASE RunStarts
    BY <2>21 DEF RunStarts, Scan, Rest
  <2>22. CASE TakeChange
    BY <2>22 DEF TakeChange, Rest
  <2>23. CASE TakeClassed
    BY <2>23 DEF TakeClassed, Rest
  <2>24. CASE TimerFires
    BY <2>24 DEF TimerFires, Scan, Rest
  <2>25. CASE Tick
    BY <2>25 DEF Tick
  <2>26. CASE UNCHANGED vars
    BY <2>26 DEF vars
  <2> HIDE DEF FreshInv, LoopsOK
  <2> QED
    BY <1>1, <2>1, <2>2, <2>3, <2>4, <2>5, <2>6, <2>7, <2>8, <2>9, <2>10, <2>11, <2>12,
       <2>13, <2>14, <2>15, <2>16, <2>17, <2>18, <2>19, <2>20, <2>21, <2>22,
       <2>23, <2>24, <2>25, <2>26
       DEF Next, LoopStep, Handler, RunStep

LEMMA ReadStep ==
    LoopsOK /\ FreshInv /\ ReadInv /\ [Next]_vars => ReadInv'
<1>1. SUFFICES ASSUME LoopsOK, FreshInv, ReadInv, [Next]_vars
               PROVE  ReadInv'
  OBVIOUS
<1>2. QED
  <2> USE <1>1
      DEF LoopsOK, FreshInv, ReadInv, Objects, None, clusterVars, nodeVars,
          readVars, slotVars, watchVars, boundVars
  <2>1. ASSUME NEW o \in Objects, FindClaim(o) PROVE ReadInv'
    BY <2>1 DEF FindClaim, Goto
  <2>2. ASSUME NEW o \in Objects, Drain(o) PROVE ReadInv'
    BY <2>2 DEF Drain, Empty
  <2>3. ASSUME NEW o \in Objects, Send(o) PROVE ReadInv'
    BY <2>3 DEF Send
  <2>4. ASSUME NEW o \in Objects, Take(o) PROVE ReadInv'
    BY <2>4 DEF Take, Goto
  <2>5. ASSUME NEW o \in Objects, ReadClass(o) PROVE ReadInv'
    BY <2>5 DEF ReadClass, Goto
  <2>6. ASSUME NEW o \in Objects, ReadFails(o) PROVE ReadInv'
    BY <2>6 DEF ReadFails, Goto
  <2>7. ASSUME NEW o \in Objects, Retry(o) PROVE ReadInv'
    BY <2>7 DEF Retry, Goto
  <2>8. ASSUME NEW o \in Objects, ReportArmed(o) PROVE ReadInv'
    <3>1. taken[o] = {TakenName(o)} /\ taken[o] # Empty
      BY <2>8, TakenNamed DEF ReportArmed
    <3>2. /\ rules' = [rules EXCEPT ![o] = RulesOf(TakenName(o))]
          /\ taken' = [taken EXCEPT ![o] = Empty]
          /\ \A p \in Objects : p # o => loop'[p] = loop[p]
          /\ loop'[o] \in { "wake", "idle" }
          /\ UNCHANGED <<latest, offering, offered>>
      BY <2>8 DEF ReportArmed, Goto
    <3>3. offering[o] = Empty /\ latest[o] = Empty => offered[o] = {TakenName(o)}
      BY <3>1
    <3> HIDE <2>8
    <3> QED
      BY <3>1, <3>2, <3>3
  <2>9. ASSUME NEW o \in Objects, ClassChanged(o) PROVE ReadInv'
    BY <2>9 DEF ClassChanged, Goto
  <2>10. ASSUME NEW o \in Objects, LoopEnds(o) PROVE ReadInv'
    BY <2>10 DEF LoopEnds, Goto, Empty
  <2>11. CASE ClaimMoves
    BY <2>11 DEF ClaimMoves
  <2>12. CASE ClassArrives
    BY <2>12 DEF ClassArrives
  <2>13. CASE Stage
    BY <2>13 DEF Stage, Arm
  <2>14. CASE Publish
    BY <2>14 DEF Publish, Watch
  <2>15. CASE Unpublish
    BY <2>15 DEF Unpublish, Unwatched
  <2>16. CASE UnstageBegins
    BY <2>16 DEF UnstageBegins
  <2>17. CASE UnstageEnds
    BY <2>17 DEF UnstageEnds
  <2>18. CASE Restart
    BY <2>18 DEF Restart, Watch, Unwatched, Every, Empty
  <2>19. CASE Write
    BY <2>19 DEF Write
  <2>20. CASE Nudge
    BY <2>20 DEF Nudge
  <2>21. CASE RunStarts
    BY <2>21 DEF RunStarts, Scan, Rest
  <2>22. CASE TakeChange
    BY <2>22 DEF TakeChange, Rest
  <2>23. CASE TakeClassed
    BY <2>23 DEF TakeClassed, Rest
  <2>24. CASE TimerFires
    BY <2>24 DEF TimerFires, Scan, Rest
  <2>25. CASE Tick
    BY <2>25 DEF Tick
  <2>26. CASE UNCHANGED vars
    BY <2>26 DEF vars
  <2> HIDE DEF LoopsOK, FreshInv, ReadInv
  <2> QED
    BY <1>1, <2>1, <2>2, <2>3, <2>4, <2>5, <2>6, <2>7, <2>8, <2>9, <2>10, <2>11, <2>12,
       <2>13, <2>14, <2>15, <2>16, <2>17, <2>18, <2>19, <2>20, <2>21, <2>22,
       <2>23, <2>24, <2>25, <2>26
       DEF Next, LoopStep, Handler, RunStep

\* The reads never settle on an old copy of the claim (arming.go follow,
\* reads).
THEOREM NewestRead == Spec => []NewestIsRead
<1>1. Init => FreshInv /\ ReadInv
  BY DEF Init, FreshInv, ReadInv, Every, Empty
<1>2. LoopsOK /\ ReadInv => NewestIsRead
  BY DEF LoopsOK, ReadInv, NewestIsRead
<1>3. TypeInv => LoopsOK
  BY DEF TypeInv
<1> QED
  BY <1>1, <1>2, <1>3, FreshStep, ReadStep, TypesHold, PTL DEF Spec

-----------------------------------------------------------------------------
(* The calls of the kubelet *)

LEMMA CallsStep ==
    ~Overlap /\ LoopsOK /\ CallsInv /\ [Next]_vars => CallsInv'
<1>1. SUFFICES ASSUME ~Overlap, LoopsOK, CallsInv, [Next]_vars
               PROVE  CallsInv'
  OBVIOUS
<1>2. QED
  <2> USE <1>1, ArmingAssumption
      DEF LoopsOK, CallsInv, LoopIsStaged, Objects, None, clusterVars, nodeVars,
          readVars, slotVars, watchVars, boundVars
  <2>1. ASSUME NEW o \in Objects, FindClaim(o) PROVE CallsInv'
    BY <2>1 DEF FindClaim, Goto
  <2>2. ASSUME NEW o \in Objects, Drain(o) PROVE CallsInv'
    BY <2>2 DEF Drain
  <2>3. ASSUME NEW o \in Objects, Send(o) PROVE CallsInv'
    BY <2>3 DEF Send
  <2>4. ASSUME NEW o \in Objects, Take(o) PROVE CallsInv'
    BY <2>4 DEF Take, Goto
  <2>5. ASSUME NEW o \in Objects, ReadClass(o) PROVE CallsInv'
    BY <2>5 DEF ReadClass, Goto
  <2>6. ASSUME NEW o \in Objects, ReadFails(o) PROVE CallsInv'
    BY <2>6 DEF ReadFails, Goto
  <2>7. ASSUME NEW o \in Objects, Retry(o) PROVE CallsInv'
    BY <2>7 DEF Retry, Goto
  <2>8. ASSUME NEW o \in Objects, ReportArmed(o) PROVE CallsInv'
    BY <2>8 DEF ReportArmed, Goto
  <2>9. ASSUME NEW o \in Objects, ClassChanged(o) PROVE CallsInv'
    BY <2>9 DEF ClassChanged, Goto
  <2>10. ASSUME NEW o \in Objects, LoopEnds(o) PROVE CallsInv'
    BY <2>10 DEF LoopEnds, Goto
  <2>11. CASE ClaimMoves
    BY <2>11 DEF ClaimMoves
  <2>12. CASE ClassArrives
    BY <2>12 DEF ClassArrives
  <2>13. CASE Stage
    BY <2>13 DEF Stage, Arm
  <2>14. CASE Publish
    BY <2>14 DEF Publish, Watch
  <2>15. CASE Unpublish
    BY <2>15 DEF Unpublish, Unwatched
  <2>16. CASE UnstageBegins
    BY <2>16 DEF UnstageBegins
  <2>17. CASE UnstageEnds
    BY <2>17 DEF UnstageEnds
  <2>18. CASE Restart
    BY <2>18 DEF Restart, Watch, Unwatched, Every
  <2>19. CASE Write
    BY <2>19 DEF Write
  <2>20. CASE Nudge
    BY <2>20 DEF Nudge
  <2>21. CASE RunStarts
    BY <2>21 DEF RunStarts, Scan, Rest
  <2>22. CASE TakeChange
    BY <2>22 DEF TakeChange, Rest
  <2>23. CASE TakeClassed
    BY <2>23 DEF TakeClassed, Rest
  <2>24. CASE TimerFires
    BY <2>24 DEF TimerFires, Scan, Rest
  <2>25. CASE Tick
    BY <2>25 DEF Tick
  <2>26. CASE UNCHANGED vars
    BY <2>26 DEF vars
  <2> HIDE DEF LoopsOK, CallsInv, LoopIsStaged
  <2> QED
    BY <1>1, <2>1, <2>2, <2>3, <2>4, <2>5, <2>6, <2>7, <2>8, <2>9, <2>10, <2>11, <2>12,
       <2>13, <2>14, <2>15, <2>16, <2>17, <2>18, <2>19, <2>20, <2>21, <2>22,
       <2>23, <2>24, <2>25, <2>26
       DEF Next, LoopStep, Handler, RunStep

\* Exactly the object the node holds has an arming loop, while the calls of
\* the kubelet come one at a time (arming.go arm, disarm; volumelocks.go).
THEOREM LoopStaged == ~Overlap => (Spec => []LoopIsStaged)
<1>1. SUFFICES ASSUME ~Overlap PROVE Spec => []LoopIsStaged
  OBVIOUS
<1>2. Init => CallsInv
  BY DEF Init, CallsInv, LoopIsStaged, Every, Objects, None
<1>3. LoopsOK /\ CallsInv /\ [Next]_vars => CallsInv'
  BY <1>1, CallsStep
<1>4. CallsInv => LoopIsStaged
  BY DEF CallsInv
<1>5. TypeInv => LoopsOK
  BY DEF TypeInv
<1> QED
  BY <1>2, <1>3, <1>4, <1>5, TypesHold, PTL DEF Spec

-----------------------------------------------------------------------------
(* The timer *)

LEMMA RestStep ==
    LoopsOK /\ ClockInv /\ RestInv /\ [Next]_vars => RestInv'
<1>1. SUFFICES ASSUME LoopsOK, ClockInv, RestInv, [Next]_vars
               PROVE  RestInv'
  OBVIOUS
<1>2. QED
  <2> USE <1>1, ArmingAssumption, RestsBounded
      DEF LoopsOK, ClockInv, ClockOK, IdleInv, RestInv, Objects, None, clusterVars,
          nodeVars,
          readVars, slotVars, watchVars, boundVars
  <2>1. ASSUME NEW o \in Objects, FindClaim(o) PROVE RestInv'
    BY <2>1 DEF FindClaim, Goto
  <2>2. ASSUME NEW o \in Objects, Drain(o) PROVE RestInv'
    BY <2>2 DEF Drain
  <2>3. ASSUME NEW o \in Objects, Send(o) PROVE RestInv'
    BY <2>3 DEF Send
  <2>4. ASSUME NEW o \in Objects, Take(o) PROVE RestInv'
    BY <2>4 DEF Take, Goto
  <2>5. ASSUME NEW o \in Objects, ReadClass(o) PROVE RestInv'
    BY <2>5 DEF ReadClass, Goto
  <2>6. ASSUME NEW o \in Objects, ReadFails(o) PROVE RestInv'
    BY <2>6 DEF ReadFails, Goto
  <2>7. ASSUME NEW o \in Objects, Retry(o) PROVE RestInv'
    BY <2>7 DEF Retry, Goto
  <2>8. ASSUME NEW o \in Objects, ReportArmed(o) PROVE RestInv'
    BY <2>8 DEF ReportArmed, Goto
  <2>9. ASSUME NEW o \in Objects, ClassChanged(o) PROVE RestInv'
    <3>1. CASE watchers = o
      <4>1. classed' /\ watchers' = o
        BY Zenon, <2>9, <3>1 DEF ClassChanged
      <4> QED
        BY <3>1, <4>1
    <3>2. CASE watchers # o
      <4>1. classed' <=> classed
        BY Zenon, <3>2, <2>9 DEF ClassChanged
      <4>2. watchers # None => loop'[watchers] = loop[watchers]
        BY <2>9, <3>2 DEF ClassChanged, Goto
      <4> QED
        BY <2>9, <3>2, <4>1, <4>2 DEF ClassChanged
    <3> QED
      BY <3>1, <3>2
  <2>10. ASSUME NEW o \in Objects, LoopEnds(o) PROVE RestInv'
    BY <2>10 DEF LoopEnds, Goto
  <2>11. CASE ClaimMoves
    BY <2>11 DEF ClaimMoves
  <2>12. CASE ClassArrives
    BY <2>12 DEF ClassArrives
  <2>13. CASE Stage
    BY <2>13 DEF Stage, Arm
  <2>14. CASE Publish
    BY <2>14 DEF Publish, Watch
  <2>15. CASE Unpublish
    BY <2>15 DEF Unpublish, Unwatched
  <2>16. CASE UnstageBegins
    BY <2>16 DEF UnstageBegins
  <2>17. CASE UnstageEnds
    BY <2>17 DEF UnstageEnds
  <2>18. CASE Restart
    BY <2>18 DEF Restart, Watch, Unwatched, Every
  <2>19. CASE Write
    BY <2>19 DEF Write
  <2>20. CASE Nudge
    BY <2>20 DEF Nudge
  <2>21. CASE RunStarts
    BY <2>21 DEF RunStarts, Scan, Rest
  <2>22. CASE TakeChange
    BY <2>22 DEF TakeChange, Rest
  <2>23. CASE TakeClassed
    <3>1. watchers # None
      BY <2>23 DEF TakeClassed
    <3>2. Rest \in 1..MaxRest /\ watchers \in Objects
      BY <3>1, RestTyped
    <3>3. rules[watchers] # None => Rest = rules[watchers]
      BY DEF Rest
    <3>4. quiet' + timer' >= Rest /\ UNCHANGED <<rules, watchers>>
      BY <2>23, <3>2 DEF TakeClassed
    <3> QED
      BY <3>3, <3>4
  <2>24. CASE TimerFires
    BY <2>24 DEF TimerFires, Scan, Rest
  <2>25. CASE Tick
    <3>1. watchers # None
      BY <2>25 DEF Tick
    <3>2. watchers \in Objects /\ rules[watchers] \in Rests \cup {None}
      BY <3>1, RestTyped
    <3>3. rules[watchers] \in Nat /\ rules[watchers] <= MaxRest
      <4>1. \A r \in Rests \cup {None} : r \in Nat /\ r <= MaxRest
        BY RestsBounded
      <4> QED
        BY <3>2, <4>1
    <3>4. /\ quiet' = IF quiet < MaxRest THEN quiet + 1 ELSE quiet
          /\ timer' = IF timer \in 1..MaxRest THEN timer - 1 ELSE timer
          /\ UNCHANGED <<rules, watchers, event, changes, classed, loop>>
      BY <2>25 DEF Tick
    <3>5. quiet \in 0..MaxRest /\ MaxRest \in Nat
      BY <1>1
    <3>6. SUFFICES ASSUME watchers # None, rules[watchers] # None, timer' \in Nat,
                          ~event, ~changes, ~classed, loop[watchers] # "wake"
                   PROVE  quiet' + timer' >= rules[watchers]
      BY <3>4
    <3>7. timer \in 0..MaxRest
      BY <3>4, <3>6
    <3>8. quiet + timer >= rules[watchers]
      BY <3>6, <3>7
    <3> HIDE <1>1, <2>25, ArmingAssumption, RestsBounded DEF LoopsOK, ClockInv, RestInv
    <3> QED
      BY <3>3, <3>4, <3>5, <3>7, <3>8
  <2>26. CASE UNCHANGED vars
    BY <2>26 DEF vars
  <2> HIDE DEF LoopsOK, ClockInv, ClockOK, IdleInv, RestInv
  <2> QED
    BY <1>1, <2>1, <2>2, <2>3, <2>4, <2>5, <2>6, <2>7, <2>8, <2>9, <2>10, <2>11, <2>12,
       <2>13, <2>14, <2>15, <2>16, <2>17, <2>18, <2>19, <2>20, <2>21, <2>22,
       <2>23, <2>24, <2>25, <2>26
       DEF Next, LoopStep, Handler, RunStep

LEMMA WorkStep ==
    LoopsOK /\ ClockInv /\ RestInv /\ WorkIsScheduled /\ [Next]_vars => WorkIsScheduled'
<1>1. SUFFICES ASSUME LoopsOK, ClockInv, RestInv, WorkIsScheduled, [Next]_vars
               PROVE  WorkIsScheduled'
  OBVIOUS
<1>2. QED
  <2> USE <1>1, ArmingAssumption, RestsBounded
      DEF LoopsOK, ClockInv, ClockOK, IdleInv, RestInv, WorkIsScheduled, Objects,
          None, clusterVars, nodeVars,
          readVars, slotVars, watchVars, boundVars
  <2>1. ASSUME NEW o \in Objects, FindClaim(o) PROVE WorkIsScheduled'
    BY <2>1 DEF FindClaim, Goto
  <2>2. ASSUME NEW o \in Objects, Drain(o) PROVE WorkIsScheduled'
    BY <2>2 DEF Drain
  <2>3. ASSUME NEW o \in Objects, Send(o) PROVE WorkIsScheduled'
    BY <2>3 DEF Send
  <2>4. ASSUME NEW o \in Objects, Take(o) PROVE WorkIsScheduled'
    BY <2>4 DEF Take, Goto
  <2>5. ASSUME NEW o \in Objects, ReadClass(o) PROVE WorkIsScheduled'
    BY <2>5 DEF ReadClass, Goto
  <2>6. ASSUME NEW o \in Objects, ReadFails(o) PROVE WorkIsScheduled'
    BY <2>6 DEF ReadFails, Goto
  <2>7. ASSUME NEW o \in Objects, Retry(o) PROVE WorkIsScheduled'
    BY <2>7 DEF Retry, Goto
  <2>8. ASSUME NEW o \in Objects, ReportArmed(o) PROVE WorkIsScheduled'
    BY <2>8 DEF ReportArmed, Goto
  <2>9. ASSUME NEW o \in Objects, ClassChanged(o) PROVE WorkIsScheduled'
    <3>1. CASE watchers = o
      <4>1. classed' /\ watchers' = o
        BY Zenon, <2>9, <3>1 DEF ClassChanged
      <4> QED
        BY <3>1, <4>1
    <3>2. CASE watchers # o
      <4>1. classed' <=> classed
        BY Zenon, <3>2, <2>9 DEF ClassChanged
      <4>2. watchers # None => loop'[watchers] = loop[watchers]
        BY <2>9, <3>2 DEF ClassChanged, Goto
      <4> QED
        BY <2>9, <3>2, <4>1, <4>2 DEF ClassChanged
    <3> QED
      BY <3>1, <3>2
  <2>10. ASSUME NEW o \in Objects, LoopEnds(o) PROVE WorkIsScheduled'
    BY <2>10 DEF LoopEnds, Goto
  <2>11. CASE ClaimMoves
    BY <2>11 DEF ClaimMoves
  <2>12. CASE ClassArrives
    BY <2>12 DEF ClassArrives
  <2>13. CASE Stage
    BY <2>13 DEF Stage, Arm
  <2>14. CASE Publish
    BY <2>14 DEF Publish, Watch
  <2>15. CASE Unpublish
    BY <2>15 DEF Unpublish, Unwatched
  <2>16. CASE UnstageBegins
    BY <2>16 DEF UnstageBegins
  <2>17. CASE UnstageEnds
    BY <2>17 DEF UnstageEnds
  <2>18. CASE Restart
    BY <2>18 DEF Restart, Watch, Unwatched, Every
  <2>19. CASE Write
    BY <2>19 DEF Write
  <2>20. CASE Nudge
    BY <2>20 DEF Nudge
  <2>21. CASE RunStarts
    BY <2>21 DEF RunStarts, Scan, Rest
  <2>22. CASE TakeChange
    BY <2>22 DEF TakeChange, Rest
  <2>23. CASE TakeClassed
    <3>1. watchers # None
      BY <2>23 DEF TakeClassed
    <3>2. Rest \in 1..MaxRest
      BY <3>1, RestTyped
    <3>3. timer' \in Nat
      BY <2>23, <3>2 DEF TakeClassed
    <3> QED
      BY <3>3
  <2>24. CASE TimerFires
    <3>1. CASE event \/ changes \/ classed \/ loop[watchers] = "wake"
      BY <2>24, <3>1 DEF TimerFires
    <3>2. CASE ~event /\ ~changes /\ ~classed /\ loop[watchers] # "wake"
      <4>1. /\ timer = 0 /\ UNCHANGED <<watchers, rules>>
            /\ dirty' = (dirty /\ (rules[watchers] = None \/ quiet < rules[watchers]))
        BY <2>24 DEF TimerFires, Scan
      <4>2. watchers # None /\ rules[watchers] # None => ~(quiet < rules[watchers])
        <5>1. SUFFICES ASSUME watchers # None, rules[watchers] # None
                       PROVE  ~(quiet < rules[watchers])
          OBVIOUS
        <5>2. watchers \in Objects
          BY <5>1, RestTyped
        <5>3. rules[watchers] \in Nat
          BY <5>1, <5>2
        <5>4. quiet + timer >= rules[watchers]
          BY <3>2, <4>1, <5>1
        <5> QED
          BY <4>1, <5>3, <5>4
      <4> QED
        BY <4>1, <4>2
    <3> QED
      BY <3>1, <3>2
  <2>25. CASE Tick
    BY <2>25 DEF Tick
  <2>26. CASE UNCHANGED vars
    BY <2>26 DEF vars
  <2> HIDE DEF LoopsOK, ClockInv, ClockOK, IdleInv, RestInv, WorkIsScheduled
  <2> QED
    BY <1>1, <2>1, <2>2, <2>3, <2>4, <2>5, <2>6, <2>7, <2>8, <2>9, <2>10, <2>11, <2>12,
       <2>13, <2>14, <2>15, <2>16, <2>17, <2>18, <2>19, <2>20, <2>21, <2>22,
       <2>23, <2>24, <2>25, <2>26
       DEF Next, LoopStep, Handler, RunStep

\* A write in an armed tree always has something on its way that commits it
\* (watch.go classChanged, run).
THEOREM WorkScheduled == Spec => []WorkIsScheduled
<1>1. Init => RestInv /\ WorkIsScheduled
  BY DEF Init, RestInv, WorkIsScheduled
<1>2. TypeInv => LoopsOK /\ ClockInv
  BY DEF TypeInv
<1> QED
  BY <1>1, <1>2, RestStep, WorkStep, TypesHold, PTL DEF Spec

=============================================================================
