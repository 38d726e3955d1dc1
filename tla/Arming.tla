------------------------------- MODULE Arming -------------------------------
(***************************************************************************)
(* How a writeable volume gets its rules, and how they reach the timer     *)
(* that commits its work: the loop that finds the claim and watches it,    *)
(* the slot of one claim between the informer and the reads, the read of   *)
(* the class with its retry, the rules in force on the volume, and the     *)
(* watch of the work tree whose quiesce timer follows them.                *)
(*                                                                         *)
(* One volume of one node is staged, published, unpublished and unstaged,  *)
(* each stage as a volume object of its own. The sweep timer of the watch  *)
(* is left out: what is shown here must not wait for it. What commits and  *)
(* pushes do to the tree is WriteableVolume's part.                        *)
(***************************************************************************)
EXTENDS Naturals, FiniteSets

CONSTANTS
    Classes,      \* the names of VolumeAttributesClasses
    Means,        \* Means[k]: the quiesce k asks for, or Refused
    Refused,      \* a class of another driver, or one that is not valid
    DriverRest,   \* the driver's own quiesce
    Off, Unset,   \* a timer that is stopped, and of a watch that has not begun
    Overlap,      \* whether the kubelet may give up on an unstage and go on
    MaxStages,    \* bound: volume objects
    MaxChanges,   \* bound: changes of the claim
    MaxWrites,    \* bound: writes of the pod
    MaxCrashes    \* bound: kills of the driver

Rests == { Means[k] : k \in Classes } \ {Refused}

ASSUME ArmingAssumption ==
    /\ Refused \notin Nat /\ Rests \subseteq Nat \ {0}
    /\ DriverRest \in Nat \ {0} /\ Overlap \in BOOLEAN
    /\ Off \notin Nat /\ Unset \notin Nat /\ Off # Unset
    /\ MaxStages \in Nat /\ MaxChanges \in Nat /\ MaxWrites \in Nat
    /\ MaxCrashes \in Nat

NoClass == "no class"

ASSUME NoClassAssumption == NoClass \notin Classes

AllRests == Rests \cup {DriverRest}

(* Classes are finitely many, so one of the rests is the longest.          *)
ASSUME RestAssumption == \E r \in AllRests : \A s \in AllRests : s <= r

MaxRest == CHOOSE r \in AllRests : \A s \in AllRests : s <= r

Objects == 1..MaxStages

None == 0

VARIABLES
    (* the cluster *)
    claim,       \* the class the claim is in, or NoClass (className)
    there,       \* the classes that are there
    (* the node's maps and the kubelet's calls *)
    made,        \* volume objects made so far
    staged,      \* the object in node.staged
    armings,     \* the object whose cancel is in node.armings
    watchers,    \* the object in node.watchers: a pod writes its tree
    unstaging,   \* the object whose unstage pushes before it disarms
    cancelled,   \* the objects whose arming's context ended
    (* each object's arming loop; a slot is empty or holds one copy *)
    loop,        \* loop[o]: where the reads are
    taken,       \* taken[o]: the copy the reads hold
    latest,      \* latest[o]: the slot between the handler and the reads
    offering,    \* offering[o]: what the handler sends, after its drain
    offered,     \* offered[o]: the copy the handler sent last
    rules,       \* rules[o]: the quiesce in force, None while unarmed
    (* the work tree and its watch *)
    dirty,       \* the tree holds a write that no commit has
    event,       \* inotify holds an event of it
    changes,     \* the nudge's slot
    classed,     \* the slot of a new class
    quiet,       \* time since the last nudge, up to MaxRest
    timer,       \* the quiesce timer: time left, or off
    (* the bounds *)
    moves, writes, crashes

clusterVars == <<claim, there>>
nodeVars    == <<made, staged, armings, watchers, unstaging, cancelled>>
readVars    == <<loop, taken>>
slotVars    == <<latest, offering, offered>>
watchVars   == <<event, changes, classed, quiet, timer>>
boundVars   == <<moves, writes, crashes>>
vars == <<clusterVars, nodeVars, readVars, slotVars, rules, dirty, watchVars,
          boundVars>>

Names == Classes \cup {NoClass}

Empty == {}

Slots == {Empty} \cup { {k} : k \in Names }

TypeOK ==
    /\ claim \in Names /\ there \subseteq Classes
    /\ made \in 0..MaxStages
    /\ staged \in 0..made /\ armings \in 0..made
    /\ watchers \in {None, staged} /\ unstaging \in 0..made
    /\ cancelled \subseteq 1..made
    /\ loop \in [Objects -> { "none", "find", "idle", "get", "arm", "wake",
                              "wait", "ended" }]
    /\ taken \in [Objects -> Slots] /\ latest \in [Objects -> Slots]
    /\ offering \in [Objects -> Slots] /\ offered \in [Objects -> Slots]
    /\ rules \in [Objects -> Rests \cup {None}]
    /\ dirty \in BOOLEAN /\ event \in BOOLEAN
    /\ changes \in BOOLEAN /\ classed \in BOOLEAN
    /\ quiet \in 0..MaxRest /\ timer \in 0..MaxRest \cup {Off, Unset}
    /\ moves \in 0..MaxChanges /\ writes \in 0..MaxWrites
    /\ crashes \in 0..MaxCrashes

RulesOf(name) == IF name = NoClass \/ Means[name] = Refused THEN None ELSE Means[name]

Every(x) == [o \in Objects |-> x]

(* A class that is missing delays a read whatever it means, so only those  *)
(* that arm a volume start as missing.                                     *)
Init ==
    /\ claim \in Names
    /\ there \in { K \in SUBSET Classes : \A k \in Classes \ K : Means[k] # Refused }
    /\ made = 0 /\ staged = None /\ armings = None /\ watchers = None
    /\ unstaging = None /\ cancelled = {}
    /\ loop = Every("none") /\ taken = Every(Empty)
    /\ latest = Every(Empty) /\ offering = Every(Empty) /\ offered = Every(Empty)
    /\ rules = Every(None)
    /\ dirty = FALSE
    /\ event = FALSE /\ changes = FALSE /\ classed = FALSE
    /\ quiet = 0 /\ timer = Off
    /\ moves = 0 /\ writes = 0 /\ crashes = 0

-----------------------------------------------------------------------------
(* The cluster. A claim is in the class its status names, or in the one    *)
(* its spec asks for while the status names none: a person's change of the *)
(* spec or a resizer's of the status moves it, and classes arrive.         *)

ClaimMoves ==
    /\ moves < MaxChanges /\ moves' = moves + 1
    /\ \E k \in Names \ {claim} : claim' = k
    /\ UNCHANGED <<there, nodeVars, readVars, slotVars, rules, dirty, watchVars,
                   writes, crashes>>

ClassArrives ==
    /\ \E k \in Classes \ there : there' = there \cup {k}
    /\ UNCHANGED <<claim, nodeVars, readVars, slotVars, rules, dirty, watchVars,
                   boundVars>>

-----------------------------------------------------------------------------
(* The kubelet's calls, each one section under the node's lock             *)

(* node.arm: a loop of its own for the object, and its cancel in the map.  *)
Arm(o) ==
    /\ armings' = o /\ loop' = [loop EXCEPT ![o] = "find"]

(* node.watch: no event of an earlier write, and a rest that starts now.   *)
Watch(o) ==
    /\ watchers' = o
    /\ event' = FALSE /\ changes' = FALSE /\ classed' = FALSE
    /\ quiet' = 0 /\ timer' = Unset

Unwatched ==
    /\ watchers' = None
    /\ event' = FALSE /\ changes' = FALSE /\ classed' = FALSE
    /\ quiet' = 0 /\ timer' = Off

(* Mutant: a volume that is staged is staged again.                        *)
StageAgain ==
    /\ made < MaxStages /\ watchers = None
    /\ unstaging # None => Overlap
    /\ made' = made + 1 /\ staged' = made' /\ Arm(made')
    /\ UNCHANGED <<clusterVars, watchers, unstaging, cancelled, taken, slotVars,
                   rules, dirty, watchVars, boundVars>>

(* A volume that is staged is answered and not staged again.               *)
Stage ==
    /\ staged = None /\ made < MaxStages
    /\ unstaging # None => Overlap
    /\ made' = made + 1 /\ staged' = made' /\ Arm(made')
    /\ UNCHANGED <<clusterVars, watchers, unstaging, cancelled, taken, slotVars,
                   rules, dirty, watchVars, boundVars>>

Publish ==
    /\ staged # None /\ watchers = None
    /\ Watch(staged)
    /\ UNCHANGED <<clusterVars, made, staged, armings, unstaging, cancelled, readVars,
                   slotVars, rules, dirty, boundVars>>

(* The unpublish ends the watch, then commits what an armed tree holds.    *)
Unpublish ==
    /\ watchers # None
    /\ Unwatched
    /\ dirty' = (dirty /\ rules[watchers] = None)
    /\ UNCHANGED <<clusterVars, made, staged, armings, unstaging, cancelled, readVars,
                   slotVars, rules, boundVars>>

(* The unstage takes the object off the map, pushes, then disarms whatever *)
(* loop the map names.                                                     *)
UnstageBegins ==
    /\ staged # None /\ watchers = None /\ unstaging = None
    /\ staged' = None /\ unstaging' = staged
    /\ UNCHANGED <<clusterVars, made, armings, watchers, cancelled, readVars, slotVars,
                   rules, dirty, watchVars, boundVars>>

UnstageEnds ==
    /\ unstaging # None
    /\ unstaging' = None
    /\ armings' = None /\ cancelled' = cancelled \cup ({armings} \ {None})
    /\ UNCHANGED <<clusterVars, made, staged, watchers, readVars, slotVars, rules,
                   dirty, watchVars, boundVars>>

(* A kill ends every loop. resume stages, arms and watches a volume whose  *)
(* target is still mounted, as a new object; the pod may have written      *)
(* meanwhile, and no event says so.                                        *)
Restart ==
    /\ crashes < MaxCrashes /\ crashes' = crashes + 1
    /\ watchers # None => made < MaxStages
    /\ cancelled' = 1..made /\ unstaging' = None
    /\ IF watchers # None
       THEN /\ made' = made + 1 /\ staged' = made' /\ armings' = made' /\ Watch(made')
            /\ loop' = [o \in Objects |-> IF o = made' THEN "find"
                                          ELSE IF o < made' THEN "ended" ELSE loop[o]]
            /\ \/ UNCHANGED <<dirty, writes>>
               \/ writes < MaxWrites /\ writes' = writes + 1 /\ dirty' = TRUE
       ELSE /\ staged' = None /\ armings' = None /\ Unwatched
            /\ loop' = [o \in Objects |-> IF o <= made THEN "ended" ELSE loop[o]]
            /\ UNCHANGED <<made, dirty, writes>>
    /\ taken' = Every(Empty) /\ rules' = Every(None)
    /\ latest' = Every(Empty) /\ offering' = Every(Empty) /\ offered' = Every(Empty)
    /\ UNCHANGED <<clusterVars, moves>>

-----------------------------------------------------------------------------
(* The arming loop of an object: the informer's handler and the reads      *)

Goto(o, phase) == loop' = [loop EXCEPT ![o] = phase]

(* find: the claim the volume is bound to, asked for until an answer comes.*)
FindClaim(o) ==
    /\ loop[o] = "find" /\ o \notin cancelled
    /\ Goto(o, "idle")
    /\ UNCHANGED <<clusterVars, nodeVars, taken, slotVars, rules, dirty, watchVars,
                   boundVars>>

(* Mutant: a send to a full slot is dropped.                               *)
OfferOrDrop(o) ==
    /\ loop[o] \in { "idle", "get", "arm", "wake", "wait" } /\ o \notin cancelled
    /\ offering[o] = Empty /\ offered[o] # {claim}
    /\ IF latest[o] = Empty
       THEN offering' = [offering EXCEPT ![o] = {claim}] /\ UNCHANGED offered
       ELSE offered' = [offered EXCEPT ![o] = {claim}] /\ UNCHANGED offering
    /\ UNCHANGED <<clusterVars, nodeVars, readVars, latest, rules, dirty, watchVars,
                   boundVars>>

(* offer: the handler takes a copy that nobody read out of the slot, then  *)
(* sends the newer one.                                                    *)
Drain(o) ==
    /\ loop[o] \in { "idle", "get", "arm", "wake", "wait" } /\ o \notin cancelled
    /\ offering[o] = Empty /\ offered[o] # {claim}
    /\ latest' = [latest EXCEPT ![o] = Empty]
    /\ offering' = [offering EXCEPT ![o] = {claim}]
    /\ UNCHANGED <<clusterVars, nodeVars, readVars, offered, rules, dirty, watchVars,
                   boundVars>>

Send(o) ==
    /\ offering[o] # Empty /\ latest[o] = Empty
    /\ latest' = [latest EXCEPT ![o] = offering[o]]
    /\ offered' = [offered EXCEPT ![o] = offering[o]]
    /\ offering' = [offering EXCEPT ![o] = Empty]
    /\ UNCHANGED <<clusterVars, nodeVars, readVars, rules, dirty, watchVars, boundVars>>

(* reads: the next copy.                                                   *)
Take(o) ==
    /\ loop[o] = "idle" /\ latest[o] # Empty
    /\ taken' = [taken EXCEPT ![o] = latest[o]]
    /\ latest' = [latest EXCEPT ![o] = Empty]
    /\ Goto(o, "get")
    /\ UNCHANGED <<clusterVars, nodeVars, offering, offered, rules, dirty,
                   watchVars, boundVars>>

TakenName(o) == CHOOSE k \in Names : taken[o] = {k}

(* read: a claim that names no class needs no request. What a class that   *)
(* is there says does not change.                                          *)
ReadClass(o) ==
    /\ loop[o] = "get"
    /\ TakenName(o) # NoClass => TakenName(o) \in there /\ o \notin cancelled
    /\ Goto(o, "arm")
    /\ UNCHANGED <<clusterVars, nodeVars, taken, slotVars, rules, dirty, watchVars,
                   boundVars>>

(* Mutant: a read that failed waits for the next copy.                     *)
ReadGivesUp(o) ==
    /\ loop[o] = "get" /\ TakenName(o) # NoClass
    /\ Goto(o, "idle") /\ taken' = [taken EXCEPT ![o] = Empty]
    /\ UNCHANGED <<clusterVars, nodeVars, slotVars, rules, dirty, watchVars, boundVars>>

(* Any request may be refused; the one for a class that is not there is,   *)
(* and so is one of a context that ended.                                  *)
ReadFails(o) ==
    /\ loop[o] = "get" /\ TakenName(o) # NoClass
    /\ Goto(o, "wait")
    /\ UNCHANGED <<clusterVars, nodeVars, taken, slotVars, rules, dirty, watchVars,
                   boundVars>>

(* After the retry, with the newest copy the watch offered by then.        *)
Retry(o) ==
    /\ loop[o] = "wait" /\ o \notin cancelled
    /\ taken' = [taken EXCEPT ![o] = IF latest[o] = Empty THEN @ ELSE latest[o]]
    /\ latest' = [latest EXCEPT ![o] = Empty]
    /\ Goto(o, "get")
    /\ UNCHANGED <<clusterVars, nodeVars, offering, offered, rules, dirty,
                   watchVars, boundVars>>

(* Mutant: the class does not reach the timer.                             *)
ReportOnly(o) ==
    /\ loop[o] = "arm"
    /\ rules' = [rules EXCEPT ![o] = RulesOf(TakenName(o))]
    /\ taken' = [taken EXCEPT ![o] = Empty]
    /\ Goto(o, "idle")
    /\ UNCHANGED <<clusterVars, nodeVars, slotVars, dirty, watchVars, boundVars>>

(* armed: reportArmed, then classChanged when the quiesce is a new one.    *)
ReportArmed(o) ==
    /\ loop[o] = "arm"
    /\ rules' = [rules EXCEPT ![o] = RulesOf(TakenName(o))]
    /\ taken' = [taken EXCEPT ![o] = Empty]
    /\ Goto(o, IF rules'[o] # None /\ rules'[o] # rules[o] THEN "wake" ELSE "idle")
    /\ UNCHANGED <<clusterVars, nodeVars, slotVars, dirty, watchVars,
                   boundVars>>

ClassChanged(o) ==
    /\ loop[o] = "wake"
    /\ classed' = (classed \/ watchers = o)
    /\ Goto(o, "idle")
    /\ UNCHANGED <<clusterVars, nodeVars, taken, slotVars, rules, dirty, event,
                   changes, quiet, timer, boundVars>>

(* The loop of a cancelled context ends where it waits, and its object     *)
(* with it.                                                                *)
LoopEnds(o) ==
    /\ o \in cancelled /\ loop[o] \in { "find", "idle", "wait" }
    /\ Goto(o, "ended")
    /\ taken' = [taken EXCEPT ![o] = Empty]
    /\ rules' = [rules EXCEPT ![o] = None]
    /\ latest' = [latest EXCEPT ![o] = Empty]
    /\ offering' = [offering EXCEPT ![o] = Empty]
    /\ offered' = [offered EXCEPT ![o] = Empty]
    /\ UNCHANGED <<clusterVars, nodeVars, dirty, watchVars, boundVars>>

-----------------------------------------------------------------------------
(* The pod and the watch of its tree                                       *)

Write ==
    /\ watchers # None /\ writes < MaxWrites
    /\ writes' = writes + 1 /\ dirty' = TRUE /\ event' = TRUE
    /\ UNCHANGED <<clusterVars, nodeVars, readVars, slotVars, rules, changes, classed,
                   quiet, timer, moves, crashes>>

(* rest: the quiesce in force, and the driver's own on an unarmed volume.  *)
Rest == IF rules[watchers] = None THEN DriverRest ELSE rules[watchers]

(* scan: an armed tree that rested is committed.                           *)
Scan ==
    dirty' = (dirty /\ (rules[watchers] = None \/ quiet < rules[watchers]))

(* Mutant: only an event starts the timer.                                 *)
RunWaits ==
    /\ timer = Unset
    /\ timer' = Off /\ Scan
    /\ UNCHANGED <<clusterVars, nodeVars, readVars, slotVars, rules, event, changes,
                   classed, quiet, boundVars>>

(* run sets its timer from the rules it finds, and scans once.             *)
RunStarts ==
    /\ timer = Unset
    /\ timer' = Rest /\ Scan
    /\ UNCHANGED <<clusterVars, nodeVars, readVars, slotVars, rules, event, changes,
                   classed, quiet, boundVars>>

(* read: a batch of events is one nudge.                                   *)
Nudge ==
    /\ event /\ event' = FALSE
    /\ quiet' = 0 /\ changes' = TRUE
    /\ UNCHANGED <<clusterVars, nodeVars, readVars, slotVars, rules, dirty, classed,
                   timer, boundVars>>

TakeChange ==
    /\ changes /\ timer # Unset
    /\ changes' = FALSE /\ timer' = Rest
    /\ UNCHANGED <<clusterVars, nodeVars, readVars, slotVars, rules, dirty, event,
                   classed, quiet, boundVars>>

(* Mutant: the rest that is over is not held at zero.                      *)
TakeClassedLate ==
    /\ classed /\ timer # Unset
    /\ classed' = FALSE
    /\ timer' = Rest - quiet
    /\ UNCHANGED <<clusterVars, nodeVars, readVars, slotVars, rules, dirty, event,
                   changes, quiet, boundVars>>

TakeClassed ==
    /\ classed /\ timer # Unset
    /\ classed' = FALSE
    /\ timer' = IF quiet < Rest THEN Rest - quiet ELSE 0
    /\ UNCHANGED <<clusterVars, nodeVars, readVars, slotVars, rules, dirty, event,
                   changes, quiet, boundVars>>

TimerFires ==
    /\ timer = 0
    /\ timer' = Off /\ Scan
    /\ UNCHANGED <<clusterVars, nodeVars, readVars, slotVars, rules, event, changes,
                   classed, quiet, boundVars>>

Tick ==
    /\ watchers # None
    /\ quiet < MaxRest \/ timer \in 1..MaxRest
    /\ quiet' = IF quiet < MaxRest THEN quiet + 1 ELSE quiet
    /\ timer' = IF timer \in 1..MaxRest THEN timer - 1 ELSE timer
    /\ UNCHANGED <<clusterVars, nodeVars, readVars, slotVars, rules, dirty, event,
                   changes, classed, boundVars>>

-----------------------------------------------------------------------------
LoopStep(o) ==
    \/ FindClaim(o) \/ Take(o) \/ ReadClass(o) \/ ReadFails(o) \/ Retry(o)
    \/ ReportArmed(o) \/ ClassChanged(o) \/ LoopEnds(o)

Handler(o) == Drain(o) \/ Send(o)

RunStep == RunStarts \/ TakeChange \/ TakeClassed \/ TimerFires

Next ==
    \/ ClaimMoves \/ ClassArrives
    \/ Stage \/ Publish \/ Unpublish \/ UnstageBegins \/ UnstageEnds \/ Restart
    \/ \E o \in Objects : LoopStep(o) \/ Handler(o)
    \/ Write \/ Nudge \/ RunStep \/ Tick

Spec == Init /\ [][Next]_vars

(* The goroutines run and time passes. A read that is tried again and      *)
(* again while the class is there is answered in the end. Nothing obliges  *)
(* the kubelet, a person, the resizer or the pod, and a class may never    *)
(* arrive.                                                                 *)
Fairness ==
    /\ \A o \in Objects :
         WF_vars(LoopStep(o)) /\ SF_vars(ReadClass(o)) /\ WF_vars(Handler(o))
    /\ WF_vars(Nudge) /\ WF_vars(RunStep) /\ WF_vars(Tick)

FairSpec == Spec /\ Fairness

-----------------------------------------------------------------------------
(* Correctness                                                             *)

(* The reads never settle on an old copy of the claim: once they wait with *)
(* nothing in the slot and no copy on its way, the rules in force are      *)
(* those of the newest copy the watch offered, however offers, reads and   *)
(* retries interleaved (arming.go follow, reads).                          *)
NewestIsRead ==
    \A o \in Objects :
        /\ loop[o] = "idle" /\ latest[o] = Empty /\ offering[o] = Empty
        /\ offered[o] # Empty
        => \A k \in offered[o] : rules[o] = RulesOf(k)

(* Exactly the object the node holds has an arming loop: no stage leaves a *)
(* loop that nothing can end, and no unstage ends another stage's loop     *)
(* (arming.go arm, disarm), across restarts, as long as the kubelet's      *)
(* calls come one at a time.                                               *)
LoopIsStaged ==
    \A o \in Objects :
        (loop[o] \notin { "none", "ended" } /\ o \notin cancelled)
            <=> o \in {staged, unstaging}

(* A write in an armed tree always has something on its way that commits   *)
(* it: an event, a nudge, a running timer, or a class that sets the timer  *)
(* (watch.go classChanged: "Without this, a write that no event follows    *)
(* waits for the sweep.").                                                 *)
WorkIsScheduled ==
    watchers # None /\ dirty /\ rules[watchers] # None =>
        \/ event \/ changes \/ classed
        \/ timer # Off
        \/ loop[watchers] = "wake"

(* Once the claim, the classes and the kubelet's calls rest, the rules of  *)
(* the volume become those of the class in force, also when the class      *)
(* arrived after the claim named it and requests failed meanwhile          *)
(* (arming.go reads: "the read after the retry is what finds it").         *)
ClassComesInForce ==
    <>[](staged # None /\ (claim = NoClass \/ claim \in there)
            => rules[staged] = RulesOf(claim))

(* What a pod wrote is committed once it stops writing, when the class in  *)
(* force arms the volume, with no sweep: also what was written before the  *)
(* class came, under another class's rest, or while the driver was down.   *)
WorkIsCommitted ==
    <>[](/\ watchers # None /\ claim \in there /\ RulesOf(claim) # None
         => ~dirty)

=============================================================================
