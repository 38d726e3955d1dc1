------------------------------- MODULE Webhook -------------------------------
(***************************************************************************)
(* The controller's webhook listener: the demand a start makes on every    *)
(* read-only volume, and the handlers that verify pushes of a forge        *)
(* against a Secret held for a while, and mark the volumes a push names,   *)
(* all at once and against an API server that may refuse any request.      *)
(*                                                                         *)
(* A handler's call of the API server is one or two steps, so the Secret a *)
(* handler read may be rotated before it is held, and two handlers' marks  *)
(* of one volume may land in the other order than they were stamped. What  *)
(* the node does with a mark is DemandedPull's part; its Skew is more than *)
(* Deadline.                                                               *)
(***************************************************************************)
EXTENDS Naturals, Sequences

CONSTANTS
    Volumes,       \* the PersistentVolumes
    Attributes,    \* Attributes[v]: what v's object says
    Requests,      \* the requests of the forge
    Push,          \* the path and the body they carry
    TTL,           \* webhookSecretTTL
    Deadline,      \* webhookDeadline
    MaxSecrets,    \* bound: values the Secret takes, one after another
    MaxTime,       \* bound: the clock
    MaxFaults,     \* bound: refused API requests
    MaxCrashes     \* bound: kills of the controller

ASSUME WebhookAssumption ==
    /\ TTL \in Nat \ {0} /\ Deadline \in Nat \ {0}
    /\ MaxSecrets \in Nat \ {0} /\ MaxTime \in Nat \ {0}
    /\ MaxFaults \in Nat /\ MaxCrashes \in Nat

VARIABLES
    now,
    (* the cluster *)
    secret,      \* the value of the Secret the path names, 0 while it has none
    rotated,     \* when it got that value
    stamp,       \* stamp[v]: the demand on v, 0 for none
    (* the controller *)
    phase,       \* down, starting, demanding or serving
    unmarked,    \* volumes the start has not come to
    held,        \* the Secret in the cache: its value and when it was held
    (* each request *)
    pc,          \* pc[r]: where its handler is
    sent,        \* sent[r]: when the forge sent it
    begun,       \* begun[r]: when its handler began
    value,       \* value[r]: the value the handler verifies against
    todo,        \* todo[r]: the matching volumes it has not come to
    mark,        \* mark[r]: the time of the mark on its way, 0 for none
    logged,      \* requests of which a mark failed, or a start failed to cover
    (* the bounds *)
    faults, crashes

clusterVars    == <<secret, rotated, stamp>>
controllerVars == <<phase, unmarked, held>>
requestVars    == <<pc, sent, begun, value, todo, mark>>
vars == <<now, clusterVars, controllerVars, requestVars, logged, faults, crashes>>

Secrets == 0..MaxSecrets

Times == 1..MaxTime

NotHeld == [value |-> 0, read |-> 0]

TypeOK ==
    /\ now \in Times /\ secret \in Secrets /\ rotated \in 0..now
    /\ stamp \in [Volumes -> 0..now]
    /\ phase \in { "down", "starting", "demanding", "serving" }
    /\ unmarked \subseteq Volumes
    /\ held \in [value : Secrets, read : 0..now]
    /\ pc \in [Requests -> { "unsent", "waiting", "secret", "read", "verify",
                             "list", "mark", "accepted", "refused", "failed",
                             "lost" }]
    /\ sent \in [Requests -> 0..now] /\ begun \in [Requests -> 0..now]
    /\ value \in [Requests -> Secrets]
    /\ todo \in [Requests -> SUBSET Volumes] /\ mark \in [Requests -> 0..now]
    /\ logged \subseteq Requests
    /\ faults \in 0..MaxFaults /\ crashes \in 0..MaxCrashes

Every(x) == [r \in Requests |-> x]

Init ==
    /\ now = 1 /\ secret \in {0, 1} /\ rotated = 0 /\ stamp = [v \in Volumes |-> 0]
    /\ phase = "down" /\ unmarked = {} /\ held = NotHeld
    /\ pc = Every("unsent") /\ sent = Every(0)
    /\ begun = Every(0) /\ value = Every(0) /\ todo = Every({}) /\ mark = Every(0)
    /\ logged = {} /\ faults = 0 /\ crashes = 0

Fault == faults < MaxFaults /\ faults' = faults + 1

-----------------------------------------------------------------------------
(* What a push matches                                                     *)

ReadOnlyClaim(v) == Attributes[v].ours /\ Attributes[v].modes = { "ReadOnlyMany" }

(* A ref the forge names in full is that of a branch or a tag.             *)
RefMatches(pushed, followed) ==
    pushed \in { followed, <<"heads">> \o followed, <<"tags">> \o followed }

(* URLs are compared by what comparisonKey leaves of them.                 *)
Matches(v) ==
    /\ ReadOnlyClaim(v)
    /\ Attributes[v].secret = Push.secret
    /\ Attributes[v].namespace = Push.namespace
    /\ Attributes[v].repository \in Push.repositories
    /\ RefMatches(Push.ref, Attributes[v].ref)

-----------------------------------------------------------------------------
(* The forge and the person who rotates the Secret                         *)

(* The listener is bound before the start's demand, so a request that      *)
(* comes meanwhile waits.                                                  *)
Send(r) ==
    /\ pc[r] = "unsent"
    /\ sent' = [sent EXCEPT ![r] = now]
    /\ pc' = [pc EXCEPT ![r] = IF phase = "down" THEN "lost" ELSE "waiting"]
    /\ UNCHANGED <<now, clusterVars, controllerVars, begun, value, todo, mark, logged,
                   faults, crashes>>

Rotate ==
    /\ secret < MaxSecrets /\ secret' = secret + 1 /\ rotated' = now
    /\ UNCHANGED <<now, stamp, controllerVars, requestVars, logged, faults, crashes>>

(* A call that is not answered by the deadline has failed.                 *)
Expired(r) == now - begun[r] >= Deadline

Tick ==
    /\ now < MaxTime /\ now' = now + 1
    /\ \A r \in Requests : pc[r] = "read" \/ mark[r] # 0 => ~Expired(r)
    /\ UNCHANGED <<clusterVars, controllerVars, requestVars, logged, faults, crashes>>

-----------------------------------------------------------------------------
(* The controller's start                                                  *)

StartUp ==
    /\ phase = "down" /\ phase' = "starting"
    /\ UNCHANGED <<now, clusterVars, unmarked, held, requestVars, logged, faults,
                   crashes>>

(* Mutant: the demand of a start is left out.                              *)
StartDemandsNothing ==
    /\ phase = "starting" /\ phase' = "demanding"
    /\ UNCHANGED <<now, clusterVars, unmarked, held, requestVars, logged, faults,
                   crashes>>

StartLists ==
    /\ phase = "starting" /\ phase' = "demanding"
    /\ unmarked' = { v \in Volumes : ReadOnlyClaim(v) }
    /\ UNCHANGED <<now, clusterVars, held, requestVars, logged, faults, crashes>>

Lost == { r \in Requests : pc[r] = "lost" }

(* A start whose list is refused logs it, demands nothing, and serves.     *)
StartListFails ==
    /\ phase = "starting" /\ Fault
    /\ phase' = "serving" /\ logged' = logged \cup Lost
    /\ UNCHANGED <<now, clusterVars, unmarked, held, requestVars, crashes>>

StartMarks(v) ==
    /\ phase = "demanding" /\ v \in unmarked
    /\ unmarked' = unmarked \ {v}
    /\ stamp' = [stamp EXCEPT ![v] = now]
    /\ UNCHANGED <<now, secret, rotated, phase, held, requestVars, logged, faults,
                   crashes>>

StartMarkFails(v) ==
    /\ phase = "demanding" /\ v \in unmarked /\ Fault
    /\ unmarked' = unmarked \ {v}
    /\ logged' = IF Matches(v) THEN logged \cup Lost ELSE logged
    /\ UNCHANGED <<now, clusterVars, phase, held, requestVars, crashes>>

Serve ==
    /\ phase = "demanding" /\ unmarked = {} /\ phase' = "serving"
    /\ UNCHANGED <<now, clusterVars, unmarked, held, requestVars, logged, faults,
                   crashes>>

(* A kill loses the cache and every request without an answer.             *)
Crash ==
    /\ phase # "down" /\ crashes < MaxCrashes /\ crashes' = crashes + 1
    /\ phase' = "down" /\ unmarked' = {} /\ held' = NotHeld
    /\ pc' = [r \in Requests |->
                IF pc[r] \in { "unsent", "accepted", "refused", "failed" }
                THEN pc[r] ELSE "lost"]
    /\ begun' = Every(0) /\ value' = Every(0) /\ todo' = Every({}) /\ mark' = Every(0)
    /\ UNCHANGED <<now, clusterVars, sent, logged, faults>>

-----------------------------------------------------------------------------
(* A handler                                                               *)

Goto(r, phaseOfR) == pc' = [pc EXCEPT ![r] = phaseOfR]

Begin(r) ==
    /\ pc[r] = "waiting" /\ phase = "serving"
    /\ Goto(r, "secret") /\ begun' = [begun EXCEPT ![r] = now]
    /\ UNCHANGED <<now, clusterVars, controllerVars, sent, value, todo, mark,
                   logged, faults, crashes>>

(* Mutant: what is held stays.                                             *)
HeldForGood == held.value # 0

(* cached: the value held, for less than the TTL.                          *)
Fresh == held.value # 0 /\ now - held.read < TTL

TakeCached(r) ==
    /\ pc[r] = "secret" /\ Fresh
    /\ value' = [value EXCEPT ![r] = held.value] /\ Goto(r, "verify")
    /\ UNCHANGED <<now, clusterVars, controllerVars, sent, begun, todo, mark,
                   logged, faults, crashes>>

(* secretOf: a Secret that is not there, or has no value yet, refuses.     *)
ReadSecret(r) ==
    /\ pc[r] = "secret" /\ ~Fresh /\ ~Expired(r)
    /\ value' = [value EXCEPT ![r] = secret]
    /\ Goto(r, IF secret = 0 THEN "refused" ELSE "read")
    /\ UNCHANGED <<now, clusterVars, controllerVars, sent, begun, todo, mark,
                   logged, faults, crashes>>

(* Mutant: the cache holds when the value ends in place of when it was     *)
(* read.                                                                   *)
RememberUntil(r) ==
    /\ pc[r] = "read"
    /\ held' = [value |-> value[r], read |-> now + TTL]
    /\ Goto(r, "verify")
    /\ UNCHANGED <<now, clusterVars, phase, unmarked, sent, begun, value, todo,
                   mark, logged, faults, crashes>>

(* remember: held from now on, whenever the value was read.                *)
Remember(r) ==
    /\ pc[r] = "read"
    /\ held' = [value |-> value[r], read |-> now]
    /\ Goto(r, "verify")
    /\ UNCHANGED <<now, clusterVars, phase, unmarked, sent, begun, value, todo,
                   mark, logged, faults, crashes>>

(* A Secret or a list the API server does not answer is a 500.             *)
CallFails(r) ==
    /\ pc[r] \in { "secret", "list" } /\ (pc[r] = "secret" => ~Fresh)
    /\ IF Expired(r) THEN UNCHANGED faults ELSE Fault
    /\ Goto(r, "failed")
    /\ UNCHANGED <<now, clusterVars, controllerVars, sent, begun, value, todo,
                   mark, logged, crashes>>

(* The request is signed with the value the handler verifies against and   *)
(* reads as a push, or is refused (401) or malformed (400).                *)
Verify(r) ==
    /\ pc[r] = "verify"
    /\ \E verdict \in { "list", "refused" } : Goto(r, verdict)
    /\ UNCHANGED <<now, clusterVars, controllerVars, sent, begun, value, todo,
                   mark, logged, faults, crashes>>

List(r) ==
    /\ pc[r] = "list" /\ ~Expired(r)
    /\ todo' = [todo EXCEPT ![r] = { v \in Volumes : Matches(v) }]
    /\ Goto(r, "mark")
    /\ UNCHANGED <<now, clusterVars, controllerVars, sent, begun, value, mark,
                   logged, faults, crashes>>

(* Mutant: the mark carries the time the forge sent the push.              *)
StampAsSent(r) ==
    /\ pc[r] = "mark" /\ todo[r] # {} /\ mark[r] = 0 /\ ~Expired(r)
    /\ mark' = [mark EXCEPT ![r] = sent[r]]
    /\ UNCHANGED <<now, clusterVars, controllerVars, pc, sent, begun, value,
                   todo, logged, faults, crashes>>

(* demandPull: the time is taken before the patch is on its way.           *)
Stamp(r) ==
    /\ pc[r] = "mark" /\ todo[r] # {} /\ mark[r] = 0 /\ ~Expired(r)
    /\ mark' = [mark EXCEPT ![r] = now]
    /\ UNCHANGED <<now, clusterVars, controllerVars, pc, sent, begun, value,
                   todo, logged, faults, crashes>>

Patch(r) ==
    /\ mark[r] # 0
    /\ \E v \in todo[r] :
         /\ stamp' = [stamp EXCEPT ![v] = mark[r]]
         /\ todo' = [todo EXCEPT ![r] = @ \ {v}]
    /\ mark' = [mark EXCEPT ![r] = 0]
    /\ UNCHANGED <<now, secret, rotated, controllerVars, pc, sent, begun, value,
                   logged, faults, crashes>>

(* A mark that fails is logged, and the others go on.                      *)
PatchFails(r) ==
    /\ pc[r] = "mark" /\ (mark[r] # 0 \/ Expired(r))
    /\ IF Expired(r) THEN UNCHANGED faults ELSE Fault
    /\ \E v \in todo[r] : todo' = [todo EXCEPT ![r] = @ \ {v}]
    /\ mark' = [mark EXCEPT ![r] = 0] /\ logged' = logged \cup {r}
    /\ UNCHANGED <<now, clusterVars, controllerVars, pc, sent, begun, value,
                   crashes>>

Accept(r) ==
    /\ pc[r] = "mark" /\ todo[r] = {}
    /\ Goto(r, "accepted")
    /\ UNCHANGED <<now, clusterVars, controllerVars, sent, begun, value, todo,
                   mark, logged, faults, crashes>>

-----------------------------------------------------------------------------
Handler(r) ==
    \/ Begin(r) \/ TakeCached(r) \/ ReadSecret(r) \/ Remember(r) \/ CallFails(r)
    \/ Verify(r) \/ List(r) \/ Stamp(r) \/ Patch(r) \/ PatchFails(r) \/ Accept(r)

Start ==
    \/ StartUp \/ StartLists \/ StartListFails \/ Serve
    \/ \E v \in Volumes : StartMarks(v) \/ StartMarkFails(v)

Next ==
    \/ \E r \in Requests : Send(r) \/ Handler(r)
    \/ Start \/ Rotate \/ Tick \/ Crash

Spec == Init /\ [][Next]_vars

-----------------------------------------------------------------------------
(* Correctness                                                             *)

(* A push that is accepted, or that was lost while the controller was not  *)
(* there to answer, stands as a demand on every volume it names: stamped   *)
(* when it was sent or later, less the deadline of a handler whose earlier *)
(* mark landed over a later one, which the node's skew allows for          *)
(* (match.go demandAll, demandPull; demand.go demandSkew). Only a mark     *)
(* whose failure was logged is missing.                                    *)
Demanded(r) ==
    \A v \in Volumes : Matches(v) => stamp[v] + Deadline >= sent[r] /\ stamp[v] # 0

PushStands ==
    phase = "serving" =>
        \A r \in Requests \ logged : pc[r] \in { "accepted", "lost" } => Demanded(r)

(* Marks of two handlers, or of a handler and a start, may land in the     *)
(* other order than they were stamped, and take the demand on a volume     *)
(* back in time; never by more than the deadline of a handler, so a node   *)
(* whose skew is larger takes no demand it has not answered for answered   *)
(* (match.go demandPull, webhook.go webhookDeadline; demand.go demandSkew).*)
MarksNearlyInOrder == [][\A v \in Volumes : stamp'[v] + Deadline >= stamp[v]]_vars

(* A request whose handler begins a TTL and a deadline after the Secret    *)
(* changed is verified against the new value, also when a handler that     *)
(* read the old one held it over the new (webhook.go: "the listener takes  *)
(* the new one inside this window with no restart").                       *)
SecretIsTaken ==
    \A r \in Requests :
        pc[r] = "verify" /\ begun[r] >= rotated + TTL + Deadline => value[r] = secret

=============================================================================
