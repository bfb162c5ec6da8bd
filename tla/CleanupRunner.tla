---------------------------- MODULE CleanupRunner ----------------------------
(***************************************************************************)
(* The cleanup runner: passes over the OpenStack resources of one cluster,  *)
(* each of which requests the deletion of at most one kind of them and is   *)
(* repeated by the controller until one reports completion.                 *)
(*                                                                          *)
(* Every inventory and every DELETE is an action.  The cloud deletes        *)
(* asynchronously, refuses to delete what is still in use, and may give up  *)
(* on a deletion it has accepted.  Nothing is created: the machines that    *)
(* ran OCCM and Cinder CSI are gone when a cluster is deleted.  Inventories *)
(* are complete or fail (module Inventory), and the resources of other      *)
(* projects are filtered out below this module.                             *)
(***************************************************************************)
EXTENDS Ownership, FiniteSets

CONSTANTS
    ClusterName,     \* the cluster being cleaned up, as a sequence of parts
    LoadBalancers, FloatingIPs, SecurityGroups, Snapshots, Volumes,
    LBName,          \* name of each load balancer
    LBTags,          \* its reserved tags at the start
    VIPPort,         \* its VIP port
    OwnerName,       \* cluster that description or metadata of the others name
    AttachedPort,    \* port each floating IP is bound to, or NoPort
    BlockedBy,       \* what must be gone before the cloud deletes a resource
    NoPort,          \* what an inventory shows in place of an unknown VIP port
    ForeignTag,      \* a tag another cluster may add while we work
    MaxEdits, MaxFaults

Resources == LoadBalancers \cup FloatingIPs \cup SecurityGroups \cup Snapshots \cup Volumes

ASSUME RunnerAssumption ==
    /\ \A l \in LoadBalancers : VIPPort[l] # NoPort
    /\ \A x \in Resources : BlockedBy[x] \subseteq Resources
    /\ MaxEdits \in Nat /\ MaxFaults \in Nat

\* Resources of different kinds are different, and a cluster has a name.
ASSUME KindsAssumption ==
    /\ LoadBalancers \cap (FloatingIPs \cup SecurityGroups \cup Snapshots \cup Volumes) = {}
    /\ FloatingIPs \cap (SecurityGroups \cup Snapshots \cup Volumes) = {}
    /\ SecurityGroups \cap (Snapshots \cup Volumes) = {} /\ Snapshots \cap Volumes = {}

ASSUME PartsAssumption ==
    /\ ClusterName \in Seq(STRING) /\ ClusterName # <<>> /\ ForeignTag \in Seq(STRING)
    /\ \A l \in LoadBalancers : LBName[l] \in Seq(STRING) /\ LBTags[l] \subseteq Seq(STRING)

VARIABLES
    deleteVolumes, \* the resolved volumes policy of the request
    status,    \* of each resource in the cloud
    tags,      \* reserved tags of each load balancer
    kept,      \* volumes with the keep property
    hidden,    \* load balancers whose VIP port Octavia no longer reports
    pc,        \* the call the runner makes next
    listed,    \* load balancers as the inventory of this pass has them
    todo,      \* resources whose deletion this pass still has to request
    outcome,   \* how the last pass ended
    vetoed,    \* history: what was protected when the pass began
    edits, faults

vars == <<deleteVolumes, status, tags, kept, hidden, pc, listed, todo, outcome, vetoed, edits, faults>>

------------------------------------------------------------------------------
(* Selection                                                                 *)

Exists(x) == status[x] # "gone"

NameMatches(l) == HasClusterPrefix(LBName[l], ClusterName)

\* Facts about a load balancer: its ID, tags and VIP port when it was listed.
Protected(fact) == NameMatches(fact.id) /\ HasForeignOrInvalidTag(fact.tags, ClusterName)

SelectedLoadBalancers(facts) ==
    {f.id : f \in {g \in facts : NameMatches(g.id) /\ ~Protected(g)}}

ProtectedPorts(facts) == {f.port : f \in {g \in facts : Protected(g)}}

SelectedFloatingIPs(facts) ==
    {i \in FloatingIPs : /\ Exists(i)
                         /\ OwnerName[i] = ClusterName
                         /\ AttachedPort[i] \notin ProtectedPorts(facts)}

Selected(kind) == {x \in kind : Exists(x) /\ OwnerName[x] = ClusterName}

SelectedVolumes == Selected(Volumes) \ kept

\* The load balancers as an inventory shows them now.
Facts == {[id |-> l, tags |-> tags[l], port |-> IF l \in hidden THEN NoPort ELSE VIPPort[l]] :
              l \in {m \in LoadBalancers : Exists(m)}}

------------------------------------------------------------------------------
(* Ownership, for the properties                                             *)

\* Ownership as the matrix words it, read from the right end of a name: the
\* namespace and the Service come last, the cluster is all that precedes them.
WellFormed(s) == Len(s) > 2 /\ s[Len(s)] # "" /\ s[Len(s) - 1] # ""
NamedFor(s) == WellFormed(s) /\ SubSeq(s, 1, Len(s) - 2) = ClusterName

\* Names with the reserved prefix are OCCM's, and it joins Kubernetes names,
\* which have no underscore: no name continues that of the cluster in another
\* way.  Without that the selection by name, which the matrix keeps, takes more.
ASSUME NamesAssumption ==
    \A l \in LoadBalancers : NameMatches(l) => NamedFor(LBName[l])

Exclusive(l) == NamedFor(LBName[l]) /\ \A t \in tags[l] : NamedFor(t)
OnVIP(i, l) == Exists(l) /\ AttachedPort[i] = VIPPort[l]

Mine(x) ==
    \/ x \in LoadBalancers /\ Exclusive(x)
    \/ x \in FloatingIPs /\ OwnerName[x] = ClusterName
         /\ ~\E l \in LoadBalancers : OnVIP(x, l) /\ NamedFor(LBName[l]) /\ ~Exclusive(l)
    \/ x \in SecurityGroups /\ OwnerName[x] = ClusterName
    \/ deleteVolumes /\ x \in Snapshots /\ OwnerName[x] = ClusterName
    \/ deleteVolumes /\ x \in Volumes \ kept /\ OwnerName[x] = ClusterName

Remaining == {x \in Resources : Exists(x) /\ Mine(x)}

------------------------------------------------------------------------------
(* One pass                                                                  *)

Call(next) == pc' = next /\ UNCHANGED outcome

End(result) == pc' = "idle" /\ outcome' = result

\* Go on with the deletions of this phase, or with the next call.
BugDeletePhase(ids, next) == todo' = ids /\ Call("delete")
DeletePhase(ids, next) ==
    /\ todo' = ids
    /\ Call(IF ids # {} THEN "delete" ELSE next)

ListLoadBalancers ==
    /\ pc = "idle"
    /\ listed' = Facts
    /\ vetoed' = Resources \ Remaining
    /\ Call("listFloatingIPs")
    /\ UNCHANGED <<deleteVolumes, status, tags, kept, hidden, todo, edits, faults>>

\* The preflight: nothing is deleted before both inventories are read and
\* every protected load balancer is known by its VIP port.
BugListFloatingIPs ==
    /\ pc = "listFloatingIPs"
    /\ listed' = {}
    /\ DeletePhase(SelectedFloatingIPs(listed) \cup SelectedLoadBalancers(listed),
                   "listSecurityGroups")
    /\ UNCHANGED <<deleteVolumes, status, tags, kept, hidden, vetoed, edits, faults>>
ListFloatingIPs ==
    /\ pc = "listFloatingIPs"
    /\ listed' = {}
    /\ IF NoPort \in ProtectedPorts(listed)
       THEN End("error") /\ UNCHANGED todo
       ELSE DeletePhase(IF SelectedFloatingIPs(listed) # {}
                        THEN SelectedFloatingIPs(listed)
                        ELSE SelectedLoadBalancers(listed), "listSecurityGroups")
    /\ UNCHANGED <<deleteVolumes, status, tags, kept, hidden, vetoed, edits, faults>>

ListSecurityGroups ==
    /\ pc = "listSecurityGroups"
    /\ IF Selected(SecurityGroups) = {} /\ ~deleteVolumes
       THEN End("complete") /\ UNCHANGED todo
       ELSE DeletePhase(Selected(SecurityGroups), "listSnapshots")
    /\ UNCHANGED <<deleteVolumes, status, tags, kept, hidden, listed, vetoed, edits, faults>>

ListSnapshots ==
    /\ pc = "listSnapshots"
    /\ DeletePhase(Selected(Snapshots), "listVolumes")
    /\ UNCHANGED <<deleteVolumes, status, tags, kept, hidden, listed, vetoed, edits, faults>>

BugListVolumes ==
    /\ pc = "listVolumes"
    /\ IF Selected(Volumes) = {} THEN End("complete") /\ UNCHANGED todo
                                 ELSE DeletePhase(SelectedVolumes, "idle")
    /\ UNCHANGED <<deleteVolumes, status, tags, kept, hidden, listed, vetoed, edits, faults>>
ListVolumes ==
    /\ pc = "listVolumes"
    /\ IF SelectedVolumes = {} THEN End("complete") /\ UNCHANGED todo
                               ELSE DeletePhase(SelectedVolumes, "idle")
    /\ UNCHANGED <<deleteVolumes, status, tags, kept, hidden, listed, vetoed, edits, faults>>

\* The cloud accepts a DELETE of what is there, idle and not in use.  Otherwise
\* it answers 404, 400 or 409, and nothing happens.
Accept(x) ==
    status' = IF status[x] = "active" /\ \A y \in BlockedBy[x] : ~Exists(y)
              THEN [status EXCEPT ![x] = "deleting"] ELSE status

\* A DELETE that is accepted, pending or superfluous is passed over alike, and
\* a pass that requested any deletion reports that it has to wait.
BugDelete(x) ==
    /\ pc = "delete" /\ x \in todo
    /\ Accept(x)
    /\ todo' = todo \ {x}
    /\ IF todo' = {} THEN End("complete") ELSE UNCHANGED <<pc, outcome>>
    /\ UNCHANGED <<deleteVolumes, tags, kept, hidden, listed, vetoed, edits, faults>>
Delete(x) ==
    /\ pc = "delete" /\ x \in todo
    /\ Accept(x)
    /\ todo' = todo \ {x}
    /\ IF todo' = {} THEN End("waiting") ELSE UNCHANGED <<pc, outcome>>
    /\ UNCHANGED <<deleteVolumes, tags, kept, hidden, listed, vetoed, edits, faults>>

\* Any other answer, or none, ends the pass.  The cloud may have accepted the
\* DELETE whose answer is lost.
Fail ==
    /\ pc # "idle"
    /\ faults < MaxFaults /\ faults' = faults + 1
    /\ UNCHANGED status \/ \E x \in todo : Accept(x)
    /\ todo' = {} /\ listed' = {}
    /\ End("error")
    /\ UNCHANGED <<deleteVolumes, tags, kept, hidden, vetoed, edits>>

------------------------------------------------------------------------------
(* The cloud and its other users                                             *)

Disappear(x) ==
    /\ status[x] = "deleting"
    /\ status' = [status EXCEPT ![x] = "gone"]
    /\ UNCHANGED <<deleteVolumes, tags, kept, hidden, pc, listed, todo, outcome, vetoed, edits, faults>>

\* An accepted deletion ends in an error, and the resource stays.
DeletionFails(x) ==
    /\ status[x] = "deleting"
    /\ faults < MaxFaults /\ faults' = faults + 1
    /\ status' = [status EXCEPT ![x] = "active"]
    /\ UNCHANGED <<deleteVolumes, tags, kept, hidden, pc, listed, todo, outcome, vetoed, edits>>

\* The VIP port of a load balancer is no longer reported.
HidePort(l) ==
    /\ status[l] = "active" /\ l \notin hidden
    /\ faults < MaxFaults /\ faults' = faults + 1
    /\ hidden' = hidden \cup {l}
    /\ UNCHANGED <<deleteVolumes, status, tags, kept, pc, listed, todo, outcome, vetoed, edits>>

\* Another cluster's Service begins to share a load balancer.
Share(l) ==
    /\ edits < MaxEdits /\ edits' = edits + 1
    /\ status[l] = "active"
    /\ tags' = [tags EXCEPT ![l] = @ \cup {ForeignTag}]
    /\ UNCHANGED <<deleteVolumes, status, kept, hidden, pc, listed, todo, outcome, vetoed, faults>>

\* A user sets the keep property of a volume.
Keep(v) ==
    /\ edits < MaxEdits /\ edits' = edits + 1
    /\ status[v] = "active" /\ v \notin kept
    /\ kept' = kept \cup {v}
    /\ UNCHANGED <<deleteVolumes, status, tags, hidden, pc, listed, todo, outcome, vetoed, faults>>

------------------------------------------------------------------------------
Init ==
    /\ deleteVolumes \in BOOLEAN
    /\ status = [x \in Resources |-> "active"]
    /\ tags = [l \in LoadBalancers |-> LBTags[l]]
    /\ kept \in SUBSET Volumes
    /\ hidden = {}
    /\ pc = "idle" /\ listed = {} /\ todo = {} /\ outcome = "none"
    /\ vetoed = {}
    /\ edits = 0 /\ faults = 0

Pass ==
    \/ ListLoadBalancers \/ ListFloatingIPs \/ ListSecurityGroups
    \/ ListSnapshots \/ ListVolumes \/ \E x \in todo : Delete(x)

Next ==
    \/ Pass \/ Fail
    \/ \E x \in Resources : Disappear(x) \/ DeletionFails(x)
    \/ \E l \in LoadBalancers : Share(l) \/ HidePort(l)
    \/ \E v \in Volumes : Keep(v)

Spec == Init /\ [][Next]_vars

\* The controller repeats a pass that has to wait or has failed, and the cloud
\* finishes what it has accepted.
Fairness == WF_vars(Pass) /\ \A x \in Resources : WF_vars(Disappear(x))

FairSpec == Spec /\ Fairness

------------------------------------------------------------------------------
(* Properties                                                                *)

\* Every variable has its type, and there is work to do exactly in a deletion
\* phase.
TypeOK ==
    /\ deleteVolumes \in BOOLEAN
    /\ status \in [Resources -> {"active", "deleting", "gone"}]
    /\ DOMAIN tags = LoadBalancers
    /\ kept \subseteq Volumes /\ hidden \subseteq LoadBalancers
    /\ pc \in {"idle", "listFloatingIPs", "listSecurityGroups", "listSnapshots",
               "listVolumes", "delete"}
    /\ {f.id : f \in listed} \subseteq LoadBalancers
    /\ todo \subseteq Resources /\ vetoed \subseteq Resources
    /\ todo # {} <=> pc = "delete"
    /\ outcome \in {"none", "waiting", "complete", "error"}
    /\ edits \in 0..MaxEdits /\ faults \in 0..MaxFaults

\* The cloud accepts a DELETE of x in this step.
Accepted(x) == status[x] = "active" /\ status'[x] = "deleting"

\* Nothing is deleted that was protected, kept or not the cluster's when the
\* pass began: a shared load balancer, the floating IP on its VIP, a volume
\* with the keep property, volumes under another policy.
OnlyOwnedIsDeleted == [][\A x \in Resources : Accepted(x) => x \notin vetoed]_vars

\* The kinds of resources a cluster must have lost before one of x's kind goes.
Before(x) ==
    UNION {IF x \in FloatingIPs THEN {} ELSE FloatingIPs,
           IF x \in FloatingIPs \cup LoadBalancers THEN {} ELSE LoadBalancers,
           IF x \in Snapshots \cup Volumes THEN SecurityGroups ELSE {},
           IF x \in Volumes THEN Snapshots ELSE {}}

\* Phases wait for the cloud, not for its answers: a DELETE is accepted only
\* when nothing the cluster owns of an earlier kind is left, not even in
\* deletion, and whatever deletions failed after they had been accepted.
PhaseOrder == [][\A x \in Resources : Accepted(x) => Before(x) \cap Remaining = {}]_vars

\* What the controller relies on: see CleanupContract.
Contract == INSTANCE CleanupContract WITH remaining <- Remaining, verdict <- outcome
ImplementsContract == Contract!Spec

\* The cleanup cannot get past these without help: something it must not touch
\* is in the way, or the VIP port of a protected load balancer is unknown.
Obstructed ==
    \/ \E x \in Remaining : \E y \in BlockedBy[x] : Exists(y) /\ ~Mine(y)
    \/ \E l \in LoadBalancers : /\ Exists(l) /\ NamedFor(LBName[l]) /\ ~Exclusive(l)
                               /\ l \in hidden

\* Otherwise repeated passes come to an end, past accepted, refused, failed and
\* repeated deletions.
CleanupEnds == []<>(outcome = "complete" \/ Obstructed)

\* docs/design/resource-ownership-matrix.md, "must not select": a shared load
\* balancer with a foreign tag "and the floating IP attached to its VIP port".
SharedVIPKept ==
    [][\A i \in FloatingIPs, l \in LoadBalancers :
        Accepted(i) => ~(OnVIP(i, l) /\ \E t \in tags[l] : ~NamedFor(t))]_vars
==============================================================================
