------------------------------ MODULE WatchQueue ------------------------------
(***************************************************************************)
(* What wakes a reconciliation up: the API objects, the informers that      *)
(* follow them with a delay, the handlers that turn notifications into      *)
(* requests with the help of a cached index, the work queue, and the reads  *)
(* of a reconciliation, which go past the cache.                            *)
(*                                                                          *)
(* A reconciliation of a paused cluster ends without a requeue.  From then   *)
(* on only a notification can bring it back.                                *)
(*                                                                          *)
(* An operator named Bug... is a plausible error in the definition below it. *)
(* No behaviour uses it: the properties are tested against it.               *)
(*                                                                          *)
(* Abstracted: an OpenStackCluster has one owner reference at most, the      *)
(* cleanup of a deletion (module CredentialCleanup) is one step that comes   *)
(* to an end or asks for another attempt, and the delays of the queue are    *)
(* arbitrary.                                                               *)
(***************************************************************************)
EXTENDS Naturals, Sequences

CONSTANTS
    Clusters,   \* names of OpenStackClusters
    Owners,     \* names of CAPI Clusters
    Secrets,    \* names of identity Secrets
    OwnerOf,    \* the CAPI Cluster an OpenStackCluster may refer to
    RefOf,      \* the Secret it refers to
    None,       \* no cluster
    FaultKinds, \* kinds of faults of this instance
    MaxEdits, MaxFaults

Faults == {"call", "list", "relist", "crash"}

ASSUME QueueAssumption ==
    /\ OwnerOf \in [Clusters -> Owners]
    /\ RefOf \in [Clusters -> Secrets]
    /\ None \notin Clusters
    /\ FaultKinds \subseteq Faults
    /\ MaxEdits \in Nat /\ MaxFaults \in Nat

VARIABLES
    object,      \* OpenStackClusters in the API; uid 0 stands for "absent"
    owner,       \* CAPI Clusters in the API; uid 0 stands for "absent"
    objectNews, ownerNews,    \* versions their informers have yet to deliver
    secretNews,  \* Secrets with a change that is yet to be delivered
    objectCache, ownerCache,  \* versions their informers have delivered
    up,          \* does the manager run, and lead?
    queue,       \* requests that wait for a worker
    delayed,     \* requests that wait for their delay
    worker,      \* the reconciliation under way
    unseen,      \* history: clusters changed since they were last read
    missed,      \* history: clusters of which a fault lost a notification
    edits, faults

api      == <<object, owner, objectNews, ownerNews, secretNews>>
caches   == <<objectCache, ownerCache>>
requests == <<queue, delayed>>
vars     == <<api, caches, up, requests, worker, unseen, missed, edits, faults>>

------------------------------------------------------------------------------
(* Data                                                                      *)

PauseKinds == {"spec", "annotation"}

Object == [uid : Nat, rv : Nat, paused : BOOLEAN, deleting : BOOLEAN,
           finalizer : BOOLEAN, ref : Nat]
Owner == [uid : Nat, pause : SUBSET PauseKinds]

\* Stages of a reconciliation, each named for the call it makes next.
Stages == {"idle", "isPaused", "cleanup", "check", "checkPaused", "patch"}
Idle == [stage |-> "idle", key |-> None, view |-> [uid |-> 0, rv |-> 0,
            paused |-> FALSE, deleting |-> FALSE, finalizer |-> FALSE, ref |-> 0]]

Exists(o) == o.uid # 0

\* The rule of README, "Pause and resume", for the objects as they are now.
Paused(c) ==
    \/ object[c].paused
    \/ LET own == owner[OwnerOf[c]] IN
       Exists(own) /\ own.uid = object[c].ref /\ own.pause # {}

\* A reconciliation has something to do: a finalizer to add, or a deletion.
Unsettled(c) ==
    /\ Exists(object[c]) /\ ~Paused(c)
    /\ object[c].deleting <=> object[c].finalizer

------------------------------------------------------------------------------
(* Writes to the API.  Informers hear of them while the manager runs.         *)

WriteObject(c, o) ==
    LET new == [o EXCEPT !.rv = object[c].rv + 1] IN
    /\ object' = [object EXCEPT ![c] = new]
    /\ objectNews' = IF up THEN [objectNews EXCEPT ![c] = Append(@, new)] ELSE objectNews
    /\ unseen' = unseen \cup {c}
    /\ UNCHANGED <<owner, ownerNews, secretNews>>

WriteOwner(n, o) ==
    /\ owner' = [owner EXCEPT ![n] = o]
    /\ ownerNews' = IF up THEN [ownerNews EXCEPT ![n] = Append(@, o)] ELSE ownerNews
    /\ unseen' = unseen \cup
          {c \in Clusters : OwnerOf[c] = n /\ object[c].ref \in {owner[n].uid, o.uid} \ {0}}
    /\ UNCHANGED <<object, objectNews, secretNews>>

------------------------------------------------------------------------------
(* Watches                                                                   *)

\* The two indexes, and requestsForReference on them: the clusters in the
\* cache that refer to one of these versions of the owner, or to the Secret.
Cached == {c \in Clusters : Exists(objectCache[c])}
RequestsForCluster(n, uids) ==
    {c \in Cached : OwnerOf[c] = n /\ objectCache[c].ref \in uids \ {0}}
RequestsForSecret(s) == {c \in Cached : RefOf[c] = s}

\* The predicate on updates; creations and deletions always pass.
BugClusterPauseChanged(previous, current) ==
    \/ previous.uid # current.uid
    \/ ("spec" \in previous.pause) # ("spec" \in current.pause)
ClusterPauseChanged(previous, current) ==
    \/ previous.uid # current.uid
    \/ previous.pause # current.pause

BugOwnerRequests(n, new) ==
    IF ClusterPauseChanged(ownerCache[n], new) THEN {n} ELSE {}
OwnerRequests(n, new) ==
    IF ClusterPauseChanged(ownerCache[n], new)
    THEN RequestsForCluster(n, {ownerCache[n].uid, new.uid}) ELSE {}

Add(keys) == queue' = queue \cup keys /\ UNCHANGED delayed

\* Every change of an OpenStackCluster is a request for it.
DeliverObject(c) ==
    /\ objectNews[c] # <<>>
    /\ objectCache' = [objectCache EXCEPT ![c] = Head(objectNews[c])]
    /\ objectNews' = [objectNews EXCEPT ![c] = Tail(@)]
    /\ Add({c})
    /\ UNCHANGED <<object, owner, ownerNews, secretNews, ownerCache, up, worker, unseen,
                   missed, edits, faults>>

DeliverOwner(n) ==
    /\ ownerNews[n] # <<>>
    /\ LET new == Head(ownerNews[n]) IN
       /\ Add(OwnerRequests(n, new))
       /\ ownerCache' = [ownerCache EXCEPT ![n] = new]
    /\ ownerNews' = [ownerNews EXCEPT ![n] = Tail(@)]
    /\ UNCHANGED <<object, owner, objectNews, secretNews, objectCache, up, worker, unseen,
                   missed, edits, faults>>

DeliverSecret(s) ==
    /\ s \in secretNews
    /\ secretNews' = secretNews \ {s}
    /\ Add(RequestsForSecret(s))
    /\ UNCHANGED <<object, owner, objectNews, ownerNews, caches, up, worker, unseen,
                   missed, edits, faults>>

\* The periodic resync of the cache: an update without a change, which only
\* the OpenStackClusters' own watch lets pass.
Resync ==
    /\ up /\ Add(Cached)
    /\ UNCHANGED <<api, caches, up, worker, unseen, missed, edits, faults>>

------------------------------------------------------------------------------
(* Reconcile                                                                 *)

\* The end of a reconciliation: over, or again after a delay (RequeueAfter, or
\* the rate limiter after an error).
BugFinish(result) == worker' = Idle /\ UNCHANGED requests
Finish(result) ==
    /\ worker' = Idle
    /\ delayed' = IF result = "again" THEN delayed \cup {worker.key} ELSE delayed
    /\ UNCHANGED queue

Goto(stage, view) ==
    /\ worker' = [worker EXCEPT !.stage = stage, !.view = view]
    /\ UNCHANGED requests

Reading == UNCHANGED <<api, caches, up, unseen, missed, edits, faults>>

\* The single worker takes a request; a key that is added while it is being
\* worked on waits.  The first read sees everything up to now.
Take(c) ==
    /\ up /\ worker.stage = "idle" /\ c \in queue
    /\ queue' = queue \ {c}
    /\ worker' = IF Exists(object[c])
                 THEN [stage |-> "isPaused", key |-> c, view |-> object[c]] ELSE Idle
    /\ unseen' = unseen \ {c} /\ missed' = missed \ {c}
    /\ UNCHANGED <<api, caches, up, delayed, edits, faults>>

BugIsPaused(o) == o.paused \/ owner[OwnerOf[worker.key]].pause # {}
IsPaused(o) ==
    \/ o.paused
    \/ LET own == owner[OwnerOf[worker.key]] IN
       /\ o.ref # 0 /\ Exists(own)
       /\ own.uid = o.ref /\ own.pause # {}

Dispatch ==
    LET o == worker.view IN
    /\ worker.stage = "isPaused"
    /\ IF IsPaused(o) \/ o.deleting # o.finalizer THEN Finish("over")
       ELSE Goto(IF o.deleting THEN "cleanup" ELSE "check", o)
    /\ Reading

\* reconcileDelete: waits, errors and stored checkpoints ask for another attempt.
CleanupAgain == worker.stage = "cleanup" /\ Finish("again") /\ Reading
CleanupDone == worker.stage = "cleanup" /\ Goto("check", worker.view) /\ Reading

\* The object is read again before a patch, by addFinalizer or by
\* checkCleanupInputs.
Check ==
    LET o == worker.view  latest == object[worker.key] IN
    /\ worker.stage = "check"
    /\ IF ~Exists(latest) THEN Finish("over")
       ELSE IF latest.uid # o.uid THEN Finish("again")
       ELSE IF ~o.deleting /\ (latest.deleting \/ latest.finalizer) THEN Finish("over")
       ELSE IF o.deleting /\ ~latest.finalizer THEN Finish("again")
       ELSE IF latest.paused THEN Finish("over")
       ELSE Goto("checkPaused", latest)
    /\ Reading

CheckPaused ==
    /\ worker.stage = "checkPaused"
    /\ IF IsPaused(worker.view) THEN Finish("over") ELSE Goto("patch", worker.view)
    /\ Reading

\* The finalizer is added or removed under an optimistic lock.
Patch ==
    LET latest == object[worker.key]  locked == latest.rv = worker.view.rv IN
    /\ worker.stage = "patch"
    /\ Finish(IF Exists(latest) /\ ~locked THEN "again" ELSE "over")
    /\ IF Exists(latest) /\ locked
       THEN WriteObject(worker.key, [latest EXCEPT !.finalizer = ~latest.deleting])
       ELSE UNCHANGED <<api, unseen>>
    /\ UNCHANGED <<caches, up, missed, edits, faults>>

Step == Dispatch \/ CleanupAgain \/ CleanupDone \/ Check \/ CheckPaused \/ Patch

\* A delay is over.
Wake(c) ==
    /\ c \in delayed
    /\ delayed' = delayed \ {c} /\ queue' = queue \cup {c}
    /\ UNCHANGED <<api, caches, up, worker, unseen, missed, edits, faults>>

------------------------------------------------------------------------------
(* The process                                                               *)

\* The manager has become the leader and its caches are filled: every object
\* is delivered as a creation before the worker starts.
Start ==
    /\ ~up /\ up' = TRUE
    /\ objectCache' = object /\ ownerCache' = owner
    /\ queue' = {c \in Clusters : Exists(object[c])}
    /\ UNCHANGED <<api, delayed, worker, unseen, missed, edits, faults>>

Fault(kind) == kind \in FaultKinds /\ faults < MaxFaults /\ faults' = faults + 1

\* The process ends, or loses its lease: what it had queued is gone.
Crash ==
    /\ Fault("crash") /\ up /\ up' = FALSE
    /\ objectNews' = [c \in Clusters |-> <<>>] /\ ownerNews' = [n \in Owners |-> <<>>]
    /\ secretNews' = {} /\ queue' = {} /\ delayed' = {} /\ worker' = Idle
    /\ UNCHANGED <<object, owner, caches, unseen, missed, edits>>

\* Any call of a reconciliation fails.
CallFails ==
    /\ Fault("call") /\ worker.stage # "idle" /\ Finish("again")
    /\ UNCHANGED <<api, caches, up, unseen, missed, edits>>

\* The List of requestsForReference fails: the error is logged and the
\* notification has no effect.
ListFails(n) ==
    /\ Fault("list") /\ ownerNews[n] # <<>>
    /\ missed' = missed \cup OwnerRequests(n, Head(ownerNews[n]))
    /\ ownerCache' = [ownerCache EXCEPT ![n] = Head(ownerNews[n])]
    /\ ownerNews' = [ownerNews EXCEPT ![n] = Tail(@)]
    /\ UNCHANGED <<object, owner, objectNews, secretNews, objectCache, up, requests,
                   worker, unseen, edits>>

ListFailsForSecret(s) ==
    /\ Fault("list") /\ s \in secretNews
    /\ missed' = missed \cup RequestsForSecret(s)
    /\ secretNews' = secretNews \ {s}
    /\ UNCHANGED <<object, owner, objectNews, ownerNews, caches, up, requests, worker,
                   unseen, edits>>

\* A watch cannot be resumed and starts over with a list: versions in between
\* are skipped.  (To skip versions of an OpenStackCluster changes nothing, as
\* all of them are the same request.)
Relist(n) ==
    /\ Fault("relist") /\ Len(ownerNews[n]) > 1
    /\ ownerNews' = [ownerNews EXCEPT ![n] = <<@[Len(@)]>>]
    /\ missed' = missed \cup {c \in Clusters : OwnerOf[c] = n}
    /\ UNCHANGED <<object, owner, objectNews, secretNews, caches, up, requests, worker,
                   unseen, edits>>

------------------------------------------------------------------------------
(* Users, CAPI and CAPO                                                      *)

Outside == UNCHANGED <<caches, up, requests, worker, missed, faults>>
Edit == edits < MaxEdits /\ edits' = edits + 1

\* Creation, the pause annotation, adoption by the owner, deletion.
EditObject(c) ==
    LET o == object[c] IN
    /\ Edit
    /\ \/ ~Exists(o) /\ WriteObject(c, [Idle.view EXCEPT !.uid = o.rv + 1])
       \/ Exists(o) /\ WriteObject(c, [o EXCEPT !.paused = ~@])
       \/ /\ Exists(o) /\ Exists(owner[OwnerOf[c]]) /\ o.ref # owner[OwnerOf[c]].uid
          /\ WriteObject(c, [o EXCEPT !.ref = owner[OwnerOf[c]].uid])
       \/ Exists(o) /\ ~o.deleting /\ WriteObject(c, [o EXCEPT !.deleting = TRUE])
    /\ Outside

\* An object that is deleted goes away once nobody holds it.
Vanish(c) ==
    /\ Exists(object[c]) /\ object[c].deleting /\ ~object[c].finalizer
    /\ WriteObject(c, [Idle.view EXCEPT !.uid = 0])
    /\ UNCHANGED edits /\ Outside

EditOwner(n) ==
    /\ Edit
    /\ \/ /\ Exists(owner[n])
          /\ \E kind \in PauseKinds :
                WriteOwner(n, [owner[n] EXCEPT !.pause =
                                 IF kind \in @ THEN @ \ {kind} ELSE @ \cup {kind}])
       \/ Exists(owner[n]) /\ WriteOwner(n, [uid |-> 0, pause |-> {}])
       \/ ~Exists(owner[n]) /\ WriteOwner(n, [uid |-> edits + 2, pause |-> {}])
    /\ Outside

EditSecret(s) ==
    /\ Edit
    /\ secretNews' = IF up THEN secretNews \cup {s} ELSE secretNews
    /\ unseen' = unseen \cup {c \in Clusters : RefOf[c] = s}
    /\ UNCHANGED <<object, owner, objectNews, ownerNews>>
    /\ Outside

------------------------------------------------------------------------------
Init ==
    /\ object = [c \in Clusters |-> [Idle.view EXCEPT !.uid = 1, !.rv = 1, !.ref = 1]]
    /\ owner = [n \in Owners |-> [uid |-> 1, pause |-> {}]]
    /\ objectNews = [c \in Clusters |-> <<>>] /\ ownerNews = [n \in Owners |-> <<>>]
    /\ secretNews = {}
    /\ objectCache = object /\ ownerCache = owner
    /\ up = FALSE /\ queue = {} /\ delayed = {} /\ worker = Idle
    /\ unseen = Clusters /\ missed = {}
    /\ edits = 0 /\ faults = 0

Next ==
    \/ Step \/ Start \/ Crash \/ CallFails \/ Resync
    \/ \E c \in Clusters : \/ DeliverObject(c) \/ Take(c) \/ Wake(c)
                           \/ EditObject(c) \/ Vanish(c)
    \/ \E n \in Owners : DeliverOwner(n) \/ ListFails(n) \/ Relist(n) \/ EditOwner(n)
    \/ \E s \in Secrets : DeliverSecret(s) \/ ListFailsForSecret(s) \/ EditSecret(s)

Spec == Init /\ [][Next]_vars

\* Informers deliver, delays end, the worker works and leaves no waiting key
\* out for ever, the process is started again, the cache is resynced, and a
\* cleanup that is tried again and again succeeds (module CredentialCleanup).
Fairness ==
    /\ WF_vars(Start) /\ WF_vars(Step) /\ WF_vars(Resync)
    /\ SF_vars(CleanupDone)
    /\ \A c \in Clusters : /\ WF_vars(DeliverObject(c)) /\ WF_vars(Wake(c))
                           /\ SF_vars(Take(c))
    /\ \A n \in Owners : WF_vars(DeliverOwner(n))
    /\ \A s \in Secrets : WF_vars(DeliverSecret(s))

FairSpec == Spec /\ Fairness

------------------------------------------------------------------------------
(* Properties                                                                *)

\* Every variable has its type.
TypeOK ==
    /\ object \in [Clusters -> Object] /\ owner \in [Owners -> Owner]
    /\ objectNews \in [Clusters -> Seq(Object)] /\ ownerNews \in [Owners -> Seq(Owner)]
    /\ objectCache \in [Clusters -> Object] /\ ownerCache \in [Owners -> Owner]
    /\ secretNews \subseteq Secrets
    /\ up \in BOOLEAN /\ queue \subseteq Clusters /\ delayed \subseteq Clusters
    /\ worker \in [stage : Stages, key : Clusters \cup {None}, view : Object]
    /\ unseen \subseteq Clusters /\ missed \subseteq Clusters
    /\ edits \in 0..MaxEdits /\ faults \in 0..MaxFaults

\* Something under way will make a reconciliation read this cluster again.
News(c) ==
    \/ objectNews[c] # <<>>
    \/ ownerNews[OwnerOf[c]] # <<>>
    \/ RefOf[c] \in secretNews
Quiet(c) == up /\ worker.key # c /\ c \notin queue \cup delayed /\ ~News(c)

\* A cluster for which nothing is under way has nothing left to be done: it is
\* paused, settled or gone.  No reconciliation ends for good on a pause, a
\* conflict or an object that was overtaken while it read, even though its
\* reads and the notifications come along different ways.
QuietMeansSettled ==
    \A c \in Clusters : Quiet(c) /\ c \notin missed => ~Unsettled(c)

\* README, "Pause and resume": a change of the cluster, of its owner's pause or
\* of its Secret triggers a reconciliation.  One that began before the change
\* is not enough, nor is a retry that happens to be due.
ChangesTriggerReconciliation ==
    \A c \in Clusters :
        up /\ Exists(object[c]) /\ c \in unseen \ missed => c \in queue \/ News(c)

\* Left alone, every cluster settles, restarts and lost notifications included.
ClustersSettle == \A c \in Clusters : []<>~Unsettled(c)

\* README.md, "Pause and resume": "Removing the pause triggers reconciliation
\* through the Cluster or OpenStackCluster watch."
PauseRemovalTriggersReconciliation ==
    \A c \in Clusters : Quiet(c) => ~Unsettled(c)
==============================================================================
