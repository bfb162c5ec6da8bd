-------------------------- MODULE CredentialCleanup --------------------------
(***************************************************************************)
(* The OpenStackCluster controller: what a reconciliation does to the       *)
(* OpenStackCluster, its identity Secret and the application credential     *)
(* the Secret holds.                                                        *)
(*                                                                          *)
(* Every call a reconciliation makes (Kubernetes API, Keystone, one         *)
(* resource cleanup pass) is an action of its own, so that users, CAPO, the *)
(* cloud and a second replica can act between any two of them.  A step      *)
(* without a call is folded into the action of the call before it.          *)
(*                                                                          *)
(* An operator named Bug... is a plausible error in the definition below it.  *)
(* No behaviour uses it: the properties are tested against it.                *)
(*                                                                          *)
(* Abstracted: a credential value stands for the whole cloud binding        *)
(* (authority, project, user, region, interface, cloud name, ID), and one   *)
(* pass of the cleanup runner is two actions, CleanupWaiting and            *)
(* CleanupComplete; module CleanupRunner models its inside.                 *)
(***************************************************************************)
EXTENDS Naturals

CONSTANTS
    Clusters,       \* keys (names) of OpenStackCluster objects in a namespace
    Workers,        \* controller processes; two of them model a hand-over
                    \* in which the old leader still has a call in flight
    SecretNames,    \* names of identity Secrets
    Credentials,    \* application credentials
    Names,          \* cluster names that own OpenStack resources
    Resources,      \* OpenStack resources
    Volumes,        \* those the volumes policy is about
    OwnerOf,        \* the cluster name each resource belongs to
    NameOf,         \* effective name of each new OpenStackCluster
    RefOf,          \* Secret each new OpenStackCluster refers to
    CredentialOf,   \* credential each new Secret holds
    Edits,          \* kinds of edits users make in this instance
    MaxEdits,       \* bound on the number of edits
    MaxFaults,      \* bound on the number of failed or interrupted calls
    LateReferences  \* may references to a Secret appear after a checkpoint?

EditKinds == {"pause", "owner", "label", "volumes", "rebind", "create",
              "secret", "replace", "revoke", "restart"}
Janitor == "janitor"
CAPO    == "capo"
Policies == {"delete", "keep"}

ASSUME ConstantsAssumption ==
    /\ Clusters # {}
    /\ Volumes \subseteq Resources
    /\ OwnerOf \in [Resources -> Names]
    /\ NameOf \in [Clusters -> Names]
    /\ RefOf \in [Clusters -> SecretNames]
    /\ CredentialOf \in [SecretNames -> Credentials]
    /\ Edits \subseteq EditKinds
    /\ MaxEdits \in Nat /\ MaxFaults \in Nat
    /\ LateReferences \in BOOLEAN

VARIABLES
    cluster,      \* OpenStackCluster objects; uid 0 stands for "absent"
    rv,           \* resourceVersion of each OpenStackCluster
    ownerPaused,  \* is the owning CAPI Cluster paused (spec or annotation)?
    secret,       \* identity Secrets; uid 0 stands for "absent"
    alive,        \* application credentials Keystone knows
    cloud,        \* OpenStack resources that still exist
    defaultPolicy, \* DefaultVolumesPolicy each process was started with
    job,          \* what each worker is doing and what it has read
    edits, faults \* how much of the two bounds is used

vars == <<cluster, rv, ownerPaused, secret, alive, cloud, defaultPolicy, job,
          edits, faults>>

------------------------------------------------------------------------------
(* Data                                                                      *)

Phases == {"none", "credentialDeleteStarted", "secretDeleteStarted"}

\* The checkpoint annotation.  Phase "none": no annotation.
Checkpoint == [phase : Phases, clusterUID : Nat, clusterName : Names,
               secretName : SecretNames, secretUID : Nat,
               cred : Credentials, volumes : Policies]

Cluster == [uid : Nat, gen : Nat, deleting : BOOLEAN,
            finalizers : SUBSET {Janitor, CAPO}, paused : BOOLEAN,
            name : Names, volumes : Policies \cup {"default"},
            ref : SecretNames, ckpt : Checkpoint]

Secret == [uid : Nat, rv : Nat, cred : Credentials, policy : Policies,
           deleting : BOOLEAN, held : BOOLEAN]

NoCheckpoint(c) ==
    [phase |-> "none", clusterUID |-> 0, clusterName |-> NameOf[c],
     secretName |-> RefOf[c], secretUID |-> 0,
     cred |-> CredentialOf[RefOf[c]], volumes |-> "keep"]

NewCluster(c, id) ==
    [uid |-> id, gen |-> 1, deleting |-> FALSE, finalizers |-> {CAPO},
     paused |-> FALSE, name |-> NameOf[c], volumes |-> "default",
     ref |-> RefOf[c], ckpt |-> NoCheckpoint(c)]

Absent(c) == NewCluster(c, 0)

Present(c) == cluster[c].uid # 0

Exists(s) == s.uid # 0

\* Stages of a reconciliation, each named for the call it makes next.
Stages == {"idle", "isPaused", "addGet", "addIsPaused", "addPatch",
           "findSecret", "newSession", "cleanup", "listReferences",
           "checkSecret", "checkCluster", "checkOwner", "saveCheckpoint",
           "removeFinalizer", "deleteCredential", "confirmDeletion",
           "deleteSecret"}

\* What checkCleanupInputs is called for; "none" on a first pass until the
\* references have been listed.
Goals == {"none", "save", "finish", "credential", "secret"}

Job == [pc : Stages, key : Clusters, obs : Cluster, sec : Secret,
        seen : Nat, plan : Checkpoint, goal : Goals]

AnyCluster == CHOOSE c \in Clusters : TRUE

NoSecret(c) == [uid |-> 0, rv |-> 0, cred |-> CredentialOf[RefOf[c]],
                policy |-> "keep", deleting |-> FALSE, held |-> FALSE]

Idle == [pc |-> "idle", key |-> AnyCluster, obs |-> Absent(AnyCluster),
         sec |-> NoSecret(AnyCluster), seen |-> 0,
         plan |-> NoCheckpoint(AnyCluster), goal |-> "none"]

\* The resources a cleanup under this name and policy is about.
InScope(name, policy) ==
    {r \in Resources : OwnerOf[r] = name /\ (policy = "delete" \/ r \notin Volumes)}

VolumesPolicyFor(w, o) == IF o.volumes = "default" THEN defaultPolicy[w] ELSE o.volumes

ScopeOf(w) == InScope(job[w].obs.name, VolumesPolicyFor(w, job[w].obs))

------------------------------------------------------------------------------
(* Writes to the API server.  A write moves the resourceVersion, and an       *)
(* object that is being deleted goes away with its last finalizer.            *)

Write(c, o) ==
    /\ cluster' = [cluster EXCEPT ![c] =
                     IF o.deleting /\ o.finalizers = {} THEN Absent(c) ELSE o]
    /\ rv' = [rv EXCEPT ![c] = @ + 1]

\* A patch with an optimistic lock on the version the worker has read.
BugLockedPatch(w, o) == Write(job[w].key, o)
LockedPatch(w, o) ==
    IF rv[job[w].key] = job[w].seen THEN Write(job[w].key, o)
                                    ELSE UNCHANGED <<cluster, rv>>

WriteSecret(s, o) == secret' = [secret EXCEPT ![s] = [o EXCEPT !.rv = secret[s].rv + 1]]

\* The reconciliation ends; its next attempt starts from the beginning.
Return(w) == job' = [job EXCEPT ![w] = Idle]

Goto(w, stage) == job' = [job EXCEPT ![w].pc = stage]

------------------------------------------------------------------------------
(* Reconcile                                                                 *)

\* Reconcile reads the object.  An absent or paused object, one that has its
\* finalizer already and one that is deleted without it end the
\* reconciliation without a trace and are not started here.
Get(w, c) ==
    /\ job[w].pc = "idle"
    /\ Present(c)
    /\ ~cluster[c].paused
    /\ cluster[c].deleting <=> Janitor \in cluster[c].finalizers
    /\ job' = [job EXCEPT ![w] = [Idle EXCEPT !.pc = "isPaused", !.key = c,
                                              !.obs = cluster[c]]]
    /\ UNCHANGED <<cluster, rv, ownerPaused, secret, alive, cloud, defaultPolicy, edits, faults>>

IsPaused(w) ==
    /\ job[w].pc = "isPaused"
    /\ IF ownerPaused[job[w].key] THEN Return(w)
       ELSE Goto(w, IF job[w].obs.deleting THEN "findSecret" ELSE "addGet")
    /\ UNCHANGED <<cluster, rv, ownerPaused, secret, alive, cloud, defaultPolicy, edits, faults>>

\* addFinalizer reads the object again: it may be gone, replaced, deleting,
\* paused or finalized by now.
AddGet(w) ==
    LET c == job[w].key  latest == cluster[c] IN
    /\ job[w].pc = "addGet"
    /\ IF /\ latest.uid = job[w].obs.uid
          /\ ~latest.deleting /\ ~latest.paused
          /\ Janitor \notin latest.finalizers
       THEN job' = [job EXCEPT ![w].pc = "addIsPaused", ![w].seen = rv[c]]
       ELSE Return(w)
    /\ UNCHANGED <<cluster, rv, ownerPaused, secret, alive, cloud, defaultPolicy, edits, faults>>

AddIsPaused(w) ==
    /\ job[w].pc = "addIsPaused"
    /\ IF ownerPaused[job[w].key] THEN Return(w) ELSE Goto(w, "addPatch")
    /\ UNCHANGED <<cluster, rv, ownerPaused, secret, alive, cloud, defaultPolicy, edits, faults>>

AddPatch(w) ==
    /\ job[w].pc = "addPatch"
    /\ LockedPatch(w, [cluster[job[w].key] EXCEPT !.finalizers = @ \cup {Janitor}])
    /\ Return(w)
    /\ UNCHANGED <<ownerPaused, secret, alive, cloud, defaultPolicy, edits, faults>>

------------------------------------------------------------------------------
(* reconcileDelete and resumeCredentialCleanup                               *)

\* checkCheckpointBinding: the cluster, the Secret and the operator's policy
\* are still those the checkpoint recorded.
BugCheckpointBinding(w, s) == Exists(s) /\ s.uid = job[w].obs.ckpt.secretUID
CheckpointBinding(w, s) ==
    LET o == job[w].obs  ck == job[w].obs.ckpt IN
    /\ o.uid = ck.clusterUID
    /\ o.name = ck.clusterName
    /\ o.ref = ck.secretName
    /\ VolumesPolicyFor(w, o) = ck.volumes
    /\ IF Exists(s)
       THEN s.uid = ck.secretUID /\ s.policy = "delete" /\ s.cred = ck.cred
       ELSE ck.phase = "secretDeleteStarted"

\* resumeCredentialCleanup goes on only with the recorded inputs and once every
\* other finalizer is gone.
MayResume(w, s) == CheckpointBinding(w, s) /\ job[w].obs.finalizers = {Janitor}

\* The first read of the Secret decides between a first pass and a resumption.
FindSecret(w) ==
    LET o     == job[w].obs
        phase == o.ckpt.phase
        s     == secret[o.ref]
        Start(stage, goal) ==
            job' = [job EXCEPT ![w].pc = stage, ![w].goal = goal, ![w].sec = s]
    IN
    /\ job[w].pc = "findSecret"
    /\ \/ phase = "none" /\ Exists(s) /\ Start("newSession", "none")
       \/ phase = "none" /\ ~Exists(s) /\ Return(w)
       \/ phase # "none" /\ ~MayResume(w, s) /\ Return(w)
       \/ phase = "credentialDeleteStarted" /\ MayResume(w, s)
            /\ Start("newSession", "credential")
       \/ phase = "secretDeleteStarted" /\ MayResume(w, s)
            /\ IF ~Exists(s) THEN Start("checkSecret", "finish")
               ELSE IF s.deleting THEN Return(w)
               ELSE Start("checkSecret", "secret")
    /\ UNCHANGED <<cluster, rv, ownerPaused, secret, alive, cloud, defaultPolicy, edits, faults>>

\* Authentication works exactly while Keystone knows the Secret's credential.
\* A resumption also insists on the recorded binding.
NewSession(w) ==
    /\ job[w].pc = "newSession"
    /\ IF /\ job[w].sec.cred \in alive
          /\ job[w].goal = "credential" => job[w].sec.cred = job[w].obs.ckpt.cred
       THEN Goto(w, IF job[w].goal = "credential" THEN "checkSecret" ELSE "cleanup")
       ELSE Return(w)
    /\ UNCHANGED <<cluster, rv, ownerPaused, secret, alive, cloud, defaultPolicy, edits, faults>>

\* One cleanup pass that found owned resources: some of them go away, and the
\* pass reports that it has to wait, whether or not any did.
CleanupWaiting(w) ==
    /\ job[w].pc = "cleanup"
    /\ \E gone \in SUBSET (ScopeOf(w) \cap cloud) : cloud' = cloud \ gone
    /\ ScopeOf(w) \cap cloud # {}
    /\ Return(w)
    /\ UNCHANGED <<cluster, rv, ownerPaused, secret, alive, defaultPolicy, edits, faults>>

\* A cleanup pass that found none of the owned resources.
BugNothingLeft(w) == ScopeOf(w) \cap cloud \subseteq Volumes
NothingLeft(w) == ScopeOf(w) \cap cloud = {}
CleanupComplete(w) ==
    /\ job[w].pc = "cleanup"
    /\ NothingLeft(w)
    /\ IF job[w].sec.policy = "delete" THEN Goto(w, "listReferences")
       ELSE job' = [job EXCEPT ![w].pc = "checkSecret", ![w].goal = "finish"]
    /\ UNCHANGED <<cluster, rv, ownerPaused, secret, alive, cloud, defaultPolicy, edits, faults>>

\* Another object, told apart by its UID, refers to the same Secret.
BugOtherReference(w) ==
    \E d \in Clusters \ {job[w].key} :
        Present(d) /\ ~cluster[d].deleting /\ cluster[d].ref = job[w].obs.ref
OtherReference(w) ==
    \E d \in Clusters :
        /\ Present(d)
        /\ <<d, cluster[d].uid>> # <<job[w].key, job[w].obs.uid>>
        /\ cluster[d].ref = job[w].obs.ref

BugFirstCheckpoint(w) ==
    LET o == job[w].obs IN
    [phase |-> "credentialDeleteStarted", clusterUID |-> o.uid,
     clusterName |-> o.name, secretName |-> o.ref,
     secretUID |-> job[w].sec.uid, cred |-> job[w].sec.cred, volumes |-> o.volumes]
FirstCheckpoint(w) ==
    LET o == job[w].obs IN
    [phase |-> "credentialDeleteStarted", clusterUID |-> o.uid,
     clusterName |-> o.name, secretName |-> o.ref,
     secretUID |-> job[w].sec.uid, cred |-> job[w].sec.cred,
     volumes |-> VolumesPolicyFor(w, o)]

BugListReferences(w) ==
    /\ job[w].pc = "listReferences"
    /\ IF OtherReference(w) THEN Return(w)
       ELSE Goto(w, IF job[w].goal = "secret" THEN "deleteSecret" ELSE "deleteCredential")
    /\ UNCHANGED <<cluster, rv, ownerPaused, secret, alive, cloud, defaultPolicy, edits, faults>>

\* A shared Secret is left alone: a first pass then only finishes the cluster,
\* a resumption defers the DELETE it was about to send.
ListReferences(w) ==
    LET Check(goal, plan) ==
            job' = [job EXCEPT ![w].pc = "checkSecret", ![w].goal = goal,
                               ![w].plan = plan]
    IN
    /\ job[w].pc = "listReferences"
    /\ \/ /\ job[w].goal = "none"
          /\ IF OtherReference(w) THEN Check("finish", job[w].plan)
                                  ELSE Check("save", FirstCheckpoint(w))
       \/ job[w].goal # "none" /\ OtherReference(w) /\ Return(w)
       \/ job[w].goal = "credential" /\ ~OtherReference(w) /\ Goto(w, "deleteCredential")
       \/ job[w].goal = "secret" /\ ~OtherReference(w) /\ Goto(w, "deleteSecret")
    /\ UNCHANGED <<cluster, rv, ownerPaused, secret, alive, cloud, defaultPolicy, edits, faults>>

------------------------------------------------------------------------------
(* checkCleanupInputs: three reads before every write                        *)

\* Only a cluster that keeps its credential is released while other
\* finalizers remain.
SoleFinalizer(w) == job[w].obs.ckpt.phase # "none" \/ job[w].sec.policy = "delete"

BugSecretUnchanged(w) ==
    LET s == secret[job[w].obs.ref] IN
    Exists(s) /\ s.uid = job[w].sec.uid /\ s.rv = job[w].sec.rv
SecretUnchanged(w) ==
    LET s == secret[job[w].obs.ref] IN
    /\ Exists(s) <=> Exists(job[w].sec)
    /\ Exists(s) => s.uid = job[w].sec.uid /\ s.rv = job[w].sec.rv

CheckSecret(w) ==
    /\ job[w].pc = "checkSecret"
    /\ IF SecretUnchanged(w) THEN Goto(w, "checkCluster") ELSE Return(w)
    /\ UNCHANGED <<cluster, rv, ownerPaused, secret, alive, cloud, defaultPolicy, edits, faults>>

BugInputsUnchanged(w) ==
    LET latest == cluster[job[w].key] IN
    /\ latest.uid = job[w].obs.uid /\ latest.deleting /\ ~latest.paused
    /\ Janitor \in latest.finalizers
InputsUnchanged(w) ==
    LET o == job[w].obs  latest == cluster[job[w].key] IN
    /\ latest.uid = o.uid /\ latest.gen = o.gen
    /\ latest.name = o.name
    /\ VolumesPolicyFor(w, latest) = VolumesPolicyFor(w, o)
    /\ latest.ckpt = o.ckpt
    /\ latest.deleting
    /\ Janitor \in latest.finalizers
    /\ ~latest.paused
    /\ SoleFinalizer(w) => latest.finalizers = {Janitor}

CheckCluster(w) ==
    /\ job[w].pc = "checkCluster"
    /\ IF InputsUnchanged(w)
       THEN job' = [job EXCEPT ![w].pc = "checkOwner", ![w].seen = rv[job[w].key]]
       ELSE Return(w)
    /\ UNCHANGED <<cluster, rv, ownerPaused, secret, alive, cloud, defaultPolicy, edits, faults>>

AfterCheck == [save |-> "saveCheckpoint", finish |-> "removeFinalizer",
               credential |-> "listReferences", secret |-> "listReferences"]

CheckOwner(w) ==
    /\ job[w].pc = "checkOwner"
    /\ IF ownerPaused[job[w].key] THEN Return(w)
                                  ELSE Goto(w, AfterCheck[job[w].goal])
    /\ UNCHANGED <<cluster, rv, ownerPaused, secret, alive, cloud, defaultPolicy, edits, faults>>

------------------------------------------------------------------------------
(* Writes of a deletion                                                      *)

SaveCheckpoint(w) ==
    /\ job[w].pc = "saveCheckpoint"
    /\ LockedPatch(w, [cluster[job[w].key] EXCEPT !.ckpt = job[w].plan])
    /\ Return(w)
    /\ UNCHANGED <<ownerPaused, secret, alive, cloud, defaultPolicy, edits, faults>>

RemoveFinalizer(w) ==
    /\ job[w].pc = "removeFinalizer"
    /\ LockedPatch(w, [cluster[job[w].key] EXCEPT !.finalizers = @ \ {Janitor}])
    /\ Return(w)
    /\ UNCHANGED <<ownerPaused, secret, alive, cloud, defaultPolicy, edits, faults>>

\* Keystone serves the DELETE; the answer, 204 or 404, is still under way.
BugDeleteCredential(w) ==
    /\ job[w].pc = "deleteCredential"
    /\ alive' \in {alive, alive \ {job[w].sec.cred}}
    /\ Goto(w, "confirmDeletion")
    /\ UNCHANGED <<cluster, rv, ownerPaused, secret, cloud, defaultPolicy, edits, faults>>
DeleteCredential(w) ==
    /\ job[w].pc = "deleteCredential"
    /\ alive' = alive \ {job[w].sec.cred}
    /\ Goto(w, "confirmDeletion")
    /\ UNCHANGED <<cluster, rv, ownerPaused, secret, cloud, defaultPolicy, edits, faults>>

\* The answer arrives, and the checkpoint is to advance.
ConfirmDeletion(w) ==
    /\ job[w].pc = "confirmDeletion"
    /\ job' = [job EXCEPT ![w].pc = "checkSecret", ![w].goal = "save",
                 ![w].plan = [job[w].obs.ckpt EXCEPT !.phase = "secretDeleteStarted"]]
    /\ UNCHANGED <<cluster, rv, ownerPaused, secret, alive, cloud, defaultPolicy, edits, faults>>

\* A DELETE with preconditions on UID and resourceVersion.  A Secret another
\* controller holds with a finalizer stays until it is released.
BugSecretPreconditions(w) == Exists(secret[job[w].obs.ref])
SecretPreconditions(w) ==
    LET s == secret[job[w].obs.ref] IN
    Exists(s) /\ s.uid = job[w].sec.uid /\ s.rv = job[w].sec.rv

RemoveSecret(n) ==
    WriteSecret(n, IF secret[n].held THEN [secret[n] EXCEPT !.deleting = TRUE]
                                     ELSE [secret[n] EXCEPT !.uid = 0])

DeleteSecret(w) ==
    /\ job[w].pc = "deleteSecret"
    /\ IF SecretPreconditions(w) THEN RemoveSecret(job[w].obs.ref) ELSE UNCHANGED secret
    /\ Return(w)
    /\ UNCHANGED <<cluster, rv, ownerPaused, alive, cloud, defaultPolicy, edits, faults>>

------------------------------------------------------------------------------
(* Faults: a call fails, its answer is lost, or the process stops            *)

Fail(w) ==
    /\ job[w].pc # "idle"
    /\ faults < MaxFaults /\ faults' = faults + 1
    /\ Return(w)
    /\ UNCHANGED <<cluster, rv, ownerPaused, secret, alive, cloud, defaultPolicy, edits>>

Step(w) ==
    \/ IsPaused(w) \/ AddGet(w) \/ AddIsPaused(w) \/ AddPatch(w)
    \/ FindSecret(w) \/ NewSession(w) \/ CleanupWaiting(w) \/ CleanupComplete(w)
    \/ ListReferences(w) \/ CheckSecret(w) \/ CheckCluster(w) \/ CheckOwner(w)
    \/ SaveCheckpoint(w) \/ RemoveFinalizer(w) \/ DeleteCredential(w)
    \/ ConfirmDeletion(w) \/ DeleteSecret(w)

------------------------------------------------------------------------------
(* Users, CAPI, CAPO and other controllers                                   *)

\* The cluster is deleted; Kubernetes counts that as a new generation.
RequestDeletion(c) ==
    /\ Present(c) /\ ~cluster[c].deleting
    /\ Write(c, [cluster[c] EXCEPT !.deleting = TRUE, !.gen = @ + 1])
    /\ UNCHANGED <<ownerPaused, secret, alive, cloud, defaultPolicy, job, edits, faults>>

\* CAPO has finished its own deletion.
RemoveCAPOFinalizer(c) ==
    /\ Present(c) /\ cluster[c].deleting /\ CAPO \in cluster[c].finalizers
    /\ Write(c, [cluster[c] EXCEPT !.finalizers = @ \ {CAPO}])
    /\ UNCHANGED <<ownerPaused, secret, alive, cloud, defaultPolicy, job, edits, faults>>

\* The controller that holds a Secret lets a deleted one go.
ReleaseSecret(n) ==
    /\ Exists(secret[n]) /\ secret[n].deleting
    /\ WriteSecret(n, [secret[n] EXCEPT !.uid = 0, !.deleting = FALSE])
    /\ UNCHANGED <<cluster, rv, ownerPaused, alive, cloud, defaultPolicy, job, edits, faults>>

Edit(kind) == kind \in Edits /\ edits < MaxEdits /\ edits' = edits + 1

\* The documented rule: no reference to a Secret appears once a checkpoint
\* names it.
MayRefer(n) ==
    LateReferences \/ \A d \in Clusters :
        Present(d) /\ cluster[d].ckpt.phase # "none" => cluster[d].ckpt.secretName # n

EditCluster(c) ==
    /\ Present(c)
    /\ \/ Edit("pause") /\ Write(c, [cluster[c] EXCEPT !.paused = ~@])
       \/ Edit("label")
            /\ \E n \in Names \ {cluster[c].name} : Write(c, [cluster[c] EXCEPT !.name = n])
       \/ Edit("volumes")
            /\ \E p \in (Policies \cup {"default"}) \ {cluster[c].volumes} :
                  Write(c, [cluster[c] EXCEPT !.volumes = p])
       \/ Edit("rebind")
            /\ \E n \in SecretNames \ {cluster[c].ref} :
                  MayRefer(n) /\ Write(c, [cluster[c] EXCEPT !.ref = n, !.gen = @ + 1])
    /\ UNCHANGED <<ownerPaused, secret, alive, cloud, defaultPolicy, job, faults>>

\* A cluster of the same name is created anew, under a UID of its own.
CreateCluster(c) ==
    /\ Edit("create") /\ ~Present(c) /\ MayRefer(RefOf[c])
    /\ Write(c, NewCluster(c, rv[c] + 1))
    /\ UNCHANGED <<ownerPaused, secret, alive, cloud, defaultPolicy, job, faults>>

PauseOwner(c) ==
    /\ Edit("owner")
    /\ ownerPaused' = [ownerPaused EXCEPT ![c] = ~@]
    /\ UNCHANGED <<cluster, rv, secret, alive, cloud, defaultPolicy, job, faults>>

\* A user rotates the credential, changes the policy annotation, or deletes
\* the Secret and creates one with the same name.
EditSecret(n) ==
    /\ \/ /\ Edit("secret") /\ Exists(secret[n])
          /\ \/ \E k \in Credentials \ {secret[n].cred} :
                   WriteSecret(n, [secret[n] EXCEPT !.cred = k])
             \/ \E p \in Policies \ {secret[n].policy} :
                   WriteSecret(n, [secret[n] EXCEPT !.policy = p])
       \/ Edit("replace") /\ Exists(secret[n]) /\ ~secret[n].deleting /\ RemoveSecret(n)
       \/ /\ Edit("replace") /\ ~Exists(secret[n])
          /\ \E k \in Credentials, p \in Policies :
                WriteSecret(n, [secret[n] EXCEPT !.uid = secret[n].rv + 1, !.cred = k,
                                                 !.policy = p])
    /\ UNCHANGED <<cluster, rv, ownerPaused, alive, cloud, defaultPolicy, job, faults>>

\* A credential is revoked behind the controller's back.
Revoke(k) ==
    /\ Edit("revoke") /\ k \in alive
    /\ alive' = alive \ {k}
    /\ UNCHANGED <<cluster, rv, ownerPaused, secret, cloud, defaultPolicy, job, faults>>

\* The operator restarts a process with another default volumes policy.
Restart(w) ==
    /\ Edit("restart")
    /\ \E p \in Policies : defaultPolicy' = [defaultPolicy EXCEPT ![w] = p]
    /\ Return(w)
    /\ UNCHANGED <<cluster, rv, ownerPaused, secret, alive, cloud, faults>>

------------------------------------------------------------------------------
Init ==
    /\ cluster = [c \in Clusters |-> NewCluster(c, 1)]
    /\ rv = [c \in Clusters |-> 1]
    /\ ownerPaused = [c \in Clusters |-> FALSE]
    /\ \E p \in [SecretNames -> Policies], h \in [SecretNames -> BOOLEAN] :
          secret = [n \in SecretNames |->
                      [uid |-> 1, rv |-> 1, cred |-> CredentialOf[n], policy |-> p[n],
                       deleting |-> FALSE, held |-> h[n]]]
    /\ alive = Credentials
    /\ cloud = Resources
    /\ defaultPolicy = [w \in Workers |-> "delete"]
    /\ job = [w \in Workers |-> Idle]
    /\ edits = 0 /\ faults = 0

Next ==
    \/ \E w \in Workers : Step(w) \/ Fail(w) \/ Restart(w) \/ \E c \in Clusters : Get(w, c)
    \/ \E c \in Clusters : \/ RequestDeletion(c) \/ RemoveCAPOFinalizer(c)
                           \/ EditCluster(c) \/ CreateCluster(c) \/ PauseOwner(c)
    \/ \E n \in SecretNames : ReleaseSecret(n) \/ EditSecret(n)
    \/ \E k \in Credentials : Revoke(k)

Spec == Init /\ [][Next]_vars

\* A worker never stops in the middle of a reconciliation, and the work queue
\* serves every key: between two reconciliations of one cluster the others
\* get their turn.  A resource whose deletion is retried again and again goes
\* away.  CAPO finishes, and so does the controller that holds a Secret.
Fairness ==
    /\ \A w \in Workers :
          /\ WF_vars(Step(w))
          /\ SF_vars(CleanupWaiting(w) /\ cloud' # cloud)
          /\ \A c \in Clusters : SF_vars(Get(w, c))
    /\ \A c \in Clusters : WF_vars(RemoveCAPOFinalizer(c))
    /\ \A n \in SecretNames : WF_vars(ReleaseSecret(n))

FairSpec == Spec /\ Fairness

------------------------------------------------------------------------------
(* Properties                                                                *)

\* Every variable has its type.
TypeOK ==
    /\ cluster \in [Clusters -> Cluster]
    /\ rv \in [Clusters -> Nat]
    /\ ownerPaused \in [Clusters -> BOOLEAN]
    /\ secret \in [SecretNames -> Secret]
    /\ alive \subseteq Credentials
    /\ cloud \subseteq Resources
    /\ defaultPolicy \in [Workers -> Policies]
    /\ job \in [Workers -> Job]
    /\ edits \in Nat /\ faults \in Nat

\* A stored checkpoint testifies that every resource in its scope is gone: it
\* was written after a complete inventory of exactly the recorded cluster name
\* and volumes policy (reconcileDelete verifies before it saves).
CheckpointVerified ==
    \A c \in Clusters : cluster[c].ckpt.phase # "none" =>
        InScope(cluster[c].ckpt.clusterName, cluster[c].ckpt.volumes) \cap cloud = {}

\* secretDeleteStarted is a confirmation: the recorded credential no longer
\* exists, so the controller may go on without authenticating.
ConfirmedPhaseMeansDead ==
    \A c \in Clusters : cluster[c].ckpt.phase = "secretDeleteStarted" =>
        cluster[c].ckpt.cred \notin alive


\* What a checkpoint testifies to, and with it what every worker relies on
\* between its reads and its writes: the inductive form of the two above.
Testifies(ck, existing, valid) ==
    ck.phase # "none" =>
        /\ InScope(ck.clusterName, ck.volumes) \cap existing = {}
        /\ ck.phase = "secretDeleteStarted" => ck.cred \notin valid

WorkerInv(w) ==
    LET j == job[w] IN
    /\ Testifies(j.obs.ckpt, cloud, alive)
    /\ j.goal = "save" => Testifies(j.plan, cloud, alive)
    /\ j.pc = "listReferences" /\ j.goal = "none" => ScopeOf(w) \cap cloud = {}
    /\ j.goal = "credential" =>
          j.obs.ckpt.phase = "credentialDeleteStarted" /\ j.sec.cred = j.obs.ckpt.cred
    /\ j.pc = "saveCheckpoint" => j.goal = "save"
    /\ j.pc \in {"deleteCredential", "confirmDeletion"} => j.goal = "credential"
    /\ j.pc = "confirmDeletion" => j.sec.cred \notin alive

CheckpointInv ==
    /\ \A c \in Clusters : Testifies(cluster[c].ckpt, cloud, alive)
    /\ \A w \in Workers : WorkerInv(w)

\* A worker's patch of its cluster gets through.
Patches(w) ==
    /\ job[w].pc \in {"addPatch", "saveCheckpoint", "removeFinalizer"}
    /\ job'[w].pc = "idle"
    /\ rv'[job[w].key] # rv[job[w].key]

\* A worker's DELETE ends the life of its credential.
Destroys(w) ==
    /\ job[w].pc = "deleteCredential" /\ job'[w].pc = "confirmDeletion"
    /\ job[w].sec.cred \in alive

\* A worker's DELETE of its Secret is accepted.
RemovesSecret(w) ==
    /\ job[w].pc = "deleteSecret" /\ job'[w].pc = "idle"
    /\ secret' # secret

\* The finalizer goes only from the very object that was reconciled, when no
\* resource in its current scope is left, and never in the middle of a
\* credential deletion: either none was begun, or the recorded credential and
\* the recorded Secret are both gone.
ReleasesClean(w) ==
    LET o == cluster[job[w].key]  ck == o.ckpt IN
    Patches(w) /\ job[w].pc = "removeFinalizer" =>
        /\ o.uid = job[w].obs.uid /\ o.deleting
        /\ InScope(o.name, VolumesPolicyFor(w, o)) \cap cloud = {}
        /\ \/ ck.phase = "none"
           \/ /\ ck.phase = "secretDeleteStarted"
              /\ ck.cred \notin alive
              /\ secret[ck.secretName].uid # ck.secretUID
ReleasedClean == [][\A w \in Workers : ReleasesClean(w)]_vars

\* A live credential is destroyed only under a stored checkpoint of the very
\* object that names it, with no other finalizer left and every resource in
\* the recorded scope gone, however old the worker's own reads are.
DestroysUnderCheckpoint(w) ==
    LET o == cluster[job[w].key] IN
    Destroys(w) =>
        /\ o.deleting /\ o.finalizers = {Janitor}
        /\ o.ckpt.phase = "credentialDeleteStarted"
        /\ o.ckpt.clusterUID = o.uid
        /\ o.ckpt.cred = job[w].sec.cred
        /\ InScope(o.ckpt.clusterName, o.ckpt.volumes) \cap cloud = {}
CredentialDestroyedUnderCheckpoint == [][\A w \in Workers : DestroysUnderCheckpoint(w)]_vars

\* The Secret that is deleted is the recorded object, still opted in, and what
\* it holds is a dead credential: a credential rotated in meanwhile survives.
RemovesDeadSecret(w) ==
    LET ck == cluster[job[w].key].ckpt  s == secret[job[w].obs.ref] IN
    RemovesSecret(w) =>
        /\ ck.phase = "secretDeleteStarted"
        /\ s.uid = ck.secretUID /\ s.policy = "delete"
        /\ s.cred \notin alive
SecretDestroyedDead == [][\A w \in Workers : RemovesDeadSecret(w)]_vars

\* As long as users keep the documented rule (no new reference after a
\* checkpoint), neither a credential nor a Secret is destroyed while another
\* cluster refers to that Secret.
DestroysAlone(w) ==
    Destroys(w) \/ RemovesSecret(w) =>
        \A d \in Clusters \ {job[w].key} : Present(d) => cluster[d].ref # job[w].obs.ref
NoSharedDestruction == [][\A w \in Workers : DestroysAlone(w)]_vars

\* The checkpoint of an object only moves forward, and what it recorded first
\* stays: no worker, however late, takes a step back.
Advances(c) ==
    LET old == cluster[c].ckpt  new == cluster'[c].ckpt IN
    cluster'[c].uid = cluster[c].uid =>
        \/ new = old
        \/ /\ old.phase = "none" /\ new.phase = "credentialDeleteStarted"
           /\ new.clusterUID = cluster[c].uid
        \/ /\ old.phase = "credentialDeleteStarted"
           /\ new = [old EXCEPT !.phase = "secretDeleteStarted"]
CheckpointOnlyAdvances == [][\A c \in Clusters : Advances(c)]_vars

\* No patch reaches an object that carries the pause annotation or has
\* replaced the one the worker read, even if that happened after its check.
PatchesUnpausedOriginal(w) ==
    Patches(w) => /\ ~cluster[job[w].key].paused
                  /\ cluster[job[w].key].uid = job[w].obs.uid
PatchesRespectPauseAndIdentity == [][\A w \in Workers : PatchesUnpausedOriginal(w)]_vars

\* README, Pause and resume: finalizer changes are skipped while the owning
\* CAPI Cluster is paused.  The patch is locked to the OpenStackCluster only.
PatchesRespectOwnerPause ==
    [][\A w \in Workers : Patches(w) => ~ownerPaused[job[w].key]]_vars

\* What all of this amounts to for a reader who does not care how it is done:
\* see CredentialRetirement.
Retirement == INSTANCE CredentialRetirement WITH
    Scope <- InScope, Revocable <- "revoke" \in Edits,
    guarded <- {c \in Clusters : Janitor \in cluster[c].finalizers},
    ledger <- [c \in Clusters |-> cluster[c].ckpt],
    existing <- cloud, valid <- alive
ImplementsRetirement == Retirement!Spec

\* The documented reasons for which a deletion stands still.
Stalled(c) ==
    LET o == cluster[c]  s == secret[o.ref]  begun == o.ckpt.phase # "none" IN
    \/ o.paused \/ ownerPaused[c]
    \/ o.ckpt.phase # "secretDeleteStarted" /\ (~Exists(s) \/ s.cred \notin alive)
    \/ begun /\ Exists(s) /\ (s.uid # o.ckpt.secretUID \/ s.policy # "delete"
                                                     \/ s.cred # o.ckpt.cred)
    \/ begun /\ (o.name # o.ckpt.clusterName \/ o.ref # o.ckpt.secretName)
    \/ begun /\ \E w \in Workers : VolumesPolicyFor(w, o) # o.ckpt.volumes
    \/ begun /\ \E d \in Clusters \ {c} : Present(d) /\ cluster[d].ref = o.ref

\* Left alone, every cluster that is deleted after the Janitor has seen it is
\* released, whether or not it shares its Secret with another one: two clusters
\* that are deleted together never wait for one another.
DeletionCompletes ==
    [](edits = 0 /\ faults = 0) =>
        \A c \in Clusters :
            cluster[c].deleting /\ Janitor \in cluster[c].finalizers ~> ~Present(c)

\* A cluster that is being deleted loses the Janitor finalizer unless one of
\* those reasons holds again and again: there is no other way to get stuck.
DeletionFinishes ==
    \A c \in Clusters :
        []<>(~cluster[c].deleting \/ Janitor \notin cluster[c].finalizers \/ Stalled(c))
==============================================================================
