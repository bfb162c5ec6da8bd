----------------------- MODULE CredentialCleanupProofs -----------------------
(***************************************************************************)
(* Theorems about CredentialCleanup, for any number of clusters, processes, *)
(* Secrets and credentials and any bound on edits and faults.               *)
(***************************************************************************)
EXTENDS CredentialCleanup, TLAPS

------------------------------------------------------------------------------
(* Types                                                                     *)

\* What a worker is checking its inputs for is settled before it checks.
GoalOK == \A w \in Workers :
    job[w].pc \in {"checkSecret", "checkCluster", "checkOwner"} => job[w].goal # "none"

TypeInv == TypeOK /\ GoalOK

\* The cluster of an idle worker exists as a key.
LEMMA AnyClusterType == AnyCluster \in Clusters
BY ConstantsAssumption DEF AnyCluster

\* A new or absent object is well-typed.
LEMMA NewClusterType ==
    ASSUME NEW c \in Clusters, NEW id \in Nat
    PROVE  NewCluster(c, id) \in Cluster
<1>1. NoCheckpoint(c) \in Checkpoint
  BY ConstantsAssumption DEF NoCheckpoint, Checkpoint, Phases, Policies
<1> QED
  BY <1>1, ConstantsAssumption DEF NewCluster, Cluster

\* So is the state of an idle worker.
LEMMA IdleType == Idle \in Job
<1>1. Absent(AnyCluster) \in Cluster
  BY AnyClusterType, NewClusterType DEF Absent
<1>2. NoSecret(AnyCluster) \in Secret
  BY AnyClusterType, ConstantsAssumption DEF NoSecret, Secret, Policies
<1>3. NoCheckpoint(AnyCluster) \in Checkpoint
  BY AnyClusterType, ConstantsAssumption DEF NoCheckpoint, Checkpoint, Phases, Policies
<1> QED
  BY <1>1, <1>2, <1>3, AnyClusterType DEF Idle, Job, Stages, Goals

\* A write leaves well-typed objects.
LEMMA WriteType ==
    ASSUME TypeOK, NEW c \in Clusters, NEW o \in Cluster, Write(c, o)
    PROVE  cluster' \in [Clusters -> Cluster] /\ rv' \in [Clusters -> Nat]
<1>1. Absent(c) \in Cluster
  BY NewClusterType DEF Absent
<1> QED
  BY <1>1 DEF Write, TypeOK

\* A write leaves well-typed Secrets.
LEMMA WriteSecretType ==
    ASSUME TypeOK, NEW n \in SecretNames, NEW o \in Secret, WriteSecret(n, o)
    PROVE  secret' \in [SecretNames -> Secret]
BY DEF WriteSecret, TypeOK, Secret

\* A reconciliation that ends leaves its worker idle.
LEMMA ReturnType ==
    ASSUME TypeInv, NEW w \in Workers, Return(w)
    PROVE  job' \in [Workers -> Job] /\ GoalOK'
BY IdleType DEF Return, TypeInv, TypeOK, GoalOK, Idle

\* A worker moves on to another stage; a check comes with a goal.
LEMMA GotoType ==
    ASSUME TypeInv, NEW w \in Workers, NEW stage \in Stages, Goto(w, stage),
           stage \in {"checkSecret", "checkCluster", "checkOwner"} => job[w].goal # "none"
    PROVE  job' \in [Workers -> Job] /\ GoalOK'
BY DEF Goto, TypeInv, TypeOK, GoalOK, Job

\* A patch writes its object or nothing.
LEMMA LockedPatchType ==
    ASSUME TypeInv, NEW w \in Workers, NEW o \in Cluster, LockedPatch(w, o)
    PROVE  cluster' \in [Clusters -> Cluster] /\ rv' \in [Clusters -> Nat]
<1>1. job[w].key \in Clusters
  BY DEF TypeInv, TypeOK, Job
<1> QED
  BY <1>1, WriteType DEF LockedPatch, TypeInv, TypeOK

\* The first checkpoint is well-typed.
LEMMA FirstCheckpointType ==
    ASSUME TypeInv, NEW w \in Workers
    PROVE  FirstCheckpoint(w) \in Checkpoint
<1>1. job[w].obs \in Cluster /\ job[w].sec \in Secret
  BY DEF TypeInv, TypeOK, Job
<1>2. VolumesPolicyFor(w, job[w].obs) \in Policies
  BY <1>1 DEF VolumesPolicyFor, TypeInv, TypeOK, Cluster
<1> QED
  BY <1>1, <1>2 DEF FirstCheckpoint, Checkpoint, Phases, Cluster, Secret

\* Secrets stay well-typed when one is deleted.
LEMMA RemoveSecretType ==
    ASSUME TypeInv, NEW n \in SecretNames, RemoveSecret(n)
    PROVE  secret' \in [SecretNames -> Secret]
<1>1. /\ [secret[n] EXCEPT !.deleting = TRUE] \in Secret
      /\ [secret[n] EXCEPT !.uid = 0] \in Secret
  BY DEF TypeInv, TypeOK, Secret
<1> QED
  BY <1>1, WriteSecretType DEF RemoveSecret, TypeInv

\* So does any change of one worker's job that knows what it checks for.
LEMMA JobType ==
    ASSUME TypeInv, NEW w \in Workers, NEW j \in Job,
           j.pc \in {"checkSecret", "checkCluster", "checkOwner"} => j.goal # "none",
           job' = [job EXCEPT ![w] = j]
    PROVE  job' \in [Workers -> Job] /\ GoalOK'
<1>1. job \in [Workers -> Job]
  BY DEF TypeInv, TypeOK
<1> QED
  BY <1>1 DEF TypeInv, GoalOK

\* Every step of a worker preserves the types.
LEMMA StepType ==
    ASSUME TypeInv, NEW w \in Workers, Step(w)
    PROVE  TypeInv'
<1> USE DEF TypeInv
<1>k. /\ job[w].key \in Clusters /\ cluster[job[w].key] \in Cluster
      /\ job[w].obs \in Cluster /\ job[w].obs.ref \in SecretNames
      /\ secret[job[w].obs.ref] \in Secret
      /\ job[w].sec \in Secret /\ job[w].plan \in Checkpoint
      /\ job[w].obs.ckpt \in Checkpoint /\ job[w].goal \in Goals
      /\ rv[job[w].key] \in Nat
  BY DEF TypeOK, Job, Cluster
<1>1. CASE IsPaused(w)
  BY <1>1, ReturnType, GotoType DEF IsPaused, TypeOK, Stages
<1>2. CASE AddGet(w)
  <2>1. CASE Return(w)
    BY <1>2, <2>1, ReturnType DEF AddGet, TypeOK
  <2>2. CASE job' = [job EXCEPT ![w].pc = "addIsPaused", ![w].seen = rv[job[w].key]]
    <3> DEFINE j == [job[w] EXCEPT !.pc = "addIsPaused", !.seen = rv[job[w].key]]
    <3>1. j \in Job
      BY <1>k DEF TypeOK, Job, Stages
    <3>2. j.pc = "addIsPaused"
      BY DEF TypeOK, Job
    <3>3. job' = [job EXCEPT ![w] = j]
      BY <2>2
    <3> HIDE DEF j
    <3>4. job' \in [Workers -> Job] /\ GoalOK'
      BY <3>1, <3>2, <3>3, JobType
    <3> QED
      BY <1>2, <3>4 DEF AddGet, TypeOK
  <2> QED
    BY <1>2, <2>1, <2>2 DEF AddGet
<1>3. CASE AddIsPaused(w)
  BY <1>3, ReturnType, GotoType DEF AddIsPaused, TypeOK, Stages
<1>4. CASE AddPatch(w)
  <2>1. [cluster[job[w].key] EXCEPT !.finalizers = @ \cup {Janitor}] \in Cluster
    BY <1>k DEF Cluster
  <2> QED
    BY <1>4, <2>1, LockedPatchType, ReturnType DEF AddPatch, TypeOK
<1>5. CASE FindSecret(w)
  <2> DEFINE s == secret[job[w].obs.ref]
             Start(stage, goal) ==
               job' = [job EXCEPT ![w].pc = stage, ![w].goal = goal, ![w].sec = s]
  <2>1. CASE Return(w)
    BY <1>5, <2>1, ReturnType DEF FindSecret, TypeOK
  <2>2. CASE \/ Start("newSession", "none") \/ Start("newSession", "credential")
             \/ Start("checkSecret", "finish") \/ Start("checkSecret", "secret")
    <3>1. job' \in [Workers -> Job]
      <4>1. \A p \in Stages, g \in Goals :
              [job[w] EXCEPT !.pc = p, !.goal = g, !.sec = s] \in Job
        BY <1>k DEF TypeOK, Job
      <4>2. \A p, g : Start(p, g) =>
              job' = [job EXCEPT ![w] = [job[w] EXCEPT !.pc = p, !.goal = g, !.sec = s]]
        OBVIOUS
      <4>3. PICK p \in Stages, g \in Goals : Start(p, g)
        BY <2>2 DEF Stages, Goals
      <4> DEFINE j == [job[w] EXCEPT !.pc = p, !.goal = g, !.sec = s]
      <4>4. j \in Job
        BY <4>1
      <4>5. job' = [job EXCEPT ![w] = j]
        BY <4>2, <4>3
      <4> HIDE DEF j
      <4> QED
        BY <4>4, <4>5 DEF TypeOK
    <3>2. GoalOK'
      BY <1>k, <2>2 DEF TypeOK, GoalOK, Job
    <3> QED
      BY <1>5, <3>1, <3>2 DEF FindSecret, TypeOK
  <2> QED
    BY <1>5, <2>1, <2>2 DEF FindSecret
<1>6. CASE NewSession(w)
  BY <1>6, ReturnType, GotoType DEF NewSession, TypeOK, Stages
<1>7. CASE CleanupWaiting(w)
  BY <1>7, ReturnType DEF CleanupWaiting, TypeOK
<1>8. CASE CleanupComplete(w)
  <2>1. CASE Goto(w, "listReferences")
    BY <1>8, <2>1, GotoType DEF CleanupComplete, TypeOK, Stages
  <2>2. CASE job' = [job EXCEPT ![w].pc = "checkSecret", ![w].goal = "finish"]
    <3> DEFINE j == [job[w] EXCEPT !.pc = "checkSecret", !.goal = "finish"]
    <3>1. job' \in [Workers -> Job]
      <4>1. j \in Job
        BY DEF TypeOK, Job, Stages, Goals
      <4>2. job' = [job EXCEPT ![w] = j]
        BY <2>2
      <4> QED
        BY <4>1, <4>2 DEF TypeOK
    <3>2. GoalOK'
      BY <2>2 DEF TypeOK, GoalOK, Job
    <3> QED
      BY <1>8, <3>1, <3>2 DEF CleanupComplete, TypeOK
  <2> QED
    BY <1>8, <2>1, <2>2 DEF CleanupComplete
<1>9. CASE ListReferences(w)
  <2> DEFINE Check(goal, plan) ==
               job' = [job EXCEPT ![w].pc = "checkSecret", ![w].goal = goal, ![w].plan = plan]
  <2>1. ASSUME NEW goal \in {"finish", "save"}, NEW plan \in Checkpoint, Check(goal, plan)
        PROVE  TypeInv'
    <3> DEFINE j == [job[w] EXCEPT !.pc = "checkSecret", !.goal = goal, !.plan = plan]
    <3>1. j \in Job
      BY DEF TypeOK, Job, Stages, Goals
    <3>2. j.goal # "none"
      BY DEF TypeOK, Job
    <3>3. job' = [job EXCEPT ![w] = j]
      BY <2>1
    <3> HIDE DEF j
    <3>4. job' \in [Workers -> Job] /\ GoalOK'
      BY <3>1, <3>2, <3>3, JobType
    <3> QED
      BY <1>9, <3>4 DEF ListReferences, TypeOK
  <2>2. CASE Return(w) \/ Goto(w, "deleteCredential") \/ Goto(w, "deleteSecret")
    BY <1>9, <2>2, ReturnType, GotoType DEF ListReferences, TypeOK, Stages
  <2>3. /\ Check("finish", job[w].plan) => TypeInv'
        /\ Check("save", FirstCheckpoint(w)) => TypeInv'
    <3>1. FirstCheckpoint(w) \in Checkpoint
      BY FirstCheckpointType
    <3> HIDE DEF Check, TypeInv
    <3> QED
      BY <1>k, <2>1, <3>1
  <2> QED
    BY <1>9, <2>2, <2>3 DEF ListReferences
<1>10. CASE CheckSecret(w)
  BY <1>10, ReturnType, GotoType DEF CheckSecret, TypeOK, GoalOK, Stages
<1>11. CASE CheckCluster(w)
  <2>1. CASE Return(w)
    BY <1>11, <2>1, ReturnType DEF CheckCluster, TypeOK
  <2>2. CASE job' = [job EXCEPT ![w].pc = "checkOwner", ![w].seen = rv[job[w].key]]
    <3> DEFINE j == [job[w] EXCEPT !.pc = "checkOwner", !.seen = rv[job[w].key]]
    <3>1. j \in Job
      BY <1>k DEF TypeOK, Job, Stages
    <3>2. j.goal # "none"
      BY <1>11 DEF CheckCluster, TypeOK, GoalOK, Job
    <3>3. job' = [job EXCEPT ![w] = j]
      BY <2>2
    <3> HIDE DEF j
    <3>4. job' \in [Workers -> Job] /\ GoalOK'
      BY <3>1, <3>2, <3>3, JobType
    <3> QED
      BY <1>11, <3>4 DEF CheckCluster, TypeOK
  <2> QED
    BY <1>11, <2>1, <2>2 DEF CheckCluster
<1>12. CASE CheckOwner(w)
  <2>1. job[w].goal # "none"
    BY <1>12 DEF CheckOwner, GoalOK
  <2>2. AfterCheck[job[w].goal] \in
          {"saveCheckpoint", "removeFinalizer", "listReferences"}
    BY <1>k, <2>1 DEF AfterCheck, Goals
  <2> QED
    BY <1>12, <2>2, ReturnType, GotoType DEF CheckOwner, TypeOK, Stages
<1>13. CASE SaveCheckpoint(w)
  <2>1. [cluster[job[w].key] EXCEPT !.ckpt = job[w].plan] \in Cluster
    BY <1>k DEF Cluster
  <2> QED
    BY <1>13, <2>1, LockedPatchType, ReturnType DEF SaveCheckpoint, TypeOK
<1>14. CASE RemoveFinalizer(w)
  <2>1. [cluster[job[w].key] EXCEPT !.finalizers = @ \ {Janitor}] \in Cluster
    BY <1>k DEF Cluster
  <2> QED
    BY <1>14, <2>1, LockedPatchType, ReturnType DEF RemoveFinalizer, TypeOK
<1>15. CASE DeleteCredential(w)
  BY <1>15, GotoType DEF DeleteCredential, TypeOK, Stages
<1>16. CASE ConfirmDeletion(w)
  <2>1. [job[w].obs.ckpt EXCEPT !.phase = "secretDeleteStarted"] \in Checkpoint
    BY <1>k DEF Checkpoint, Phases
  <2> QED
    <3>1. job' \in [Workers -> Job]
      <4> DEFINE plan == [job[w].obs.ckpt EXCEPT !.phase = "secretDeleteStarted"]
                 j == [job[w] EXCEPT !.pc = "checkSecret", !.goal = "save", !.plan = plan]
      <4>1. j \in Job
        BY <2>1 DEF TypeOK, Job, Stages, Goals
      <4>2. job' = [job EXCEPT ![w] = j]
        BY <1>16 DEF ConfirmDeletion
      <4> QED
        BY <4>1, <4>2 DEF TypeOK
    <3>2. GoalOK'
      BY <1>16 DEF ConfirmDeletion, TypeOK, GoalOK, Job
    <3> QED
      BY <1>16, <3>1, <3>2 DEF ConfirmDeletion, TypeOK
<1>17. CASE DeleteSecret(w)
  BY <1>17, <1>k, RemoveSecretType, ReturnType DEF DeleteSecret, TypeOK
<1> QED
  BY <1>1, <1>2, <1>3, <1>4, <1>5, <1>6, <1>7, <1>8, <1>9, <1>10, <1>11, <1>12,
     <1>13, <1>14, <1>15, <1>16, <1>17 DEF Step

\* What users and other controllers do to a cluster leaves it well-typed.
LEMMA EditClusterType ==
    ASSUME TypeInv, NEW c \in Clusters, EditCluster(c)
    PROVE  cluster' \in [Clusters -> Cluster] /\ rv' \in [Clusters -> Nat] /\ edits' \in Nat
<1> USE DEF TypeInv
<1>1. cluster[c] \in Cluster
  BY DEF TypeOK
<1>2. CASE Edit("pause") /\ Write(c, [cluster[c] EXCEPT !.paused = ~@])
  <2>1. [cluster[c] EXCEPT !.paused = ~@] \in Cluster
    BY <1>1 DEF Cluster
  <2> QED
    BY <1>2, <2>1, WriteType DEF Edit, TypeOK
<1>3. CASE \E n \in Names : Edit("label") /\ Write(c, [cluster[c] EXCEPT !.name = n])
  <2>1. \A n \in Names : [cluster[c] EXCEPT !.name = n] \in Cluster
    BY <1>1 DEF Cluster
  <2> QED
    BY <1>3, <2>1, WriteType DEF Edit, TypeOK
<1>4. CASE \E p \in Policies \cup {"default"} :
             Edit("volumes") /\ Write(c, [cluster[c] EXCEPT !.volumes = p])
  <2>1. \A p \in Policies \cup {"default"} : [cluster[c] EXCEPT !.volumes = p] \in Cluster
    BY <1>1 DEF Cluster
  <2> QED
    BY <1>4, <2>1, WriteType DEF Edit, TypeOK
<1>5. CASE \E n \in SecretNames :
             Edit("rebind") /\ Write(c, [cluster[c] EXCEPT !.ref = n, !.gen = @ + 1])
  <2>1. cluster[c].gen + 1 \in Nat
    BY <1>1 DEF Cluster
  <2>2. \A n \in SecretNames : [cluster[c] EXCEPT !.ref = n, !.gen = @ + 1] \in Cluster
    BY <1>1, <2>1 DEF Cluster
  <2>3. cluster' \in [Clusters -> Cluster] /\ rv' \in [Clusters -> Nat]
    BY <1>5, <2>2, WriteType
  <2> QED
    BY <1>5, <2>3 DEF Edit, TypeOK
<1> QED
  BY <1>2, <1>3, <1>4, <1>5 DEF EditCluster

\* So do edits of a Secret.
LEMMA EditSecretType ==
    ASSUME TypeInv, NEW n \in SecretNames, EditSecret(n)
    PROVE  secret' \in [SecretNames -> Secret] /\ edits' \in Nat
<1> USE DEF TypeInv
<1>1. secret[n] \in Secret
  BY DEF TypeOK
<1>2. edits' \in Nat
  <2>1. edits' = edits + 1
    BY DEF EditSecret, Edit
  <2> QED
    BY <2>1 DEF TypeOK
<1>3. CASE \E k \in Credentials : WriteSecret(n, [secret[n] EXCEPT !.cred = k])
  <2>1. \A k \in Credentials : [secret[n] EXCEPT !.cred = k] \in Secret
    BY <1>1 DEF Secret
  <2> QED
    BY <1>2, <1>3, <2>1, WriteSecretType
<1>4. CASE \E p \in Policies : WriteSecret(n, [secret[n] EXCEPT !.policy = p])
  <2>1. \A p \in Policies : [secret[n] EXCEPT !.policy = p] \in Secret
    BY <1>1 DEF Secret
  <2> QED
    BY <1>2, <1>4, <2>1, WriteSecretType
<1>5. CASE RemoveSecret(n)
  BY <1>2, <1>5, RemoveSecretType
<1>6. CASE \E k \in Credentials, p \in Policies :
             WriteSecret(n, [secret[n] EXCEPT !.uid = secret[n].rv + 1, !.cred = k,
                                              !.policy = p])
  <2>0. secret[n].rv + 1 \in Nat
    BY <1>1 DEF Secret
  <2>1. \A k \in Credentials, p \in Policies :
          [secret[n] EXCEPT !.uid = secret[n].rv + 1, !.cred = k, !.policy = p] \in Secret
    BY <1>1, <2>0 DEF Secret
  <2> QED
    BY <1>2, <1>6, <2>1, WriteSecretType
<1> QED
  BY <1>3, <1>4, <1>5, <1>6 DEF EditSecret

\* The types are an inductive invariant.
LEMMA TypeInductive == TypeInv /\ [Next]_vars => TypeInv'
<1> SUFFICES ASSUME TypeInv, [Next]_vars PROVE TypeInv'
  OBVIOUS
<1> USE DEF TypeInv
<1>1. CASE \E w \in Workers : Step(w)
  BY <1>1, StepType
<1>2. CASE \E w \in Workers : Fail(w)
  BY <1>2, ReturnType DEF Fail, TypeOK
<1>3. CASE \E w \in Workers : Restart(w)
  BY <1>3, ReturnType DEF Restart, Edit, TypeOK
<1>4. CASE \E w \in Workers, c \in Clusters : Get(w, c)
  <2> PICK w \in Workers, c \in Clusters : Get(w, c)
    BY <1>4
  <2> DEFINE j == [Idle EXCEPT !.pc = "isPaused", !.key = c, !.obs = cluster[c]]
  <2>1. j \in Job /\ j.pc = "isPaused"
    BY IdleType DEF TypeOK, Job, Stages
  <2>2. job' = [job EXCEPT ![w] = j]
    BY DEF Get
  <2> HIDE DEF j
  <2> QED
    BY <2>1, <2>2 DEF Get, TypeOK, GoalOK
<1>5. CASE \E c \in Clusters : RequestDeletion(c)
  <2> PICK c \in Clusters : RequestDeletion(c)
    BY <1>5
  <2>0. cluster[c].gen + 1 \in Nat
    BY DEF TypeOK, Cluster
  <2>1. [cluster[c] EXCEPT !.deleting = TRUE, !.gen = @ + 1] \in Cluster
    BY <2>0 DEF TypeOK, Cluster
  <2> QED
    BY <2>1, WriteType DEF RequestDeletion, TypeOK, GoalOK
<1>6. CASE \E c \in Clusters : RemoveCAPOFinalizer(c)
  <2> PICK c \in Clusters : RemoveCAPOFinalizer(c)
    BY <1>6
  <2>1. [cluster[c] EXCEPT !.finalizers = @ \ {CAPO}] \in Cluster
    BY DEF TypeOK, Cluster
  <2> QED
    BY <2>1, WriteType DEF RemoveCAPOFinalizer, TypeOK, GoalOK
<1>7. CASE \E c \in Clusters : EditCluster(c)
  <2>1. UNCHANGED <<ownerPaused, secret, alive, cloud, defaultPolicy, job, faults>>
    BY <1>7 DEF EditCluster
  <2> QED
    BY <1>7, <2>1, EditClusterType DEF TypeOK, GoalOK
<1>8. CASE \E c \in Clusters : CreateCluster(c)
  <2> PICK c \in Clusters : CreateCluster(c)
    BY <1>8
  <2>1. NewCluster(c, rv[c] + 1) \in Cluster
    BY NewClusterType DEF TypeOK
  <2> QED
    BY <2>1, WriteType DEF CreateCluster, Edit, TypeOK, GoalOK
<1>9. CASE \E c \in Clusters : PauseOwner(c)
  BY <1>9 DEF PauseOwner, Edit, TypeOK, GoalOK
<1>10. CASE \E n \in SecretNames : ReleaseSecret(n)
  <2> PICK n \in SecretNames : ReleaseSecret(n)
    BY <1>10
  <2>1. [secret[n] EXCEPT !.uid = 0, !.deleting = FALSE] \in Secret
    BY DEF TypeOK, Secret
  <2> QED
    BY <2>1, WriteSecretType DEF ReleaseSecret, TypeOK, GoalOK
<1>11. CASE \E n \in SecretNames : EditSecret(n)
  <2>1. UNCHANGED <<cluster, rv, ownerPaused, alive, cloud, defaultPolicy, job, faults>>
    BY <1>11 DEF EditSecret
  <2> QED
    BY <1>11, <2>1, EditSecretType DEF TypeOK, GoalOK
<1>12. CASE \E k \in Credentials : Revoke(k)
  BY <1>12 DEF Revoke, Edit, TypeOK, GoalOK
<1>13. CASE UNCHANGED vars
  BY <1>13 DEF vars, TypeOK, GoalOK
<1> QED
  BY <1>1, <1>2, <1>3, <1>4, <1>5, <1>6, <1>7, <1>8, <1>9, <1>10, <1>11, <1>12, <1>13
  DEF Next

\* The types hold at the start.
LEMMA InitType == Init => TypeInv
<1> SUFFICES ASSUME Init PROVE TypeInv
  OBVIOUS
<1>1. cluster \in [Clusters -> Cluster]
  BY NewClusterType DEF Init
<1>2. secret \in [SecretNames -> Secret]
  BY ConstantsAssumption DEF Init, Secret
<1>3. job \in [Workers -> Job] /\ GoalOK
  BY IdleType DEF Init, GoalOK, Idle
<1> QED
  BY <1>1, <1>2, <1>3 DEF Init, TypeInv, TypeOK, Policies

\* Every variable keeps its type, whatever users, faults and processes do.
THEOREM TypeCorrect == Spec => []TypeOK
<1>1. Init => TypeInv
  BY InitType
<1>2. TypeInv /\ [Next]_vars => TypeInv'
  BY TypeInductive
<1>3. TypeInv => TypeOK
  BY DEF TypeInv
<1> QED
  BY <1>1, <1>2, <1>3, PTL DEF Spec

------------------------------------------------------------------------------
(* Checkpoints                                                               *)

Inv == TypeInv /\ CheckpointInv

\* Credentials and resources do not come back, so testimony stays true.
LEMMA TestimonyLasts ==
    ASSUME NEW ck, Testifies(ck, cloud, alive), cloud' \subseteq cloud, alive' \subseteq alive
    PROVE  Testifies(ck, cloud', alive')
BY DEF Testifies

\* Whatever is gone for a step is gone after it.
LEMMA Monotone ==
    ASSUME TypeInv, [Next]_vars
    PROVE  cloud' \subseteq cloud /\ alive' \subseteq alive
<1>1. CASE \E w \in Workers : Step(w)
  BY <1>1 DEF Step, IsPaused, AddGet, AddIsPaused, AddPatch, FindSecret, NewSession,
     CleanupWaiting, CleanupComplete, ListReferences, CheckSecret, CheckCluster,
     CheckOwner, SaveCheckpoint, RemoveFinalizer, DeleteCredential, ConfirmDeletion,
     DeleteSecret
<1>2. CASE ~\E w \in Workers : Step(w)
  BY <1>2 DEF Next, Fail, Restart, Get, RequestDeletion, RemoveCAPOFinalizer, EditCluster,
     CreateCluster, PauseOwner, ReleaseSecret, EditSecret, Revoke, vars
<1> QED
  BY <1>1, <1>2

\* A worker that does not move keeps what it relies on.
LEMMA BystanderInv ==
    ASSUME NEW v \in Workers, WorkerInv(v), job'[v] = job[v],
           defaultPolicy'[v] = defaultPolicy[v],
           cloud' \subseteq cloud, alive' \subseteq alive
    PROVE  WorkerInv(v)'
BY DEF WorkerInv, Testifies, ScopeOf, VolumesPolicyFor

\* An idle worker relies on nothing.
LEMMA IdleInv ==
    ASSUME NEW w \in Workers, job'[w] = Idle
    PROVE  WorkerInv(w)'
BY DEF WorkerInv, Testifies, Idle, Absent, NewCluster, NoCheckpoint

\* A write that keeps the checkpoint, or erases it with the object.
LEMMA WriteKeepsTestimony ==
    ASSUME TypeInv, CheckpointInv, NEW c \in Clusters, NEW o \in Cluster, Write(c, o),
           cloud' \subseteq cloud, alive' \subseteq alive,
           Testifies(o.ckpt, cloud', alive')
    PROVE  \A d \in Clusters : Testifies(cluster'[d].ckpt, cloud', alive')
<1> SUFFICES ASSUME NEW d \in Clusters PROVE Testifies(cluster'[d].ckpt, cloud', alive')
  OBVIOUS
<1>1. CASE d # c
  <2>1. cluster'[d] = cluster[d]
    BY <1>1 DEF Write, TypeInv, TypeOK
  <2> QED
    BY <2>1, TestimonyLasts DEF CheckpointInv
<1>2. CASE d = c
  <2>1. cluster'[c] = o \/ cluster'[c] = Absent(c)
    BY DEF Write, TypeInv, TypeOK
  <2>2. Testifies(Absent(c).ckpt, cloud', alive')
    BY DEF Testifies, Absent, NewCluster, NoCheckpoint
  <2> QED
    BY <1>2, <2>1, <2>2
<1> QED
  BY <1>1, <1>2

\* Unchanged checkpoints stay true.
LEMMA ClustersKeepTestimony ==
    ASSUME CheckpointInv, cloud' \subseteq cloud, alive' \subseteq alive, cluster' = cluster
    PROVE  \A d \in Clusters : Testifies(cluster'[d].ckpt, cloud', alive')
BY TestimonyLasts DEF CheckpointInv

\* A step of one worker leaves what the others hold alone.
LEMMA StepFrame ==
    ASSUME TypeInv, NEW w \in Workers, Step(w)
    PROVE  /\ \A v \in Workers \ {w} : job'[v] = job[v]
           /\ defaultPolicy' = defaultPolicy
           /\ cloud' \subseteq cloud /\ alive' \subseteq alive
<1>1. cloud' \subseteq cloud /\ alive' \subseteq alive
  BY Monotone DEF Next
<1>2. CASE \/ IsPaused(w) \/ AddGet(w) \/ AddIsPaused(w) \/ AddPatch(w) \/ FindSecret(w)
           \/ NewSession(w) \/ CleanupWaiting(w) \/ CleanupComplete(w)
  BY <1>1, <1>2 DEF IsPaused, AddGet, AddIsPaused, AddPatch, FindSecret, NewSession,
     CleanupWaiting, CleanupComplete, Return, Goto, TypeInv, TypeOK
<1>3. CASE \/ ListReferences(w) \/ CheckSecret(w) \/ CheckCluster(w) \/ CheckOwner(w)
           \/ SaveCheckpoint(w) \/ RemoveFinalizer(w) \/ DeleteCredential(w)
           \/ ConfirmDeletion(w) \/ DeleteSecret(w)
  BY <1>1, <1>3 DEF ListReferences, CheckSecret, CheckCluster, CheckOwner, SaveCheckpoint,
     RemoveFinalizer, DeleteCredential, ConfirmDeletion, DeleteSecret, Return, Goto,
     TypeInv, TypeOK
<1> QED
  BY <1>2, <1>3 DEF Step

\* A patch that leaves the checkpoint as it is or sets one that is true.
LEMMA PatchKeepsTestimony ==
    ASSUME Inv, NEW w \in Workers, NEW o \in Cluster, LockedPatch(w, o),
           cloud' = cloud, alive' = alive, Testifies(o.ckpt, cloud, alive)
    PROVE  \A d \in Clusters : Testifies(cluster'[d].ckpt, cloud', alive')
<1>1. CASE Write(job[w].key, o)
  <2>1. job[w].key \in Clusters
    BY DEF Inv, TypeInv, TypeOK, Job
  <2> QED
    BY <1>1, <2>1, WriteKeepsTestimony DEF Inv
<1>2. CASE UNCHANGED <<cluster, rv>>
  BY <1>2, ClustersKeepTestimony DEF Inv
<1> QED
  BY <1>1, <1>2 DEF LockedPatch

\* The stored checkpoints stay true under every step of a worker.
LEMMA StepKeepsTestimony ==
    ASSUME Inv, NEW w \in Workers, Step(w)
    PROVE  \A d \in Clusters : Testifies(cluster'[d].ckpt, cloud', alive')
<1>0. cloud' \subseteq cloud /\ alive' \subseteq alive
  BY StepFrame DEF Inv
<1>t. /\ job[w].key \in Clusters /\ cluster[job[w].key] \in Cluster
      /\ job[w].plan \in Checkpoint
  BY DEF Inv, TypeInv, TypeOK, Job
<1>1. CASE AddPatch(w)
  <2> DEFINE o == [cluster[job[w].key] EXCEPT !.finalizers = @ \cup {Janitor}]
  <2>1. o \in Cluster /\ o.ckpt = cluster[job[w].key].ckpt
    BY <1>t DEF Cluster
  <2>2. Testifies(o.ckpt, cloud, alive)
    BY <1>t, <2>1 DEF Inv, CheckpointInv
  <2>3. LockedPatch(w, o) /\ cloud' = cloud /\ alive' = alive
    BY <1>1 DEF AddPatch
  <2> HIDE DEF o
  <2> QED
    BY <2>1, <2>2, <2>3, PatchKeepsTestimony
<1>2. CASE RemoveFinalizer(w)
  <2> DEFINE o == [cluster[job[w].key] EXCEPT !.finalizers = @ \ {Janitor}]
  <2>1. o \in Cluster /\ o.ckpt = cluster[job[w].key].ckpt
    BY <1>t DEF Cluster
  <2>2. Testifies(o.ckpt, cloud, alive)
    BY <1>t, <2>1 DEF Inv, CheckpointInv
  <2>3. LockedPatch(w, o) /\ cloud' = cloud /\ alive' = alive
    BY <1>2 DEF RemoveFinalizer
  <2> HIDE DEF o
  <2> QED
    BY <2>1, <2>2, <2>3, PatchKeepsTestimony
<1>3. CASE SaveCheckpoint(w)
  <2> DEFINE o == [cluster[job[w].key] EXCEPT !.ckpt = job[w].plan]
  <2>1. o \in Cluster /\ o.ckpt = job[w].plan
    BY <1>t DEF Cluster
  <2>2. Testifies(o.ckpt, cloud, alive)
    BY <1>3, <2>1 DEF Inv, CheckpointInv, WorkerInv, SaveCheckpoint
  <2>3. LockedPatch(w, o) /\ cloud' = cloud /\ alive' = alive
    BY <1>3 DEF SaveCheckpoint
  <2> HIDE DEF o
  <2> QED
    BY <2>1, <2>2, <2>3, PatchKeepsTestimony
<1>4. CASE cluster' = cluster
  BY <1>0, <1>4, ClustersKeepTestimony DEF Inv
<1> QED
  BY <1>1, <1>2, <1>3, <1>4 DEF Step, IsPaused, AddGet, AddIsPaused, FindSecret, NewSession,
     CleanupWaiting, CleanupComplete, ListReferences, CheckSecret, CheckCluster, CheckOwner,
     DeleteCredential, ConfirmDeletion, DeleteSecret

\* The worker that moves relies on what its own step established.
LEMMA StepKeepsWorkerInv ==
    ASSUME Inv, NEW w \in Workers, Step(w)
    PROVE  WorkerInv(w)'
<1>0. /\ cloud' \subseteq cloud /\ alive' \subseteq alive
      /\ defaultPolicy'[w] = defaultPolicy[w]
  BY StepFrame DEF Inv
<1>t. /\ job \in [Workers -> Job] /\ job[w] \in Job /\ WorkerInv(w)
      /\ job[w].obs.ckpt \in Checkpoint
  BY DEF Inv, CheckpointInv, TypeInv, TypeOK, Job, Cluster
<1>o. Testifies(job[w].obs.ckpt, cloud', alive')
  BY <1>0, <1>t, TestimonyLasts DEF WorkerInv
<1>p. job[w].goal = "save" => Testifies(job[w].plan, cloud', alive')
  BY <1>0, <1>t, TestimonyLasts DEF WorkerInv
<1>r. ASSUME Return(w) PROVE WorkerInv(w)'
  BY <1>r, <1>t, IdleInv DEF Return
\* Moving between stages that rely on nothing more.
<1>g. ASSUME NEW stage \in Stages \ {"listReferences", "saveCheckpoint", "deleteCredential",
                                    "confirmDeletion"}, Goto(w, stage)
      PROVE  WorkerInv(w)'
  <2>1. /\ job'[w].pc = stage /\ job'[w].goal = job[w].goal /\ job'[w].plan = job[w].plan
        /\ job'[w].obs = job[w].obs /\ job'[w].sec = job[w].sec
    BY <1>g, <1>t DEF Goto, Job
  <2> QED
    BY <2>1, <1>o, <1>p, <1>t DEF WorkerInv
<1>1. CASE \/ IsPaused(w) \/ AddIsPaused(w) \/ NewSession(w) \/ CheckSecret(w)
  BY <1>1, <1>r, <1>g DEF IsPaused, AddIsPaused, NewSession, CheckSecret, Stages
<1>2. CASE \/ AddPatch(w) \/ CleanupWaiting(w) \/ SaveCheckpoint(w) \/ RemoveFinalizer(w)
           \/ DeleteSecret(w)
  BY <1>2, <1>r DEF AddPatch, CleanupWaiting, SaveCheckpoint, RemoveFinalizer, DeleteSecret
<1>3. CASE AddGet(w) \/ CheckCluster(w)
  <2>1. CASE Return(w)
    BY <2>1, <1>r
  <2>2. CASE \E stage \in {"addIsPaused", "checkOwner"} :
               job' = [job EXCEPT ![w].pc = stage, ![w].seen = rv[job[w].key]]
    <3>1. /\ job'[w].pc \in {"addIsPaused", "checkOwner"}
          /\ job'[w].goal = job[w].goal /\ job'[w].plan = job[w].plan
          /\ job'[w].obs = job[w].obs /\ job'[w].sec = job[w].sec
      BY <2>2, <1>t DEF Job
    <3> QED
      BY <3>1, <1>o, <1>p, <1>t DEF WorkerInv
  <2> QED
    BY <1>3, <2>1, <2>2 DEF AddGet, CheckCluster
<1>4. CASE FindSecret(w)
  <2> DEFINE s == secret[job[w].obs.ref]
             Start(stage, goal) ==
               job' = [job EXCEPT ![w].pc = stage, ![w].goal = goal, ![w].sec = s]
  <2>1. CASE Return(w)
    BY <2>1, <1>r
  <2>2. ASSUME NEW stage \in {"newSession", "checkSecret"}, NEW goal \in {"none", "finish", "secret"},
               Start(stage, goal)
        PROVE  WorkerInv(w)'
    <3>1. /\ job'[w].pc = stage /\ job'[w].goal = goal /\ job'[w].obs = job[w].obs
      BY <2>2, <1>t DEF Job
    <3> QED
      BY <3>1, <1>o DEF WorkerInv
  <2>3. CASE /\ job[w].obs.ckpt.phase = "credentialDeleteStarted"
             /\ MayResume(w, s) /\ Start("newSession", "credential")
    <3>1. /\ job'[w].pc = "newSession" /\ job'[w].goal = "credential"
          /\ job'[w].obs = job[w].obs /\ job'[w].sec = s
      BY <2>3, <1>t DEF Job
    <3>2. s.cred = job[w].obs.ckpt.cred
      BY <2>3 DEF CheckpointBinding, MayResume
    <3> QED
      BY <2>3, <3>1, <3>2, <1>o DEF WorkerInv
  <2> QED
    BY <1>4, <2>1, <2>2, <2>3 DEF FindSecret
<1>5. CASE CleanupComplete(w)
  <2>1. CASE Goto(w, "listReferences")
    <3>1. /\ job'[w].pc = "listReferences" /\ job'[w].goal = job[w].goal
          /\ job'[w].plan = job[w].plan
          /\ job'[w].obs = job[w].obs /\ job'[w].sec = job[w].sec
      BY <2>1, <1>t DEF Goto, Job
    <3>2. ScopeOf(w)' \cap cloud' = {}
      BY <1>5, <1>0, <3>1 DEF CleanupComplete, NothingLeft, ScopeOf, VolumesPolicyFor
    <3> QED
      BY <3>1, <3>2, <1>o, <1>p, <1>t DEF WorkerInv
  <2>2. CASE job' = [job EXCEPT ![w].pc = "checkSecret", ![w].goal = "finish"]
    <3>1. job'[w].pc = "checkSecret" /\ job'[w].goal = "finish" /\ job'[w].obs = job[w].obs
      BY <2>2, <1>t DEF Job
    <3> QED
      BY <3>1, <1>o DEF WorkerInv
  <2> QED
    BY <1>5, <2>1, <2>2 DEF CleanupComplete
<1>6. CASE ListReferences(w)
  <2> DEFINE Check(goal, plan) ==
               job' = [job EXCEPT ![w].pc = "checkSecret", ![w].goal = goal, ![w].plan = plan]
  <2>1. CASE Return(w) \/ Goto(w, "deleteSecret")
    BY <2>1, <1>r, <1>g DEF Stages
  <2>2. CASE job[w].goal = "credential" /\ Goto(w, "deleteCredential")
    <3>1. /\ job'[w].pc = "deleteCredential" /\ job'[w].goal = job[w].goal
          /\ job'[w].obs = job[w].obs /\ job'[w].sec = job[w].sec
      BY <2>2, <1>t DEF Goto, Job
    <3> QED
      BY <2>2, <3>1, <1>o, <1>t DEF WorkerInv
  <2>3. CASE Check("finish", job[w].plan)
    <3>1. job'[w].pc = "checkSecret" /\ job'[w].goal = "finish" /\ job'[w].obs = job[w].obs
      BY <2>3, <1>t DEF Job
    <3> QED
      BY <3>1, <1>o DEF WorkerInv
  <2>4. CASE job[w].goal = "none" /\ Check("save", FirstCheckpoint(w))
    <3>1. /\ job'[w].pc = "checkSecret" /\ job'[w].goal = "save"
          /\ job'[w].obs = job[w].obs /\ job'[w].plan = FirstCheckpoint(w)
      BY <2>4, <1>t DEF Job
    <3>2. ScopeOf(w) \cap cloud = {}
      BY <1>6, <2>4, <1>t DEF ListReferences, WorkerInv
    <3>3. Testifies(FirstCheckpoint(w), cloud', alive')
      BY <1>0, <3>2 DEF Testifies, FirstCheckpoint, ScopeOf
    <3> QED
      BY <3>1, <3>3, <1>o DEF WorkerInv
  <2> QED
    BY <1>6, <2>1, <2>2, <2>3, <2>4 DEF ListReferences
<1>7. CASE CheckOwner(w)
  <2>1. CASE Return(w)
    BY <2>1, <1>r
  <2>2. CASE Goto(w, AfterCheck[job[w].goal])
    <3>1. /\ job'[w].pc = AfterCheck[job[w].goal] /\ job'[w].goal = job[w].goal
          /\ job'[w].plan = job[w].plan
          /\ job'[w].obs = job[w].obs /\ job'[w].sec = job[w].sec
      BY <2>2, <1>t DEF Goto, Job
    <3>2. job[w].goal \in {"save", "finish", "credential", "secret"}
      BY <1>7, <1>t DEF CheckOwner, Inv, TypeInv, GoalOK, Job, Goals
    <3>3. /\ job'[w].pc \in {"saveCheckpoint", "removeFinalizer", "listReferences"}
          /\ job'[w].pc = "saveCheckpoint" => job[w].goal = "save"
      BY <3>1, <3>2 DEF AfterCheck
    <3> QED
      BY <3>1, <3>2, <3>3, <1>o, <1>p, <1>t DEF WorkerInv
  <2> QED
    BY <1>7, <2>1, <2>2 DEF CheckOwner
<1>8. CASE DeleteCredential(w)
  <2>1. /\ job'[w].pc = "confirmDeletion" /\ job'[w].goal = job[w].goal
        /\ job'[w].obs = job[w].obs /\ job'[w].sec = job[w].sec
    BY <1>8, <1>t DEF DeleteCredential, Goto, Job
  <2>2. job[w].goal = "credential"
    BY <1>8, <1>t DEF DeleteCredential, WorkerInv
  <2>3. job[w].sec.cred \notin alive'
    BY <1>8 DEF DeleteCredential
  <2> QED
    BY <2>1, <2>2, <2>3, <1>o, <1>t DEF WorkerInv
<1>9. CASE ConfirmDeletion(w)
  <2> DEFINE plan == [job[w].obs.ckpt EXCEPT !.phase = "secretDeleteStarted"]
  <2>1. /\ job'[w].pc = "checkSecret" /\ job'[w].goal = "save"
        /\ job'[w].obs = job[w].obs /\ job'[w].plan = plan
    BY <1>9, <1>t DEF ConfirmDeletion, Job
  <2>2. /\ job[w].obs.ckpt.phase = "credentialDeleteStarted"
        /\ job[w].obs.ckpt.cred \notin alive
    BY <1>9, <1>t DEF ConfirmDeletion, WorkerInv
  <2>3. Testifies(plan, cloud', alive')
    BY <2>2, <1>o, <1>0, <1>t DEF Testifies, Checkpoint
  <2> HIDE DEF plan
  <2> QED
    BY <2>1, <2>3, <1>o DEF WorkerInv
<1> QED
  BY <1>1, <1>2, <1>3, <1>4, <1>5, <1>6, <1>7, <1>8, <1>9 DEF Step

\* Edits write objects that keep the checkpoint of the one they replace.
LEMMA EnvironmentKeepsTestimony ==
    ASSUME Inv, NEW c \in Clusters,
           cloud' = cloud, alive' = alive,
           RequestDeletion(c) \/ RemoveCAPOFinalizer(c) \/ EditCluster(c) \/ CreateCluster(c)
    PROVE  \A d \in Clusters : Testifies(cluster'[d].ckpt, cloud', alive')
<1>t. cluster[c] \in Cluster /\ Testifies(cluster[c].ckpt, cloud, alive) /\ rv[c] + 1 \in Nat
  BY DEF Inv, TypeInv, TypeOK, CheckpointInv
<1>1. ASSUME NEW o, Write(c, o), Testifies(o.ckpt, cloud, alive)
      PROVE  \A d \in Clusters : Testifies(cluster'[d].ckpt, cloud', alive')
  <2> SUFFICES ASSUME NEW d \in Clusters PROVE Testifies(cluster'[d].ckpt, cloud', alive')
    OBVIOUS
  <2>1. Testifies(Absent(c).ckpt, cloud, alive)
    BY DEF Testifies, Absent, NewCluster, NoCheckpoint
  <2>2. cluster'[d] \in {cluster[d], o, Absent(c)} /\ (d # c => cluster'[d] = cluster[d])
    BY <1>1 DEF Write, Inv, TypeInv, TypeOK
  <2> QED
    BY <1>1, <2>1, <2>2 DEF Inv, CheckpointInv
<1>2. CASE RequestDeletion(c)
  <2>1. Testifies([cluster[c] EXCEPT !.deleting = TRUE, !.gen = @ + 1].ckpt, cloud, alive)
    BY <1>t DEF Cluster
  <2> QED
    BY <1>1, <1>2, <2>1 DEF RequestDeletion
<1>3. CASE RemoveCAPOFinalizer(c)
  <2>1. Testifies([cluster[c] EXCEPT !.finalizers = @ \ {CAPO}].ckpt, cloud, alive)
    BY <1>t DEF Cluster
  <2> QED
    BY <1>1, <1>3, <2>1 DEF RemoveCAPOFinalizer
<1>4. CASE EditCluster(c)
  <2>1. \E o : Write(c, o) /\ o.ckpt = cluster[c].ckpt
    <3>1. /\ [cluster[c] EXCEPT !.paused = ~@].ckpt = cluster[c].ckpt
          /\ \A n : [cluster[c] EXCEPT !.name = n].ckpt = cluster[c].ckpt
          /\ \A p : [cluster[c] EXCEPT !.volumes = p].ckpt = cluster[c].ckpt
          /\ \A n : [cluster[c] EXCEPT !.ref = n, !.gen = @ + 1].ckpt = cluster[c].ckpt
      BY <1>t DEF Cluster
    <3>2. CASE Write(c, [cluster[c] EXCEPT !.paused = ~@])
      BY <3>1, <3>2
    <3>3. CASE \E n : Write(c, [cluster[c] EXCEPT !.name = n])
      BY <3>1, <3>3
    <3>4. CASE \E p : Write(c, [cluster[c] EXCEPT !.volumes = p])
      BY <3>1, <3>4
    <3>5. CASE \E n : Write(c, [cluster[c] EXCEPT !.ref = n, !.gen = @ + 1])
      BY <3>1, <3>5
    <3> QED
      BY <1>4, <3>2, <3>3, <3>4, <3>5 DEF EditCluster
  <2> QED
    BY <1>1, <1>t, <2>1
<1>5. CASE CreateCluster(c)
  <2>1. Testifies(NewCluster(c, rv[c] + 1).ckpt, cloud, alive)
    BY DEF Testifies, NewCluster, NoCheckpoint
  <2> QED
    BY <1>1, <1>5, <2>1 DEF CreateCluster
<1> QED
  BY <1>2, <1>3, <1>4, <1>5

\* Testimony is an inductive invariant.
LEMMA CheckpointInductive == Inv /\ [Next]_vars => CheckpointInv'
<1> SUFFICES ASSUME Inv, [Next]_vars PROVE CheckpointInv'
  OBVIOUS
<1>0. cloud' \subseteq cloud /\ alive' \subseteq alive
  BY Monotone DEF Inv
<1>i. ASSUME cluster' = cluster
      PROVE  \A d \in Clusters : Testifies(cluster'[d].ckpt, cloud', alive')
  BY <1>i, <1>0, ClustersKeepTestimony DEF Inv
<1>w. ASSUME job' = job, defaultPolicy' = defaultPolicy
      PROVE  \A v \in Workers : WorkerInv(v)'
  BY <1>w, <1>0, BystanderInv DEF Inv, CheckpointInv
\* One worker ends, the others stand by.
<1>r. ASSUME NEW w \in Workers, Return(w),
             \A v \in Workers \ {w} : defaultPolicy'[v] = defaultPolicy[v]
      PROVE  \A v \in Workers : WorkerInv(v)'
  <2> SUFFICES ASSUME NEW v \in Workers PROVE WorkerInv(v)'
    OBVIOUS
  <2>1. CASE v = w
    BY <2>1, <1>r, IdleInv DEF Return, Inv, TypeInv, TypeOK
  <2>2. CASE v # w
    <3>1. job'[v] = job[v]
      BY <2>2, <1>r DEF Return, Inv, TypeInv, TypeOK
    <3> QED
      BY <2>2, <3>1, <1>0, <1>r, BystanderInv DEF Inv, CheckpointInv
  <2> QED
    BY <2>1, <2>2
<1>1. CASE \E w \in Workers : Step(w)
  <2> PICK w \in Workers : Step(w)
    BY <1>1
  <2>1. \A d \in Clusters : Testifies(cluster'[d].ckpt, cloud', alive')
    BY StepKeepsTestimony
  <2>2. \A v \in Workers \ {w} : WorkerInv(v)'
    BY StepFrame, BystanderInv DEF Inv, CheckpointInv
  <2>3. WorkerInv(w)'
    BY StepKeepsWorkerInv
  <2> QED
    BY <2>1, <2>2, <2>3 DEF CheckpointInv
<1>2. CASE \E w \in Workers : Fail(w)
  BY <1>2, <1>i, <1>r DEF Fail, CheckpointInv
<1>3. CASE \E w \in Workers : Restart(w)
  <2> PICK w \in Workers : Restart(w)
    BY <1>3
  <2>1. \A v \in Workers \ {w} : defaultPolicy'[v] = defaultPolicy[v]
    BY DEF Restart, Inv, TypeInv, TypeOK
  <2> QED
    BY <2>1, <1>i, <1>r DEF Restart, CheckpointInv
<1>4. CASE \E w \in Workers, c \in Clusters : Get(w, c)
  <2> PICK w \in Workers, c \in Clusters : Get(w, c)
    BY <1>4
  <2>1. /\ job'[w].pc = "isPaused" /\ job'[w].goal = "none"
        /\ job'[w].obs = cluster[c]
        /\ \A v \in Workers \ {w} : job'[v] = job[v]
        /\ cluster' = cluster /\ cloud' = cloud /\ alive' = alive
        /\ defaultPolicy' = defaultPolicy
    BY DEF Get, Idle, Inv, TypeInv, TypeOK
  <2>2. WorkerInv(w)'
    BY <2>1 DEF WorkerInv, Inv, CheckpointInv
  <2>3. \A v \in Workers \ {w} : WorkerInv(v)'
    BY <2>1, BystanderInv DEF Inv, CheckpointInv
  <2> QED
    BY <2>1, <2>2, <2>3, <1>i DEF CheckpointInv
<1>5. CASE \E c \in Clusters : \/ RequestDeletion(c) \/ RemoveCAPOFinalizer(c)
                               \/ EditCluster(c) \/ CreateCluster(c)
  <2> PICK c \in Clusters : \/ RequestDeletion(c) \/ RemoveCAPOFinalizer(c)
                           \/ EditCluster(c) \/ CreateCluster(c)
    BY <1>5
  <2>1. UNCHANGED <<cloud, alive, job, defaultPolicy>>
    BY DEF RequestDeletion, RemoveCAPOFinalizer, EditCluster, CreateCluster
  <2> QED
    BY <2>1, <1>w, EnvironmentKeepsTestimony DEF CheckpointInv
<1>6. CASE \/ \E c \in Clusters : PauseOwner(c)
           \/ \E n \in SecretNames : ReleaseSecret(n) \/ EditSecret(n)
           \/ \E k \in Credentials : Revoke(k)
           \/ UNCHANGED vars
  <2>1. UNCHANGED <<cluster, job, defaultPolicy>>
    BY <1>6 DEF PauseOwner, ReleaseSecret, EditSecret, Revoke, vars
  <2> QED
    BY <2>1, <1>i, <1>w DEF CheckpointInv
<1> QED
  BY <1>1, <1>2, <1>3, <1>4, <1>5, <1>6 DEF Next

\* At the start there is no checkpoint to testify.
LEMMA InitInv == Init => Inv
<1> SUFFICES ASSUME Init PROVE Inv
  OBVIOUS
<1>1. \A c \in Clusters : Testifies(cluster[c].ckpt, cloud, alive)
  BY DEF Init, Testifies, NewCluster, NoCheckpoint
<1>2. \A w \in Workers : WorkerInv(w)
  BY DEF Init, WorkerInv, Testifies, Idle, Absent, NewCluster, NoCheckpoint
<1> QED
  BY <1>1, <1>2, InitType DEF Inv, CheckpointInv

\* The invariant that carries the theorems below.
THEOREM InvHolds == Spec => []Inv
<1>1. Init => Inv
  BY InitInv
<1>2. Inv /\ [Next]_vars => Inv'
  BY TypeInductive, CheckpointInductive DEF Inv
<1> QED
  BY <1>1, <1>2, PTL DEF Spec

\* What a checkpoint and a worker's reads testify to stays true between the
\* calls of a reconciliation.
THEOREM TestimonyHolds == Spec => []CheckpointInv
<1>1. Inv => CheckpointInv
  BY DEF Inv
<1> QED
  BY <1>1, InvHolds, PTL

\* A stored checkpoint is never wrong about the resources it vouches for
\* (reconcileDelete saves it only after a complete, empty inventory).
THEOREM VerifiedBeforeCheckpoint == Spec => []CheckpointVerified
<1>1. Inv => CheckpointVerified
  BY DEF Inv, CheckpointInv, CheckpointVerified, Testifies
<1> QED
  BY <1>1, InvHolds, PTL

\* Once secretDeleteStarted is stored, the recorded credential is gone for
\* good, however responses, checkpoints and processes were lost before.
THEOREM ConfirmationIsSound == Spec => []ConfirmedPhaseMeansDead
<1>1. Inv => ConfirmedPhaseMeansDead
  BY DEF Inv, CheckpointInv, ConfirmedPhaseMeansDead, Testifies
<1> QED
  BY <1>1, InvHolds, PTL
==============================================================================
