--------------------------- MODULE HandoverProofs ---------------------------
(***************************************************************************)
(* What a worker has read is old by the time it writes: other workers,      *)
(* users and a second process have acted since.  This module proves what    *)
(* the reads are worth all the same, and from it the action properties of   *)
(* CredentialCleanup and that it implements CredentialRetirement.           *)
(***************************************************************************)
EXTENDS CredentialCleanupProofs

------------------------------------------------------------------------------
(* The invariant                                                             *)

\* The Secret a checkpoint names was seen once: its UID is not a future one.
SecretSeen(ck, secrets) == ck.secretUID # 0 /\ ck.secretUID <= secrets[ck.secretName].rv

\* An object of cluster c, stored or as a worker read it.  One with a
\* checkpoint is held by the Janitor alone.
ObjectOK(c, o, secrets) ==
    /\ o.ckpt.phase = "none" => o.ckpt = NoCheckpoint(c)
    /\ o.ckpt.phase # "none" =>
          /\ o.uid # 0 /\ o.ckpt.clusterUID = o.uid
          /\ o.deleting /\ o.finalizers = {Janitor}
          /\ SecretSeen(o.ckpt, secrets)

\* The purpose of a checkpoint has been achieved, so that the object may have
\* moved on to the next one, or gone.
Outdated(ck, valid, secrets) ==
    \/ ck.phase = "credentialDeleteStarted" /\ ck.cred \notin valid
    \/ ck.phase = "secretDeleteStarted" /\ secrets[ck.secretName].uid # ck.secretUID

\* What a worker read of its cluster: the version it has seen is still as it
\* was, and a checkpoint is still there or outdated.
ClusterRead(w) ==
    LET j == job[w]  latest == cluster[j.key] IN
    /\ ObjectOK(j.key, j.obs, secret)
    /\ j.pc # "idle" => j.obs.uid # 0
    /\ j.obs.ckpt.phase # "none" => latest.ckpt = j.obs.ckpt \/ Outdated(j.obs.ckpt, alive, secret)
    /\ j.seen <= rv[j.key]
    /\ j.pc \in {"addIsPaused", "addPatch"} /\ j.seen = rv[j.key] =>
          /\ latest.uid = j.obs.uid
          /\ ~latest.deleting /\ ~latest.paused /\ Janitor \notin latest.finalizers
    /\ j.pc \in {"checkOwner", "saveCheckpoint", "removeFinalizer"} /\ j.seen = rv[j.key] =>
          InputsUnchanged(w)

\* What it read of its Secret.
Before == {"idle", "isPaused", "addGet", "addIsPaused", "addPatch", "findSecret"}

SecretRead(w) ==
    LET j == job[w]  s == secret[j.obs.ref] IN
    j.pc \notin Before =>
        /\ j.sec.uid <= j.sec.rv /\ j.sec.rv <= s.rv
        /\ j.sec.rv = s.rv => j.sec = s

\* What a worker is after at each stage.
GoalAt ==
    [newSession |-> {"none", "credential"}, cleanup |-> {"none"},
     listReferences |-> {"none", "credential", "secret"},
     checkSecret |-> Goals \ {"none"}, checkCluster |-> Goals \ {"none"},
     checkOwner |-> Goals \ {"none"},
     saveCheckpoint |-> {"save"}, removeFinalizer |-> {"finish"},
     deleteCredential |-> {"credential"}, confirmDeletion |-> {"credential"},
     deleteSecret |-> {"secret"}]

\* And what it knows when it is after it.
FirstPass(w) ==
    LET j == job[w] IN
    /\ j.obs.ckpt.phase = "none" /\ j.sec.uid # 0
    /\ j.pc = "listReferences" => j.sec.policy = "delete"

Saving(w) ==
    LET j == job[w]  ck == j.obs.ckpt IN
    \/ /\ ck.phase = "none" /\ j.sec.policy = "delete"
       /\ j.plan.phase = "credentialDeleteStarted"
       /\ j.plan.clusterUID = j.obs.uid /\ SecretSeen(j.plan, secret)
    \/ /\ ck.phase = "credentialDeleteStarted" /\ ck.cred \notin alive
       /\ j.plan = [ck EXCEPT !.phase = "secretDeleteStarted"]

Finishing(w) ==
    LET ck == job[w].obs.ckpt IN
    /\ ScopeOf(w) \cap cloud = {}
    /\ \/ ck.phase = "none"
       \/ ck.phase = "secretDeleteStarted" /\ Outdated(ck, alive, secret)

Resuming(w, phase) ==
    LET j == job[w]  ck == j.obs.ckpt IN
    /\ ck.phase = phase
    /\ j.obs.ref = ck.secretName
    /\ j.sec.uid = ck.secretUID /\ j.sec.cred = ck.cred /\ j.sec.policy = "delete"

Purpose(w) ==
    LET j == job[w] IN
    /\ j.pc \in Before => j.goal = "none"
    /\ j.pc \notin Before => j.goal \in GoalAt[j.pc]
    /\ j.pc \notin Before /\ j.goal = "none" => FirstPass(w)
    /\ j.goal = "save" => Saving(w)
    /\ j.goal = "finish" => Finishing(w)
    /\ j.goal = "credential" => Resuming(w, "credentialDeleteStarted")
    /\ j.goal = "secret" => Resuming(w, "secretDeleteStarted")

ReadsInv ==
    /\ \A c \in Clusters : ObjectOK(c, cluster[c], secret)
    /\ \A n \in SecretNames : secret[n].uid <= secret[n].rv
    /\ \A w \in Workers : ClusterRead(w) /\ SecretRead(w) /\ Purpose(w)

\* A worker about to destroy something is alone with its Secret, since nobody
\* may refer to a Secret that a checkpoint names.
Alone(w) ==
    LET j == job[w] IN
    j.pc \in {"deleteCredential", "deleteSecret"} =>
        \/ Outdated(j.obs.ckpt, alive, secret)
        \/ \A d \in Clusters \ {j.key} : Present(d) => cluster[d].ref # j.obs.ref

AloneInv == ~LateReferences => \A w \in Workers : Alone(w)

\* The invariant that everything below rests on.
FullInv == Inv /\ ReadsInv

------------------------------------------------------------------------------
(* What any step of anybody does to what others have read                    *)

\* An object that is written gets another resourceVersion, and a UID is new or
\* the old one; credentials and resources do not come back.
Evolves ==
    /\ cloud' \subseteq cloud /\ alive' \subseteq alive
    /\ \A c \in Clusters : rv'[c] > rv[c] \/ (rv'[c] = rv[c] /\ cluster'[c] = cluster[c])
    /\ \A n \in SecretNames :
          /\ secret'[n].rv > secret[n].rv \/ secret'[n] = secret[n]
          /\ secret'[n].uid \in {0, secret[n].uid, secret'[n].rv}

\* A checkpoint stays until its purpose has been achieved.
KeepsCheckpoints ==
    \A c \in Clusters : cluster[c].ckpt.phase # "none" =>
        \/ cluster'[c].ckpt = cluster[c].ckpt
        \/ Outdated(cluster[c].ckpt, alive', secret')

\* Writes to the API server evolve.
LEMMA WriteEvolves ==
    ASSUME TypeOK, NEW c \in Clusters, NEW o, Write(c, o)
    PROVE  \A d \in Clusters : rv'[d] > rv[d] \/ (rv'[d] = rv[d] /\ cluster'[d] = cluster[d])
BY DEF Write, TypeOK

\* So do locked patches, which may write nothing.
LEMMA LockedPatchEvolves ==
    ASSUME TypeOK, NEW w \in Workers, NEW o, LockedPatch(w, o)
    PROVE  \A d \in Clusters : rv'[d] > rv[d] \/ (rv'[d] = rv[d] /\ cluster'[d] = cluster[d])
<1>1. job[w].key \in Clusters
  BY DEF TypeOK, Job
<1>2. CASE UNCHANGED <<cluster, rv>>
  BY <1>2
<1> QED
  BY <1>1, <1>2, WriteEvolves DEF LockedPatch

\* A write of a Secret keeps its UID, erases it or takes a new one.
LEMMA WriteSecretEvolves ==
    ASSUME TypeOK, NEW n \in SecretNames, NEW o \in Secret, WriteSecret(n, o),
           o.uid \in {0, secret[n].uid, secret[n].rv + 1}
    PROVE  \A m \in SecretNames :
               /\ secret'[m].rv > secret[m].rv \/ secret'[m] = secret[m]
               /\ secret'[m].uid \in {0, secret[m].uid, secret'[m].rv}
<1> SUFFICES ASSUME NEW m \in SecretNames
             PROVE  /\ secret'[m].rv > secret[m].rv \/ secret'[m] = secret[m]
                    /\ secret'[m].uid \in {0, secret[m].uid, secret'[m].rv}
  OBVIOUS
<1>1. CASE m # n
  BY <1>1 DEF WriteSecret, TypeOK
<1>2. CASE m = n
  <2>1. secret'[n] = [o EXCEPT !.rv = secret[n].rv + 1] /\ secret[n].rv \in Nat
    BY DEF WriteSecret, TypeOK, Secret
  <2>2. secret'[n].rv = secret[n].rv + 1 /\ secret'[n].uid = o.uid
    BY <2>1 DEF Secret
  <2> QED
    BY <1>2, <2>1, <2>2
<1> QED
  BY <1>1, <1>2

LEMMA RemoveSecretEvolves ==
    ASSUME TypeOK, NEW n \in SecretNames, RemoveSecret(n)
    PROVE  \A m \in SecretNames :
               /\ secret'[m].rv > secret[m].rv \/ secret'[m] = secret[m]
               /\ secret'[m].uid \in {0, secret[m].uid, secret'[m].rv}
<1>1. /\ [secret[n] EXCEPT !.deleting = TRUE] \in Secret
      /\ [secret[n] EXCEPT !.uid = 0] \in Secret
      /\ [secret[n] EXCEPT !.deleting = TRUE].uid = secret[n].uid
      /\ [secret[n] EXCEPT !.uid = 0].uid = 0
  BY DEF TypeOK, Secret
<1> QED
  BY <1>1, WriteSecretEvolves DEF RemoveSecret

\* Edits of a Secret.
LEMMA EditSecretEvolves ==
    ASSUME TypeInv, NEW n \in SecretNames, EditSecret(n)
    PROVE  \A m \in SecretNames :
               /\ secret'[m].rv > secret[m].rv \/ secret'[m] = secret[m]
               /\ secret'[m].uid \in {0, secret[m].uid, secret'[m].rv}
<1>t. TypeOK /\ secret[n] \in Secret /\ secret[n].rv + 1 \in Nat
  BY DEF TypeInv, TypeOK, Secret
<1>1. CASE \E k \in Credentials : WriteSecret(n, [secret[n] EXCEPT !.cred = k])
  <2>1. \A k \in Credentials : /\ [secret[n] EXCEPT !.cred = k] \in Secret
                               /\ [secret[n] EXCEPT !.cred = k].uid = secret[n].uid
    BY <1>t DEF Secret
  <2> QED
    BY <1>t, <1>1, <2>1, WriteSecretEvolves
<1>2. CASE \E p \in Policies : WriteSecret(n, [secret[n] EXCEPT !.policy = p])
  <2>1. \A p \in Policies : /\ [secret[n] EXCEPT !.policy = p] \in Secret
                            /\ [secret[n] EXCEPT !.policy = p].uid = secret[n].uid
    BY <1>t DEF Secret
  <2> QED
    BY <1>t, <1>2, <2>1, WriteSecretEvolves
<1>3. CASE RemoveSecret(n)
  BY <1>t, <1>3, RemoveSecretEvolves
<1>4. CASE \E k \in Credentials, p \in Policies :
             WriteSecret(n, [secret[n] EXCEPT !.uid = secret[n].rv + 1, !.cred = k,
                                              !.policy = p])
  <2> DEFINE o(k, p) == [secret[n] EXCEPT !.uid = secret[n].rv + 1, !.cred = k, !.policy = p]
  <2>1. \A k \in Credentials, p \in Policies :
          o(k, p) \in Secret /\ o(k, p).uid = secret[n].rv + 1
    BY <1>t DEF Secret
  <2> QED
    BY <1>t, <1>4, <2>1, WriteSecretEvolves
<1> QED
  BY <1>1, <1>2, <1>3, <1>4 DEF EditSecret

\* Everybody's steps evolve.
LEMMA NextEvolves ==
    ASSUME TypeInv, [Next]_vars
    PROVE  Evolves
<1>m. cloud' \subseteq cloud /\ alive' \subseteq alive
  BY Monotone
<1>t. TypeOK
  BY DEF TypeInv
<1> DEFINE C == \A c \in Clusters :
                  rv'[c] > rv[c] \/ (rv'[c] = rv[c] /\ cluster'[c] = cluster[c])
           S == \A n \in SecretNames :
                  /\ secret'[n].rv > secret[n].rv \/ secret'[n] = secret[n]
                  /\ secret'[n].uid \in {0, secret[n].uid, secret'[n].rv}
<1>1. CASE UNCHANGED <<cluster, rv, secret>>
  BY <1>m, <1>1 DEF Evolves
<1>2. ASSUME C, UNCHANGED secret PROVE Evolves
  BY <1>m, <1>2 DEF Evolves
<1>3. ASSUME S, UNCHANGED <<cluster, rv>> PROVE Evolves
  BY <1>m, <1>3 DEF Evolves
<1> HIDE DEF C, S
<1>4. CASE \E w \in Workers : Step(w)
  <2> PICK w \in Workers : Step(w)
    BY <1>4
  <2>1. CASE AddPatch(w) \/ SaveCheckpoint(w) \/ RemoveFinalizer(w)
    <3>1. C
      BY <1>t, <2>1, LockedPatchEvolves DEF C, AddPatch, SaveCheckpoint, RemoveFinalizer
    <3> QED
      BY <1>2, <2>1, <3>1 DEF AddPatch, SaveCheckpoint, RemoveFinalizer
  <2>2. CASE DeleteSecret(w)
    <3>1. CASE UNCHANGED secret
      BY <1>1, <2>2, <3>1 DEF DeleteSecret
    <3>2. CASE RemoveSecret(job[w].obs.ref)
      <4>1. job[w].obs.ref \in SecretNames
        BY <1>t DEF TypeOK, Job, Cluster
      <4> QED
        BY <1>t, <1>3, <2>2, <3>2, <4>1, RemoveSecretEvolves DEF S, DeleteSecret
    <3> QED
      BY <2>2, <3>1, <3>2 DEF DeleteSecret
  <2>3. CASE ~(AddPatch(w) \/ SaveCheckpoint(w) \/ RemoveFinalizer(w) \/ DeleteSecret(w))
    BY <1>1, <2>3 DEF Step, IsPaused, AddGet, AddIsPaused, FindSecret, NewSession,
       CleanupWaiting, CleanupComplete, ListReferences, CheckSecret, CheckCluster, CheckOwner,
       DeleteCredential, ConfirmDeletion
  <2> QED
    BY <2>1, <2>2, <2>3
<1>5. CASE \E c \in Clusters : \/ RequestDeletion(c) \/ RemoveCAPOFinalizer(c)
                               \/ EditCluster(c) \/ CreateCluster(c)
  <2> PICK c \in Clusters : \/ RequestDeletion(c) \/ RemoveCAPOFinalizer(c)
                            \/ EditCluster(c) \/ CreateCluster(c)
    BY <1>5
  <2>1. UNCHANGED secret /\ \E o : Write(c, o)
    BY DEF RequestDeletion, RemoveCAPOFinalizer, EditCluster, CreateCluster
  <2>2. C
    BY <1>t, <2>1, WriteEvolves DEF C
  <2> QED
    BY <1>2, <2>1, <2>2
<1>6. CASE \E n \in SecretNames : ReleaseSecret(n)
  <2> PICK n \in SecretNames : ReleaseSecret(n)
    BY <1>6
  <2> DEFINE o == [secret[n] EXCEPT !.uid = 0, !.deleting = FALSE]
  <2>1. o \in Secret /\ o.uid = 0
    BY <1>t DEF TypeOK, Secret
  <2>2. WriteSecret(n, o) /\ UNCHANGED <<cluster, rv>>
    BY DEF ReleaseSecret
  <2> HIDE DEF o
  <2> QED
    BY <1>t, <1>3, <2>1, <2>2, WriteSecretEvolves DEF S
<1>7. CASE \E n \in SecretNames : EditSecret(n)
  BY <1>3, <1>7, EditSecretEvolves DEF S, EditSecret
<1>8. CASE \/ \E w \in Workers : Fail(w) \/ Restart(w) \/ \E c \in Clusters : Get(w, c)
           \/ \E c \in Clusters : PauseOwner(c)
           \/ \E k \in Credentials : Revoke(k)
           \/ UNCHANGED vars
  BY <1>1, <1>8 DEF Fail, Restart, Get, PauseOwner, Revoke, vars
<1> QED
  BY <1>4, <1>5, <1>6, <1>7, <1>8 DEF Next

------------------------------------------------------------------------------
(* What lasts                                                                *)

\* Secrets that were seen stay seen.
LEMMA SeenLasts ==
    ASSUME TypeInv, Evolves, NEW ck \in Checkpoint, SecretSeen(ck, secret), TypeInv'
    PROVE  SecretSeen(ck, secret')
<1>1. ck.secretName \in SecretNames /\ ck.secretUID \in Nat
  BY DEF Checkpoint
<1>2. secret[ck.secretName].rv \in Nat /\ secret'[ck.secretName].rv \in Nat
  BY <1>1 DEF TypeInv, TypeOK, Secret
<1>3. secret'[ck.secretName].rv >= secret[ck.secretName].rv
  BY <1>1, <1>2 DEF Evolves
<1> QED
  BY <1>1, <1>2, <1>3 DEF SecretSeen

\* What is achieved stays achieved: neither a credential nor a UID comes back.
LEMMA OutdatedLasts ==
    ASSUME TypeInv, TypeInv', Evolves, NEW ck \in Checkpoint, SecretSeen(ck, secret),
           Outdated(ck, alive, secret)
    PROVE  Outdated(ck, alive', secret')
<1> DEFINE n == ck.secretName
<1>1. n \in SecretNames /\ ck.secretUID \in Nat
  BY DEF Checkpoint
<1>2. secret[n].rv \in Nat /\ secret'[n].rv \in Nat
  BY <1>1 DEF TypeInv, TypeOK, Secret
<1>3. CASE ck.phase = "credentialDeleteStarted"
  BY <1>3 DEF Outdated, Evolves
<1>4. CASE ck.phase = "secretDeleteStarted"
  <2>1. secret[n].uid # ck.secretUID /\ ck.secretUID # 0 /\ ck.secretUID <= secret[n].rv
    BY <1>4 DEF Outdated, SecretSeen
  <2>2. secret'[n].uid # ck.secretUID
    BY <1>1, <1>2, <2>1 DEF Evolves
  <2> QED
    BY <1>4, <2>2 DEF Outdated
<1> QED
  BY <1>3, <1>4 DEF Outdated

\* So does what is known of an object.
LEMMA ObjectLasts ==
    ASSUME TypeInv, TypeInv', Evolves, NEW c, NEW o \in Cluster, ObjectOK(c, o, secret)
    PROVE  ObjectOK(c, o, secret')
<1>1. o.ckpt \in Checkpoint
  BY DEF Cluster
<1> QED
  BY <1>1, SeenLasts DEF ObjectOK

\* A checkpoint that was read is still there or outdated.
LEMMA ReadingLasts ==
    ASSUME FullInv, TypeInv', Evolves, KeepsCheckpoints, NEW w \in Workers
    PROVE  LET j == job[w] IN
           /\ ObjectOK(j.key, j.obs, secret')
           /\ j.obs.ckpt.phase # "none" =>
                 cluster'[j.key].ckpt = j.obs.ckpt \/ Outdated(j.obs.ckpt, alive', secret')
<1> DEFINE o == job[w].obs  c == job[w].key
<1>1. c \in Clusters /\ o \in Cluster /\ o.ckpt \in Checkpoint /\ TypeInv
  BY DEF FullInv, Inv, TypeInv, TypeOK, Job, Cluster
<1>2. /\ ObjectOK(c, o, secret)
      /\ o.ckpt.phase # "none" => cluster[c].ckpt = o.ckpt \/ Outdated(o.ckpt, alive, secret)
  BY DEF FullInv, ReadsInv, ClusterRead
<1>3. ObjectOK(c, o, secret')
  BY <1>1, <1>2, ObjectLasts
<1>4. ASSUME o.ckpt.phase # "none"
      PROVE  cluster'[c].ckpt = o.ckpt \/ Outdated(o.ckpt, alive', secret')
  <2>1. CASE cluster[c].ckpt = o.ckpt
    BY <1>1, <1>4, <2>1 DEF KeepsCheckpoints
  <2>2. CASE Outdated(o.ckpt, alive, secret)
    <3>1. SecretSeen(o.ckpt, secret)
      BY <1>2, <1>4 DEF ObjectOK
    <3> QED
      BY <1>1, <2>2, <3>1, OutdatedLasts
  <2> QED
    BY <1>2, <1>4, <2>1, <2>2
<1> QED
  BY <1>3, <1>4

\* The version of a Secret a worker has read stays what it was.
LEMMA SecretReadLasts ==
    ASSUME FullInv, TypeInv', Evolves, NEW w \in Workers, job[w].pc \notin Before,
           job'[w].obs = job[w].obs, job'[w].sec = job[w].sec
    PROVE  SecretRead(w)'
<1> DEFINE n == job[w].obs.ref
<1>1. n \in SecretNames /\ job[w].sec \in Secret
  BY DEF FullInv, Inv, TypeInv, TypeOK, Job, Cluster
<1>2. secret[n].rv \in Nat /\ secret'[n].rv \in Nat /\ job[w].sec.rv \in Nat
  BY <1>1 DEF FullInv, Inv, TypeInv, TypeOK, Secret
<1>3. /\ job[w].sec.uid <= job[w].sec.rv /\ job[w].sec.rv <= secret[n].rv
      /\ job[w].sec.rv = secret[n].rv => job[w].sec = secret[n]
  BY DEF FullInv, ReadsInv, SecretRead
<1>4. secret'[n].rv > secret[n].rv \/ secret'[n] = secret[n]
  BY <1>1 DEF Evolves
<1>5. /\ job[w].sec.rv <= secret'[n].rv
      /\ job[w].sec.rv = secret'[n].rv => job[w].sec = secret'[n]
  BY <1>2, <1>3, <1>4
<1> QED
  BY <1>3, <1>5 DEF SecretRead

\* And so does what a worker knows that is after the same as before.
LEMMA KnowledgeLasts ==
    ASSUME FullInv, TypeInv', Evolves, NEW w \in Workers,
           job'[w].obs = job[w].obs, job'[w].sec = job[w].sec, job'[w].plan = job[w].plan,
           defaultPolicy'[w] = defaultPolicy[w]
    PROVE  /\ Saving(w) => Saving(w)'
           /\ Finishing(w) => Finishing(w)'
           /\ \A phase : Resuming(w, phase) => Resuming(w, phase)'
<1> DEFINE j == job[w]  ck == job[w].obs.ckpt
<1>1. TypeInv /\ ck \in Checkpoint /\ j.plan \in Checkpoint
  BY DEF FullInv, Inv, TypeInv, TypeOK, Job, Cluster
<1>2. ck.phase # "none" => SecretSeen(ck, secret)
  BY DEF FullInv, ReadsInv, ClusterRead, ObjectOK
<1>3. ASSUME Saving(w) PROVE Saving(w)'
  <2>1. ck.cred \notin alive => ck.cred \notin alive'
    BY DEF Evolves
  <2>2. SecretSeen(j.plan, secret) => SecretSeen(j.plan, secret')
    BY <1>1, SeenLasts
  <2> QED
    BY <1>3, <2>1, <2>2 DEF Saving
<1>4. ASSUME Finishing(w) PROVE Finishing(w)'
  <2>1. ScopeOf(w)' \cap cloud' = {}
    BY <1>4 DEF Finishing, Evolves, ScopeOf, VolumesPolicyFor
  <2>2. ck.phase = "secretDeleteStarted" => Outdated(ck, alive', secret')
    BY <1>1, <1>2, <1>4, OutdatedLasts DEF Finishing
  <2> QED
    BY <1>4, <2>1, <2>2 DEF Finishing
<1> QED
  BY <1>3, <1>4 DEF Resuming

\* Whoever stands by keeps all of it.
LEMMA BystanderReads ==
    ASSUME FullInv, TypeInv', Evolves, KeepsCheckpoints, NEW w \in Workers,
           job'[w] = job[w], defaultPolicy'[w] = defaultPolicy[w]
    PROVE  ClusterRead(w)' /\ SecretRead(w)' /\ Purpose(w)'
<1> DEFINE j == job[w]  c == job[w].key
<1>1. Purpose(w)'
  <2>1. Purpose(w)
    BY DEF FullInv, ReadsInv
  <2> QED
    BY <2>1, KnowledgeLasts DEF Purpose, FirstPass
<1>2. SecretRead(w)'
  <2>1. CASE j.pc \in Before
    BY <2>1 DEF SecretRead
  <2> QED
    BY <2>1, SecretReadLasts
<1>3. ClusterRead(w)'
  <2>1. ClusterRead(w) /\ c \in Clusters /\ j.seen \in Nat /\ rv[c] \in Nat /\ rv'[c] \in Nat
    BY DEF FullInv, ReadsInv, Inv, TypeInv, TypeOK, Job
  <2>2. j.seen <= rv'[c] /\ (j.seen = rv'[c] => j.seen = rv[c] /\ cluster'[c] = cluster[c])
    BY <2>1 DEF Evolves, ClusterRead
  <2>3. cluster'[c] = cluster[c] /\ InputsUnchanged(w) => InputsUnchanged(w)'
    BY DEF InputsUnchanged, VolumesPolicyFor, SoleFinalizer
  <2> QED
    BY <2>1, <2>2, <2>3, ReadingLasts DEF ClusterRead
<1> QED
  BY <1>1, <1>2, <1>3

------------------------------------------------------------------------------
(* Stored checkpoints                                                        *)

\* A write is harmless when it keeps the checkpoint or replaces an outdated
\* one, and removes the object only without a checkpoint or with an outdated one.
LEMMA WriteKeeps ==
    ASSUME FullInv, TypeInv', Evolves, NEW c \in Clusters, NEW o \in Cluster, Write(c, o),
           o.deleting /\ o.finalizers = {} =>
               \/ cluster[c].ckpt.phase = "none"
               \/ Outdated(cluster[c].ckpt, alive, secret),
           ~(o.deleting /\ o.finalizers = {}) => ObjectOK(c, o, secret),
           \/ o.ckpt = cluster[c].ckpt
           \/ cluster[c].ckpt.phase = "none"
           \/ Outdated(cluster[c].ckpt, alive, secret)
    PROVE  KeepsCheckpoints /\ \A d \in Clusters : ObjectOK(d, cluster'[d], secret')
<1>t. /\ TypeInv /\ cluster \in [Clusters -> Cluster]
      /\ \A d \in Clusters : cluster[d].ckpt \in Checkpoint
      /\ \A d \in Clusters : ObjectOK(d, cluster[d], secret)
  BY DEF FullInv, ReadsInv, Inv, TypeInv, TypeOK, Cluster
<1>1. cluster'[c] = (IF o.deleting /\ o.finalizers = {} THEN Absent(c) ELSE o)
  BY <1>t DEF Write
<1>2. \A d \in Clusters \ {c} : cluster'[d] = cluster[d]
  BY <1>t DEF Write
<1>3. ASSUME NEW d \in Clusters PROVE ObjectOK(d, cluster'[d], secret')
  <2>1. CASE d # c
    BY <1>t, <1>2, <2>1, ObjectLasts
  <2>2. CASE d = c /\ ~(o.deleting /\ o.finalizers = {})
    BY <1>t, <1>1, <2>2, ObjectLasts
  <2>3. CASE d = c /\ o.deleting /\ o.finalizers = {}
    BY <1>1, <2>3 DEF ObjectOK, Absent, NewCluster, NoCheckpoint
  <2> QED
    BY <2>1, <2>2, <2>3
<1>4. ASSUME NEW d \in Clusters, cluster[d].ckpt.phase # "none"
      PROVE  \/ cluster'[d].ckpt = cluster[d].ckpt
             \/ Outdated(cluster[d].ckpt, alive', secret')
  <2>1. SecretSeen(cluster[d].ckpt, secret)
    BY <1>t, <1>4 DEF ObjectOK
  <2>2. CASE d # c
    BY <1>2, <2>2
  <2>3. CASE Outdated(cluster[d].ckpt, alive, secret)
    BY <1>t, <2>1, <2>3, OutdatedLasts
  <2> QED
    BY <1>1, <1>4, <2>2, <2>3
<1> QED
  BY <1>3, <1>4 DEF KeepsCheckpoints

\* Where no object is written nothing happens to the checkpoints.
LEMMA NoWriteKeeps ==
    ASSUME FullInv, TypeInv', Evolves, cluster' = cluster
    PROVE  KeepsCheckpoints /\ \A d \in Clusters : ObjectOK(d, cluster'[d], secret')
<1>1. /\ TypeInv /\ cluster \in [Clusters -> Cluster]
      /\ \A d \in Clusters : ObjectOK(d, cluster[d], secret)
  BY DEF FullInv, ReadsInv, Inv, TypeInv, TypeOK
<1>2. \A d \in Clusters : ObjectOK(d, cluster'[d], secret')
  BY <1>1, ObjectLasts
<1> QED
  BY <1>2 DEF KeepsCheckpoints

\* What a worker's patch is based on when it gets through.
LEMMA PatchBasis ==
    ASSUME FullInv, NEW w \in Workers, job[w].seen = rv[job[w].key]
    PROVE  LET j == job[w]  o == cluster[j.key] IN
           /\ AddPatch(w) => o.uid = j.obs.uid /\ ~o.deleting /\ ~o.paused
                             /\ Janitor \notin o.finalizers
           /\ SaveCheckpoint(w) => InputsUnchanged(w) /\ Saving(w)
           /\ RemoveFinalizer(w) => InputsUnchanged(w) /\ Finishing(w)
<1>1. ClusterRead(w) /\ Purpose(w)
  BY DEF FullInv, ReadsInv
<1>2. ASSUME AddPatch(w)
      PROVE  /\ cluster[job[w].key].uid = job[w].obs.uid
             /\ ~cluster[job[w].key].deleting /\ ~cluster[job[w].key].paused
             /\ Janitor \notin cluster[job[w].key].finalizers
  BY <1>1, <1>2 DEF AddPatch, ClusterRead
<1>3. ASSUME SaveCheckpoint(w) PROVE InputsUnchanged(w) /\ Saving(w)
  BY <1>1, <1>3 DEF SaveCheckpoint, ClusterRead, Purpose, GoalAt, Before
<1>4. ASSUME RemoveFinalizer(w) PROVE InputsUnchanged(w) /\ Finishing(w)
  BY <1>1, <1>4 DEF RemoveFinalizer, ClusterRead, Purpose, GoalAt, Before
<1> QED
  BY <1>2, <1>3, <1>4

\* The patches of the workers are harmless.
LEMMA PatchKeeps ==
    ASSUME FullInv, TypeInv', Evolves, NEW w \in Workers,
           AddPatch(w) \/ SaveCheckpoint(w) \/ RemoveFinalizer(w)
    PROVE  KeepsCheckpoints /\ \A d \in Clusters : ObjectOK(d, cluster'[d], secret')
<1> DEFINE j == job[w]  c == job[w].key  o == cluster[c]  ck == job[w].obs.ckpt
<1>t. /\ c \in Clusters /\ o \in Cluster /\ j.plan \in Checkpoint /\ j.obs \in Cluster
      /\ ck \in Checkpoint
      /\ ObjectOK(c, o, secret) /\ ObjectOK(c, j.obs, secret)
  BY DEF FullInv, ReadsInv, ClusterRead, Inv, TypeInv, TypeOK, Job, Cluster
<1>1. CASE UNCHANGED cluster
  BY <1>1, NoWriteKeeps
<1>2. CASE j.seen = rv[c] /\ AddPatch(w)
  <2> DEFINE new == [o EXCEPT !.finalizers = @ \cup {Janitor}]
  <2>1. ~o.deleting /\ Janitor \notin o.finalizers
    BY <1>2, PatchBasis
  <2>2. new \in Cluster /\ new.ckpt = o.ckpt /\ new.finalizers # {}
    BY <1>t DEF Cluster
  <2>3. o.ckpt.phase = "none"
    BY <1>t, <2>1 DEF ObjectOK
  <2>4. ObjectOK(c, new, secret)
    BY <1>t, <2>2, <2>3 DEF ObjectOK
  <2>5. Write(c, new)
    BY <1>2 DEF AddPatch, LockedPatch
  <2> HIDE DEF new
  <2> QED
    BY <1>t, <2>2, <2>3, <2>4, <2>5, WriteKeeps
<1>3. CASE j.seen = rv[c] /\ SaveCheckpoint(w)
  <2> DEFINE new == [o EXCEPT !.ckpt = j.plan]
  <2>1. InputsUnchanged(w) /\ Saving(w)
    BY <1>3, PatchBasis
  <2>2. /\ new \in Cluster /\ new.ckpt = j.plan /\ new.uid = o.uid
        /\ new.deleting = o.deleting /\ new.finalizers = o.finalizers
    BY <1>t DEF Cluster
  <2>3. /\ o.uid = j.obs.uid /\ o.deleting /\ o.ckpt = ck
        /\ SoleFinalizer(w) => o.finalizers = {Janitor}
    BY <2>1 DEF InputsUnchanged
  <2>4. j.obs.uid # 0
    BY <1>3 DEF FullInv, ReadsInv, ClusterRead, SaveCheckpoint
  <2>5. ObjectOK(c, new, secret) /\ (ck.phase = "none" \/ Outdated(ck, alive, secret))
    <3>1. CASE ck.phase = "none"
      <4>1. /\ j.plan.phase # "none" /\ j.plan.clusterUID = j.obs.uid
            /\ SecretSeen(j.plan, secret) /\ SoleFinalizer(w)
        BY <2>1, <3>1 DEF Saving, SoleFinalizer
      <4> QED
        BY <2>2, <2>3, <2>4, <3>1, <4>1 DEF ObjectOK
    <3>2. CASE ck.phase # "none"
      <4>1. /\ ck.phase = "credentialDeleteStarted" /\ ck.cred \notin alive
            /\ j.plan = [ck EXCEPT !.phase = "secretDeleteStarted"]
        BY <2>1, <3>2 DEF Saving
      <4>2. /\ j.plan.phase = "secretDeleteStarted" /\ j.plan.clusterUID = ck.clusterUID
            /\ j.plan.secretUID = ck.secretUID /\ j.plan.secretName = ck.secretName
        BY <1>t, <4>1 DEF Checkpoint
      <4>3. ObjectOK(c, new, secret)
        BY <1>t, <2>2, <2>3, <2>4, <3>2, <4>2 DEF ObjectOK, SecretSeen, SoleFinalizer
      <4> QED
        BY <4>1, <4>3 DEF Outdated
    <3> QED
      BY <3>1, <3>2
  <2>6. Write(c, new)
    BY <1>3 DEF SaveCheckpoint, LockedPatch
  <2>7. new.finalizers # {}
    BY <2>1, <2>2 DEF InputsUnchanged
  <2> HIDE DEF new
  <2> QED
    BY <1>t, <2>2, <2>3, <2>5, <2>6, <2>7, WriteKeeps
<1>4. CASE j.seen = rv[c] /\ RemoveFinalizer(w)
  <2> DEFINE new == [o EXCEPT !.finalizers = @ \ {Janitor}]
  <2>1. InputsUnchanged(w) /\ Finishing(w)
    BY <1>4, PatchBasis
  <2>2. /\ new \in Cluster /\ new.ckpt = o.ckpt /\ new.deleting = o.deleting
        /\ new.finalizers = o.finalizers \ {Janitor}
    BY <1>t DEF Cluster
  <2>3. o.deleting /\ o.ckpt = ck
    BY <2>1 DEF InputsUnchanged
  <2>4. ck.phase = "none" \/ Outdated(ck, alive, secret)
    BY <2>1 DEF Finishing
  <2>5. ~(new.deleting /\ new.finalizers = {}) => ObjectOK(c, new, secret)
    <3>1. ck.phase # "none" => new.finalizers = {}
      BY <1>t, <2>2, <2>3 DEF ObjectOK
    <3> QED
      BY <1>t, <2>2, <2>3, <3>1 DEF ObjectOK
  <2>6. Write(c, new)
    BY <1>4 DEF RemoveFinalizer, LockedPatch
  <2> HIDE DEF new
  <2> QED
    BY <1>t, <2>2, <2>3, <2>4, <2>5, <2>6, WriteKeeps
<1> QED
  BY <1>1, <1>2, <1>3, <1>4 DEF AddPatch, SaveCheckpoint, RemoveFinalizer, LockedPatch

\* An object with a checkpoint is beyond the edits that would matter.
LEMMA EnvironmentKeeps ==
    ASSUME FullInv, TypeInv', Evolves, NEW c \in Clusters,
           RequestDeletion(c) \/ RemoveCAPOFinalizer(c) \/ EditCluster(c) \/ CreateCluster(c)
    PROVE  KeepsCheckpoints /\ \A d \in Clusters : ObjectOK(d, cluster'[d], secret')
<1> DEFINE o == cluster[c]
<1>t. o \in Cluster /\ ObjectOK(c, o, secret) /\ o.gen + 1 \in Nat /\ rv[c] + 1 \in Nat
  BY DEF FullInv, ReadsInv, Inv, TypeInv, TypeOK, Cluster
<1>1. CASE RequestDeletion(c)
  <2> DEFINE new == [o EXCEPT !.deleting = TRUE, !.gen = @ + 1]
  <2>1. new \in Cluster /\ new.ckpt = o.ckpt
    BY <1>t DEF Cluster
  <2>2. o.ckpt.phase = "none" /\ Write(c, new)
    BY <1>t, <1>1 DEF RequestDeletion, ObjectOK
  <2>3. ObjectOK(c, new, secret)
    BY <1>t, <2>1, <2>2 DEF ObjectOK
  <2> HIDE DEF new
  <2> QED
    BY <1>t, <2>1, <2>2, <2>3, WriteKeeps
<1>2. CASE RemoveCAPOFinalizer(c)
  <2> DEFINE new == [o EXCEPT !.finalizers = @ \ {CAPO}]
  <2>1. new \in Cluster /\ new.ckpt = o.ckpt
    BY <1>t DEF Cluster
  <2>2. o.ckpt.phase = "none" /\ Write(c, new)
    BY <1>t, <1>2 DEF RemoveCAPOFinalizer, ObjectOK, Janitor, CAPO
  <2>3. ObjectOK(c, new, secret)
    BY <1>t, <2>1, <2>2 DEF ObjectOK
  <2> HIDE DEF new
  <2> QED
    BY <1>t, <2>1, <2>2, <2>3, WriteKeeps
<1>3. CASE EditCluster(c)
  <2>1. PICK new \in Cluster :
           /\ Write(c, new) /\ new.ckpt = o.ckpt /\ new.uid = o.uid
           /\ new.deleting = o.deleting /\ new.finalizers = o.finalizers
    <3> DEFINE Same(x) == /\ x \in Cluster /\ x.ckpt = o.ckpt /\ x.uid = o.uid
                          /\ x.deleting = o.deleting /\ x.finalizers = o.finalizers
    <3>1. /\ Same([o EXCEPT !.paused = ~@])
          /\ \A n \in Names : Same([o EXCEPT !.name = n])
          /\ \A p \in Policies \cup {"default"} : Same([o EXCEPT !.volumes = p])
          /\ \A n \in SecretNames : Same([o EXCEPT !.ref = n, !.gen = @ + 1])
      BY <1>t DEF Cluster
    <3>2. \/ Write(c, [o EXCEPT !.paused = ~@])
          \/ \E n \in Names : Write(c, [o EXCEPT !.name = n])
          \/ \E p \in Policies \cup {"default"} : Write(c, [o EXCEPT !.volumes = p])
          \/ \E n \in SecretNames : Write(c, [o EXCEPT !.ref = n, !.gen = @ + 1])
      BY <1>3 DEF EditCluster
    <3> QED
      BY <3>1, <3>2
  <2>2. ObjectOK(c, new, secret) /\ (new.finalizers = {} => o.ckpt.phase = "none")
    BY <1>t, <2>1 DEF ObjectOK
  <2> QED
    BY <1>t, <2>1, <2>2, WriteKeeps
<1>4. CASE CreateCluster(c)
  <2> DEFINE new == NewCluster(c, rv[c] + 1)
  <2>1. new \in Cluster
    BY <1>t, NewClusterType
  <2>2. ObjectOK(c, new, secret) /\ ~new.deleting
    BY DEF ObjectOK, NewCluster, NoCheckpoint
  <2>3. o.ckpt.phase = "none" /\ Write(c, new)
    BY <1>t, <1>4 DEF CreateCluster, Present, ObjectOK
  <2> HIDE DEF new
  <2> QED
    BY <1>t, <2>1, <2>2, <2>3, WriteKeeps
<1> QED
  BY <1>1, <1>2, <1>3, <1>4

\* Whoever acts: checkpoints are kept.
LEMMA NextKeeps ==
    ASSUME FullInv, TypeInv', [Next]_vars
    PROVE  Evolves /\ KeepsCheckpoints /\ \A d \in Clusters : ObjectOK(d, cluster'[d], secret')
<1>0. Evolves
  BY NextEvolves DEF FullInv, Inv
<1>1. CASE \E w \in Workers : AddPatch(w) \/ SaveCheckpoint(w) \/ RemoveFinalizer(w)
  BY <1>0, <1>1, PatchKeeps
<1>2. CASE \E c \in Clusters : \/ RequestDeletion(c) \/ RemoveCAPOFinalizer(c)
                               \/ EditCluster(c) \/ CreateCluster(c)
  BY <1>0, <1>2, EnvironmentKeeps
<1>3. CASE cluster' = cluster
  BY <1>0, <1>3, NoWriteKeeps
<1> QED
  <2>1. CASE \E w \in Workers : Step(w)
    BY <1>1, <1>3, <2>1 DEF Step, IsPaused, AddGet, AddIsPaused, FindSecret, NewSession,
       CleanupWaiting, CleanupComplete, ListReferences, CheckSecret, CheckCluster, CheckOwner,
       DeleteCredential, ConfirmDeletion, DeleteSecret
  <2>2. CASE ~\E w \in Workers : Step(w)
    BY <1>2, <1>3, <2>2 DEF Next, Fail, Restart, Get, PauseOwner, ReleaseSecret, EditSecret,
       Revoke, vars
  <2> QED
    BY <2>1, <2>2

------------------------------------------------------------------------------
(* The worker that moves                                                     *)

\* An idle worker has read nothing.
LEMMA IdleReads ==
    ASSUME TypeInv', NEW w \in Workers, job'[w] = Idle
    PROVE  ClusterRead(w)' /\ SecretRead(w)' /\ Purpose(w)'
<1>1. rv'[AnyCluster] \in Nat
  BY AnyClusterType DEF TypeInv, TypeOK
<1>2. /\ Idle.pc = "idle" /\ Idle.key = AnyCluster /\ Idle.obs = Absent(AnyCluster)
      /\ Idle.seen = 0 /\ Idle.goal = "none"
      /\ Absent(AnyCluster).ckpt = NoCheckpoint(AnyCluster)
      /\ NoCheckpoint(AnyCluster).phase = "none"
  BY DEF Idle, Absent, NewCluster, NoCheckpoint
<1> HIDE DEF Idle, Absent, NoCheckpoint
<1> QED
  BY <1>1, <1>2 DEF ClusterRead, SecretRead, Purpose, ObjectOK, Before

\* A move away from what was read of the cluster's latest version.
Unlocked == Stages \ {"addIsPaused", "addPatch", "checkOwner", "saveCheckpoint",
                      "removeFinalizer"}

LEMMA MoveReads ==
    ASSUME FullInv, TypeInv', Evolves, KeepsCheckpoints, NEW w \in Workers,
           job[w].pc # "idle", job'[w].pc \in Unlocked,
           job'[w].key = job[w].key, job'[w].obs = job[w].obs, job'[w].seen = job[w].seen
    PROVE  ClusterRead(w)'
<1>1. /\ ClusterRead(w) /\ job[w].key \in Clusters /\ job[w].seen \in Nat
      /\ rv[job[w].key] \in Nat /\ rv'[job[w].key] \in Nat
  BY DEF FullInv, ReadsInv, Inv, TypeInv, TypeOK, Job
<1>2. job[w].seen <= rv'[job[w].key]
  BY <1>1 DEF ClusterRead, Evolves
<1> QED
  BY <1>1, <1>2, ReadingLasts DEF ClusterRead, Unlocked

\* A worker reads the cluster again and finds it fit.
LEMMA LockReads ==
    ASSUME FullInv, TypeInv', Evolves, KeepsCheckpoints, NEW w \in Workers,
           job[w].pc # "idle", cluster' = cluster, rv' = rv,
           job'[w].key = job[w].key, job'[w].obs = job[w].obs, job'[w].sec = job[w].sec,
           job'[w].seen = rv[job[w].key], defaultPolicy' = defaultPolicy,
           \/ /\ job'[w].pc = "addIsPaused"
              /\ cluster[job[w].key].uid = job[w].obs.uid
              /\ ~cluster[job[w].key].deleting /\ ~cluster[job[w].key].paused
              /\ Janitor \notin cluster[job[w].key].finalizers
           \/ job'[w].pc = "checkOwner" /\ InputsUnchanged(w)
    PROVE  ClusterRead(w)'
<1>1. ClusterRead(w) /\ rv[job[w].key] \in Nat
  BY DEF FullInv, ReadsInv, Inv, TypeInv, TypeOK, Job
<1>2. InputsUnchanged(w) => InputsUnchanged(w)'
  BY DEF InputsUnchanged, VolumesPolicyFor, SoleFinalizer
<1> QED
  BY <1>1, <1>2, ReadingLasts DEF ClusterRead

\* It goes on to the patch after the last check.
LEMMA PatchReads ==
    ASSUME FullInv, TypeInv', Evolves, KeepsCheckpoints, NEW w \in Workers,
           cluster' = cluster, rv' = rv, defaultPolicy' = defaultPolicy,
           job'[w].key = job[w].key, job'[w].obs = job[w].obs, job'[w].sec = job[w].sec,
           job'[w].seen = job[w].seen,
           \/ job[w].pc = "addIsPaused" /\ job'[w].pc = "addPatch"
           \/ job[w].pc = "checkOwner" /\ job'[w].pc \in {"saveCheckpoint", "removeFinalizer"}
    PROVE  ClusterRead(w)'
<1>1. ClusterRead(w)
  BY DEF FullInv, ReadsInv
<1>2. InputsUnchanged(w) => InputsUnchanged(w)'
  BY DEF InputsUnchanged, VolumesPolicyFor, SoleFinalizer
<1> QED
  BY <1>1, <1>2, ReadingLasts DEF ClusterRead

\* Every step of a worker keeps its reads worth what they were.
LEMMA StepReads ==
    ASSUME FullInv, TypeInv', Evolves, KeepsCheckpoints, NEW w \in Workers, Step(w)
    PROVE  ClusterRead(w)' /\ SecretRead(w)' /\ Purpose(w)'
<1> DEFINE j == job[w]  c == job[w].key  ck == job[w].obs.ckpt  s == secret[job[w].obs.ref]
<1>t. /\ job \in [Workers -> Job] /\ j \in Job /\ c \in Clusters
      /\ j.obs \in Cluster /\ j.sec \in Secret /\ ck \in Checkpoint
      /\ s \in Secret /\ j.obs.ref \in SecretNames
  BY DEF FullInv, Inv, TypeInv, TypeOK, Job, Cluster
<1>v. /\ ClusterRead(w) /\ SecretRead(w) /\ Purpose(w) /\ WorkerInv(w)
      /\ s.uid <= s.rv
  BY <1>t DEF FullInv, ReadsInv, Inv, CheckpointInv
<1>f. defaultPolicy' = defaultPolicy
  BY StepFrame DEF FullInv, Inv
<1>r. ASSUME Return(w) PROVE ClusterRead(w)' /\ SecretRead(w)' /\ Purpose(w)'
  BY <1>r, <1>t, IdleReads DEF Return
\* The worker goes on to another stage after the same goal.
<1>g. ASSUME NEW stage \in Stages, Goto(w, stage)
      PROVE  /\ job'[w].pc = stage /\ job'[w].key = j.key /\ job'[w].obs = j.obs
             /\ job'[w].sec = j.sec /\ job'[w].seen = j.seen /\ job'[w].plan = j.plan
             /\ job'[w].goal = j.goal
  BY <1>g, <1>t DEF Goto, Job
<1>k. ASSUME NEW stage \in Stages \ Before, j.pc \notin Before,
             job'[w].pc = stage, job'[w].obs = j.obs, job'[w].sec = j.sec,
             job'[w].plan = j.plan, job'[w].goal = j.goal, j.goal # "none",
             j.goal \in GoalAt[stage]
      PROVE  SecretRead(w)' /\ Purpose(w)'
  <2>1. SecretRead(w)'
    BY <1>k, SecretReadLasts
  <2> QED
    BY <1>k, <1>v, <1>f, <2>1, KnowledgeLasts DEF Purpose
<1>1. CASE IsPaused(w) \/ AddIsPaused(w)
  <2>1. CASE \E stage \in {"findSecret", "addGet"} : j.pc = "isPaused" /\ Goto(w, stage)
    <3>1. PICK stage \in {"findSecret", "addGet"} : j.pc = "isPaused" /\ Goto(w, stage)
      BY <2>1
    <3>2. stage \in Stages \cap Unlocked \cap Before /\ j.pc \in Before /\ j.pc # "idle"
      BY <3>1 DEF Stages, Unlocked, Before
    <3>3. ClusterRead(w)'
      BY <1>g, <3>1, <3>2, MoveReads
    <3> QED
      BY <1>g, <1>v, <3>1, <3>2, <3>3 DEF SecretRead, Purpose, Before
  <2>2. CASE j.pc = "addIsPaused" /\ Goto(w, "addPatch")
    <3>1. "addPatch" \in Stages \cap Before /\ j.pc \in Before
      BY <2>2 DEF Stages, Before
    <3>2. ClusterRead(w)'
      BY <1>1, <1>g, <1>f, <2>2, <3>1, PatchReads DEF IsPaused, AddIsPaused
    <3> QED
      BY <1>g, <1>v, <2>2, <3>1, <3>2 DEF SecretRead, Purpose, Before
  <2> QED
    BY <1>1, <1>r, <2>1, <2>2 DEF IsPaused, AddIsPaused
<1>2. CASE AddGet(w)
  <2>1. CASE job' = [job EXCEPT ![w].pc = "addIsPaused", ![w].seen = rv[c]] /\ ~Return(w)
    <3>1. /\ job'[w].pc = "addIsPaused" /\ job'[w].key = j.key /\ job'[w].obs = j.obs
          /\ job'[w].sec = j.sec /\ job'[w].seen = rv[c] /\ job'[w].goal = j.goal
      BY <1>t, <2>1 DEF Job
    <3>2. ClusterRead(w)'
      BY <1>2, <1>f, <2>1, <3>1, LockReads DEF AddGet
    <3> QED
      BY <1>2, <1>v, <3>1, <3>2 DEF SecretRead, Purpose, Before, AddGet
  <2> QED
    BY <1>2, <1>r, <2>1 DEF AddGet
<1>3. CASE \/ AddPatch(w) \/ CleanupWaiting(w) \/ SaveCheckpoint(w) \/ RemoveFinalizer(w)
           \/ DeleteSecret(w)
  BY <1>3, <1>r DEF AddPatch, CleanupWaiting, SaveCheckpoint, RemoveFinalizer, DeleteSecret
<1>4. CASE FindSecret(w)
  <2> DEFINE Start(stage, goal) ==
               job' = [job EXCEPT ![w].pc = stage, ![w].goal = goal, ![w].sec = s]
  <2>0. secret' = secret /\ cloud' = cloud /\ alive' = alive /\ j.pc = "findSecret"
    BY <1>4 DEF FindSecret
  <2>1. ASSUME NEW stage \in {"newSession", "checkSecret"}, NEW goal \in Goals, Start(stage, goal)
        PROVE  /\ job'[w].pc = stage /\ job'[w].goal = goal /\ job'[w].sec = s
               /\ job'[w].obs = j.obs /\ ClusterRead(w)' /\ SecretRead(w)'
               /\ stage \in Stages \ Before
    <3>1. /\ job'[w].pc = stage /\ job'[w].key = j.key /\ job'[w].obs = j.obs
          /\ job'[w].sec = s /\ job'[w].seen = j.seen /\ job'[w].goal = goal
      BY <1>t, <2>1 DEF Job
    <3>2. ClusterRead(w)'
      BY <2>0, <3>1, MoveReads DEF Unlocked, Stages
    <3>3. SecretRead(w)'
      BY <1>t, <1>v, <2>0, <3>1 DEF SecretRead, Secret
    <3> QED
      BY <3>1, <3>2, <3>3 DEF Stages, Before
  <2>2. CASE ck.phase = "none" /\ Exists(s) /\ Start("newSession", "none")
    <3>1. FirstPass(w)'
      BY <2>1, <2>2 DEF FirstPass, Exists, Goals
    <3> QED
      BY <2>1, <2>2, <3>1 DEF Purpose, GoalAt, Before, Goals
  <2>3. CASE /\ ck.phase = "credentialDeleteStarted" /\ MayResume(w, s)
             /\ Start("newSession", "credential")
    <3>1. Resuming(w, "credentialDeleteStarted")'
      BY <2>1, <2>3 DEF Resuming, MayResume, CheckpointBinding, Goals
    <3> QED
      BY <2>1, <2>3, <3>1 DEF Purpose, GoalAt, Before, Goals
  <2>4. CASE /\ ck.phase = "secretDeleteStarted" /\ MayResume(w, s) /\ ~Exists(s)
             /\ Start("checkSecret", "finish")
    <3>1. ck.secretName = j.obs.ref /\ j.obs.name = ck.clusterName
          /\ VolumesPolicyFor(w, j.obs) = ck.volumes
      BY <2>4 DEF MayResume, CheckpointBinding
    <3>2. InScope(ck.clusterName, ck.volumes) \cap cloud = {}
      BY <1>v, <2>4 DEF WorkerInv, Testifies
    <3>3. Outdated(ck, alive, secret)
      <4>1. SecretSeen(ck, secret)
        BY <1>v, <2>4 DEF ClusterRead, ObjectOK
      <4> QED
        BY <2>4, <3>1, <4>1 DEF SecretSeen, Outdated, Exists
    <3>4. Finishing(w)'
      BY <1>f, <2>0, <2>1, <2>4, <3>1, <3>2, <3>3
      DEF Finishing, ScopeOf, VolumesPolicyFor, Goals
    <3> QED
      BY <2>1, <2>4, <3>4 DEF Purpose, GoalAt, Before, Goals
  <2>5. CASE /\ ck.phase = "secretDeleteStarted" /\ MayResume(w, s) /\ Exists(s)
             /\ Start("checkSecret", "secret")
    <3>1. Resuming(w, "secretDeleteStarted")'
      BY <2>1, <2>5 DEF Resuming, MayResume, CheckpointBinding, Goals
    <3> QED
      BY <2>1, <2>5, <3>1 DEF Purpose, GoalAt, Before, Goals
  <2> QED
    BY <1>4, <1>r, <2>2, <2>3, <2>4, <2>5 DEF FindSecret
<1>5. CASE NewSession(w)
  <2>0. j.pc = "newSession" /\ j.pc \notin Before /\ j.goal \in {"none", "credential"}
    BY <1>5, <1>v DEF NewSession, Purpose, GoalAt, Before
  <2>1. CASE j.goal = "credential" /\ Goto(w, "checkSecret")
    <3>1. ClusterRead(w)'
      BY <1>g, <2>0, <2>1, MoveReads DEF Unlocked, Stages
    <3>2. SecretRead(w)' /\ Purpose(w)'
      BY <1>g, <1>k, <2>0, <2>1 DEF Stages, Before, GoalAt, Goals
    <3> QED
      BY <3>1, <3>2
  <2>2. CASE j.goal = "none" /\ Goto(w, "cleanup")
    <3>0. "cleanup" \in Stages
      BY DEF Stages
    <3>1. ClusterRead(w)'
      BY <1>g, <2>0, <2>2, <3>0, MoveReads DEF Unlocked
    <3>2. SecretRead(w)'
      BY <1>g, <2>0, <2>2, <3>0, SecretReadLasts
    <3>3. FirstPass(w)'
      BY <1>g, <1>v, <2>0, <2>2, <3>0 DEF FirstPass, Purpose
    <3> QED
      BY <1>g, <2>2, <3>0, <3>1, <3>2, <3>3 DEF Purpose, GoalAt, Before
  <2> QED
    BY <1>5, <1>r, <2>0, <2>1, <2>2 DEF NewSession
<1>6. CASE CleanupComplete(w)
  <2>0. /\ j.pc = "cleanup" /\ j.pc \notin Before /\ j.goal = "none" /\ FirstPass(w)
        /\ ScopeOf(w) \cap cloud = {} /\ cloud' = cloud
    BY <1>6, <1>v DEF CleanupComplete, NothingLeft, Purpose, GoalAt, Before
  <2>1. CASE j.sec.policy = "delete" /\ Goto(w, "listReferences")
    <3>0. "listReferences" \in Stages
      BY DEF Stages
    <3>1. ClusterRead(w)'
      BY <1>g, <2>0, <2>1, <3>0, MoveReads DEF Unlocked
    <3>2. SecretRead(w)'
      BY <1>g, <2>0, <2>1, <3>0, SecretReadLasts
    <3>3. FirstPass(w)'
      BY <1>g, <2>0, <2>1, <3>0 DEF FirstPass
    <3> QED
      BY <1>g, <2>0, <2>1, <3>0, <3>1, <3>2, <3>3 DEF Purpose, GoalAt, Before
  <2>2. CASE job' = [job EXCEPT ![w].pc = "checkSecret", ![w].goal = "finish"]
    <3>0. /\ job'[w].pc = "checkSecret" /\ job'[w].key = j.key /\ job'[w].obs = j.obs
          /\ job'[w].sec = j.sec /\ job'[w].seen = j.seen /\ job'[w].goal = "finish"
      BY <1>t, <2>2 DEF Job
    <3>1. ClusterRead(w)'
      BY <2>0, <3>0, MoveReads DEF Unlocked, Stages
    <3>2. SecretRead(w)'
      BY <2>0, <3>0, SecretReadLasts
    <3>3. Finishing(w)'
      BY <1>f, <2>0, <3>0 DEF Finishing, FirstPass, ScopeOf, VolumesPolicyFor
    <3> QED
      BY <3>0, <3>1, <3>2, <3>3 DEF Purpose, GoalAt, Before, Goals
  <2> QED
    BY <1>6, <2>1, <2>2 DEF CleanupComplete
<1>7. CASE ListReferences(w)
  <2> DEFINE Check(goal, plan) ==
               job' = [job EXCEPT ![w].pc = "checkSecret", ![w].goal = goal, ![w].plan = plan]
  <2>0. /\ j.pc = "listReferences" /\ j.pc \notin Before
        /\ secret' = secret /\ cloud' = cloud /\ alive' = alive
    BY <1>7 DEF ListReferences, Before
  <2>1. ASSUME NEW goal, NEW plan, Check(goal, plan)
        PROVE  /\ job'[w].pc = "checkSecret" /\ job'[w].obs = j.obs
               /\ job'[w].sec = j.sec /\ job'[w].goal = goal /\ job'[w].plan = plan
               /\ ClusterRead(w)' /\ SecretRead(w)'
    <3>0. /\ job'[w].pc = "checkSecret" /\ job'[w].key = j.key /\ job'[w].obs = j.obs
          /\ job'[w].sec = j.sec /\ job'[w].seen = j.seen /\ job'[w].goal = goal
          /\ job'[w].plan = plan
      BY <1>t, <2>1 DEF Job
    <3>1. ClusterRead(w)'
      BY <2>0, <3>0, MoveReads DEF Unlocked, Stages
    <3>2. SecretRead(w)'
      BY <2>0, <3>0, SecretReadLasts
    <3> QED
      BY <3>0, <3>1, <3>2
  <2>2. ASSUME j.goal = "none"
        PROVE  FirstPass(w) /\ j.sec.policy = "delete" /\ ScopeOf(w) \cap cloud = {}
    BY <1>v, <2>0, <2>2 DEF Purpose, FirstPass, WorkerInv
  <2> HIDE DEF Check
  <2>3. CASE j.goal = "none" /\ Check("finish", j.plan)
    <3>0. /\ job'[w].pc = "checkSecret" /\ job'[w].obs = j.obs
          /\ job'[w].goal = "finish" /\ ClusterRead(w)' /\ SecretRead(w)'
      BY <2>1, <2>3
    <3>1. Finishing(w)'
      BY <1>f, <2>0, <2>2, <2>3, <3>0 DEF Finishing, FirstPass, ScopeOf, VolumesPolicyFor
    <3> QED
      BY <3>0, <3>1 DEF Purpose, GoalAt, Before, Goals
  <2>4. CASE j.goal = "none" /\ Check("save", FirstCheckpoint(w))
    <3> DEFINE plan == FirstCheckpoint(w)
    <3>0. /\ job'[w].pc = "checkSecret" /\ job'[w].obs = j.obs /\ job'[w].sec = j.sec
          /\ job'[w].goal = "save" /\ job'[w].plan = plan
          /\ ClusterRead(w)' /\ SecretRead(w)'
      BY <2>1, <2>4
    <3>1. /\ plan.phase = "credentialDeleteStarted" /\ plan.clusterUID = j.obs.uid
          /\ plan.secretUID = j.sec.uid /\ plan.secretName = j.obs.ref
      BY DEF FirstCheckpoint
    <3>2. j.sec.uid # 0 /\ j.sec.uid <= s.rv
      BY <1>t, <1>v, <2>0, <2>2, <2>4 DEF FirstPass, SecretRead, Secret
    <3>3. SecretSeen(plan, secret)
      BY <3>1, <3>2 DEF SecretSeen
    <3> HIDE DEF plan
    <3>4. Saving(w)'
      BY <2>0, <2>2, <2>4, <3>0, <3>1, <3>3 DEF Saving, FirstPass
    <3> QED
      BY <3>0, <3>4 DEF Purpose, GoalAt, Before, Goals
  <2> USE DEF Check
  <2>5. CASE \/ j.goal = "credential" /\ Goto(w, "deleteCredential")
             \/ j.goal = "secret" /\ Goto(w, "deleteSecret")
    <3>0. {"deleteCredential", "deleteSecret"} \subseteq Stages \cap Unlocked
      BY DEF Stages, Unlocked
    <3>1. ClusterRead(w)'
      BY <1>g, <2>0, <2>5, <3>0, MoveReads
    <3>2. SecretRead(w)' /\ Purpose(w)'
      BY <1>g, <1>k, <2>0, <2>5, <3>0 DEF Before, GoalAt
    <3> QED
      BY <3>1, <3>2
  <2> QED
    BY <1>7, <1>r, <2>3, <2>4, <2>5 DEF ListReferences
<1>8. CASE CheckSecret(w)
  <2>1. CASE Goto(w, "checkCluster")
    <3>0. /\ "checkCluster" \in Stages \cap Unlocked /\ j.pc = "checkSecret"
          /\ j.pc \notin Before /\ j.goal # "none" /\ j.goal \in Goals
      BY <1>8, <1>v DEF Stages, Unlocked, CheckSecret, Before, Purpose, GoalAt
    <3>1. ClusterRead(w)'
      BY <1>g, <2>1, <3>0, MoveReads
    <3>2. SecretRead(w)' /\ Purpose(w)'
      BY <1>g, <1>k, <2>1, <3>0 DEF Before, GoalAt
    <3> QED
      BY <3>1, <3>2
  <2> QED
    BY <1>8, <1>r, <2>1 DEF CheckSecret
<1>9. CASE CheckCluster(w)
  <2>1. CASE /\ InputsUnchanged(w)
             /\ job' = [job EXCEPT ![w].pc = "checkOwner", ![w].seen = rv[c]]
    <3>0. /\ job'[w].pc = "checkOwner" /\ job'[w].key = j.key /\ job'[w].obs = j.obs
          /\ job'[w].sec = j.sec /\ job'[w].seen = rv[c] /\ job'[w].goal = j.goal
          /\ job'[w].plan = j.plan
      BY <1>t, <2>1 DEF Job
    <3>1. j.pc \notin Before /\ j.goal # "none" /\ j.goal \in Goals
      BY <1>9, <1>v DEF CheckCluster, Before, Purpose, GoalAt
    <3>2. ClusterRead(w)'
      BY <1>9, <1>f, <2>1, <3>0, LockReads DEF CheckCluster
    <3>3. SecretRead(w)' /\ Purpose(w)'
      BY <1>k, <3>0, <3>1 DEF Stages, Before, GoalAt
    <3> QED
      BY <3>2, <3>3
  <2> QED
    BY <1>9, <1>r, <2>1 DEF CheckCluster
<1>10. CASE CheckOwner(w)
  <2>1. CASE Goto(w, AfterCheck[j.goal])
    <3> DEFINE stage == AfterCheck[j.goal]
    <3>0. j.pc = "checkOwner" /\ j.pc \notin Before /\ j.goal \in Goals \ {"none"}
      BY <1>10, <1>v DEF CheckOwner, Before, Purpose, GoalAt
    <3>1. /\ stage \in {"saveCheckpoint", "removeFinalizer", "listReferences"}
          /\ stage \in Stages \ Before /\ j.goal \in GoalAt[stage]
      BY <3>0 DEF AfterCheck, Goals, Stages, Before, GoalAt
    <3> HIDE DEF stage
    <3>2. ClusterRead(w)'
      <4>1. CASE stage = "listReferences"
        BY <1>g, <2>1, <3>0, <3>1, <4>1, MoveReads DEF stage, Unlocked, Stages
      <4>2. CASE stage # "listReferences"
        BY <1>g, <1>f, <1>10, <2>1, <3>0, <3>1, <4>2, PatchReads DEF stage, CheckOwner
      <4> QED
        BY <4>1, <4>2
    <3>3. SecretRead(w)' /\ Purpose(w)'
      BY <1>g, <1>k, <2>1, <3>0, <3>1 DEF stage
    <3> QED
      BY <3>2, <3>3
  <2> QED
    BY <1>10, <1>r, <2>1 DEF CheckOwner
<1>11. CASE DeleteCredential(w)
  <2>0. /\ "confirmDeletion" \in Stages \cap Unlocked /\ j.pc = "deleteCredential"
        /\ j.pc \notin Before /\ j.goal = "credential" /\ Goto(w, "confirmDeletion")
    BY <1>11, <1>v DEF DeleteCredential, Stages, Unlocked, Before, Purpose, GoalAt
  <2>1. ClusterRead(w)'
    BY <1>g, <2>0, MoveReads
  <2>2. SecretRead(w)' /\ Purpose(w)'
    BY <1>g, <1>k, <2>0 DEF Before, GoalAt
  <2> QED
    BY <2>1, <2>2
<1>12. CASE ConfirmDeletion(w)
  <2> DEFINE plan == [ck EXCEPT !.phase = "secretDeleteStarted"]
  <2>0. /\ job'[w].pc = "checkSecret" /\ job'[w].key = j.key /\ job'[w].obs = j.obs
        /\ job'[w].sec = j.sec /\ job'[w].seen = j.seen /\ job'[w].goal = "save"
        /\ job'[w].plan = plan
    BY <1>12, <1>t DEF ConfirmDeletion, Job
  <2>1. /\ j.pc = "confirmDeletion" /\ j.pc \notin Before
        /\ Resuming(w, "credentialDeleteStarted") /\ alive' = alive
    BY <1>12, <1>v DEF ConfirmDeletion, Before, Purpose, GoalAt
  <2>2. ClusterRead(w)'
    BY <2>0, <2>1, MoveReads DEF Unlocked, Stages
  <2>3. SecretRead(w)'
    BY <2>0, <2>1, SecretReadLasts
  <2>4. Saving(w)'
    <3>1. ck.cred \notin alive /\ ck.phase = "credentialDeleteStarted"
      BY <1>v, <2>1 DEF WorkerInv, Resuming
    <3> QED
      BY <2>0, <2>1, <3>1 DEF Saving
  <2> QED
    BY <2>0, <2>2, <2>3, <2>4 DEF Purpose, GoalAt, Before, Goals
<1> QED
  BY <1>1, <1>2, <1>3, <1>4, <1>5, <1>6, <1>7, <1>8, <1>9, <1>10, <1>11, <1>12 DEF Step

------------------------------------------------------------------------------
(* The invariant holds                                                       *)

LEMMA ReadsInductive == FullInv /\ [Next]_vars => ReadsInv'
<1> SUFFICES ASSUME FullInv, [Next]_vars PROVE ReadsInv'
  OBVIOUS
<1>t. TypeInv /\ TypeInv'
  BY TypeInductive DEF FullInv, Inv
<1>k. Evolves /\ KeepsCheckpoints /\ \A d \in Clusters : ObjectOK(d, cluster'[d], secret')
  BY <1>t, NextKeeps
<1>s. \A n \in SecretNames : secret'[n].uid <= secret'[n].rv
  <2> SUFFICES ASSUME NEW n \in SecretNames PROVE secret'[n].uid <= secret'[n].rv
    OBVIOUS
  <2>1. /\ secret[n].uid <= secret[n].rv /\ secret[n] \in Secret /\ secret'[n] \in Secret
        /\ secret'[n].rv > secret[n].rv \/ secret'[n] = secret[n]
        /\ secret'[n].uid \in {0, secret[n].uid, secret'[n].rv}
    BY <1>t, <1>k DEF FullInv, ReadsInv, Evolves, TypeInv, TypeOK
  <2> QED
    BY <2>1 DEF Secret
<1>b. ASSUME NEW v \in Workers, job'[v] = job[v], defaultPolicy'[v] = defaultPolicy[v]
      PROVE  ClusterRead(v)' /\ SecretRead(v)' /\ Purpose(v)'
  BY <1>b, <1>t, <1>k, BystanderReads
<1> SUFFICES ASSUME NEW v \in Workers
             PROVE  ClusterRead(v)' /\ SecretRead(v)' /\ Purpose(v)'
  BY <1>k, <1>s DEF ReadsInv
<1>1. CASE \E w \in Workers : Step(w)
  <2> PICK w \in Workers : Step(w)
    BY <1>1
  <2>1. CASE v = w
    BY <2>1, <1>t, <1>k, StepReads
  <2>2. CASE v # w
    BY <2>2, <1>t, <1>b, StepFrame
  <2> QED
    BY <2>1, <2>2
<1>2. CASE \E w \in Workers : Fail(w) \/ Restart(w)
  <2> PICK w \in Workers : Fail(w) \/ Restart(w)
    BY <1>2
  <2>1. CASE v = w
    BY <2>1, <1>t, IdleReads DEF Fail, Restart, Return, TypeInv, TypeOK
  <2>2. CASE v # w
    BY <2>2, <1>t, <1>b DEF Fail, Restart, Return, TypeInv, TypeOK
  <2> QED
    BY <2>1, <2>2
<1>3. CASE \E w \in Workers, c \in Clusters : Get(w, c)
  <2> PICK w \in Workers, c \in Clusters : Get(w, c)
    BY <1>3
  <2>1. CASE v = w
    <3>1. /\ job'[w].pc = "isPaused" /\ job'[w].key = c /\ job'[w].obs = cluster[c]
          /\ job'[w].seen = 0 /\ job'[w].goal = "none" /\ cluster' = cluster
          /\ cluster[c].uid # 0
      BY <1>t DEF Get, Idle, TypeInv, TypeOK, Present
    <3>2. rv'[c] \in Nat /\ ObjectOK(c, cluster[c], secret')
      BY <1>t, <1>k, <3>1 DEF TypeInv, TypeOK
    <3> QED
      BY <2>1, <3>1, <3>2 DEF ClusterRead, SecretRead, Purpose, Before
  <2>2. CASE v # w
    BY <2>2, <1>t, <1>b DEF Get, TypeInv, TypeOK
  <2> QED
    BY <2>1, <2>2
<1>4. CASE \/ \E c \in Clusters : \/ RequestDeletion(c) \/ RemoveCAPOFinalizer(c)
                                  \/ EditCluster(c) \/ CreateCluster(c) \/ PauseOwner(c)
           \/ \E n \in SecretNames : ReleaseSecret(n) \/ EditSecret(n)
           \/ \E k \in Credentials : Revoke(k)
           \/ UNCHANGED vars
  <2>1. UNCHANGED <<job, defaultPolicy>>
    BY <1>4 DEF RequestDeletion, RemoveCAPOFinalizer, EditCluster, CreateCluster, PauseOwner,
       ReleaseSecret, EditSecret, Revoke, vars
  <2> QED
    BY <2>1, <1>b
<1> QED
  BY <1>1, <1>2, <1>3, <1>4 DEF Next

\* At the start nothing has been read.
LEMMA InitReads == Init => ReadsInv
<1> SUFFICES ASSUME Init PROVE ReadsInv
  OBVIOUS
<1>1. \A c \in Clusters : ObjectOK(c, cluster[c], secret)
  BY DEF Init, ObjectOK, NewCluster, NoCheckpoint
<1>2. \A n \in SecretNames : secret[n].uid <= secret[n].rv
  BY DEF Init
<1>3. ASSUME NEW w \in Workers PROVE ClusterRead(w) /\ SecretRead(w) /\ Purpose(w)
  <2>1. job[w] = Idle /\ rv[AnyCluster] = 1
    BY AnyClusterType DEF Init
  <2>2. /\ Idle.pc = "idle" /\ Idle.key = AnyCluster /\ Idle.obs = Absent(AnyCluster)
        /\ Idle.seen = 0 /\ Idle.goal = "none"
        /\ Absent(AnyCluster).ckpt = NoCheckpoint(AnyCluster)
        /\ NoCheckpoint(AnyCluster).phase = "none"
    BY DEF Idle, Absent, NewCluster, NoCheckpoint
  <2> HIDE DEF Idle, Absent, NoCheckpoint
  <2> QED
    BY <2>1, <2>2 DEF ClusterRead, SecretRead, Purpose, ObjectOK, Before
<1> QED
  BY <1>1, <1>2, <1>3 DEF ReadsInv

\* What every worker has read keeps its worth: a version it has locked is as
\* it was, a checkpoint it acts on is still stored or has served its purpose,
\* and its goal is the one that its reads allow (reconcileDelete,
\* resumeCredentialCleanup, checkCleanupInputs).
THEOREM ReadsHold == Spec => []FullInv
<1>1. Init => FullInv
  BY InitInv, InitReads DEF FullInv
<1>2. FullInv /\ [Next]_vars => FullInv'
  BY TypeInductive, CheckpointInductive, ReadsInductive DEF FullInv, Inv
<1> QED
  BY <1>1, <1>2, PTL DEF Spec

------------------------------------------------------------------------------
(* What the steps of a worker may do                                         *)

\* Only the worker itself moves, and only its own patch goes by its name.
LEMMA PatchesIsPatch ==
    ASSUME FullInv, [Next]_vars, NEW w \in Workers, Patches(w)
    PROVE  /\ job[w].seen = rv[job[w].key]
           /\ job[w].pc = "addPatch" => AddPatch(w)
           /\ job[w].pc = "saveCheckpoint" => SaveCheckpoint(w)
           /\ job[w].pc = "removeFinalizer" => RemoveFinalizer(w)
<1>1. AddPatch(w) \/ SaveCheckpoint(w) \/ RemoveFinalizer(w)
  <2>1. job'[w] # job[w] /\ rv' # rv
    BY DEF Patches
  <2>2. CASE \E v \in Workers : Step(v)
    <3> PICK v \in Workers : Step(v)
      BY <2>2
    <3>1. v = w
      BY <2>1, StepFrame DEF FullInv, Inv
    <3> QED
      BY <2>1, <3>1 DEF Step, IsPaused, AddGet, AddIsPaused, FindSecret, NewSession,
         CleanupWaiting, CleanupComplete, ListReferences, CheckSecret, CheckCluster,
         CheckOwner, DeleteCredential, ConfirmDeletion, DeleteSecret
  <2>3. CASE ~\E v \in Workers : Step(v)
    BY <2>1, <2>3 DEF Next, Fail, Restart, Get, RequestDeletion, RemoveCAPOFinalizer,
       EditCluster, CreateCluster, PauseOwner, ReleaseSecret, EditSecret, Revoke, vars
  <2> QED
    BY <2>2, <2>3
<1>2. job[w].seen = rv[job[w].key]
  BY <1>1 DEF Patches, AddPatch, SaveCheckpoint, RemoveFinalizer, LockedPatch
<1> QED
  BY <1>1, <1>2 DEF AddPatch, SaveCheckpoint, RemoveFinalizer

\* Only the worker's own DELETE takes its Secret away under it.
LEMMA RemovesSecretIsDelete ==
    ASSUME FullInv, [Next]_vars, NEW w \in Workers, RemovesSecret(w)
    PROVE  DeleteSecret(w) /\ SecretPreconditions(w)
<1>1. job'[w] # job[w] /\ secret' # secret
  BY DEF RemovesSecret
<1>2. DeleteSecret(w)
  <2>1. CASE \E v \in Workers : Step(v)
    <3> PICK v \in Workers : Step(v)
      BY <2>1
    <3>1. v = w
      BY <1>1, StepFrame DEF FullInv, Inv
    <3> QED
      BY <1>1, <3>1 DEF Step, IsPaused, AddGet, AddIsPaused, AddPatch, FindSecret, NewSession,
         CleanupWaiting, CleanupComplete, ListReferences, CheckSecret, CheckCluster,
         CheckOwner, SaveCheckpoint, RemoveFinalizer, DeleteCredential, ConfirmDeletion
  <2>2. CASE ~\E v \in Workers : Step(v)
    BY <1>1, <2>2 DEF Next, Fail, Restart, Get, RequestDeletion, RemoveCAPOFinalizer,
       EditCluster, CreateCluster, PauseOwner, ReleaseSecret, EditSecret, Revoke, vars
  <2> QED
    BY <2>1, <2>2
<1> QED
  BY <1>1, <1>2 DEF DeleteSecret

\* The checkpoint a worker is about to act on is the stored one.
LEMMA StoredCheckpoint ==
    ASSUME FullInv, NEW w \in Workers, NEW phase \in Phases \ {"none"},
           Resuming(w, phase), ~Outdated(job[w].obs.ckpt, alive, secret)
    PROVE  LET o == cluster[job[w].key] IN
           /\ o.ckpt = job[w].obs.ckpt /\ o.ckpt.phase = phase
           /\ o.ckpt.clusterUID = o.uid /\ o.uid # 0
           /\ o.deleting /\ o.finalizers = {Janitor}
           /\ Testifies(o.ckpt, cloud, alive)
<1> DEFINE c == job[w].key  o == cluster[c]
<1>1. c \in Clusters
  BY DEF FullInv, Inv, TypeInv, TypeOK, Job
<1>2. o.ckpt = job[w].obs.ckpt /\ o.ckpt.phase = phase
  BY DEF FullInv, ReadsInv, ClusterRead, Resuming
<1>3. ObjectOK(c, o, secret) /\ Testifies(o.ckpt, cloud, alive)
  BY <1>1 DEF FullInv, ReadsInv, Inv, CheckpointInv
<1> QED
  BY <1>2, <1>3 DEF ObjectOK

\* What a worker that destroys a live credential knows.
LEMMA DestroysStored ==
    ASSUME FullInv, NEW w \in Workers, Destroys(w)
    PROVE  /\ Resuming(w, "credentialDeleteStarted")
           /\ ~Outdated(job[w].obs.ckpt, alive, secret)
<1>1. Purpose(w)
  BY DEF FullInv, ReadsInv
<1>2. Resuming(w, "credentialDeleteStarted")
  BY <1>1 DEF Destroys, Purpose, Before, GoalAt
<1> QED
  BY <1>2 DEF Destroys, Resuming, Outdated

\* And one that deletes its Secret.
LEMMA RemovesStored ==
    ASSUME FullInv, NEW w \in Workers, job[w].pc = "deleteSecret", SecretPreconditions(w)
    PROVE  /\ Resuming(w, "secretDeleteStarted") /\ job[w].sec = secret[job[w].obs.ref]
           /\ ~Outdated(job[w].obs.ckpt, alive, secret)
<1>1. Purpose(w) /\ SecretRead(w)
  BY DEF FullInv, ReadsInv
<1>2. Resuming(w, "secretDeleteStarted")
  BY <1>1 DEF Purpose, Before, GoalAt
<1>3. job[w].sec = secret[job[w].obs.ref]
  BY <1>1 DEF SecretRead, SecretPreconditions, Before
<1> QED
  BY <1>2, <1>3 DEF Resuming, Outdated

\* The finalizer goes only from a clean cluster, and never in the middle of the
\* deletion of a credential (finishCleanup), whatever happened since the reads.
THEOREM ReleaseIsClean == Spec => ReleasedClean
<1>1. FullInv /\ [Next]_vars => [\A w \in Workers : ReleasesClean(w)]_vars
  <2> SUFFICES ASSUME FullInv, [Next]_vars, NEW w \in Workers, Patches(w),
                      job[w].pc = "removeFinalizer"
               PROVE  ReleasesClean(w)
    BY DEF ReleasesClean
  <2> DEFINE o == cluster[job[w].key]  ck == o.ckpt
  <2>1. InputsUnchanged(w) /\ Finishing(w)
    BY PatchesIsPatch, PatchBasis
  <2>2. o.uid = job[w].obs.uid /\ o.deleting /\ ck = job[w].obs.ckpt
    BY <2>1 DEF InputsUnchanged
  <2>3. InScope(o.name, VolumesPolicyFor(w, o)) \cap cloud = {}
    BY <2>1 DEF InputsUnchanged, Finishing, ScopeOf
  <2>4. \/ ck.phase = "none"
        \/ /\ ck.phase = "secretDeleteStarted"
           /\ secret[ck.secretName].uid # ck.secretUID
    BY <2>1, <2>2 DEF Finishing, Outdated
  <2>5. Testifies(ck, cloud, alive)
    BY DEF FullInv, Inv, CheckpointInv, TypeInv, TypeOK, Job
  <2> QED
    BY <2>2, <2>3, <2>4, <2>5 DEF ReleasesClean, Testifies
<1> QED
  BY <1>1, ReadsHold, PTL DEF ReleasedClean, Spec

\* A live credential dies only under a stored checkpoint that names it, with
\* everything the checkpoint vouches for gone (deleteApplicationCredential).
THEOREM DestructionIsRecorded == Spec => CredentialDestroyedUnderCheckpoint
<1>1. FullInv /\ [Next]_vars => [\A w \in Workers : DestroysUnderCheckpoint(w)]_vars
  <2> SUFFICES ASSUME FullInv, NEW w \in Workers, Destroys(w) PROVE DestroysUnderCheckpoint(w)
    BY DEF DestroysUnderCheckpoint
  <2>1. /\ Resuming(w, "credentialDeleteStarted")
        /\ ~Outdated(job[w].obs.ckpt, alive, secret)
    BY DestroysStored
  <2> QED
    BY <2>1, StoredCheckpoint DEF DestroysUnderCheckpoint, Resuming, Testifies, Phases
<1> QED
  BY <1>1, ReadsHold, PTL DEF CredentialDestroyedUnderCheckpoint, Spec

\* The Secret that is deleted is the recorded one and holds a dead credential.
THEOREM DeletedSecretIsDead == Spec => SecretDestroyedDead
<1>1. FullInv /\ [Next]_vars => [\A w \in Workers : RemovesDeadSecret(w)]_vars
  <2> SUFFICES ASSUME FullInv, [Next]_vars, NEW w \in Workers, RemovesSecret(w)
               PROVE  RemovesDeadSecret(w)
    BY DEF RemovesDeadSecret
  <2>1. /\ Resuming(w, "secretDeleteStarted") /\ job[w].sec = secret[job[w].obs.ref]
        /\ ~Outdated(job[w].obs.ckpt, alive, secret)
    BY RemovesSecretIsDelete, RemovesStored DEF DeleteSecret
  <2> QED
    BY <2>1, StoredCheckpoint DEF RemovesDeadSecret, Resuming, Testifies, Phases
<1> QED
  BY <1>1, ReadsHold, PTL DEF SecretDestroyedDead, Spec

\* No patch reaches a paused object or one that has replaced the one that was
\* read (the optimistic lock of addFinalizer, saveCredentialCheckpoint and
\* finishCleanup).
THEOREM PatchesAreCurrent == Spec => PatchesRespectPauseAndIdentity
<1>1. FullInv /\ [Next]_vars => [\A w \in Workers : PatchesUnpausedOriginal(w)]_vars
  <2> SUFFICES ASSUME FullInv, [Next]_vars, NEW w \in Workers, Patches(w)
               PROVE  PatchesUnpausedOriginal(w)
    BY DEF PatchesUnpausedOriginal
  <2>1. \/ AddPatch(w)
        \/ (SaveCheckpoint(w) \/ RemoveFinalizer(w)) /\ InputsUnchanged(w)
    BY PatchesIsPatch, PatchBasis DEF Patches
  <2> QED
    BY <2>1, PatchesIsPatch, PatchBasis DEF PatchesUnpausedOriginal, InputsUnchanged
<1> QED
  BY <1>1, ReadsHold, PTL DEF PatchesRespectPauseAndIdentity, Spec
==============================================================================
