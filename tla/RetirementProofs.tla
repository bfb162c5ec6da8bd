--------------------------- MODULE RetirementProofs ---------------------------
(***************************************************************************)
(* CredentialCleanup over time: checkpoints only advance, what is destroyed *)
(* is shared with nobody, and the whole of it implements                    *)
(* CredentialRetirement.                                                    *)
(***************************************************************************)
EXTENDS HandoverProofs

------------------------------------------------------------------------------
(* Who writes an OpenStackCluster                                            *)

\* A write by a user, CAPI or CAPO: it keeps what the Janitor recorded.
OtherWrite(c, o) ==
    /\ Present(c) /\ Write(c, o)
    /\ o.uid = cluster[c].uid /\ o.ckpt = cluster[c].ckpt
    /\ Janitor \in o.finalizers <=> Janitor \in cluster[c].finalizers
    /\ o.ref = cluster[c].ref \/ MayRefer(o.ref)
    /\ UNCHANGED <<cloud, alive>>

\* A worker's patch that gets through, with all that is known of its object.
Guards(w) ==
    LET c == job[w].key  o == cluster[job[w].key] IN
    /\ Present(c) /\ ~o.deleting /\ Janitor \notin o.finalizers
    /\ Write(c, [o EXCEPT !.finalizers = @ \cup {Janitor}])
    /\ UNCHANGED <<cloud, alive>>

Records(w) ==
    LET c == job[w].key  o == cluster[job[w].key] IN
    /\ Present(c) /\ Janitor \in o.finalizers /\ o.uid = job[w].obs.uid
    /\ o.ckpt = job[w].obs.ckpt /\ Saving(w) /\ Testifies(job[w].plan, cloud, alive)
    /\ Write(c, [o EXCEPT !.ckpt = job[w].plan])
    /\ UNCHANGED <<cloud, alive>>

Releases(w) ==
    LET c == job[w].key  o == cluster[job[w].key] IN
    /\ Present(c) /\ o.deleting /\ Janitor \in o.finalizers
    /\ o.ckpt = job[w].obs.ckpt /\ Finishing(w)
    /\ Write(c, [o EXCEPT !.finalizers = @ \ {Janitor}])
    /\ UNCHANGED <<cloud, alive>>

\* An edit is such a write.
LEMMA EditIsOtherWrite ==
    ASSUME FullInv, NEW c \in Clusters, EditCluster(c)
    PROVE  \E o \in Cluster : OtherWrite(c, o)
<1> DEFINE old == cluster[c]
           Same(x) == /\ x \in Cluster /\ x.ckpt = old.ckpt /\ x.uid = old.uid
                      /\ x.finalizers = old.finalizers
<1>1. old \in Cluster /\ old.gen + 1 \in Nat
  BY DEF FullInv, Inv, TypeInv, TypeOK, Cluster
<1>2. \/ Write(c, [old EXCEPT !.paused = ~@])
      \/ \E n \in Names : Write(c, [old EXCEPT !.name = n])
      \/ \E p \in Policies \cup {"default"} : Write(c, [old EXCEPT !.volumes = p])
      \/ \E n \in SecretNames : MayRefer(n) /\ Write(c, [old EXCEPT !.ref = n, !.gen = @ + 1])
  BY DEF EditCluster
<1>3. /\ Same([old EXCEPT !.paused = ~@]) /\ [old EXCEPT !.paused = ~@].ref = old.ref
      /\ \A n \in Names : /\ Same([old EXCEPT !.name = n])
                          /\ [old EXCEPT !.name = n].ref = old.ref
      /\ \A p \in Policies \cup {"default"} : /\ Same([old EXCEPT !.volumes = p])
                                              /\ [old EXCEPT !.volumes = p].ref = old.ref
      /\ \A n \in SecretNames : /\ Same([old EXCEPT !.ref = n, !.gen = @ + 1])
                                /\ [old EXCEPT !.ref = n, !.gen = @ + 1].ref = n
  BY <1>1 DEF Cluster
<1>4. PICK o : Write(c, o) /\ Same(o) /\ (o.ref = old.ref \/ MayRefer(o.ref))
  <2> DEFINE Good(x) == Write(c, x) /\ Same(x) /\ (x.ref = old.ref \/ MayRefer(x.ref))
  <2>1. CASE Write(c, [old EXCEPT !.paused = ~@])
    <3>1. Good([old EXCEPT !.paused = ~@])
      BY <1>3, <2>1
    <3> QED
      BY <3>1
  <2>2. CASE \E n \in Names : Write(c, [old EXCEPT !.name = n])
    BY <1>3, <2>2
  <2>3. CASE \E p \in Policies \cup {"default"} : Write(c, [old EXCEPT !.volumes = p])
    BY <1>3, <2>3
  <2>4. CASE \E n \in SecretNames :
               MayRefer(n) /\ Write(c, [old EXCEPT !.ref = n, !.gen = @ + 1])
    <3> PICK n \in SecretNames :
               MayRefer(n) /\ Write(c, [old EXCEPT !.ref = n, !.gen = @ + 1])
      BY <2>4
    <3>1. Good([old EXCEPT !.ref = n, !.gen = @ + 1])
      BY <1>3
    <3> QED
      BY <3>1
  <2> QED
    BY <1>2, <2>1, <2>2, <2>3, <2>4
<1>5. Present(c) /\ UNCHANGED <<cloud, alive>>
  BY DEF EditCluster
<1>6. o \in Cluster /\ OtherWrite(c, o)
  BY <1>4, <1>5 DEF OtherWrite
<1> QED
  BY <1>6

\* Every write is one of these, or creates the object.
LEMMA Writers ==
    ASSUME FullInv, [Next]_vars
    PROVE  \/ cluster' = cluster
           \/ \E c \in Clusters : CreateCluster(c)
           \/ \E c \in Clusters : \E o \in Cluster : OtherWrite(c, o)
           \/ \E w \in Workers : Guards(w) \/ Records(w) \/ Releases(w)
<1>t. /\ \A c \in Clusters : cluster[c] \in Cluster /\ cluster[c].gen + 1 \in Nat
      /\ \A w \in Workers : job[w].key \in Clusters
  BY DEF FullInv, Inv, TypeInv, TypeOK, Job, Cluster
<1>1. ASSUME NEW c \in Clusters, RequestDeletion(c)
      PROVE  \E o \in Cluster : OtherWrite(c, o)
  <2> DEFINE o == [cluster[c] EXCEPT !.deleting = TRUE, !.gen = @ + 1]
  <2>1. /\ o \in Cluster /\ o.uid = cluster[c].uid /\ o.ckpt = cluster[c].ckpt
        /\ o.finalizers = cluster[c].finalizers /\ o.ref = cluster[c].ref
    BY <1>t DEF Cluster
  <2>2. Present(c) /\ Write(c, o) /\ UNCHANGED <<cloud, alive>>
    BY <1>1 DEF RequestDeletion
  <2> HIDE DEF o
  <2> QED
    BY <2>1, <2>2 DEF OtherWrite
<1>2. ASSUME NEW c \in Clusters, RemoveCAPOFinalizer(c)
      PROVE  \E o \in Cluster : OtherWrite(c, o)
  <2> DEFINE o == [cluster[c] EXCEPT !.finalizers = @ \ {CAPO}]
  <2>1. /\ o \in Cluster /\ o.uid = cluster[c].uid /\ o.ckpt = cluster[c].ckpt
        /\ o.finalizers = cluster[c].finalizers \ {CAPO} /\ o.ref = cluster[c].ref
    BY <1>t DEF Cluster
  <2>2. Present(c) /\ Write(c, o) /\ UNCHANGED <<cloud, alive>>
    BY <1>2 DEF RemoveCAPOFinalizer
  <2> HIDE DEF o
  <2> QED
    BY <2>1, <2>2 DEF OtherWrite, Janitor, CAPO
<1>3. ASSUME NEW w \in Workers, AddPatch(w) \/ SaveCheckpoint(w) \/ RemoveFinalizer(w),
             job[w].seen = rv[job[w].key]
      PROVE  Guards(w) \/ Records(w) \/ Releases(w)
  <2> DEFINE c == job[w].key  o == cluster[job[w].key]
  <2>0. job[w].obs.uid # 0
    BY <1>3 DEF FullInv, ReadsInv, ClusterRead, AddPatch, SaveCheckpoint, RemoveFinalizer
  <2>1. CASE AddPatch(w)
    <3>1. o.uid = job[w].obs.uid /\ ~o.deleting /\ Janitor \notin o.finalizers
      BY <1>3, <2>1, PatchBasis
    <3> QED
      BY <1>3, <2>0, <2>1, <3>1 DEF AddPatch, LockedPatch, Guards, Present
  <2>2. CASE SaveCheckpoint(w)
    <3>1. InputsUnchanged(w) /\ Saving(w)
      BY <1>3, <2>2, PatchBasis
    <3>2. Testifies(job[w].plan, cloud, alive)
      BY <2>2 DEF FullInv, Inv, CheckpointInv, WorkerInv, SaveCheckpoint
    <3> QED
      BY <1>3, <2>0, <2>2, <3>1, <3>2 DEF SaveCheckpoint, LockedPatch, Records, Present,
         InputsUnchanged
  <2>3. CASE RemoveFinalizer(w)
    <3>1. InputsUnchanged(w) /\ Finishing(w)
      BY <1>3, <2>3, PatchBasis
    <3> QED
      BY <1>3, <2>0, <2>3, <3>1 DEF RemoveFinalizer, LockedPatch, Releases, Present,
         InputsUnchanged
  <2> QED
    BY <1>3, <2>1, <2>2, <2>3
<1>4. CASE \E w \in Workers : Step(w)
  <2> PICK w \in Workers : Step(w)
    BY <1>4
  <2>1. CASE /\ AddPatch(w) \/ SaveCheckpoint(w) \/ RemoveFinalizer(w)
             /\ job[w].seen = rv[job[w].key]
    BY <1>3, <2>1
  <2>2. CASE ~(/\ AddPatch(w) \/ SaveCheckpoint(w) \/ RemoveFinalizer(w)
               /\ job[w].seen = rv[job[w].key])
    BY <2>2 DEF Step, IsPaused, AddGet, AddIsPaused, AddPatch, FindSecret, NewSession,
       CleanupWaiting, CleanupComplete, ListReferences, CheckSecret, CheckCluster, CheckOwner,
       SaveCheckpoint, RemoveFinalizer, DeleteCredential, ConfirmDeletion, DeleteSecret,
       LockedPatch
  <2> QED
    BY <2>1, <2>2
<1>5. CASE \E c \in Clusters : \/ RequestDeletion(c) \/ RemoveCAPOFinalizer(c)
                               \/ EditCluster(c) \/ CreateCluster(c)
  BY <1>1, <1>2, <1>5, EditIsOtherWrite
<1>6. CASE \/ \E w \in Workers : Fail(w) \/ Restart(w) \/ \E c \in Clusters : Get(w, c)
           \/ \E c \in Clusters : PauseOwner(c)
           \/ \E n \in SecretNames : ReleaseSecret(n) \/ EditSecret(n)
           \/ \E k \in Credentials : Revoke(k)
           \/ UNCHANGED vars
  BY <1>6 DEF Fail, Restart, Get, PauseOwner, ReleaseSecret, EditSecret, Revoke, vars
<1> QED
  BY <1>4, <1>5, <1>6 DEF Next

\* What a write leaves at its cluster and elsewhere.
LEMMA Written ==
    ASSUME FullInv, NEW c \in Clusters, NEW o, Write(c, o)
    PROVE  /\ cluster'[c] = IF o.deleting /\ o.finalizers = {} THEN Absent(c) ELSE o
           /\ \A d \in Clusters \ {c} : cluster'[d] = cluster[d]
BY DEF Write, FullInv, Inv, TypeInv, TypeOK

\* What such writes leave of their object.
LEMMA WrittenPatches ==
    ASSUME FullInv, NEW w \in Workers
    PROVE  LET c == job[w].key  o == cluster[c]  new == cluster'[c] IN
           /\ Guards(w) => new = [o EXCEPT !.finalizers = @ \cup {Janitor}]
           /\ Records(w) => new = [o EXCEPT !.ckpt = job[w].plan]
           /\ Releases(w) => \/ o.finalizers = {Janitor} /\ new = Absent(c)
                             \/ new = [o EXCEPT !.finalizers = @ \ {Janitor}]
<1> DEFINE c == job[w].key  o == cluster[c]
<1>1. c \in Clusters /\ o \in Cluster /\ job[w].plan \in Checkpoint
  BY DEF FullInv, Inv, TypeInv, TypeOK, Job
<1> DEFINE g == [o EXCEPT !.finalizers = @ \cup {Janitor}]
           r == [o EXCEPT !.ckpt = job[w].plan]
           f == [o EXCEPT !.finalizers = @ \ {Janitor}]
<1>2. /\ g.finalizers # {} /\ r.finalizers = o.finalizers
      /\ f.finalizers = o.finalizers \ {Janitor}
  BY <1>1 DEF Cluster
<1>3. /\ Guards(w) => Write(c, g)
      /\ Records(w) => Write(c, r) /\ Janitor \in o.finalizers
      /\ Releases(w) => Write(c, f) /\ Janitor \in o.finalizers
  BY DEF Guards, Records, Releases
<1> HIDE DEF g, r, f
<1>4. /\ Guards(w) => cluster'[c] = g
      /\ Records(w) => cluster'[c] = r
  BY <1>1, <1>2, <1>3, Written
<1>5. Releases(w) => \/ o.finalizers = {Janitor} /\ cluster'[c] = Absent(c)
                    \/ cluster'[c] = f
  BY <1>1, <1>2, <1>3, Written
<1> QED
  BY <1>4, <1>5 DEF g, r, f

------------------------------------------------------------------------------
(* Checkpoints advance                                                       *)

\* A write advances an object whose checkpoint it keeps.
LEMMA WriteAdvances ==
    ASSUME FullInv, NEW c \in Clusters, NEW o, Write(c, o),
           o.uid = cluster[c].uid => o.ckpt = cluster[c].ckpt
    PROVE  \A d \in Clusters : Advances(d)
<1>1. cluster[c].uid = 0 => cluster[c].ckpt = NoCheckpoint(c)
  BY DEF FullInv, ReadsInv, ObjectOK
<1>2. Absent(c).uid = 0 /\ Absent(c).ckpt = NoCheckpoint(c)
  BY DEF Absent, NewCluster
<1> QED
  BY <1>1, <1>2, Written DEF Advances

LEMMA NextAdvances ==
    ASSUME FullInv, [Next]_vars, NEW d \in Clusters
    PROVE  Advances(d)
<1>t. /\ \A c \in Clusters : cluster[c] \in Cluster /\ rv[c] \in Nat
      /\ \A w \in Workers : job[w].key \in Clusters
  BY DEF FullInv, Inv, TypeInv, TypeOK, Job
<1>1. CASE cluster' = cluster
  BY <1>1 DEF Advances
<1>2. CASE \E c \in Clusters : CreateCluster(c)
  <2> PICK c \in Clusters : CreateCluster(c)
    BY <1>2
  <2>1. cluster[c].uid = 0 /\ Write(c, NewCluster(c, rv[c] + 1))
    BY DEF CreateCluster, Present
  <2>2. NewCluster(c, rv[c] + 1).uid # 0
    BY <1>t DEF NewCluster
  <2> QED
    BY <2>1, <2>2, WriteAdvances
<1>3. CASE \E c \in Clusters : \E o \in Cluster : OtherWrite(c, o)
  BY <1>3, WriteAdvances DEF OtherWrite
<1>4. CASE \E w \in Workers : Guards(w) \/ Records(w) \/ Releases(w)
  <2> PICK w \in Workers : Guards(w) \/ Records(w) \/ Releases(w)
    BY <1>4
  <2> DEFINE c == job[w].key  o == cluster[c]
  <2>1. CASE d # c
    BY <1>t, <2>1, Written DEF Guards, Records, Releases, Advances
  <2>2. CASE d = c /\ Records(w)
    <3>1. cluster'[c].ckpt = job[w].plan
      BY <1>t, <2>2, WrittenPatches DEF Cluster
    <3> QED
      BY <2>2, <3>1 DEF Records, Saving, Advances
  <2>3. CASE d = c /\ (Guards(w) \/ Releases(w))
    <3> DEFINE new1 == [o EXCEPT !.finalizers = @ \cup {Janitor}]
               new2 == [o EXCEPT !.finalizers = @ \ {Janitor}]
    <3>1. new1.ckpt = o.ckpt /\ new2.ckpt = o.ckpt
      BY <1>t DEF Cluster
    <3>2. Write(c, new1) \/ Write(c, new2)
      BY <2>3 DEF Guards, Releases
    <3> HIDE DEF new1, new2
    <3> QED
      BY <1>t, <3>1, <3>2, WriteAdvances
  <2> QED
    BY <2>1, <2>2, <2>3
<1> QED
  BY <1>1, <1>2, <1>3, <1>4, Writers

\* Whoever writes an object, and however late, its checkpoint is kept or moves
\* on to the next phase (saveCredentialCheckpoint).
THEOREM CheckpointsAdvance == Spec => CheckpointOnlyAdvances
<1>1. FullInv /\ [Next]_vars => [\A c \in Clusters : Advances(c)]_vars
  BY NextAdvances
<1> QED
  BY <1>1, ReadsHold, PTL DEF CheckpointOnlyAdvances, Spec

------------------------------------------------------------------------------
(* Nothing shared is destroyed                                               *)

\* While users keep the documented rule, nobody starts to refer to a Secret
\* that a stored checkpoint names.
LEMMA NoNewReference ==
    ASSUME FullInv, ~LateReferences, [Next]_vars, NEW c \in Clusters,
           Present(c), cluster[c].ckpt.phase # "none",
           NEW d \in Clusters, cluster'[d].uid # 0,
           cluster'[d].ref = cluster[c].ckpt.secretName
    PROVE  Present(d) /\ cluster[d].ref = cluster[c].ckpt.secretName
<1> DEFINE n == cluster[c].ckpt.secretName
<1>t. /\ \A e \in Clusters : cluster[e] \in Cluster
      /\ \A w \in Workers : job[w].key \in Clusters
  BY DEF FullInv, Inv, TypeInv, TypeOK, Job
<1>0. ~MayRefer(n)
  BY DEF MayRefer
<1>1. CASE cluster'[d] = cluster[d]
  BY <1>1 DEF Present
<1>2. ASSUME CreateCluster(d) PROVE FALSE
  <2>1. Write(d, NewCluster(d, rv[d] + 1)) /\ MayRefer(RefOf[d])
    BY <1>2 DEF CreateCluster
  <2>2. /\ NewCluster(d, rv[d] + 1).ref = RefOf[d] /\ Absent(d).ref = RefOf[d]
    BY DEF Absent, NewCluster
  <2>3. cluster'[d].ref = RefOf[d]
    BY <2>1, <2>2, Written
  <2> QED
    BY <1>0, <2>1, <2>3
<1>3. ASSUME NEW o \in Cluster, OtherWrite(d, o)
      PROVE  Present(d) /\ cluster[d].ref = n
  <2>1. Write(d, o) /\ Absent(d).uid = 0
    BY <1>3 DEF OtherWrite, Absent, NewCluster
  <2>2. cluster'[d] = o
    BY <2>1, Written
  <2> QED
    BY <1>0, <1>3, <2>2 DEF OtherWrite, Present
<1>4. ASSUME NEW w \in Workers, job[w].key = d, Guards(w) \/ Records(w) \/ Releases(w)
      PROVE  Present(d) /\ cluster[d].ref = n
  <2> DEFINE o == cluster[d]
             g == [o EXCEPT !.finalizers = @ \cup {Janitor}]
             r == [o EXCEPT !.ckpt = job[w].plan]
             f == [o EXCEPT !.finalizers = @ \ {Janitor}]
  <2>1. g.ref = o.ref /\ r.ref = o.ref /\ f.ref = o.ref
    BY <1>t DEF Cluster
  <2>2. Absent(d).uid = 0
    BY DEF Absent, NewCluster
  <2>3. cluster'[d] \in {g, r, f}
    BY <1>4, <2>2, WrittenPatches
  <2>4. Present(d)
    BY <1>4 DEF Guards, Records, Releases
  <2> HIDE DEF g, r, f
  <2> QED
    BY <2>1, <2>3, <2>4
<1>5. CASE cluster'[d] # cluster[d]
  <2>1. \A e \in Clusters : (\E o : Write(e, o)) => e = d
    BY <1>5, Written
  <2>2. \A e \in Clusters : CreateCluster(e) \/ (\E o \in Cluster : OtherWrite(e, o)) => e = d
    BY <2>1 DEF CreateCluster, OtherWrite
  <2>3. \A w \in Workers : Guards(w) \/ Records(w) \/ Releases(w) => job[w].key = d
    BY <1>t, <2>1 DEF Guards, Records, Releases
  <2> QED
    BY <1>2, <1>3, <1>4, <1>5, <2>2, <2>3, Writers
<1> QED
  BY <1>1, <1>5

\* A worker on its way to destroy something stays alone with its Secret.
LEMMA AloneLasts ==
    ASSUME FullInv, FullInv', ~LateReferences, [Next]_vars, NEW w \in Workers,
           Alone(w), job'[w] = job[w]
    PROVE  Alone(w)'
<1> DEFINE j == job[w]  c == job[w].key  ck == job[w].obs.ckpt
<1> SUFFICES ASSUME j.pc \in {"deleteCredential", "deleteSecret"},
                    ~Outdated(ck, alive', secret'),
                    NEW d \in Clusters \ {c}, Present(d)', cluster'[d].ref = j.obs.ref
             PROVE  FALSE
  BY DEF Alone
<1>t. TypeInv /\ TypeInv' /\ c \in Clusters /\ ck \in Checkpoint
  BY DEF FullInv, Inv, TypeInv, TypeOK, Job, Cluster
<1>1. Purpose(w) /\ ClusterRead(w)
  BY DEF FullInv, ReadsInv
<1>2. ck.phase # "none" /\ j.obs.ref = ck.secretName
  BY <1>1 DEF Purpose, GoalAt, Before, Resuming
<1>3. SecretSeen(ck, secret)
  BY <1>1, <1>2 DEF ClusterRead, ObjectOK
<1>4. ~Outdated(ck, alive, secret)
  BY <1>t, <1>3, OutdatedLasts, NextEvolves
<1>5. cluster[c].ckpt = ck
  BY <1>1, <1>2, <1>4 DEF ClusterRead
<1>6. Present(c)
  BY <1>t, <1>2, <1>5 DEF FullInv, ReadsInv, ObjectOK, Present
<1>7. Present(d) /\ cluster[d].ref = j.obs.ref
  BY <1>t, <1>2, <1>5, <1>6, NoNewReference DEF Present
<1> QED
  BY <1>4, <1>7 DEF Alone

\* A worker that goes there has just found itself alone.
LEMMA AloneStep ==
    ASSUME FullInv, NEW w \in Workers, Step(w)
    PROVE  Alone(w)'
<1> DEFINE j == job[w]
<1> SUFFICES ASSUME job'[w].pc \in {"deleteCredential", "deleteSecret"} PROVE Alone(w)'
  BY DEF Alone
<1>t. /\ job \in [Workers -> Job] /\ j \in Job
      /\ j.pc \in {"checkSecret", "checkCluster", "checkOwner"} => j.goal # "none"
  BY DEF FullInv, Inv, TypeInv, GoalOK, TypeOK
<1>1. ListReferences(w)
  <2>0. Idle.pc = "idle"
    BY DEF Idle
  <2>1. ~Return(w)
    BY <1>t, <2>0 DEF Return
  <2>2. ~\E s \in Stages \ {"deleteCredential", "deleteSecret"} : Goto(w, s)
    BY <1>t DEF Goto, Job
  <2>3. ~CheckOwner(w)
    <3>1. CheckOwner(w) => AfterCheck[j.goal] \in Stages \ {"deleteCredential", "deleteSecret"}
      BY <1>t DEF CheckOwner, AfterCheck, Job, Goals, Stages
    <3> QED
      BY <2>1, <2>2, <3>1 DEF CheckOwner
  <2>4. ~FindSecret(w)
    BY <1>t, <2>1 DEF FindSecret, Job
  <2>5. ~(IsPaused(w) \/ AddIsPaused(w) \/ NewSession(w) \/ CheckSecret(w) \/ DeleteCredential(w))
    BY <2>1, <2>2 DEF IsPaused, AddIsPaused, NewSession, CheckSecret, DeleteCredential, Stages
  <2>6. ~(AddGet(w) \/ CleanupComplete(w) \/ CheckCluster(w) \/ ConfirmDeletion(w))
    BY <1>t, <2>1, <2>2 DEF AddGet, CleanupComplete, CheckCluster, ConfirmDeletion, Stages, Job
  <2>7. ~(AddPatch(w) \/ CleanupWaiting(w) \/ SaveCheckpoint(w) \/ RemoveFinalizer(w)
            \/ DeleteSecret(w))
    BY <2>1 DEF AddPatch, CleanupWaiting, SaveCheckpoint, RemoveFinalizer, DeleteSecret
  <2> QED
    BY <2>3, <2>4, <2>5, <2>6, <2>7 DEF Step
<1>2. Goto(w, "deleteCredential") \/ Goto(w, "deleteSecret")
  <2>0. Idle.pc = "idle"
    BY DEF Idle
  <2> QED
    BY <1>1, <1>t, <2>0 DEF ListReferences, Return, Job
<1>3. job'[w].obs = j.obs /\ job'[w].key = j.key
  BY <1>2, <1>t DEF Goto, Job
<1>4. ~OtherReference(w) /\ cluster' = cluster
  <2>1. OtherReference(w) => Return(w) \/ j.goal = "none"
    BY <1>1 DEF ListReferences
  <2>2. Idle.pc = "idle" /\ (Return(w) => job'[w].pc = "idle")
    BY <1>t DEF Idle, Return
  <2>3. j.goal = "none" => job'[w].pc = "checkSecret"
    BY <1>1, <1>t DEF ListReferences, Job
  <2> QED
    BY <1>1, <2>1, <2>2, <2>3 DEF ListReferences
<1>5. \A d \in Clusters \ {j.key} : cluster[d].uid # 0 => cluster[d].ref # j.obs.ref
  BY <1>4 DEF OtherReference, Present
<1> QED
  BY <1>3, <1>4, <1>5 DEF Alone, Present

\* As long as no reference to a Secret appears after a checkpoint, whoever
\* destroys a credential or a Secret is the only one to refer to it, although
\* the references are listed before the DELETE (secretReferencedElsewhere).
THEOREM DestructionIsAlone ==
    ASSUME ~LateReferences
    PROVE  Spec => NoSharedDestruction
<1> DEFINE All == \A w \in Workers : Alone(w)
<1>1. Init => All
  <2>1. Idle.pc = "idle"
    BY DEF Idle
  <2> QED
    BY <2>1 DEF Init, Alone
<1>2. FullInv /\ FullInv' /\ All /\ [Next]_vars => All'
  <2> SUFFICES ASSUME FullInv, FullInv', All, [Next]_vars, NEW v \in Workers PROVE Alone(v)'
    OBVIOUS
  <2>0. Idle.pc = "idle" /\ job \in [Workers -> Job]
    BY DEF Idle, FullInv, Inv, TypeInv, TypeOK
  <2>1. CASE job'[v] = job[v]
    BY <2>1, AloneLasts
  <2>2. CASE job'[v] # job[v]
    <3>1. CASE \E w \in Workers : Step(w)
      BY <2>2, <3>1, AloneStep, StepFrame DEF FullInv, Inv
    <3>2. CASE ~\E w \in Workers : Step(w)
      <4>1. job'[v].pc \in {"idle", "isPaused"}
        BY <2>0, <2>2, <3>2 DEF Next, Fail, Restart, Return, Get, RequestDeletion,
           RemoveCAPOFinalizer, EditCluster, CreateCluster, PauseOwner, ReleaseSecret,
           EditSecret, Revoke, vars, Idle
      <4> QED
        BY <4>1 DEF Alone
    <3> QED
      BY <3>1, <3>2
  <2> QED
    BY <2>1, <2>2
<1>3. FullInv /\ All /\ [Next]_vars => [\A w \in Workers : DestroysAlone(w)]_vars
  <2> SUFFICES ASSUME FullInv, All, [Next]_vars, NEW w \in Workers,
                      Destroys(w) \/ RemovesSecret(w)
               PROVE  DestroysAlone(w)
    BY DEF DestroysAlone
  <2>1. /\ job[w].pc \in {"deleteCredential", "deleteSecret"}
        /\ ~Outdated(job[w].obs.ckpt, alive, secret)
    <3>1. CASE Destroys(w)
      BY <3>1, DestroysStored DEF Destroys
    <3>2. CASE RemovesSecret(w)
      BY <3>2, RemovesSecretIsDelete, RemovesStored DEF RemovesSecret
    <3> QED
      BY <3>1, <3>2
  <2> QED
    BY <2>1 DEF Alone, DestroysAlone
<1> HIDE DEF All
<1> QED
  BY <1>1, <1>2, <1>3, ReadsHold, PTL DEF NoSharedDestruction, Spec

------------------------------------------------------------------------------
(* The controller implements CredentialRetirement                            *)

\* The refinement mapping of CredentialCleanup.Retirement, by name.
Guarded == {c \in Clusters : Janitor \in cluster[c].finalizers}
Ledger == [c \in Clusters |-> cluster[c].ckpt]

\* An absent object has no finalizer to lose when it is created again.
AbsentUnguarded == \A c \in Clusters : ~Present(c) => c \notin Guarded

\* A write changes one entry.
LEMMA WriteMaps ==
    ASSUME FullInv, NEW c \in Clusters, NEW o, Write(c, o)
    PROVE  /\ Guarded' = IF Janitor \in cluster'[c].finalizers THEN Guarded \cup {c}
                                                               ELSE Guarded \ {c}
           /\ Ledger' = [Ledger EXCEPT ![c] = cluster'[c].ckpt]
           /\ Ledger'[c] = cluster'[c].ckpt
<1>1. \A d \in Clusters \ {c} : cluster'[d] = cluster[d]
  BY Written
<1>2. Guarded' = IF Janitor \in cluster'[c].finalizers THEN Guarded \cup {c}
                                                      ELSE Guarded \ {c}
  BY <1>1 DEF Guarded
<1>3. Ledger' = [Ledger EXCEPT ![c] = cluster'[c].ckpt]
  BY <1>1 DEF Ledger
<1> QED
  BY <1>2, <1>3 DEF Ledger

\* What others write leaves the ledger alone.
LEMMA OtherWriteMaps ==
    ASSUME FullInv, NEW c \in Clusters, NEW o \in Cluster, OtherWrite(c, o)
    PROVE  Guarded' = Guarded /\ Ledger' = Ledger
<1>1. /\ ObjectOK(c, cluster[c], secret)
      /\ Absent(c).ckpt = NoCheckpoint(c) /\ Absent(c).finalizers = {CAPO}
  BY DEF FullInv, ReadsInv, Absent, NewCluster
<1>2. cluster'[c] = IF o.deleting /\ o.finalizers = {} THEN Absent(c) ELSE o
  BY Written DEF OtherWrite
<1>3. /\ Janitor \in cluster'[c].finalizers <=> Janitor \in cluster[c].finalizers
      /\ cluster'[c].ckpt = cluster[c].ckpt
  BY <1>1, <1>2 DEF OtherWrite, ObjectOK, Janitor, CAPO
<1> QED
  BY <1>3, WriteMaps DEF OtherWrite, Guarded, Ledger

\* Neither does the creation of an object that was absent.
LEMMA CreateMaps ==
    ASSUME FullInv, AbsentUnguarded, NEW c \in Clusters, CreateCluster(c)
    PROVE  Guarded' = Guarded /\ Ledger' = Ledger
<1> DEFINE o == NewCluster(c, rv[c] + 1)
<1>1. ObjectOK(c, cluster[c], secret) /\ ~Present(c) /\ Write(c, o)
  BY DEF FullInv, ReadsInv, CreateCluster
<1>2. o.ckpt = NoCheckpoint(c) /\ o.finalizers = {CAPO}
  BY DEF NewCluster
<1>3. cluster'[c] = o
  <2> HIDE DEF o
  <2> QED
    BY <1>1, <1>2, Written
<1> HIDE DEF o
<1>4. /\ Janitor \notin cluster'[c].finalizers /\ c \notin Guarded
      /\ cluster'[c].ckpt = cluster[c].ckpt
  BY <1>1, <1>2, <1>3 DEF ObjectOK, Present, AbsentUnguarded, Janitor, CAPO
<1> QED
  BY <1>1, <1>4, WriteMaps DEF Guarded, Ledger

\* A finalizer that is added is a cluster that is guarded.
LEMMA GuardsMaps ==
    ASSUME FullInv, NEW w \in Workers, Guards(w), NEW c \in Clusters, c = job[w].key
    PROVE  Retirement!Guard(c)
<1> DEFINE o == cluster[c]
<1>1. c \in Clusters /\ o \in Cluster /\ ObjectOK(c, o, secret)
  BY DEF FullInv, ReadsInv, Inv, TypeInv, TypeOK, Job
<1>2. cluster'[c].finalizers = o.finalizers \cup {Janitor} /\ cluster'[c].ckpt = o.ckpt
  BY <1>1, WrittenPatches DEF Cluster
<1>3. c \notin Guarded /\ Ledger[c].phase = "none"
  BY <1>1 DEF Guards, Guarded, Ledger, ObjectOK
<1>4. Guarded' = Guarded \cup {c} /\ Ledger' = Ledger
  BY <1>1, <1>2, WriteMaps DEF Guards, Ledger
<1> QED
  BY <1>3, <1>4 DEF Retirement!Guard, Retirement!Blank, Guards, Guarded, Ledger

\* A checkpoint that is saved condemns the credential or confirms its end.
LEMMA RecordsMaps ==
    ASSUME FullInv, NEW w \in Workers, Records(w), NEW c \in Clusters, c = job[w].key
    PROVE  Retirement!Condemn(c) \/ Retirement!Confirm(c)
<1> DEFINE o == cluster[c]  plan == job[w].plan
<1>1. c \in Clusters /\ o \in Cluster /\ o.ckpt \in Checkpoint
  BY DEF FullInv, Inv, TypeInv, TypeOK, Job, Cluster
<1>2. cluster'[c].finalizers = o.finalizers /\ cluster'[c].ckpt = plan
  BY <1>1, WrittenPatches DEF Cluster
<1>3. /\ c \in Guarded /\ Guarded' = Guarded /\ Ledger[c] = o.ckpt
      /\ Ledger' = [Ledger EXCEPT ![c] = plan] /\ Ledger'[c] = plan
  BY <1>1, <1>2, WriteMaps DEF Records, Guarded, Ledger
<1>4. CASE o.ckpt.phase = "none"
  <2>1. plan.phase = "credentialDeleteStarted"
    BY <1>4 DEF Records, Saving
  <2>2. InScope(plan.clusterName, plan.volumes) \cap cloud = {}
    BY <2>1 DEF Records, Testifies
  <2>3. /\ c \in Guarded /\ Ledger[c].phase = "none" /\ Guarded' = Guarded
        /\ Ledger' = [Ledger EXCEPT ![c] = Ledger'[c]]
        /\ Ledger'[c].phase = "credentialDeleteStarted"
        /\ InScope(Ledger'[c].clusterName, Ledger'[c].volumes) \cap cloud = {}
        /\ UNCHANGED <<cloud, alive>>
    BY <1>3, <1>4, <2>1, <2>2 DEF Records
  <2>4. Retirement!Blank(c) /\ Retirement!Condemned(c)'
    BY <2>3 DEF Retirement!Condemned, Retirement!Blank, Guarded, Ledger
  <2> QED
    BY <2>3, <2>4 DEF Retirement!Condemn, Guarded, Ledger
<1>5. CASE o.ckpt.phase # "none"
  <2>1. /\ o.ckpt.phase = "credentialDeleteStarted" /\ o.ckpt.cred \notin alive
        /\ plan = [o.ckpt EXCEPT !.phase = "secretDeleteStarted"]
    BY <1>5 DEF Records, Saving
  <2>2. /\ c \in Guarded /\ Ledger[c].phase = "credentialDeleteStarted"
        /\ Ledger[c].cred \notin alive /\ Guarded' = Guarded
        /\ Ledger' = [Ledger EXCEPT ![c].phase = "secretDeleteStarted"]
        /\ UNCHANGED <<cloud, alive>>
    BY <1>3, <2>1 DEF Records
  <2> QED
    BY <2>2 DEF Retirement!Confirm, Retirement!Condemned, Guarded, Ledger
<1> QED
  BY <1>4, <1>5

\* A finalizer that is removed lets the cluster go.
LEMMA ReleasesMaps ==
    ASSUME FullInv, NEW w \in Workers, Releases(w), NEW c \in Clusters, c = job[w].key
    PROVE  Retirement!Release(c)
<1> DEFINE o == cluster[c]
<1>1. c \in Clusters /\ o \in Cluster /\ ObjectOK(c, o, secret)
  BY DEF FullInv, ReadsInv, Inv, TypeInv, TypeOK, Job
<1>2. /\ Absent(c).ckpt = NoCheckpoint(c) /\ Absent(c).finalizers = {CAPO}
      /\ NoCheckpoint(c).phase = "none" /\ Janitor # CAPO
  BY DEF Absent, NewCluster, NoCheckpoint, Janitor, CAPO
<1>3. \/ o.finalizers = {Janitor} /\ cluster'[c] = Absent(c)
      \/ /\ cluster'[c].finalizers = o.finalizers \ {Janitor}
         /\ cluster'[c].ckpt = o.ckpt /\ o.ckpt.phase = "none"
  <2> DEFINE f == [o EXCEPT !.finalizers = @ \ {Janitor}]
  <2>1. f.finalizers = o.finalizers \ {Janitor} /\ f.ckpt = o.ckpt
    BY <1>1 DEF Cluster
  <2>2. \/ o.finalizers = {Janitor} /\ cluster'[c] = Absent(c)
        \/ cluster'[c] = f
    BY WrittenPatches
  <2>3. /\ cluster'[c] = IF f.deleting /\ f.finalizers = {} THEN Absent(c) ELSE f
        /\ f.deleting = o.deleting /\ o.deleting
    BY <1>1, Written DEF Releases, Cluster
  <2> HIDE DEF f
  <2> QED
    BY <1>1, <2>1, <2>2, <2>3 DEF ObjectOK
<1>4. /\ Janitor \notin cluster'[c].finalizers /\ cluster'[c].ckpt.phase = "none"
  BY <1>2, <1>3
<1>5. /\ c \in Guarded /\ Guarded' = Guarded \ {c} /\ Ledger[c] = o.ckpt
      /\ Ledger' = [Ledger EXCEPT ![c] = Ledger'[c]] /\ Ledger'[c].phase = "none"
  BY <1>1, <1>4, WriteMaps DEF Releases, Guarded, Ledger
<1>6. /\ o.ckpt.phase = "none" \/ o.ckpt.phase = "secretDeleteStarted"
      /\ UNCHANGED <<cloud, alive>>
  BY DEF Releases, Finishing
<1>7. Retirement!Blank(c)' /\ (Retirement!Blank(c) \/ Retirement!Confirmed(c))
  BY <1>5, <1>6 DEF Retirement!Blank, Retirement!Confirmed, Guarded, Ledger
<1> QED
  BY <1>5, <1>6, <1>7 DEF Retirement!Release, Guarded, Ledger

\* Where no object is written, resources go away, or credentials die.
LEMMA NoWriteMaps ==
    ASSUME FullInv, [Next]_vars, cluster' = cluster
    PROVE  [Retirement!Next]_(Retirement!vars)
<1>g. Guarded' = Guarded /\ Ledger' = Ledger
  BY DEF Guarded, Ledger
<1>1. CASE UNCHANGED <<cloud, alive>>
  BY <1>g, <1>1 DEF Retirement!vars, Guarded, Ledger
<1>2. CASE alive' = alive /\ cloud' \subseteq cloud
  <2>1. Retirement!Purge
    BY <1>g, <1>2 DEF Retirement!Purge, Guarded, Ledger
  <2> QED
    BY <2>1 DEF Retirement!Next
<1>3. CASE \E w \in Workers : DeleteCredential(w)
  <2> PICK w \in Workers : DeleteCredential(w)
    BY <1>3
  <2> DEFINE c == job[w].key  ck == job[w].obs.ckpt
  <2>0. c \in Clusters /\ Purpose(w)
    BY DEF FullInv, ReadsInv, Inv, TypeInv, TypeOK, Job
  <2>1. Resuming(w, "credentialDeleteStarted")
    BY <2>0 DEF DeleteCredential, Purpose, Before, GoalAt
  <2>2. CASE Outdated(ck, alive, secret)
    <3>1. job[w].sec.cred \notin alive
      BY <2>1, <2>2 DEF Resuming, Outdated
    <3> QED
      BY <1>1, <3>1 DEF DeleteCredential
  <2>3. CASE ~Outdated(ck, alive, secret)
    <3>1. /\ cluster[c].ckpt = ck /\ cluster[c].ckpt.phase = "credentialDeleteStarted"
          /\ cluster[c].finalizers = {Janitor}
      BY <2>1, <2>3, StoredCheckpoint DEF Phases
    <3>2. ck.cred = job[w].sec.cred
      BY <2>1 DEF Resuming
    <3>3. /\ c \in Guarded /\ Ledger[c].phase = "credentialDeleteStarted"
          /\ alive' = alive \ {Ledger[c].cred} /\ cloud' = cloud
      BY <2>0, <3>1, <3>2 DEF Guarded, Ledger, DeleteCredential
    <3>4. Retirement!Destroy(c)
      BY <1>g, <3>3 DEF Retirement!Destroy, Retirement!Condemned, Guarded, Ledger
    <3> QED
      BY <2>0, <3>4 DEF Retirement!Next
  <2> QED
    BY <2>2, <2>3
<1>4. CASE \E k \in Credentials : Revoke(k)
  <2> PICK k \in Credentials : Revoke(k)
    BY <1>4
  <2>1. k \in alive /\ Retirement!Revoke(k)
    BY <1>g DEF Revoke, Edit, Retirement!Revoke, Guarded, Ledger
  <2> QED
    BY <2>1 DEF Retirement!Next
<1>5. cloud' \subseteq cloud
  BY NextEvolves DEF FullInv, Inv, Evolves
<1>6. \/ alive' = alive
      \/ \E w \in Workers : DeleteCredential(w)
      \/ \E k \in Credentials : Revoke(k)
  <2>1. CASE \E w \in Workers : Step(w)
    BY <2>1 DEF Step, IsPaused, AddGet, AddIsPaused, AddPatch, FindSecret, NewSession,
       CleanupWaiting, CleanupComplete, ListReferences, CheckSecret, CheckCluster, CheckOwner,
       SaveCheckpoint, RemoveFinalizer, ConfirmDeletion, DeleteSecret
  <2>2. CASE ~\E w \in Workers : Step(w)
    BY <2>2 DEF Next, Fail, Restart, Get, RequestDeletion, RemoveCAPOFinalizer, EditCluster,
       CreateCluster, PauseOwner, ReleaseSecret, EditSecret, vars
  <2> QED
    BY <2>1, <2>2
<1> QED
  BY <1>2, <1>3, <1>4, <1>5, <1>6

\* An absent object stays without the Janitor's finalizer.
LEMMA AbsentUnguardedInductive ==
    ASSUME FullInv, AbsentUnguarded, [Next]_vars
    PROVE  AbsentUnguarded'
<1> SUFFICES ASSUME NEW d \in Clusters, cluster'[d].uid = 0 PROVE d \notin Guarded'
  BY DEF AbsentUnguarded, Present
<1>t. \A w \in Workers : job[w].key \in Clusters /\ cluster[job[w].key] \in Cluster
  BY DEF FullInv, Inv, TypeInv, TypeOK, Job
<1>1. CASE Guarded' = Guarded /\ cluster[d].uid = 0
  BY <1>1 DEF AbsentUnguarded, Present
<1>2. ASSUME NEW c \in Clusters, NEW o, Write(c, o), o.uid # 0
      PROVE  d \notin Guarded'
  <2>1. CASE d = c
    <3>1. cluster'[c] = Absent(c) /\ Absent(c).finalizers = {CAPO}
      BY <1>2, <2>1, Written DEF Absent, NewCluster
    <3> QED
      BY <2>1, <3>1 DEF Guarded, Janitor, CAPO
  <2>2. CASE d # c
    BY <1>2, <2>2, Written DEF AbsentUnguarded, Present, Guarded
  <2> QED
    BY <2>1, <2>2
<1>3. CASE cluster' = cluster
  BY <1>1, <1>3 DEF Guarded
<1>4. CASE \E c \in Clusters : CreateCluster(c)
  <2> PICK c \in Clusters : CreateCluster(c)
    BY <1>4
  <2>1. NewCluster(c, rv[c] + 1).uid # 0
    BY DEF NewCluster, FullInv, Inv, TypeInv, TypeOK
  <2> QED
    BY <1>2, <2>1 DEF CreateCluster
<1>5. CASE \E c \in Clusters : \E o \in Cluster : OtherWrite(c, o)
  BY <1>2, <1>5 DEF OtherWrite, Present
<1>6. CASE \E w \in Workers : Guards(w) \/ Records(w) \/ Releases(w)
  <2> PICK w \in Workers : Guards(w) \/ Records(w) \/ Releases(w)
    BY <1>6
  <2> DEFINE c == job[w].key  o == cluster[c]
             g == [o EXCEPT !.finalizers = @ \cup {Janitor}]
             r == [o EXCEPT !.ckpt = job[w].plan]
             f == [o EXCEPT !.finalizers = @ \ {Janitor}]
  <2>1. g.uid = o.uid /\ r.uid = o.uid /\ f.uid = o.uid
    BY <1>t DEF Cluster
  <2>2. o.uid # 0 /\ (Write(c, g) \/ Write(c, r) \/ Write(c, f))
    BY DEF Guards, Records, Releases, Present
  <2> HIDE DEF g, r, f
  <2> QED
    BY <1>t, <1>2, <2>1, <2>2
<1> QED
  BY <1>3, <1>4, <1>5, <1>6, Writers

\* The controller, with its stale reads, retries, restarts and second process,
\* implements the ledger of CredentialRetirement: every step of anybody is a
\* step of the ledger or invisible in it.
THEOREM ControllerImplementsRetirement == Spec => ImplementsRetirement
<1>1. Init => AbsentUnguarded /\ Retirement!Init
  <2> SUFFICES ASSUME Init PROVE AbsentUnguarded /\ Retirement!Init
    OBVIOUS
  <2>1. \A c \in Clusters : /\ cluster[c].finalizers = {CAPO} /\ cluster[c].uid = 1
                             /\ cluster[c].ckpt.phase = "none"
    BY DEF Init, NewCluster, NoCheckpoint
  <2>2. Guarded = {} /\ \A c \in Clusters : Ledger[c].phase = "none"
    BY <2>1 DEF Guarded, Ledger, Janitor, CAPO
  <2> QED
    BY <2>1, <2>2 DEF AbsentUnguarded, Present, Guarded, Ledger, Retirement!Init,
       Retirement!Blank
<1>2. FullInv /\ AbsentUnguarded /\ [Next]_vars => AbsentUnguarded'
  BY AbsentUnguardedInductive
<1>3. FullInv /\ AbsentUnguarded /\ [Next]_vars => [Retirement!Next]_(Retirement!vars)
  <2> SUFFICES ASSUME FullInv, AbsentUnguarded, [Next]_vars
               PROVE  [Retirement!Next]_(Retirement!vars)
    OBVIOUS
  <2>t. \A w \in Workers : job[w].key \in Clusters
    BY DEF FullInv, Inv, TypeInv, TypeOK, Job
  <2>1. CASE cluster' = cluster
    BY <2>1, NoWriteMaps
  <2>2. CASE \/ \E c \in Clusters : CreateCluster(c)
             \/ \E c \in Clusters : \E o \in Cluster : OtherWrite(c, o)
    <3>1. Guarded' = Guarded /\ Ledger' = Ledger /\ UNCHANGED <<cloud, alive>>
      BY <2>2, CreateMaps, OtherWriteMaps DEF CreateCluster, OtherWrite
    <3> QED
      BY <3>1 DEF Retirement!vars, Guarded, Ledger
  <2>3. CASE \E w \in Workers : Guards(w) \/ Records(w) \/ Releases(w)
    <3> PICK w \in Workers : Guards(w) \/ Records(w) \/ Releases(w)
      BY <2>3
    <3> PICK c \in Clusters : c = job[w].key
      BY <2>t
    <3>1. \/ Retirement!Guard(c) \/ Retirement!Condemn(c)
          \/ Retirement!Confirm(c) \/ Retirement!Release(c)
      BY GuardsMaps, RecordsMaps, ReleasesMaps
    <3> QED
      BY <3>1 DEF Retirement!Next
  <2> QED
    BY <2>1, <2>2, <2>3, Writers
<1> QED
  BY <1>1, <1>2, <1>3, ReadsHold, PTL DEF ImplementsRetirement, Retirement!Spec, Spec
==============================================================================
