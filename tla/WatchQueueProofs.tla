--------------------------- MODULE WatchQueueProofs ---------------------------
(***************************************************************************)
(* Watches and the work queue for any clusters, owners and Secrets, and any *)
(* number of edits and faults: no change is forgotten, and a cluster that   *)
(* nothing will look at again has nothing left to be done.                  *)
(***************************************************************************)
EXTENDS WatchQueue, SequenceTheorems, TLAPS

------------------------------------------------------------------------------
(* The invariant                                                             *)

\* Versions as an informer delivers them: the last, and the one before each.
Newest(cached, news) == IF news = <<>> THEN cached ELSE news[Len(news)]
Previous(cached, news, i) == IF i = 1 THEN cached ELSE news[i - 1]

\* What an informer has still to deliver ends in the version of the API.
InformersFollow ==
    /\ ~up => /\ \A c \in Clusters : objectNews[c] = <<>>
              /\ \A n \in Owners : ownerNews[n] = <<>>
    /\ up => /\ \A c \in Clusters : Newest(objectCache[c], objectNews[c]) = object[c]
             /\ \A n \in Owners : Newest(ownerCache[n], ownerNews[n]) = owner[n]

\* This change of an owner wakes up a cluster with this reference.
Wakes(previous, current, ref) ==
    /\ ClusterPauseChanged(previous, current)
    /\ ref \in {previous.uid, current.uid} \ {0}

\* One of these changes does.
WillWake(cached, news, ref) ==
    \E i \in 1 .. Len(news) : Wakes(Previous(cached, news, i), news[i], ref)

\* A change that no reconciliation has seen is on its way to be a request.
Covered(c) ==
    \/ c \in queue \/ objectNews[c] # <<>> \/ RefOf[c] \in secretNews
    \/ WillWake(ownerCache[OwnerOf[c]], ownerNews[OwnerOf[c]], object[c].ref)
UnseenIsCovered ==
    \A c \in Clusters : up /\ Exists(object[c]) /\ c \in unseen \ missed => Covered(c)

\* A reconciliation that has seen everything works on the object as it is.
ViewIsCurrent ==
    /\ worker.stage = "idle" => worker.key = None
    /\ worker.stage # "idle" => worker.key \in Clusters
    /\ worker.stage # "idle" /\ worker.key \notin unseen => worker.view = object[worker.key]

\* What has been seen, and is not to be looked at again, is settled.
SeenIsSettled ==
    \A c \in Clusters :
        up /\ worker.key # c /\ c \notin queue \cup delayed \cup unseen => ~Unsettled(c)

Inv == TypeOK /\ InformersFollow /\ UnseenIsCovered /\ ViewIsCurrent /\ SeenIsSettled


------------------------------------------------------------------------------
(* Versions                                                                  *)

\* A new version is the newest.
LEMMA NewestAppended ==
    ASSUME NEW S, NEW news \in Seq(S), NEW v \in S, NEW cached
    PROVE  Newest(cached, Append(news, v)) = v
BY DEF Newest

\* To deliver a version leaves the newest what it is.
LEMMA NewestDelivered ==
    ASSUME NEW S, NEW news \in Seq(S), news # <<>>, NEW cached
    PROVE  Newest(Head(news), Tail(news)) = Newest(cached, news)
<1> DEFINE rest == Tail(news)  n == Len(news)
<1>1. /\ n \in Nat /\ n > 0 /\ rest \in Seq(S) /\ Len(rest) = n - 1
      /\ \A i \in 1 .. n - 1 : rest[i] = news[i + 1]
      /\ Head(news) = news[1]
  BY HeadTailProperties, EmptySeq
<1> HIDE DEF rest, n
<1>2. rest = <<>> <=> n = 1
  BY <1>1, EmptySeq
<1>3. CASE n = 1
  BY <1>1, <1>2, <1>3 DEF Newest, n, rest
<1>4. CASE n # 1
  <2>1. n - 1 \in 1 .. n - 1 /\ n - 1 + 1 = n
    BY <1>1, <1>4
  <2>2. rest[n - 1] = news[n]
    BY <1>1, <2>1
  <2>3. Newest(Head(news), rest) = rest[n - 1] /\ Newest(cached, news) = news[n]
    BY <1>1, <1>2, <1>4 DEF Newest, n
  <2> QED
    BY <2>2, <2>3 DEF rest
<1> QED
  BY <1>3, <1>4

\* A change that is on its way stays on its way when others follow it.
LEMMA WakesLater ==
    ASSUME NEW S, NEW news \in Seq(S), NEW v \in S, NEW cached, NEW ref,
           WillWake(cached, news, ref)
    PROVE  WillWake(cached, Append(news, v), ref)
<1> DEFINE more == Append(news, v)
<1>1. PICK i \in 1 .. Len(news) : Wakes(Previous(cached, news, i), news[i], ref)
  BY DEF WillWake
<1>2. Len(more) = Len(news) + 1 /\ \A j \in 1 .. Len(news) : more[j] = news[j]
  OBVIOUS
<1> HIDE DEF more
<1>3. more[i] = news[i] /\ Previous(cached, more, i) = Previous(cached, news, i)
  BY <1>2 DEF Previous
<1>4. i \in 1 .. Len(more)
  BY <1>2
<1> QED
  BY <1>1, <1>3, <1>4 DEF WillWake, more

\* The change from the newest version to the next is on its way.
LEMMA WakesNow ==
    ASSUME NEW S, NEW news \in Seq(S), NEW v \in S, NEW cached, NEW ref,
           Wakes(Newest(cached, news), v, ref)
    PROVE  WillWake(cached, Append(news, v), ref)
<1> DEFINE more == Append(news, v)  n == Len(news) + 1
<1>1. /\ Len(more) = n /\ more[n] = v /\ n \in 1 .. Len(more)
      /\ \A j \in 1 .. Len(news) : more[j] = news[j]
  OBVIOUS
<1>2. Previous(cached, more, n) = Newest(cached, news)
  <2>1. CASE news = <<>>
    BY <2>1 DEF Previous, Newest
  <2>2. CASE news # <<>>
    <3>1. Len(news) \in 1 .. Len(news) /\ n # 1 /\ n - 1 = Len(news)
      BY <2>2
    <3> HIDE DEF more, n
    <3> QED
      BY <1>1, <2>2, <3>1 DEF Previous, Newest
  <2> QED
    BY <2>1, <2>2
<1> HIDE DEF more, n
<1> QED
  BY <1>1, <1>2 DEF WillWake, more

\* A change that is on its way is the one that is delivered, or still is.
LEMMA WakesDelivered ==
    ASSUME NEW S, NEW news \in Seq(S), news # <<>>, NEW cached, NEW ref,
           WillWake(cached, news, ref), ~Wakes(cached, Head(news), ref)
    PROVE  WillWake(Head(news), Tail(news), ref)
<1> DEFINE rest == Tail(news)
<1>1. PICK i \in 1 .. Len(news) : Wakes(Previous(cached, news, i), news[i], ref)
  BY DEF WillWake
<1>2. i # 1
  BY <1>1 DEF Previous
<1>3. /\ Len(rest) = Len(news) - 1 /\ i - 1 \in 1 .. Len(rest)
      /\ \A j \in 1 .. Len(rest) : rest[j] = news[j + 1]
      /\ Len(news) \in Nat
  BY <1>2
<1> HIDE DEF rest
<1>4. rest[i - 1] = news[i]
  BY <1>3
<1>5. Previous(Head(news), rest, i - 1) = Previous(cached, news, i)
  <2>1. CASE i = 2
    BY <2>1 DEF Previous
  <2>2. CASE i # 2
    <3>1. i - 2 \in 1 .. Len(rest) /\ i - 2 + 1 = i - 1 /\ i - 1 # 1 /\ i - 1 - 1 = i - 2
      BY <1>2, <1>3, <2>2
    <3>2. rest[i - 2] = news[i - 1]
      BY <1>3, <3>1
    <3> QED
      BY <1>2, <3>1, <3>2 DEF Previous
  <2> QED
    BY <2>1, <2>2
<1> QED
  BY <1>1, <1>3, <1>4, <1>5 DEF WillWake, rest

------------------------------------------------------------------------------
(* Types                                                                     *)

\* A worker at rest.
LEMMA IdleHolds ==
    /\ Idle \in [stage : Stages, key : Clusters \cup {None}, view : Object]
    /\ Idle.stage = "idle" /\ Idle.key = None /\ Idle.view \in Object
BY DEF Idle, Stages, Object

\* What a write to an OpenStackCluster does.
LEMMA ObjectWritten ==
    ASSUME TypeOK, NEW c \in Clusters, NEW o \in Object, WriteObject(c, o)
    PROVE  /\ object' \in [Clusters -> Object] /\ objectNews' \in [Clusters -> Seq(Object)]
           /\ \A d \in Clusters \ {c} : object'[d] = object[d] /\ objectNews'[d] = objectNews[d]
           /\ objectNews'[c] = IF up THEN Append(objectNews[c], object'[c]) ELSE objectNews[c]
           /\ unseen' = unseen \cup {c} /\ UNCHANGED <<owner, ownerNews, secretNews>>
<1> DEFINE new == [o EXCEPT !.rv = object[c].rv + 1]
<1>1. new \in Object
  <2>1. object[c].rv + 1 \in Nat
    <3>1. object[c] \in Object
      BY DEF TypeOK
    <3>2. object[c].rv \in Nat
      BY <3>1 DEF Object
    <3> QED
      BY <3>2
  <2> QED
    BY <2>1 DEF Object
<1>2. /\ object' = [object EXCEPT ![c] = new]
      /\ objectNews' = IF up THEN [objectNews EXCEPT ![c] = Append(@, new)] ELSE objectNews
      /\ unseen' = unseen \cup {c} /\ UNCHANGED <<owner, ownerNews, secretNews>>
  BY DEF WriteObject
<1> HIDE DEF new
<1> QED
  BY <1>1, <1>2 DEF TypeOK

\* Everybody who writes to an OpenStackCluster writes an object.
LEMMA EditsAreObjects ==
    ASSUME TypeOK, NEW c \in Clusters, EditObject(c) \/ Vanish(c)
    PROVE  /\ \E o \in Object : WriteObject(c, o)
           /\ edits' \in 0 .. MaxEdits /\ Outside
<1>0. edits' \in 0 .. MaxEdits /\ Outside
  BY QueueAssumption DEF EditObject, Vanish, Edit, TypeOK
<1>1. object[c] \in Object /\ owner[OwnerOf[c]] \in Owner /\ Idle.view \in Object
  BY IdleHolds, QueueAssumption DEF TypeOK
<1>2. /\ [Idle.view EXCEPT !.uid = object[c].rv + 1] \in Object
      /\ [Idle.view EXCEPT !.uid = 0] \in Object
      /\ [object[c] EXCEPT !.paused = ~@] \in Object
      /\ [object[c] EXCEPT !.ref = owner[OwnerOf[c]].uid] \in Object
      /\ [object[c] EXCEPT !.deleting = TRUE] \in Object
  <2>0. object[c].rv \in Nat /\ owner[OwnerOf[c]].uid \in Nat
    BY <1>1 DEF Object, Owner
  <2>1. object[c].rv + 1 \in Nat
    BY <2>0
  <2>2. \A o \in Object : \A k \in Nat, b \in BOOLEAN :
           /\ [o EXCEPT !.uid = k] \in Object /\ [o EXCEPT !.ref = k] \in Object
           /\ [o EXCEPT !.paused = b] \in Object /\ [o EXCEPT !.deleting = b] \in Object
    BY DEF Object
  <2>3. [object[c] EXCEPT !.paused = ~@] \in Object
    BY <1>1 DEF Object
  <2> QED
    BY <1>1, <2>0, <2>1, <2>2, <2>3
<1> QED
  BY <1>0, <1>2 DEF EditObject, Vanish

\* What a write to an owner does.
LEMMA OwnerWritten ==
    ASSUME TypeOK, NEW n \in Owners, NEW o \in Owner, WriteOwner(n, o)
    PROVE  /\ owner' \in [Owners -> Owner] /\ ownerNews' \in [Owners -> Seq(Owner)]
           /\ \A m \in Owners \ {n} : owner'[m] = owner[m] /\ ownerNews'[m] = ownerNews[m]
           /\ owner'[n] = o
           /\ ownerNews'[n] = IF up THEN Append(ownerNews[n], o) ELSE ownerNews[n]
           /\ unseen' = unseen \cup {c \in Clusters : /\ OwnerOf[c] = n
                                      /\ object[c].ref \in {owner[n].uid, o.uid} \ {0}}
           /\ UNCHANGED <<object, objectNews, secretNews>>
BY DEF WriteOwner, TypeOK

\* An owner's new version is paused differently, or another owner.
LEMMA EditsAreOwners ==
    ASSUME TypeOK, NEW n \in Owners, EditOwner(n)
    PROVE  /\ \E o \in Owner : WriteOwner(n, o) /\ ClusterPauseChanged(owner[n], o)
           /\ edits' \in 0 .. MaxEdits /\ Outside
<1>0. edits' \in 0 .. MaxEdits /\ edits \in Nat /\ Outside
  BY QueueAssumption DEF EditOwner, Edit, TypeOK
<1>1. owner[n] \in Owner
  BY DEF TypeOK
<1>2. CASE \E kind \in PauseKinds :
              WriteOwner(n, [owner[n] EXCEPT !.pause =
                               IF kind \in @ THEN @ \ {kind} ELSE @ \cup {kind}])
  <2> PICK kind \in PauseKinds :
              WriteOwner(n, [owner[n] EXCEPT !.pause =
                               IF kind \in @ THEN @ \ {kind} ELSE @ \cup {kind}])
    BY <1>2
  <2> DEFINE p == IF kind \in owner[n].pause THEN owner[n].pause \ {kind}
                  ELSE owner[n].pause \cup {kind}
             o == [owner[n] EXCEPT !.pause = p]
  <2>1. p \subseteq PauseKinds /\ p # owner[n].pause
    BY <1>1 DEF Owner
  <2>2. WriteOwner(n, o)
    OBVIOUS
  <2> HIDE DEF p
  <2>3. o \in Owner /\ o.pause = p
    BY <1>1, <2>1 DEF Owner
  <2> HIDE DEF o
  <2> QED
    BY <1>0, <2>1, <2>2, <2>3 DEF ClusterPauseChanged
<1>3. CASE Exists(owner[n]) /\ WriteOwner(n, [uid |-> 0, pause |-> {}])
  <2>1. [uid |-> 0, pause |-> {}] \in Owner
        /\ ClusterPauseChanged(owner[n], [uid |-> 0, pause |-> {}])
    BY <1>3 DEF Owner, ClusterPauseChanged, Exists
  <2> QED
    BY <1>0, <1>3, <2>1
<1>4. CASE ~Exists(owner[n]) /\ WriteOwner(n, [uid |-> edits + 2, pause |-> {}])
  <2>1. [uid |-> edits + 2, pause |-> {}] \in Owner
        /\ ClusterPauseChanged(owner[n], [uid |-> edits + 2, pause |-> {}])
    BY <1>0, <1>4 DEF Owner, ClusterPauseChanged, Exists
  <2> QED
    BY <1>0, <1>4, <2>1
<1> QED
  BY <1>2, <1>3, <1>4 DEF EditOwner


\* What the delivery of a version does.
Delivers(n) ==
    /\ ownerNews[n] # <<>>
    /\ ownerCache' = [ownerCache EXCEPT ![n] = Head(ownerNews[n])]
    /\ ownerNews' = [ownerNews EXCEPT ![n] = Tail(@)]

LEMMA OwnerDelivered ==
    ASSUME TypeOK, NEW n \in Owners, Delivers(n)
    PROVE  /\ ownerCache' \in [Owners -> Owner] /\ ownerNews' \in [Owners -> Seq(Owner)]
           /\ \A m \in Owners \ {n} : /\ ownerCache'[m] = ownerCache[m]
                                      /\ ownerNews'[m] = ownerNews[m]
           /\ ownerCache'[n] = Head(ownerNews[n]) /\ ownerNews'[n] = Tail(ownerNews[n])
           /\ ownerNews[n] \in Seq(Owner) /\ ownerNews[n] # <<>>
<1>1. ownerNews[n] \in Seq(Owner) /\ ownerNews[n] # <<>>
  BY DEF TypeOK, Delivers
<1>2. Head(ownerNews[n]) \in Owner /\ Tail(ownerNews[n]) \in Seq(Owner)
  BY <1>1, HeadTailProperties
<1> QED
  BY <1>1, <1>2 DEF TypeOK, Delivers

LEMMA ObjectDelivered ==
    ASSUME TypeOK, NEW c \in Clusters, DeliverObject(c)
    PROVE  /\ objectCache' \in [Clusters -> Object] /\ objectNews' \in [Clusters -> Seq(Object)]
           /\ \A d \in Clusters \ {c} : /\ objectCache'[d] = objectCache[d]
                                        /\ objectNews'[d] = objectNews[d]
           /\ objectCache'[c] = Head(objectNews[c]) /\ objectNews'[c] = Tail(objectNews[c])
           /\ objectNews[c] \in Seq(Object) /\ objectNews[c] # <<>>
<1>1. objectNews[c] \in Seq(Object) /\ objectNews[c] # <<>>
  BY DEF TypeOK, DeliverObject
<1>2. Head(objectNews[c]) \in Object /\ Tail(objectNews[c]) \in Seq(Object)
  BY <1>1, HeadTailProperties
<1> QED
  BY <1>1, <1>2 DEF TypeOK, DeliverObject

\* A watch that starts over delivers the newest version.
LEMMA Relisted ==
    ASSUME TypeOK, NEW n \in Owners, Relist(n)
    PROVE  /\ ownerNews' \in [Owners -> Seq(Owner)]
           /\ \A m \in Owners \ {n} : ownerNews'[m] = ownerNews[m]
           /\ \A cached : Newest(cached, ownerNews'[n]) = Newest(cached, ownerNews[n])
<1> DEFINE news == ownerNews[n]
<1>1. news \in Seq(Owner) /\ Len(news) \in 1 .. Len(news)
  BY DEF TypeOK, Relist
<1>2. news[Len(news)] \in Owner
  BY <1>1, ElementOfSeq
<1>3. ownerNews' = [ownerNews EXCEPT ![n] = <<news[Len(news)]>>]
  BY DEF Relist
<1>4. news # <<>>
  BY <1>1
<1> HIDE DEF news
<1>5. /\ <<news[Len(news)]>> \in Seq(Owner) /\ <<news[Len(news)]>> # <<>>
      /\ Len(<<news[Len(news)]>>) = 1 /\ <<news[Len(news)]>>[1] = news[Len(news)]
  BY <1>2
<1>6. ownerNews'[n] = <<news[Len(news)]>>
  BY <1>3 DEF TypeOK
<1>7. \A cached : Newest(cached, ownerNews'[n]) = Newest(cached, news)
  BY <1>4, <1>5, <1>6 DEF Newest
<1> QED
  BY <1>3, <1>5, <1>7 DEF TypeOK, news

\* A step of the worker ends the reconciliation, perhaps to try again, or goes
\* on with an object; only a patch changes anything else.
LEMMA WorkerSteps ==
    ASSUME TypeOK, ViewIsCurrent, Step \/ CallFails
    PROVE  /\ worker.stage # "idle" /\ worker.key \in Clusters
           /\ UNCHANGED <<caches, up, missed, edits, queue>> /\ faults' \in 0 .. MaxFaults
           /\ \/ worker' = Idle /\ delayed' \in {delayed, delayed \cup {worker.key}}
              \/ /\ \E stage \in Stages \ {"idle"}, view \in {worker.view, object[worker.key]} :
                       worker' = [worker EXCEPT !.stage = stage, !.view = view]
                 /\ delayed' = delayed /\ UNCHANGED <<api, unseen>>
           /\ \/ UNCHANGED <<api, unseen>>
              \/ \E o \in Object : WriteObject(worker.key, o)
<1>0. worker.stage # "idle" /\ worker.key \in Clusters
  BY DEF Step, Dispatch, CleanupAgain, CleanupDone, Check, CheckPaused, Patch, CallFails,
     ViewIsCurrent
<1>1. CASE CallFails
  BY <1>0, <1>1, QueueAssumption DEF CallFails, Fault, Finish, TypeOK, api
<1>2. CASE Dispatch \/ CleanupAgain \/ CleanupDone \/ Check \/ CheckPaused
  BY <1>0, <1>2 DEF Dispatch, CleanupAgain, CleanupDone, Check, CheckPaused, Finish, Goto,
     Reading, Stages, TypeOK, requests
<1>3. CASE Patch
  <2> DEFINE o == [object[worker.key] EXCEPT !.finalizer = ~object[worker.key].deleting]
  <2>1. o \in Object
    <3>1. object[worker.key] \in Object
      BY <1>0 DEF TypeOK
    <3> QED
      BY <3>1 DEF Object
  <2>2. \/ UNCHANGED <<api, unseen>>
        \/ WriteObject(worker.key, o)
    BY <1>3 DEF Patch
  <2> HIDE DEF o
  <2>3. /\ worker' = Idle /\ delayed' \in {delayed, delayed \cup {worker.key}}
        /\ UNCHANGED <<caches, up, missed, edits, queue, faults>>
    BY <1>3 DEF Patch, Finish
  <2> QED
    BY <1>0, <2>1, <2>2, <2>3 DEF TypeOK
<1> QED
  BY <1>1, <1>2, <1>3 DEF Step


LEMMA TypeInductive ==
    ASSUME TypeOK, ViewIsCurrent, [Next]_vars
    PROVE  TypeOK'
<1>1. CASE Step \/ CallFails
  <2>1. /\ worker.stage # "idle" /\ worker.key \in Clusters
        /\ UNCHANGED <<caches, up, missed, edits, queue>> /\ faults' \in 0 .. MaxFaults
    BY <1>1, WorkerSteps
  <2>2. worker' \in [stage : Stages, key : Clusters \cup {None}, view : Object]
        /\ delayed' \subseteq Clusters
    <3>1. object[worker.key] \in Object
      BY <2>1 DEF TypeOK
    <3>2. CASE worker' = Idle /\ delayed' \in {delayed, delayed \cup {worker.key}}
      BY <2>1, <3>2, IdleHolds DEF TypeOK
    <3>3. CASE /\ \E stage \in Stages \ {"idle"}, view \in {worker.view, object[worker.key]} :
                        worker' = [worker EXCEPT !.stage = stage, !.view = view]
               /\ delayed' = delayed
      BY <2>1, <3>1, <3>3 DEF TypeOK
    <3> QED
      BY <1>1, <3>2, <3>3, WorkerSteps
  <2>3. CASE UNCHANGED <<api, unseen>>
    BY <2>1, <2>2, <2>3 DEF TypeOK, api, caches
  <2>4. CASE \E o \in Object : WriteObject(worker.key, o)
    <3>1. /\ object' \in [Clusters -> Object] /\ objectNews' \in [Clusters -> Seq(Object)]
          /\ unseen' = unseen \cup {worker.key} /\ UNCHANGED <<owner, ownerNews, secretNews>>
      BY <2>1, <2>4, ObjectWritten
    <3> QED
      BY <2>1, <2>2, <3>1 DEF TypeOK, caches
  <2> QED
    BY <1>1, <2>3, <2>4, WorkerSteps
<1>2. CASE Start
  BY <1>2 DEF Start, TypeOK, api
<1>3. CASE Crash
  <2>1. <<>> \in Seq(Object) /\ <<>> \in Seq(Owner) /\ faults' \in 0 .. MaxFaults
    BY <1>3, QueueAssumption DEF Crash, Fault, TypeOK
  <2> QED
    BY <1>3, <2>1, IdleHolds DEF Crash, TypeOK, caches
<1>4. CASE Resync
  BY <1>4 DEF Resync, Add, Cached, TypeOK, api, caches
<1>5. ASSUME NEW c \in Clusters, DeliverObject(c) PROVE TypeOK'
  BY <1>5, ObjectDelivered DEF DeliverObject, Add, TypeOK
<1>6. ASSUME NEW c \in Clusters, Take(c) PROVE TypeOK'
  <2>1. object[c] \in Object /\ [stage |-> "isPaused", key |-> c, view |-> object[c]]
           \in [stage : Stages, key : Clusters \cup {None}, view : Object]
    BY DEF TypeOK, Stages
  <2> QED
    BY <1>6, <2>1, IdleHolds DEF Take, TypeOK, api, caches
<1>7. ASSUME NEW c \in Clusters, Wake(c) PROVE TypeOK'
  BY <1>7 DEF Wake, TypeOK, api, caches
<1>8. ASSUME NEW c \in Clusters, EditObject(c) \/ Vanish(c) PROVE TypeOK'
  BY <1>8, EditsAreObjects, ObjectWritten DEF Outside, TypeOK, caches, requests
<1>9. ASSUME NEW n \in Owners, DeliverOwner(n) PROVE TypeOK'
  <2>1. Delivers(n)
    BY <1>9 DEF DeliverOwner, Delivers
  <2>2. queue' \subseteq Clusters /\ delayed' = delayed
    BY <1>9 DEF DeliverOwner, Add, OwnerRequests, RequestsForCluster, Cached, TypeOK
  <2> QED
    BY <1>9, <2>1, <2>2, OwnerDelivered DEF DeliverOwner, TypeOK
<1>10. ASSUME NEW n \in Owners, ListFails(n) PROVE TypeOK'
  <2>1. Delivers(n)
    BY <1>10 DEF ListFails, Delivers
  <2>2. missed' \subseteq Clusters /\ faults' \in 0 .. MaxFaults
    BY <1>10, QueueAssumption DEF ListFails, Fault, OwnerRequests, RequestsForCluster, Cached, TypeOK
  <2> QED
    BY <1>10, <2>1, <2>2, OwnerDelivered DEF ListFails, TypeOK, requests
<1>11. ASSUME NEW n \in Owners, Relist(n) PROVE TypeOK'
  BY <1>11, Relisted, QueueAssumption DEF Relist, Fault, TypeOK, caches, requests
<1>12. ASSUME NEW n \in Owners, EditOwner(n) PROVE TypeOK'
  BY <1>12, EditsAreOwners, OwnerWritten DEF Outside, TypeOK, caches, requests
<1>13. ASSUME NEW s \in Secrets, DeliverSecret(s) PROVE TypeOK'
  BY <1>13 DEF DeliverSecret, Add, RequestsForSecret, Cached, TypeOK, caches
<1>14. ASSUME NEW s \in Secrets, ListFailsForSecret(s) PROVE TypeOK'
  BY <1>14, QueueAssumption DEF ListFailsForSecret, Fault, RequestsForSecret, Cached, TypeOK,
     caches, requests
<1>15. ASSUME NEW s \in Secrets, EditSecret(s) PROVE TypeOK'
  BY <1>15, QueueAssumption DEF EditSecret, Edit, Outside, TypeOK, caches, requests
<1>16. CASE UNCHANGED vars
  BY <1>16 DEF vars, TypeOK, api, caches, requests
<1> QED
  BY <1>1, <1>2, <1>3, <1>4, <1>5, <1>6, <1>7, <1>8, <1>9, <1>10, <1>11, <1>12, <1>13, <1>14,
     <1>15, <1>16 DEF Next

------------------------------------------------------------------------------
(* Informers and views                                                       *)

\* A write is the newest version that an informer has to deliver.
LEMMA WritesAreFollowed ==
    ASSUME TypeOK, InformersFollow, UNCHANGED <<caches, up>>,
           \/ \E c \in Clusters, o \in Object : WriteObject(c, o)
           \/ \E n \in Owners, o \in Owner : WriteOwner(n, o)
    PROVE  InformersFollow'
<1>1. CASE \E c \in Clusters, o \in Object : WriteObject(c, o)
  <2> PICK c \in Clusters, o \in Object : WriteObject(c, o)
    BY <1>1
  <2>1. /\ \A d \in Clusters \ {c} : object'[d] = object[d] /\ objectNews'[d] = objectNews[d]
        /\ objectNews'[c] = IF up THEN Append(objectNews[c], object'[c]) ELSE objectNews[c]
        /\ objectNews[c] \in Seq(Object) /\ object'[c] \in Object
        /\ UNCHANGED <<owner, ownerNews>>
    BY ObjectWritten DEF TypeOK
  <2>2. Newest(objectCache[c], Append(objectNews[c], object'[c])) = object'[c]
    BY <2>1, NewestAppended
  <2> QED
    BY <2>1, <2>2 DEF InformersFollow, Newest, caches
<1>2. CASE \E n \in Owners, o \in Owner : WriteOwner(n, o)
  <2> PICK n \in Owners, o \in Owner : WriteOwner(n, o)
    BY <1>2
  <2>1. /\ \A m \in Owners \ {n} : owner'[m] = owner[m] /\ ownerNews'[m] = ownerNews[m]
        /\ ownerNews'[n] = IF up THEN Append(ownerNews[n], o) ELSE ownerNews[n]
        /\ owner'[n] = o /\ ownerNews[n] \in Seq(Owner)
        /\ UNCHANGED <<object, objectNews>>
    BY OwnerWritten DEF TypeOK
  <2>2. Newest(ownerCache[n], Append(ownerNews[n], o)) = o
    BY <2>1, NewestAppended
  <2> QED
    BY <2>1, <2>2 DEF InformersFollow, Newest, caches
<1> QED
  BY <1>1, <1>2

LEMMA OwnerDeliveriesFollow ==
    ASSUME TypeOK, InformersFollow, NEW n \in Owners, Delivers(n),
           UNCHANGED <<object, owner, objectNews, objectCache, up>>
    PROVE  InformersFollow'
<1>1. /\ \A m \in Owners \ {n} : ownerCache'[m] = ownerCache[m] /\ ownerNews'[m] = ownerNews[m]
      /\ Newest(ownerCache'[n], ownerNews'[n]) = Newest(ownerCache[n], ownerNews[n])
  BY OwnerDelivered, NewestDelivered
<1>2. up
  BY DEF InformersFollow, Delivers
<1>3. \A m \in Owners : Newest(ownerCache'[m], ownerNews'[m]) = Newest(ownerCache[m], ownerNews[m])
  BY <1>1
<1> QED
  BY <1>2, <1>3 DEF InformersFollow, Newest

LEMMA InformersInductive ==
    ASSUME TypeOK, InformersFollow, ViewIsCurrent, [Next]_vars
    PROVE  InformersFollow'
<1>0. CASE UNCHANGED <<object, owner, objectNews, ownerNews, caches, up>>
  BY <1>0 DEF InformersFollow, Newest, caches
<1>1. CASE Step \/ CallFails
  <2>1. worker.key \in Clusters /\ UNCHANGED <<caches, up>>
    BY <1>1, WorkerSteps
  <2>2. CASE \E o \in Object : WriteObject(worker.key, o)
    BY <2>1, <2>2, WritesAreFollowed
  <2> QED
    BY <1>0, <1>1, <2>1, <2>2, WorkerSteps DEF api
<1>2. CASE Start
  BY <1>2 DEF Start, InformersFollow, Newest, api
<1>3. CASE Crash
  BY <1>3 DEF Crash, InformersFollow
<1>5. ASSUME NEW c \in Clusters, DeliverObject(c) PROVE InformersFollow'
  <2>1. /\ \A d \in Clusters \ {c} : /\ objectCache'[d] = objectCache[d]
                                     /\ objectNews'[d] = objectNews[d]
        /\ Newest(objectCache'[c], objectNews'[c]) = Newest(objectCache[c], objectNews[c])
    BY <1>5, ObjectDelivered, NewestDelivered
  <2>2. up /\ UNCHANGED <<up, object, owner, ownerNews, ownerCache>>
    BY <1>5 DEF InformersFollow, DeliverObject
  <2>3. \A d \in Clusters : Newest(objectCache'[d], objectNews'[d]) = Newest(objectCache[d], objectNews[d])
    BY <2>1
  <2> QED
    BY <2>2, <2>3 DEF InformersFollow, Newest
<1>8. ASSUME NEW c \in Clusters, EditObject(c) \/ Vanish(c) PROVE InformersFollow'
  BY <1>8, EditsAreObjects, WritesAreFollowed DEF Outside
<1>9. ASSUME NEW n \in Owners, DeliverOwner(n) \/ ListFails(n) PROVE InformersFollow'
  BY <1>9, OwnerDeliveriesFollow DEF DeliverOwner, ListFails, Delivers
<1>11. ASSUME NEW n \in Owners, Relist(n) PROVE InformersFollow'
  <2>1. UNCHANGED <<object, owner, objectNews, caches, up>>
    BY <1>11 DEF Relist
  <2>2. /\ \A m \in Owners \ {n} : ownerNews'[m] = ownerNews[m]
        /\ Newest(ownerCache[n], ownerNews'[n]) = Newest(ownerCache[n], ownerNews[n])
    BY <1>11, Relisted
  <2>3. up
    <3>1. ownerNews[n] # <<>>
      BY <1>11 DEF Relist
    <3> QED
      BY <3>1 DEF InformersFollow
  <2>4. \A m \in Owners : Newest(ownerCache[m], ownerNews'[m]) = Newest(ownerCache[m], ownerNews[m])
    BY <2>2
  <2> QED
    BY <2>1, <2>3, <2>4 DEF InformersFollow, Newest, caches
<1>12. ASSUME NEW n \in Owners, EditOwner(n) PROVE InformersFollow'
  BY <1>12, EditsAreOwners, WritesAreFollowed DEF Outside
<1>16. CASE \/ Resync \/ UNCHANGED vars
            \/ \E c \in Clusters : Take(c) \/ Wake(c)
            \/ \E s \in Secrets : DeliverSecret(s) \/ ListFailsForSecret(s) \/ EditSecret(s)
  BY <1>0, <1>16 DEF Resync, Take, Wake, DeliverSecret, ListFailsForSecret, EditSecret,
     Outside, vars, api
<1> QED
  BY <1>1, <1>2, <1>3, <1>5, <1>8, <1>9, <1>11, <1>12, <1>16 DEF Next

LEMMA ViewInductive ==
    ASSUME TypeOK, ViewIsCurrent, [Next]_vars
    PROVE  ViewIsCurrent'
<1>1. CASE Step \/ CallFails
  <2>1. worker.stage # "idle" /\ worker.key \in Clusters
    BY <1>1, WorkerSteps
  <2>2. CASE worker' = Idle
    BY <2>2, IdleHolds DEF ViewIsCurrent
  <2>3. CASE /\ \E stage \in Stages \ {"idle"}, view \in {worker.view, object[worker.key]} :
                    worker' = [worker EXCEPT !.stage = stage, !.view = view]
             /\ UNCHANGED <<api, unseen>>
    BY <2>1, <2>3 DEF ViewIsCurrent, TypeOK, api
  <2> QED
    BY <1>1, <2>2, <2>3, WorkerSteps
<1>2. CASE Crash
  BY <1>2, IdleHolds DEF Crash, ViewIsCurrent
<1>3. ASSUME NEW c \in Clusters, Take(c) PROVE ViewIsCurrent'
  BY <1>3, IdleHolds DEF Take, ViewIsCurrent, api
<1>4. ASSUME NEW c \in Clusters, EditObject(c) \/ Vanish(c) PROVE ViewIsCurrent'
  <2>1. /\ \A d \in Clusters \ {c} : object'[d] = object[d]
        /\ unseen' = unseen \cup {c} /\ worker' = worker
    BY <1>4, EditsAreObjects, ObjectWritten DEF Outside
  <2> QED
    BY <2>1 DEF ViewIsCurrent
<1>5. ASSUME NEW n \in Owners, EditOwner(n) PROVE ViewIsCurrent'
  <2>1. object' = object /\ unseen \subseteq unseen' /\ worker' = worker
    BY <1>5, EditsAreOwners, OwnerWritten DEF Outside
  <2> QED
    BY <2>1 DEF ViewIsCurrent
<1>6. CASE UNCHANGED <<object, worker>> /\ unseen \subseteq unseen'
  BY <1>6 DEF ViewIsCurrent
<1> QED
  BY <1>1, <1>2, <1>3, <1>4, <1>5, <1>6 DEF Next, Start, Resync, DeliverObject, Wake,
     DeliverOwner, ListFails, Relist, DeliverSecret, ListFailsForSecret, EditSecret, Outside,
     vars, api


------------------------------------------------------------------------------
(* Nothing is forgotten                                                      *)

\* A change that has been seen, or has been waiting, is no worse off.
LEMMA CoverLasts ==
    ASSUME TypeOK, UnseenIsCovered,
           UNCHANGED <<up, object, objectNews, ownerNews, secretNews, ownerCache>>,
           \A c \in Clusters : c \in unseen' \ missed' => c \in unseen \ missed,
           \A c \in Clusters : c \in unseen' \cap queue => c \in queue'
    PROVE  UnseenIsCovered'
BY DEF UnseenIsCovered, Covered

\* What an informer delivers of an owner becomes a request, unless it cannot
\* be turned into one, which counts as missed.
LEMMA OwnerNewsCovered ==
    ASSUME Inv, NEW n \in Owners, Delivers(n),
           UNCHANGED <<up, object, objectNews, secretNews, objectCache, unseen>>,
           queue \subseteq queue', missed \subseteq missed',
           OwnerRequests(n, Head(ownerNews[n])) \subseteq queue' \cup missed'
    PROVE  UnseenIsCovered'
<1> SUFFICES ASSUME NEW c \in Clusters, up, Exists(object[c]), c \in unseen \ missed'
             PROVE  Covered(c)'
  BY DEF UnseenIsCovered
<1>1. Covered(c)
  BY DEF Inv, UnseenIsCovered
<1>2. CASE c \in queue \/ objectNews[c] # <<>> \/ RefOf[c] \in secretNews
  BY <1>2 DEF Covered
<1>3. CASE /\ objectNews[c] = <<>>
           /\ WillWake(ownerCache[OwnerOf[c]], ownerNews[OwnerOf[c]], object[c].ref)
  <2>1. objectCache[c] = object[c]
    BY <1>3 DEF Inv, InformersFollow, Newest
  <2>2. CASE OwnerOf[c] # n
    BY <1>3, <2>2, OwnerDelivered, QueueAssumption DEF Inv, Covered
  <2>3. CASE OwnerOf[c] = n /\ Wakes(ownerCache[n], Head(ownerNews[n]), object[c].ref)
    <3>1. c \in OwnerRequests(n, Head(ownerNews[n]))
      BY <2>1, <2>3 DEF Wakes, OwnerRequests, RequestsForCluster, Cached
    <3> QED
      BY <3>1 DEF Covered
  <2>4. CASE OwnerOf[c] = n /\ ~Wakes(ownerCache[n], Head(ownerNews[n]), object[c].ref)
    <3>1. /\ ownerNews[n] \in Seq(Owner) /\ ownerNews[n] # <<>>
          /\ ownerCache'[n] = Head(ownerNews[n]) /\ ownerNews'[n] = Tail(ownerNews[n])
      BY OwnerDelivered DEF Inv
    <3>2. WillWake(Head(ownerNews[n]), Tail(ownerNews[n]), object[c].ref)
      BY <1>3, <2>4, <3>1, WakesDelivered
    <3> QED
      BY <2>4, <3>1, <3>2 DEF Covered
  <2> QED
    BY <2>2, <2>3, <2>4
<1> QED
  BY <1>1, <1>2, <1>3 DEF Covered

\* What an informer delivers of a Secret does, too.
LEMMA SecretNewsCovered ==
    ASSUME Inv, NEW s \in Secrets, secretNews' = secretNews \ {s},
           UNCHANGED <<up, object, objectNews, ownerNews, objectCache, ownerCache, unseen>>,
           queue \subseteq queue', missed \subseteq missed',
           RequestsForSecret(s) \subseteq queue' \cup missed'
    PROVE  UnseenIsCovered'
<1> SUFFICES ASSUME NEW c \in Clusters, up, Exists(object[c]), c \in unseen \ missed'
             PROVE  Covered(c)'
  BY DEF UnseenIsCovered
<1>1. Covered(c)
  BY DEF Inv, UnseenIsCovered
<1>2. CASE RefOf[c] = s /\ objectNews[c] = <<>>
  <2>1. objectCache[c] = object[c]
    BY <1>2 DEF Inv, InformersFollow, Newest
  <2>2. c \in RequestsForSecret(s)
    BY <1>2, <2>1 DEF RequestsForSecret, Cached
  <2> QED
    BY <2>2 DEF Covered
<1>3. CASE RefOf[c] # s \/ objectNews[c] # <<>>
  BY <1>1, <1>3 DEF Covered
<1> QED
  BY <1>2, <1>3

\* A write to an OpenStackCluster is news of it.
LEMMA ObjectWritesCovered ==
    ASSUME TypeOK, UnseenIsCovered, NEW c \in Clusters, NEW o \in Object, WriteObject(c, o),
           UNCHANGED <<caches, up, queue, missed>>
    PROVE  UnseenIsCovered'
<1>1. /\ \A d \in Clusters \ {c} : object'[d] = object[d] /\ objectNews'[d] = objectNews[d]
      /\ objectNews'[c] = IF up THEN Append(objectNews[c], object'[c]) ELSE objectNews[c]
      /\ unseen' = unseen \cup {c} /\ UNCHANGED <<owner, ownerNews, secretNews>>
      /\ objectNews[c] \in Seq(Object) /\ object'[c] \in Object
  BY ObjectWritten DEF TypeOK
<1>2. Append(objectNews[c], object'[c]) # <<>>
  BY <1>1, AppendProperties
<1>3. up => Covered(c)'
  BY <1>1, <1>2 DEF Covered
<1>4. \A d \in Clusters \ {c} : Covered(d) => Covered(d)'
  BY <1>1 DEF Covered, caches
<1> QED
  BY <1>1, <1>3, <1>4 DEF UnseenIsCovered

\* So is a change of an owner, for the clusters it matters to.
LEMMA OwnerWritesCovered ==
    ASSUME Inv, NEW n \in Owners, NEW o \in Owner, WriteOwner(n, o),
           ClusterPauseChanged(owner[n], o), UNCHANGED <<caches, up, queue, missed>>
    PROVE  UnseenIsCovered'
<1> SUFFICES ASSUME NEW c \in Clusters, up, Exists(object[c]), c \in unseen' \ missed
             PROVE  Covered(c)'
  BY OwnerWritten DEF Inv, UnseenIsCovered
<1>1. /\ \A m \in Owners \ {n} : ownerNews'[m] = ownerNews[m]
      /\ ownerNews'[n] = Append(ownerNews[n], o) /\ ownerNews[n] \in Seq(Owner)
      /\ unseen' = unseen \cup {d \in Clusters : /\ OwnerOf[d] = n
                                 /\ object[d].ref \in {owner[n].uid, o.uid} \ {0}}
      /\ UNCHANGED <<object, objectNews, secretNews, ownerCache>>
  BY OwnerWritten DEF Inv, TypeOK, caches
<1>2. CASE c \in unseen
  <2>1. Covered(c)
    BY <1>2 DEF Inv, UnseenIsCovered
  <2>2. CASE OwnerOf[c] = n /\ WillWake(ownerCache[n], ownerNews[n], object[c].ref)
    <3>1. WillWake(ownerCache[n], Append(ownerNews[n], o), object[c].ref)
      BY <1>1, <2>2, WakesLater
    <3> QED
      BY <1>1, <2>2, <3>1 DEF Covered
  <2>3. CASE OwnerOf[c] # n \/ ~WillWake(ownerCache[n], ownerNews[n], object[c].ref)
    BY <1>1, <2>1, <2>3, QueueAssumption DEF Covered
  <2> QED
    BY <2>2, <2>3
<1>3. CASE c \notin unseen
  <2>1. OwnerOf[c] = n /\ object[c].ref \in {owner[n].uid, o.uid} \ {0}
    BY <1>1, <1>3
  <2>2. Newest(ownerCache[n], ownerNews[n]) = owner[n]
    BY DEF Inv, InformersFollow
  <2>3. WillWake(ownerCache[n], Append(ownerNews[n], o), object[c].ref)
    BY <1>1, <2>1, <2>2, WakesNow DEF Wakes
  <2> QED
    BY <1>1, <2>1, <2>3 DEF Covered
<1> QED
  BY <1>2, <1>3

LEMMA CoverInductive ==
    ASSUME Inv, [Next]_vars
    PROVE  UnseenIsCovered'
<1>t. TypeOK /\ UnseenIsCovered /\ ViewIsCurrent
  BY DEF Inv
<1>1. CASE Step \/ CallFails
  <2>1. worker.key \in Clusters /\ UNCHANGED <<caches, up, missed, queue>>
    BY <1>1, <1>t, WorkerSteps
  <2>2. CASE \E o \in Object : WriteObject(worker.key, o)
    BY <1>t, <2>1, <2>2, ObjectWritesCovered
  <2>3. CASE UNCHANGED <<api, unseen>>
    BY <1>t, <2>1, <2>3, CoverLasts DEF api, caches
  <2> QED
    BY <1>1, <1>t, <2>2, <2>3, WorkerSteps
<1>2. CASE Start
  BY <1>2 DEF Start, UnseenIsCovered, Covered, api
<1>3. CASE Crash
  BY <1>3 DEF Crash, UnseenIsCovered
<1>5. ASSUME NEW c \in Clusters, DeliverObject(c) PROVE UnseenIsCovered'
  <2>1. /\ \A d \in Clusters \ {c} : objectNews'[d] = objectNews[d]
        /\ c \in queue' /\ queue \subseteq queue'
        /\ UNCHANGED <<up, object, ownerNews, secretNews, ownerCache, unseen, missed>>
    BY <1>5, <1>t, ObjectDelivered DEF DeliverObject, Add
  <2>2. Covered(c)' /\ \A d \in Clusters \ {c} : Covered(d) => Covered(d)'
    BY <2>1 DEF Covered
  <2> QED
    BY <1>t, <2>1, <2>2 DEF UnseenIsCovered
<1>8. ASSUME NEW c \in Clusters, EditObject(c) \/ Vanish(c) PROVE UnseenIsCovered'
  BY <1>8, <1>t, EditsAreObjects, ObjectWritesCovered DEF Outside, requests
<1>9. ASSUME NEW n \in Owners, DeliverOwner(n) PROVE UnseenIsCovered'
  <2>1. /\ Delivers(n) /\ queue' = queue \cup OwnerRequests(n, Head(ownerNews[n]))
        /\ UNCHANGED <<up, object, objectNews, secretNews, objectCache, unseen, missed>>
    BY <1>9 DEF DeliverOwner, Delivers, Add
  <2> QED
    BY <2>1, OwnerNewsCovered
<1>10. ASSUME NEW n \in Owners, ListFails(n) PROVE UnseenIsCovered'
  <2>1. /\ Delivers(n) /\ missed' = missed \cup OwnerRequests(n, Head(ownerNews[n]))
        /\ UNCHANGED <<up, object, objectNews, secretNews, objectCache, unseen, queue>>
    BY <1>10 DEF ListFails, Delivers, requests
  <2> QED
    BY <2>1, OwnerNewsCovered
<1>11. ASSUME NEW n \in Owners, Relist(n) PROVE UnseenIsCovered'
  <2>1. /\ \A m \in Owners \ {n} : ownerNews'[m] = ownerNews[m]
        /\ missed' = missed \cup {c \in Clusters : OwnerOf[c] = n}
        /\ UNCHANGED <<up, object, objectNews, secretNews, ownerCache, unseen, queue>>
    BY <1>11, <1>t, Relisted DEF Relist, caches, requests
  <2>2. \A c \in Clusters : OwnerOf[c] # n => (Covered(c) => Covered(c)')
    BY <2>1, QueueAssumption DEF Covered
  <2> QED
    BY <1>t, <2>1, <2>2 DEF UnseenIsCovered
<1>12. ASSUME NEW n \in Owners, EditOwner(n) PROVE UnseenIsCovered'
  BY <1>12, <1>t, EditsAreOwners, OwnerWritesCovered DEF Outside, requests
<1>13. ASSUME NEW s \in Secrets, DeliverSecret(s) \/ ListFailsForSecret(s) PROVE UnseenIsCovered'
  BY <1>13, SecretNewsCovered DEF DeliverSecret, ListFailsForSecret, Add, caches, requests
<1>15. ASSUME NEW s \in Secrets, EditSecret(s) PROVE UnseenIsCovered'
  <2>1. /\ secretNews' = IF up THEN secretNews \cup {s} ELSE secretNews
        /\ unseen' = unseen \cup {c \in Clusters : RefOf[c] = s}
        /\ UNCHANGED <<object, objectNews, ownerNews, ownerCache, up, queue, missed>>
    BY <1>15 DEF EditSecret, Outside, caches, requests
  <2>2. up => \A c \in Clusters : Covered(c) \/ RefOf[c] = s => Covered(c)'
    BY <2>1 DEF Covered
  <2> QED
    BY <1>t, <2>1, <2>2 DEF UnseenIsCovered
<1>16. CASE Resync \/ UNCHANGED vars \/ \E c \in Clusters : Take(c) \/ Wake(c)
  BY <1>16, <1>t, CoverLasts DEF Resync, Add, Take, Wake, vars, api, caches, requests
<1> QED
  BY <1>1, <1>2, <1>3, <1>5, <1>8, <1>9, <1>10, <1>11, <1>12, <1>13, <1>15, <1>16 DEF Next


------------------------------------------------------------------------------
(* What is seen is settled                                                   *)

\* A reconciliation ends for good only when it has found a cluster settled,
\* unless something has happened since its first read.
LEMMA EndsSettled ==
    ASSUME Inv, Step \/ CallFails, NEW k, k = worker.key, worker' = Idle,
           k \notin delayed', k \notin unseen'
    PROVE  ~Unsettled(k)'
<1> DEFINE o == object[k]
<1>0. /\ k \in Clusters /\ worker.stage # "idle" /\ Idle.key = None /\ k # None
      /\ unseen \subseteq unseen'
  <2>1. unseen \subseteq unseen'
    <3>1. CASE \E q \in Object : WriteObject(k, q)
      BY <3>1 DEF WriteObject
    <3> QED
      BY <3>1, WorkerSteps DEF Inv
  <2> QED
    BY <2>1, WorkerSteps, IdleHolds, QueueAssumption DEF Inv
<1>1. worker.view = o /\ o \in Object
  BY <1>0 DEF Inv, ViewIsCurrent, TypeOK
<1>2. UNCHANGED <<object, owner>>
  <2>1. ~\E q \in Object : WriteObject(k, q)
    BY <1>0, ObjectWritten DEF Inv
  <2> QED
    BY <2>1, WorkerSteps DEF Inv, api
<1>3. Unsettled(k)' <=> Unsettled(k)
  BY <1>2 DEF Unsettled, Exists, Paused
<1>4. IsPaused(o) <=> Paused(k)
  <2>1. IsPaused(o) => Paused(k)
    BY DEF IsPaused, Paused
  <2>2. Paused(k) => IsPaused(o)
    BY <1>0, <1>1, QueueAssumption DEF IsPaused, Paused, Exists, TypeOK, Inv
  <2> QED
    BY <2>1, <2>2
<1>5. ~(CallFails \/ CleanupAgain)
  BY <1>0 DEF CallFails, CleanupAgain, Finish
<1>6. ~CleanupDone
  <2>1. SUFFICES ASSUME CleanupDone PROVE FALSE
    OBVIOUS
  <2>2. worker'.key = worker.key
    BY <2>1 DEF CleanupDone, Goto, Inv, TypeOK
  <2> QED
    BY <1>0, <2>2
<1>7. \A stage, view : ~Goto(stage, view)
  <2>1. \A stage, view : Goto(stage, view) => worker'.key = worker.key
    BY DEF Goto, Inv, TypeOK
  <2> QED
    BY <1>0, <2>1
<1>8. ~Finish("again")
  BY <1>0 DEF Finish
<1> HIDE DEF o
<1>9. CASE Dispatch
  <2>1. IsPaused(o) \/ o.deleting # o.finalizer
    BY <1>1, <1>7, <1>9 DEF Dispatch
  <2>2. ~Unsettled(k)
    BY <1>1, <1>4, <2>1 DEF Unsettled, Object, o
  <2> QED
    BY <1>3, <2>2
<1>10. CASE Check
  <2>1. ~Exists(o) \/ (~o.deleting /\ (o.deleting \/ o.finalizer)) \/ o.paused
    BY <1>1, <1>7, <1>8, <1>10 DEF Check, o
  <2>2. ~Unsettled(k)
    BY <1>1, <2>1 DEF Unsettled, Paused, Object, o
  <2> QED
    BY <1>3, <2>2
<1>11. CASE CheckPaused
  <2>1. IsPaused(o)
    BY <1>1, <1>7, <1>11 DEF CheckPaused
  <2>2. ~Unsettled(k)
    BY <1>4, <2>1 DEF Unsettled
  <2> QED
    BY <1>3, <2>2
<1>12. CASE Patch
  <2>1. ~Exists(o)
    <3>1. CASE Exists(o) /\ o.rv = worker.view.rv
      <4>1. k \in unseen'
        BY <1>12, <3>1 DEF Patch, WriteObject, o
      <4> QED
        BY <4>1
    <3>2. CASE Exists(o) /\ o.rv # worker.view.rv
      BY <1>1, <3>2
    <3> QED
      BY <3>1, <3>2
  <2>2. ~Unsettled(k)
    BY <2>1 DEF Unsettled, o
  <2> QED
    BY <1>3, <2>2
<1> QED
  BY <1>5, <1>6, <1>9, <1>10, <1>11, <1>12 DEF Step

\* What nobody has changed stays settled.
LEMMA StaysSettled ==
    ASSUME SeenIsSettled, UNCHANGED <<object, owner, up>>,
           \A c \in Clusters : worker'.key # c /\ c \notin queue' \cup delayed' \cup unseen' =>
               worker.key # c /\ c \notin queue \cup delayed \cup unseen
    PROVE  SeenIsSettled'
<1>1. \A c : Unsettled(c)' <=> Unsettled(c)
  BY DEF Unsettled, Exists, Paused
<1> QED
  BY <1>1 DEF SeenIsSettled

\* A write to an OpenStackCluster has not been seen.
LEMMA WritesAreUnseen ==
    ASSUME TypeOK, SeenIsSettled, NEW c \in Clusters, NEW o \in Object, WriteObject(c, o),
           UNCHANGED <<up, queue>>, delayed \subseteq delayed',
           \A d \in Clusters \ {c} : worker'.key # d => worker.key # d
    PROVE  SeenIsSettled'
<1>1. /\ \A d \in Clusters \ {c} : object'[d] = object[d]
      /\ unseen' = unseen \cup {c} /\ UNCHANGED owner
  BY ObjectWritten
<1>2. \A d \in Clusters \ {c} : Unsettled(d)' <=> Unsettled(d)
  BY <1>1 DEF Unsettled, Exists, Paused
<1> QED
  BY <1>1, <1>2 DEF SeenIsSettled

LEMMA SettledInductive ==
    ASSUME Inv, [Next]_vars
    PROVE  SeenIsSettled'
<1>t. TypeOK /\ SeenIsSettled /\ ViewIsCurrent
  BY DEF Inv
<1>1. CASE Step \/ CallFails
  <2>1. /\ worker.key \in Clusters /\ worker.key # None /\ Idle.key = None
        /\ UNCHANGED <<up, queue>>
        /\ delayed \subseteq delayed' /\ delayed' \subseteq delayed \cup {worker.key}
    BY <1>1, <1>t, WorkerSteps, IdleHolds, QueueAssumption
  <2>2. CASE \E o \in Object : WriteObject(worker.key, o)
    BY <1>t, <2>1, <2>2, WritesAreUnseen
  <2>3. CASE UNCHANGED <<api, unseen>> /\ worker' # Idle
    <3>1. worker'.key = worker.key /\ delayed' = delayed
      <4>1. /\ \E stage \in Stages \ {"idle"}, view \in {worker.view, object[worker.key]} :
                   worker' = [worker EXCEPT !.stage = stage, !.view = view]
            /\ delayed' = delayed
        BY <1>1, <1>t, <2>3, WorkerSteps
      <4> QED
        BY <1>t, <4>1 DEF TypeOK
    <3> QED
      BY <1>t, <2>1, <2>3, <3>1, StaysSettled DEF api
  <2>4. CASE UNCHANGED <<api, unseen>> /\ worker' = Idle
    <3>1. \A c \in Clusters : Unsettled(c)' <=> Unsettled(c)
      BY <2>4 DEF api, Unsettled, Exists, Paused
    <3>2. ASSUME NEW c \in Clusters, up, c # worker.key, c \notin queue \cup delayed \cup unseen
          PROVE  ~Unsettled(c)
      BY <3>2, <1>t DEF SeenIsSettled
    <3>3. \A c : c = worker.key /\ c \notin delayed' /\ c \notin unseen' => ~Unsettled(c)'
      BY <1>1, <2>4, EndsSettled
    <3> QED
      BY <2>1, <2>4, <3>1, <3>2, <3>3 DEF SeenIsSettled
  <2> QED
    BY <1>1, <1>t, <2>2, <2>3, <2>4, WorkerSteps
<1>2. CASE Start
  BY <1>2 DEF Start, SeenIsSettled, Unsettled, Exists, api
<1>3. CASE Crash
  BY <1>3 DEF Crash, SeenIsSettled
<1>6. ASSUME NEW c \in Clusters, Take(c) PROVE SeenIsSettled'
  <2>1. /\ UNCHANGED <<object, owner, up>> /\ queue' = queue \ {c} /\ delayed' = delayed
        /\ unseen' = unseen \ {c} /\ worker.key = None /\ Idle.key = None
        /\ worker' = IF Exists(object[c])
                     THEN [stage |-> "isPaused", key |-> c, view |-> object[c]] ELSE Idle
    BY <1>6, <1>t, IdleHolds DEF Take, ViewIsCurrent, api
  <2>2. \A d \in Clusters : Unsettled(d)' <=> Unsettled(d)
    BY <2>1 DEF Unsettled, Exists, Paused
  <2>3. worker'.key # c => ~Unsettled(c)
    BY <2>1 DEF Unsettled
  <2>4. \A d \in Clusters \ {c} : worker.key # d
    BY <2>1, QueueAssumption
  <2> QED
    BY <1>t, <2>1, <2>2, <2>3, <2>4 DEF SeenIsSettled
<1>8. ASSUME NEW c \in Clusters, EditObject(c) \/ Vanish(c) PROVE SeenIsSettled'
  BY <1>8, <1>t, EditsAreObjects, WritesAreUnseen DEF Outside, requests
<1>12. ASSUME NEW n \in Owners, EditOwner(n) PROVE SeenIsSettled'
  <2>1. PICK o \in Owner : WriteOwner(n, o)
    BY <1>12, <1>t, EditsAreOwners
  <2>2. /\ \A m \in Owners \ {n} : owner'[m] = owner[m]
        /\ owner'[n] = o /\ UNCHANGED object
        /\ unseen' = unseen \cup {c \in Clusters : /\ OwnerOf[c] = n
                                   /\ object[c].ref \in {owner[n].uid, o.uid} \ {0}}
    BY <1>t, <2>1, OwnerWritten
  <2>3. UNCHANGED <<up, queue, delayed, worker>>
    BY <1>12, <1>t, EditsAreOwners DEF Outside, requests
  <2>4. ASSUME NEW c \in Clusters, c \notin unseen' PROVE Unsettled(c)' <=> Unsettled(c)
    <3>1. CASE OwnerOf[c] # n
      BY <2>2, <3>1, QueueAssumption DEF Unsettled, Exists, Paused
    <3>2. CASE OwnerOf[c] = n
      <4>1. object[c].ref \notin {owner[n].uid, o.uid} \ {0}
        BY <2>2, <2>4, <3>2
      <4>2. Paused(c) <=> object[c].paused
        BY <3>2, <4>1 DEF Paused, Exists
      <4>3. Paused(c)' <=> object[c].paused
        BY <2>2, <3>2, <4>1 DEF Paused, Exists
      <4> QED
        BY <2>2, <4>2, <4>3 DEF Unsettled, Exists
    <3> QED
      BY <3>1, <3>2
  <2> QED
    BY <1>t, <2>2, <2>3, <2>4 DEF SeenIsSettled
<1>13. CASE \/ Resync \/ UNCHANGED vars \/ \E c \in Clusters : DeliverObject(c) \/ Wake(c)
            \/ \E n \in Owners : DeliverOwner(n) \/ ListFails(n) \/ Relist(n)
            \/ \E s \in Secrets : DeliverSecret(s) \/ ListFailsForSecret(s) \/ EditSecret(s)
  <2>1. UNCHANGED <<object, owner, up, worker>>
    BY <1>13 DEF Resync, Add, DeliverObject, Wake, DeliverOwner, ListFails, Relist,
       DeliverSecret, ListFailsForSecret, EditSecret, Outside, vars, api, caches, requests
  <2>2. \A c \in Clusters : c \notin queue' \cup delayed' \cup unseen' =>
            c \notin queue \cup delayed \cup unseen
    BY <1>13 DEF Resync, Add, DeliverObject, Wake, DeliverOwner, ListFails, Relist,
       DeliverSecret, ListFailsForSecret, EditSecret, Outside, vars, api, caches, requests
  <2> QED
    BY <1>t, <2>1, <2>2, StaysSettled
<1> QED
  BY <1>1, <1>2, <1>3, <1>6, <1>8, <1>12, <1>13 DEF Next

------------------------------------------------------------------------------
(* The theorems                                                              *)

LEMMA InitInv == Init => Inv
<1> SUFFICES ASSUME Init PROVE Inv
  OBVIOUS
<1>1. [Idle.view EXCEPT !.uid = 1, !.rv = 1, !.ref = 1] \in Object
  BY IdleHolds DEF Object
<1>2. TypeOK
  <2>1. <<>> \in Seq(Object) /\ <<>> \in Seq(Owner) /\ [uid |-> 1, pause |-> {}] \in Owner
    BY DEF Owner
  <2> QED
    <3>1. /\ 0 \in 0 .. MaxEdits /\ 0 \in 0 .. MaxFaults
      BY QueueAssumption
    <3>2. object \in [Clusters -> Object] /\ objectCache \in [Clusters -> Object]
      BY <1>1 DEF Init
    <3>3. owner \in [Owners -> Owner] /\ ownerCache \in [Owners -> Owner]
      BY <2>1 DEF Init
    <3>4. objectNews \in [Clusters -> Seq(Object)] /\ ownerNews \in [Owners -> Seq(Owner)]
      BY <2>1 DEF Init
    <3> QED
      BY <3>1, <3>2, <3>3, <3>4, IdleHolds DEF Init, TypeOK
<1>3. InformersFollow /\ UnseenIsCovered /\ ViewIsCurrent /\ SeenIsSettled
  BY IdleHolds DEF Init, InformersFollow, UnseenIsCovered, ViewIsCurrent, SeenIsSettled
<1> QED
  BY <1>2, <1>3 DEF Inv

LEMMA NextInv ==
    ASSUME Inv, [Next]_vars
    PROVE  Inv'
BY TypeInductive, InformersInductive, CoverInductive, ViewInductive, SettledInductive DEF Inv

\* Informers end in the state of the API, changes that were not seen are on
\* their way, and what was seen is settled.
THEOREM WatchInv == Spec => []Inv
<1>1. Inv /\ [Next]_vars => Inv'
  BY NextInv
<1> QED
  BY <1>1, InitInv, PTL DEF Spec

\* Every variable has its type.
THEOREM WatchTypes == Spec => []TypeOK
<1>1. Inv => TypeOK
  BY DEF Inv
<1> QED
  BY <1>1, WatchInv, PTL

\* A change of a cluster, of its owner's pause or of its Secret is always on
\* its way to a reconciliation that has yet to begin, unless a fault has lost
\* its notification.
THEOREM ChangesTrigger == Spec => []ChangesTriggerReconciliation
<1>1. Inv => ChangesTriggerReconciliation
  <2>1. \A c \in Clusters : Covered(c) => c \in queue \/ News(c)
    <3> SUFFICES ASSUME NEW c \in Clusters, Covered(c) PROVE c \in queue \/ News(c)
      OBVIOUS
    <3>1. ASSUME ownerNews[OwnerOf[c]] = <<>>
          PROVE  ~WillWake(ownerCache[OwnerOf[c]], ownerNews[OwnerOf[c]], object[c].ref)
      BY <3>1 DEF WillWake
    <3> QED
      BY <3>1 DEF Covered, News
  <2> QED
    BY <2>1 DEF Inv, UnseenIsCovered, ChangesTriggerReconciliation
<1> QED
  BY <1>1, WatchInv, PTL

\* A cluster that nothing will make a reconciliation look at again has nothing
\* left to be done.
THEOREM QuietIsSettled == Spec => []QuietMeansSettled
<1>1. Inv /\ ChangesTriggerReconciliation => QuietMeansSettled
  BY DEF Inv, SeenIsSettled, ChangesTriggerReconciliation, QuietMeansSettled, Quiet, Unsettled
<1> QED
  BY <1>1, WatchInv, ChangesTrigger, PTL
==============================================================================
