----------------------------- MODULE RunnerProofs -----------------------------
(***************************************************************************)
(* The cleanup runner on any set of resources: what its inventories are     *)
(* worth by the time it deletes, and what a pass that reports completion    *)
(* means.                                                                   *)
(***************************************************************************)
EXTENDS CleanupRunner, SequenceTheorems, TLAPS

------------------------------------------------------------------------------
(* The invariant                                                             *)

\* Types of what the matrix reads and an inventory shows.
Tags == \A l \in LoadBalancers : tags[l] \subseteq Seq(STRING)

\* A fact of an inventory: tags are only added, and a port is the VIP's or
\* unknown; two facts are about two load balancers.
FactsHold ==
    /\ \A f \in listed : /\ f.id \in LoadBalancers /\ f.tags \subseteq tags[f.id]
                         /\ f.port \in {VIPPort[f.id], NoPort}
    /\ \A f \in listed, g \in listed : f.id = g.id => f = g

\* A load balancer that is shared, and that nobody is about to delete.
Safe(m) ==
    /\ m \in LoadBalancers /\ NameMatches(m) /\ ~Exclusive(m)
    /\ status[m] = "active" /\ m \notin todo
    /\ \A f \in listed : f.id = m => Protected(f)

\* A load balancer goes only after the floating IPs of the cluster on its VIP,
\* but for those that another, shared load balancer protects.
VIPsKept ==
    \A l \in LoadBalancers, i \in FloatingIPs :
        /\ NameMatches(l) /\ (status[l] # "active" \/ l \in todo)
        /\ Exists(i) /\ OwnerName[i] = ClusterName /\ AttachedPort[i] = VIPPort[l]
        => \E m \in LoadBalancers : Safe(m) /\ VIPPort[m] = AttachedPort[i]

\* Nothing is left of these.
Cleared(kinds) == kinds \cap Remaining = {}

\* What has been cleared at each call.
PhasesDone ==
    /\ pc = "listSecurityGroups" => Cleared(FloatingIPs \cup LoadBalancers)
    /\ pc = "listSnapshots" => Cleared(FloatingIPs \cup LoadBalancers \cup SecurityGroups)
    /\ pc = "listVolumes" =>
          Cleared(FloatingIPs \cup LoadBalancers \cup SecurityGroups \cup Snapshots)
    /\ pc \in {"listSnapshots", "listVolumes"} => deleteVolumes
    /\ \A x \in todo : Cleared(Before(x))

\* What the preflight has seen: every load balancer that exists, those that it
\* would delete as they were, and whatever protected a floating IP.
Preflight ==
    pc = "listFloatingIPs" =>
        /\ \A l \in LoadBalancers : Exists(l) => \E f \in listed : f.id = l
        /\ SelectedLoadBalancers(listed) \cap vetoed = {}
        /\ \A i \in FloatingIPs \cap vetoed :
              \/ ~Exists(i) \/ OwnerName[i] # ClusterName
              \/ AttachedPort[i] \in ProtectedPorts(listed)
              \/ NoPort \in ProtectedPorts(listed)

\* What was not the cluster's when the pass began does not become the cluster's.
VetoLasts == todo \cap vetoed = {} /\ vetoed \cap Remaining = {}

Inv == /\ TypeOK /\ Tags /\ FactsHold /\ VIPsKept
       /\ PhasesDone /\ Preflight /\ VetoLasts

------------------------------------------------------------------------------
(* Names and tags                                                            *)

\* A name is well-formed for the cluster, read from its right end, exactly if
\* it is a valid Service tag, read from its left end (isValidServiceTag).
LEMMA ValidTagNames ==
    ASSUME NEW s \in Seq(STRING)
    PROVE  IsValidServiceTag(s, ClusterName) <=> NamedFor(s)
<1> DEFINE n == Len(s)  k == Len(ClusterName)  cut(m) == SubSeq(s, 1, m) = ClusterName
           named == s[n - 1] # "" /\ s[n] # ""
<1>1. n \in Nat /\ k \in Nat \ {0}
  BY PartsAssumption
<1>2. IsValidServiceTag(s, ClusterName) <=> n > k /\ cut(k) /\ n = k + 2 /\ named
  BY DEF IsValidServiceTag, HasClusterPrefix
<1>3. NamedFor(s) <=> n > 2 /\ named /\ cut(n - 2)
  BY DEF NamedFor, WellFormed
<1>4. n > 2 /\ cut(n - 2) => n = k + 2
  <2> SUFFICES ASSUME n > 2, SubSeq(s, 1, n - 2) = ClusterName PROVE n = k + 2
    OBVIOUS
  <2>1. \A i \in 1 .. n - 2 : s[i] \in STRING
    BY <1>1
  <2>2. Len(SubSeq(s, 1, n - 2)) = n - 2
    BY <1>1, <2>1, SubSeqProperties
  <2> QED
    BY <1>1, <2>2
<1> HIDE DEF n, k, cut, named
<1>5. n = k + 2 => n - 2 = k /\ n > 2 /\ n > k
  BY <1>1
<1> QED
  BY <1>2, <1>3, <1>4, <1>5

\* The name of a load balancer matches exactly if it is well-formed for the
\* cluster.
LEMMA MatchingNames ==
    ASSUME NEW l \in LoadBalancers
    PROVE  NameMatches(l) <=> NamedFor(LBName[l])
<1>1. LBName[l] \in Seq(STRING)
  BY PartsAssumption
<1>2. NamedFor(LBName[l]) => NameMatches(l)
  BY <1>1, ValidTagNames DEF IsValidServiceTag, NameMatches
<1> QED
  BY <1>2, NamesAssumption

\* A load balancer is the cluster's exactly if its name matches and no tag
\* vetoes it.
LEMMA ExclusiveIsUnvetoed ==
    ASSUME Tags, NEW l \in LoadBalancers
    PROVE  Exclusive(l) <=> NameMatches(l) /\ ~HasForeignOrInvalidTag(tags[l], ClusterName)
<1>1. \A t \in tags[l] : IsValidServiceTag(t, ClusterName) <=> NamedFor(t)
  BY ValidTagNames DEF Tags
<1> QED
  BY <1>1, MatchingNames DEF Exclusive, HasForeignOrInvalidTag

\* Tags that are added do not lift a veto.
LEMMA VetoesGrow ==
    ASSUME NEW old, NEW new, old \subseteq new, HasForeignOrInvalidTag(old, ClusterName)
    PROVE  HasForeignOrInvalidTag(new, ClusterName)
BY DEF HasForeignOrInvalidTag

\* What a fact says of its load balancer, which may be more by now.
LEMMA FactIsTrue ==
    ASSUME Tags, FactsHold, NEW f \in listed
    PROVE  /\ Protected(f) => NameMatches(f.id) /\ ~Exclusive(f.id)
           /\ NameMatches(f.id) /\ ~Protected(f) =>
                 ~HasForeignOrInvalidTag(f.tags, ClusterName)
BY ExclusiveIsUnvetoed, VetoesGrow DEF FactsHold, Protected

\* A valid tag names one cluster: no load balancer with a reserved tag passes
\* for exclusive with two clusters, not even when one name begins like the other.
THEOREM TagsNameOneCluster ==
    ASSUME NEW s \in Seq(STRING), NEW a \in Seq(STRING), NEW b \in Seq(STRING),
           IsValidServiceTag(s, a), IsValidServiceTag(s, b)
    PROVE  a = b
<1>1. Len(s) = Len(a) + 2 /\ Len(s) = Len(b) + 2
  BY DEF IsValidServiceTag
<1>2. SubSeq(s, 1, Len(a)) = a /\ SubSeq(s, 1, Len(b)) = b
  BY DEF IsValidServiceTag, HasClusterPrefix
<1>3. Len(a) = Len(b)
  <2>1. Len(a) \in Nat /\ Len(b) \in Nat
    BY LenProperties
  <2> QED
    BY <1>1, <2>1
<1> QED
  BY <1>2, <1>3

------------------------------------------------------------------------------
(* What any step does                                                        *)

\* Nothing comes back, nothing is withdrawn, and only what is to be deleted is
\* accepted for deletion.
Evolves ==
    /\ \A x \in Resources : /\ ~Exists(x) => status'[x] = "gone"
                            /\ status'[x] = "gone" => status[x] \in {"deleting", "gone"}
                            /\ Accepted(x) => x \in todo
                            /\ status[x] = "active" => status'[x] \in {"active", "deleting"}
    /\ \A l \in LoadBalancers : tags[l] \subseteq tags'[l]
    /\ kept \subseteq kept' /\ deleteVolumes' = deleteVolumes

\* A DELETE request changes nothing but its target.
LEMMA AcceptEvolves ==
    ASSUME TypeOK, NEW x \in todo, Accept(x)
    PROVE  \A y \in Resources :
               /\ status'[y] = status[y] \/ (y = x /\ status[y] = "active" /\ status'[y] = "deleting")
               /\ Exists(y)' <=> Exists(y)
<1>1. status \in [Resources -> {"active", "deleting", "gone"}] /\ x \in Resources
  BY DEF TypeOK
<1> QED
  BY <1>1 DEF Accept, Exists

LEMMA NextEvolves ==
    ASSUME TypeOK, [Next]_vars
    PROVE  Evolves
<1>t. /\ status \in [Resources -> {"active", "deleting", "gone"}] /\ todo \subseteq Resources
      /\ LoadBalancers \subseteq Resources /\ DOMAIN tags = LoadBalancers
  BY DEF TypeOK, Resources
<1>1. CASE UNCHANGED <<deleteVolumes, status, tags, kept>>
  BY <1>t, <1>1 DEF Evolves, Exists, Accepted
<1>2. CASE UNCHANGED <<deleteVolumes, tags, kept>> /\ \E x \in todo : Accept(x)
  <2> PICK x \in todo : Accept(x)
    BY <1>2
  <2> QED
    BY <1>t, <1>2, AcceptEvolves DEF Evolves, Exists, Accepted
<1>3. CASE \E x \in Resources : Disappear(x) \/ DeletionFails(x)
  BY <1>t, <1>3 DEF Disappear, DeletionFails, Evolves, Exists, Accepted
<1>4. CASE \E l \in LoadBalancers : Share(l)
  BY <1>t, <1>4 DEF Share, Evolves, Exists, Accepted
<1>5. CASE \E v \in Volumes : Keep(v)
  BY <1>t, <1>5 DEF Keep, Evolves, Exists, Accepted
<1> QED
  BY <1>1, <1>2, <1>3, <1>4, <1>5 DEF Next, Pass, ListLoadBalancers, ListFloatingIPs,
     ListSecurityGroups, ListSnapshots, ListVolumes, Delete, Fail, HidePort, vars

\* Types are preserved.
LEMMA TypeInductive ==
    ASSUME TypeOK, Tags, FactsHold, [Next]_vars
    PROVE  TypeOK' /\ Tags' /\ FactsHold'
<1>t. LoadBalancers \subseteq Resources /\ FloatingIPs \subseteq Resources
      /\ SecurityGroups \subseteq Resources /\ Snapshots \subseteq Resources
      /\ Volumes \subseteq Resources
  BY DEF Resources
<1>s. /\ SelectedFloatingIPs(listed) \subseteq FloatingIPs
      /\ SelectedLoadBalancers(listed) \subseteq LoadBalancers
      /\ Selected(SecurityGroups) \subseteq SecurityGroups
      /\ Selected(Snapshots) \subseteq Snapshots /\ SelectedVolumes \subseteq Volumes
  BY DEF SelectedFloatingIPs, SelectedLoadBalancers, Selected, SelectedVolumes, FactsHold
<1>f. {f.id : f \in Facts} \subseteq LoadBalancers
  BY DEF Facts
<1>1. CASE ListLoadBalancers
  <2>1. TypeOK' /\ Tags'
    BY <1>1, <1>f DEF ListLoadBalancers, Call, TypeOK, Tags
  <2>2. FactsHold'
    BY <1>1 DEF ListLoadBalancers, FactsHold, Facts
  <2> QED
    BY <2>1, <2>2
<1>2. CASE ListFloatingIPs
  BY <1>2, <1>s, <1>t DEF ListFloatingIPs, DeletePhase, Call, End, TypeOK, Tags, FactsHold
<1>3. CASE ListSecurityGroups
  BY <1>3, <1>s, <1>t DEF ListSecurityGroups, DeletePhase, Call, End, TypeOK, Tags, FactsHold
<1>4. CASE ListSnapshots
  BY <1>4, <1>s, <1>t DEF ListSnapshots, DeletePhase, Call, End, TypeOK, Tags, FactsHold
<1>5. CASE ListVolumes
  BY <1>5, <1>s, <1>t DEF ListVolumes, DeletePhase, Call, End, TypeOK, Tags, FactsHold
<1>6. CASE \E x \in todo : Delete(x)
  BY <1>6 DEF Delete, Accept, End, TypeOK, Tags, FactsHold
<1>7. CASE Fail
  BY <1>7, RunnerAssumption DEF Fail, Accept, End, TypeOK, Tags, FactsHold
<1>8. CASE \E x \in Resources : Disappear(x) \/ DeletionFails(x)
  BY <1>8, RunnerAssumption DEF Disappear, DeletionFails, TypeOK, Tags, FactsHold
<1>9. CASE \E l \in LoadBalancers : HidePort(l)
  BY <1>9, RunnerAssumption DEF HidePort, TypeOK, Tags, FactsHold
<1>10. CASE \E l \in LoadBalancers : Share(l)
  <2> PICK l \in LoadBalancers : Share(l)
    BY <1>10
  <2>1. tags' = [tags EXCEPT ![l] = @ \cup {ForeignTag}] /\ ForeignTag \in Seq(STRING)
    BY PartsAssumption DEF Share
  <2>2. \A m \in LoadBalancers : tags[m] \subseteq tags'[m] /\ tags'[m] \subseteq Seq(STRING)
    BY <2>1 DEF TypeOK, Tags
  <2>3. TypeOK'
    BY <2>1, RunnerAssumption DEF Share, TypeOK
  <2> QED
    BY <2>2, <2>3 DEF Share, Tags, FactsHold
<1>11. CASE \E v \in Volumes : Keep(v)
  BY <1>11, RunnerAssumption DEF Keep, TypeOK, Tags, FactsHold
<1>12. CASE UNCHANGED vars
  BY <1>12 DEF vars, TypeOK, Tags, FactsHold
<1> QED
  BY <1>1, <1>2, <1>3, <1>4, <1>5, <1>6, <1>7, <1>8, <1>9, <1>10, <1>11, <1>12 DEF Next, Pass

------------------------------------------------------------------------------
(* Who keeps what                                                            *)

\* Kinds of actions: those that only move the runner on, and the others.
Selects == ListFloatingIPs \/ ListSecurityGroups \/ ListSnapshots \/ ListVolumes

\* What a step that selects nothing leaves of the plans.
LEMMA PlansShrink ==
    ASSUME [Next]_vars, ~Selects, ~ListLoadBalancers
    PROVE  todo' \subseteq todo /\ (listed' = listed \/ listed' = {})
BY DEF Selects, Next, Pass, Delete, Fail, Disappear, DeletionFails, HidePort, Share, Keep, vars

\* A shared load balancer stays safe unless it is selected.
LEMMA SafeLasts ==
    ASSUME TypeOK, Tags, FactsHold, Evolves, NEW m, Safe(m), m \notin todo',
           \A f \in listed' : f.id = m => Protected(f)
    PROVE  Safe(m)'
<1>1. m \in Resources /\ m \in LoadBalancers
  BY DEF Safe, Resources
<1>2. status'[m] = "active"
  BY <1>1 DEF Safe, Evolves, Accepted
<1>3. NameMatches(m)' /\ ~Exclusive(m)'
  BY <1>1 DEF Safe, Evolves, Exclusive
<1> QED
  BY <1>1, <1>2, <1>3 DEF Safe

\* What shares a load balancer in the cloud is a veto in an inventory.
LEMMA SafeIsProtected ==
    ASSUME Tags, NEW m, Safe(m), NEW f \in Facts, f.id = m
    PROVE  Protected(f)
<1>1. f.tags = tags[m] /\ m \in LoadBalancers /\ NameMatches(m) /\ ~Exclusive(m)
  BY DEF Facts, Safe
<1> QED
  BY <1>1, ExclusiveIsUnvetoed DEF Protected

\* A floating IP that the preflight has passed over is protected by a load
\* balancer that nobody is about to delete.
LEMMA PassedOver ==
    ASSUME Inv, pc = "listFloatingIPs", NoPort \notin ProtectedPorts(listed),
           NEW i \in FloatingIPs, Exists(i), OwnerName[i] = ClusterName,
           i \notin SelectedFloatingIPs(listed)
    PROVE  \E m \in LoadBalancers :
               /\ NameMatches(m) /\ ~Exclusive(m) /\ status[m] = "active"
               /\ VIPPort[m] = AttachedPort[i]
               /\ m \notin todo /\ m \notin SelectedLoadBalancers(listed)
<1>1. AttachedPort[i] \in ProtectedPorts(listed)
  BY DEF SelectedFloatingIPs
<1>2. PICK f \in listed : Protected(f) /\ f.port = AttachedPort[i]
  BY <1>1 DEF ProtectedPorts
<1>3. /\ f.id \in LoadBalancers /\ f.port = VIPPort[f.id]
      /\ \A g \in listed : g.id = f.id => g = f
  BY <1>1, <1>2 DEF Inv, FactsHold
<1>4. NameMatches(f.id) /\ ~Exclusive(f.id)
  BY <1>2, FactIsTrue DEF Inv
<1>5. CASE status[f.id] = "active"
  <2>1. todo = {}
    BY DEF Inv, TypeOK
  <2>2. f.id \notin SelectedLoadBalancers(listed)
    BY <1>2, <1>3 DEF SelectedLoadBalancers
  <2> QED
    BY <1>2, <1>3, <1>4, <1>5, <2>1, <2>2
<1>6. CASE status[f.id] # "active"
  <2>1. PICK m \in LoadBalancers : Safe(m) /\ VIPPort[m] = AttachedPort[i]
    BY <1>2, <1>3, <1>4, <1>6 DEF Inv, VIPsKept
  <2>2. m \notin SelectedLoadBalancers(listed)
    BY <2>1 DEF Safe, SelectedLoadBalancers
  <2> QED
    BY <2>1, <2>2 DEF Safe
<1> QED
  BY <1>5, <1>6

\* So it is not the cluster's.
LEMMA PassedOverIsNotMine ==
    ASSUME Inv, pc = "listFloatingIPs", NoPort \notin ProtectedPorts(listed),
           NEW i \in FloatingIPs \cap Remaining
    PROVE  i \in SelectedFloatingIPs(listed)
<1>1. i \notin LoadBalancers \cup SecurityGroups \cup Snapshots \cup Volumes
  BY KindsAssumption
<1>2. /\ Exists(i) /\ OwnerName[i] = ClusterName
      /\ ~\E l \in LoadBalancers : OnVIP(i, l) /\ NamedFor(LBName[l]) /\ ~Exclusive(l)
  BY <1>1 DEF Remaining, Mine
<1>3. SUFFICES ASSUME i \notin SelectedFloatingIPs(listed) PROVE FALSE
  OBVIOUS
<1>4. PICK m \in LoadBalancers : /\ NameMatches(m) /\ ~Exclusive(m) /\ status[m] = "active"
                                 /\ VIPPort[m] = AttachedPort[i]
  BY <1>2, <1>3, PassedOver
<1>5. OnVIP(i, m) /\ NamedFor(LBName[m])
  BY <1>4, MatchingNames DEF OnVIP, Exists
<1> QED
  BY <1>2, <1>4, <1>5

LEMMA VIPsInductive ==
    ASSUME Inv, [Next]_vars, Evolves
    PROVE  VIPsKept'
<1> SUFFICES ASSUME NEW l \in LoadBalancers, NEW i \in FloatingIPs,
                    NameMatches(l), status'[l] # "active" \/ l \in todo',
                    status'[i] # "gone", OwnerName[i] = ClusterName,
                    AttachedPort[i] = VIPPort[l]
             PROVE  \E m \in LoadBalancers : Safe(m)' /\ VIPPort[m] = AttachedPort[i]
  BY DEF VIPsKept, Exists
<1>t. /\ TypeOK /\ Tags /\ FactsHold /\ i \in Resources /\ l \in Resources
      /\ status[l] \in {"active", "deleting", "gone"}
  BY DEF Inv, TypeOK, Resources
<1>e. Exists(i)
  BY <1>t DEF Evolves
<1>o. status'[l] # "active" => status[l] # "active" \/ l \in todo
  BY <1>t DEF Evolves, Accepted
<1>1. CASE status[l] # "active" \/ l \in todo
  <2>1. PICK m \in LoadBalancers : Safe(m) /\ VIPPort[m] = AttachedPort[i]
    BY <1>1, <1>e DEF Inv, VIPsKept
  <2>2. m \notin todo' /\ \A f \in listed' : f.id = m => Protected(f)
    <3>1. CASE ~Selects /\ ~ListLoadBalancers
      BY <2>1, <3>1, PlansShrink DEF Safe
    <3>2. CASE ListLoadBalancers
      BY <1>t, <2>1, <3>2, SafeIsProtected DEF ListLoadBalancers, Safe
    <3>3. CASE ListFloatingIPs
      <4>1. m \notin SelectedLoadBalancers(listed)
        BY <2>1 DEF Safe, SelectedLoadBalancers
      <4>2. m \notin SelectedFloatingIPs(listed)
        BY KindsAssumption DEF SelectedFloatingIPs
      <4> QED
        BY <2>1, <3>3, <4>1, <4>2 DEF ListFloatingIPs, DeletePhase, Safe
    <3>4. CASE ListSecurityGroups \/ ListSnapshots \/ ListVolumes
      <4>1. /\ m \notin Selected(SecurityGroups) /\ m \notin Selected(Snapshots)
            /\ m \notin SelectedVolumes
        BY KindsAssumption DEF Selected, SelectedVolumes
      <4>2. m \notin todo' /\ listed' = listed
        BY <2>1, <3>4, <4>1 DEF ListSecurityGroups, ListSnapshots, ListVolumes, DeletePhase, Safe
      <4> QED
        BY <2>1, <4>2 DEF Safe
    <3> QED
      BY <3>1, <3>2, <3>3, <3>4 DEF Selects
  <2> QED
    BY <1>t, <2>1, <2>2, SafeLasts
<1>2. CASE status[l] = "active" /\ l \notin todo
  <2>1. l \in todo'
    BY <1>o, <1>2
  <2>2. l \notin SelectedFloatingIPs(listed) /\ l \notin Selected(SecurityGroups)
        /\ l \notin Selected(Snapshots) /\ l \notin SelectedVolumes
    BY KindsAssumption DEF SelectedFloatingIPs, Selected, SelectedVolumes
  <2>3. ListFloatingIPs
    <3>1. Selects
      BY <1>2, <2>1, PlansShrink DEF ListLoadBalancers
    <3> QED
      BY <1>2, <2>1, <2>2, <3>1 DEF Selects, ListSecurityGroups, ListSnapshots, ListVolumes,
         DeletePhase
  <2>4. /\ pc = "listFloatingIPs" /\ NoPort \notin ProtectedPorts(listed)
        /\ SelectedFloatingIPs(listed) = {} /\ todo' = SelectedLoadBalancers(listed)
        /\ listed' = {}
    BY <1>2, <2>1, <2>2, <2>3 DEF ListFloatingIPs, DeletePhase
  <2>5. PICK m \in LoadBalancers :
               /\ NameMatches(m) /\ ~Exclusive(m) /\ status[m] = "active"
               /\ VIPPort[m] = AttachedPort[i]
               /\ m \notin todo /\ m \notin SelectedLoadBalancers(listed)
    BY <1>e, <2>4, PassedOver
  <2>6. status' = status /\ tags' = tags
    BY <2>3 DEF ListFloatingIPs
  <2>7. Safe(m)'
    BY <2>4, <2>5, <2>6 DEF Safe, NameMatches, Exclusive
  <2> QED
    BY <2>5, <2>7
<1> QED
  BY <1>1, <1>2

\* What the cluster owns only ever becomes less.
LEMMA RemainingShrinks ==
    ASSUME Inv, [Next]_vars, Evolves
    PROVE  Remaining' \subseteq Remaining
<1> SUFFICES ASSUME NEW x \in Resources, status'[x] # "gone", Mine(x)', ~Mine(x) PROVE FALSE
  BY DEF Remaining, Evolves, Exists
<1>t. Exists(x) /\ \A l \in LoadBalancers : l \in Resources
  BY DEF Evolves, Resources
<1>1. \A l \in LoadBalancers : Exclusive(l)' => Exclusive(l)
  BY DEF Exclusive, Evolves
<1>2. kept \subseteq kept' /\ deleteVolumes' = deleteVolumes
  BY DEF Evolves
<1>3. /\ x \in FloatingIPs /\ OwnerName[x] = ClusterName
      /\ ~\E l \in LoadBalancers : OnVIP(x, l)' /\ NamedFor(LBName[l]) /\ ~Exclusive(l)'
  BY <1>1, <1>2 DEF Mine, NamedFor, WellFormed
<1>4. PICK l \in LoadBalancers : OnVIP(x, l) /\ NamedFor(LBName[l]) /\ ~Exclusive(l)
  BY <1>3 DEF Mine
<1>5. status'[l] = "gone" /\ AttachedPort[x] = VIPPort[l]
  BY <1>1, <1>3, <1>4 DEF OnVIP, Exists
<1>6. status[l] = "deleting" /\ NameMatches(l)
  BY <1>4, <1>5, <1>t, MatchingNames DEF Evolves, OnVIP, Exists
<1>7. PICK m \in LoadBalancers : Safe(m) /\ VIPPort[m] = AttachedPort[x]
  BY <1>3, <1>5, <1>6, <1>t DEF Inv, VIPsKept
<1>8. status'[m] # "gone" /\ ~Exclusive(m)' /\ NamedFor(LBName[m])
  BY <1>1, <1>7, <1>t, MatchingNames DEF Safe, Evolves
<1> QED
  BY <1>3, <1>7, <1>8 DEF OnVIP, Exists


------------------------------------------------------------------------------
(* The phases                                                                *)

\* What the later inventories select is what is left of their kinds.
LEMMA SelectedRemain ==
    /\ Selected(SecurityGroups) = SecurityGroups \cap Remaining
    /\ deleteVolumes => /\ Selected(Snapshots) = Snapshots \cap Remaining
                        /\ SelectedVolumes = Volumes \cap Remaining
    /\ ~deleteVolumes => (Snapshots \cup Volumes) \cap Remaining = {}
<1>1. \A x \in SecurityGroups : x \in Selected(SecurityGroups) <=> x \in Remaining
  BY KindsAssumption DEF Selected, Remaining, Mine, Resources
<1>2. \A x \in Snapshots : deleteVolumes => (x \in Selected(Snapshots) <=> x \in Remaining)
  BY KindsAssumption DEF Selected, Remaining, Mine, Resources
<1>3. \A x \in Volumes : deleteVolumes => (x \in SelectedVolumes <=> x \in Remaining)
  BY KindsAssumption DEF Selected, SelectedVolumes, Remaining, Mine, Resources
<1>4. \A x \in Snapshots \cup Volumes : ~deleteVolumes => x \notin Remaining
  BY KindsAssumption DEF Remaining, Mine
<1>5. /\ Selected(SecurityGroups) \subseteq SecurityGroups
      /\ Selected(Snapshots) \subseteq Snapshots /\ SelectedVolumes \subseteq Volumes
  BY DEF Selected, SelectedVolumes
<1> QED
  BY <1>1, <1>2, <1>3, <1>4, <1>5

\* The load balancers of the cluster that are left are selected: their tags
\* did not veto them when they were listed.
LEMMA LeftIsSelected ==
    ASSUME Inv, pc = "listFloatingIPs", NEW l \in LoadBalancers \cap Remaining
    PROVE  l \in SelectedLoadBalancers(listed)
<1>1. l \notin FloatingIPs \cup SecurityGroups \cup Snapshots \cup Volumes
  BY KindsAssumption
<1>2. Exists(l) /\ Exclusive(l)
  BY <1>1 DEF Remaining, Mine
<1>3. PICK f \in listed : f.id = l
  BY <1>2 DEF Inv, Preflight
<1>4. NameMatches(l) /\ ~HasForeignOrInvalidTag(tags[l], ClusterName) /\ f.tags \subseteq tags[l]
  BY <1>2, <1>3, ExclusiveIsUnvetoed DEF Inv, FactsHold
<1>5. ~Protected(f)
  BY <1>3, <1>4, VetoesGrow DEF Protected
<1> QED
  BY <1>3, <1>4, <1>5 DEF SelectedLoadBalancers

\* The kinds before each kind.
LEMMA KindsBefore ==
    /\ \A x \in FloatingIPs : Before(x) = {}
    /\ \A x \in LoadBalancers : Before(x) = FloatingIPs
    /\ \A x \in SecurityGroups : Before(x) = FloatingIPs \cup LoadBalancers
    /\ \A x \in Snapshots : Before(x) = FloatingIPs \cup LoadBalancers \cup SecurityGroups
    /\ \A x \in Volumes :
          Before(x) = FloatingIPs \cup LoadBalancers \cup SecurityGroups \cup Snapshots
BY KindsAssumption DEF Before

\* Steps that select nothing leave what is cleared cleared.
LEMMA PhasesLast ==
    ASSUME Inv, [Next]_vars, Remaining' \subseteq Remaining, ~Selects
    PROVE  PhasesDone'
<1>1. \A kinds : Cleared(kinds) => Cleared(kinds)'
  BY DEF Cleared
<1>2. \A x : Before(x)' = Before(x)
  BY DEF Before
<1>3. todo' \subseteq todo
  <2>1. CASE ListLoadBalancers
    BY <2>1 DEF ListLoadBalancers
  <2> QED
    BY <2>1, PlansShrink
<1>4. pc' \in {"listSecurityGroups", "listSnapshots", "listVolumes"} =>
         pc' = pc /\ deleteVolumes' = deleteVolumes
  BY DEF Selects, Next, Pass, ListLoadBalancers, Call, End, Delete, Fail, Disappear,
     DeletionFails, HidePort, Share, Keep, vars
<1>5. \A x \in todo' : Cleared(Before(x))'
  BY <1>1, <1>2, <1>3 DEF Inv, PhasesDone, Cleared
<1> HIDE DEF Cleared
<1> QED
  BY <1>1, <1>4, <1>5 DEF Inv, PhasesDone

LEMMA PhasesInductive ==
    ASSUME Inv, [Next]_vars, Remaining' \subseteq Remaining
    PROVE  PhasesDone'
<1>k. \A kinds : Cleared(kinds) => Cleared(kinds)'
  BY DEF Cleared
<1>t. PhasesDone /\ \A x : Before(x)' = Before(x)
  BY DEF Inv, Before
<1>1. CASE ListFloatingIPs
  <2>1. CASE NoPort \in ProtectedPorts(listed)
    <3>1. pc' = "idle" /\ todo' = todo
      BY <1>1, <2>1 DEF ListFloatingIPs, End
    <3> QED
      BY <1>k, <1>t, <3>1 DEF PhasesDone, Cleared
  <2>2. CASE NoPort \notin ProtectedPorts(listed)
    <3>1. /\ pc = "listFloatingIPs" /\ pc' \in {"delete", "listSecurityGroups"}
          /\ todo' = IF SelectedFloatingIPs(listed) # {} THEN SelectedFloatingIPs(listed)
                     ELSE SelectedLoadBalancers(listed)
          /\ pc' = "listSecurityGroups" <=> todo' = {}
      BY <1>1, <2>2 DEF ListFloatingIPs, DeletePhase, Call
    <3>2. SelectedFloatingIPs(listed) = {} => Cleared(FloatingIPs)
      BY <2>2, <3>1, PassedOverIsNotMine DEF Cleared
    <3>3. SelectedLoadBalancers(listed) = {} => Cleared(LoadBalancers)
      BY <3>1, LeftIsSelected DEF Cleared
    <3>4. \A x \in todo' : Cleared(Before(x))'
      <4> SUFFICES ASSUME NEW x \in todo' PROVE Cleared(Before(x))
        BY <1>k, <1>t DEF Cleared
      <4>1. CASE x \in SelectedFloatingIPs(listed)
        BY <4>1, KindsBefore DEF SelectedFloatingIPs, Cleared
      <4>2. CASE SelectedFloatingIPs(listed) = {} /\ x \in SelectedLoadBalancers(listed)
        <5>1. x \in LoadBalancers
          BY <4>2 DEF SelectedLoadBalancers, Inv, FactsHold
        <5> QED
          BY <3>2, <4>2, <5>1, KindsBefore
      <4> QED
        BY <3>1, <4>1, <4>2
    <3>5. pc' = "listSecurityGroups" => Cleared(FloatingIPs \cup LoadBalancers)'
      <4>1. pc' = "listSecurityGroups" => Cleared(FloatingIPs) /\ Cleared(LoadBalancers)
        BY <3>1, <3>2, <3>3
      <4> QED
        BY <4>1, <1>k DEF Cleared
    <3> QED
      BY <3>1, <3>4, <3>5 DEF PhasesDone
  <2> QED
    BY <2>1, <2>2
<1>2. CASE ListSecurityGroups
  <2>1. Cleared(FloatingIPs \cup LoadBalancers)
    BY <1>2, <1>t DEF ListSecurityGroups, PhasesDone
  <2>2. \A x \in Selected(SecurityGroups) : Cleared(Before(x))
    BY <2>1, KindsBefore, SelectedRemain
  <2>3. Selected(SecurityGroups) = {} => Cleared(FloatingIPs \cup LoadBalancers \cup SecurityGroups)
    BY <2>1, SelectedRemain DEF Cleared
  <2>4. \A x \in todo' : Cleared(Before(x))
    BY <1>2, <1>t, <2>2 DEF ListSecurityGroups, DeletePhase, PhasesDone
  <2>5. /\ pc' \in {"idle", "delete", "listSnapshots"} /\ deleteVolumes' = deleteVolumes
        /\ pc' = "listSnapshots" => Selected(SecurityGroups) = {} /\ deleteVolumes
    BY <1>2 DEF ListSecurityGroups, DeletePhase, Call, End
  <2>6. \A x \in todo' : Cleared(Before(x))'
    BY <1>k, <1>t, <2>4 DEF Cleared
  <2> HIDE DEF Cleared
  <2> QED
    BY <1>k, <2>3, <2>5, <2>6 DEF PhasesDone
<1>3. CASE ListSnapshots
  <2>1. Cleared(FloatingIPs \cup LoadBalancers \cup SecurityGroups) /\ deleteVolumes
    BY <1>3, <1>t DEF ListSnapshots, PhasesDone
  <2>2. \A x \in Selected(Snapshots) : Cleared(Before(x))
    BY <2>1, KindsBefore, SelectedRemain
  <2>3. Selected(Snapshots) = {} =>
           Cleared(FloatingIPs \cup LoadBalancers \cup SecurityGroups \cup Snapshots)
    BY <2>1, SelectedRemain DEF Cleared
  <2>4. /\ todo' = Selected(Snapshots) /\ pc' \in {"delete", "listVolumes"}
        /\ deleteVolumes' = deleteVolumes
        /\ pc' = "listVolumes" => Selected(Snapshots) = {}
    BY <1>3 DEF ListSnapshots, DeletePhase, Call
  <2>6. \A x \in todo' : Cleared(Before(x))'
    BY <1>k, <1>t, <2>2, <2>4 DEF Cleared
  <2> HIDE DEF Cleared
  <2> QED
    BY <1>k, <2>1, <2>3, <2>4, <2>6 DEF PhasesDone
<1>4. CASE ListVolumes
  <2>1. /\ Cleared(FloatingIPs \cup LoadBalancers \cup SecurityGroups \cup Snapshots)
        /\ deleteVolumes
    BY <1>4, <1>t DEF ListVolumes, PhasesDone
  <2>2. \A x \in SelectedVolumes : Cleared(Before(x))
    BY <2>1, KindsBefore, SelectedRemain
  <2>3. \A x \in todo' : Cleared(Before(x))
    BY <1>4, <1>t, <2>2 DEF ListVolumes, DeletePhase, PhasesDone
  <2>4. pc' \in {"idle", "delete"}
    BY <1>4 DEF ListVolumes, DeletePhase, Call, End
  <2>6. \A x \in todo' : Cleared(Before(x))'
    BY <1>k, <1>t, <2>3 DEF Cleared
  <2> QED
    BY <2>4, <2>6 DEF PhasesDone
<1> QED
  BY <1>1, <1>2, <1>3, <1>4, PhasesLast DEF Selects


\* The preflight of a pass is true of the cloud until the pass deletes.
LEMMA PreflightInductive ==
    ASSUME Inv, [Next]_vars, Evolves
    PROVE  Preflight'
<1> SUFFICES ASSUME pc' = "listFloatingIPs" PROVE Preflight'
  BY DEF Preflight
<1>1. CASE ListLoadBalancers
  <2>1. /\ listed' = Facts /\ vetoed' = Resources \ Remaining
        /\ status' = status /\ tags' = tags
    BY <1>1 DEF ListLoadBalancers
  <2> DEFINE Fact(l) == [id |-> l, tags |-> tags[l],
                         port |-> IF l \in hidden THEN NoPort ELSE VIPPort[l]]
  <2>f. \A l \in LoadBalancers : Exists(l) => Fact(l) \in Facts
    BY DEF Facts
  <2>2. \A l \in LoadBalancers : Exists(l) => \E f \in Facts : f.id = l
    <3>1. \A l : Fact(l).id = l
      OBVIOUS
    <3> HIDE DEF Fact
    <3> QED
      BY <2>f, <3>1
  <2>3. ASSUME NEW l \in SelectedLoadBalancers(Facts)
        PROVE  l \in Remaining
    <3>1. PICK f \in Facts : f.id = l /\ NameMatches(l) /\ ~Protected(f)
      BY DEF SelectedLoadBalancers
    <3>2. l \in LoadBalancers /\ Exists(l) /\ f.tags = tags[l]
      BY <3>1 DEF Facts
    <3>3. Exclusive(l)
      BY <3>1, <3>2, ExclusiveIsUnvetoed DEF Inv, Protected
    <3> QED
      BY <3>2, <3>3 DEF Remaining, Mine, Resources
  <2>4. ASSUME NEW i \in FloatingIPs, i \notin Remaining, Exists(i), OwnerName[i] = ClusterName
        PROVE  AttachedPort[i] \in ProtectedPorts(Facts) \/ NoPort \in ProtectedPorts(Facts)
    <3>1. PICK l \in LoadBalancers : OnVIP(i, l) /\ NamedFor(LBName[l]) /\ ~Exclusive(l)
      BY <2>4 DEF Remaining, Mine, Resources
    <3>2. PICK f \in Facts : /\ f.id = l /\ f.tags = tags[l]
                             /\ f.port = IF l \in hidden THEN NoPort ELSE VIPPort[l]
      <4>1. Fact(l) \in Facts
        BY <2>f, <3>1 DEF OnVIP
      <4>2. /\ Fact(l).id = l /\ Fact(l).tags = tags[l]
            /\ Fact(l).port = IF l \in hidden THEN NoPort ELSE VIPPort[l]
        OBVIOUS
      <4> HIDE DEF Fact
      <4> QED
        BY <4>1, <4>2
    <3>3. Protected(f)
      BY <3>1, <3>2, MatchingNames, ExclusiveIsUnvetoed DEF Inv, Protected
    <3> QED
      BY <3>1, <3>2, <3>3 DEF ProtectedPorts, OnVIP
  <2>5. /\ \A l : Exists(l)' <=> Exists(l)
        /\ SelectedLoadBalancers(listed') = SelectedLoadBalancers(Facts)
        /\ ProtectedPorts(listed') = ProtectedPorts(Facts)
    BY <2>1 DEF Exists
  <2>6. \A x \in vetoed' : x \notin Remaining
    BY <2>1
  <2> QED
    BY <2>1, <2>2, <2>3, <2>4, <2>5, <2>6 DEF Preflight, SelectedLoadBalancers,
       ProtectedPorts, Protected, NameMatches
<1>2. CASE ~ListLoadBalancers
  <2>1. pc = "listFloatingIPs" /\ listed' = listed /\ vetoed' = vetoed
    BY <1>2 DEF Next, Pass, ListFloatingIPs, ListSecurityGroups, ListSnapshots, ListVolumes,
       DeletePhase, Call, End, Delete, Fail, Disappear, DeletionFails, HidePort, Share, Keep, vars
  <2>2. \A x \in LoadBalancers \cup FloatingIPs : Exists(x)' => Exists(x)
    BY DEF Evolves, Exists, Resources
  <2>3. /\ SelectedLoadBalancers(listed)' = SelectedLoadBalancers(listed)
        /\ ProtectedPorts(listed)' = ProtectedPorts(listed)
    BY <2>1 DEF SelectedLoadBalancers, ProtectedPorts, Protected, NameMatches
  <2> QED
    BY <2>1, <2>2, <2>3 DEF Inv, Preflight
<1> QED
  BY <1>1, <1>2

\* Resources that stay, with the same owners, leave the same to be deleted.
LEMMA RemainingStays ==
    ASSUME UNCHANGED <<deleteVolumes, tags, kept>>,
           \A x \in Resources : Exists(x)' <=> Exists(x)
    PROVE  Remaining' = Remaining
<1>1. \A l \in LoadBalancers : (Exclusive(l)' <=> Exclusive(l)) /\ (Exists(l)' <=> Exists(l))
  BY DEF Exclusive, NamedFor, WellFormed, Resources
<1>2. \A x \in Resources : Mine(x)' <=> Mine(x)
  BY <1>1 DEF Mine, OnVIP, NamedFor, WellFormed
<1> QED
  BY <1>2 DEF Remaining

\* A pass plans nothing that was not the cluster's when it began.
LEMMA VetoInductive ==
    ASSUME Inv, [Next]_vars, Remaining' \subseteq Remaining
    PROVE  VetoLasts'
<1>t. VetoLasts /\ Remaining \subseteq Resources
  BY DEF Inv, Remaining
<1>1. CASE ListLoadBalancers
  <2>1. todo = {} /\ todo' = todo /\ vetoed' = Resources \ Remaining
    BY <1>1 DEF ListLoadBalancers, Inv, TypeOK
  <2> QED
    BY <2>1 DEF VetoLasts
<1>2. CASE ListFloatingIPs
  <2>1. vetoed' = vetoed
    BY <1>2 DEF ListFloatingIPs
  <2>2. CASE NoPort \in ProtectedPorts(listed)
    BY <1>2, <2>1, <2>2, <1>t DEF ListFloatingIPs, VetoLasts
  <2>3. CASE NoPort \notin ProtectedPorts(listed)
    <3>1. todo' \subseteq SelectedFloatingIPs(listed) \cup SelectedLoadBalancers(listed)
      BY <1>2, <2>3 DEF ListFloatingIPs, DeletePhase
    <3>2. /\ SelectedLoadBalancers(listed) \cap vetoed = {}
          /\ SelectedFloatingIPs(listed) \cap vetoed = {}
      BY <1>2, <2>3 DEF ListFloatingIPs, Inv, Preflight, SelectedFloatingIPs
    <3> QED
      BY <1>t, <2>1, <3>1, <3>2 DEF VetoLasts
  <2> QED
    BY <2>2, <2>3
<1>3. CASE ListSecurityGroups \/ ListSnapshots \/ ListVolumes
  <2>1. todo' \subseteq todo \cup Remaining
    BY <1>3, SelectedRemain DEF ListSecurityGroups, ListSnapshots, ListVolumes, DeletePhase,
       Inv, PhasesDone
  <2> QED
    BY <1>3, <1>t, <2>1 DEF ListSecurityGroups, ListSnapshots, ListVolumes, VetoLasts
<1>4. CASE ~Selects /\ ~ListLoadBalancers
  <2>1. vetoed' = vetoed
    BY <1>4 DEF Selects, Next, Pass, Delete, Fail, Disappear, DeletionFails, HidePort, Share,
       Keep, vars
  <2> QED
    BY <1>4, <1>t, <2>1, PlansShrink DEF VetoLasts
<1> QED
  BY <1>1, <1>2, <1>3, <1>4 DEF Selects

------------------------------------------------------------------------------
(* The theorems                                                              *)

LEMMA InitInv == Init => Inv
<1> SUFFICES ASSUME Init PROVE Inv
  OBVIOUS
<1>1. TypeOK
  BY RunnerAssumption DEF Init, TypeOK
<1>2. Tags
  BY PartsAssumption DEF Init, Tags
<1>3. FactsHold /\ PhasesDone /\ Preflight /\ VetoLasts
  BY DEF Init, FactsHold, PhasesDone, Preflight, VetoLasts
<1>4. VIPsKept
  BY DEF Init, VIPsKept, Resources
<1> QED
  BY <1>1, <1>2, <1>3, <1>4 DEF Inv

LEMMA NextInv ==
    ASSUME Inv, [Next]_vars
    PROVE  Inv' /\ Evolves /\ Remaining' \subseteq Remaining
<1>1. Evolves
  BY NextEvolves DEF Inv
<1>2. Remaining' \subseteq Remaining
  BY <1>1, RemainingShrinks
<1>3. TypeOK' /\ Tags' /\ FactsHold'
  BY TypeInductive DEF Inv
<1>4. VIPsKept' /\ PhasesDone' /\ Preflight' /\ VetoLasts'
  BY <1>1, <1>2, VIPsInductive, PhasesInductive, PreflightInductive, VetoInductive
<1> QED
  BY <1>1, <1>2, <1>3, <1>4 DEF Inv

\* What the inventories of a pass say holds until they are used, and what was
\* cleared stays cleared.
THEOREM RunnerInv == Spec => []Inv
<1>1. Inv /\ [Next]_vars => Inv'
  BY NextInv
<1> QED
  BY <1>1, InitInv, PTL DEF Spec

\* Every variable of the runner has its type.
THEOREM RunnerTypes == Spec => []TypeOK
<1>1. Inv => TypeOK
  BY DEF Inv
<1> QED
  BY <1>1, RunnerInv, PTL

\* No DELETE the cloud accepts is of something protected, kept or not the
\* cluster's when the pass began, whatever has changed hands since.
THEOREM OwnedIsDeleted == Spec => OnlyOwnedIsDeleted
<1>1. Inv /\ [Next]_vars => [\A x \in Resources : Accepted(x) => x \notin vetoed]_vars
  BY NextInv DEF Inv, VetoLasts, Evolves
<1> QED
  BY <1>1, RunnerInv, PTL DEF Spec, OnlyOwnedIsDeleted

\* A DELETE is accepted only when nothing the cluster owns of an earlier kind
\* is left, however the cloud answered before.
THEOREM PhasesAreOrdered == Spec => PhaseOrder
<1>1. Inv /\ [Next]_vars =>
          [\A x \in Resources : Accepted(x) => Before(x) \cap Remaining = {}]_vars
  BY NextInv DEF Inv, PhasesDone, Cleared, Evolves
<1> QED
  BY <1>1, RunnerInv, PTL DEF Spec, PhaseOrder

\* A pass reports completion only when its last inventory has found nothing
\* left to delete.
LEMMA CompletionIsTrue ==
    ASSUME Inv, [Next]_vars, outcome' # outcome
    PROVE  /\ Remaining' = Remaining
           /\ outcome' \in {"waiting", "error"} \/ (outcome' = "complete" /\ Remaining = {})
<1>t. TypeOK /\ PhasesDone
  BY DEF Inv
<1>1. CASE ListLoadBalancers \/ ListFloatingIPs \/ ListSnapshots
  BY <1>1, RemainingStays DEF ListLoadBalancers, ListFloatingIPs, ListSnapshots, DeletePhase,
     Call, End, Exists
<1>2. CASE ListSecurityGroups
  <2>1. Cleared(FloatingIPs \cup LoadBalancers)
    BY <1>2, <1>t DEF ListSecurityGroups, PhasesDone
  <2>2. outcome' = "complete" /\ Selected(SecurityGroups) = {} /\ ~deleteVolumes
    BY <1>2 DEF ListSecurityGroups, DeletePhase, Call, End
  <2>3. Remaining = {}
    BY <2>1, <2>2, SelectedRemain DEF Cleared, Remaining, Resources
  <2> QED
    BY <1>2, <2>2, <2>3, RemainingStays DEF ListSecurityGroups, Exists
<1>3. CASE ListVolumes
  <2>1. /\ Cleared(FloatingIPs \cup LoadBalancers \cup SecurityGroups \cup Snapshots)
        /\ deleteVolumes
    BY <1>3, <1>t DEF ListVolumes, PhasesDone
  <2>2. outcome' = "complete" /\ SelectedVolumes = {}
    BY <1>3 DEF ListVolumes, DeletePhase, Call, End
  <2>3. Remaining = {}
    BY <2>1, <2>2, SelectedRemain DEF Cleared, Remaining, Resources
  <2> QED
    BY <1>3, <2>2, <2>3, RemainingStays DEF ListVolumes, Exists
<1>4. CASE (\E x \in todo : Delete(x)) \/ Fail
  <2>1. /\ outcome' \in {"waiting", "error"} /\ UNCHANGED <<deleteVolumes, tags, kept>>
        /\ status' = status \/ \E x \in todo : Accept(x)
    BY <1>4 DEF Delete, Fail, End
  <2>2. \A x \in Resources : Exists(x)' <=> Exists(x)
    BY <1>t, <2>1, AcceptEvolves DEF Exists
  <2> QED
    BY <2>1, <2>2, RemainingStays
<1> QED
  BY <1>1, <1>2, <1>3, <1>4 DEF Next, Pass, Disappear, DeletionFails, HidePort, Share, Keep, vars

\* The runner keeps the contract that the controller relies on: what the
\* cluster owns only becomes less, and completion means that nothing is left.
THEOREM RunnerImplementsContract == Spec => ImplementsContract
<1>1. Init => Contract!Init
  BY DEF Init, Contract!Init
<1>2. Inv /\ [Next]_vars => [Contract!Next]_<<Remaining, outcome>>
  <2> SUFFICES ASSUME Inv, [Next]_vars PROVE Contract!Next
    OBVIOUS
  <2>1. CASE outcome' = outcome
    BY <2>1, NextInv DEF Contract!Next, Contract!Progress
  <2>2. CASE outcome' # outcome
    BY <2>2, CompletionIsTrue DEF Contract!Next, Contract!Report
  <2> QED
    BY <2>1, <2>2
<1> QED
  BY <1>1, <1>2, RunnerInv, PTL DEF Spec, ImplementsContract, Contract!Spec
==============================================================================
