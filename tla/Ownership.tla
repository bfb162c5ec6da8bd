------------------------------ MODULE Ownership ------------------------------
(***************************************************************************)
(* Which load balancers belong to a cluster.                                *)
(*                                                                          *)
(* The name and the reserved tags of an OCCM load balancer have the form    *)
(* kube_service_<cluster>_<namespace>_<service>.  Such a string is the      *)
(* sequence of its parts between underscores, without kube and service: a   *)
(* cluster name with an underscore in it has two parts, and a trailing      *)
(* underscore leaves an empty last part.  A string without the reserved     *)
(* prefix is <<>>; tags without it are not represented, no rule reads them. *)
(***************************************************************************)
EXTENDS Naturals, Sequences

\* strings.HasPrefix(s, "kube_service_" + cluster + "_"): the trailing
\* underscore means that at least one more part, be it empty, follows.
HasClusterPrefix(s, cluster) ==
    Len(s) > Len(cluster) /\ SubSeq(s, 1, Len(cluster)) = cluster

\* Exactly a namespace and a Service name follow, neither of them empty.
BugIsValidServiceTag(tag, cluster) == HasClusterPrefix(tag, cluster)
IsValidServiceTag(tag, cluster) ==
    /\ HasClusterPrefix(tag, cluster)
    /\ Len(tag) = Len(cluster) + 2
    /\ tag[Len(tag) - 1] # "" /\ tag[Len(tag)] # ""

\* One reserved tag of another cluster, or one that is malformed, protects the
\* whole load balancer.
HasForeignOrInvalidTag(tags, cluster) ==
    \E tag \in tags : ~IsValidServiceTag(tag, cluster)
==============================================================================
