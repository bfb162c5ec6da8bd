------------------------- MODULE CredentialRetirement -------------------------
(***************************************************************************)
(* What the controller promises about the deletion of clusters, without its *)
(* reads, retries and replicas: a ledger in which each cluster passes       *)
(* through at most two entries.  An entry is made only when everything it   *)
(* vouches for is true, a credential is destroyed only by an entry that     *)
(* names it, and a cluster is let go only before its first entry or after   *)
(* its last.                                                                *)
(***************************************************************************)
CONSTANTS
    Clusters,
    Scope(_, _),  \* the resources of a name under a volumes policy
    Revocable     \* may others revoke credentials?

VARIABLES
    guarded,      \* clusters that cannot go away before the Janitor agrees
    ledger,       \* the entry of each cluster
    existing,     \* resources
    valid         \* credentials

vars == <<guarded, ledger, existing, valid>>

Blank(c) == ledger[c].phase = "none"
Condemned(c) == c \in guarded /\ ledger[c].phase = "credentialDeleteStarted"
Confirmed(c) == c \in guarded /\ ledger[c].phase = "secretDeleteStarted"

Init == guarded = {} /\ \A c \in Clusters : Blank(c)

Guard(c) ==
    /\ c \notin guarded /\ Blank(c)
    /\ guarded' = guarded \cup {c}
    /\ UNCHANGED <<ledger, existing, valid>>

Purge ==
    /\ existing' \subseteq existing
    /\ UNCHANGED <<guarded, ledger, valid>>

\* The first entry vouches for the resources it names.
Condemn(c) ==
    /\ c \in guarded /\ Blank(c)
    /\ ledger' = [ledger EXCEPT ![c] = ledger'[c]] /\ Condemned(c)'
    /\ Scope(ledger'[c].clusterName, ledger'[c].volumes) \cap existing = {}
    /\ UNCHANGED <<guarded, existing, valid>>

Destroy(c) ==
    /\ Condemned(c)
    /\ valid' = valid \ {ledger[c].cred}
    /\ UNCHANGED <<guarded, ledger, existing>>

Revoke(k) ==
    /\ Revocable
    /\ valid' = valid \ {k}
    /\ UNCHANGED <<guarded, ledger, existing>>

\* The second entry vouches for the end of the credential.
Confirm(c) ==
    /\ Condemned(c) /\ ledger[c].cred \notin valid
    /\ ledger' = [ledger EXCEPT ![c].phase = "secretDeleteStarted"]
    /\ UNCHANGED <<guarded, existing, valid>>

\* The entry of a cluster goes with it.
Release(c) ==
    /\ c \in guarded /\ (Blank(c) \/ Confirmed(c))
    /\ guarded' = guarded \ {c}
    /\ ledger' = [ledger EXCEPT ![c] = ledger'[c]] /\ Blank(c)'
    /\ UNCHANGED <<existing, valid>>

Next ==
    \/ Purge
    \/ \E c \in Clusters : Guard(c) \/ Condemn(c) \/ Destroy(c) \/ Confirm(c) \/ Release(c)
    \/ \E k \in valid : Revoke(k)

Spec == Init /\ [][Next]_vars
==============================================================================
