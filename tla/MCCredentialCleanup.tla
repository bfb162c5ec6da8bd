------------------------- MODULE MCCredentialCleanup -------------------------
(* Instances of CredentialCleanup for TLC.                                   *)
EXTENDS CredentialCleanup, TLC

CONSTANTS w1, w2, c1, c2, s1, s2, k1, k2, n1, n2, lb1, vol1, lb2

\* Two names; the first owns a load balancer and a volume.
MCResources == {lb1, vol1, lb2}
MCOwnerOf == (lb1 :> n1) @@ (vol1 :> n1) @@ (lb2 :> n2)

\* One load balancer and one volume of one name.
SoloResources == {lb1, vol1}
SoloOwnerOf == (lb1 :> n1) @@ (vol1 :> n1)

\* One load balancer, where resources are not the question.
OneOwnerOf == lb1 :> n1

\* Two clusters that share a Secret, or have one each.
MCNameOf == (c1 :> n1) @@ (c2 :> n2)
OneSecretRefOf == (c1 :> s1) @@ (c2 :> s1)
OwnSecretRefOf == (c1 :> s1) @@ (c2 :> s2)
MCCredentialOf == (s1 :> k1) @@ (s2 :> k2)

\* The restrictions of those functions to one cluster and one Secret.
SoloNameOf == c1 :> n1
SoloRefOf == c1 :> s1
SoloCredentialOf == s1 :> k1

\* Workers differ in nothing but their names.
WorkerSymmetry == Permutations(Workers)
==============================================================================
