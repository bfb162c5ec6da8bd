\* The owning Cluster is paused between the last check and the patch.
SPECIFICATION Spec
CONSTANTS
    c1 = c1  c2 = c2  s1 = s1  s2 = s2  k1 = k1  k2 = k2  n1 = n1  n2 = n2
    lb1 = lb1  vol1 = vol1  lb2 = lb2  w1 = w1  w2 = w2
    Clusters = {c1}
    Workers = {w1}
    SecretNames = {s1}
    Credentials = {k1}
    Names = {n1}
    Resources <- SoloResources
    Volumes = {vol1}
    OwnerOf <- SoloOwnerOf
    NameOf <- SoloNameOf
    RefOf <- SoloRefOf
    CredentialOf <- SoloCredentialOf
    Edits = {"owner"}
    MaxEdits = 1
    MaxFaults = 0
    LateReferences = FALSE
PROPERTIES PatchesRespectOwnerPause
CHECK_DEADLOCK FALSE
