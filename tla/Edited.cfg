\* One process; users edit, rotate, revoke, pause and recreate at every point.
SPECIFICATION Spec
CONSTANTS
    c1 = c1  c2 = c2  s1 = s1  s2 = s2  k1 = k1  k2 = k2  n1 = n1  n2 = n2
    lb1 = lb1  vol1 = vol1  lb2 = lb2  w1 = w1  w2 = w2
    Clusters = {c1}
    Workers = {w1}
    SecretNames = {s1}
    Credentials = {k1, k2}
    Names = {n1, n2}
    Resources <- MCResources
    Volumes = {vol1}
    OwnerOf <- MCOwnerOf
    NameOf <- SoloNameOf
    RefOf <- SoloRefOf
    CredentialOf <- SoloCredentialOf
    Edits = {"pause", "owner", "label", "volumes", "create","secret", "replace", "revoke", "restart"}
    MaxEdits = 3
    MaxFaults = 1
    LateReferences = FALSE
INVARIANTS CheckpointVerified CheckpointInv
PROPERTIES ReleasedClean SecretDestroyedDead
CHECK_DEADLOCK FALSE
