\* Two clusters that share a Secret; a few edits, a fault, or none of them.
SPECIFICATION FairSpec
CONSTANTS
    c1 = c1  c2 = c2  s1 = s1  s2 = s2  k1 = k1  k2 = k2  n1 = n1  n2 = n2
    lb1 = lb1  vol1 = vol1  lb2 = lb2  w1 = w1  w2 = w2
    Clusters = {c1, c2}
    Workers = {w1}
    SecretNames = {s1}
    Credentials = {k1, k2}
    Names = {n1, n2}
    Resources = {lb1}
    Volumes = {}
    OwnerOf <- OneOwnerOf
    NameOf <- MCNameOf
    RefOf <- OneSecretRefOf
    CredentialOf <- SoloCredentialOf
    Edits = {"pause", "secret", "replace"}
    MaxEdits = 2
    MaxFaults = 1
    LateReferences = FALSE
PROPERTIES DeletionFinishes DeletionCompletes
CHECK_DEADLOCK FALSE
