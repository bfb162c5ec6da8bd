\* Two clusters that share a Secret, two processes; one is rebound or recreated under the documented rule.
SPECIFICATION Spec
CONSTANTS
    c1 = c1  c2 = c2  s1 = s1  s2 = s2  k1 = k1  k2 = k2  n1 = n1  n2 = n2
    lb1 = lb1  vol1 = vol1  lb2 = lb2  w1 = w1  w2 = w2
    Clusters = {c1, c2}
    Workers = {w1, w2}
    SecretNames = {s1, s2}
    Credentials = {k1, k2}
    Names = {n1, n2}
    Resources = {lb1}
    Volumes = {}
    OwnerOf <- OneOwnerOf
    NameOf <- MCNameOf
    RefOf <- OneSecretRefOf
    CredentialOf <- MCCredentialOf
    Edits = {"rebind", "create"}
    MaxEdits = 1
    MaxFaults = 0
    LateReferences = FALSE
SYMMETRY WorkerSymmetry
PROPERTIES NoSharedDestruction
CHECK_DEADLOCK FALSE
