\* One cluster and its owner, every kind of fault.
SPECIFICATION FairSpec
CONSTANTS
    c1 = c1  c2 = c2  o1 = o1  s1 = s1
    Clusters = {c1}
    Owners = {o1}
    Secrets = {s1}
    OwnerOf <- MCOwnerOf
    RefOf <- MCRefOf
    None = None
    FaultKinds = {"call", "list", "relist", "crash"}
    MaxEdits = 4
    MaxFaults = 1
INVARIANTS TypeOK QuietMeansSettled ChangesTriggerReconciliation
PROPERTIES ClustersSettle
