\* The watch on owners starts over while an owner is paused and unpaused.
SPECIFICATION Spec
CONSTANTS
    c1 = c1  c2 = c2  o1 = o1  s1 = s1
    Clusters = {c1}
    Owners = {o1}
    Secrets = {s1}
    OwnerOf <- MCOwnerOf
    RefOf <- MCRefOf
    None = None
    FaultKinds = {"relist"}
    MaxEdits = 2
    MaxFaults = 1
INVARIANTS PauseRemovalTriggersReconciliation
