\* Own, shared and foreign resources; faults, late tags and keep properties.
SPECIFICATION FairSpec
CONSTANTS
    own = own  shared = shared  foreign = foreign
    ipOwn = ipOwn  ipShared = ipShared  ipForeign = ipForeign
    sg = sg  snap = snap  vol = vol  volOther = volOther
    ClusterName <- Demo
    LoadBalancers = {own, shared}
    FloatingIPs = {ipOwn, ipShared}
    SecurityGroups = {sg}
    Snapshots = {snap}
    Volumes = {vol, volOther}
    LBName <- MCLBName
    LBTags <- MCLBTags
    VIPPort <- MCVIPPort
    OwnerName <- MCOwnerName
    AttachedPort <- MCAttachedPort
    BlockedBy <- MCBlockedBy
    NoPort = ""
    ForeignTag <- MCForeignTag
    MaxEdits = 1
    MaxFaults = 2
INVARIANTS TypeOK
PROPERTIES OnlyOwnedIsDeleted PhaseOrder ImplementsContract CleanupEnds
