\* A floating IP of demo on the VIP of a load balancer that demo2 has named.
SPECIFICATION Spec
CONSTANTS
    own = own  shared = shared  foreign = foreign
    ipOwn = ipOwn  ipShared = ipShared  ipForeign = ipForeign
    sg = sg  snap = snap  vol = vol  volOther = volOther
    ClusterName <- Demo
    LoadBalancers = {foreign}
    FloatingIPs = {ipForeign}
    SecurityGroups = {}
    Snapshots = {}
    Volumes = {}
    LBName <- MCLBName
    LBTags <- MCLBTags
    VIPPort <- MCVIPPort
    OwnerName <- MCOwnerName
    AttachedPort <- MCAttachedPort
    BlockedBy <- MCBlockedBy
    NoPort = ""
    ForeignTag <- MCForeignTag
    MaxEdits = 0
    MaxFaults = 0
PROPERTIES SharedVIPKept
