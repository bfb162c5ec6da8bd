--------------------------- MODULE MCCleanupRunner ---------------------------
(* Instances of CleanupRunner for TLC: the cleanup of the cluster "demo".    *)
EXTENDS CleanupRunner, TLC

CONSTANTS own, shared, foreign,           \* load balancers
          ipOwn, ipShared, ipForeign,     \* a floating IP on each of them
          sg,                             \* a security group in use by own
          snap, vol, volOther             \* a volume with a snapshot, and one of demo2

Demo == <<"demo">>
Service(cluster) == <<cluster, "default", "web">>

\* own is demo's alone; shared has demo's name and a tag that has demo's prefix
\* but belongs to a cluster demo_x; foreign has the name of demo2 and is shared
\* with demo.
MCLBName == (own :> Service("demo")) @@ (shared :> Service("demo"))
            @@ (foreign :> Service("demo2"))
MCLBTags == (own :> {Service("demo")})
            @@ (shared :> {Service("demo"), <<"demo", "x", "default", "web">>})
            @@ (foreign :> {Service("demo"), Service("demo2")})
MCVIPPort == (own :> "p1") @@ (shared :> "p2") @@ (foreign :> "p3")

MCAttachedPort == (ipOwn :> "p1") @@ (ipShared :> "p2") @@ (ipForeign :> "p3")
MCOwnerName == [x \in {ipOwn, ipShared, ipForeign, sg, snap, vol} |-> Demo]
               @@ (volOther :> <<"demo2">>)
MCForeignTag == Service("demo2")

\* A security group is in use by its load balancer, a volume by its snapshot.
MCBlockedBy == [x \in Resources |-> CASE x = sg -> {own} \cap LoadBalancers
                                      [] x = vol -> {snap} \cap Snapshots
                                      [] OTHER -> {}]
==============================================================================
