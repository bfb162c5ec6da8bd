--------------------------- MODULE MCCleanupSession ---------------------------
(* Instances of CleanupSession for TLC.                                      *)
EXTENDS CleanupSession, TLC

\* An entry, spelled plainly.
URL == [scheme |-> "https", host |-> "cloud", upper |-> FALSE, port |-> "", path |-> "/v3",
        slashes |-> 0, extra |-> FALSE]
Plain == [url |-> URL, id |-> "a", project |-> "", user |-> "", region |-> "r1",
          interface |-> "", usable |-> TRUE]

\* The same spelled differently, and what differs from it in one respect.
MCEntries ==
    {Plain,
     [Plain EXCEPT !.url.upper = TRUE, !.url.port = "443", !.interface = "public"],
     [Plain EXCEPT !.url.slashes = 2, !.project = "pa", !.user = "ua"],
     [Plain EXCEPT !.url.port = "5000"],
     [Plain EXCEPT !.url.scheme = "http", !.url.port = "443"],
     [Plain EXCEPT !.url.path = "/identity/v3"],
     [Plain EXCEPT !.url.extra = TRUE],
     [Plain EXCEPT !.id = "b"],
     [Plain EXCEPT !.id = "c"],
     [Plain EXCEPT !.project = "pb"],
     [Plain EXCEPT !.region = "r2"],
     [Plain EXCEPT !.interface = "internalURL"],
     [Plain EXCEPT !.usable = FALSE]}

\* Two Keystones on one host; a and b are credentials of different projects,
\* and the token of c has no project.
MCKeystoneOf == (<<"cloud", "/v3">> :> "k1") @@ (<<"cloud", "/identity/v3">> :> "k2")
MCTokenOf == [c \in {"k1", "k2"} \X {"a", "b", "c"} |->
                [user |-> "ua", project |-> CASE c[2] = "a" -> "pa"
                                              [] c[2] = "b" -> "pb"
                                              [] OTHER -> ""]]
==============================================================================
