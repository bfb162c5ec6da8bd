---------------------------- MODULE MCWatchQueue ----------------------------
(* Instances of WatchQueue for TLC.                                          *)
EXTENDS WatchQueue, TLC

CONSTANTS c1, c2, o1, s1

\* One owner and one Secret, for one cluster or for two.
MCOwnerOf == [c \in Clusters |-> o1]
MCRefOf == [c \in Clusters |-> s1]
==============================================================================
