------------------------------- MODULE MCStorage -------------------------------
(* The constants of Storage for TLC: an account with a folder on the system    *)
(* pack and one, of one block, on DB1:, two jobs of it, the second privileged, *)
(* and the folder of an account that nobody is logged in to.                   *)
EXTENDS Storage, TLC

CONSTANTS j1, j2, home, private, other, n1, n2, db0, db1, sys, usr, gst, new

MCFiles == {<<home, n1>>, <<home, n2>>, <<private, n1>>, <<private, n2>>, <<other, n1>>}
MCAccount == j1 :> usr @@ j2 :> usr
MCOwner == home :> usr @@ private :> usr @@ other :> gst
MCPackOf == home :> db0 @@ private :> db1 @@ other :> db0
MCProject == [a \in Accounts |-> IF a = sys THEN 1 ELSE 100]
MCQuota == home :> 0 @@ private :> 1 @@ other :> 0
MCScenarios ==
  { [ops |-> {"write", "prot", "delete", "alloc"}, files |-> {<<home, n1>>, <<home, n2>>}],
    [ops |-> {"write", "rename"}, files |-> {<<home, n1>>, <<home, n2>>, <<private, n1>>}],
    [ops |-> {"write", "copy", "delete"}, files |-> {<<home, n1>>, <<private, n1>>, <<private, n2>>}],
    [ops |-> {"write", "mount", "init"}, files |-> {<<private, n1>>}],
    [ops |-> {"que", "quede"}, files |-> {}],
    [ops |-> {"account", "write"}, files |-> {<<other, n1>>}] }
================================================================================
