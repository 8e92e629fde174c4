---------------------------- MODULE MCDemoDatabase ----------------------------
(* Three titles for two entries, so that one is pushed out; limits of one and *)
(* two launches, and none, for which the count wraps at three.                *)
EXTENDS DemoDatabase, TLC

CONSTANTS a, b, c
Limits == (a :> 1) @@ (b :> 2) @@ (c :> 0)
Perms == Permutations(Threads)
=============================================================================
