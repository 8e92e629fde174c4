---------------------------- MODULE ReentrantLock ----------------------------
(***************************************************************************)
(* What RecursiveLock promises: a lock with an owner, which its owner may  *)
(* take again and must give back as often.                                 *)
(***************************************************************************)
EXTENDS Integers

CONSTANTS Threads, NoThread

VARIABLES owner, depth

Init == owner = NoThread /\ depth = 0

Acquire(t) == owner = NoThread /\ owner' = t /\ depth' = 1

Reenter(t) == owner = t /\ depth' = depth + 1 /\ UNCHANGED owner

Leave(t) ==
  /\ owner = t
  /\ depth' = depth - 1
  /\ owner' = IF depth = 1 THEN NoThread ELSE t

Next == \E t \in Threads : Acquire(t) \/ Reenter(t) \/ Leave(t)

Spec == Init /\ [][Next]_<<owner, depth>>
=============================================================================
