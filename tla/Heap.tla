--------------------------------- MODULE Heap ---------------------------------
(***************************************************************************)
(* What malloc and free promise: blocks of at least the size asked for,    *)
(* within the memory, that do not overlap while they are in use.           *)
(***************************************************************************)
EXTENDS Integers

CONSTANT Words      \* the memory: addresses 0..Words - 1

VARIABLE live       \* the blocks in use: [at, size]

Covers(b, i) == b.at <= i /\ i < b.at + b.size

Init == live = {}

Malloc ==
  \E at \in 0..(Words - 1), size \in 1..Words :
    LET b == [at |-> at, size |-> size] IN
      /\ live' = live \union {b}
      /\ at + size <= Words
      /\ \A i \in 0..(Words - 1) : Covers(b, i) => \A o \in live : ~Covers(o, i)

Free == \E b \in live : live' = live \ {b}

Next == Malloc \/ Free

Spec == Init /\ [][Next]_live
=============================================================================
