--------------------------- MODULE MCRecursiveLock ---------------------------
(* Three threads: one holds, one waits, one overtakes the waiter or tests the *)
(* tag while it changes.  Two levels show the difference between inner and    *)
(* outer.  No symmetry, as the run checks progress.                           *)
EXTENDS RecursiveLock
=============================================================================
