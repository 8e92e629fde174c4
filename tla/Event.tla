-------------------------------- MODULE Event --------------------------------
(***************************************************************************)
(* What a one-shot LightEvent promises: a signal lets one wait return, and *)
(* a signal while the event is set is no second one.                       *)
(***************************************************************************)
CONSTANT Threads

VARIABLES signaled, waiting

Init == signaled = TRUE /\ waiting = {}     \* the event starts as zeroed memory

Wait(t) ==
  /\ t \notin waiting
  /\ waiting' = waiting \union {t}
  /\ UNCHANGED signaled

Return(t) ==
  /\ t \in waiting /\ signaled
  /\ signaled' = FALSE
  /\ waiting' = waiting \ {t}

Signal == signaled' = TRUE /\ UNCHANGED waiting

Next == Signal \/ \E t \in Threads : Wait(t) \/ Return(t)

Spec == Init /\ [][Next]_<<signaled, waiting>>
=============================================================================
