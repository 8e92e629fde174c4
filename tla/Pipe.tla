--------------------------------- MODULE Pipe ---------------------------------
(***************************************************************************)
(* What the import pipe promises to the commands that use it: one import   *)
(* has it at a time, from its registration until it is torn down; its      *)
(* writes, and no others, are served, one by one and none after its handle *)
(* was closed; and it is not torn down during a write, nor, where no title *)
(* is stopped, before its handle is closed.                                *)
(***************************************************************************)
CONSTANTS
  Imports,
  None       \* no import

VARIABLES
  stops,     \* whether a title may be stopped with the handle open; never changes
  users,     \* who has the pipe: at most one
  closed,    \* its handle was closed
  serving    \* whose write is served, or None

pipevars == <<stops, users, closed, serving>>

Init == stops \in BOOLEAN /\ users = {} /\ ~closed /\ serving = None

Register(i) ==
  /\ users = {}
  /\ users' = {i}
  /\ UNCHANGED <<stops, closed, serving>>

Serve(i) ==
  /\ i \in users /\ ~closed /\ serving = None
  /\ serving' = i
  /\ UNCHANGED <<stops, users, closed>>

Answer ==
  /\ serving # None
  /\ serving' = None
  /\ UNCHANGED <<stops, users, closed>>

Close ==
  /\ users # {} /\ ~closed
  /\ closed' = TRUE
  /\ UNCHANGED <<stops, users, serving>>

TearDown ==
  /\ serving = None /\ (closed \/ stops)
  /\ users' = {} /\ closed' = FALSE
  /\ UNCHANGED <<stops, serving>>

Next == (\E i \in Imports : Register(i) \/ Serve(i)) \/ Answer \/ Close \/ TearDown

Spec == Init /\ [][Next]_pipevars
=============================================================================
