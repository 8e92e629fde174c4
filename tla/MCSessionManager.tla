--------------------------- MODULE MCSessionManager ---------------------------
(* Two places for sessions and the one whose stack is the pipe thread's.     *)
(* With four sessions every place is used again and one finds no place.      *)
EXTENDS SessionManager
=============================================================================
