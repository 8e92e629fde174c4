------------------------------ MODULE MCRuntime ------------------------------
(* What the threads run on: the event, the allocator, and the table of        *)
(* sessions with its stacks.  They share no state, so one at a time leaves    *)
(* its initial state, in which no fair action of it is enabled, and the run   *)
(* has the sum of their states and not the product.                           *)
(*                                                                            *)
(* Three threads that wait for the event and two that signal.  Memory for     *)
(* five of the smallest blocks: enough for three free blocks with blocks in   *)
(* use between them, neighbours on either side, and a rest of one.            *)
(*                                                                            *)
(* Two places for sessions and the one whose stack is the pipe thread's.      *)
(* With four sessions every place is used again and one finds no place.       *)
EXTENDS LightEvent, Allocator, SessionManager

RuntimeInit == EventInit /\ meminit /\ Init

RuntimeNext ==
  \/ meminit /\ Init /\ EventNext /\ UNCHANGED <<memvars, vars>>
  \/ EventInit /\ Init /\ AllocatorNext /\ UNCHANGED <<evars, vars>>
  \/ EventInit /\ meminit /\ Next /\ UNCHANGED <<evars, memvars>>

RuntimeSpec ==
  /\ RuntimeInit /\ [][RuntimeNext]_<<evars, memvars, vars>>
  /\ EventFairness /\ Fairness
=============================================================================
