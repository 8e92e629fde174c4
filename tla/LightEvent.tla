----------------------------- MODULE LightEvent -----------------------------
(***************************************************************************)
(* LightEvent_Wait and LightEvent_Signal of source/3ds/synchronization.c,  *)
(* one memory access a step.  The program has one event, for the start of  *)
(* the pipe thread.  No code initialises it: its memory is zero, which is  *)
(* SIGNALED_ONESHOT, and so it is never one of the sticky states, whose    *)
(* branches are left out.                                                  *)
(***************************************************************************)
EXTENDS Integers

CONSTANTS
  Waiters,     \* threads that wait: the sessions' threads
  Signalers    \* threads that signal: pipe threads

ASSUME ThreadsAssumption == Waiters \intersect Signalers = {}

Threads == Waiters \union Signalers

CLEARED_ONESHOT == -1
SIGNALED_ONESHOT == 0

VARIABLES
  state,     \* the event's word
  reserved,  \* the threads whose exclusive reservation stands
  pc

evars == <<state, reserved, pc>>

WaitLabels == {"wait_test", "reset_ldrex", "reset_strex", "arbitrate", "asleep"}
SignalLabels == {"signal_test", "set_ldrex", "set_strex", "wake"}

EventInit == state = SIGNALED_ONESHOT /\ reserved = {} /\ pc = [t \in Threads |-> "idle"]

Continue(t, l) == pc' = [pc EXCEPT ![t] = l]

Ldrex(t, next) == reserved' = reserved \union {t} /\ Continue(t, next) /\ UNCHANGED state

\* Mutant: the result of STREX is ignored.
BugStrexIgnored(t, v, next, again) == state' = v /\ reserved' = {} /\ Continue(t, next)

\* Stores and breaks every reservation, or has lost its own and starts again.
Strex(t, v, next, again) ==
  \/ t \in reserved /\ state' = v /\ reserved' = {} /\ Continue(t, next)
  \/ t \notin reserved /\ Continue(t, again) /\ UNCHANGED <<state, reserved>>

LoseReservation(t) ==
  /\ t \in reserved
  /\ reserved' = reserved \ {t}
  /\ UNCHANGED <<state, pc>>

-----------------------------------------------------------------------------
(* LightEvent_Wait *)

WaitCall(t) == pc[t] = "idle" /\ Continue(t, "wait_test") /\ UNCHANGED <<state, reserved>>

WaitTest(t) ==
  /\ pc[t] = "wait_test"
  /\ Continue(t, IF state = CLEARED_ONESHOT THEN "arbitrate" ELSE "reset_ldrex")
  /\ UNCHANGED <<state, reserved>>

\* LightEvent_TryReset gives up when the event is no longer signalled.
ResetLdrex(t) ==
  /\ pc[t] = "reset_ldrex"
  /\ \/ state = SIGNALED_ONESHOT /\ Ldrex(t, "reset_strex")
     \/ /\ state # SIGNALED_ONESHOT
        /\ reserved' = reserved \ {t}
        /\ Continue(t, "arbitrate")
        /\ UNCHANGED state

ResetStrex(t) ==
  /\ pc[t] = "reset_strex"
  /\ Strex(t, CLEARED_ONESHOT, "idle", "reset_ldrex")

\* The kernel compares and sleeps in one step; awake, the loop starts again.
Arbitrate(t) ==
  /\ pc[t] = "arbitrate"
  /\ Continue(t, IF state < SIGNALED_ONESHOT THEN "asleep" ELSE "wait_test")
  /\ UNCHANGED <<state, reserved>>

-----------------------------------------------------------------------------
(* LightEvent_Signal *)

SignalCall(t) == pc[t] = "idle" /\ Continue(t, "signal_test") /\ UNCHANGED <<state, reserved>>

SignalTest(t) ==
  /\ pc[t] = "signal_test"
  /\ Continue(t, IF state = CLEARED_ONESHOT THEN "set_ldrex" ELSE "idle")
  /\ UNCHANGED <<state, reserved>>

SetLdrex(t) == pc[t] = "set_ldrex" /\ Ldrex(t, "set_strex")

\* Mutant: the event is set, but nobody is woken.
BugSetWakesNobody(t) ==
  /\ pc[t] = "set_strex"
  /\ Strex(t, SIGNALED_ONESHOT, "idle", "set_ldrex")

SetStrex(t) ==
  /\ pc[t] = "set_strex"
  /\ Strex(t, SIGNALED_ONESHOT, "wake", "set_ldrex")

\* At most one sleeper is woken.
Wake(t) ==
  /\ pc[t] = "wake"
  /\ \/ \E s \in Threads :
          /\ pc[s] = "asleep"
          /\ pc' = [pc EXCEPT ![t] = "idle", ![s] = "wait_test"]
     \/ (\A s \in Threads : pc[s] # "asleep") /\ Continue(t, "idle")
  /\ UNCHANGED <<state, reserved>>

-----------------------------------------------------------------------------
Waiting(t) == WaitTest(t) \/ ResetLdrex(t) \/ ResetStrex(t) \/ Arbitrate(t)
Signaling(t) == SignalTest(t) \/ SetLdrex(t) \/ SetStrex(t) \/ Wake(t)

EventNext ==
  \/ \E t \in Waiters : WaitCall(t) \/ Waiting(t)
  \/ \E t \in Signalers : SignalCall(t) \/ Signaling(t)
  \/ \E t \in Threads : LoseReservation(t)

\* Threads in a call keep running, and do not lose the reservation before every
\* one of their stores.
Store(t) == t \in reserved /\ (ResetStrex(t) \/ SetStrex(t))

EventFairness ==
  /\ \A t \in Waiters : WF_evars(Waiting(t))
  /\ \A t \in Signalers : WF_evars(Signaling(t))
  /\ \A t \in Threads : SF_evars(Store(t))

EventSpec == EventInit /\ [][EventNext]_evars /\ EventFairness

-----------------------------------------------------------------------------
(* Properties *)

\* A wait returns on a signal of its own: each return takes the event from set
\* to cleared, and only a signal sets it.
AbstractEvent == INSTANCE Event
  WITH Threads <- Waiters,
       signaled <- (state = SIGNALED_ONESHOT),
       waiting <- {t \in Waiters : pc[t] \in WaitLabels}

ImplementsEvent == AbstractEvent!Spec

\* A signal that finds a thread waiting lets one return, however the calls
\* interleave.
SignalLetsOneReturn ==
  (state = SIGNALED_ONESHOT /\ \E t \in Threads : pc[t] \in WaitLabels)
    ~> (state = CLEARED_ONESHOT)
=============================================================================
