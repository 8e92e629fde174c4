------------------------------ MODULE LightLock ------------------------------
(***************************************************************************)
(* The lock of source/3ds/synchronization.c: one signed word, updated with *)
(* LDREX/STREX, on which contending threads sleep through the kernel's     *)
(* address arbiter.                                                        *)
(*                                                                         *)
(*   lock =  1       free, nobody waits                                    *)
(*   lock =  1 + n   free, n threads are waiting                           *)
(*   lock = -(1 + n) held, n threads are waiting                           *)
(*                                                                         *)
(* Each memory access of LightLock_Lock and LightLock_Unlock is one step.  *)
(* A waiting thread has added itself to the count and has not yet taken    *)
(* the lock, whether it is asleep in the arbiter or on its way in or out.  *)
(***************************************************************************)
EXTENDS Integers, FiniteSets

CONSTANT Threads   \* the threads of the process that use the lock

ASSUME ThreadsFinite == IsFiniteSet(Threads)

VARIABLES
  lock,      \* the word
  reserved,  \* the threads whose exclusive reservation on the word is valid
  pc,        \* where each thread is in LightLock_Lock / LightLock_Unlock
  val        \* each thread's local "val"

llvars == <<lock, reserved, pc, val>>

Labels == {"idle", "lock_ldrex", "lock_strex", "arbitrate", "asleep",
           "retry_ldrex", "retry_strex", "held",
           "unlock_ldrex", "unlock_strex", "signal"}

WaitLabels == {"arbitrate", "asleep", "retry_ldrex", "retry_strex"}
HoldLabels == {"held", "unlock_ldrex", "unlock_strex"}
Waiters == {t \in Threads : pc[t] \in WaitLabels}
Holders == {t \in Threads : pc[t] \in HoldLabels}

LLInit ==
  /\ lock = 1                              \* LightLock_Init
  /\ reserved = {}
  /\ pc = [t \in Threads |-> "idle"]
  /\ val = [t \in Threads |-> 0]

-----------------------------------------------------------------------------
(* LDREX and STREX on the lock word.  A store succeeds only while the      *)
(* thread's reservation stands; a successful store by any thread breaks    *)
(* every reservation.  A reservation may also be lost for no reason the    *)
(* program sees (a context switch).                                        *)

Ldrex(t, v, next) ==
  /\ reserved' = reserved \union {t}
  /\ val' = [val EXCEPT ![t] = v]
  /\ pc' = [pc EXCEPT ![t] = next]
  /\ UNCHANGED lock

\* Mutant: the result of STREX is ignored.
BugStrexIgnoresReservation(t, v, next, again) ==
  /\ lock' = v
  /\ reserved' = {}
  /\ pc' = [pc EXCEPT ![t] = next]

Strex(t, v, next, again) ==
  \/ /\ t \in reserved
     /\ lock' = v
     /\ reserved' = {}
     /\ pc' = [pc EXCEPT ![t] = next]
  \/ /\ t \notin reserved
     /\ pc' = [pc EXCEPT ![t] = again]
     /\ UNCHANGED <<lock, reserved>>

LoseReservation(t) ==
  /\ t \in reserved
  /\ reserved' = reserved \ {t}
  /\ UNCHANGED <<lock, pc, val>>

-----------------------------------------------------------------------------
(* LightLock_Lock *)

LockCall(t) ==
  /\ pc[t] = "idle"
  /\ pc' = [pc EXCEPT ![t] = "lock_ldrex"]
  /\ UNCHANGED <<lock, reserved, val>>

LockLdrex(t) ==
  /\ pc[t] = "lock_ldrex"
  /\ Ldrex(t, IF lock = 0 THEN 1 ELSE lock, "lock_strex")

\* Free: take it, keeping the count.  Held: count this thread as a waiter.
LockStrex(t) ==
  /\ pc[t] = "lock_strex"
  /\ \/ val[t] >= 0 /\ Strex(t, -val[t], "held", "lock_ldrex")
     \/ val[t] < 0 /\ Strex(t, val[t] - 1, "arbitrate", "lock_ldrex")
  /\ UNCHANGED val

\* The kernel compares and sleeps in one step.
ArbitrateWait(t) ==
  /\ pc[t] = "arbitrate"
  /\ pc' = [pc EXCEPT ![t] = IF lock < 0 THEN "asleep" ELSE "retry_ldrex"]
  /\ UNCHANGED <<lock, reserved, val>>

\* Still held: __clrex and wait again, without touching the count.
RetryLdrex(t) ==
  /\ pc[t] = "retry_ldrex"
  /\ \/ lock >= 0 /\ Ldrex(t, lock, "retry_strex")
     \/ /\ lock < 0
        /\ pc' = [pc EXCEPT ![t] = "arbitrate"]
        /\ val' = [val EXCEPT ![t] = lock]
        /\ reserved' = reserved \ {t}
        /\ UNCHANGED lock

\* Mutant: the woken thread stays in the count.
BugRetryKeepsCount(t) ==
  /\ pc[t] = "retry_strex"
  /\ Strex(t, -val[t], "held", "retry_ldrex")
  /\ UNCHANGED val

\* One waiter fewer, and held by this thread.
RetryStrex(t) ==
  /\ pc[t] = "retry_strex"
  /\ Strex(t, -(val[t] - 1), "held", "retry_ldrex")
  /\ UNCHANGED val

-----------------------------------------------------------------------------
(* LightLock_Unlock *)

UnlockCall(t) ==
  /\ pc[t] = "held"
  /\ pc' = [pc EXCEPT ![t] = "unlock_ldrex"]
  /\ UNCHANGED <<lock, reserved, val>>

UnlockLdrex(t) ==
  /\ pc[t] = "unlock_ldrex"
  /\ Ldrex(t, -lock, "unlock_strex")

\* Mutant: the unlock wakes nobody.
BugUnlockNeverSignals(t) ==
  /\ pc[t] = "unlock_strex"
  /\ Strex(t, val[t], "idle", "unlock_ldrex")
  /\ UNCHANGED val

UnlockStrex(t) ==
  /\ pc[t] = "unlock_strex"
  /\ Strex(t, val[t], IF val[t] > 1 THEN "signal" ELSE "idle", "unlock_ldrex")
  /\ UNCHANGED val

\* Wakes at most one sleeper; the kernel chooses which.
ArbitrateSignal(t) ==
  /\ pc[t] = "signal"
  /\ \/ \E s \in Threads :
          /\ pc[s] = "asleep"
          /\ pc' = [pc EXCEPT ![t] = "idle", ![s] = "retry_ldrex"]
     \/ /\ \A s \in Threads : pc[s] # "asleep"
        /\ pc' = [pc EXCEPT ![t] = "idle"]
  /\ UNCHANGED <<lock, reserved, val>>

-----------------------------------------------------------------------------
Lock(t) ==
  \/ LockLdrex(t)  \/ LockStrex(t) \/ ArbitrateWait(t)
  \/ RetryLdrex(t) \/ RetryStrex(t)

Unlock(t) == UnlockLdrex(t) \/ UnlockStrex(t) \/ ArbitrateSignal(t)

LLNext ==
  \E t \in Threads :
    LockCall(t) \/ Lock(t) \/ UnlockCall(t) \/ Unlock(t) \/ LoseReservation(t)

\* Every running thread keeps running, a critical section ends, and a thread
\* that keeps trying does not lose its reservation before every one of its
\* stores.  Nobody is obliged to take the lock.
Store(t) == t \in reserved /\ (LockStrex(t) \/ RetryStrex(t) \/ UnlockStrex(t))

LLFairness ==
  \A t \in Threads :
    /\ WF_llvars(Lock(t)) /\ WF_llvars(UnlockCall(t)) /\ WF_llvars(Unlock(t))
    /\ SF_llvars(Store(t))

LLSpec == LLInit /\ [][LLNext]_llvars /\ LLFairness

-----------------------------------------------------------------------------
(* Properties *)

\* Type invariant.  The word is never 0, which LightLock_Lock calls an invalid
\* state: on a held word of 0 the sign no longer says that it is held.
LLTypeOK ==
  /\ lock \in Int \ {0}
  /\ reserved \subseteq Threads
  /\ pc \in [Threads -> Labels]
  /\ val \in [Threads -> Int]
  /\ \A t \in Threads : pc[t] = "retry_strex" => val[t] >= 0

\* At most one thread is between the end of LightLock_Lock and the store of
\* LightLock_Unlock that frees the word.
MutualExclusion ==
  \A s, t \in Holders : s = t

\* The word always says whether the lock is held and exactly how many threads
\* have registered as waiters, also across threads that overtake a waiter the
\* unlock has just woken.
LockWord ==
  lock = IF Holders # {} THEN -(1 + Cardinality(Waiters)) ELSE 1 + Cardinality(Waiters)

\* A free lock with registered waiters is never left with all of them asleep
\* and nobody about to signal.
NoLostWakeup ==
  lock > 1 =>
    \E t \in Threads : pc[t] \in {"signal", "arbitrate", "retry_ldrex", "retry_strex"}

\* A thread whose reservation stands has the current word in "val", so the
\* value it stores is computed from the value it replaces.
ReservedReadIsCurrent ==
  \A t \in reserved :
    /\ pc[t] = "lock_strex" => val[t] = lock
    /\ pc[t] = "retry_strex" => val[t] = lock
    /\ pc[t] = "unlock_strex" => val[t] = -lock

\* Whenever threads wait for the lock, some thread gets it.  (Not: every
\* thread.  The lock lets a newcomer overtake the thread it wakes.)
LockProgress == (Waiters # {}) ~> (\E t \in Threads : pc[t] = "held")

=============================================================================
