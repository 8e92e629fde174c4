------------------------- MODULE RecursiveLockProofs -------------------------
(***************************************************************************)
(* Theorems about LightLock and RecursiveLock, for every finite set of     *)
(* threads and every depth.                                                *)
(*                                                                         *)
(* Mutual exclusion rests on the word: a thread enters only by storing     *)
(* over a word it has just seen to be positive, and the word is positive   *)
(* only when nobody holds.  That in turn needs the exact waiter count (a   *)
(* retry that stored -(val - 1) with val = 1 would write 0) and the        *)
(* reservation that makes read and store one step.  So the inductive       *)
(* invariant of LightLock is the conjunction of all four.                  *)
(*                                                                         *)
(* A step of RecursiveLock is a step of LightLock or leaves it as it is.   *)
(* The thread that owns the lock is the one between SetTag and ClearTag.   *)
(* It is inside the LightLock all that time, the tag is its own, and the   *)
(* counter is how deep it is; when nobody owns, tag and counter are clear. *)
(***************************************************************************)
EXTENDS RecursiveLock, FiniteSetTheorems, TLAPS

-----------------------------------------------------------------------------
(* LightLock *)

LLInv == LLTypeOK /\ MutualExclusion /\ LockWord /\ ReservedReadIsCurrent

\* A thread moving to label l enters or leaves the waiters and the holders by
\* its label alone.
LEMMA Moved ==
  ASSUME LLTypeOK, NEW t \in Threads, NEW l \in Labels, pc' = [pc EXCEPT ![t] = l]
  PROVE  /\ Waiters' = IF l \in WaitLabels THEN Waiters \union {t} ELSE Waiters \ {t}
         /\ Holders' = IF l \in HoldLabels THEN Holders \union {t} ELSE Holders \ {t}
BY DEF LLTypeOK, Waiters, Holders

\* What adding and removing one thread does to the number of waiters.
LEMMA Counts ==
  ASSUME LLTypeOK, NEW t \in Threads
  PROVE  /\ Cardinality(Waiters) \in Nat
         /\ Cardinality(Waiters \union {t}) =
              IF t \in Waiters THEN Cardinality(Waiters) ELSE Cardinality(Waiters) + 1
         /\ Cardinality(Waiters \ {t}) =
              IF t \in Waiters THEN Cardinality(Waiters) - 1 ELSE Cardinality(Waiters)
<1>1. IsFiniteSet(Waiters)
  BY ThreadsFinite, FS_Subset DEF Waiters
<1> QED
  BY <1>1, FS_CardinalityType, FS_AddElement, FS_RemoveElement

\* A registered waiter is counted.
LEMMA WaiterCounted ==
  ASSUME LLTypeOK, NEW t \in Waiters
  PROVE  Cardinality(Waiters) >= 1
<1>1. IsFiniteSet(Waiters)
  BY ThreadsFinite, FS_Subset DEF Waiters
<1> QED
  BY <1>1, FS_CardinalityType, FS_EmptySet

\* A step that leaves the word, and every thread's class, as they were
\* disturbs neither the word's meaning nor mutual exclusion.
LEMMA SameClasses ==
  ASSUME LLInv, Waiters' = Waiters, Holders' = Holders, lock' = lock
  PROVE  MutualExclusion' /\ LockWord'
BY DEF LLInv, MutualExclusion, LockWord

\* What a load does, whichever loop it is in.
LEMMA LoadStep ==
  ASSUME LLInv, NEW t \in Threads, NEW v \in Int, NEW l \in Labels, Ldrex(t, v, l),
         pc[t] \in WaitLabels <=> l \in WaitLabels,
         pc[t] \in HoldLabels <=> l \in HoldLabels,
         l = "retry_strex" => v >= 0,
         l \in {"lock_strex", "retry_strex"} => v = lock,
         l = "unlock_strex" => v = -lock
  PROVE  LLInv'
<1> USE DEF LLInv, LLTypeOK
<1>1. LLTypeOK'
  BY DEF Ldrex
<1>2. Waiters' = Waiters /\ Holders' = Holders
  BY Moved DEF Ldrex, Waiters, Holders
<1>3. MutualExclusion' /\ LockWord'
  BY <1>2, SameClasses DEF Ldrex
<1>4. ReservedReadIsCurrent'
  BY DEF ReservedReadIsCurrent, Ldrex
<1> QED
  BY <1>1, <1>3, <1>4

\* A store that fails only sends the thread back to its load.
LEMMA FailedStore ==
  ASSUME LLInv, NEW t \in Threads, NEW l \in Labels \ {"retry_strex"},
         pc' = [pc EXCEPT ![t] = l], UNCHANGED <<lock, reserved, val>>,
         t \notin reserved,
         pc[t] \in WaitLabels <=> l \in WaitLabels,
         pc[t] \in HoldLabels <=> l \in HoldLabels
  PROVE  LLInv'
<1> USE DEF LLInv, LLTypeOK
<1>1. LLTypeOK'
  OBVIOUS
<1>2. Waiters' = Waiters /\ Holders' = Holders
  BY Moved DEF Waiters, Holders
<1>3. MutualExclusion' /\ LockWord'
  BY <1>2, SameClasses
<1>4. ReservedReadIsCurrent'
  BY DEF ReservedReadIsCurrent
<1> QED
  BY <1>1, <1>3, <1>4

\* A step outside the loads and stores: the thread moves, within its class, to
\* a label that is not a store.
LEMMA PlainStep ==
  ASSUME LLInv, NEW t \in Threads, NEW l \in Labels \ {"lock_strex", "retry_strex", "unlock_strex"},
         pc' = [pc EXCEPT ![t] = l], UNCHANGED <<lock, reserved, val>>,
         pc[t] \in WaitLabels <=> l \in WaitLabels,
         pc[t] \in HoldLabels <=> l \in HoldLabels
  PROVE  LLInv'
<1> USE DEF LLInv, LLTypeOK
<1>1. LLTypeOK'
  OBVIOUS
<1>2. Waiters' = Waiters /\ Holders' = Holders
  BY Moved DEF Waiters, Holders
<1>3. MutualExclusion' /\ LockWord'
  BY <1>2, SameClasses
<1>4. ReservedReadIsCurrent'
  BY DEF ReservedReadIsCurrent
<1> QED
  BY <1>1, <1>3, <1>4

-----------------------------------------------------------------------------
\* The stores that change who holds and who waits.

\* LightLock_Lock's store takes the free word, or counts the caller as a waiter.
LEMMA LockStrexStep ==
  ASSUME LLInv, NEW t \in Threads, LockStrex(t)
  PROVE  LLInv'
<1> USE DEF LLInv
<1>a. pc[t] = "lock_strex" /\ t \notin Waiters /\ t \notin Holders
  BY DEF LockStrex, Waiters, Holders, WaitLabels, HoldLabels
<1>n. Cardinality(Waiters) \in Nat
  BY Counts
<1>1. CASE t \notin reserved
  <2>1. pc' = [pc EXCEPT ![t] = "lock_ldrex"] /\ UNCHANGED <<lock, reserved, val>>
    BY <1>1 DEF LockStrex, Strex
  <2> QED
    BY <1>1, <1>a, <2>1, FailedStore DEF Labels, WaitLabels, HoldLabels
<1>2. CASE t \in reserved /\ val[t] >= 0
  <2>1. /\ lock' = -val[t] /\ reserved' = {} /\ val' = val
        /\ pc' = [pc EXCEPT ![t] = "held"]
        /\ val[t] = lock /\ val[t] \in Int
    BY <1>2, <1>a DEF LockStrex, Strex, ReservedReadIsCurrent, LLTypeOK
  <2>2. Holders = {} /\ lock = 1 + Cardinality(Waiters)
    BY <1>2, <1>n, <2>1 DEF LockWord
  <2>3. Waiters' = Waiters /\ Holders' = {t}
    <3>1. Waiters' = Waiters \ {t} /\ Holders' = Holders \union {t}
      BY <2>1, Moved DEF Labels, WaitLabels, HoldLabels
    <3> QED
      BY <1>a, <2>2, <3>1
  <2>4. LLTypeOK'
    BY <1>2, <2>1 DEF LLTypeOK, Labels
  <2> QED
    BY <2>1, <2>2, <2>3, <2>4, <1>n DEF MutualExclusion, LockWord, ReservedReadIsCurrent
<1>3. CASE t \in reserved /\ val[t] < 0
  <2>1. /\ lock' = val[t] - 1 /\ reserved' = {} /\ val' = val
        /\ pc' = [pc EXCEPT ![t] = "arbitrate"]
        /\ val[t] = lock /\ val[t] \in Int
    BY <1>3, <1>a DEF LockStrex, Strex, ReservedReadIsCurrent, LLTypeOK
  <2>2. Holders # {} /\ lock = -(1 + Cardinality(Waiters))
    BY <1>3, <1>n, <2>1 DEF LockWord
  <2>3. Waiters' = Waiters \union {t} /\ Holders' = Holders
    <3>1. Waiters' = Waiters \union {t} /\ Holders' = Holders \ {t}
      BY <2>1, Moved DEF Labels, WaitLabels, HoldLabels
    <3> QED
      BY <1>a, <3>1
  <2>4. Cardinality(Waiters') = Cardinality(Waiters) + 1
    BY <1>a, <2>3, Counts
  <2>5. LLTypeOK'
    BY <1>3, <2>1 DEF LLTypeOK, Labels
  <2> QED
    BY <2>1, <2>2, <2>3, <2>4, <2>5, <1>n DEF MutualExclusion, LockWord, ReservedReadIsCurrent
<1> QED
  BY <1>1, <1>2, <1>3 DEF LLTypeOK

\* A woken waiter's store takes the word and takes the waiter out of the count.
LEMMA RetryStrexStep ==
  ASSUME LLInv, NEW t \in Threads, RetryStrex(t)
  PROVE  LLInv'
<1> USE DEF LLInv
<1>a. pc[t] = "retry_strex" /\ t \in Waiters /\ t \notin Holders
  BY DEF RetryStrex, Waiters, Holders, WaitLabels, HoldLabels
<1>n. Cardinality(Waiters) \in Nat
  BY Counts
<1>1. CASE t \notin reserved
  <2>1. pc' = [pc EXCEPT ![t] = "retry_ldrex"] /\ UNCHANGED <<lock, reserved, val>>
    BY <1>1 DEF RetryStrex, Strex
  <2> QED
    BY <1>1, <1>a, <2>1, FailedStore DEF Labels, WaitLabels, HoldLabels
<1>2. CASE t \in reserved
  <2>1. /\ lock' = -(val[t] - 1) /\ reserved' = {} /\ val' = val
        /\ pc' = [pc EXCEPT ![t] = "held"]
        /\ val[t] = lock /\ val[t] \in Int /\ val[t] >= 0
    BY <1>2, <1>a DEF RetryStrex, Strex, ReservedReadIsCurrent, LLTypeOK
  <2>2. Holders = {} /\ lock = 1 + Cardinality(Waiters)
    BY <1>n, <2>1 DEF LockWord
  <2>3. Waiters' = Waiters \ {t} /\ Holders' = {t}
    BY <1>a, <2>1, <2>2, Moved DEF Labels, WaitLabels, HoldLabels
  <2>4. Cardinality(Waiters') = Cardinality(Waiters) - 1 /\ Cardinality(Waiters) >= 1
    BY <1>a, <2>3, Counts, WaiterCounted
  <2>5. LLTypeOK'
    BY <2>1, <2>2, <2>4, <1>n DEF LLTypeOK, Labels
  <2> QED
    BY <2>1, <2>2, <2>3, <2>4, <2>5, <1>n DEF MutualExclusion, LockWord, ReservedReadIsCurrent
<1> QED
  BY <1>1, <1>2

\* LightLock_Unlock's store frees the word and keeps the count.
LEMMA UnlockStrexStep ==
  ASSUME LLInv, NEW t \in Threads, UnlockStrex(t)
  PROVE  LLInv'
<1> USE DEF LLInv
<1>a. pc[t] = "unlock_strex" /\ t \notin Waiters /\ t \in Holders
  BY DEF UnlockStrex, Waiters, Holders, WaitLabels, HoldLabels
<1>n. Cardinality(Waiters) \in Nat
  BY Counts
<1>1. CASE t \notin reserved
  <2>1. pc' = [pc EXCEPT ![t] = "unlock_ldrex"] /\ UNCHANGED <<lock, reserved, val>>
    BY <1>1 DEF UnlockStrex, Strex
  <2> QED
    BY <1>1, <1>a, <2>1, FailedStore DEF Labels, WaitLabels, HoldLabels
<1>2. CASE t \in reserved
  <2> DEFINE l == IF val[t] > 1 THEN "signal" ELSE "idle"
  <2>1. /\ lock' = val[t] /\ reserved' = {} /\ val' = val
        /\ pc' = [pc EXCEPT ![t] = l]
        /\ val[t] = -lock /\ val[t] \in Int
    BY <1>2, <1>a DEF UnlockStrex, Strex, ReservedReadIsCurrent, LLTypeOK
  <2>2. lock = -(1 + Cardinality(Waiters)) /\ Holders = {t}
    BY <1>a DEF LockWord, MutualExclusion
  <2>3. l \in Labels /\ l \notin WaitLabels /\ l \notin HoldLabels /\ l # "retry_strex"
    BY DEF Labels, WaitLabels, HoldLabels
  <2> HIDE DEF l
  <2>4. Waiters' = Waiters /\ Holders' = {}
    <3>1. Waiters' = Waiters \ {t} /\ Holders' = Holders \ {t}
      BY <2>1, <2>3, Moved
    <3> QED
      BY <1>a, <2>2, <3>1
  <2>5. LLTypeOK'
    BY <2>1, <2>2, <2>3, <1>n DEF LLTypeOK
  <2> QED
    BY <2>1, <2>2, <2>4, <2>5, <1>n DEF MutualExclusion, LockWord, ReservedReadIsCurrent
<1> QED
  BY <1>1, <1>2

-----------------------------------------------------------------------------
\* LightLock_Init establishes the invariant.
LEMMA InitInv == LLInit => LLInv
<1> SUFFICES ASSUME LLInit PROVE LLInv
  OBVIOUS
<1>1. Waiters = {} /\ Holders = {}
  BY DEF LLInit, Waiters, Holders, WaitLabels, HoldLabels
<1> QED
  BY <1>1, FS_EmptySet
  DEF LLInit, LLInv, LLTypeOK, Labels, MutualExclusion, LockWord, ReservedReadIsCurrent

\* Waking moves one thread to the retry loop; both threads stay in their class.
LEMMA SignalStep ==
  ASSUME LLInv, NEW t \in Threads, ArbitrateSignal(t)
  PROVE  LLInv'
<1> USE DEF LLInv, LLTypeOK
<1>1. LLTypeOK'
  BY DEF ArbitrateSignal, Labels
<1>2. Waiters' = Waiters /\ Holders' = Holders
  BY DEF ArbitrateSignal, Waiters, Holders, WaitLabels, HoldLabels
<1>3. MutualExclusion' /\ LockWord'
  BY <1>2, SameClasses DEF ArbitrateSignal
<1>4. ReservedReadIsCurrent'
  BY DEF ReservedReadIsCurrent, ArbitrateSignal
<1> QED
  BY <1>1, <1>3, <1>4

\* The still-held branch of the retry gives the reservation back.
LEMMA RetryLdrexStep ==
  ASSUME LLInv, NEW t \in Threads, RetryLdrex(t)
  PROVE  LLInv'
<1> USE DEF LLInv
<1>a. pc[t] = "retry_ldrex" /\ lock \in Int
  BY DEF RetryLdrex, LLTypeOK
<1>1. CASE lock >= 0 /\ Ldrex(t, lock, "retry_strex")
  BY <1>a, <1>1, LoadStep DEF Labels, WaitLabels, HoldLabels
<1>2. CASE lock < 0 /\ pc' = [pc EXCEPT ![t] = "arbitrate"]
  <2>1. val' = [val EXCEPT ![t] = lock] /\ reserved' = reserved \ {t} /\ lock' = lock
    BY <1>2, <1>a DEF RetryLdrex, Ldrex, LLTypeOK
  <2>2. LLTypeOK'
    BY <1>2, <2>1 DEF LLTypeOK, Labels
  <2>3. Waiters' = Waiters /\ Holders' = Holders
    BY <1>a, <1>2 DEF LLTypeOK, Waiters, Holders, WaitLabels, HoldLabels
  <2>4. MutualExclusion' /\ LockWord'
    BY <2>1, <2>3, SameClasses
  <2>5. ReservedReadIsCurrent'
    BY <1>2, <2>1 DEF ReservedReadIsCurrent, LLTypeOK
  <2> QED
    BY <2>2, <2>4, <2>5
<1> QED
  BY <1>1, <1>2 DEF RetryLdrex

\* Every step of LightLock_Lock and LightLock_Unlock keeps the invariant.
LEMMA NextInv == LLInv /\ [LLNext]_llvars => LLInv'
<1> SUFFICES ASSUME LLInv, [LLNext]_llvars PROVE LLInv'
  OBVIOUS
<1> USE DEF LLInv
<1>0. CASE UNCHANGED llvars
  BY <1>0 DEF llvars, LLTypeOK, MutualExclusion, LockWord, ReservedReadIsCurrent, Waiters, Holders
<1>1. ASSUME NEW t \in Threads, LockCall(t) PROVE LLInv'
  BY <1>1, PlainStep DEF LockCall, Labels, WaitLabels, HoldLabels
<1>2. ASSUME NEW t \in Threads, LockLdrex(t) PROVE LLInv'
  <2>1. pc[t] = "lock_ldrex" /\ lock \in Int /\ Ldrex(t, lock, "lock_strex")
    BY <1>2 DEF LockLdrex, LLTypeOK
  <2> QED
    BY <2>1, LoadStep DEF Labels, WaitLabels, HoldLabels
<1>3. ASSUME NEW t \in Threads, LockStrex(t) PROVE LLInv'
  BY <1>3, LockStrexStep
<1>4. ASSUME NEW t \in Threads, ArbitrateWait(t) PROVE LLInv'
  <2> DEFINE l == IF lock < 0 THEN "asleep" ELSE "retry_ldrex"
  <2>1. pc[t] = "arbitrate" /\ pc' = [pc EXCEPT ![t] = l] /\ UNCHANGED <<lock, reserved, val>>
    BY <1>4 DEF ArbitrateWait
  <2>2. l \in {"asleep", "retry_ldrex"}
    OBVIOUS
  <2> HIDE DEF l
  <2> QED
    BY <2>1, <2>2, PlainStep DEF Labels, WaitLabels, HoldLabels
<1>5. ASSUME NEW t \in Threads, RetryLdrex(t) PROVE LLInv'
  BY <1>5, RetryLdrexStep
<1>6. ASSUME NEW t \in Threads, RetryStrex(t) PROVE LLInv'
  BY <1>6, RetryStrexStep
<1>7. ASSUME NEW t \in Threads, UnlockCall(t) PROVE LLInv'
  BY <1>7, PlainStep DEF UnlockCall, Labels, WaitLabels, HoldLabels
<1>8. ASSUME NEW t \in Threads, UnlockLdrex(t) PROVE LLInv'
  <2>1. pc[t] = "unlock_ldrex" /\ -lock \in Int /\ Ldrex(t, -lock, "unlock_strex")
    BY <1>8 DEF UnlockLdrex, LLTypeOK
  <2> QED
    BY <2>1, LoadStep DEF Labels, WaitLabels, HoldLabels
<1>9. ASSUME NEW t \in Threads, UnlockStrex(t) PROVE LLInv'
  BY <1>9, UnlockStrexStep
<1>10. ASSUME NEW t \in Threads, ArbitrateSignal(t) PROVE LLInv'
  BY <1>10, SignalStep
<1>11. ASSUME NEW t \in Threads, LoseReservation(t) PROVE LLInv'
  BY <1>11 DEF LoseReservation, LLTypeOK, MutualExclusion, LockWord, ReservedReadIsCurrent,
               Waiters, Holders
<1> QED
  BY <1>0, <1>1, <1>2, <1>3, <1>4, <1>5, <1>6, <1>7, <1>8, <1>9, <1>10, <1>11
  DEF LLNext, Lock, Unlock

\* The invariant holds in every reachable state.
THEOREM Invariance == LLSpec => []LLInv
<1> QED
  BY InitInv, NextInv, PTL DEF LLSpec

\* The word stays in the states the code calls valid, for any number of
\* threads.
THEOREM TypeCorrect == LLSpec => []LLTypeOK
<1>1. LLInv => LLTypeOK
  BY DEF LLInv
<1> QED
  BY <1>1, Invariance, PTL

\* LightLock_Lock returns to at most one thread at a time.
THEOREM Safety == LLSpec => []MutualExclusion
<1>1. LLInv => MutualExclusion
  BY DEF LLInv
<1> QED
  BY <1>1, Invariance, PTL

\* The word counts the waiters exactly.
THEOREM WordIsExact == LLSpec => []LockWord
<1>1. LLInv => LockWord
  BY DEF LLInv
<1> QED
  BY <1>1, Invariance, PTL

-----------------------------------------------------------------------------
\* No lost wakeup: a positive count on a free word always comes with a thread
\* that is about to signal, or with a waiter that is awake.  The steps that can
\* disturb it are the ones that free the word, that fall asleep, and that
\* consume the signal; each is settled by what the word says of the waiters.

\* A new lock has nobody asleep on it.
LEMMA InitWakeup == LLInit => NoLostWakeup
BY DEF LLInit, NoLostWakeup

\* Every step of the lock keeps a sleeping waiter from being forgotten.
LEMMA NextWakeup == LLInv /\ NoLostWakeup /\ [LLNext]_llvars => NoLostWakeup'
<1> SUFFICES ASSUME LLInv, NoLostWakeup, [LLNext]_llvars, lock' > 1
             PROVE  (\E t \in Threads : pc[t] \in {"signal", "arbitrate", "retry_ldrex", "retry_strex"})'
  BY DEF NoLostWakeup
<1> DEFINE awake(t) == pc[t] \in {"signal", "arbitrate", "retry_ldrex", "retry_strex"}
<1>a. pc \in [Threads -> Labels] /\ val \in [Threads -> Int] /\ lock \in Int
  BY DEF LLInv, LLTypeOK
<1>b. lock > 1 => \E w \in Threads : awake(w)
  BY DEF NoLostWakeup
<1>c. pc' \in [Threads -> Labels] /\ lock' \in Int
  BY NextInv DEF LLInv, LLTypeOK
<1>0. CASE UNCHANGED llvars
  BY <1>0, <1>b DEF llvars
<1>1. ASSUME NEW t \in Threads, LockCall(t) PROVE \E w \in Threads : awake(w)'
  BY <1>1, <1>a, <1>b DEF LockCall, Labels
<1>2. ASSUME NEW t \in Threads, LockLdrex(t) PROVE \E w \in Threads : awake(w)'
  BY <1>2, <1>a, <1>b DEF LockLdrex, Ldrex, Labels
<1>3. ASSUME NEW t \in Threads, LockStrex(t) PROVE \E w \in Threads : awake(w)'
  <2>1. lock' = lock
    BY <1>3, <1>a DEF LockStrex, Strex, LLInv, ReservedReadIsCurrent
  <2> QED
    BY <2>1, <1>3, <1>a, <1>b DEF LockStrex, Strex, Labels
<1>4. ASSUME NEW t \in Threads, ArbitrateWait(t) PROVE \E w \in Threads : awake(w)'
  BY <1>4, <1>a, <1>b DEF ArbitrateWait, Labels
<1>5. ASSUME NEW t \in Threads, RetryLdrex(t) PROVE \E w \in Threads : awake(w)'
  BY <1>5, <1>a, <1>b DEF RetryLdrex, Ldrex, Labels
<1>6. ASSUME NEW t \in Threads, RetryStrex(t) PROVE \E w \in Threads : awake(w)'
  <2>1. val[t] >= 0 /\ val[t] \in Int
    BY <1>6, <1>a DEF RetryStrex, LLInv, LLTypeOK
  <2>2. t \notin reserved /\ lock' = lock
    BY <1>6, <2>1 DEF RetryStrex, Strex
  <2> QED
    BY <2>2, <1>6, <1>a, <1>b DEF RetryStrex, Strex, Labels
<1>7. ASSUME NEW t \in Threads, UnlockCall(t) PROVE \E w \in Threads : awake(w)'
  BY <1>7, <1>a, <1>b DEF UnlockCall, Labels
<1>8. ASSUME NEW t \in Threads, UnlockLdrex(t) PROVE \E w \in Threads : awake(w)'
  BY <1>8, <1>a, <1>b DEF UnlockLdrex, Ldrex, Labels
<1>9. ASSUME NEW t \in Threads, UnlockStrex(t) PROVE \E w \in Threads : awake(w)'
  <2>1. CASE t \in reserved
    BY <2>1, <1>9, <1>a DEF UnlockStrex, Strex, Labels
  <2>2. CASE t \notin reserved
    BY <2>2, <1>9, <1>a, <1>b DEF UnlockStrex, Strex, Labels
  <2> QED
    BY <2>1, <2>2
<1>10. ASSUME NEW t \in Threads, ArbitrateSignal(t) PROVE \E w \in Threads : awake(w)'
  <2>1. lock > 1
    BY <1>10 DEF ArbitrateSignal
  <2>2. PICK w \in Waiters : TRUE
    <3>1. Cardinality(Waiters) \in Nat
      BY Counts DEF LLInv
    <3>2. lock = 1 + Cardinality(Waiters)
      BY <2>1, <3>1 DEF LLInv, LockWord
    <3> QED
      BY <2>1, <3>2, FS_EmptySet
  <2>3. CASE \E s \in Threads : pc[s] = "asleep" /\ pc' = [pc EXCEPT ![t] = "idle", ![s] = "retry_ldrex"]
    BY <2>3, <1>10, <1>a DEF ArbitrateSignal
  <2>4. CASE (\A s \in Threads : pc[s] # "asleep") /\ pc' = [pc EXCEPT ![t] = "idle"]
    <3>1. w \in Threads /\ w # t /\ awake(w)
      BY <2>2, <2>4, <1>10, <1>a DEF ArbitrateSignal, Waiters, WaitLabels
    <3> QED
      BY <3>1, <2>4, <1>a
  <2> QED
    BY <2>3, <2>4, <1>10 DEF ArbitrateSignal
<1>11. ASSUME NEW t \in Threads, LoseReservation(t) PROVE \E w \in Threads : awake(w)'
  BY <1>11, <1>b DEF LoseReservation
<1> QED
  BY <1>0, <1>1, <1>2, <1>3, <1>4, <1>5, <1>6, <1>7, <1>8, <1>9, <1>10, <1>11
  DEF LLNext, Lock, Unlock

\* LightLock_Unlock never leaves the lock free with everyone who wants it
\* asleep.
THEOREM WakeupSafety == LLSpec => []NoLostWakeup
<1> QED
  BY Invariance, InitWakeup, NextWakeup, PTL DEF LLSpec

-----------------------------------------------------------------------------
(* RecursiveLock *)

RLabels == {"idle", "test", "enter", "tag", "count", "uncount", "untag", "leave"}

RTypeOK ==
  /\ thread_tag \in Threads \union {NoThread}
  /\ counter \in Nat
  /\ rpc \in [Threads -> RLabels]
  /\ nest \in [Threads -> Nat]

\* Between the store of the tag and the store that clears it.
Owns(t) ==
  \/ rpc[t] \in {"count", "uncount", "untag"}
  \/ rpc[t] \in {"idle", "test"} /\ nest[t] > 0

\* The call that takes the counter down has been undone already, by nest.
OwnerIsTagged ==
  \A t \in Threads : Owns(t) =>
    /\ pc[t] = "held"
    /\ thread_tag = t
    /\ counter = IF rpc[t] = "uncount" THEN nest[t] + 1 ELSE nest[t]

FreeIsClear == (\A t \in Threads : ~Owns(t)) => thread_tag = NoThread /\ counter = 0

\* Where the LightLock has a thread, by where RecursiveLock has it.
LightWhere ==
  \A t \in Threads :
    /\ rpc[t] \in {"enter", "tag", "untag", "leave"} => nest[t] = 0
    /\ rpc[t] = "tag" => pc[t] = "held"
    /\ rpc[t] = "enter" => pc[t] \in WaitLabels \union {"idle", "lock_ldrex", "lock_strex", "held"}
    /\ rpc[t] = "leave" => pc[t] \in HoldLabels \union {"idle", "signal"}
    /\ rpc[t] \in {"idle", "test"} /\ nest[t] = 0 => pc[t] = "idle"

RAgree == RTypeOK /\ OwnerIsTagged /\ FreeIsClear /\ LightWhere

RInv == LLInv /\ RAgree

-----------------------------------------------------------------------------
\* Whatever RecursiveLock does, the LightLock takes a step of its own or none.
LEMMA LightRefined ==
  ASSUME [RNext]_rvars
  PROVE  [LLNext]_llvars
BY DEF RNext, rvars, rlvars, llvars, RStep, RLockCall, RUnlockCall, TestTag, EnterLight, SetTag,
       CountUp, CountDown, ClearTag, LeaveLight, LightStep, LLNext

\* A thread that holds the LightLock is the only one, so an owner is too.
LEMMA OneOwner ==
  ASSUME RInv, NEW s \in Threads, NEW t \in Threads, Owns(s), pc[t] \in HoldLabels
  PROVE  s = t
BY DEF RInv, RAgree, OwnerIsTagged, LLInv, MutualExclusion, Holders, HoldLabels

\* At first nobody holds the lock.
LEMMA RInitInv == RInit => RInv
<1> SUFFICES ASSUME RInit PROVE RInv
  OBVIOUS
<1>1. LLInv
  BY InitInv DEF RInit
<1>2. RAgree
  BY DEF RInit, LLInit, RAgree, RTypeOK, OwnerIsTagged, FreeIsClear, LightWhere, Owns, RLabels
<1> QED
  BY <1>1, <1>2 DEF RInv

\* The steps inside the LightLock move threads that are on their way in or out.
LEMMA LightStepInv ==
  ASSUME RInv, NEW t \in Threads, LightStep(t)
  PROVE  RAgree'
<1> USE DEF RInv, RAgree, RTypeOK, RLabels
<1>a. UNCHANGED <<thread_tag, counter, rpc, nest>> /\ pc \in [Threads -> Labels]
  BY DEF LightStep, rlvars, LLInv, LLTypeOK
<1>1. RTypeOK' /\ FreeIsClear'
  BY <1>a DEF FreeIsClear, Owns
<1>2. pc' = pc \/ pc[t] \notin {"idle", "held"}
  BY DEF LightStep, Lock, Unlock, LockLdrex, LockStrex, ArbitrateWait, RetryLdrex, RetryStrex,
         UnlockLdrex, UnlockStrex, ArbitrateSignal, LoseReservation
<1>3. CASE pc' = pc
  BY <1>a, <1>1, <1>3 DEF OwnerIsTagged, LightWhere, Owns
<1>4. CASE \E l \in Labels : pc' = [pc EXCEPT ![t] = l]
                          /\ (pc[t] \in WaitLabels \union {"lock_ldrex", "lock_strex"} =>
                                l \in WaitLabels \union {"lock_ldrex", "lock_strex", "held"})
                          /\ (pc[t] \in {"unlock_ldrex", "unlock_strex", "signal"} =>
                                l \in HoldLabels \union {"idle", "signal"})
  BY <1>a, <1>1, <1>2, <1>4 DEF OwnerIsTagged, LightWhere, Owns, WaitLabels, HoldLabels, Labels
<1>5. CASE ArbitrateSignal(t)
  BY <1>a, <1>1, <1>5 DEF ArbitrateSignal, OwnerIsTagged, LightWhere, Owns, WaitLabels, HoldLabels
<1>q. QED
  <2>1. CASE Lock(t)
    BY <2>1, <1>3, <1>4 DEF Lock, LockLdrex, LockStrex, ArbitrateWait, RetryLdrex, RetryStrex,
                            Ldrex, Strex, Labels, WaitLabels, HoldLabels
  <2>2. CASE UnlockLdrex(t) \/ UnlockStrex(t)
    BY <2>2, <1>3, <1>4 DEF UnlockLdrex, UnlockStrex, Ldrex, Strex, Labels, WaitLabels, HoldLabels
  <2>3. CASE LoseReservation(t)
    BY <2>3, <1>3 DEF LoseReservation
  <2>q. QED
    BY <2>1, <2>2, <2>3, <1>5 DEF LightStep, Unlock

\* Every step of RecursiveLock_Lock and RecursiveLock_Unlock keeps owner, tag
\* and counter in agreement.
LEMMA RNextInv == RInv /\ [RNext]_rvars => RInv'
<1> SUFFICES ASSUME RInv, [RNext]_rvars PROVE RInv'
  OBVIOUS
<1> USE RLAssumption
<1>0. LLInv'
  BY LightRefined, NextInv DEF RInv
<1>a. SUFFICES RAgree'
  BY <1>0 DEF RInv
<1> USE DEF RAgree, RTypeOK, OwnerIsTagged, FreeIsClear, LightWhere, Owns, RLabels, RGoto, llvars
<1>1. ASSUME NEW t \in Threads, RLockCall(t) PROVE RAgree'
  BY <1>1 DEF RLockCall, RInv
<1>2. ASSUME NEW t \in Threads, TestTag(t) PROVE RAgree'
  BY <1>2 DEF TestTag, RInv
<1>3. ASSUME NEW t \in Threads, EnterLight(t) PROVE RAgree'
  <2>1. CASE LockCall(t) /\ UNCHANGED rlvars
    BY <1>3, <2>1 DEF EnterLight, LockCall, RInv, rlvars, LLInv, LLTypeOK, WaitLabels, Labels
  <2>2. CASE pc[t] = "held" /\ RGoto(t, "tag") /\ UNCHANGED <<llvars, thread_tag, counter, nest>>
    <3>1. rpc[t] = "enter" /\ nest[t] = 0
      BY <1>3 DEF EnterLight, RInv
    <3>q. QED
      BY <2>2, <3>1 DEF RInv
  <2>q. QED
    BY <1>3, <2>1, <2>2 DEF EnterLight
<1>4. ASSUME NEW t \in Threads, SetTag(t) PROVE RAgree'
  <2>1. \A s \in Threads : ~Owns(s)
    BY <1>4, OneOwner DEF SetTag, RInv, HoldLabels
  <2>q. QED
    BY <1>4, <2>1 DEF SetTag, RInv
<1>5. ASSUME NEW t \in Threads, CountUp(t) PROVE RAgree'
  <2>1. \A s \in Threads : Owns(s) => s = t
    BY <1>5, OneOwner DEF CountUp, RInv, HoldLabels
  <2>q. QED
    BY <1>5, <2>1 DEF CountUp, RInv
<1>6. ASSUME NEW t \in Threads, RUnlockCall(t) PROVE RAgree'
  <2>1. \A s \in Threads : Owns(s) => s = t
    BY <1>6, OneOwner DEF RUnlockCall, RInv, HoldLabels
  <2>q. QED
    BY <1>6, <2>1 DEF RUnlockCall, RInv
<1>7. ASSUME NEW t \in Threads, CountDown(t) PROVE RAgree'
  <2>1. \A s \in Threads : Owns(s) => s = t
    BY <1>7, OneOwner DEF CountDown, RInv, HoldLabels
  <2>q. QED
    BY <1>7, <2>1 DEF CountDown, RInv
<1>8. ASSUME NEW t \in Threads, ClearTag(t) PROVE RAgree'
  <2>1. \A s \in Threads : Owns(s) => s = t
    BY <1>8, OneOwner DEF ClearTag, RInv, HoldLabels
  <2>q. QED
    BY <1>8, <2>1 DEF ClearTag, RInv, HoldLabels
<1>9. ASSUME NEW t \in Threads, LeaveLight(t) PROVE RAgree'
  <2>1. CASE UnlockCall(t) /\ UNCHANGED rlvars
    BY <1>9, <2>1 DEF LeaveLight, UnlockCall, RInv, rlvars, LLInv, LLTypeOK, HoldLabels, Labels
  <2>2. CASE pc[t] = "idle" /\ RGoto(t, "idle") /\ UNCHANGED <<llvars, thread_tag, counter, nest>>
    BY <1>9, <2>2 DEF RInv
  <2>q. QED
    BY <1>9, <2>1, <2>2 DEF LeaveLight
<1>10. ASSUME NEW t \in Threads, LightStep(t) PROVE RAgree'
  BY <1>10, LightStepInv
<1>11. CASE UNCHANGED rvars
  BY <1>11 DEF rvars, rlvars, RInv
<1> QED
  BY <1>1, <1>2, <1>3, <1>4, <1>5, <1>6, <1>7, <1>8, <1>9, <1>10, <1>11 DEF RNext, RStep

\* The invariant holds in every reachable state.
THEOREM RInvariance == RSpec => []RInv
<1> QED
  BY RInitInv, RNextInv, PTL DEF RSpec

-----------------------------------------------------------------------------
\* What was proved of LightLock alone holds of it under RecursiveLock: at most
\* one thread is inside.
THEOREM RecursiveExclusion == RSpec => []MutualExclusion
<1>1. RInv => MutualExclusion
  BY DEF RInv, LLInv
<1> QED
  BY <1>1, RInvariance, PTL

\* The word is as LightLock says.
THEOREM RecursiveWord == RSpec => []LockWord
<1>1. RInv => LockWord
  BY DEF RInv, LLInv
<1> QED
  BY <1>1, RInvariance, PTL

\* No waiter is forgotten, however often the owner takes the lock again.
THEOREM RecursiveWakeup == RSpec => []NoLostWakeup
<1>1. RInit => NoLostWakeup
  BY InitWakeup DEF RInit
<1>2. RInv /\ NoLostWakeup /\ [RNext]_rvars => NoLostWakeup'
  BY LightRefined, NextWakeup DEF RInv
<1> QED
  BY <1>1, <1>2, RInvariance, PTL DEF RSpec

\* RecursiveLock_Lock may look at thread_tag without the lock: whatever other
\* threads are writing, the tag is the caller's own exactly when it holds.
THEOREM TagIsOwn == RSpec => []TagReadIsOwn
<1>1. RInv => TagReadIsOwn
  BY RLAssumption DEF RInv, RAgree, RTypeOK, OwnerIsTagged, FreeIsClear, LightWhere, Owns, TagReadIsOwn
<1> QED
  BY <1>1, RInvariance, PTL

-----------------------------------------------------------------------------
\* The refinement: CountUp takes or re-enters the abstract lock, CountDown
\* leaves it, and nothing else is seen of it.
LEMMA StepRefines ==
  ASSUME RInv, [RNext]_rvars
  PROVE  [Reentrant!Next]_<<IF counter = 0 THEN NoThread ELSE thread_tag, counter>>
<1> USE RLAssumption
<1> USE DEF RAgree, Owns, Reentrant!Next, Reentrant!Acquire, Reentrant!Reenter, Reentrant!Leave
<1>1. ASSUME NEW t \in Threads, CountUp(t) PROVE Reentrant!Acquire(t) \/ Reentrant!Reenter(t)
  BY <1>1 DEF CountUp, RInv, RTypeOK, OwnerIsTagged
<1>2. ASSUME NEW t \in Threads, CountDown(t) PROVE Reentrant!Leave(t)
  BY <1>2 DEF CountDown, RInv, RTypeOK, OwnerIsTagged
<1>3. ASSUME NEW t \in Threads, SetTag(t) PROVE counter = 0 /\ counter' = 0
  <2>1. \A s \in Threads : ~Owns(s)
    BY <1>3, OneOwner DEF SetTag, RInv, LightWhere, HoldLabels
  <2>q. QED
    BY <1>3, <2>1 DEF SetTag, RInv, FreeIsClear
<1>4. ASSUME NEW t \in Threads, ClearTag(t) PROVE counter = 0 /\ counter' = 0
  BY <1>4 DEF ClearTag, RInv, OwnerIsTagged, LightWhere
<1>5. ASSUME NEW t \in Threads,
             \/ RLockCall(t)  \/ RUnlockCall(t) \/ TestTag(t)
             \/ EnterLight(t) \/ LeaveLight(t)  \/ LightStep(t)
      PROVE  UNCHANGED <<thread_tag, counter>>
  BY <1>5 DEF RLockCall, RUnlockCall, TestTag, EnterLight, LeaveLight, LightStep, rlvars
<1>6. CASE UNCHANGED rvars
  BY <1>6 DEF rvars, rlvars
<1> QED
  BY <1>1, <1>2, <1>3, <1>4, <1>5, <1>6 DEF RNext, RStep

\* RecursiveLock implements a reentrant lock, which the modules that use it
\* take it for.
THEOREM RecursiveImplements == RSpec => ImplementsReentrant
<1>1. RInit => Reentrant!Init
  BY DEF RInit, Reentrant!Init
<1> QED
  BY <1>1, StepRefines, RInvariance, PTL DEF RSpec, ImplementsReentrant, Reentrant!Spec
=============================================================================
