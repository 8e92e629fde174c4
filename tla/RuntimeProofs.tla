----------------------------- MODULE RuntimeProofs -----------------------------
(***************************************************************************)
(* What the threads run on, proved for every memory and any number of      *)
(* threads: LightEvent implements Event, and the Allocator implements      *)
(* Heap.                                                                   *)
(***************************************************************************)
EXTENDS LightEvent, Allocator, FiniteSetTheorems, WellFoundedInduction, TLAPS

(* The event *)

ETypeOK ==
  /\ state \in {CLEARED_ONESHOT, SIGNALED_ONESHOT}
  /\ reserved \subseteq Threads
  /\ pc \in [Threads -> {"idle"} \union WaitLabels \union SignalLabels]
  /\ \A t \in Waiters : pc[t] \in {"idle"} \union WaitLabels
  /\ \A t \in Signalers : pc[t] \in {"idle"} \union SignalLabels

\* A reservation that stands was made when the event was set, and nobody has
\* stored since: so two waits cannot take one signal.
ReservedIsSet == \A t \in Waiters : pc[t] = "reset_strex" /\ t \in reserved => state = SIGNALED_ONESHOT

\* At set_strex only a signal stores, and every store breaks every reservation.
EInv == ETypeOK /\ ReservedIsSet

\* At first the event is set and no thread is in a call.
LEMMA EventInitInv == EventInit => EInv
<1> SUFFICES ASSUME EventInit PROVE EInv
  OBVIOUS
<1>1. state = SIGNALED_ONESHOT /\ reserved = {} /\ pc \in [Threads -> {"idle"}] /\ \A t \in Threads : pc[t] = "idle"
  BY DEF EventInit
<1>2. ETypeOK
  BY <1>1 DEF ETypeOK, Threads
<1>3. ReservedIsSet
  BY <1>1 DEF ReservedIsSet
<1>q. QED
  BY <1>2, <1>3 DEF EInv

\* A thread goes on in the call it is in.
LEMMA Continues ==
  ASSUME EInv, NEW t \in Threads, NEW l, Continue(t, l),
         state' = state, reserved' \subseteq reserved, l # "reset_strex",
         t \in Waiters => l \in {"idle"} \union WaitLabels,
         t \in Signalers => l \in {"idle"} \union SignalLabels
  PROVE  EInv'
BY DEF EInv, ETypeOK, ReservedIsSet, Continue, Threads

\* A reservation is made, by a waiter only when the event is set.
LEMMA Reserves ==
  ASSUME EInv, NEW t \in Threads, NEW then, Ldrex(t, then),
         then = "reset_strex" => state = SIGNALED_ONESHOT,
         t \in Waiters => then \in WaitLabels, t \in Signalers => then \in SignalLabels
  PROVE  EInv'
<1>1. ETypeOK'
  BY DEF EInv, ETypeOK, Ldrex, Continue, Threads
<1>2. ReservedIsSet'
  BY DEF EInv, ETypeOK, ReservedIsSet, Ldrex, Continue, Threads
<1>q. QED
  BY <1>1, <1>2 DEF EInv

\* A store breaks every reservation, or fails.
LEMMA Stores ==
  ASSUME EInv, NEW t \in Threads, NEW v \in {CLEARED_ONESHOT, SIGNALED_ONESHOT}, NEW then, NEW again,
         Strex(t, v, then, again), again # "reset_strex",
         t \in Waiters => {then, again} \subseteq {"idle"} \union WaitLabels,
         t \in Signalers => {then, again} \subseteq {"idle"} \union SignalLabels
  PROVE  EInv'
<1>1. CASE t \in reserved /\ state' = v /\ reserved' = {} /\ Continue(t, then)
  BY <1>1 DEF EInv, ETypeOK, ReservedIsSet, Continue, Threads
<1>2. CASE Continue(t, again) /\ UNCHANGED <<state, reserved>>
  BY <1>2, Continues
<1>q. QED
  BY <1>1, <1>2 DEF Strex

\* Every step keeps the invariant.
LEMMA EventNextInv == ASSUME EInv, [EventNext]_evars PROVE EInv'
<1> USE DEF Threads
<1>1. ASSUME NEW t \in Waiters, WaitCall(t) PROVE EInv'
  BY <1>1, Continues, ThreadsAssumption DEF WaitCall, WaitLabels
<1>2. ASSUME NEW t \in Waiters, WaitTest(t) PROVE EInv'
  <2>1. PICK l \in {"arbitrate", "reset_ldrex"} : Continue(t, l) /\ UNCHANGED <<state, reserved>>
    BY <1>2 DEF WaitTest
  <2>q. QED
    BY <2>1, Continues, ThreadsAssumption DEF WaitLabels
<1>3. ASSUME NEW t \in Waiters, ResetLdrex(t) PROVE EInv'
  <2>1. CASE state = SIGNALED_ONESHOT /\ Ldrex(t, "reset_strex")
    BY <2>1, Reserves, ThreadsAssumption DEF WaitLabels
  <2>2. CASE reserved' = reserved \ {t} /\ Continue(t, "arbitrate") /\ UNCHANGED state
    BY <2>2, Continues, ThreadsAssumption DEF WaitLabels
  <2>q. QED
    BY <1>3, <2>1, <2>2 DEF ResetLdrex
<1>4. ASSUME NEW t \in Waiters, ResetStrex(t) PROVE EInv'
  BY <1>4, Stores, ThreadsAssumption DEF ResetStrex, WaitLabels
<1>5. ASSUME NEW t \in Waiters, Arbitrate(t) PROVE EInv'
  <2>1. PICK l \in {"asleep", "wait_test"} : Continue(t, l) /\ UNCHANGED <<state, reserved>>
    BY <1>5 DEF Arbitrate
  <2>q. QED
    BY <2>1, Continues, ThreadsAssumption DEF WaitLabels
<1>6. ASSUME NEW t \in Signalers, SignalCall(t) PROVE EInv'
  BY <1>6, Continues, ThreadsAssumption DEF SignalCall, SignalLabels
<1>7. ASSUME NEW t \in Signalers, SignalTest(t) PROVE EInv'
  <2>1. PICK l \in {"set_ldrex", "idle"} : Continue(t, l) /\ UNCHANGED <<state, reserved>>
    BY <1>7 DEF SignalTest
  <2>q. QED
    BY <2>1, Continues, ThreadsAssumption DEF SignalLabels
<1>8. ASSUME NEW t \in Signalers, SetLdrex(t) PROVE EInv'
  BY <1>8, Reserves, ThreadsAssumption DEF SetLdrex, SignalLabels
<1>9. ASSUME NEW t \in Signalers, SetStrex(t) PROVE EInv'
  BY <1>9, Stores, ThreadsAssumption DEF SetStrex, SignalLabels
<1>10. ASSUME NEW t \in Signalers, Wake(t) PROVE EInv'
  <2>1. CASE Continue(t, "idle")
    BY <1>10, <2>1, Continues, ThreadsAssumption DEF Wake
  <2>2. ASSUME NEW s \in Threads, pc[s] = "asleep", pc' = [pc EXCEPT ![t] = "idle", ![s] = "wait_test"]
        PROVE  EInv'
    <3>1. s \in Waiters /\ s # t
      BY <2>2, ThreadsAssumption DEF EInv, ETypeOK, SignalLabels
    <3>q. QED
      BY <1>10, <2>2, <3>1, ThreadsAssumption DEF Wake, EInv, ETypeOK, ReservedIsSet, WaitLabels
  <2>q. QED
    BY <1>10, <2>1, <2>2 DEF Wake
<1>11. ASSUME NEW t \in Threads, LoseReservation(t) PROVE EInv'
  BY <1>11 DEF LoseReservation, EInv, ETypeOK, ReservedIsSet
<1>12. CASE UNCHANGED evars
  BY <1>12 DEF evars, EInv, ETypeOK, ReservedIsSet
<1>q. QED
  BY <1>1, <1>2, <1>3, <1>4, <1>5, <1>6, <1>7, <1>8, <1>9, <1>10, <1>11, <1>12
     DEF EventNext, Waiting, Signaling

\* A thread that is about to clear the event, and may, does so while it is set.
THEOREM EventInvariance == EventSpec => []EInv
<1>1. EInv /\ [EventNext]_evars => EInv'
  BY EventNextInv
<1>q. QED
  BY <1>1, EventInitInv, PTL DEF EventSpec

-----------------------------------------------------------------------------
\* The refinement: the call makes a thread wait, its store returns it, the
\* signal's store signals, and nothing else is seen.
LEMMA EventStep ==
  ASSUME EInv, [EventNext]_evars
  PROVE  [AbstractEvent!Next]_<<state = SIGNALED_ONESHOT, {t \in Waiters : pc[t] \in WaitLabels}>>
<1> DEFINE waiting == {t \in Waiters : pc[t] \in WaitLabels}
<1> USE DEF Threads, AbstractEvent!Next, AbstractEvent!Wait, AbstractEvent!Return, AbstractEvent!Signal
<1>1. ASSUME NEW t \in Waiters, WaitCall(t) PROVE AbstractEvent!Wait(t)
  BY <1>1 DEF WaitCall, Continue, EInv, ETypeOK, WaitLabels
<1>2. ASSUME NEW t \in Waiters, ResetStrex(t), t \in reserved PROVE AbstractEvent!Return(t)
  <2>1. state = SIGNALED_ONESHOT /\ state' = CLEARED_ONESHOT /\ pc' = [pc EXCEPT ![t] = "idle"] /\ pc[t] = "reset_strex"
    BY <1>2 DEF ResetStrex, Strex, Continue, EInv, ReservedIsSet
  <2>2. waiting' = waiting \ {t} /\ t \in waiting
    BY <2>1 DEF EInv, ETypeOK, WaitLabels
  <2>3. CLEARED_ONESHOT # SIGNALED_ONESHOT
    BY DEF CLEARED_ONESHOT, SIGNALED_ONESHOT
  <2>q. QED
    BY <2>1, <2>2, <2>3
<1>3. ASSUME NEW t \in Signalers, SetStrex(t), t \in reserved PROVE AbstractEvent!Signal
  BY <1>3, ThreadsAssumption DEF SetStrex, Strex, Continue, EInv, ETypeOK, WaitLabels
<1>4. ASSUME NEW t \in Waiters, NEW l \in WaitLabels, pc[t] \in WaitLabels, Continue(t, l), UNCHANGED state
      PROVE  UNCHANGED <<state = SIGNALED_ONESHOT, waiting>>
  BY <1>4 DEF Continue, EInv, ETypeOK
<1>5. ASSUME NEW t \in Signalers, NEW l, Continue(t, l), UNCHANGED state
      PROVE  UNCHANGED <<state = SIGNALED_ONESHOT, waiting>>
  BY <1>5, ThreadsAssumption DEF Continue, EInv, ETypeOK
<1>6. ASSUME NEW t \in Waiters, Waiting(t), ~(ResetStrex(t) /\ t \in reserved)
      PROVE  UNCHANGED <<state = SIGNALED_ONESHOT, waiting>>
  <2>1. \E l \in WaitLabels : pc[t] \in WaitLabels /\ Continue(t, l) /\ UNCHANGED state
    BY <1>6 DEF Waiting, WaitTest, ResetLdrex, ResetStrex, Arbitrate, Ldrex, Strex, WaitLabels
  <2>q. QED
    BY <1>4, <2>1
<1>7. ASSUME NEW t \in Signalers, NEW s \in Threads, pc[s] = "asleep", UNCHANGED state,
             pc' = [pc EXCEPT ![t] = "idle", ![s] = "wait_test"]
      PROVE  UNCHANGED <<state = SIGNALED_ONESHOT, waiting>>
  BY <1>7, ThreadsAssumption DEF EInv, ETypeOK, WaitLabels, SignalLabels
<1>8. ASSUME NEW t \in Signalers, SignalCall(t) \/ Signaling(t), ~(SetStrex(t) /\ t \in reserved)
      PROVE  UNCHANGED <<state = SIGNALED_ONESHOT, waiting>>
  <2>1. CASE Wake(t)
    BY <1>5, <1>7, <2>1 DEF Wake
  <2>2. CASE ~Wake(t)
    <3>1. \E l : Continue(t, l) /\ UNCHANGED state
      BY <1>8, <2>2 DEF Signaling, SignalCall, SignalTest, SetLdrex, SetStrex, Ldrex, Strex
    <3>q. QED
      BY <1>5, <3>1
  <2>q. QED
    BY <2>1, <2>2
<1>9. ASSUME NEW t \in Threads, LoseReservation(t) PROVE UNCHANGED <<state = SIGNALED_ONESHOT, waiting>>
  BY <1>9 DEF LoseReservation
<1>10. CASE UNCHANGED evars
  BY <1>10 DEF evars
<1>q. QED
  BY <1>1, <1>2, <1>3, <1>6, <1>8, <1>9, <1>10 DEF EventNext

\* LightEvent implements a one-shot event, which the start of the pipe thread
\* takes it for: a wait returns on a signal of its own, however the loads and
\* stores of any number of calls interleave (synchronization.c:116-173).
THEOREM EventImplements == EventSpec => ImplementsEvent
<1>1. EventInit => AbstractEvent!Init
  BY DEF EventInit, AbstractEvent!Init, Threads, WaitLabels
<1>q. QED
  BY <1>1, EventStep, EventInvariance, PTL DEF EventSpec, ImplementsEvent, AbstractEvent!Spec

-----------------------------------------------------------------------------
(* Numbers *)

\* A set of numbers has a least one.
LEMMA Least ==
  ASSUME NEW S, S \subseteq Nat, S # {}
  PROVE  \E i \in S : \A j \in S : i <= j
<1>1. PICK R : R = OpToRel(<, Nat)
  OBVIOUS
<1>2. IsWellFoundedOn(R, Nat)
  BY <1>1, NatLessThanWellFounded
<1>3. PICK x \in S : \A y \in S : ~ (<<y, x>> \in R)
  BY <1>2, WFMin
<1>4. ASSUME NEW y \in S, y < x PROVE FALSE
  <2>1. <<y, x>> \in Nat \X Nat /\ <<y, x>>[1] = y /\ <<y, x>>[2] = x
    OBVIOUS
  <2>2. <<y, x>> \in R
    BY <1>1, <1>4, <2>1 DEF OpToRel
  <2> QED
    BY <1>3, <2>2
<1>5. ASSUME NEW y \in S PROVE x <= y
  <2>1. x \in Nat /\ y \in Nat
    OBVIOUS
  <2> QED
    BY <1>4, <2>1
<1> QED
  BY <1>5

\* Induction on a set of numbers.
LEMMA NatSet ==
  ASSUME NEW T \in SUBSET Nat, 0 \in T, \A n \in T : n + 1 \in T
  PROVE  T = Nat
<1> SUFFICES ASSUME Nat \ T # {} PROVE FALSE
  OBVIOUS
<1>1. PICK n \in Nat \ T : \A m \in Nat \ T : n <= m
  BY Least
<1>2. n - 1 \in Nat \ T
  BY <1>1
<1> QED
  BY <1>1, <1>2

\* The n values after the first are each got from the one before.
Iterates(w, step, a, n) == w[0] = a /\ \A k \in 1..n : w[k] = step[w[k - 1]]

\* There are such values.
LEMMA Iteration ==
  ASSUME NEW S, NEW step \in [S -> S], NEW a \in S, NEW n \in Nat
  PROVE  \E w \in [0..n -> S] : Iterates(w, step, a, n)
<1> USE DEF Iterates
<1> DEFINE Is(w, m) == w[0] = a /\ \A k \in 1..m : w[k] = step[w[k - 1]]
           T == {m \in Nat : \E w \in [0..m -> S] : Is(w, m)}
<1>1. 0 \in T
  <2>1. [k \in 0..0 |-> a] \in [0..0 -> S] /\ Is([k \in 0..0 |-> a], 0)
    OBVIOUS
  <2> QED
    BY <2>1
<1>2. ASSUME NEW m \in T PROVE m + 1 \in T
  <2>1. PICK w \in [0..m -> S] : Is(w, m)
    OBVIOUS
  <2> DEFINE v == [k \in 0..(m + 1) |-> IF k = m + 1 THEN step[w[m]] ELSE w[k]]
  <2>2. v \in [0..(m + 1) -> S]
    OBVIOUS
  <2>3. v[0] = a
    BY <2>1
  <2>4. ASSUME NEW k \in 1..(m + 1) PROVE v[k] = step[v[k - 1]]
    <3>1. v[k - 1] = w[k - 1]
      OBVIOUS
    <3>2. CASE k = m + 1
      BY <3>1, <3>2
    <3>3. CASE k # m + 1
      <4>1. k \in 1..m /\ v[k] = w[k]
        BY <3>3
      <4> QED
        BY <4>1, <3>1, <2>1
    <3> QED
      BY <3>2, <3>3
  <2> HIDE DEF v
  <2>5. Is(v, m + 1)
    BY <2>3, <2>4
  <2> QED
    BY <2>2, <2>5
<1> HIDE DEF T
<1>3. T = Nat
  <2>1. T \in SUBSET Nat
    BY DEF T
  <2> QED
    BY <2>1, <1>1, <1>2, NatSet
<1> QED
  BY <1>3 DEF T

-----------------------------------------------------------------------------
(* Blocks *)

\* The blocks B, with their sizes in m, tile the memory: each has a word beside
\* its size, they do not overlap, and no word is outside of all.
Tiles(B, m) ==
  /\ B \subseteq Indices
  /\ \A x \in B : m[x] \in Nat \ {0} /\ x + m[x] < memSize
  /\ \A x, y \in B : x < y => x + m[x] < y
  /\ \A i \in Indices : \E x \in B : x <= i /\ i <= x + m[x]

\* A block may be cut in two.
LEMMA SplitTiles ==
  ASSUME NEW B, NEW m, Tiles(B, m), NEW c \in B, NEW n \in Nat \ {0}, n + 2 <= m[c],
         NEW w, w[c] = n, w[c + n + 1] = m[c] - n - 1, \A x \in B \ {c} : w[x] = m[x]
  PROVE  Tiles(B \union {c + n + 1}, w)
<1> USE AllocatorAssumption DEF Indices
<1> DEFINE r == c + n + 1
<1>0. B \subseteq Indices
  BY DEF Tiles
<1>0a. c \in Nat /\ m[c] \in Nat /\ c + m[c] < memSize
  BY DEF Tiles
<1>1. r \in Indices /\ r \notin B /\ w[r] \in Nat \ {0} /\ r + w[r] = c + m[c]
  BY <1>0, <1>0a DEF Tiles
<1> HIDE DEF r
<1>1a. r = c + n + 1
  BY DEF r
<1>2. ASSUME NEW x \in B \union {r} PROVE w[x] \in Nat \ {0} /\ x + w[x] < memSize
  <2>1. CASE x \in B \ {c}
    BY <2>1, <1>0 DEF Tiles
  <2>2. CASE x \in {c, r}
    BY <2>2, <1>0a, <1>1, <1>1a
  <2> QED
    BY <2>1, <2>2
<1>3. ASSUME NEW x \in B \union {r}, NEW y \in B \union {r}, x < y PROVE x + w[x] < y
  <2>0. x \in Nat /\ y \in Nat
    BY <1>0, <1>1
  <2>1. CASE x \in B \ {c} /\ y \in B
    BY <2>1, <1>3 DEF Tiles
  <2>2. CASE x \in B \ {c} /\ y = r
    <3>1. x < c
      <4>1. x <= c + m[c]
        BY <2>0, <2>2, <1>0a, <1>1, <1>1a, <1>3
      <4> QED
        BY <4>1, <2>0, <2>2, <1>0a DEF Tiles
    <3>2. x + m[x] < c
      BY <3>1, <2>2 DEF Tiles
    <3>3. m[x] \in Nat
      BY <2>2 DEF Tiles
    <3> QED
      BY <3>2, <3>3, <2>0, <2>2, <1>0a, <1>1a
  <2>3. CASE x = c
    <3>1. CASE y \in B
      <4>1. c + m[c] < y
        BY <2>3, <3>1, <1>3 DEF Tiles
      <4> QED
        BY <4>1, <2>0, <2>3, <1>0a
    <3> QED
      BY <3>1, <2>3, <1>0a, <1>1a
  <2>4. CASE x = r
    <3>1. y \in B /\ c < y
      BY <2>0, <2>4, <1>0a, <1>1a, <1>3
    <3>2. c + m[c] < y
      BY <3>1 DEF Tiles
    <3> QED
      BY <3>2, <2>4, <1>1
  <2> QED
    BY <2>1, <2>2, <2>3, <2>4
<1>4. ASSUME NEW i \in Indices PROVE \E x \in B \union {r} : x <= i /\ i <= x + w[x]
  <2>1. PICK x \in B : x <= i /\ i <= x + m[x]
    BY DEF Tiles
  <2>2. CASE x # c
    BY <2>1, <2>2
  <2>3. CASE x = c /\ i < r
    BY <2>1, <2>3, <1>0a, <1>1a
  <2>4. CASE x = c /\ i >= r
    BY <2>1, <2>4, <1>0a, <1>1
  <2> QED
    BY <2>2, <2>3, <2>4, <1>0a, <1>1
<1>5. B \union {r} \subseteq Indices
  BY <1>0, <1>1
<1> QED
  BY <1>1a, <1>2, <1>3, <1>4, <1>5 DEF Tiles

\* The neighbours b and n are one block b in w.
Joined(b, n, m, w) == n = b + m[b] + 1 /\ w[b] = m[b] + m[n] + 1

\* Two neighbours may be joined.
LEMMA JoinTiles ==
  ASSUME NEW B, NEW m, Tiles(B, m), NEW b \in B, NEW n \in B,
         NEW w, Joined(b, n, m, w), \A x \in B \ {b, n} : w[x] = m[x],
         NEW C, C = B \ {n}
  PROVE  Tiles(C, w)
<1> USE AllocatorAssumption DEF Indices, Joined
<1>0. B \subseteq Indices
  BY DEF Tiles
<1>1. /\ b \in Nat /\ m[b] \in Nat \ {0} /\ n \in Nat /\ m[n] \in Nat \ {0} /\ n + m[n] < memSize
      /\ b < n /\ b + w[b] = n + m[n]
  BY <1>0 DEF Tiles
<1>2. ASSUME NEW x \in B \ {n} PROVE w[x] \in Nat \ {0} /\ x + w[x] < memSize
  <2>1. CASE x = b
    <3>1. w[b] = m[b] + m[n] + 1 /\ b + w[b] < memSize
      BY <1>1
    <3> QED
      BY <2>1, <3>1, <1>1
  <2>2. CASE x # b
    <3>1. w[x] = m[x]
      BY <2>2
    <3> QED
      BY <3>1 DEF Tiles
  <2> QED
    BY <2>1, <2>2
<1>3. ASSUME NEW x \in B \ {n}, NEW y \in B \ {n}, x < y PROVE x + w[x] < y
  <2>1. CASE x # b
    BY <2>1, <1>0, <1>1, <1>3 DEF Tiles
  <2>2. CASE x = b
    <3>1. y > n \/ n > y
      BY <1>0, <1>1
    <3>2. y > n
      BY <3>1, <2>2, <1>0, <1>1, <1>3 DEF Tiles
    <3> QED
      BY <3>2, <2>2, <1>0, <1>1, <1>3 DEF Tiles
  <2> QED
    BY <2>1, <2>2
<1>4. ASSUME NEW i \in Indices PROVE \E x \in B \ {n} : x <= i /\ i <= x + w[x]
  <2>1. PICK x \in B : x <= i /\ i <= x + m[x]
    BY DEF Tiles
  <2>2. CASE x \notin {b, n}
    BY <2>1, <2>2
  <2>3. CASE x \in {b, n}
    <3>1. b <= i /\ i <= b + w[b]
      BY <2>1, <2>3, <1>1
    <3> QED
      BY <3>1, <1>1
  <2> QED
    BY <2>2, <2>3
<1> QED
  BY <1>0, <1>2, <1>3, <1>4 DEF Tiles

\* Tiling looks at the sizes only.
LEMMA SameTiles ==
  ASSUME NEW B, NEW m, Tiles(B, m), NEW w, \A x \in B : w[x] = m[x]
  PROVE  Tiles(B, w)
BY DEF Tiles

\* No block begins among the words of another, and no two share a word.
LEMMA InnerWords ==
  ASSUME NEW B, NEW m, Tiles(B, m), NEW x \in B
  PROVE  /\ x \in Nat /\ x < memSize /\ m[x] \in Nat \ {0}
         /\ x + m[x] \in Indices /\ x + m[x] > x
         /\ \A i \in (x + 1)..(x + m[x]) : i \notin B
         /\ \A y \in B : y # x => \A i \in x..(x + m[x]) : i \notin y..(y + m[y])
<1> USE AllocatorAssumption DEF Indices
<1>1. x \in Nat /\ x < memSize /\ m[x] \in Nat \ {0} /\ x + m[x] \in Indices /\ x + m[x] > x
  BY DEF Tiles
<1>2. ASSUME NEW i \in (x + 1)..(x + m[x]), i \in B PROVE FALSE
  BY <1>1, <1>2 DEF Tiles
<1>3. ASSUME NEW y \in B, y # x, NEW i \in x..(x + m[x]), i \in y..(y + m[y]) PROVE FALSE
  <2>1. y \in Nat /\ m[y] \in Nat \ {0}
    BY DEF Tiles
  <2>2. i \in Int /\ x <= i /\ i <= x + m[x] /\ y <= i /\ i <= y + m[y]
    BY <1>1, <1>3, <2>1
  <2>3. ~ x + m[x] < y /\ ~ y + m[y] < x
    BY <1>1, <2>1, <2>2
  <2>4. ~ x < y /\ ~ y < x
    BY <2>3 DEF Tiles
  <2> QED
    BY <2>1, <2>4, <1>1, <1>3
<1> QED
  BY <1>1, <1>2, <1>3

-----------------------------------------------------------------------------
(* The free blocks *)

Held == {b.at : b \in live}

\* Of the free blocks F, v is the first behind x, or the end.
Above(v, F, x) == v \in F \union {memSize} /\ x < v /\ \A y \in F : x < y => v <= y

\* The free blocks F, with their links in n, are linked in the order of their
\* places.
Linked(F, n, first) == Above(first, F, -1) /\ \A x \in F : Above(n[x], F, x)

\* The links of F: a block's is in its last word.
Links(F, m) == [x \in F |-> m[x + m[x]]]

\* Clients have blocks of their own, of the size asked for at least.
Granted ==
  /\ live \subseteq [at : Indices, asked : Nat \ {0}]
  /\ \A b, c \in live : b.at = c.at => b = c
  /\ \A b \in live : b.asked <= mem[b.at]

Sound(F) ==
  /\ mem \in [Indices -> Int]
  /\ Tiles(Held \union F, mem)
  /\ Held \intersect F = {}
  /\ Linked(F, Links(F, mem), avail)
  /\ Granted

AInv == \E F : Sound(F)

\* The word that a link is read from.
LEMMA FollowIsNext ==
  ASSUME NEW F, Sound(F)
  PROVE  /\ F \subseteq Indices /\ memSize \notin F /\ memSize \in Nat
         /\ \A x \in F : Follow(x) = next(x) /\ Above(next(x), F, x)
         /\ Follow(memSize) = memSize
<1>1. F \subseteq Indices /\ memSize \notin Indices /\ memSize \in Nat
  BY AllocatorAssumption DEF Sound, Tiles, Indices
<1>2. ASSUME NEW x \in F PROVE Follow(x) = next(x) /\ Above(next(x), F, x)
  <2>1. x + mem[x] \in Indices
    BY InnerWords DEF Sound
  <2>2. Follow(x) = next(x)
    BY <1>1, <2>1 DEF Follow, linkToNext
  <2>3. Above(next(x), F, x)
    BY DEF next, linkToNext, Sound, Linked, Links
  <2> QED
    BY <2>2, <2>3
<1>3. Follow(memSize) = memSize
  BY <1>1 DEF Follow
<1> QED
  BY <1>1, <1>2, <1>3

Last == memSize \div 2

LEMMA LastIsNat == Last \in Nat /\ 2 * Last >= memSize - 1 /\ (0..(memSize \div 2)) = (0..Last)
BY AllocatorAssumption DEF Last

\* The way along the links exists, as it is defined.
LEMMA WayExists ==
  ASSUME NEW F, Sound(F)
  PROVE  /\ FreeAt \in [0..Last -> F \union {memSize}]
         /\ FreeAt[0] = avail
         /\ \A k \in 1..Last : FreeAt[k] = Follow(FreeAt[k - 1])
<1> DEFINE S == F \union {memSize}
           step == [x \in S |-> Follow(x)]
           Way(at) == at = [k \in 0..(memSize \div 2) |-> IF k = 0 THEN avail ELSE Follow(at[k - 1])]
<1>1. avail \in S
  BY DEF Sound, Linked, Above
<1>2. step \in [S -> S]
  BY FollowIsNext DEF Above
<1>3. PICK w \in [0..Last -> S] : Iterates(w, step, avail, Last)
  <2> HIDE DEF S, step
  <2> QED
    BY <1>1, <1>2, LastIsNat, Iteration
<1>3a. w[0] = avail /\ \A k \in 1..Last : w[k] = step[w[k - 1]]
  BY <1>3 DEF Iterates
<1>4. Way(w)
  <2>1. ASSUME NEW k \in 0..Last PROVE w[k] = IF k = 0 THEN avail ELSE Follow(w[k - 1])
    <3>1. CASE k = 0
      BY <3>1, <1>3a
    <3>2. CASE k # 0
      <4>1. k \in 1..Last /\ k - 1 \in 0..Last
        BY <3>2, LastIsNat
      <4>2. w[k - 1] \in S
        BY <4>1
      <4> QED
        BY <4>1, <4>2, <3>2, <1>3a
    <3> QED
      BY <3>1, <3>2
  <2> QED
    BY <2>1, LastIsNat
<1> HIDE DEF S, step
<1>5. Way(FreeAt)
  <2>1. FreeAt = CHOOSE at : Way(at)
    BY DEF FreeAt
  <2> HIDE DEF Way
  <2> QED
    BY <1>4, <2>1
<1> USE DEF S
<1>6. DOMAIN FreeAt = 0..Last /\ FreeAt[0] = avail /\ \A k \in 1..Last : FreeAt[k] = Follow(FreeAt[k - 1])
  <2> HIDE DEF S
  <2>1. FreeAt = [k \in 0..Last |-> IF k = 0 THEN avail ELSE Follow(FreeAt[k - 1])]
    BY <1>5, LastIsNat
  <2>2. 0 \in 0..Last /\ \A k \in 1..Last : k \in 0..Last /\ k # 0
    BY LastIsNat
  <2> DEFINE g == [k \in 0..Last |-> IF k = 0 THEN avail ELSE Follow(FreeAt[k - 1])]
  <2>3. DOMAIN g = 0..Last /\ g[0] = avail /\ \A k \in 1..Last : g[k] = Follow(FreeAt[k - 1])
    BY <2>2
  <2> HIDE DEF g
  <2>4. FreeAt = g
    BY <2>1 DEF g
  <2> QED
    BY <2>3, <2>4
<1>7. ASSUME NEW k \in 0..Last PROVE FreeAt[k] \in S
  <2> DEFINE T == {j \in Nat : j <= Last => FreeAt[j] \in S}
  <2>1. 0 \in T
    BY <1>1, <1>6
  <2>2. ASSUME NEW j \in T PROVE j + 1 \in T
    <3>1. SUFFICES ASSUME j + 1 <= Last PROVE FreeAt[j + 1] \in S
      OBVIOUS
    <3>2. j \in Nat /\ FreeAt[j] \in S /\ j + 1 \in 1..Last /\ (j + 1) - 1 = j
      BY <3>1, LastIsNat
    <3>3. FreeAt[j + 1] = Follow(FreeAt[j])
      BY <3>2, <1>6
    <3> QED
      BY <3>2, <3>3, <1>2 DEF step
  <2> HIDE DEF T
  <2>3. T = Nat
    <3>1. T \in SUBSET Nat
      BY DEF T
    <3> QED
      BY <3>1, <2>1, <2>2, NatSet
  <2> QED
    BY <2>3, LastIsNat DEF T
<1> QED
  <2>1. FreeAt = [k \in 0..Last |-> FreeAt[k]]
    <3> DEFINE g == [k \in 0..(memSize \div 2) |-> IF k = 0 THEN avail ELSE Follow(FreeAt[k - 1])]
    <3>1. FreeAt = g
      BY <1>5
    <3>2. g = [k \in DOMAIN g |-> g[k]]
      OBVIOUS
    <3> HIDE DEF g
    <3> QED
      BY <3>1, <3>2, <1>6
  <2> QED
    BY <1>6, <1>7, <2>1

\* From each free block to the next, and at last to the end.
LEMMA WayGoesOn ==
  ASSUME NEW F, Sound(F)
  PROVE  /\ \A k \in 1..Last : FreeAt[k - 1] \in F =>
              FreeAt[k] = next(FreeAt[k - 1]) /\ Above(FreeAt[k], F, FreeAt[k - 1])
         /\ \A k \in 1..Last : FreeAt[k - 1] = memSize => FreeAt[k] = memSize
         /\ FreeAt[Last] = memSize
         /\ \A y \in F : \E k \in 0..Last : FreeAt[k] = y
<1>0. F \subseteq Nat /\ memSize \in Nat /\ Last \in Nat
  BY FollowIsNext, LastIsNat DEF Indices
<1>1. ASSUME NEW k \in 1..Last, FreeAt[k - 1] \in F
      PROVE  FreeAt[k] = next(FreeAt[k - 1]) /\ Above(FreeAt[k], F, FreeAt[k - 1])
  BY <1>1, WayExists, FollowIsNext
<1>2. ASSUME NEW k \in 1..Last, FreeAt[k - 1] = memSize PROVE FreeAt[k] = memSize
  BY <1>2, WayExists, FollowIsNext
<1>3. \A j \in 0..Last : FreeAt[j] \in F \union {memSize}
  BY WayExists
<1>4. FreeAt[Last] = memSize
  <2> DEFINE T == {j \in Nat : j <= Last => FreeAt[j] = memSize \/ FreeAt[j] >= 2 * j}
  <2>1. 0 \in T
    <3>1. 0 \in 0..Last
      BY <1>0
    <3>2. FreeAt[0] \in Nat
      BY <3>1, <1>0, <1>3
    <3> QED
      BY <3>2
  <2>2. ASSUME NEW j \in T PROVE j + 1 \in T
    <3>1. SUFFICES ASSUME j + 1 <= Last PROVE FreeAt[j + 1] = memSize \/ FreeAt[j + 1] >= 2 * (j + 1)
      OBVIOUS
    <3>2. j \in 0..Last /\ j + 1 \in 1..Last /\ j + 1 \in 0..Last /\ (j + 1) - 1 = j
      BY <3>1, <1>0
    <3>3. CASE FreeAt[j] = memSize
      BY <3>2, <3>3, <1>2
    <3>4. CASE FreeAt[j] \in F /\ FreeAt[j + 1] \in F
      <4> DEFINE x == FreeAt[j]
                 y == FreeAt[j + 1]
      <4>1. x < y
        BY <3>2, <3>4, <1>1 DEF Above
      <4>2. x >= 2 * j
        BY <3>2, <3>4, FollowIsNext
      <4>3. mem[x] >= 1 /\ x + mem[x] < y /\ mem[x] \in Nat
        BY <3>4, <4>1 DEF Sound, Tiles
      <4>4. x \in Nat /\ y \in Nat
        BY <3>4, <1>0
      <4> HIDE DEF x, y
      <4>5. y >= 2 * (j + 1)
        BY <4>2, <4>3, <4>4
      <4> QED
        BY <4>5 DEF y
    <3> QED
      BY <3>2, <3>3, <3>4, <1>3
  <2> HIDE DEF T
  <2>3. T = Nat
    <3>1. T \in SUBSET Nat
      BY DEF T
    <3> QED
      BY <3>1, <2>1, <2>2, NatSet
  <2>4. FreeAt[Last] = memSize \/ FreeAt[Last] >= 2 * Last
    BY <2>3, <1>0 DEF T
  <2>5. CASE FreeAt[Last] \in F
    <3>1. PICK x \in F : x = FreeAt[Last]
      BY <2>5
    <3>2. x \in Nat /\ mem[x] \in Nat \ {0} /\ x + mem[x] < memSize
      BY <1>0 DEF Sound, Tiles
    <3>3. memSize \notin F
      BY FollowIsNext
    <3> QED
      BY <3>1, <3>2, <3>3, <2>4, LastIsNat, <1>0
  <2> QED
    BY <2>5, <1>0, <1>3
<1>5. ASSUME NEW y \in F PROVE \E k \in 0..Last : FreeAt[k] = y
  <2> DEFINE T == {j \in Nat : j <= Last /\ y < FreeAt[j] => \E k \in 0..Last : FreeAt[k] = y}
  <2>1. 0 \in T
    <3>1. avail <= y
      BY <1>0 DEF Sound, Linked, Above
    <3>2. avail \in Nat
      BY <1>0 DEF Sound, Linked, Above
    <3>3. FreeAt[0] = avail
      BY WayExists
    <3> QED
      BY <3>1, <3>2, <3>3, <1>0
  <2>2. ASSUME NEW j \in T PROVE j + 1 \in T
    <3>1. SUFFICES ASSUME j + 1 <= Last, y < FreeAt[j + 1] PROVE \E k \in 0..Last : FreeAt[k] = y
      OBVIOUS
    <3>2. j \in 0..Last /\ j + 1 \in 1..Last /\ j + 1 \in 0..Last /\ (j + 1) - 1 = j
      BY <3>1, <1>0
    <3>3. y < FreeAt[j] => \E k \in 0..Last : FreeAt[k] = y
      BY <3>2
    <3>4. CASE FreeAt[j] = memSize
      BY <3>1, <3>2, <3>3, <3>4, <1>2
    <3>5. CASE FreeAt[j] \in F
      <4>1. Above(FreeAt[j + 1], F, FreeAt[j])
        BY <3>2, <3>5, <1>1
      <4>a. FreeAt[j] \in Nat /\ FreeAt[j + 1] \in Nat /\ y \in Nat
        BY <1>0, <1>3, <3>2
      <4>b. FreeAt[j] < y => FreeAt[j + 1] <= y
        BY <4>1 DEF Above
      <4>3. FreeAt[j] = y \/ y < FreeAt[j]
        BY <3>1, <4>a, <4>b
      <4> QED
        BY <4>3, <3>2, <3>3
    <3> QED
      BY <3>2, <3>4, <3>5, <1>3
  <2> HIDE DEF T
  <2>3. T = Nat
    <3>1. T \in SUBSET Nat
      BY DEF T
    <3> QED
      BY <3>1, <2>1, <2>2, NatSet
  <2>4. y < FreeAt[Last]
    BY <1>4, FollowIsNext DEF Indices
  <2> QED
    BY <2>3, <2>4, <1>0 DEF T
<1> QED
  BY <1>1, <1>2, <1>4, <1>5

LEMMA FreeBlocksAre ==
  ASSUME NEW F, Sound(F)
  PROVE  {FreeAt[k] : k \in DOMAIN FreeAt} \intersect Indices = F
<1>1. DOMAIN FreeAt = 0..Last /\ \A k \in 0..Last : FreeAt[k] \in F \union {memSize}
  BY WayExists
<1>2. F \subseteq Indices /\ memSize \notin Indices
  BY FollowIsNext DEF Indices
<1>3. \A y \in F : \E k \in 0..Last : FreeAt[k] = y
  BY WayGoesOn
<1> QED
  BY <1>1, <1>2, <1>3

LEMMA ForemostIsLeast ==
  ASSUME NEW K, K \subseteq Nat, K # {}
  PROVE  Foremost(K) \in K /\ \A j \in K : Foremost(K) <= j
BY Least DEF Foremost

\* Where malloc finds its block.
LEMMA MallocPlace ==
  ASSUME NEW F, Sound(F), NEW num \in Nat, Fits(num) # {},
         NEW k, k = Foremost(Fits(num))
  PROVE  /\ FreeAt[k] \in F /\ mem[FreeAt[k]] >= num
         /\ k = 0 => FreeAt[k] = avail
         /\ k # 0 => FreeAt[k - 1] \in F /\ next(FreeAt[k - 1]) = FreeAt[k]
<1>0. F \subseteq Indices /\ memSize \notin Indices /\ Last \in Nat
  BY FollowIsNext, LastIsNat DEF Indices
<1>1. k \in Fits(num)
  <2>1. Fits(num) \subseteq Nat
    BY WayExists, LastIsNat DEF Fits
  <2> QED
    BY <2>1, ForemostIsLeast
<1>2. k \in 0..Last /\ FreeAt[k] \in Indices /\ mem[FreeAt[k]] >= num
  BY <1>1, WayExists DEF Fits, blockSize
<1>3. FreeAt[k] \in F
  <2>1. FreeAt[k] \in F \union {memSize}
    BY <1>2, WayExists
  <2> QED
    BY <2>1, <1>0, <1>2
<1>4. CASE k # 0
  <2>1. k \in 1..Last /\ k - 1 \in 0..Last
    BY <1>0, <1>2, <1>4
  <2>2. FreeAt[k - 1] \in F
    <3>1. FreeAt[k - 1] \in F \union {memSize}
      BY <2>1, WayExists
    <3>2. FreeAt[k - 1] # memSize
      BY <2>1, <1>0, <1>2, WayGoesOn
    <3> QED
      BY <3>1, <3>2
  <2> QED
    BY <2>1, <2>2, <1>2, <1>3, <1>4, WayGoesOn
<1> QED
  BY <1>2, <1>3, <1>4, WayExists

\* Between which free blocks a block belongs.
LEMMA FreePlace ==
  ASSUME NEW F, Sound(F), NEW b \in Held, b >= avail,
         NEW k, k = Behind(b)
  PROVE  /\ FreeAt[k - 1] \in F /\ FreeAt[k - 1] < b
         /\ next(FreeAt[k - 1]) = FreeAt[k] /\ b < FreeAt[k]
<1> DEFINE K == {j \in DOMAIN FreeAt : FreeAt[j] >= b}
<1>0. b \in Nat /\ b < memSize /\ b \notin F
  <2>1. b \in Held \union F /\ b \notin F /\ Tiles(Held \union F, mem)
    BY DEF Sound
  <2> QED
    BY <2>1, InnerWords
<1>0a. F \subseteq Nat /\ memSize \in Nat /\ Last \in Nat
  BY FollowIsNext, LastIsNat DEF Indices
<1>1. k \in K /\ \A j \in K : k <= j
  <2>1. K \subseteq Nat
    BY WayExists, LastIsNat
  <2>2. Last \in K
    BY WayExists, WayGoesOn, <1>0, <1>0a
  <2> QED
    BY <2>1, <2>2, ForemostIsLeast DEF Behind
<1>2. k \in 0..Last /\ FreeAt[k] >= b /\ FreeAt[k] \in F \union {memSize}
  BY <1>1, WayExists
<1>3. FreeAt[k] > b
  <2>1. CASE FreeAt[k] \in F
    <3>1. FreeAt[k] \in Nat /\ FreeAt[k] # b
      BY <2>1, <1>0, <1>0a
    <3> QED
      BY <3>1, <1>0, <1>2
  <2>2. CASE FreeAt[k] = memSize
    BY <2>2, <1>0
  <2> QED
    BY <2>1, <2>2, <1>2
<1>4. k # 0
  <2>1. avail \in F \union {memSize}
    BY DEF Sound, Linked, Above
  <2>2. avail < b
    <3>1. avail \in Nat /\ avail # b
      BY <2>1, <1>0, <1>0a
    <3> QED
      BY <3>1, <1>0
  <2>3. avail \in Nat /\ FreeAt[0] = avail
    BY <2>1, <1>0a, WayExists
  <2> QED
    BY <2>2, <2>3, <1>3, <1>0
<1>5. k - 1 \in 0..Last /\ k \in 1..Last /\ k \in Nat
  BY <1>0a, <1>2, <1>4
<1>6. FreeAt[k - 1] < b
  <2>1. k - 1 \notin K
    BY <1>1, <1>5
  <2>2. k - 1 \in DOMAIN FreeAt /\ FreeAt[k - 1] \in F \union {memSize}
    BY <1>5, WayExists
  <2>3. FreeAt[k - 1] \in Nat /\ ~ FreeAt[k - 1] >= b
    BY <2>1, <2>2, <1>0a
  <2> QED
    BY <2>3, <1>0
<1>7. FreeAt[k - 1] \in F
  <2>1. FreeAt[k - 1] \in F \union {memSize}
    BY <1>5, WayExists
  <2>2. FreeAt[k - 1] # memSize
    BY <1>6, <1>0, <1>0a
  <2> QED
    BY <2>1, <2>2
<1> QED
  BY <1>3, <1>5, <1>6, <1>7, WayGoesOn

-----------------------------------------------------------------------------
(* The links *)

\* Places and their order, as the provers are to keep them.
Before(x, y) == x < y
Place(x) == x \in Nat

\* Places are numbers, and the end is behind them.
Places(F) == F \subseteq Nat /\ memSize \in Nat /\ \A x \in F : x < memSize

\* The first block is taken out.
LEMMA UnlinkFirst ==
  ASSUME NEW F, NEW n, NEW c \in F, Places(F), Linked(F, n, c),
         NEW G, G = F \ {c}, NEW w, \A x \in G : w[x] = n[x], NEW f, f = n[c]
  PROVE  Linked(G, w, f)
<1>1. c \in Nat /\ memSize \in Nat /\ Above(n[c], F, c) /\ Above(c, F, -1)
  BY DEF Places, Linked
<1>2. n[c] \in Nat /\ c < n[c]
  BY <1>1 DEF Places, Above
<1>3. ASSUME NEW x \in F \ {c} PROVE x \in Nat /\ c < x
  <2>1. x \in Nat /\ x # c
    BY DEF Places
  <2>2. c <= x
    BY <2>1, <1>1 DEF Above
  <2> QED
    BY <2>1, <2>2, <1>1
<1>4. Above(n[c], F \ {c}, -1)
  <2>1. n[c] \in (F \ {c}) \union {memSize} /\ -1 < n[c]
    BY <1>1, <1>2 DEF Above
  <2>2. ASSUME NEW y \in F \ {c} PROVE n[c] <= y
    BY <1>1, <1>3 DEF Above
  <2> QED
    BY <2>1, <2>2 DEF Above
<1>5. ASSUME NEW x \in F \ {c} PROVE Above(w[x], F \ {c}, x)
  <2>1. w[x] = n[x] /\ Above(n[x], F, x)
    BY DEF Linked
  <2>2. n[x] \in Nat /\ x < n[x]
    BY <2>1, <1>3 DEF Places, Above
  <2>3. n[x] # c
    BY <2>2, <1>1, <1>3
  <2> QED
    BY <2>1, <2>3 DEF Above
<1> QED
  BY <1>4, <1>5 DEF Linked

\* The block behind p is taken out.
LEMMA UnlinkAfter ==
  ASSUME NEW F, NEW n, NEW first, NEW p \in F, n[p] \in F, Places(F), Linked(F, n, first),
         NEW G, G = F \ {n[p]}, NEW w, w[p] = n[n[p]], \A x \in F \ {p, n[p]} : w[x] = n[x]
  PROVE  Linked(G, w, first)
<1>1. PICK c \in F : c = n[p]
  OBVIOUS
<1>2. p < c /\ p \in Nat /\ c \in Nat /\ p # c /\ memSize \in Nat
  BY <1>1 DEF Places, Linked, Above
<1>3. Above(first, F \ {c}, -1)
  <2>1. first <= p
    BY <1>2 DEF Linked, Above
  <2>2. first \in Nat
    BY DEF Linked, Above, Places
  <2>3. first # c
    BY <2>1, <2>2, <1>2
  <2> QED
    BY <2>3 DEF Linked, Above
<1>4. Above(w[p], F \ {c}, p)
  <2>1. Above(n[c], F, c) /\ Above(c, F, p)
    BY <1>1 DEF Linked
  <2>2. n[c] \in Nat /\ c < n[c]
    BY <2>1 DEF Above, Places
  <2>3. n[c] \in (F \ {c}) \union {memSize} /\ p < n[c]
    BY <2>1, <2>2, <1>2 DEF Above
  <2>4. ASSUME NEW y \in F \ {c}, p < y PROVE n[c] <= y
    <3>1. y \in Nat /\ c <= y
      BY <2>1, <2>4 DEF Above, Places
    <3> QED
      BY <3>1, <2>1, <1>2 DEF Above
  <2> QED
    BY <2>3, <2>4, <1>1 DEF Above
<1>5. ASSUME NEW x \in F \ {c}, x # p PROVE Above(w[x], F \ {c}, x)
  <2>1. w[x] = n[x] /\ Above(n[x], F, x) /\ Above(c, F, p)
    BY <1>1, <1>5 DEF Linked
  <2>2. x \in Nat /\ n[x] \in Nat
    BY <2>1 DEF Above, Places
  <2>3. n[x] # c
    <3>1. CASE x < p
      BY <3>1, <2>1, <2>2, <1>2 DEF Above
    <3>2. CASE p < x
      BY <3>2, <2>1, <2>2, <1>2 DEF Above
    <3> QED
      BY <3>1, <3>2, <2>2, <1>2, <1>5
  <2> QED
    BY <2>1, <2>3 DEF Above
<1> QED
  BY <1>1, <1>3, <1>4, <1>5 DEF Linked

\* A block before all others is put in.
LEMMA LinkFirst ==
  ASSUME NEW F, NEW n, NEW first, NEW b, Place(b), Before(b, first), Places(F), Linked(F, n, first),
         NEW G, G = F \union {b}, NEW w, w[b] = first, \A x \in F : w[x] = n[x]
  PROVE  Linked(G, w, b)
<1>0. b < first /\ b \in Nat
  BY DEF Before, Place
<1>1. first \in Nat
  BY <1>0 DEF Places, Linked, Above
<1>2. ASSUME NEW x \in F PROVE b < x /\ x \in Nat
  BY <1>0, <1>1 DEF Places, Linked, Above
<1>3. Above(b, F \union {b}, -1)
  BY <1>0, <1>2 DEF Above
<1>4. Above(w[b], F \union {b}, b)
  BY <1>0, <1>1, <1>2 DEF Linked, Above
<1>5. ASSUME NEW x \in F PROVE Above(w[x], F \union {b}, x)
  <2>1. Above(n[x], F, x) /\ w[x] = n[x]
    BY DEF Linked
  <2>2. n[x] \in (F \union {b}) \union {memSize} /\ x < n[x]
    BY <2>1 DEF Above
  <2>3. ASSUME NEW y \in F \union {b}, x < y PROVE n[x] <= y
    <3>1. y # b
      BY <2>3, <1>0, <1>2
    <3> QED
      BY <3>1, <2>1, <2>3 DEF Above
  <2> QED
    BY <2>1, <2>2, <2>3 DEF Above
<1> QED
  BY <1>3, <1>4, <1>5 DEF Linked

\* A block is put in between p and the one behind it.
LEMMA LinkAfter ==
  ASSUME NEW F, NEW n, NEW first, NEW p \in F, NEW b, Place(b), Before(p, b), Before(b, n[p]),
         Places(F), Linked(F, n, first),
         NEW G, G = F \union {b},
         NEW w, w[p] = b, w[b] = n[p], \A x \in F \ {p} : w[x] = n[x]
  PROVE  Linked(G, w, first)
<1>0. p < b /\ b < n[p] /\ b \in Nat
  BY DEF Before, Place
<1>1. n[p] \in Nat /\ p \in Nat /\ Above(n[p], F, p)
  BY DEF Places, Linked, Above
<1>2. Above(first, F \union {b}, -1)
  <2>1. first \in Nat /\ first <= p
    BY <1>0, <1>1 DEF Places, Linked, Above
  <2> QED
    BY <2>1, <1>0, <1>1 DEF Linked, Above
<1>3. Above(w[p], F \union {b}, p)
  <2>1. ASSUME NEW y \in F, p < y PROVE b <= y
    BY <2>1, <1>0, <1>1 DEF Above, Places
  <2> QED
    BY <2>1, <1>0 DEF Above
<1>4. Above(w[b], F \union {b}, b)
  <2>1. ASSUME NEW y \in F, b < y PROVE n[p] <= y
    BY <2>1, <1>0, <1>1 DEF Above, Places
  <2> QED
    BY <2>1, <1>0, <1>1 DEF Above
<1>5. ASSUME NEW x \in F, x # p PROVE Above(w[x], F \union {b}, x)
  <2>1. Above(n[x], F, x) /\ w[x] = n[x]
    BY <1>5 DEF Linked
  <2>2. x \in Nat /\ n[x] \in Nat
    BY <2>1, <1>0 DEF Above, Places
  <2>3. x < b => n[x] <= b
    <3>1. CASE x < p
      BY <3>1, <2>1, <2>2, <1>0, <1>1 DEF Above
    <3>2. CASE p < x
      BY <3>2, <2>2, <1>0, <1>1 DEF Above
    <3> QED
      BY <3>1, <3>2, <2>2, <1>0, <1>1, <1>5
  <2> QED
    BY <2>1, <2>3 DEF Above
<1> QED
  BY <1>2, <1>3, <1>4, <1>5 DEF Linked

-----------------------------------------------------------------------------
(* The steps *)

\* The words of the blocks and their links.
LEMMA BlockWords ==
  ASSUME NEW F, Sound(F)
  PROVE  /\ \A x \in Held \union F :
              /\ x \in Nat /\ x < memSize /\ mem[x] \in Nat \ {0} /\ x \in Indices
              /\ x + mem[x] \in Indices /\ x + mem[x] \notin Held \union F
         /\ \A x, y \in Held \union F : x # y => x + mem[x] \notin y..(y + mem[y])
         /\ \A x \in F : /\ next(x) = Links(F, mem)[x] /\ next(x) \in F \union {memSize}
                         /\ next(x) \in Nat /\ x + mem[x] < next(x)
         /\ Places(F) /\ memSize \in Nat
<1>1. memSize \in Nat
  BY AllocatorAssumption
<1>2. ASSUME NEW x \in Held \union F
      PROVE  /\ x \in Nat /\ x < memSize /\ mem[x] \in Nat \ {0} /\ x \in Indices
             /\ x + mem[x] \in Indices /\ x + mem[x] \notin Held \union F
  <2>1. /\ x \in Nat /\ x < memSize /\ mem[x] \in Nat \ {0} /\ x + mem[x] \in Indices
        /\ \A i \in (x + 1)..(x + mem[x]) : i \notin Held \union F
    BY InnerWords DEF Sound
  <2>2. x + mem[x] \in (x + 1)..(x + mem[x])
    BY <2>1
  <2> QED
    BY <2>1, <2>2, <1>1 DEF Indices
<1>3. ASSUME NEW x \in Held \union F, NEW y \in Held \union F, x # y
      PROVE  x + mem[x] \notin y..(y + mem[y])
  <2>1. x + mem[x] \in x..(x + mem[x])
    BY <1>2
  <2>2. \A i \in x..(x + mem[x]) : i \notin y..(y + mem[y])
    BY <1>3, InnerWords DEF Sound
  <2> QED
    BY <2>1, <2>2
<1>4. ASSUME NEW x \in F
      PROVE  /\ next(x) = Links(F, mem)[x] /\ next(x) \in F \union {memSize}
             /\ next(x) \in Nat /\ x + mem[x] < next(x)
  <2>1. next(x) = Links(F, mem)[x]
    BY DEF next, linkToNext, Links
  <2>2. next(x) \in F \union {memSize} /\ x < next(x)
    BY FollowIsNext DEF Above
  <2>3. next(x) \in F => x + mem[x] < next(x)
    BY <2>2 DEF Sound, Tiles
  <2>4. x + mem[x] < memSize
    BY DEF Sound, Tiles
  <2> QED
    BY <2>1, <2>2, <2>3, <2>4, <1>1, <1>2
<1> QED
  BY <1>1, <1>2, <1>3, <1>4 DEF Places

\* A joined block ends where the second of the two ended.
LEMMA JoinedEnd ==
  ASSUME NEW b, NEW n, NEW m, NEW w, Place(b), Place(m[b]), Place(m[n]), Joined(b, n, m, w)
  PROVE  b + w[b] = n + m[n]
BY DEF Place, Joined

\* Three neighbours are one block p in v.
JoinedThree(p, h, c, m, v) == c = h + m[h] + 1 /\ v[p] = m[p] + m[h] + 1 + m[c] + 1

LEMMA JoinedTwice ==
  ASSUME NEW p, NEW h, NEW c, NEW m, NEW w, NEW v,
         Place(p), Place(m[p]), Place(m[h]), Place(m[c]),
         Joined(p, h, m, w), w[c] = m[c], JoinedThree(p, h, c, m, v)
  PROVE  Joined(p, c, w, v)
BY DEF Place, Joined, JoinedThree

LEMMA SoundAfter ==
  ASSUME NEW G, mem' \in [Indices -> Int], Tiles(Held' \union G, mem'), Held' \intersect G = {},
         Linked(G, Links(G, mem'), avail'), Granted'
  PROVE  AInv'
BY DEF AInv, Sound

\* A client gets a block.
LEMMA GrantedGives ==
  ASSUME NEW F, Sound(F), NEW c \in F, NEW num \in Nat \ {0},
         live' = live \union {[at |-> c, asked |-> num]},
         mem'[c] >= num, \A x \in Held : mem'[x] = mem[x]
  PROVE  Granted' /\ Held' = Held \union {c} /\ c \notin Held
<1> PICK d : d = [at |-> c, asked |-> num]
  OBVIOUS
<1>0. live' = live \union {d} /\ d.at = c /\ d.asked = num /\ d \in [at : Indices, asked : Nat \ {0}]
  BY BlockWords
<1>1. c \notin Held
  BY DEF Sound
<1>2. Held' = Held \union {c}
  <2>1. ASSUME NEW x \in Held' PROVE x \in Held \union {c}
    BY <1>0 DEF Held
  <2>2. ASSUME NEW x \in Held \union {c} PROVE x \in Held'
    BY <1>0 DEF Held
  <2> QED
    BY <2>1, <2>2
<1>3. \A b \in live : b.at \in Held
  BY DEF Held
<1>4. live' \subseteq [at : Indices, asked : Nat \ {0}]
  BY <1>0 DEF Sound, Granted
<1>5. \A a, b \in live' : a.at = b.at => a = b
  BY <1>0, <1>1, <1>3 DEF Sound, Granted
<1>6. \A b \in live' : b.asked <= mem'[b.at]
  <2>1. ASSUME NEW b \in live PROVE b.asked <= mem'[b.at]
    <3>1. b.asked <= mem[b.at]
      BY DEF Sound, Granted
    <3> QED
      BY <3>1, <1>3
  <2> QED
    BY <2>1, <1>0
<1> QED
  BY <1>1, <1>2, <1>4, <1>5, <1>6 DEF Granted

\* The block that is found is given as it is.
WholeGiven(num) ==
  LET cur == FreeAt[Foremost(Fits(num))] IN blockSize(cur) = SizeGiven(cur, num)

\* A whole block is given.
LEMMA GiveWhole ==
  ASSUME NEW F, Sound(F), NEW num \in Nat \ {0}, MallocFits(num),
         WholeGiven(num)
  PROVE  AInv'
<1> PICK k : k = Foremost(Fits(num))
  OBVIOUS
<1> PICK c : c = FreeAt[k]
  OBVIOUS
<1> PICK p : p = FreeAt[k - 1]
  OBVIOUS
<1> PICK B : B = Held \union F
  OBVIOUS
<1> PICK G : G = F \ {c}
  OBVIOUS
<1>1. /\ c \in F /\ mem[c] >= num
      /\ k = 0 => c = avail
      /\ k # 0 => p \in F /\ next(p) = c /\ p # c /\ p \in Nat
  <2>1. /\ c \in F /\ mem[c] >= num
        /\ k = 0 => c = avail
        /\ k # 0 => p \in F /\ next(p) = c
    BY MallocPlace DEF MallocFits
  <2> QED
    BY <2>1, BlockWords
<1>2. /\ c \in Nat /\ mem[c] \in Nat \ {0} /\ next(c) \in Nat /\ c + mem[c] \in Indices
      /\ mem \in [Indices -> Int]
  BY <1>1, BlockWords DEF Sound
<1>3. /\ avail' = IF k = 0 THEN next(c) ELSE avail
      /\ live' = live \union {[at |-> c, asked |-> num]}
      /\ mem' = [i \in Indices |->
                  IF i = c THEN mem[c]
                  ELSE IF i \in (c + 1)..(c + mem[c]) THEN ClientData
                  ELSE (IF k = 0 THEN mem ELSE [mem EXCEPT ![p + mem[p]] = next(c)])[i]]
  BY DEF MallocFits, WholeGiven, blockSize, linkToNext
<1>4. ASSUME NEW i \in Indices, i \notin (c + 1)..(c + mem[c])
      PROVE  mem'[i] = IF k # 0 /\ i = p + mem[p] THEN next(c) ELSE mem[i]
  <2>1. CASE i = c
    <3>1. k # 0 => p + mem[p] # c
      BY <1>1, BlockWords
    <3> QED
      BY <2>1, <3>1, <1>2, <1>3
  <2>2. CASE i # c
    BY <2>2, <1>2, <1>3, <1>4
  <2> QED
    BY <2>1, <2>2
<1>5. mem' \in [Indices -> Int]
  BY <1>2, <1>3 DEF ClientData
<1>6. \A x \in B : mem'[x] = mem[x]
  <2>1. ASSUME NEW x \in B PROVE mem'[x] = mem[x]
    <3>1. x \in Indices /\ x \notin (c + 1)..(c + mem[c])
      BY <1>1, BlockWords, InnerWords DEF Sound
    <3>2. k # 0 => p + mem[p] # x
      BY <1>1, BlockWords
    <3> QED
      BY <3>1, <3>2, <1>4
  <2> QED
    BY <2>1
<1>12. Granted' /\ Held' = Held \union {c} /\ c \notin Held
  <2>1. c \in B /\ \A x \in Held : x \in B
    BY <1>1
  <2> QED
    BY <2>1, <1>1, <1>3, <1>6, GrantedGives
<1>7. Held' = Held \union {c} /\ Held' \union G = B /\ c \notin Held
  BY <1>1, <1>12
<1>8. Tiles(Held' \union G, mem')
  BY <1>6, <1>7, SameTiles DEF Sound
<1>9. Held' \intersect G = {}
  BY <1>7 DEF Sound
<1>10. ASSUME NEW x \in G PROVE Links(G, mem')[x] = IF k # 0 /\ x = p THEN next(c) ELSE Links(F, mem)[x]
  <2>1. x \in F /\ x \in B /\ x # c /\ mem'[x] = mem[x]
    BY <1>6
  <2>2. x + mem[x] \in Indices /\ x + mem[x] \notin (c + 1)..(c + mem[c])
    BY <2>1, <1>1, <1>2, BlockWords
  <2>3. k # 0 /\ x # p => x + mem[x] # p + mem[p]
    <3>1. k # 0 => p + mem[p] \in p..(p + mem[p])
      BY <1>1, BlockWords
    <3> QED
      BY <3>1, <2>1, <1>1, BlockWords
  <2> QED
    BY <2>1, <2>2, <2>3, <1>4 DEF Links
<1>11. Linked(G, Links(G, mem'), avail')
  <2>1. Linked(F, Links(F, mem), avail) /\ Places(F)
    BY BlockWords DEF Sound
  <2>a. avail' = IF k = 0 THEN next(c) ELSE avail
    BY <1>3
  <2>2. next(c) = Links(F, mem)[c] /\ (k # 0 => c = Links(F, mem)[p])
    BY <1>1, BlockWords
  <2>3. CASE k = 0
    <3>1. \A x \in G : Links(G, mem')[x] = Links(F, mem)[x]
      BY <2>3, <1>10
    <3>2. avail' = next(c) /\ Linked(F, Links(F, mem), c) /\ c \in F
      BY <2>1, <2>3, <2>a, <1>1
    <3> PICK w : w = Links(G, mem')
      OBVIOUS
    <3> PICK n : n = Links(F, mem)
      OBVIOUS
    <3>3. \A x \in G : w[x] = n[x]
      BY <3>1
    <3>4. Linked(F, n, c) /\ next(c) = n[c]
      BY <3>2, <2>2
    <3>5. Linked(G, w, n[c])
      BY <2>1, <3>2, <3>3, <3>4, UnlinkFirst
    <3> QED
      BY <3>2, <3>4, <3>5
  <2>4. CASE k # 0
    <3>1. Links(G, mem')[p] = next(c) /\ \A x \in F \ {p, c} : Links(G, mem')[x] = Links(F, mem)[x]
      BY <2>4, <1>1, <1>10
    <3>2. avail' = avail /\ p \in F /\ Links(F, mem)[p] \in F /\ G = F \ {Links(F, mem)[p]}
      BY <2>2, <2>4, <2>a, <1>1
    <3> PICK w : w = Links(G, mem')
      OBVIOUS
    <3> PICK n : n = Links(F, mem)
      OBVIOUS
    <3>3. /\ w[p] = n[n[p]] /\ \A x \in F \ {p, n[p]} : w[x] = n[x]
          /\ n[p] \in F /\ G = F \ {n[p]} /\ p \in F
      BY <3>1, <3>2, <2>2, <2>4
    <3>4. Linked(F, n, avail)
      BY <2>1
    <3>5. Linked(G, w, avail)
      BY <2>1, <3>3, <3>4, UnlinkAfter
    <3> QED
      BY <3>2, <3>5
  <2> QED
    BY <2>3, <2>4
<1> QED
  BY <1>5, <1>8, <1>9, <1>11, <1>12, SoundAfter

\* The first part of a block is given, and the rest takes its place.
LEMMA GivePart ==
  ASSUME NEW F, Sound(F), NEW num \in Nat \ {0}, MallocFits(num),
         ~ WholeGiven(num)
  PROVE  AInv'
<1> PICK k : k = Foremost(Fits(num))
  OBVIOUS
<1> PICK c : c = FreeAt[k]
  OBVIOUS
<1> PICK p : p = FreeAt[k - 1]
  OBVIOUS
<1> PICK r : r = c + num + 1
  OBVIOUS
<1> PICK B : B = Held \union F
  OBVIOUS
<1> PICK G : G = (F \ {c}) \union {r}
  OBVIOUS
<1>1. /\ c \in F /\ mem[c] >= num
      /\ k = 0 => c = avail
      /\ k # 0 => p \in F /\ next(p) = c /\ p # c /\ p \in Nat
  <2>1. /\ c \in F /\ mem[c] >= num
        /\ k = 0 => c = avail
        /\ k # 0 => p \in F /\ next(p) = c
    BY MallocPlace DEF MallocFits
  <2> QED
    BY <2>1, BlockWords
<1>2. /\ c \in Nat /\ c \in Indices /\ mem[c] \in Nat \ {0} /\ next(c) \in Nat
      /\ c + mem[c] \in Indices /\ c + mem[c] < next(c) /\ mem \in [Indices -> Int]
  BY <1>1, BlockWords DEF Sound
<1>3. SizeGiven(c, num) = num /\ num + 2 <= mem[c]
  <2>1. mem[c] # SizeGiven(c, num)
    BY DEF WholeGiven, blockSize
  <2>2. mem[c] \in Int /\ mem[c] >= num
    BY <1>1, <1>2
  <2> QED
    BY <2>1, <2>2 DEF SizeGiven, blockSize
<1>4. /\ r \in Nat /\ r \in Indices /\ c < r /\ r < c + mem[c] /\ r < next(c)
      /\ r + (mem[c] - num - 1) = c + mem[c]
  <2>1. r \in Nat /\ c < r /\ r < c + mem[c] /\ r + (mem[c] - num - 1) = c + mem[c]
    BY <1>2, <1>3
  <2>2. memSize \in Nat /\ c + mem[c] <= memSize - 1
    BY <1>2, AllocatorAssumption DEF Indices
  <2>3. r \in Indices
    BY <2>1, <2>2, <1>2 DEF Indices
  <2> QED
    BY <2>1, <2>3, <1>2
<1>5. /\ avail' = IF k = 0 THEN r ELSE avail
      /\ live' = live \union {[at |-> c, asked |-> num]}
      /\ mem' = [i \in Indices |-> mem'[i]]
      /\ \A i \in Indices :
            mem'[i] = IF i = c THEN num
                      ELSE IF i \in (c + 1)..(c + num) THEN ClientData
                      ELSE IF i = r THEN mem[c] - num - 1
                      ELSE IF k # 0 /\ i = p + mem[p] THEN r ELSE mem[i]
  <2>1. blockSize(c) # num /\ mem[c] = blockSize(c) /\ r = Split(c, num)
    BY <1>2, <1>3 DEF blockSize, Split
  <2>2. SizeGiven(c, num) = num
    BY <1>3
  <2> DEFINE rest == blockSize(c) - num - 1
             links == IF k = 0 THEN mem ELSE [mem EXCEPT ![linkToNext(p)] = Split(c, num)]
             cut == [links EXCEPT ![Split(c, num)] = rest]
  <2>3. /\ avail' = IF k = 0 THEN Split(c, num) ELSE avail
        /\ live' = live \union {[at |-> c, asked |-> num]}
        /\ mem' = [i \in Indices |->
                    IF i = c THEN SizeGiven(c, num)
                    ELSE IF i \in (c + 1)..(c + SizeGiven(c, num)) THEN ClientData ELSE cut[i]]
    BY <2>1, <2>2 DEF MallocFits
  <2>4. ASSUME NEW i \in Indices
        PROVE  cut[i] = IF i = r THEN mem[c] - num - 1
                        ELSE IF k # 0 /\ i = p + mem[p] THEN r ELSE mem[i]
    <3>1. DOMAIN links = Indices /\ rest = mem[c] - num - 1 /\ linkToNext(p) = p + mem[p]
      BY <2>1, <1>2 DEF linkToNext
    <3>2. links[i] = IF k # 0 /\ i = p + mem[p] THEN r ELSE mem[i]
      BY <2>1, <3>1, <1>2
    <3> HIDE DEF links, rest
    <3> QED
      BY <3>1, <3>2, <2>1
  <2> HIDE DEF cut
  <2>5. \A i \in Indices :
            mem'[i] = IF i = c THEN num
                      ELSE IF i \in (c + 1)..(c + num) THEN ClientData ELSE cut[i]
    BY <2>2, <2>3
  <2>6. mem' = [i \in Indices |-> mem'[i]]
    BY <2>3
  <2> QED
    BY <2>1, <2>3, <2>4, <2>5, <2>6
<1>6. k # 0 => p + mem[p] \in Indices /\ p + mem[p] \notin c..(c + mem[c])
  BY <1>1, BlockWords
<1>7. /\ mem'[c] = num /\ mem'[r] = mem[c] - num - 1
      /\ \A i \in Indices : i \notin c..r =>
            mem'[i] = IF k # 0 /\ i = p + mem[p] THEN r ELSE mem[i]
  <2>1. ASSUME NEW i \in Indices, i \notin c..r
        PROVE  mem'[i] = IF k # 0 /\ i = p + mem[p] THEN r ELSE mem[i]
    <3>1. i # c /\ i # r /\ i \notin (c + 1)..(c + num) /\ i \in Nat
      <4>1. i \in Nat
        BY AllocatorAssumption DEF Indices
      <4>2. i < c \/ i > r
        BY <4>1, <2>1, <1>2, <1>4
      <4> QED
        BY <4>1, <4>2, <1>2, <1>4
    <3> QED
      BY <3>1, <1>2, <1>5
  <2>2. mem'[c] = num
    BY <1>2, <1>5
  <2>3. mem'[r] = mem[c] - num - 1
    <3>1. r # c /\ r \notin (c + 1)..(c + num)
      BY <1>2, <1>4
    <3> QED
      BY <3>1, <1>2, <1>4, <1>5
  <2> QED
    BY <2>1, <2>2, <2>3
<1>8. mem' \in [Indices -> Int]
  <2>1. mem' = [i \in Indices |-> mem'[i]]
    BY <1>5
  <2>2. ASSUME NEW i \in Indices PROVE mem'[i] \in Int
    <3>1. mem[c] - num - 1 \in Int /\ num \in Int /\ r \in Int /\ ClientData \in Int /\ mem[i] \in Int
      BY <1>2, <1>4 DEF ClientData
    <3> QED
      BY <3>1, <1>2, <1>5
  <2> QED
    BY <2>1, <2>2
<1>9. \A x \in B \ {c} : mem'[x] = mem[x]
  <2>1. ASSUME NEW x \in B \ {c} PROVE mem'[x] = mem[x]
    <3>1. x \in Indices /\ x \in Nat /\ x \notin (c + 1)..(c + mem[c])
      BY <1>1, BlockWords, InnerWords DEF Sound
    <3>2. k # 0 => p + mem[p] # x
      BY <1>1, BlockWords
    <3>3. x \notin c..r
      BY <3>1, <1>2, <1>4
    <3> QED
      BY <3>1, <3>2, <3>3, <1>7
  <2> QED
    BY <2>1
<1>10. r \notin B
  <2>1. r \in (c + 1)..(c + mem[c])
    BY <1>2, <1>4
  <2> QED
    BY <2>1, <1>1, InnerWords DEF Sound
<1>16. Granted' /\ Held' = Held \union {c} /\ c \notin Held
  <2>1. \A x \in Held : x \in B \ {c}
    BY <1>1 DEF Sound
  <2>2. mem'[c] >= num
    BY <1>7
  <2> QED
    BY <2>1, <2>2, <1>1, <1>5, <1>9, GrantedGives
<1>11. Held' = Held \union {c} /\ Held' \union G = B \union {r} /\ c \notin Held
  BY <1>1, <1>16
<1>12. Tiles(Held' \union G, mem')
  <2>1. Tiles(B \union {c + num + 1}, mem')
    <3>1. Tiles(B, mem) /\ c \in B
      BY <1>1 DEF Sound
    <3> QED
      BY <3>1, <1>3, <1>7, <1>9, SplitTiles
  <2> QED
    BY <2>1, <1>11
<1>13. Held' \intersect G = {}
  BY <1>1, <1>4, <1>10, <1>11 DEF Sound
<1>14. /\ Links(G, mem')[r] = next(c)
       /\ \A x \in F \ {c} : Links(G, mem')[x] = IF k # 0 /\ x = p THEN r ELSE Links(F, mem)[x]
  <2>1. ASSUME NEW x \in F \ {c}
        PROVE  Links(G, mem')[x] = IF k # 0 /\ x = p THEN r ELSE Links(F, mem)[x]
    <3>1. x \in F /\ x \in G /\ x \in B \ {c} /\ mem'[x] = mem[x]
      BY <1>9
    <3>2. x + mem[x] \in Indices /\ x + mem[x] \notin c..(c + mem[c])
      BY <3>1, <1>1, BlockWords
    <3>3. x + mem[x] \notin c..r
      <4>1. x + mem[x] \in Int
        BY <3>2, AllocatorAssumption DEF Indices
      <4> QED
        BY <4>1, <3>2, <1>2, <1>4
    <3>4. k # 0 /\ x # p => x + mem[x] # p + mem[p]
      <4>1. k # 0 => p + mem[p] \in p..(p + mem[p])
        BY <1>1, BlockWords
      <4> QED
        BY <4>1, <3>1, <1>1, BlockWords
    <3>5. Links(G, mem')[x] = mem'[x + mem[x]] /\ Links(F, mem)[x] = mem[x + mem[x]]
      BY <3>1 DEF Links
    <3> QED
      BY <3>2, <3>3, <3>4, <3>5, <1>7
  <2>2. Links(G, mem')[r] = next(c)
    <3>1. Links(G, mem')[r] = mem'[c + mem[c]]
      BY <1>4, <1>7 DEF Links
    <3>2. c + mem[c] \notin c..r /\ (k # 0 => c + mem[c] # p + mem[p])
      BY <1>2, <1>4, <1>6
    <3>3. mem'[c + mem[c]] = mem[c + mem[c]]
      BY <3>2, <1>2, <1>7
    <3> QED
      BY <3>1, <3>3 DEF next, linkToNext
  <2> QED
    BY <2>1, <2>2
<1>15. Linked(G, Links(G, mem'), avail')
  <2> PICK H : H = F \ {c}
    OBVIOUS
  <2>1. Linked(F, Links(F, mem), avail) /\ Places(F) /\ Places(H)
    BY BlockWords DEF Sound, Places
  <2>2. next(c) = Links(F, mem)[c] /\ (k # 0 => c = Links(F, mem)[p])
    BY <1>1, BlockWords
  <2>3. CASE k = 0
    <3>1. Linked(H, Links(F, mem), next(c))
      <4>1. Linked(F, Links(F, mem), c) /\ c \in F
        BY <2>1, <2>3, <1>1
      <4> QED
        BY <4>1, <2>1, <2>2, UnlinkFirst
    <3>2. \A x \in H : Links(G, mem')[x] = Links(F, mem)[x]
      BY <2>3, <1>14
    <3>3. Linked(G, Links(G, mem'), r)
      <4>1. Before(r, next(c)) /\ Place(r) /\ Links(G, mem')[r] = next(c) /\ G = H \union {r}
        BY <1>4, <1>14 DEF Before, Place
      <4> QED
        <5> PICK w : w = Links(G, mem')
          OBVIOUS
        <5> PICK n : n = Links(F, mem)
          OBVIOUS
        <5>1. /\ w[r] = next(c) /\ \A x \in H : w[x] = n[x]
              /\ Linked(H, n, next(c))
          BY <4>1, <3>1, <3>2
        <5>2. Linked(G, w, r)
          BY <4>1, <5>1, <2>1, LinkFirst
        <5> QED
          BY <5>2
    <3> QED
      BY <3>3, <2>3, <1>5
  <2>4. CASE k # 0
    <3> DEFINE w == [x \in H |-> IF x = p THEN next(c) ELSE Links(F, mem)[x]]
    <3>1. w[p] = next(c) /\ p \in H /\ \A x \in F \ {p, c} : w[x] = Links(F, mem)[x]
      BY <2>4, <1>1
    <3>2. \A x \in H \ {p} : Links(G, mem')[x] = w[x]
      BY <2>4, <1>14
    <3> HIDE DEF w
    <3>3. Linked(H, w, avail)
      <4>1. /\ p \in F /\ Links(F, mem)[p] \in F /\ H = F \ {Links(F, mem)[p]}
            /\ w[p] = Links(F, mem)[Links(F, mem)[p]]
            /\ \A x \in F \ {p, Links(F, mem)[p]} : w[x] = Links(F, mem)[x]
        BY <3>1, <2>2, <2>4, <1>1
      <4> QED
        BY <4>1, <2>1, UnlinkAfter
    <3>4. p < r
      BY <2>2, <2>4, <1>1, <1>2, <1>4, BlockWords
    <3>5. Linked(G, Links(G, mem'), avail)
      <4>1. Before(p, r) /\ Before(r, w[p]) /\ Place(r) /\ p \in H /\ G = H \union {r}
        BY <3>1, <3>4, <1>4 DEF Before, Place
      <4>2. Links(G, mem')[p] = r /\ Links(G, mem')[r] = w[p]
        BY <3>1, <2>4, <1>1, <1>14
      <4> QED
        <5> PICK v : v = Links(G, mem')
          OBVIOUS
        <5>1. v[p] = r /\ v[r] = w[p] /\ \A x \in H \ {p} : v[x] = w[x]
          BY <4>2, <3>2
        <5>a. p \in H /\ Place(r) /\ Places(H) /\ Linked(H, w, avail)
          BY <4>1, <3>3, <2>1
        <5>b. Before(p, r) /\ Before(r, w[p])
          BY <4>1
        <5>2. Linked(G, v, avail)
          BY <4>1, <5>a, <5>b, <5>1, LinkAfter
        <5> QED
          BY <5>2
    <3> QED
      BY <3>5, <2>4, <1>5
  <2> QED
    BY <2>3, <2>4
<1> QED
  BY <1>8, <1>12, <1>13, <1>15, <1>16, SoundAfter

\* The client of a block lets it go.
LEMMA GrantedAfter ==
  ASSUME NEW F, Sound(F), NEW b \in live, live' = live \ {b},
         \A x \in Held \ {b.at} : mem'[x] >= mem[x] /\ mem'[x] \in Int
  PROVE  Granted' /\ Held' = Held \ {b.at} /\ b.at \in Held
<1>1. Held' = Held \ {b.at} /\ b.at \in Held
  BY DEF Held, Sound, Granted
<1>2. \A d \in live' : d \in live /\ d.at \in Held \ {b.at}
  BY <1>1 DEF Held
<1>3. \A d \in live' : d.asked <= mem'[d.at]
  <2>1. ASSUME NEW d \in live' PROVE d.asked <= mem'[d.at]
    <3>1. d.asked \in Int /\ d.asked <= mem[d.at] /\ mem[d.at] \in Int
      BY <1>2 DEF Sound, Granted
    <3>2. mem'[d.at] >= mem[d.at] /\ mem'[d.at] \in Int
      BY <1>2
    <3> QED
      BY <3>1, <3>2
  <2> QED
    BY <2>1
<1> QED
  BY <1>1, <1>2, <1>3 DEF Sound, Granted

\* A block is put before all free ones.
LEMMA PutBefore ==
  ASSUME NEW F, Sound(F), NEW b \in live, live' = live \ {b}, FreeBefore(b.at)
  PROVE  AInv'
<1> PICK h : h = b.at
  OBVIOUS
<1> PICK a : a = avail
  OBVIOUS
<1> PICK B : B = Held \union F
  OBVIOUS
<1>1. h \in Held /\ h \notin F
  BY DEF Held, Sound
<1>2. /\ h \in Nat /\ h \in Indices /\ mem[h] \in Nat \ {0} /\ h + mem[h] \in Indices
      /\ h + mem[h] \notin B /\ mem \in [Indices -> Int] /\ memSize \in Nat
  BY <1>1, BlockWords DEF Sound
<1>3. a \in F \union {memSize} /\ a \in Nat /\ h < a /\ avail' = h
      /\ Linked(F, Links(F, mem), a) /\ Places(F)
  BY BlockWords DEF FreeBefore, Sound, Linked, Above, Places
<1>4. CASE h + mem[h] + 1 = a /\ a < memSize
  <2>1. mem' = [mem EXCEPT ![h] = mem[h] + mem[a] + 1]
    BY <1>3, <1>4 DEF FreeBefore, linkToNext, blockSize
  <2>2. a \in F /\ a # h /\ mem[a] \in Nat \ {0}
    BY <1>1, <1>3, <1>4, BlockWords
  <2> PICK H : H = F \ {a}
    OBVIOUS
  <2> PICK G : G = H \union {h}
    OBVIOUS
  <2>3. mem' \in [Indices -> Int] /\ mem'[h] = mem[h] + mem[a] + 1
        /\ \A x \in Indices \ {h} : mem'[x] = mem[x]
    BY <1>2, <2>1, <2>2
  <2>4. Granted' /\ Held' = Held \ {h}
    <3>1. \A x \in Held \ {h} : x \in Indices /\ mem[x] \in Int
      BY BlockWords
    <3> QED
      BY <3>1, <2>3, GrantedAfter
  <2>5. Tiles(Held' \union G, mem')
    <3>1. Tiles(B, mem) /\ h \in B /\ a \in B
      BY <1>1, <2>2 DEF Sound
    <3>2. \A x \in B \ {h, a} : mem'[x] = mem[x]
      BY <2>3, BlockWords
    <3> PICK C : C = B \ {a}
      OBVIOUS
    <3>a. Joined(h, a, mem, mem')
      BY <1>4, <2>3 DEF Joined
    <3>3. Tiles(C, mem')
      BY <3>a, <3>1, <3>2, JoinTiles
    <3>4. C = Held' \union G
      BY <1>1, <2>2, <2>4 DEF Sound
    <3> QED
      BY <3>3, <3>4
  <2>6. Held' \intersect G = {}
    BY <2>4 DEF Sound
  <2>7. Linked(G, Links(G, mem'), avail')
    <3>1. \A x \in H : Links(G, mem')[x] = Links(F, mem)[x]
      <4>1. ASSUME NEW x \in H PROVE Links(G, mem')[x] = Links(F, mem)[x]
        <5>1. x \in Indices \ {h} /\ x + mem[x] \in Indices \ {h} /\ x \in F /\ x \in G
          BY <1>1, BlockWords
        <5> QED
          BY <5>1, <2>3 DEF Links
      <4> QED
        BY <4>1
    <3>2. Links(G, mem')[h] = next(a)
      <4>1. h + mem'[h] = a + mem[a] /\ a + mem[a] \in Indices \ {h}
        BY <1>1, <1>2, <1>4, <2>2, <2>3, BlockWords
      <4> QED
        BY <4>1, <2>3 DEF Links, next, linkToNext
    <3>3. Linked(H, Links(F, mem), next(a)) /\ Places(H)
      <4>1. next(a) = Links(F, mem)[a]
        BY <2>2, BlockWords
      <4> QED
        BY <4>1, <1>3, <2>2, UnlinkFirst DEF Places
    <3>4. h < next(a)
      BY <1>2, <1>3, <2>2, BlockWords
    <3> PICK w : w = Links(G, mem')
      OBVIOUS
    <3> PICK n : n = Links(F, mem)
      OBVIOUS
    <3>5. w[h] = next(a) /\ Before(h, next(a)) /\ Place(h) /\ \A x \in H : w[x] = n[x]
      BY <3>1, <3>2, <3>4, <1>2 DEF Before, Place
    <3>6. Linked(H, n, next(a)) /\ Places(H)
      BY <3>3
    <3>7. Linked(G, w, h)
      BY <3>5, <3>6, LinkFirst
    <3> QED
      BY <3>7, <1>3
  <2> QED
    BY <2>3, <2>4, <2>5, <2>6, <2>7, SoundAfter
<1>5. CASE ~ (h + mem[h] + 1 = a /\ a < memSize)
  <2>1. mem' = [mem EXCEPT ![h + mem[h]] = a]
    BY <1>3, <1>5 DEF FreeBefore, linkToNext, blockSize
  <2> PICK G : G = F \union {h}
    OBVIOUS
  <2>3. mem' \in [Indices -> Int] /\ mem'[h + mem[h]] = a
        /\ \A x \in Indices \ {h + mem[h]} : mem'[x] = mem[x]
    BY <1>2, <1>3, <2>1
  <2>4. \A x \in B : x \in Indices /\ mem'[x] = mem[x] /\ mem[x] \in Int
    BY <1>2, <2>3, BlockWords
  <2>5. Granted' /\ Held' = Held \ {h}
    BY <2>4, GrantedAfter
  <2>6. Held' \union G = B /\ Held' \intersect G = {}
    BY <1>1, <2>5 DEF Sound
  <2>7. Tiles(Held' \union G, mem')
    <3>1. Tiles(B, mem) /\ \A x \in B : mem'[x] = mem[x]
      BY <2>4 DEF Sound
    <3>2. Tiles(B, mem')
      BY <3>1, SameTiles
    <3> QED
      BY <3>2, <2>6
  <2>8. Linked(G, Links(G, mem'), avail')
    <3>1. \A x \in F : Links(G, mem')[x] = Links(F, mem)[x]
      <4>1. ASSUME NEW x \in F PROVE Links(G, mem')[x] = Links(F, mem)[x]
        <5>1. x \in B /\ x \in G /\ x # h /\ x + mem[x] \in Indices
          BY <1>1, BlockWords
        <5>2. x + mem[x] # h + mem[h]
          <6>1. h + mem[h] \in h..(h + mem[h])
            BY <1>2
          <6> QED
            BY <6>1, <5>1, <1>1, BlockWords
        <5> QED
          BY <5>1, <5>2, <2>3, <2>4 DEF Links
      <4> QED
        BY <4>1
    <3>2. Links(G, mem')[h] = a
      BY <1>1, <2>3, <2>4 DEF Links
    <3> PICK w : w = Links(G, mem')
      OBVIOUS
    <3> PICK n : n = Links(F, mem)
      OBVIOUS
    <3>3. /\ w[h] = a /\ Before(h, a) /\ Place(h) /\ \A x \in F : w[x] = n[x]
          /\ Linked(F, n, a) /\ Places(F)
      BY <3>1, <3>2, <1>2, <1>3 DEF Before, Place
    <3>4. Linked(G, w, h)
      BY <3>3, LinkFirst
    <3> QED
      BY <3>4, <1>3
  <2> QED
    BY <2>3, <2>5, <2>6, <2>7, <2>8, SoundAfter
<1> QED
  BY <1>4, <1>5

\* The free block before b ends where b begins.
Touched(b) == linkToNext(FreeAt[Behind(b) - 1]) + 1 = b

\* A block is put behind a free one that does not touch it.
LEMMA PutApart ==
  ASSUME NEW F, Sound(F), NEW b \in live, live' = live \ {b}, FreeAfter(b.at),
         ~ Touched(b.at)
  PROVE  AInv'
<1> PICK h : h = b.at
  OBVIOUS
<1> PICK k : k = Behind(h)
  OBVIOUS
<1> PICK c : c = FreeAt[k]
  OBVIOUS
<1> PICK p : p = FreeAt[k - 1]
  OBVIOUS
<1> PICK B : B = Held \union F
  OBVIOUS
<1> PICK G : G = F \union {h}
  OBVIOUS
<1>1. h \in Held /\ h \notin F /\ p \in F /\ p # h /\ p < h /\ next(p) = c /\ h < c /\ c \in Nat
  <2>1. h \in Held /\ h >= avail
    BY DEF Held, FreeAfter
  <2>2. p \in F /\ p < h /\ next(p) = c /\ h < c
    BY <2>1, FreePlace
  <2>3. h \notin F
    BY <2>1 DEF Sound
  <2> QED
    BY <2>1, <2>2, <2>3, BlockWords
<1>2. /\ h \in Nat /\ h + mem[h] \in Indices /\ h + mem[h] \notin B /\ mem[h] \in Nat \ {0}
      /\ p \in Nat /\ p + mem[p] \in Indices /\ p + mem[p] \notin B /\ mem[p] \in Nat \ {0}
      /\ p + mem[p] # h + mem[h] /\ mem \in [Indices -> Int]
  <2>1. /\ h \in Nat /\ h + mem[h] \in Indices /\ h + mem[h] \notin B /\ mem[h] \in Nat \ {0}
        /\ p \in Nat /\ p + mem[p] \in Indices /\ p + mem[p] \notin B /\ mem[p] \in Nat \ {0}
    BY <1>1, BlockWords
  <2>2. h + mem[h] \in h..(h + mem[h])
    BY <2>1
  <2>3. p + mem[p] \notin h..(h + mem[h])
    BY <1>1, BlockWords
  <2>4. mem \in [Indices -> Int]
    BY DEF Sound
  <2> QED
    BY <2>1, <2>2, <2>3, <2>4
<1>3. mem' = [mem EXCEPT ![p + mem[p]] = h, ![h + mem[h]] = c] /\ avail' = avail
  BY DEF FreeAfter, linkToNext, Touched
<1>4. /\ mem' \in [Indices -> Int] /\ mem'[p + mem[p]] = h /\ mem'[h + mem[h]] = c
      /\ \A i \in Indices \ {p + mem[p], h + mem[h]} : mem'[i] = mem[i]
  BY <1>1, <1>2, <1>3
<1>5. \A x \in B : x \in Indices /\ mem'[x] = mem[x] /\ mem[x] \in Int
  BY <1>2, <1>4, BlockWords
<1>6. Granted' /\ Held' = Held \ {h}
  BY <1>5, GrantedAfter
<1>7. Held' \union G = B /\ Held' \intersect G = {}
  BY <1>1, <1>6 DEF Sound
<1>8. Tiles(Held' \union G, mem')
  <2>1. Tiles(B, mem) /\ \A x \in B : mem'[x] = mem[x]
    BY <1>5 DEF Sound
  <2>2. Tiles(B, mem')
    BY <2>1, SameTiles
  <2> QED
    BY <2>2, <1>7
<1>9. Linked(G, Links(G, mem'), avail')
  <2>1. \A x \in F \ {p} : Links(G, mem')[x] = Links(F, mem)[x]
    <3>1. ASSUME NEW x \in F \ {p} PROVE Links(G, mem')[x] = Links(F, mem)[x]
      <4>1. x \in B /\ x \in F /\ x \in G /\ x # h /\ x + mem[x] \in Indices
        BY <1>1, BlockWords
      <4>2. h + mem[h] \in h..(h + mem[h]) /\ p + mem[p] \in p..(p + mem[p])
        BY <1>2
      <4>3. x + mem[x] # h + mem[h] /\ x + mem[x] # p + mem[p]
        BY <4>1, <4>2, <1>1, BlockWords
      <4> QED
        BY <4>1, <4>3, <1>4, <1>5 DEF Links
    <3> QED
      BY <3>1
  <2>2. Links(G, mem')[p] = h /\ Links(G, mem')[h] = c
    BY <1>1, <1>4, <1>5 DEF Links
  <2>3. c = Links(F, mem)[p] /\ Linked(F, Links(F, mem), avail) /\ Places(F)
    BY <1>1, BlockWords DEF Sound
  <2> PICK w : w = Links(G, mem')
    OBVIOUS
  <2> PICK n : n = Links(F, mem)
    OBVIOUS
  <2>4. w[p] = h /\ w[h] = n[p] /\ \A x \in F \ {p} : w[x] = n[x]
    BY <2>1, <2>2, <2>3
  <2>5. Before(p, h) /\ Before(h, n[p]) /\ Place(h) /\ Linked(F, n, avail)
    BY <2>3, <1>1, <1>2 DEF Before, Place
  <2>b. p \in F /\ Places(F)
    BY <2>3, <1>1
  <2>6. Linked(G, w, avail)
    BY <2>4, <2>5, <2>b, LinkAfter
  <2> QED
    BY <2>6, <1>3
<1> QED
  BY <1>4, <1>6, <1>7, <1>8, <1>9, SoundAfter

\* A block joins the free one before it, which may then join the next.
LEMMA PutJoined ==
  ASSUME NEW F, Sound(F), NEW b \in live, live' = live \ {b}, FreeAfter(b.at),
         Touched(b.at)
  PROVE  AInv'
<1> PICK h : h = b.at
  OBVIOUS
<1> PICK k : k = Behind(h)
  OBVIOUS
<1> PICK c : c = FreeAt[k]
  OBVIOUS
<1> PICK p : p = FreeAt[k - 1]
  OBVIOUS
<1> PICK B : B = Held \union F
  OBVIOUS
<1>1. /\ h \in Held /\ h \notin F /\ p \in F /\ p # h /\ p < h /\ next(p) = c /\ h < c /\ c \in Nat
      /\ c \in F \union {memSize} /\ c = Links(F, mem)[p]
  <2>1. h \in Held /\ h >= avail
    BY DEF Held, FreeAfter
  <2>2. p \in F /\ p < h /\ next(p) = c /\ h < c
    BY <2>1, FreePlace
  <2>3. h \notin F
    BY <2>1 DEF Sound
  <2> QED
    BY <2>1, <2>2, <2>3, BlockWords
<1>2. /\ h \in Nat /\ h + mem[h] \in Indices /\ h + mem[h] \notin B /\ mem[h] \in Nat \ {0}
      /\ p \in Nat /\ p \in Indices /\ mem[p] \in Nat \ {0}
  BY <1>1, BlockWords
<1>2a. h = p + mem[p] + 1
  BY <1>1 DEF Touched, linkToNext
<1>2c. h - p - mem[p] = 1
  BY <1>2, <1>2a
<1>2b. mem \in [Indices -> Int] /\ Tiles(B, mem) /\ p \in B /\ h \in B
  BY <1>1 DEF Sound
<1>3. Linked(F, Links(F, mem), avail) /\ Places(F) /\ avail' = avail
  BY BlockWords DEF Sound, FreeAfter
<1>4. \A x \in B : x \in Indices /\ mem[x] \in Int
  BY BlockWords
<1>5. ASSUME NEW x \in F \ {p}
      PROVE  x + mem[x] # h + mem[h] /\ x + mem[x] # p /\ x + mem[x] \in Indices
  <2>1. h + mem[h] \in h..(h + mem[h])
    BY <1>2
  <2>2. x \in B /\ x # h /\ h \in B /\ p \in B
    BY <1>1
  <2>3. x + mem[x] \in Indices /\ x + mem[x] \notin B /\ x + mem[x] \notin h..(h + mem[h])
    BY <2>2, BlockWords
  <2> QED
    BY <2>1, <2>2, <2>3
<1>6. CASE h + mem[h] + 1 = c /\ c < memSize
  <2> PICK G : G = F \ {c}
    OBVIOUS
  <2>1. mem' = [mem EXCEPT ![p] = mem[p] + mem[h] + 1 + mem[c] + 1]
    <3>1. ~ linkToNext(p) + 1 # h /\ linkToNext(h) + 1 = c
      BY <1>2a, <1>6 DEF linkToNext
    <3> QED
      BY <3>1, <1>6 DEF FreeAfter, blockSize
  <2>2. c \in F /\ c # p /\ c # h /\ mem[c] \in Nat \ {0}
    <3>1. c # memSize
      BY <1>1, <1>6, BlockWords
    <3>2. c # p /\ c # h
      <4>1. c \in Nat /\ h < c /\ p < h /\ h \in Nat /\ p \in Nat
        BY <1>1, <1>2
      <4> QED
        BY <4>1
    <3> QED
      BY <3>1, <3>2, <1>1, BlockWords
  <2>3. /\ mem' \in [Indices -> Int] /\ mem'[p] = mem[p] + mem[h] + 1 + mem[c] + 1
        /\ \A i \in Indices \ {p} : mem'[i] = mem[i]
    <3> PICK z : z = mem[p] + mem[h] + 1 + mem[c] + 1
      OBVIOUS
    <3>1. z \in Int
      BY <1>2, <2>2
    <3>2. mem' = [mem EXCEPT ![p] = z] /\ p \in Indices
      BY <1>2, <2>1
    <3>3. mem' \in [Indices -> Int] /\ mem'[p] = z /\ \A i \in Indices \ {p} : mem'[i] = mem[i]
      BY <3>1, <3>2, <1>2b
    <3> QED
      BY <3>3
  <2>4. Granted' /\ Held' = Held \ {h}
    <3>1. \A x \in Held \ {h} : x \in Indices /\ x # p /\ mem[x] \in Int
      BY <1>1, <1>4 DEF Sound
    <3> QED
      BY <3>1, <2>3, GrantedAfter
  <2>5. Tiles(Held' \union G, mem')
    <3> PICK z : z = mem[p] + mem[h] + 1
      OBVIOUS
    <3>w. PICK w : w = [mem EXCEPT ![p] = z]
      OBVIOUS
    <3> PICK C : C = B \ {h}
      OBVIOUS
    <3> PICK D : D = C \ {c}
      OBVIOUS
    <3>1. w[p] = z /\ \A x \in B \ {p} : w[x] = mem[x]
      BY <3>w, <1>2b, <1>4, <1>2
    <3>2. Joined(p, h, mem, w) /\ \A x \in B \ {p, h} : w[x] = mem[x]
      BY <3>1, <1>2a DEF Joined
    <3>3. Tiles(C, w)
      BY <3>2, <1>2b, JoinTiles
    <3>4. c \in B /\ c \in C /\ p \in C /\ w[c] = mem[c]
      BY <3>1, <1>1, <1>2b, <2>2
    <3>5. Joined(p, c, w, mem')
      <4>1. JoinedThree(p, h, c, mem, mem')
        BY <1>6, <2>3 DEF JoinedThree
      <4>2. Place(p) /\ Place(mem[p]) /\ Place(mem[h]) /\ Place(mem[c])
        BY <1>2, <2>2 DEF Place
      <4>3. w[c] = mem[c]
        BY <3>4
      <4> QED
        BY <3>2, <4>1, <4>2, <4>3, JoinedTwice
    <3>6. \A x \in C \ {p, c} : mem'[x] = w[x]
      BY <3>1, <1>4, <2>3
    <3> PICK v : v = mem'
      OBVIOUS
    <3>7. Joined(p, c, w, v) /\ \A x \in C \ {p, c} : v[x] = w[x]
      BY <3>5, <3>6
    <3>9. c \in C /\ p \in C
      BY <3>4
    <3>10. Tiles(D, v)
      BY <3>3, <3>7, <3>9, JoinTiles
    <3>8. D = Held' \union G
      BY <1>1, <2>2, <2>4 DEF Sound
    <3> QED
      BY <3>8, <3>10
  <2>6. Held' \intersect G = {}
    BY <2>4 DEF Sound
  <2>7. Linked(G, Links(G, mem'), avail')
    <3>1. \A x \in F \ {p, c} : Links(G, mem')[x] = Links(F, mem)[x]
      <4>1. ASSUME NEW x \in F \ {p, c} PROVE Links(G, mem')[x] = Links(F, mem)[x]
        <5>1. x \in F /\ x \in G /\ mem'[x] = mem[x] /\ mem'[x + mem[x]] = mem[x + mem[x]]
          BY <1>4, <1>5, <2>3
        <5> QED
          BY <5>1 DEF Links
      <4> QED
        BY <4>1
    <3>2. Links(G, mem')[p] = Links(F, mem)[c]
      <4>1. p + mem'[p] = c + mem[c]
        <5> PICK z : z = mem[p] + mem[h] + 1 /\ z \in Int
          BY <1>2
        <5>1. mem'[p] - z - mem[c] = 1 /\ mem'[p] \in Int
          BY <1>2, <2>2, <2>3
        <5>2. c - p - z = 1
          BY <1>1, <1>2, <1>2c, <1>6
        <5>3. c \in Int /\ p \in Int /\ mem[c] \in Int
          BY <1>1, <1>2, <2>2
        <5> QED
          BY <5>1, <5>2, <5>3
      <4>2. c + mem[c] \in Indices /\ c + mem[c] # p
        BY <1>5, <2>2
      <4> QED
        BY <4>1, <4>2, <1>1, <2>2, <2>3 DEF Links
    <3> PICK w : w = Links(G, mem')
      OBVIOUS
    <3> PICK n : n = Links(F, mem)
      OBVIOUS
    <3>3. /\ w[p] = n[n[p]] /\ \A x \in F \ {p, n[p]} : w[x] = n[x]
          /\ n[p] \in F /\ G = F \ {n[p]} /\ Linked(F, n, avail)
      BY <3>1, <3>2, <1>1, <1>3, <2>2
    <3>a. Places(F) /\ p \in F
      BY <1>1, <1>3
    <3>4. Linked(G, w, avail)
      BY <3>3, <3>a, UnlinkAfter
    <3> QED
      BY <3>4, <1>3
  <2> QED
    BY <2>3, <2>4, <2>5, <2>6, <2>7, SoundAfter
<1>7. CASE ~ (h + mem[h] + 1 = c /\ c < memSize)
  <2>1. mem' = [mem EXCEPT ![p] = mem[p] + mem[h] + 1, ![h + mem[h]] = c]
    <3>1. ~ linkToNext(p) + 1 # h /\ linkToNext(h) = h + mem[h]
      BY <1>2a DEF linkToNext
    <3> QED
      BY <3>1, <1>7 DEF FreeAfter, blockSize
  <2>2. h + mem[h] # p
    BY <1>2, <1>2b
  <2>3. /\ mem' \in [Indices -> Int] /\ mem'[p] = mem[p] + mem[h] + 1 /\ mem'[h + mem[h]] = c
        /\ \A i \in Indices \ {p, h + mem[h]} : mem'[i] = mem[i]
    <3> PICK l : l = h + mem[h]
      OBVIOUS
    <3> PICK z : z = mem[p] + mem[h] + 1
      OBVIOUS
    <3>a. z \in Int /\ c \in Int /\ l # p /\ l \in Indices /\ p \in Indices
      BY <1>1, <1>2, <2>2
    <3>1. mem' = [mem EXCEPT ![p] = z, ![l] = c]
      BY <2>1
    <3>2. /\ mem' \in [Indices -> Int] /\ mem'[p] = z /\ mem'[l] = c
          /\ \A i \in Indices \ {p, l} : mem'[i] = mem[i]
      BY <3>a, <3>1, <1>2b
    <3> QED
      BY <3>2
  <2>4. Granted' /\ Held' = Held \ {h}
    <3>1. \A x \in Held \ {h} : x \in Indices /\ x # p /\ mem[x] \in Int /\ x # h + mem[h]
      BY <1>1, <1>2, <1>4 DEF Sound
    <3> QED
      BY <3>1, <2>3, GrantedAfter
  <2>5. Tiles(Held' \union F, mem')
    <3>1. \A x \in B \ {p, h} : mem'[x] = mem[x]
      BY <1>2, <1>4, <2>3
    <3> PICK C : C = B \ {h}
      OBVIOUS
    <3>a. Joined(p, h, mem, mem')
      BY <1>2a, <2>3 DEF Joined
    <3>2. Tiles(C, mem')
      BY <3>a, <3>1, <1>2b, JoinTiles
    <3>3. C = Held' \union F
      BY <1>1, <2>4
    <3> QED
      BY <3>2, <3>3
  <2>6. Held' \intersect F = {}
    BY <2>4 DEF Sound
  <2>7. Linked(F, Links(F, mem'), avail')
    <3>1. ASSUME NEW x \in F PROVE mem'[x + mem'[x]] = mem[x + mem[x]]
      <4>1. CASE x = p
        <5>1. x + mem'[x] = h + mem[h]
          <6>1. mem'[p] = mem[p] + mem[h] + 1
            BY <2>3
          <6> QED
            BY <6>1, <4>1, <1>2, <1>2c
        <5> QED
          BY <5>1, <4>1, <1>1, <2>3 DEF next, linkToNext
      <4>2. CASE x # p
        <5>1. x \in B /\ x # h + mem[h]
          BY <1>2
        <5>2. mem'[x] = mem[x]
          BY <4>2, <5>1, <1>4, <2>3
        <5> QED
          BY <4>2, <5>2, <1>5, <2>3
      <4> QED
        BY <4>1, <4>2
    <3>2. Links(F, mem') = Links(F, mem)
      BY <3>1 DEF Links
    <3> QED
      BY <3>2, <1>3
  <2> QED
    BY <2>3, <2>4, <2>5, <2>6, <2>7, SoundAfter
<1> QED
  BY <1>6, <1>7

-----------------------------------------------------------------------------
(* The theorems *)

LEMMA AllocatorInit == meminit => AInv
<1> SUFFICES ASSUME meminit PROVE Sound({0})
  BY DEF AInv
<1>1. /\ mem = [i \in Indices |-> IF i = 0 THEN memSize - 1
                                  ELSE IF i = memSize - 1 THEN memSize ELSE ClientData]
      /\ avail = 0 /\ live = {} /\ memSize \in Nat /\ memSize >= 2 /\ 0 \in Indices
      /\ memSize - 1 \in Indices
  BY AllocatorAssumption DEF meminit, Indices
<1>2. mem \in [Indices -> Int] /\ mem[0] = memSize - 1 /\ mem[memSize - 1] = memSize
  BY <1>1 DEF ClientData
<1>3. Held = {}
  BY <1>1 DEF Held
<1>4. Tiles(Held \union {0}, mem)
  BY <1>1, <1>2, <1>3 DEF Tiles, Indices
<1>5. Linked({0}, Links({0}, mem), avail)
  <2>1. Links({0}, mem)[0] = memSize
    BY <1>1, <1>2 DEF Links
  <2> QED
    BY <2>1, <1>1 DEF Linked, Above
<1>6. Granted
  BY <1>1 DEF Granted
<1> QED
  BY <1>2, <1>3, <1>4, <1>5, <1>6 DEF Sound

\* The blocks and the links between the free ones stay sound in every call.
LEMMA AllocatorStep == AInv /\ [AllocatorNext]_memvars => AInv'
<1> SUFFICES ASSUME AInv, [AllocatorNext]_memvars PROVE AInv'
  OBVIOUS
<1> PICK F : Sound(F)
  BY DEF AInv
<1>1. ASSUME NEW num \in 1..MaxNum, MallocFits(num) PROVE AInv'
  <2>1. num \in Nat \ {0}
    BY AllocatorAssumption
  <2> QED
    BY <1>1, <2>1, GiveWhole, GivePart
<1>2. CASE UNCHANGED <<mem, avail, live>>
  BY <1>2 DEF AInv, Sound, Held, Granted
<1>3. ASSUME NEW b \in live, live' = live \ {b}, FreeBefore(b.at) PROVE AInv'
  BY <1>3, PutBefore
<1>4. ASSUME NEW b \in live, live' = live \ {b}, FreeAfter(b.at) PROVE AInv'
  BY <1>4, PutApart, PutJoined
<1> QED
  BY <1>1, <1>2, <1>3, <1>4 DEF AllocatorNext, MallocFails, Free, memvars

\* The blocks in use and the free ones tile the memory, and the free ones are
\* linked in the order of their places, whatever the clients of malloc and free
\* (source/allocator.c) ask for and give back.
THEOREM AllocatorSound == AllocatorSpec => []AInv
<1>1. AInv /\ [AllocatorNext]_memvars => AInv'
  BY AllocatorStep
<1> QED
  BY AllocatorInit, <1>1, PTL DEF AllocatorSpec

\* Every word is in exactly one block.
LEMMA TilesMeans == AInv => BlocksTileMemory
<1> SUFFICES ASSUME AInv PROVE BlocksTileMemory
  OBVIOUS
<1> PICK F : Sound(F)
  BY DEF AInv
<1> PICK B : B = Held \union F
  OBVIOUS
<1>1. B = {b.at : b \in live} \union ({FreeAt[k] : k \in DOMAIN FreeAt} \intersect Indices)
  BY FreeBlocksAre DEF Held
<1>2. ASSUME NEW i \in Indices PROVE Cardinality({x \in B : i \in Block(x)}) = 1
  <2>1. i \in Nat
    BY AllocatorAssumption DEF Indices
  <2>2. PICK x \in B : x <= i /\ i <= x + mem[x]
    BY DEF Sound, Tiles
  <2>3. i \in Block(x)
    BY <2>1, <2>2, BlockWords DEF Block
  <2>4. ASSUME NEW y \in B, y # x PROVE i \notin Block(y)
    <3>1. \A j \in x..(x + mem[x]) : j \notin y..(y + mem[y])
      BY <2>4, InnerWords DEF Sound
    <3> QED
      BY <3>1, <2>3 DEF Block
  <2>5. {y \in B : i \in Block(y)} = {x}
    BY <2>3, <2>4
  <2> QED
    BY <2>5, FS_Singleton
<1> QED
  BY <1>1, <1>2 DEF BlocksTileMemory

\* Every word of the memory is always in exactly one block, in use or free:
\* malloc and free (source/allocator.c) give no word out twice and lose none.
THEOREM MemoryTiled == AllocatorSpec => []BlocksTileMemory
BY AllocatorSound, TilesMeans, PTL

\* What a client is given is what the heap may give.
LEMMA MallocIsMalloc ==
  ASSUME AInv, AInv', NEW num \in Nat \ {0}, MallocFits(num)
  PROVE  AbstractHeap!Malloc
<1> PICK F : Sound(F)
  BY DEF AInv
<1> PICK c : c = FreeAt[Foremost(Fits(num))]
  OBVIOUS
<1> PICK G : Sound(G)'
  BY DEF AInv
<1>1. live' = live \union {[at |-> c, asked |-> num]} /\ c \notin Held
  <2>1. c \in F
    BY MallocPlace DEF MallocFits
  <2> QED
    BY <2>1 DEF MallocFits, Sound
<1>2. /\ Tiles(Held' \union G, mem') /\ Granted' /\ live' \subseteq [at : Indices, asked : Nat \ {0}]
      /\ \A b \in live' : b.asked <= mem'[b.at]
      /\ Held' = {b.at : b \in live'}
  BY DEF Sound, Granted, Held
<1>3. /\ c \in Held' /\ c \in Nat /\ num <= mem'[c] /\ mem'[c] \in Nat \ {0} /\ c + mem'[c] < memSize
      /\ memSize \in Nat
  <2>1. c \in Held' /\ num <= mem'[c]
    <3> PICK d : d = [at |-> c, asked |-> num]
      OBVIOUS
    <3>1. d \in live' /\ d.at = c /\ d.asked = num
      BY <1>1
    <3> QED
      BY <3>1, <1>2
  <2> QED
    BY <2>1, <1>2, AllocatorAssumption DEF Tiles, Indices
<1> DEFINE Taken == {[at |-> b.at + 1, size |-> b.asked] : b \in live}
           new == [at |-> c + 1, size |-> num]
<1>4. ASSUME NEW i \in 0..(memSize - 1), AbstractHeap!Covers(new, i), NEW o \in Taken,
             AbstractHeap!Covers(o, i)
      PROVE  FALSE
  <2>1. PICK b \in live : o = [at |-> b.at + 1, size |-> b.asked]
    OBVIOUS
  <2>2. b \in live' /\ b.at \in Held' /\ b.at \in Held
    BY <1>1, <1>2 DEF Held
  <2>3. b.asked \in Nat /\ b.at \in Nat /\ b.asked <= mem'[b.at] /\ mem'[b.at] \in Nat
    BY <2>2, <1>2, AllocatorAssumption DEF Tiles, Indices
  <2>4. i \in c..(c + mem'[c])
    BY <1>3, <1>4 DEF AbstractHeap!Covers
  <2>5. b.at + 1 <= i /\ i < b.at + 1 + b.asked
    BY <2>1, <1>4 DEF AbstractHeap!Covers
  <2>6. i \in (b.at)..(b.at + mem'[b.at])
    BY <2>3, <2>5, <1>3
  <2>7. b.at # c
    BY <2>2, <1>1
  <2> QED
    BY <2>2, <2>4, <2>6, <2>7, <1>2, <1>3, InnerWords
<1>5. {[at |-> b.at + 1, size |-> b.asked] : b \in live'} = Taken \union {new}
  <2> DEFINE as(d) == [at |-> d.at + 1, size |-> d.asked]
  <2> PICK d : d = [at |-> c, asked |-> num]
    OBVIOUS
  <2>1. as(d) = new /\ live' = live \union {d} /\ Taken = {as(b) : b \in live}
    BY <1>1
  <2> HIDE DEF as, Taken, new
  <2>2. {as(b) : b \in live'} = Taken \union {new}
    BY <2>1
  <2> QED
    BY <2>2 DEF as
<1>6. new.at \in 0..(memSize - 1) /\ new.size \in 1..memSize /\ new.at + new.size <= memSize
  BY <1>3
<1> QED
  <2>1. \A i \in 0..(memSize - 1) : AbstractHeap!Covers(new, i) => \A o \in Taken : ~ AbstractHeap!Covers(o, i)
    BY <1>4
  <2>2. new = [at |-> c + 1, size |-> num] /\ c + 1 \in 0..(memSize - 1) /\ num \in 1..memSize
        /\ c + 1 + num <= memSize
    BY <1>6
  <2> QED
    BY <2>1, <2>2, <1>5 DEF AbstractHeap!Malloc

\* A block that is freed is the heap's again.
LEMMA FreeIsFree ==
  ASSUME AInv, Free
  PROVE  AbstractHeap!Free
<1> PICK F : Sound(F)
  BY DEF AInv
<1>1. PICK b \in live : live' = live \ {b}
  BY DEF Free
<1>2. \A d \in live : d.at \in Nat /\ (d.at = b.at => d = b)
  BY AllocatorAssumption DEF Sound, Granted, Indices
<1> DEFINE as(d) == [at |-> d.at + 1, size |-> d.asked]
<1>3. \A d \in live : as(d) = as(b) => d = b
  <2>1. ASSUME NEW d \in live, as(d) = as(b) PROVE d = b
    <3>1. d.at + 1 = b.at + 1
      BY <2>1
    <3> QED
      BY <3>1, <1>2
  <2> QED
    BY <2>1
<1> HIDE DEF as
<1>4. {as(d) : d \in live'} = {as(d) : d \in live} \ {as(b)}
  BY <1>1, <1>3
<1> QED
  BY <1>4 DEF as, AbstractHeap!Free

\* malloc and free (source/allocator.c) keep the promise of a heap: a block of
\* the size that was asked for, within the memory, that shares no word with
\* another block in use.
THEOREM AllocatorIsHeap == AllocatorSpec => ImplementsHeap
<1>1. meminit => AbstractHeap!Init
  BY DEF meminit, AbstractHeap!Init
<1>2. AInv /\ AInv' /\ [AllocatorNext]_memvars
      => [AbstractHeap!Next]_({[at |-> b.at + 1, size |-> b.asked] : b \in live})
  <2> SUFFICES ASSUME AInv, AInv', [AllocatorNext]_memvars
               PROVE  [AbstractHeap!Next]_({[at |-> b.at + 1, size |-> b.asked] : b \in live})
    OBVIOUS
  <2>1. ASSUME NEW num \in 1..MaxNum, MallocFits(num) PROVE AbstractHeap!Next
    <3>1. num \in Nat \ {0}
      BY AllocatorAssumption
    <3> QED
      BY <2>1, <3>1, MallocIsMalloc DEF AbstractHeap!Next
  <2>2. CASE Free
    BY <2>2, FreeIsFree DEF AbstractHeap!Next
  <2>3. CASE UNCHANGED live
    BY <2>3
  <2> QED
    BY <2>1, <2>2, <2>3 DEF AllocatorNext, MallocFails, memvars
<1> QED
  BY AllocatorSound, <1>1, <1>2, PTL DEF AllocatorSpec, ImplementsHeap, AbstractHeap!Spec
=============================================================================
