---------------------------- MODULE RecursiveLock ----------------------------
(***************************************************************************)
(* RecursiveLock_Lock and RecursiveLock_Unlock over the LightLock of       *)
(* module LightLock, every step of which is a step here.  thread_tag is    *)
(* read before the lock is taken and written while it is held.             *)
(***************************************************************************)
EXTENDS LightLock

CONSTANTS
  NoThread,    \* the tag 0
  MaxDepth     \* bound: how often a thread takes the lock before giving it back

ASSUME RLAssumption == NoThread \notin Threads /\ MaxDepth \in Nat \ {0}

VARIABLES
  thread_tag, counter,  \* RecursiveLock
  rpc,         \* where each thread is in RecursiveLock_Lock / _Unlock
  nest         \* how many of its RecursiveLock_Lock calls have returned and
               \* have not been undone

rlvars == <<thread_tag, counter, rpc, nest>>
rvars == <<llvars, rlvars>>

RInit ==
  /\ LLInit
  /\ thread_tag = NoThread /\ counter = 0
  /\ rpc = [t \in Threads |-> "idle"]
  /\ nest = [t \in Threads |-> 0]

RGoto(t, l) == rpc' = [rpc EXCEPT ![t] = l]

-----------------------------------------------------------------------------
(* RecursiveLock_Lock *)

RLockCall(t) ==
  /\ rpc[t] = "idle" /\ nest[t] < MaxDepth
  /\ RGoto(t, "test")
  /\ UNCHANGED <<llvars, thread_tag, counter, nest>>

\* Mutant: any tag is taken for the thread's own.
BugTestTag(t) ==
  /\ rpc[t] = "test"
  /\ RGoto(t, IF thread_tag = NoThread THEN "enter" ELSE "count")
  /\ UNCHANGED <<llvars, thread_tag, counter, nest>>

TestTag(t) ==
  /\ rpc[t] = "test"
  /\ RGoto(t, IF thread_tag # t THEN "enter" ELSE "count")
  /\ UNCHANGED <<llvars, thread_tag, counter, nest>>

\* LightLock_Lock: called here, and back when the thread holds the LightLock.
EnterLight(t) ==
  /\ rpc[t] = "enter"
  /\ \/ LockCall(t) /\ UNCHANGED rlvars
     \/ pc[t] = "held" /\ RGoto(t, "tag") /\ UNCHANGED <<llvars, thread_tag, counter, nest>>

SetTag(t) ==
  /\ rpc[t] = "tag"
  /\ thread_tag' = t
  /\ RGoto(t, "count")
  /\ UNCHANGED <<llvars, counter, nest>>

CountUp(t) ==
  /\ rpc[t] = "count"
  /\ counter' = counter + 1
  /\ nest' = [nest EXCEPT ![t] = @ + 1]
  /\ RGoto(t, "idle")
  /\ UNCHANGED <<llvars, thread_tag>>

-----------------------------------------------------------------------------
(* RecursiveLock_Unlock, called by a thread that has locked *)

RUnlockCall(t) ==
  /\ rpc[t] = "idle" /\ nest[t] > 0
  /\ nest' = [nest EXCEPT ![t] = @ - 1]
  /\ RGoto(t, "uncount")
  /\ UNCHANGED <<llvars, thread_tag, counter>>

CountDown(t) ==
  /\ rpc[t] = "uncount"
  /\ counter' = counter - 1
  /\ RGoto(t, IF counter = 1 THEN "untag" ELSE "idle")
  /\ UNCHANGED <<llvars, thread_tag, nest>>

\* Mutant: the tag stays.
BugTagStays(t) ==
  /\ rpc[t] = "untag"
  /\ RGoto(t, "leave")
  /\ UNCHANGED <<llvars, thread_tag, counter, nest>>

ClearTag(t) ==
  /\ rpc[t] = "untag"
  /\ thread_tag' = NoThread
  /\ RGoto(t, "leave")
  /\ UNCHANGED <<llvars, counter, nest>>

LeaveLight(t) ==
  /\ rpc[t] = "leave"
  /\ \/ UnlockCall(t) /\ UNCHANGED rlvars
     \/ pc[t] = "idle" /\ RGoto(t, "idle") /\ UNCHANGED <<llvars, thread_tag, counter, nest>>

-----------------------------------------------------------------------------
\* What LightLock does between the call and the return.
LightStep(t) == (Lock(t) \/ Unlock(t) \/ LoseReservation(t)) /\ UNCHANGED rlvars

\* What a thread does in RecursiveLock once it has called it.
RStep(t) ==
  \/ TestTag(t)   \/ EnterLight(t) \/ SetTag(t) \/ CountUp(t)
  \/ CountDown(t) \/ ClearTag(t)   \/ LeaveLight(t)

RNext ==
  \E t \in Threads : RLockCall(t) \/ RUnlockCall(t) \/ RStep(t) \/ LightStep(t)

\* Every running thread keeps running, and stores as module LightLock says.  An
\* outermost critical section ends, however often a thread nests in it.
RFairness ==
  \A t \in Threads :
    /\ WF_rvars(RStep(t)) /\ SF_rvars(nest[t] = 1 /\ RUnlockCall(t))
    /\ WF_rvars(Lock(t) /\ UNCHANGED rlvars) /\ WF_rvars(Unlock(t) /\ UNCHANGED rlvars)
    /\ SF_rvars(Store(t) /\ UNCHANGED rlvars)

RSpec == RInit /\ [][RNext]_rvars /\ RFairness

-----------------------------------------------------------------------------
(* Properties *)

\* The tag is read without the lock, while another thread may be writing it.
\* It says "mine" to a thread exactly when that thread holds the lock.
TagReadIsOwn ==
  \A t \in Threads : rpc[t] = "test" => (thread_tag = t <=> nest[t] > 0)

\* RecursiveLock implements a reentrant lock.  It is taken when the counter
\* leaves 0 and free when the counter is back at 0.
Reentrant == INSTANCE ReentrantLock
  WITH owner <- IF counter = 0 THEN NoThread ELSE thread_tag, depth <- counter

ImplementsReentrant == Reentrant!Spec
=============================================================================
