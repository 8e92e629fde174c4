------------------------- MODULE SessionManagerProofs -------------------------
(***************************************************************************)
(* Theorems about SessionManager, for any number of places and sessions.   *)
(*                                                                         *)
(* A place is taken twice: its session is in the table until the thread    *)
(* zeroes it, its thread until freeThread has waited for it.  The thread   *)
(* outlives the session, so the stack is safe because the place's next     *)
(* thread is started only after freeThread, and the session because the    *)
(* place is filled only when it was found to be 0, which nobody but        *)
(* AM_Main changes.                                                        *)
(***************************************************************************)
EXTENDS SessionManager, TLAPS

MainLabels == {"wait", "scan", "free", "start", "store", "fault", "join", "unregister", "done"}
ThreadLabels == {"none", "receive", "handle", "close", "zero", "exit", "exited"}
Serving(s) == t[s].pc \in {"receive", "handle", "close", "zero"} /\ t[s].place # NULL

STypeOK ==
  /\ session \in [Places -> Ids \union {0}]
  /\ thread \in [Places -> Ids \union {0}]
  /\ port \in Seq(Ids)
  /\ client \in [Ids -> {"none", "open", "closed"}]
  /\ t \in [Ids -> [pc : ThreadLabels, place : Places \union {NULL}, stack : Places]]
  /\ main \in [pc : MainLabels, new : Ids \union {0}, i : Places \union {NULL}]

\* AM_Main has accepted a session and has no thread for it yet.
Accepting == main.pc \in {"scan", "free", "start"}

\* A session is connected, accepted and given a thread once.
StartedOnce ==
  /\ \A j, k \in DOMAIN port : port[j] = port[k] => j = k
  /\ \A k \in DOMAIN port : client[port[k]] # "none" /\ t[port[k]].pc = "none"
  /\ Accepting =>
       /\ main.new \in Ids /\ client[main.new] # "none" /\ t[main.new].pc = "none"
       /\ \A k \in DOMAIN port : port[k] # main.new
  /\ \A s \in Ids : client[s] = "none" => t[s].pc = "none"

\* The place that AM_Main has found, or none.
FoundPlace ==
  /\ main.pc \in {"free", "join"} => main.i \in Places
  /\ main.pc = "free" => session[main.i] = 0
  /\ main.pc \in {"start", "store"} /\ main.i \in Places => thread[main.i] = 0
  /\ main.pc = "start" /\ main.i \in Places => session[main.i] = main.new
  /\ main.pc = "store" =>
       main.new \in Ids /\ t[main.new].pc # "none" /\ t[main.new].place = main.i

\* A place's session and the thread that serves it name each other.
SessionIsServed ==
  /\ \A s \in Ids : Serving(s) => session[t[s].place] = s
  /\ \A i \in Places : session[i] # 0 =>
       \/ main.pc = "start" /\ main.i = i
       \/ Serving(session[i]) /\ t[session[i]].place = i

\* A running thread can be waited for by its place, or is about to be stored.
\* Without a place it waits for a message on no session.
ThreadIsKnown ==
  \A s \in Ids : Alive(s) =>
    IF t[s].place = NULL THEN t[s].pc = "receive"
    ELSE /\ t[s].stack = t[s].place
         /\ thread[t[s].place] = s \/ (main.pc = "store" /\ main.new = s)

SInv == STypeOK /\ StartedOnce /\ FoundPlace /\ SessionIsServed /\ ThreadIsKnown

-----------------------------------------------------------------------------
\* The first session has not come.
LEMMA SInitInv == Init => SInv
BY SessionsAssumption
DEF Init, SInv, STypeOK, StartedOnce, FoundPlace, SessionIsServed, ThreadIsKnown, Places, Ids, NULL,
    MainLabels, ThreadLabels, Accepting, Serving, Alive

\* What clients do is seen by the module only in the port.
LEMMA ClientStep ==
  ASSUME SInv, NEW s \in Ids, Connect(s) \/ SendCommand(s) \/ Close(s)
  PROVE  SInv'
<1> USE DEF SInv, STypeOK, StartedOnce, Accepting
<1>1. UNCHANGED <<session, thread, t, main>>
  BY DEF Connect, SendCommand, Close
<1>2. FoundPlace' /\ SessionIsServed' /\ ThreadIsKnown'
  BY <1>1 DEF FoundPlace, SessionIsServed, ThreadIsKnown, Serving, Alive, Current
<1>3. CASE Connect(s)
  <2>1. /\ port' = Append(port, s) /\ client' = [client EXCEPT ![s] = "open"] /\ client[s] = "none"
    BY <1>3 DEF Connect
  <2>2. /\ port' \in Seq(Ids)
        /\ \A k \in DOMAIN port' :
             \/ k = Len(port) + 1 /\ port'[k] = s
             \/ k \in DOMAIN port /\ port'[k] = port[k]
    BY <2>1
  <2>q. QED
    BY <1>1, <1>2, <2>1, <2>2
<1>4. CASE SendCommand(s) \/ Close(s)
  <2>1. port' = port /\ (client' = client \/ (client' = [client EXCEPT ![s] = "closed"] /\ client[s] = "open"))
    BY <1>4 DEF SendCommand, Close
  <2>q. QED
    BY <1>1, <1>2, <2>1, SMTT(60)
<1>q. QED
  BY <1>3, <1>4

\* Session numbers begin with 1, and NULL is no place.
LEMMA Names ==
  /\ 0 \notin Ids /\ NULL \notin Places
  /\ 0 \in Places /\ MaxTotal \in Places
  /\ \A i \in Places : i # MaxTotal => i + 1 \in Places
  /\ \A i \in Places : i + 1 \in Places \union {NULL}
BY SessionsAssumption DEF Ids, Places, NULL

\* A step of AM_Main that leaves sessions, threads and port alone keeps the
\* invariant if what it says of AM_Main's place stays true.
LEMMA MainMoves ==
  ASSUME SInv, UNCHANGED <<session, port, client, t>>, STypeOK', FoundPlace',
         Accepting' => Accepting /\ main'.new = main.new,
         \A i \in Places : main.pc = "start" /\ main.i = i /\ session[i] # 0 =>
           (main'.pc = "start" /\ main'.i = i) \/ (Serving(session[i]) /\ t[session[i]].place = i),
         \A s \in Ids : Alive(s) /\ t[s].place # NULL
                        /\ (thread[t[s].place] = s \/ (main.pc = "store" /\ main.new = s)) =>
           thread'[t[s].place] = s \/ (main'.pc = "store" /\ main'.new = s)
  PROVE  SInv'
<1> USE DEF SInv
<1>1. StartedOnce'
  BY DEF StartedOnce, Accepting
<1>2. SessionIsServed'
  BY DEF SessionIsServed, Serving
<1>3. ThreadIsKnown'
  BY DEF ThreadIsKnown, Alive
<1>q. QED
  BY <1>1, <1>2, <1>3

\* What AM_Main does to accept a session, and at the end.
LEMMA MainStep ==
  ASSUME SInv, Main \/ Terminate \/ StartPipeThread \/ PipeThreadExits
  PROVE  SInv'
<1> USE Names
<1> USE DEF SInv, STypeOK, MainLabels
<1>1. CASE Accept
  <2>1. /\ port # <<>> /\ port' = Tail(port) /\ main' = [pc |-> "scan", new |-> Head(port), i |-> 0]
        /\ main.pc = "wait"
        /\ UNCHANGED <<session, thread, client, t>>
    BY <1>1 DEF Accept
  <2>2. /\ port' \in Seq(Ids) /\ Head(port) = port[1] /\ 1 \in DOMAIN port /\ Head(port) \in Ids
        /\ \A k \in DOMAIN port' : k \in Nat /\ k + 1 \in DOMAIN port /\ k + 1 # 1 /\ port'[k] = port[k + 1]
    BY <2>1
  <2>3. STypeOK'
    BY <2>1, <2>2
  <2>4. StartedOnce'
    BY <2>1, <2>2 DEF StartedOnce, Accepting
  <2>5. FoundPlace' /\ SessionIsServed' /\ ThreadIsKnown'
    BY <2>1 DEF FoundPlace, SessionIsServed, ThreadIsKnown, Serving, Alive
  <2>q. QED
    BY <2>3, <2>4, <2>5
<1>2. CASE ScanPlace
  <2>1. /\ UNCHANGED <<session, thread, port, client, t>>
        /\ main.pc = "scan" /\ main'.new = main.new
        /\ \/ main'.pc = "scan"
           \/ main'.pc = "free" /\ main'.i \in Places /\ session[main'.i] = 0
           \/ main'.pc = "start" /\ main'.i = NULL
    BY <1>2 DEF ScanPlace
  <2>2. STypeOK'
    BY <1>2, <2>1 DEF ScanPlace
  <2>3. FoundPlace'
    BY <2>1, <2>2 DEF FoundPlace
  <2>q. QED
    BY <2>1, <2>2, <2>3, MainMoves DEF Accepting
<1>3. CASE FreeThread
  <2>1. /\ UNCHANGED <<port, client, t>> /\ main.pc = "free" /\ main.i \in Places /\ main.new \in Ids
        /\ thread[main.i] # 0 => ~Alive(thread[main.i])
        /\ thread' = [thread EXCEPT ![main.i] = 0]
        /\ session' = [session EXCEPT ![main.i] = main.new] /\ session[main.i] = 0
        /\ main' = [main EXCEPT !.pc = "start"]
    BY <1>3 DEF FreeThread, FoundPlace, StartedOnce, Accepting
  <2>2. STypeOK'
    BY <2>1
  <2>3. StartedOnce' /\ FoundPlace'
    BY <2>1 DEF StartedOnce, FoundPlace, Accepting
  <2>4. \A s \in Ids : Serving(s) => t[s].place # main.i
    BY <2>1 DEF SessionIsServed
  <2>5. SessionIsServed'
    BY <2>1, <2>4 DEF SessionIsServed, Serving
  <2>6. \A s \in Ids : Alive(s) /\ t[s].place # NULL => t[s].place # main.i
    BY <2>1 DEF ThreadIsKnown
  <2>7. ThreadIsKnown'
    BY <2>1, <2>6 DEF ThreadIsKnown, Alive
  <2>q. QED
    BY <2>2, <2>3, <2>5, <2>7
<1>4. CASE StartThread
  <2>1. PICK stack \in Places :
          /\ main.i # NULL => stack = main.i
          /\ t' = [t EXCEPT ![main.new] = [pc |-> "receive", place |-> main.i, stack |-> stack]]
    BY <1>4 DEF StartThread
  <2>2. /\ main.pc = "start" /\ main' = [main EXCEPT !.pc = "store"]
        /\ main.new \in Ids /\ t[main.new].pc = "none" /\ client[main.new] # "none"
        /\ \A k \in DOMAIN port : port[k] # main.new
        /\ UNCHANGED <<session, thread, port, client>>
    BY <1>4 DEF StartThread, StartedOnce, Accepting
  <2>3. t'[main.new] = [pc |-> "receive", place |-> main.i, stack |-> stack]
    BY <2>1, <2>2
  <2>4. \A s \in Ids : s # main.new => t'[s] = t[s]
    BY <2>1, <2>2
  <2>5. STypeOK'
    BY <2>1, <2>2 DEF ThreadLabels
  <2>6. StartedOnce'
    BY <2>2, <2>4 DEF StartedOnce, Accepting
  <2>7. FoundPlace'
    BY <2>2, <2>3 DEF FoundPlace
  <2>8. ~Serving(main.new) /\ ~Alive(main.new)
    BY <2>2 DEF Serving, Alive
  <2>9. SessionIsServed'
    <3>1. ASSUME NEW s \in Ids, Serving(s)' PROVE session[t'[s].place] = s
      <4>1. CASE s = main.new
        BY <2>2, <2>3, <3>1, <4>1 DEF FoundPlace, Serving
      <4>2. CASE s # main.new
        BY <2>4, <3>1, <4>2 DEF SessionIsServed, Serving
      <4>q. QED
        BY <4>1, <4>2
    <3>2. ASSUME NEW i \in Places, session[i] # 0
          PROVE  Serving(session[i])' /\ t'[session[i]].place = i
      <4>1. CASE main.i = i
        BY <2>2, <2>3, <4>1 DEF FoundPlace, Serving
      <4>2. CASE Serving(session[i]) /\ t[session[i]].place = i
        <5>1. session[i] \in Ids /\ session[i] # main.new
          BY <2>8, <3>2, <4>2
        <5>q. QED
          BY <2>2, <2>4, <4>2, <5>1 DEF Serving
      <4>q. QED
        BY <3>2, <4>1, <4>2 DEF SessionIsServed
    <3>q. QED
      BY <2>2, <3>1, <3>2 DEF SessionIsServed
  <2>10. ThreadIsKnown'
    BY <2>1, <2>2, <2>3, <2>4 DEF ThreadIsKnown, Alive
  <2>q. QED
    BY <2>5, <2>6, <2>7, <2>9, <2>10
<1>5. CASE StoreThread
  <2>1. main.pc = "store" /\ main.new \in Ids /\ t[main.new].place = main.i
    BY <1>5 DEF StoreThread, FoundPlace
  <2>2. CASE /\ main.i \in Places /\ thread' = [thread EXCEPT ![main.i] = main.new]
             /\ main' = [main EXCEPT !.pc = "wait"]
    <3>1. STypeOK' /\ FoundPlace' /\ UNCHANGED <<session, port, client, t>>
      BY <1>5, <2>1, <2>2 DEF StoreThread, FoundPlace
    <3>2. ASSUME NEW s \in Ids, Alive(s), t[s].place # NULL,
                 thread[t[s].place] = s \/ main.new = s
          PROVE  thread'[t[s].place] = s
      BY <2>1, <2>2, <3>2 DEF FoundPlace
    <3>q. QED
      BY <2>1, <2>2, <3>1, <3>2, MainMoves DEF Accepting
  <2>3. CASE main.i = NULL /\ main' = [main EXCEPT !.pc = "fault"] /\ UNCHANGED thread
    <3>1. STypeOK' /\ FoundPlace' /\ UNCHANGED <<session, port, client, t>>
      BY <1>5, <2>1, <2>3 DEF StoreThread, FoundPlace
    <3>q. QED
      BY <2>1, <2>3, <3>1, MainMoves DEF Accepting
  <2>q. QED
    BY <1>5, <2>2, <2>3 DEF StoreThread
<1>6. CASE JoinThread
  <2>1. /\ main.pc = "join" /\ main.i \in Places
        /\ thread[main.i] # 0 => ~Alive(thread[main.i])
        /\ thread' = [thread EXCEPT ![main.i] = 0]
        /\ UNCHANGED <<session, port, client, t>>
        /\ \/ main' = [main EXCEPT !.pc = "unregister"]
           \/ main' = [main EXCEPT !.i = main.i + 1] /\ main.i + 1 \in Places
    BY <1>6 DEF JoinThread, FoundPlace
  <2>2. STypeOK' /\ FoundPlace' /\ main'.pc \in {"join", "unregister"}
    BY <2>1 DEF FoundPlace
  <2>3. ASSUME NEW s \in Ids, Alive(s), t[s].place # NULL, thread[t[s].place] = s
        PROVE  thread'[t[s].place] = s
    BY <2>1, <2>3
  <2>q. QED
    BY <2>1, <2>2, <2>3, MainMoves DEF Accepting
<1>7. CASE Unregister
  <2>1. /\ port' = <<>> /\ main' = [main EXCEPT !.pc = "done"] /\ main.pc = "unregister"
        /\ UNCHANGED <<session, thread, t>>
        /\ client' \in [Ids -> {"none", "open", "closed"}]
        /\ \A s \in Ids : client'[s] \in {client[s], "closed"}
    BY <1>7 DEF Unregister
  <2>2. STypeOK'
    BY <2>1, SMTT(60)
  <2>3. StartedOnce' /\ FoundPlace'
    BY <2>1 DEF StartedOnce, FoundPlace, Accepting
  <2>4. SessionIsServed' /\ ThreadIsKnown'
    BY <2>1 DEF SessionIsServed, ThreadIsKnown, Serving, Alive
  <2>q. QED
    BY <2>2, <2>3, <2>4
<1>8. CASE Terminate
  <2>1. /\ main.pc = "wait" /\ main' = [main EXCEPT !.pc = "join", !.i = 0]
        /\ UNCHANGED <<session, thread, port, client, t>>
    BY <1>8 DEF Terminate
  <2>2. STypeOK' /\ FoundPlace'
    BY <2>1 DEF FoundPlace
  <2>q. QED
    BY <2>1, <2>2, MainMoves DEF Accepting
<1>9. CASE StartPipeThread \/ PipeThreadExits
  <2>1. UNCHANGED <<session, thread, port, client, t, main>>
    BY <1>9 DEF StartPipeThread, PipeThreadExits
  <2>q. QED
    BY <2>1 DEF StartedOnce, FoundPlace, SessionIsServed, ThreadIsKnown, Accepting, Serving, Alive
<1>q. QED
  BY <1>1, <1>2, <1>3, <1>4, <1>5, <1>6, <1>7, <1>8, <1>9 DEF Main

\* What a session's thread does: it moves, within its place, and frees the
\* place for another session on the way to its exit.
LEMMA ThreadStep ==
  ASSUME SInv, NEW s \in Ids, SessionThread(s)
  PROVE  SInv'
<1> USE Names
<1> USE DEF SInv, STypeOK
<1>1. PICK l \in ThreadLabels \ {"none"} :
        /\ t' = [t EXCEPT ![s].pc = l]
        /\ UNCHANGED <<thread, port, client, main>>
        /\ Alive(s) /\ t[s].place # NULL
        /\ \/ Serving(s) /\ l \in {"receive", "handle", "close", "zero"} /\ session' = session
           \/ Serving(s) /\ l = "exit" /\ session' = [session EXCEPT ![t[s].place] = 0]
           \/ ~Serving(s) /\ l = "exited" /\ session' = session
  <2> USE DEF Goto, Alive, Serving, ThreadLabels, ThreadIsKnown
  <2>1. CASE Receive(s)
    BY <2>1 DEF Receive
  <2>2. CASE Reply(s)
    BY <2>2 DEF Reply
  <2>3. CASE ReceiveClosed(s)
    BY <2>3 DEF ReceiveClosed
  <2>4. CASE CloseSession(s)
    BY <2>4 DEF CloseSession
  <2>5. CASE ZeroSession(s)
    BY <2>5 DEF ZeroSession
  <2>6. CASE Exit(s)
    BY <2>6 DEF Exit
  <2>q. QED
    BY <2>1, <2>2, <2>3, <2>4, <2>5, <2>6 DEF SessionThread
<1>2. /\ t'[s].pc = l /\ t'[s].place = t[s].place /\ t'[s].stack = t[s].stack
      /\ \A r \in Ids : r # s => t'[r] = t[r]
      /\ t[s].pc # "none" /\ t[s].place \in Places
  BY <1>1 DEF Alive
<1>3. STypeOK'
  <2>1. t' \in [Ids -> [pc : ThreadLabels, place : Places \union {NULL}, stack : Places]]
    BY <1>1
  <2>2. session' \in [Places -> Ids \union {0}]
    BY <1>1
  <2>q. QED
    BY <1>1, <2>1, <2>2
<1>4. StartedOnce'
  BY <1>1, <1>2 DEF StartedOnce, Accepting
<1>5. FoundPlace'
  BY <1>1, <1>2 DEF FoundPlace, SessionIsServed, StartedOnce, Accepting
<1>6. SessionIsServed'
  <2>1. CASE session' = session
    BY <1>1, <1>2, <2>1 DEF SessionIsServed, Serving
  <2>2. CASE Serving(s) /\ l = "exit" /\ session' = [session EXCEPT ![t[s].place] = 0]
    BY <1>1, <1>2, <2>2 DEF SessionIsServed, Serving
  <2>q. QED
    BY <1>1, <2>1, <2>2
<1>7. ThreadIsKnown'
  BY <1>1, <1>2 DEF ThreadIsKnown, Alive
<1>q. QED
  BY <1>3, <1>4, <1>5, <1>6, <1>7

\* The invariant holds in every reachable state.
THEOREM SInvariance == Spec => []SInv
<1>1. SInv /\ [Next]_vars => SInv'
  <2> SUFFICES ASSUME SInv, [Next]_vars PROVE SInv'
    OBVIOUS
  <2>1. CASE Next
    BY <2>1, ClientStep, MainStep, ThreadStep DEF Next
  <2>2. CASE UNCHANGED vars
    BY <2>2 DEF vars, SInv, STypeOK, StartedOnce, FoundPlace, SessionIsServed, ThreadIsKnown,
                Accepting, Serving, Alive
  <2>q. QED
    BY <2>1, <2>2
<1>q. QED
  BY <1>1, SInitInv, PTL DEF Spec

-----------------------------------------------------------------------------
\* tmain reads the session from the table before every receive, and again to
\* close it: what it finds is its own, however many sessions have come and gone
\* in its place.
THEOREM ServesOwnSession == Spec => []OwnSession
<1>1. SInv => OwnSession
  BY DEF SInv, SessionIsServed, Serving, OwnSession, Current
<1>q. QED
  BY <1>1, SInvariance, PTL

\* getNewSessionData gives a place away before its last thread has left the
\* stack, and still no two threads run on one stack.
THEOREM StacksAreDisjoint == Spec => []SessionStacksDisjoint
<1>1. SInv => SessionStacksDisjoint
  <2> SUFFICES ASSUME SInv, EveryoneHasAPlace, NEW r \in Ids, NEW s \in Ids,
                      Alive(r), Alive(s), t[r].stack = t[s].stack
               PROVE  r = s
    BY DEF SessionStacksDisjoint
  <2>1. t[r].place = t[s].place /\ t[r].place \in Places
    BY DEF SInv, STypeOK, ThreadIsKnown, EveryoneHasAPlace
  <2>2. thread[t[r].place] = r \/ (main.pc = "store" /\ main.new = r /\ thread[t[r].place] = 0)
    BY <2>1 DEF SInv, FoundPlace, ThreadIsKnown, EveryoneHasAPlace
  <2>3. thread[t[s].place] = s \/ (main.pc = "store" /\ main.new = s /\ thread[t[s].place] = 0)
    BY <2>1 DEF SInv, FoundPlace, ThreadIsKnown, EveryoneHasAPlace
  <2>q. QED
    BY <2>1, <2>2, <2>3 DEF Ids
<1>q. QED
  BY <1>1, SInvariance, PTL
=============================================================================
