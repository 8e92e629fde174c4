---------------------------- MODULE SessionManager ----------------------------
(***************************************************************************)
(* AM_Main and the session threads (tmain) of source/main.c: the table of  *)
(* sessions, the thread and the stack that belong to each place in it, and *)
(* the shutdown.  Of the pipe thread, only that it exists and has a stack; *)
(* module PipeManager has the rest.                                        *)
(*                                                                         *)
(* A session is named by its number, and so is the thread started for it.  *)
(* A step is the code between two accesses that another thread can see.    *)
(***************************************************************************)
EXTENDS Integers, Sequences, FiniteSets

CONSTANTS
  MaxTotal,     \* AM_MAX_TOTAL_SESSIONS
  MaxSessions,  \* bound: how many sessions are made altogether
  MaxOpen       \* bound: how many sessions the module has at a time

ASSUME SessionsAssumption ==
  MaxTotal \in Nat \ {0} /\ MaxSessions \in Nat \ {0} /\ MaxOpen \in Nat \ {0}

VARIABLES
  session, thread,  \* AM_SessionsData, by place: its session, its thread
  port,      \* sessions not accepted yet
  client,    \* the client end of each session: "none", "open" or "closed"
  server,    \* the server end: "none", "open" or "closed"
  request,   \* sessions with a command the module has not answered
  t,         \* each session's thread: where it is, its place, its stack
  main,      \* where AM_Main is, the session it accepted, the place it looks at
  pipe       \* there is a pipe thread

vars == <<session, thread, port, client, server, request, t, main, pipe>>

Places == 0..MaxTotal
PipeStack == MaxTotal       \* AM_SessionThreadStacks[5]
Ids == 1..MaxSessions
NULL == MaxTotal + 1

Init ==
  /\ session = [i \in Places |-> 0] /\ thread = [i \in Places |-> 0]
  /\ port = <<>> /\ request = {}
  /\ client = [s \in Ids |-> "none"] /\ server = [s \in Ids |-> "none"]
  /\ t = [s \in Ids |-> [pc |-> "none", place |-> 0, stack |-> 0]]
  /\ main = [pc |-> "wait", new |-> 0, i |-> 0]
  /\ pipe = FALSE

Alive(s) == t[s].pc \notin {"none", "exited"}

-----------------------------------------------------------------------------
(* Clients *)

\* The sessions the module has: accepted or not, and in the table until the
\* session's thread has taken it out.
InUse == {s \in Ids : server[s] = "open" \/ \E i \in Places : session[i] = s} \union
         {port[k] : k \in DOMAIN port}

Connect(s) ==
  /\ client[s] = "none" /\ \A r \in 1..(s - 1) : client[r] # "none"
  /\ Cardinality(InUse) < MaxOpen
  /\ main.pc \notin {"unregister", "done"}
  /\ client' = [client EXCEPT ![s] = "open"]
  /\ port' = Append(port, s)
  /\ UNCHANGED <<session, thread, server, request, t, main, pipe>>

SendCommand(s) ==
  /\ client[s] = "open" /\ server[s] # "closed" /\ s \notin request
  /\ request' = request \union {s}
  /\ UNCHANGED <<session, thread, port, client, server, t, main, pipe>>

Close(s) ==
  /\ client[s] = "open" /\ s \notin request
  /\ client' = [client EXCEPT ![s] = "closed"]
  /\ UNCHANGED <<session, thread, port, server, request, t, main, pipe>>

-----------------------------------------------------------------------------
(* AM_Main: accepting a session *)

Accept ==
  /\ main.pc = "wait" /\ port # <<>>
  /\ server' = [server EXCEPT ![Head(port)] = "open"]
  /\ port' = Tail(port)
  /\ main' = [pc |-> "scan", new |-> Head(port), i |-> 0]
  /\ UNCHANGED <<session, thread, client, request, t, pipe>>

\* getNewSessionData: the first place without a session, or NULL.
ScanPlace ==
  /\ main.pc = "scan"
  /\ \/ main.i \in Places /\ session[main.i] # 0 /\ main' = [main EXCEPT !.i = @ + 1]
     \/ main.i \in Places /\ session[main.i] = 0 /\ main' = [main EXCEPT !.pc = "free"]
     \/ main.i = NULL /\ main' = [main EXCEPT !.pc = "start"]
  /\ UNCHANGED <<session, thread, port, client, server, request, t, pipe>>

\* Mutant: the place's previous thread is not waited for.
BugFreeAtOnce ==
  /\ main.pc = "free"
  /\ thread' = [thread EXCEPT ![main.i] = 0]
  /\ session' = [session EXCEPT ![main.i] = main.new]
  /\ main' = [main EXCEPT !.pc = "start"]
  /\ UNCHANGED <<port, client, server, request, t, pipe>>

\* freeThread waits for the place's previous thread; then the place is taken.
FreeThread ==
  /\ main.pc = "free"
  /\ thread[main.i] # 0 => ~Alive(thread[main.i])
  /\ thread' = [thread EXCEPT ![main.i] = 0]
  /\ session' = [session EXCEPT ![main.i] = main.new]
  /\ main' = [main EXCEPT !.pc = "start"]
  /\ UNCHANGED <<port, client, server, request, t, pipe>>

\* startThread.  Without a place, stack_index is whatever it was.
StartThread ==
  /\ main.pc = "start"
  /\ \E stack \in IF main.i = NULL THEN Places ELSE {main.i} :
       t' = [t EXCEPT ![main.new] = [pc |-> "receive", place |-> main.i, stack |-> stack]]
  /\ main' = [main EXCEPT !.pc = "store"]
  /\ UNCHANGED <<session, thread, port, client, server, request, pipe>>

\* data->thread = thread.  Without a place, data is NULL.
StoreThread ==
  /\ main.pc = "store"
  /\ \/ /\ main.i \in Places
        /\ thread' = [thread EXCEPT ![main.i] = main.new]
        /\ main' = [main EXCEPT !.pc = "wait"]
     \/ /\ main.i = NULL
        /\ main' = [main EXCEPT !.pc = "fault"]
        /\ UNCHANGED thread
  /\ UNCHANGED <<session, port, client, server, request, t, pipe>>

\* The pipe port's branch: the previous pipe thread is waited for first.
StartPipeThread ==
  /\ main.pc = "wait"
  /\ pipe' = TRUE
  /\ UNCHANGED <<session, thread, port, client, server, request, t, main>>

PipeThreadExits ==
  /\ pipe
  /\ pipe' = FALSE
  /\ UNCHANGED <<session, thread, port, client, server, request, t, main>>

-----------------------------------------------------------------------------
(* AM_Main: notification 0x100 *)

Terminate ==
  /\ main.pc = "wait"
  /\ main' = [main EXCEPT !.pc = "join", !.i = 0]
  /\ UNCHANGED <<session, thread, port, client, server, request, t, pipe>>

\* One freeThread after the other.
JoinThread ==
  /\ main.pc = "join"
  /\ thread[main.i] # 0 => ~Alive(thread[main.i])
  /\ thread' = [thread EXCEPT ![main.i] = 0]
  /\ main' = IF main.i = MaxTotal THEN [main EXCEPT !.pc = "unregister"] ELSE [main EXCEPT !.i = @ + 1]
  /\ UNCHANGED <<session, port, client, server, request, t, pipe>>

\* The services are unregistered: what was not accepted is refused.
Unregister ==
  /\ main.pc = "unregister"
  /\ LET refused == {port[k] : k \in DOMAIN port} IN
       /\ client' = [s \in Ids |-> IF s \in refused THEN "closed" ELSE client[s]]
       /\ request' = request \ refused
  /\ port' = <<>>
  /\ main' = [main EXCEPT !.pc = "done"]
  /\ UNCHANGED <<session, thread, server, t, pipe>>

-----------------------------------------------------------------------------
(* A session's thread: tmain *)

Goto(s, l) == t' = [t EXCEPT ![s].pc = l]

\* The session is read from the table before every receive.
Current(s) == session[t[s].place]

Receive(s) ==
  /\ t[s].pc = "receive" /\ t[s].place \in Places /\ Current(s) \in request
  /\ Goto(s, "handle")
  /\ UNCHANGED <<session, thread, port, client, server, request, main, pipe>>

Reply(s) ==
  /\ t[s].pc = "handle"
  /\ request' = request \ {Current(s)}
  /\ Goto(s, "receive")
  /\ UNCHANGED <<session, thread, port, client, server, main, pipe>>

\* Mutant: a closed session is no reason to leave the loop.
BugNoBreak(s) ==
  /\ t[s].pc = "receive" /\ t[s].place \in Places
  /\ Current(s) # 0 /\ client[Current(s)] = "closed"
  /\ UNCHANGED vars

ReceiveClosed(s) ==
  /\ t[s].pc = "receive" /\ t[s].place \in Places
  /\ Current(s) # 0 /\ client[Current(s)] = "closed"
  /\ Goto(s, "close")
  /\ UNCHANGED <<session, thread, port, client, server, request, main, pipe>>

\* Mutant: the place is given away before the session is closed.
BugZeroFirst(s) ==
  /\ t[s].pc = "close"
  /\ session' = [session EXCEPT ![t[s].place] = 0]
  /\ server' = [server EXCEPT ![Current(s)] = "closed"]
  /\ Goto(s, "zero")
  /\ UNCHANGED <<thread, port, client, request, main, pipe>>

CloseSession(s) ==
  /\ t[s].pc = "close"
  /\ server' = [server EXCEPT ![Current(s)] = "closed"]
  /\ Goto(s, "zero")
  /\ UNCHANGED <<session, thread, port, client, request, main, pipe>>

\* From here on the place is free for another session, and this thread is
\* still running on the place's stack.
ZeroSession(s) ==
  /\ t[s].pc = "zero"
  /\ session' = [session EXCEPT ![t[s].place] = 0]
  /\ Goto(s, "exit")
  /\ UNCHANGED <<thread, port, client, server, request, main, pipe>>

Exit(s) ==
  /\ t[s].pc = "exit"
  /\ Goto(s, "exited")
  /\ UNCHANGED <<session, thread, port, client, server, request, main, pipe>>

-----------------------------------------------------------------------------
Main ==
  \/ Accept \/ ScanPlace  \/ FreeThread \/ StartThread \/ StoreThread
  \/ JoinThread \/ Unregister

SessionThread(s) ==
  \/ Receive(s)      \/ Reply(s)       \/ ReceiveClosed(s)
  \/ CloseSession(s) \/ ZeroSession(s) \/ Exit(s)

Next ==
  \/ \E s \in Ids : Connect(s) \/ SendCommand(s) \/ Close(s) \/ SessionThread(s)
  \/ Main \/ Terminate \/ StartPipeThread \/ PipeThreadExits

\* The module's threads run.
Fairness == WF_vars(Main) /\ \A s \in Ids : WF_vars(SessionThread(s))

Spec == Init /\ [][Next]_vars /\ Fairness

-----------------------------------------------------------------------------
(* Properties *)

\* No session had to do without a place.  One that had none runs on a stack
\* that may be another's, and AM_Main then writes through NULL.
EveryoneHasAPlace == \A s \in Ids : t[s].place # NULL

\* No two threads run on one stack, though a place is given away while its
\* last thread may still be running.
SessionStacksDisjoint ==
  EveryoneHasAPlace =>
    \A r, s \in Ids : Alive(r) /\ Alive(s) /\ t[r].stack = t[s].stack => r = s

\* A thread finds its own session in its place for as long as it serves it, so
\* it never answers or closes the session of a later one.
OwnSession ==
  \A s \in Ids :
    t[s].pc \in {"receive", "handle", "close", "zero"} /\ t[s].place # NULL => Current(s) = s

\* The shutdown comes to its end if every client closes its session.
ShutdownCompletes ==
  (\A s \in Ids : []<>(client[s] # "open")) =>
    ((main.pc = "join") ~> (main.pc = "done"))

\* main.c:57: one stack for each of five session threads, and one for the pipe
\* thread.
PipeStackIsItsOwn == pipe => \A s \in Ids : Alive(s) => t[s].stack # PipeStack
=============================================================================
