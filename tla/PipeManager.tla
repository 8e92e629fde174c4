----------------------------- MODULE PipeManager -----------------------------
(***************************************************************************)
(* The import pipe: g_PipeManager and the three kinds of thread that share *)
(* it.  A session thread opens an import (AM_Pipe_CreateImportHandle) and  *)
(* ends it (the finish and cancel commands, AM_Pipe_EnsureThreadExit); the *)
(* main thread accepts the pipe session and starts a thread for it; the    *)
(* pipe thread serves the writes and tears the import down.                *)
(*                                                                         *)
(* A step is the code between two points where another thread may see the  *)
(* difference: a kernel call, or an access to a field of g_PipeManager     *)
(* that another thread uses.  The recursive lock is taken and released in  *)
(* one step each; module LightLock shows what that rests on.  An import is *)
(* named by its number, which also names its session and its CIAInstallData. *)
(***************************************************************************)
EXTENDS Integers, Sequences, FiniteSets

CONSTANTS
  Sessions,      \* the clients' sessions, each with a thread of the module
  MaxImports,    \* bound: how many imports are begun altogether
  Mays           \* the environments: sets of what clients and kernel may do
                 \* beside the plain protocol
                 \*   "overlap"     begin while another session begins or ends
                 \*   "drop"        close the handle without finish or cancel
                 \*   "end_title"   pause or cancel the title, handle still open
                 \*   "no_session"  svcCreateSessionToPort fails for want of memory

ASSUME MaxImportsAssumption == MaxImports \in Nat \ {0}

VARIABLES
  may,       \* the environment of this behaviour: one of Mays, and never changes
  init, write, data, event, close_event, current_session, thread,  \* g_PipeManager
  lock,      \* the session that holds g_PipeManager.lock, or NoSession
  heap,      \* the CIAInstallData that are allocated
  port,      \* sessions the port has not accepted yet
  client,    \* the client end of each import's session: who has it
  server,    \* its server end
  request,   \* imports with a write the pipe thread has not answered
  main,      \* where the main thread is
  pt,        \* the pipe thread: where it is, the session it captured
  started,   \* number of pipe threads started
  th,        \* each session's thread: where it is, import, local variable
  kind,      \* what each import installs, "cia" or "raw"
  holder,    \* the session whose client was given the import
  importing  \* the sessions with importing_title set

manager == <<init, write, data, event, close_event, current_session, thread>>
kernel == <<port, client, server, request>>
pipeThread == <<pt, started>>
vars == <<may, manager, lock, heap, kernel, main, pipeThread, th, kind, holder, importing>>

Imports == 1..MaxImports
NoSession == "no session"

\* Imports begun so far: each has a kind.
Begun == {i \in Imports : kind[i] # "none"}

PipeThreadAlive == pt.pc \notin {"none", "exited"}

\* The pipe thread has been told to leave, or is leaving.
TearingDown ==
  \/ PipeThreadAlive /\ (pt.pc \notin {"receive", "write"} \/ close_event)
  \/ pt.pc \in {"receive", "write"} /\ pt.mine # 0 /\ client[pt.mine] = "closed"
  \/ port # <<>> \/ main # "wait"

Idle(s) == th[s].pc = "idle"

Init ==
  /\ may \in Mays
  /\ init = FALSE /\ write = "none" /\ data = 0
  /\ event = "signaled"                   \* .bss: 0 is SIGNALED_ONESHOT
  /\ close_event = FALSE /\ current_session = 0 /\ thread = 0
  /\ lock = NoSession /\ heap = {} /\ port = <<>> /\ request = {}
  /\ client = [i \in Imports |-> "none"] /\ server = [i \in Imports |-> "none"]
  /\ main = "wait" /\ pt = [pc |-> "none", mine |-> 0] /\ started = 0
  /\ th = [s \in Sessions |-> [pc |-> "idle", id |-> 0, c |-> 0]]
  /\ kind = [i \in Imports |-> "none"] /\ holder = [i \in Imports |-> NoSession]
  /\ importing = {}

Goto(s, l) == th' = [th EXCEPT ![s].pc = l]

-----------------------------------------------------------------------------
(* AM_Pipe_CreateImportHandle, and the handlers that call it *)

\* A begin command: a CIA begin allocates its CIAInstallData first.
BeginImport(s, k) ==
  /\ Idle(s)
  /\ "overlap" \notin may => ~TearingDown /\ \A r \in Sessions : Idle(r)
  /\ \E i \in Imports :
       /\ kind[i] = "none" /\ \A j \in Imports : j < i => kind[j] # "none"
       /\ kind' = [kind EXCEPT ![i] = k]
       /\ heap' = IF k = "cia" THEN heap \union {i} ELSE heap
       /\ th' = [th EXCEPT ![s] = [pc |-> "lock", id |-> i, c |-> 0]]
  /\ UNCHANGED <<may, manager, lock, kernel, main, pipeThread, holder, importing>>

CreateLock(s) ==
  /\ th[s].pc = "lock" /\ lock = NoSession
  /\ lock' = s
  /\ Goto(s, "init")
  /\ UNCHANGED <<may, manager, heap, kernel, main, pipeThread, kind, holder, importing>>

\* Mutant: the init flag is set whatever it was.
BugInitNotChecked(s) ==
  /\ th[s].pc = "init"
  /\ init' = TRUE /\ Goto(s, "connect") /\ UNCHANGED lock
  /\ UNCHANGED <<may, write, data, event, close_event, current_session, thread, heap,
                 kernel, main, pipeThread, kind, holder, importing>>

\* atomicUpdateState(&pipe->init, true, false)
CreateInit(s) ==
  /\ th[s].pc = "init"
  /\ \/ init /\ lock' = NoSession /\ Goto(s, "failed") /\ UNCHANGED init
     \/ ~init /\ init' = TRUE /\ Goto(s, "connect") /\ UNCHANGED lock
  /\ UNCHANGED <<may, write, data, event, close_event, current_session, thread, heap,
                 kernel, main, pipeThread, kind, holder, importing>>

\* svcCreateSessionToPort.  The port was created for one session, and counts a
\* session until its server end is closed.  A failure leaves init set.
PortFull == \E i \in Imports : server[i] \in {"pending", "open"}

CreateSession(s) ==
  LET i == th[s].id IN
  /\ th[s].pc = "connect"
  /\ \/ /\ ~PortFull
        /\ client' = [client EXCEPT ![i] = "am"]
        /\ server' = [server EXCEPT ![i] = "pending"]
        /\ port' = Append(port, i)
        /\ Goto(s, "write")
        /\ UNCHANGED lock
     \/ /\ PortFull \/ "no_session" \in may
        /\ lock' = NoSession
        /\ Goto(s, "failed")
        /\ UNCHANGED <<client, server, port>>
  /\ UNCHANGED <<may, manager, heap, request, main, pipeThread, kind, holder, importing>>

PublishWrite(s) ==
  /\ th[s].pc = "write"
  /\ write' = kind[th[s].id]
  /\ Goto(s, "data")
  /\ UNCHANGED <<may, init, data, event, close_event, current_session, thread, lock,
                 heap, kernel, main, pipeThread, kind, holder, importing>>

\* Mutant: the new import's data are not published.
BugDataNotPublished(s) ==
  /\ th[s].pc = "data"
  /\ Goto(s, "event")
  /\ UNCHANGED <<may, manager, lock, heap, kernel, main, pipeThread, kind, holder,
                 importing>>

PublishData(s) ==
  /\ th[s].pc = "data"
  /\ data' = IF kind[th[s].id] = "cia" THEN th[s].id ELSE 0
  /\ Goto(s, "event")
  /\ UNCHANGED <<may, init, write, event, close_event, current_session, thread, lock,
                 heap, kernel, main, pipeThread, kind, holder, importing>>

\* LightEvent_Wait: a one-shot event, reset by the thread that sees it.
WaitEvent(s) ==
  /\ th[s].pc = "event" /\ event = "signaled"
  /\ event' = "cleared"
  /\ Goto(s, "send")
  /\ UNCHANGED <<may, init, write, data, close_event, current_session, thread, lock,
                 heap, kernel, main, pipeThread, kind, holder, importing>>

\* The reply moves the handle to the client.
SendHandle(s) ==
  LET i == th[s].id IN
  /\ th[s].pc = "send"
  /\ client' = [client EXCEPT ![i] = "user"]
  /\ holder' = [holder EXCEPT ![i] = s]
  /\ lock' = NoSession
  /\ Goto(s, "idle")
  /\ UNCHANGED <<may, manager, heap, port, server, request, main, pipeThread, kind,
                 importing>>

\* Mutant: the caller forgets to free what it allocated.
BugFailedKeepsData(s) ==
  /\ th[s].pc = "failed"
  /\ Goto(s, "idle")
  /\ UNCHANGED <<may, manager, lock, heap, kernel, main, pipeThread, kind, holder,
                 importing>>

\* AM_Pipe_CreateCIAImportHandle frees its data and the command returns an error.
CreateFailed(s) ==
  /\ th[s].pc = "failed"
  /\ heap' = heap \ {th[s].id}
  /\ Goto(s, "idle")
  /\ UNCHANGED <<may, manager, lock, kernel, main, pipeThread, kind, holder, importing>>

-----------------------------------------------------------------------------
(* The client *)

\* One write request at a time on a session; the reply answers it.
UserWrite(i) ==
  /\ client[i] = "user" /\ server[i] \in {"pending", "open"} /\ i \notin request
  /\ request' = request \union {i}
  /\ UNCHANGED <<may, manager, lock, heap, port, client, server, main, pipeThread, th,
                 kind, holder, importing>>

\* The client dies or closes the handle it was given.
UserDrop(i) ==
  /\ "drop" \in may
  /\ "overlap" \notin may => \A r \in Sessions : Idle(r)
  /\ client[i] = "user" /\ i \notin request
  /\ client' = [client EXCEPT ![i] = "closed"]
  /\ UNCHANGED <<may, manager, lock, heap, port, server, request, main, pipeThread, th,
                 kind, holder, importing>>

\* The client sends the handle back in a command that ends the import.
EndImport(s, i, l) ==
  /\ Idle(s)
  /\ "overlap" \notin may => \A r \in Sessions : Idle(r)
  /\ client[i] = "user" /\ holder[i] = s /\ i \notin request
  /\ client' = [client EXCEPT ![i] = "am"]
  /\ th' = [th EXCEPT ![s] = [pc |-> l, id |-> i, c |-> 0]]
  /\ UNCHANGED <<may, manager, lock, heap, port, server, request, main, pipeThread,
                 kind, holder, importing>>

-----------------------------------------------------------------------------
(* The commands that end an import *)

\* 0x0405, 0x0404: refuse if nothing is being imported.  The moved handle is
\* not closed on that path.
CheckWrite(s) ==
  /\ \/ th[s].pc = "finish_cia" /\ Goto(s, IF write = "none" THEN "idle" ELSE "close_finish")
     \/ th[s].pc = "cancel_cia" /\ Goto(s, IF write = "none" THEN "idle" ELSE "cancel_data")
  /\ UNCHANGED <<may, manager, lock, heap, kernel, main, pipeThread, kind, holder,
                 importing>>

\* A pointer that was read from g_PipeManager.data is used: null is a data abort,
\* and what the pipe thread has freed may be one or not.
UseData(s, c, l) ==
  \/ c # 0 /\ Goto(s, l)
  \/ c \notin heap /\ Goto(s, "fault")

\* 0x0404: c = data, then frees c->buf and cancels what c says is open.
CancelData(s) ==
  /\ th[s].pc = "cancel_data"
  /\ th' = [th EXCEPT ![s].pc = "cancel_use", ![s].c = data]
  /\ UNCHANGED <<may, manager, lock, heap, kernel, main, pipeThread, kind, holder,
                 importing>>

CancelUse(s) ==
  /\ th[s].pc = "cancel_use"
  /\ UseData(s, th[s].c, "close")
  /\ UNCHANGED <<may, manager, lock, heap, kernel, main, pipeThread, kind, holder,
                 importing>>

\* AM_Pipe_CloseImportHandle, first the handle ...
CloseHandle(s) ==
  /\ \/ th[s].pc = "close" /\ Goto(s, "reset")
     \/ th[s].pc = "close_finish" /\ Goto(s, "reset_finish")
     \/ th[s].pc = "close_media" /\ Goto(s, "reset_media")
  /\ client' = [client EXCEPT ![th[s].id] = "closed"]
  /\ UNCHANGED <<may, manager, lock, heap, port, server, request, main, pipeThread,
                 kind, holder, importing>>

\* ... then atomicUpdateState(&pipe->init, false, true).
ResetInit(s) ==
  /\ \/ th[s].pc = "reset" /\ Goto(s, "idle")
     \/ th[s].pc = "reset_finish" /\ Goto(s, "finish_data")
     \/ th[s].pc = "reset_media" /\ Goto(s, "read_media")
  /\ init' = FALSE
  /\ UNCHANGED <<may, write, data, event, close_event, current_session, thread, lock,
                 heap, kernel, main, pipeThread, kind, holder, importing>>

\* 0x0406 reads the medium from g_PipeManager.data once the handle is closed.
ReadMedia(s) ==
  /\ th[s].pc = "read_media"
  /\ UseData(s, data, "idle")
  /\ UNCHANGED <<may, manager, lock, heap, kernel, main, pipeThread, kind, holder,
                 importing>>

\* 0x0405 reads the pointer then, and uses it when AM9 has answered.
FinishData(s) ==
  /\ th[s].pc = "finish_data"
  /\ th' = [th EXCEPT ![s].pc = "finish_use", ![s].c = data]
  /\ UNCHANGED <<may, manager, lock, heap, kernel, main, pipeThread, kind, holder,
                 importing>>

FinishUse(s) ==
  /\ th[s].pc = "finish_use"
  /\ UseData(s, th[s].c, "idle")
  /\ UNCHANGED <<may, manager, lock, heap, kernel, main, pipeThread, kind, holder,
                 importing>>

\* 0x0804, 0x0806, 0x0828, when AM9 agrees.
TitleBegin(s) ==
  /\ "end_title" \in may
  /\ Idle(s) /\ s \notin importing
  /\ importing' = importing \union {s}
  /\ UNCHANGED <<may, manager, lock, heap, kernel, main, pipeThread, th, kind, holder>>

\* 0x0805, 0x0807: AM_Pipe_EnsureThreadExit under the lock, then the title.
TitleEnd(s) ==
  /\ Idle(s) /\ s \in importing
  /\ "overlap" \notin may => \A r \in Sessions : Idle(r)
  /\ Goto(s, "exit_lock")
  /\ UNCHANGED <<may, manager, lock, heap, kernel, main, pipeThread, kind, holder,
                 importing>>

ExitLock(s) ==
  /\ th[s].pc = "exit_lock" /\ lock = NoSession
  /\ \/ init /\ lock' = s /\ Goto(s, "exit_signal") /\ UNCHANGED importing
     \/ ~init /\ importing' = importing \ {s} /\ Goto(s, "idle") /\ UNCHANGED lock
  /\ UNCHANGED <<may, manager, heap, kernel, main, pipeThread, kind, holder>>

ExitSignal(s) ==
  /\ th[s].pc = "exit_signal"
  /\ close_event' = TRUE
  /\ Goto(s, "exit_thread")
  /\ UNCHANGED <<may, init, write, data, event, current_session, thread, lock, heap,
                 kernel, main, pipeThread, kind, holder, importing>>

\* svcWaitSynchronization is given the handle as it is now ...
ExitThread(s) ==
  /\ th[s].pc = "exit_thread"
  /\ th' = [th EXCEPT ![s].pc = "exit_wait", ![s].c = thread]
  /\ UNCHANGED <<may, manager, lock, heap, kernel, main, pipeThread, kind, holder,
                 importing>>

\* ... and returns at once, with an error the code ignores, when that is none.
ExitWait(s) ==
  /\ th[s].pc = "exit_wait"
  /\ th[s].c = started => ~PipeThreadAlive
  /\ init' = FALSE
  /\ lock' = NoSession
  /\ importing' = importing \ {s}
  /\ Goto(s, "idle")
  /\ UNCHANGED <<may, write, data, event, close_event, current_session, thread, heap,
                 kernel, main, pipeThread, kind, holder>>

-----------------------------------------------------------------------------
(* The main thread: AM_Main's branch for the pipe port *)

\* Mutant: the accepted session is not stored for the thread.
BugSessionNotStored ==
  /\ main = "wait" /\ port # <<>>
  /\ server' = [server EXCEPT ![Head(port)] = "open"]
  /\ port' = Tail(port)
  /\ main' = "free"
  /\ UNCHANGED <<may, manager, lock, heap, client, request, pipeThread, th, kind,
                 holder, importing>>

AcceptPipe ==
  /\ main = "wait" /\ port # <<>>
  /\ current_session' = Head(port)
  /\ server' = [server EXCEPT ![Head(port)] = "open"]
  /\ port' = Tail(port)
  /\ main' = "free"
  /\ UNCHANGED <<may, init, write, data, event, close_event, thread, lock, heap,
                 client, request, pipeThread, th, kind, holder, importing>>

\* Mutant: the previous thread is not waited for.
BugFreeDoesNotWait ==
  /\ main = "free"
  /\ thread' = 0
  /\ main' = "start"
  /\ UNCHANGED <<may, init, write, data, event, close_event, current_session, lock,
                 heap, kernel, pipeThread, th, kind, holder, importing>>

\* freeThread(&g_PipeManager.thread)
FreeThread ==
  /\ main = "free"
  /\ thread # 0 => ~PipeThreadAlive
  /\ thread' = 0
  /\ main' = "start"
  /\ UNCHANGED <<may, init, write, data, event, close_event, current_session, lock,
                 heap, kernel, pipeThread, th, kind, holder, importing>>

StartThread ==
  /\ main = "start"
  /\ started' = started + 1
  /\ thread' = started + 1
  /\ pt' = [pc |-> "signal", mine |-> 0]
  /\ main' = "wait"
  /\ UNCHANGED <<may, init, write, data, event, close_event, current_session, lock,
                 heap, kernel, th, kind, holder, importing>>

-----------------------------------------------------------------------------
(* The pipe thread: pipe_tmain *)

PtGoto(l) == pt' = [pt EXCEPT !.pc = l]

\* Mutant: the thread starts without telling the session thread.
BugEventNotSignalled ==
  /\ pt.pc = "signal"
  /\ PtGoto("capture")
  /\ UNCHANGED <<may, manager, lock, heap, kernel, main, started, th, kind, holder,
                 importing>>

SignalEvent ==
  /\ pt.pc = "signal"
  /\ event' = "signaled"
  /\ PtGoto("capture")
  /\ UNCHANGED <<may, init, write, data, close_event, current_session, thread, lock,
                 heap, kernel, main, started, th, kind, holder, importing>>

CaptureHandles ==
  /\ pt.pc = "capture"
  /\ pt' = [pc |-> "receive", mine |-> current_session]
  /\ UNCHANGED <<may, manager, lock, heap, kernel, main, started, th, kind, holder,
                 importing>>

\* svcReplyAndReceive on the captured session and the close event.
HandleValid(i) == i # 0 /\ server[i] = "open"

ReceiveWrite ==
  /\ pt.pc = "receive" /\ HandleValid(pt.mine) /\ pt.mine \in request
  /\ PtGoto(IF write = "none" THEN "fault" ELSE "write")
  /\ UNCHANGED <<may, manager, lock, heap, kernel, main, started, th, kind, holder,
                 importing>>

\* AM_Pipe_HandleIPC has called the write function; the next call replies.
ReplyWrite ==
  /\ pt.pc = "write"
  /\ request' = request \ {pt.mine}
  /\ PtGoto("receive")
  /\ UNCHANGED <<may, manager, lock, heap, port, client, server, main, started, th,
                 kind, holder, importing>>

ReceiveClosed ==
  /\ pt.pc = "receive" /\ HandleValid(pt.mine) /\ client[pt.mine] = "closed"
  /\ PtGoto("close")
  /\ UNCHANGED <<may, manager, lock, heap, kernel, main, started, th, kind, holder,
                 importing>>

ReceiveCloseEvent ==
  /\ pt.pc = "receive" /\ HandleValid(pt.mine) /\ close_event
  /\ close_event' = FALSE
  /\ PtGoto("close")
  /\ UNCHANGED <<may, init, write, data, event, current_session, thread, lock, heap,
                 kernel, main, started, th, kind, holder, importing>>

\* Any other result is Err_Panic: nothing returns from it.
ReceivePanic ==
  /\ pt.pc = "receive" /\ ~HandleValid(pt.mine)
  /\ PtGoto("panic")
  /\ UNCHANGED <<may, manager, lock, heap, kernel, main, started, th, kind, holder,
                 importing>>

\* Err_FailedThrow(svcCloseHandle(g_PipeManager.current_session)): the field,
\* not the captured handle.  An unanswered request fails with the session.
CloseSession ==
  /\ pt.pc = "close"
  /\ \/ /\ HandleValid(current_session)
        /\ server' = [server EXCEPT ![current_session] = "closed"]
        /\ request' = request \ {current_session}
        /\ PtGoto("zero")
     \/ /\ ~HandleValid(current_session)
        /\ PtGoto("panic")
        /\ UNCHANGED <<server, request>>
  /\ UNCHANGED <<may, manager, lock, heap, port, client, main, started, th, kind,
                 holder, importing>>

ZeroSession ==
  /\ pt.pc = "zero"
  /\ current_session' = 0
  /\ PtGoto("free")
  /\ UNCHANGED <<may, init, write, data, event, close_event, thread, lock, heap,
                 kernel, main, started, th, kind, holder, importing>>

\* Mutant: the import's data outlives its pipe.
BugDataNotFreed ==
  /\ pt.pc = "free"
  /\ PtGoto(IF write = "none" THEN "exited" ELSE "clear_data")
  /\ UNCHANGED <<may, manager, lock, heap, kernel, main, started, th, kind, holder,
                 importing>>

FreeData ==
  /\ pt.pc = "free"
  /\ \/ write = "none" /\ PtGoto("exited") /\ UNCHANGED heap
     \/ write # "none" /\ heap' = heap \ {data} /\ PtGoto("clear_data")
  /\ UNCHANGED <<may, manager, lock, kernel, main, started, th, kind, holder, importing>>

ClearData ==
  /\ pt.pc = "clear_data"
  /\ data' = 0
  /\ PtGoto("clear_write")
  /\ UNCHANGED <<may, init, write, event, close_event, current_session, thread, lock,
                 heap, kernel, main, started, th, kind, holder, importing>>

ClearWrite ==
  /\ pt.pc = "clear_write"
  /\ write' = "none"
  /\ PtGoto("exited")
  /\ UNCHANGED <<may, init, data, event, close_event, current_session, thread, lock,
                 heap, kernel, main, started, th, kind, holder, importing>>

-----------------------------------------------------------------------------
Create(s) ==
  \/ CreateLock(s)  \/ CreateInit(s) \/ CreateSession(s) \/ PublishWrite(s)
  \/ PublishData(s) \/ WaitEvent(s)  \/ SendHandle(s)    \/ CreateFailed(s)

End(s) ==
  \/ CheckWrite(s)  \/ CancelData(s) \/ CancelUse(s)
  \/ CloseHandle(s) \/ ResetInit(s)
  \/ ReadMedia(s)   \/ FinishData(s) \/ FinishUse(s)
  \/ ExitLock(s)    \/ ExitSignal(s) \/ ExitThread(s) \/ ExitWait(s)

Client(s) ==
  \/ \E k \in {"cia", "raw"} : BeginImport(s, k)
  \/ \E i \in Imports :
       \/ kind[i] = "cia" /\ \E l \in {"finish_cia", "close_media", "cancel_cia"} : EndImport(s, i, l)
       \/ kind[i] = "raw" /\ EndImport(s, i, "close")
  \/ TitleBegin(s) \/ TitleEnd(s)

Main == AcceptPipe \/ FreeThread \/ StartThread

PipeThread ==
  \/ SignalEvent   \/ CaptureHandles    \/ ReceiveWrite \/ ReplyWrite
  \/ ReceiveClosed \/ ReceiveCloseEvent \/ ReceivePanic
  \/ CloseSession  \/ ZeroSession \/ FreeData \/ ClearData \/ ClearWrite

Next ==
  \/ \E s \in Sessions : Client(s) \/ Create(s) \/ End(s)
  \/ \E i \in Imports : UserWrite(i) \/ UserDrop(i)
  \/ Main \/ PipeThread

\* The module's own threads run; clients owe nothing.  The kernel replies and
\* looks at the handles again in one call, so a client that sends one write
\* after another cannot keep the pipe thread from seeing the close event.
Fairness ==
  /\ \A s \in Sessions : WF_vars(Create(s)) /\ WF_vars(End(s))
  /\ WF_vars(Main) /\ WF_vars(PipeThread) /\ SF_vars(ReceiveCloseEvent)

Spec == Init /\ [][Next]_vars /\ Fairness

-----------------------------------------------------------------------------
(* Properties *)

\* An import is open from the call that registered it to the call that ends it.
Open(i) ==
  \/ client[i] = "user"
  \/ \E s \in Sessions : th[s].id = i /\ th[s].pc \in {"connect", "write", "data", "event", "send",
       "finish_cia", "cancel_cia", "cancel_data", "cancel_use", "close", "close_finish",
       "close_media", "reset", "reset_finish", "reset_media"}

\* However sessions overlap, at most one import is open: the flag that
\* CreateImportHandle tests and sets keeps the second one out.  (A pause or
\* cancel of a title takes the flag down while the client has the handle.)
OneImport ==
  "end_title" \notin may => \A i, j \in Imports : Open(i) /\ Open(j) => i = j

\* The pipe threads share one stack and one set of g_PipeManager fields, so a
\* new one is started only when the previous one is gone.
OnePipeThread == [][started' # started => ~PipeThreadAlive]_vars

\* Nothing is going on: no call, no open import, no session to accept, no
\* pipe thread.
Quiescent ==
  /\ \A s \in Sessions : Idle(s)
  /\ \A i \in Imports : client[i] \in {"none", "closed"}
  /\ main = "wait" /\ port = <<>> /\ ~PipeThreadAlive

\* Each import is torn down before the next begins, and a title is ended only
\* when its handle has been given back.
OneAfterAnother == may \intersect {"overlap", "end_title"} = {}

\* Between imports nothing of the last one is left: no CIAInstallData on the
\* heap, no session open, no write function a stray request could reach.
NothingLeft ==
  OneAfterAnother /\ Quiescent =>
    /\ heap = {} /\ write = "none" /\ data = 0 /\ current_session = 0
    /\ \A i \in Imports : server[i] # "open"

\* As long as a client has its handle, the write function and the data its
\* requests reach are those of its own import, and the data are allocated.
WritesReachOwnImport ==
  OneAfterAnother => \A i \in Imports : client[i] = "user" =>
    /\ write = kind[i]
    /\ kind[i] = "cia" => data = i /\ i \in heap
    /\ pt.pc \in {"receive", "write"} /\ server[i] = "open" /\ main = "wait" => pt.mine = i

\* main.c:182: the pipe thread's only error is that its client closed the
\* session.  It never reaches Err_Panic, with a receive or a close on a handle
\* that is not open, nor calls a null write function.
NeverPanics == pt.pc \notin {"panic", "fault"}

\* It does not, at any rate, when each import is torn down before the next
\* begins, whatever else clients and kernel may do.
PipeThreadNeverPanics == "overlap" \notin may => NeverPanics

\* The imports whose sessions are open or not forgotten yet.
Users == {i \in Imports : server[i] \in {"pending", "open"}
                            \/ (pt.mine = i /\ pt.pc \in {"zero", "free", "clear_data", "clear_write"})}

\* Whose write is served: the import that the pipe thread has captured, if what it
\* finds in g_PipeManager is that import's, or nobody's (-1).
Serving ==
  IF pt.pc # "write" THEN 0
  ELSE IF write = kind[pt.mine] /\ (write = "cia" => data = pt.mine /\ data \in heap) THEN pt.mine
  ELSE -1

\* When commands do not overlap, all that the three kinds of thread do to
\* g_PipeManager is a pipe: one import has it from its registration to the end of
\* its teardown, its writes are served with its own function and data, and it ends
\* between writes, when its handle has been closed or a title was stopped.
ImportPipe == INSTANCE Pipe
  WITH None <- 0, stops <- "end_title" \in may,
       users <- Users, closed <- \E i \in Users : client[i] = "closed", serving <- Serving

ImplementsPipe == ImportPipe!Spec

\* A command has used g_PipeManager.data after the pipe thread freed them.
Faulted == \E s \in Sessions : th[s].pc = "fault"

\* Every command is answered unless one has faulted: neither the wait for the pipe
\* thread's start nor the wait for its end, both made inside the lock, blocks for
\* good.
CommandsReturn ==
  "overlap" \notin may =>
    \A s \in Sessions : (th[s].pc # "idle") ~> (th[s].pc = "idle" \/ Faulted)

\* ipc.c:1246, 1276 and 1309: 0x0404 is to "cancel CIA install", 0x0405 and 0x0406
\* are to "finish" it.  They do, and do not end in a data abort instead.
CommandsNeverFault == "overlap" \notin may => ~Faulted

\* Once the handle of an accepted import is closed, the pipe thread closes the
\* session and frees the import's data.
TeardownCompletes ==
  OneAfterAnother =>
    \A i \in Imports : (client[i] = "closed") ~> (server[i] = "closed" /\ i \notin heap)
=============================================================================
