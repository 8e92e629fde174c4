----------------------------- MODULE TitleImport -----------------------------
(***************************************************************************)
(* The commands that import a title part by part (0x0801 to 0x0828), and   *)
(* what a CIA import does to the same title.  AM9 has one title open at a  *)
(* time for the whole system; AM keeps one flag per session, importing_    *)
(* title, to know whose it is.  AM9 is external: a request may be refused, *)
(* and is refused when what it begins is open or what it ends is not.      *)
(*                                                                         *)
(* A step is the code between two points where another thread may see the  *)
(* difference: a request to AM9, or a use of the pipe.  Of the pipe there  *)
(* are the init flag, the close event, the start of its thread, its writes *)
(* and its end; module PipeManager has the steps these are made of.        *)
(***************************************************************************)
EXTENDS FiniteSets

CONSTANTS
  Sessions,    \* the places of AM_SessionsData that clients of am:net have
  Media,       \* media types; some member is FirstMedia, the zero of .data
  FirstMedia,
  Mays         \* the environments: sets of what may happen beside the plain
               \* protocol
               \*   "die"        a client dies, and another gets its place
               \*   "overlap"    commands that use the pipe overlap, or an import
               \*                is begun before the last one's handle came back
               \*   "late_start" a title is stopped before AM_Main has started the
               \*                thread of the import that has the pipe
               \*   "late_read"  the pipe thread frees the data of a CIA import
               \*                before the command that finishes it reads them
               \*   "no_pipe"    the pipe cannot be created for want of memory
               \*   "refuse_end" AM9 refuses to end what is open
               \*   "finish_open"   a title is finished with a handle still open
               \*   "finish_early"  a CIA import is finished without its title

ASSUME MediaAssumption == FirstMedia \in Media

NoOne == "no one"
CIA == "cia"      \* a title that a CIA import began has no session

ASSUME SessionsAssumption == NoOne \notin Sessions /\ CIA \notin Sessions

VARIABLES
  may,              \* the environment of this behaviour, which never changes
  importing_title, media,  \* AM_SessionData, by place
  th,               \* each session's thread: where it is, the kind of import
  handle,           \* the kind of import handle each client has, or "none"
  init, close_event,  \* g_PipeManager: the flag, the event that ends the thread
  pipe,             \* the import that has the pipe, or NoImport
  sent, writing,    \* its client's write: sent, or in the write function
  title, part       \* AM9: the open title, and who began each open part of it

am9 == <<title, part>>
data == <<importing_title, media>>
manager == <<init, close_event>>
write == <<sent, writing>>
vars == <<may, data, th, handle, manager, pipe, write, am9>>

Parts == {"ticket", "tmd", "content"}
NoTitle == [by |-> NoOne, media |-> FirstMedia]
NoImport == [kind |-> "none", by |-> NoOne, started |-> FALSE, closed |-> FALSE, cia |-> "none"]

Init ==
  /\ may \in Mays
  /\ importing_title = [s \in Sessions |-> FALSE]
  /\ media = [s \in Sessions |-> FirstMedia]
  /\ th = [s \in Sessions |-> [pc |-> "idle", kind |-> "none"]]
  /\ handle = [s \in Sessions |-> "none"]
  /\ init = FALSE /\ close_event = FALSE
  /\ pipe = NoImport /\ sent = FALSE /\ writing = FALSE
  /\ title = NoTitle /\ part = [k \in Parts |-> NoOne]

\* A client sends a command when it waits for no answer, here or on the pipe.
Idle(s) == th[s].pc = "idle" /\ ~((sent \/ writing) /\ pipe.by = s /\ ~pipe.closed)

Goto(s, l) == th' = [th EXCEPT ![s] = [pc |-> l, kind |-> th[s].kind]]
Return(s) == th' = [th EXCEPT ![s] = [pc |-> "idle", kind |-> "none"]]

\* The commands that use the pipe: to begin an import, to end one, to stop its
\* thread.  Without "overlap" a client sends one when no other is in progress.
Finishing == {"cia_close", "cia_reset", "cia_read", "cia_finish", "cia_lost"}
PipeCommands == Finishing \union {"create", "close", "reset", "exit", "exit_wait"}

MayUsePipe(s) ==
  "overlap" \notin may => \A r \in Sessions \ {s} : th[r].pc \notin PipeCommands

-----------------------------------------------------------------------------
(* AM9 *)

\* A title stops being open, and its parts with it.
TitleEnds ==
  /\ title' = NoTitle
  /\ part' = [part EXCEPT !["tmd"] = NoOne, !["content"] = NoOne]

\* A request to pause, cancel or finish the title, whoever began it.
EndOpenTitle ==
  \/ title # NoTitle /\ TitleEnds
  \/ (title = NoTitle \/ "refuse_end" \in may) /\ UNCHANGED am9

-----------------------------------------------------------------------------
(* Titles: 0x0804, 0x0806, 0x0828 begin, 0x0805, 0x0807, 0x0808 end *)

\* Mutant: the flag is set whatever AM9 says.
BugFlagBeforeResult(s, m) ==
  /\ Idle(s) /\ ~importing_title[s]
  /\ \/ title = NoTitle /\ title' = [by |-> s, media |-> m]
     \/ UNCHANGED title
  /\ importing_title' = [importing_title EXCEPT ![s] = TRUE]
  /\ media' = [media EXCEPT ![s] = m]
  /\ UNCHANGED <<may, th, handle, manager, pipe, write, part>>

\* The flag and the medium are recorded when AM9 agrees; nothing changes when
\* the session has a title already, or AM9 refuses.
BeginTitle(s, m) ==
  /\ Idle(s) /\ ~importing_title[s]
  /\ title = NoTitle
  /\ title' = [by |-> s, media |-> m]
  /\ importing_title' = [importing_title EXCEPT ![s] = TRUE]
  /\ media' = [media EXCEPT ![s] = m]
  /\ UNCHANGED <<may, th, handle, manager, pipe, write, part>>

\* Pause and cancel: first AM_Pipe_EnsureThreadExit ...
StopTitle(s) ==
  /\ Idle(s) /\ importing_title[s] /\ MayUsePipe(s)
  /\ Goto(s, "exit")
  /\ UNCHANGED <<may, data, handle, manager, pipe, write, am9>>

\* CreateImportHandle and EnsureThreadExit hold the pipe's lock, the latter
\* also while it waits.
LockIsFree == \A s \in Sessions : th[s].pc # "exit_wait"

\* Mutant: the pipe thread is told to leave, and not waited for.
BugExitDoesNotWait(s) ==
  /\ th[s].pc = "exit" /\ LockIsFree
  /\ close_event' = (close_event \/ init) /\ init' = FALSE
  /\ Goto(s, "stop")
  /\ UNCHANGED <<may, data, handle, pipe, write, am9>>

\* ... which signals the close event and waits for the thread whose handle
\* g_PipeManager has now, if the flag is set.  Until AM_Main has started the
\* thread of the import that is open, that is no thread or one that has ended,
\* and there is nothing to wait for ...
EnsureThreadExit(s) ==
  /\ th[s].pc = "exit" /\ LockIsFree
  /\ "late_start" \notin may /\ pipe # NoImport => pipe.started
  /\ close_event' = (close_event \/ init)
  /\ \/ init /\ pipe.started /\ Goto(s, "exit_wait") /\ UNCHANGED init
     \/ ~(init /\ pipe.started) /\ Goto(s, "stop") /\ init' = FALSE
  /\ UNCHANGED <<may, data, handle, pipe, write, am9>>

PipeThreadIsGone(s) ==
  /\ th[s].pc = "exit_wait" /\ ~pipe.started
  /\ init' = FALSE
  /\ Goto(s, "stop")
  /\ UNCHANGED <<may, data, handle, close_event, pipe, write, am9>>

\* Mutant: AM9 is not asked.
BugStopForgotten(s) ==
  /\ th[s].pc = "stop"
  /\ importing_title' = [importing_title EXCEPT ![s] = FALSE]
  /\ Return(s)
  /\ UNCHANGED <<may, media, handle, manager, pipe, write, am9>>

\* ... then the flag, and AM9 last.
StopInAM9(s) ==
  /\ th[s].pc = "stop"
  /\ importing_title' = [importing_title EXCEPT ![s] = FALSE]
  /\ EndOpenTitle
  /\ Return(s)
  /\ UNCHANGED <<may, media, handle, manager, pipe, write>>

\* Finish does not wait for the pipe.
FinishTitle(s) ==
  /\ Idle(s) /\ importing_title[s]
  /\ handle[s] \in {"tmd", "content"} => "finish_open" \in may
  /\ importing_title' = [importing_title EXCEPT ![s] = FALSE]
  /\ EndOpenTitle
  /\ UNCHANGED <<may, media, th, handle, manager, pipe, write>>

-----------------------------------------------------------------------------
(* Begin a part: 0x0801 the ticket, 0x080A the TMD, 0x080E and 0x0810 a content *)

\* A client gives back the handle it has before it begins another import.
MayBegin(s) ==
  /\ Idle(s) /\ handle[s] = "none" /\ MayUsePipe(s)
  /\ "overlap" \notin may => pipe = NoImport /\ \A r \in Sessions : handle[r] = "none"

\* AM9 first.  When it agrees, the pipe is next.
BeginPart(s, k) ==
  /\ MayBegin(s)
  /\ part[k] = NoOne
  /\ part' = [part EXCEPT ![k] = s]
  /\ th' = [th EXCEPT ![s] = [pc |-> "create", kind |-> k]]
  /\ UNCHANGED <<may, data, handle, manager, pipe, write, title>>

BeginTicket(s) == BeginPart(s, "ticket")

BeginTMD(s) == importing_title[s] /\ title # NoTitle /\ BeginPart(s, "tmd")

BeginContent(s) == importing_title[s] /\ title # NoTitle /\ BeginPart(s, "content")

\* AM_Pipe_CreateImportHandle.  The port has room for one session; when there
\* is none, the flag stays set.  When it fails AM9 is left as it is.
CreateImportHandle(s) ==
  LET k == th[s].kind IN
  /\ th[s].pc = "create" /\ LockIsFree
  /\ \/ init /\ UNCHANGED <<init, pipe, handle>>
     \/ /\ ~init /\ init' = TRUE
        /\ pipe = NoImport
        /\ pipe' = [kind |-> k, by |-> s, started |-> FALSE, closed |-> FALSE,
                    cia |-> IF k = "cia" THEN "fresh" ELSE "none"]
        /\ handle' = [handle EXCEPT ![s] = k]
     \/ /\ ~init /\ init' = TRUE
        /\ pipe # NoImport \/ "no_pipe" \in may
        /\ UNCHANGED <<pipe, handle>>
  /\ Return(s)
  /\ UNCHANGED <<may, data, close_event, write, am9>>

-----------------------------------------------------------------------------
(* End a part: 0x0802, 0x0803, 0x080B, 0x080C, 0x080F, 0x0811, 0x0812 *)

\* The client moves the handle to AM.
MoveHandle(s, k, l) ==
  /\ Idle(s) /\ handle[s] = k /\ MayUsePipe(s)
  /\ handle' = [handle EXCEPT ![s] = "none"]
  /\ th' = [th EXCEPT ![s] = [pc |-> l, kind |-> k]]
  /\ UNCHANGED <<may, data, manager, pipe, write>>

\* AM9's answer is for the client; the handle is closed in any case.
EndPart(s, k) ==
  /\ MoveHandle(s, k, "close")
  /\ \/ part[k] # NoOne /\ part' = [part EXCEPT ![k] = NoOne]
     \/ (part[k] = NoOne \/ "refuse_end" \in may) /\ UNCHANGED part
  /\ UNCHANGED title

EndTicket(s) == EndPart(s, "ticket")

\* Without a title of its own the session is refused, and the handle it has
\* moved is not closed.
Refuse(s, k) ==
  /\ ~importing_title[s] /\ Idle(s) /\ handle[s] = k
  /\ handle' = [handle EXCEPT ![s] = "none"]
  /\ UNCHANGED <<may, data, th, manager, pipe, write, am9>>

EndTMD(s) ==
  \/ importing_title[s] /\ EndPart(s, "tmd")
  \/ Refuse(s, "tmd")

EndContent(s) ==
  \/ importing_title[s] /\ EndPart(s, "content")
  \/ Refuse(s, "content")

\* Pause closes the handle also when it refuses.
PauseContent(s) ==
  \/ importing_title[s] /\ EndPart(s, "content")
  \/ ~importing_title[s] /\ MoveHandle(s, "content", "close") /\ UNCHANGED am9

\* The pipe thread notices if it serves this import.
ClosesPipe(s, k) ==
  pipe' = IF pipe.by = s /\ pipe.kind = k THEN [pipe EXCEPT !.closed = TRUE] ELSE pipe

\* Mutant: the handle stays open.
BugNotClosed(s) ==
  /\ th[s].pc \in {"close", "cia_close"}
  /\ Goto(s, IF th[s].pc = "close" THEN "reset" ELSE "cia_reset")
  /\ UNCHANGED <<may, data, handle, manager, pipe, write, am9>>

\* AM_Pipe_CloseImportHandle, first the handle ...
CloseImportHandle(s) ==
  /\ th[s].pc \in {"close", "cia_close"}
  /\ ClosesPipe(s, th[s].kind)
  /\ Goto(s, IF th[s].pc = "close" THEN "reset" ELSE "cia_reset")
  /\ UNCHANGED <<may, data, handle, manager, write, am9>>

\* ... then the flag, whichever import it was set for.
ResetInit(s) ==
  /\ \/ th[s].pc = "reset" /\ Return(s)
     \/ th[s].pc = "cia_reset" /\ Goto(s, "cia_read")
  /\ init' = FALSE
  /\ UNCHANGED <<may, data, handle, close_event, pipe, write, am9>>

-----------------------------------------------------------------------------
(* The pipe thread *)

\* AM_Main has accepted the session, and the thread that was before has ended.
StartPipeThread ==
  /\ pipe # NoImport /\ ~pipe.started
  /\ pipe' = [pipe EXCEPT !.started = TRUE]
  /\ UNCHANGED <<may, data, th, handle, manager, write, am9>>

\* A client that has the handle sends a write, whether the thread runs or not ...
Write ==
  /\ pipe # NoImport /\ ~sent /\ ~writing /\ ~pipe.closed
  /\ handle[pipe.by] = pipe.kind /\ Idle(pipe.by)
  /\ sent' = TRUE
  /\ UNCHANGED <<may, data, th, handle, manager, pipe, writing, am9>>

\* ... and the thread receives it.
ReceiveWrite ==
  /\ pipe.started /\ sent
  /\ sent' = FALSE /\ writing' = TRUE
  /\ UNCHANGED <<may, data, th, handle, manager, pipe, am9>>

\* AM_Pipe_CIA_Write begins its title ...
CIABeginTitle ==
  /\ writing /\ pipe.cia \in {"fresh", "between"}
  /\ \/ /\ title = NoTitle
        /\ title' = [by |-> CIA, media |-> FirstMedia]
        /\ pipe' = [pipe EXCEPT !.cia = "title"]
     \/ /\ pipe' = [pipe EXCEPT !.cia = "failed"]
        /\ UNCHANGED title
  /\ UNCHANGED <<may, data, th, handle, manager, write, part>>

\* ... and, between the batches of a DLC, finishes it and begins it again.
CIAFinishBatch ==
  /\ writing /\ pipe.cia = "title"
  /\ \/ /\ TitleEnds
        /\ pipe' = [pipe EXCEPT !.cia = "between"]
     \/ /\ "refuse_end" \in may
        /\ pipe' = [pipe EXCEPT !.cia = "title_failed"]
        /\ UNCHANGED am9
  /\ UNCHANGED <<may, data, th, handle, manager, write>>

WriteReturns ==
  /\ writing /\ pipe.cia # "between"
  /\ writing' = FALSE
  /\ UNCHANGED <<may, data, th, handle, manager, pipe, sent, am9>>

\* The client has closed its handle, or the close event is set: then also when
\* a write has been sent, which fails.  A thread that leaves for the first
\* reason leaves the event as it is.
PipeThreadExits ==
  /\ pipe.started /\ ~writing
  /\ "late_read" \notin may =>
       \A s \in Sessions : th[s].pc \notin {"cia_close", "cia_reset", "cia_read"}
  /\ \/ pipe.closed /\ UNCHANGED close_event
     \/ close_event /\ close_event' = FALSE
  /\ pipe' = NoImport /\ sent' = FALSE
  /\ UNCHANGED <<may, data, th, handle, init, writing, am9>>

-----------------------------------------------------------------------------
(* A CIA import: 0x0402, 0x0403 begin, 0x0404 cancels, 0x0405, 0x0406 finish. *)
(* Commands are sent while the pipe serves the import.                        *)

BeginCIA(s) ==
  /\ MayBegin(s)
  /\ th' = [th EXCEPT ![s] = [pc |-> "create", kind |-> "cia"]]
  /\ UNCHANGED <<may, data, handle, manager, pipe, write, am9>>

HasCIA(s) == pipe.by = s /\ pipe.kind = "cia" /\ ~pipe.closed

\* Cancel ends the title if the import has one.
CancelCIA(s) ==
  /\ HasCIA(s) /\ MoveHandle(s, "cia", "close")
  /\ \/ pipe.cia \in {"title", "title_failed"} /\ EndOpenTitle
     \/ pipe.cia \notin {"title", "title_failed"} /\ UNCHANGED am9

\* Finish closes the handle first, as above ...
FinishCIA(s) ==
  /\ HasCIA(s)
  /\ "finish_early" \notin may => pipe.cia \in {"title", "title_failed"}
  /\ MoveHandle(s, "cia", "cia_close")
  /\ UNCHANGED am9

\* ... then reads g_PipeManager.data.  When the pipe thread has cleared it, 0x0406
\* uses it at once, 0x0405 when it has asked AM9, and neither goes on after that ...
ReadData(s) ==
  /\ th[s].pc = "cia_read"
  /\ \/ pipe.kind = "cia" /\ Goto(s, "cia_finish")
     \/ pipe.kind # "cia" /\ \E l \in {"cia_lost", "fault"} : Goto(s, l)
  /\ UNCHANGED <<may, data, handle, manager, pipe, write, am9>>

\* ... and finishes the title that is open.
FinishCIATitle(s) ==
  /\ \/ th[s].pc = "cia_finish" /\ Return(s)
     \/ th[s].pc = "cia_lost" /\ Goto(s, "fault")
  /\ EndOpenTitle
  /\ UNCHANGED <<may, data, handle, manager, pipe, write>>

\* A client whose CIA import has lost the pipe closes its handle.
DropHandle(s) ==
  /\ Idle(s) /\ handle[s] = "cia" /\ ~HasCIA(s)
  /\ handle' = [handle EXCEPT ![s] = "none"]
  /\ UNCHANGED <<may, data, th, manager, pipe, write, am9>>

-----------------------------------------------------------------------------
(* A client dies; getNewSessionData gives its place to the next *)

\* The flag is reset, and the medium is not.
NextClient(s) ==
  /\ "die" \in may /\ th[s].pc = "idle"
  /\ importing_title' = [importing_title EXCEPT ![s] = FALSE]
  /\ handle' = [handle EXCEPT ![s] = "none"]
  /\ IF handle[s] = pipe.kind THEN ClosesPipe(s, pipe.kind) ELSE UNCHANGED pipe
  /\ sent' = (sent /\ pipe.by # s)
  /\ UNCHANGED <<may, media, th, manager, writing, am9>>

-----------------------------------------------------------------------------
Next ==
  \/ \E s \in Sessions :
       \/ \E m \in Media : BeginTitle(s, m)
       \/ StopTitle(s)   \/ EnsureThreadExit(s) \/ PipeThreadIsGone(s)
       \/ StopInAM9(s)   \/ FinishTitle(s)
       \/ BeginTicket(s) \/ BeginTMD(s) \/ BeginContent(s) \/ CreateImportHandle(s)
       \/ EndTicket(s)   \/ EndTMD(s)   \/ EndContent(s)   \/ PauseContent(s)
       \/ CloseImportHandle(s) \/ ResetInit(s)
       \/ BeginCIA(s)    \/ CancelCIA(s) \/ FinishCIA(s)   \/ ReadData(s)
       \/ FinishCIATitle(s)
       \/ DropHandle(s)  \/ NextClient(s)
  \/ StartPipeThread \/ Write \/ ReceiveWrite \/ CIABeginTitle \/ CIAFinishBatch
  \/ WriteReturns \/ PipeThreadExits

\* What a session's thread does in a command it has begun.
Command(s) ==
  \/ EnsureThreadExit(s)   \/ PipeThreadIsGone(s) \/ StopInAM9(s)
  \/ CreateImportHandle(s) \/ CloseImportHandle(s) \/ ResetInit(s)
  \/ ReadData(s) \/ FinishCIATitle(s)

\* The module's threads run.  The pipe thread looks at its close event between
\* any two writes, however many there are.
Fairness ==
  /\ \A s \in Sessions : WF_vars(Command(s))
  /\ WF_vars(StartPipeThread)
  /\ WF_vars(ReceiveWrite \/ WriteReturns \/ CIABeginTitle) /\ SF_vars(PipeThreadExits)

Spec == Init /\ [][Next]_vars /\ Fairness

-----------------------------------------------------------------------------
(* Properties *)

May(X) == may \intersect X # {}

\* A session whose flag is set has its own title open in AM9, on the medium by
\* which errors are judged; so no two sessions have their flag set, and what a
\* flagged session asks of AM9 concerns its own title.  (Not when a CIA import
\* without a title is finished: that finishes the title of another.)
FlagMeansOwnTitle ==
  ~May({"finish_early"}) =>
    \A s \in Sessions : importing_title[s] => title = [by |-> s, media |-> media[s]]

\* Between commands nothing is open that no client can end, as long as clients
\* live, AM9 agrees and the pipe has room: the title has its session's flag set,
\* or its CIA import has the pipe; a part has its handle with the client; and so
\* has the pipe, unless a title was finished over it.  (Not when a stop misses
\* the pipe thread, by "late_start" or because of a flag or an event that an
\* overlapping command has left; nor when finishing a CIA import faults.)
NothingOrphaned ==
  (\A s \in Sessions : th[s].pc \in {"idle", "fault"}) /\ ~May({"overlap", "late_start"}) =>
    /\ ~May({"die", "refuse_end", "no_pipe", "late_read"}) =>
         \/ title = NoTitle
         \/ title.by = CIA /\ pipe.cia = "title"
         \/ title.by \in Sessions /\ importing_title[title.by]
    /\ ~May({"die", "refuse_end", "no_pipe"}) =>
         \A k \in Parts : part[k] # NoOne => handle[part[k]] = k
    /\ ~May({"finish_open"}) =>
         pipe = NoImport \/ pipe.closed \/ handle[pipe.by] = pipe.kind

\* The pipe thread gives AM9 bytes for a part only while AM9 has that part open,
\* for the session whose client writes; so a stop that finds the pipe thread
\* ends the part's writes before it ends the part.
WritesReachOpenPart ==
  ~May({"finish_open", "finish_early", "overlap", "late_start"}) =>
    (writing /\ pipe.kind \in Parts => part[pipe.kind] = pipe.by)

\* main.c:322: the close event is "used to tell pipe thread to exit when pausing
\* or cancelling imports", so no write goes to a title once it was paused or
\* cancelled.
NoWritesAfterStop ==
  writing /\ pipe.kind \in {"tmd", "content"} => importing_title[pipe.by]

\* What sessions, commands and CIA imports do to the pipe is what a pipe allows,
\* and what PipeManager is shown to implement: whatever fails or overlaps, no
\* import takes it from another, and none loses it during a write.
ImportPipe == INSTANCE Pipe
  WITH Imports <- Sessions, None <- NoOne, stops <- TRUE,
       users <- {pipe.by} \ {NoOne}, closed <- pipe.closed,
       serving <- IF writing THEN pipe.by ELSE NoOne

UsesPipe == ImportPipe!Spec

\* A title does not stay open in AM9 if every client asks to stop its own again and
\* again, and gives CIA imports back: whatever the interleaving of titles, pipe
\* thread and CIA imports, the stop comes back from its wait and has AM9 end it.
TitlesEnd ==
  /\ ~May({"die", "refuse_end", "no_pipe", "overlap", "late_start", "late_read"})
  /\ \A s \in Sessions :
       /\ []<>(~importing_title[s] \/ th[s].pc \in {"exit", "exit_wait", "stop"})
       /\ []<>(handle[s] # "cia")
  => (title # NoTitle ~> title = NoTitle)
=============================================================================
