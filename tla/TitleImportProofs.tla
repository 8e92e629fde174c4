-------------------------- MODULE TitleImportProofs --------------------------
(* Theorems about TitleImport, for any sessions, any media and any set of     *)
(* environments.  A session whose importing_title is set has its own title    *)
(* open in AM9.  Where commands use the pipe one at a time and a stop finds   *)
(* the pipe thread, what the thread writes reaches the part that its client   *)
(* began, and what stays open has somebody who can end it.  Module            *)
(* MCTitleImport has an instance for TLC.                                     *)
EXTENDS TitleImport, TLAPS

Kinds == Parts \union {"cia", "none"}
Places == PipeCommands \union {"idle", "stop", "fault"}
Threads == [pc : Places, kind : Kinds]
Pipes == [kind : Kinds, by : Sessions \union {NoOne}, started : BOOLEAN, closed : BOOLEAN,
          cia : {"none", "fresh", "title", "between", "failed", "title_failed"}]
PartTitle == {"tmd", "content"}

\* Types, of what the invariants are about.
TypeOK ==
  /\ importing_title \in [Sessions -> BOOLEAN]
  /\ media \in [Sessions -> Media]
  /\ th \in [Sessions -> Threads]
  /\ handle \in [Sessions -> Kinds]
  /\ init \in BOOLEAN /\ close_event \in BOOLEAN
  /\ pipe \in Pipes
  /\ sent \in BOOLEAN /\ writing \in BOOLEAN
  /\ title \in [by : Sessions \union {NoOne, CIA}, media : Media]
  /\ title.by = NoOne => title = NoTitle
  /\ pipe.cia # "none" => pipe.kind = "cia"
  /\ pipe.kind # "none" => pipe.by \in Sessions

\* What is true of threads and pipe in every environment: a thread with a command
\* that has taken a handle has it no more, one that begins a part has a title to
\* which it belongs, and one at a time waits for the pipe thread;
BusyThreads ==
  /\ \A s \in Sessions :
       /\ th[s].pc \in Finishing \union {"create", "close", "reset"} => th[s].kind # "none" /\ handle[s] = "none"
       /\ th[s].pc = "create" /\ th[s].kind \in PartTitle => importing_title[s]
       /\ th[s].pc \in Finishing => th[s].kind = "cia"
  /\ \A r, s \in Sessions : th[r].pc = "exit_wait" /\ th[s].pc = "exit_wait" => r = s

\* a write is sent or served, of an import whose client has the handle.
PipeState ==
  /\ part \in [Parts -> Sessions \union {NoOne}]
  /\ pipe.kind = "none" => pipe = NoImport
  /\ pipe.closed => handle[pipe.by] # pipe.kind
  /\ sent => ~writing /\ ~pipe.closed
  /\ writing => pipe.started
  /\ sent \/ writing => pipe.kind # "none"
  /\ (sent \/ writing) /\ ~pipe.closed => handle[pipe.by] = pipe.kind /\ th[pipe.by].pc = "idle"

\* The CIA import that has the pipe has begun a title, and may still end it.
CIAHasTitle ==
  /\ pipe.cia \in {"title", "title_failed"}
  /\ writing \/ (~pipe.closed /\ handle[pipe.by] = "cia")

FlagIsOwn == \A s \in Sessions : importing_title[s] => title = [by |-> s, media |-> media[s]]

\* Only a session with a title is on its way to stop one.
StopperHasFlag == \A s \in Sessions : th[s].pc \in {"exit", "exit_wait", "stop"} => importing_title[s]

\* Whoever may end a title as a CIA import has one, and there is only one.
EnderIsCIA ==
  /\ CIAHasTitle => title.by = CIA
  /\ \A s \in Sessions : th[s].pc \in Finishing => title.by = CIA /\ ~CIAHasTitle
  /\ \A r, s \in Sessions : th[r].pc \in Finishing /\ th[s].pc \in Finishing => r = s

Owned == FlagIsOwn /\ StopperHasFlag /\ EnderIsCIA

-----------------------------------------------------------------------------
\* What a session's client or thread does.
SStep(s) ==
  \/ \E m \in Media : BeginTitle(s, m)
  \/ StopTitle(s)   \/ EnsureThreadExit(s) \/ PipeThreadIsGone(s)
  \/ StopInAM9(s)   \/ FinishTitle(s)
  \/ BeginTicket(s) \/ BeginTMD(s) \/ BeginContent(s) \/ CreateImportHandle(s)
  \/ EndTicket(s)   \/ EndTMD(s)   \/ EndContent(s)   \/ PauseContent(s)
  \/ CloseImportHandle(s) \/ ResetInit(s)
  \/ BeginCIA(s)    \/ CancelCIA(s) \/ FinishCIA(s)   \/ ReadData(s)
  \/ FinishCIATitle(s)
  \/ DropHandle(s)  \/ NextClient(s)

\* The same, with the commands for the three kinds of part taken together.
BeginsPart(s, k) ==
  BeginPart(s, k) /\ (k \in PartTitle => importing_title[s] /\ title # NoTitle)

EndsPart(s, k) == EndPart(s, k) /\ (k \in PartTitle => importing_title[s])

PauseRefused(s) == ~importing_title[s] /\ MoveHandle(s, "content", "close") /\ UNCHANGED am9

StepKind(s) ==
  \/ \E m \in Media : BeginTitle(s, m)
  \/ \E k \in Parts : BeginsPart(s, k)
  \/ \E k \in Parts : EndsPart(s, k)
  \/ \E k \in PartTitle : Refuse(s, k)
  \/ PauseRefused(s)
  \/ StopTitle(s)
  \/ EnsureThreadExit(s)
  \/ PipeThreadIsGone(s)
  \/ StopInAM9(s)
  \/ FinishTitle(s)
  \/ CreateImportHandle(s)
  \/ CloseImportHandle(s)
  \/ ResetInit(s)
  \/ BeginCIA(s)
  \/ CancelCIA(s)
  \/ FinishCIA(s)
  \/ ReadData(s)
  \/ FinishCIATitle(s)
  \/ DropHandle(s)
  \/ NextClient(s)

LEMMA StepKinds ==
  ASSUME NEW s \in Sessions, SStep(s)
  PROVE  StepKind(s)
<1>1. Parts = {"ticket", "tmd", "content"} /\ PartTitle = {"tmd", "content"}
  BY DEF Parts, PartTitle
<1>2. CASE BeginTicket(s) \/ BeginTMD(s) \/ BeginContent(s)
  BY <1>1, <1>2 DEF BeginTicket, BeginTMD, BeginContent, BeginsPart, StepKind
<1>3. CASE EndTicket(s) \/ EndTMD(s) \/ EndContent(s)
  BY <1>1, <1>3 DEF EndTicket, EndTMD, EndContent, EndsPart, StepKind
<1>4. CASE PauseContent(s)
  BY <1>1, <1>4 DEF PauseContent, EndsPart, PauseRefused, StepKind
<1>q. QED
  BY <1>2, <1>3, <1>4 DEF SStep, StepKind

\* Every step keeps the types.
LEMMA Typing ==
  ASSUME TypeOK, Next
  PROVE  TypeOK'
<1> USE SessionsAssumption, MediaAssumption
<1> USE DEF TypeOK, Threads, Places, PipeCommands, Finishing, Pipes, Kinds, Parts,
            PartTitle, am9, data, manager, write, NoImport
<1>1. ASSUME NEW s \in Sessions, SStep(s) PROVE TypeOK'
  <2>1. ASSUME NEW m \in Media, BeginTitle(s, m) PROVE TypeOK'
    BY <2>1 DEF BeginTitle, NoTitle
  <2>2. ASSUME NEW k \in Parts, BeginsPart(s, k) PROVE TypeOK'
    BY <2>2 DEF BeginsPart, BeginPart, MayBegin, MayUsePipe
  <2>3. ASSUME NEW k \in Parts, EndsPart(s, k) PROVE TypeOK'
    BY <2>3 DEF EndsPart, EndPart, MoveHandle, MayUsePipe
  <2>4. ASSUME NEW k \in PartTitle, Refuse(s, k) PROVE TypeOK'
    BY <2>4 DEF Refuse
  <2>5. CASE PauseRefused(s)
    BY <2>5 DEF PauseRefused, MoveHandle, MayUsePipe
  <2>6. CASE StopTitle(s)
    BY <2>6 DEF StopTitle, Goto, MayUsePipe
  <2>7. CASE EnsureThreadExit(s)
    <3>1. CASE init /\ pipe.started /\ Goto(s, "exit_wait") /\ UNCHANGED init
      BY <2>7, <3>1 DEF EnsureThreadExit, Goto, LockIsFree
    <3>2. CASE ~(init /\ pipe.started) /\ Goto(s, "stop") /\ init' = FALSE
      BY <2>7, <3>2 DEF EnsureThreadExit, Goto, LockIsFree
    <3>q. QED
      BY <2>7, <3>1, <3>2 DEF EnsureThreadExit
  <2>8. CASE PipeThreadIsGone(s)
    BY <2>8 DEF PipeThreadIsGone, Goto
  <2>9. CASE StopInAM9(s)
    BY <2>9 DEF StopInAM9, Return, EndOpenTitle, TitleEnds, NoTitle
  <2>10. CASE FinishTitle(s)
    BY <2>10 DEF FinishTitle, EndOpenTitle, TitleEnds, NoTitle
  <2>11. CASE CreateImportHandle(s)
      <3>1. th' \in [Sessions -> Threads] /\ th[s].kind \in Kinds
        BY <2>11 DEF CreateImportHandle, Return
      <3>2. CASE UNCHANGED <<pipe, handle>>
        <4>1. init' \in BOOLEAN /\ UNCHANGED <<importing_title, media, handle, close_event, pipe, sent, writing, title>>
          BY <2>11, <3>2 DEF CreateImportHandle
        <4>q. QED
          BY <3>1, <4>1
      <3>3. CASE /\ handle' = [handle EXCEPT ![s] = th[s].kind]
                 /\ pipe' = [kind |-> th[s].kind, by |-> s, started |-> FALSE, closed |-> FALSE,
                             cia |-> IF th[s].kind = "cia" THEN "fresh" ELSE "none"]
        BY <2>11, <3>1, <3>3 DEF CreateImportHandle
      <3>q. QED
        BY <2>11, <3>2, <3>3 DEF CreateImportHandle
  <2>12. CASE CloseImportHandle(s)
    <3>1. CASE th[s].pc = "close" /\ ~(pipe.by = s /\ pipe.kind = th[s].kind)
      BY <2>12, <3>1 DEF CloseImportHandle, Goto, ClosesPipe
    <3>2. CASE th[s].pc = "cia_close" /\ ~(pipe.by = s /\ pipe.kind = th[s].kind)
      BY <2>12, <3>2 DEF CloseImportHandle, Goto, ClosesPipe
    <3>3. CASE th[s].pc = "close" /\ pipe.by = s /\ pipe.kind = th[s].kind
      BY <2>12, <3>3 DEF CloseImportHandle, Goto, ClosesPipe
    <3>4. CASE th[s].pc = "cia_close" /\ pipe.by = s /\ pipe.kind = th[s].kind
      BY <2>12, <3>4 DEF CloseImportHandle, Goto, ClosesPipe
    <3>q. QED
      BY <2>12, <3>1, <3>2, <3>3, <3>4 DEF CloseImportHandle, ClosesPipe
  <2>13. CASE ResetInit(s)
    <3>1. CASE th[s].pc = "reset" /\ Return(s)
      BY <2>13, <3>1 DEF ResetInit, Return, Goto
    <3>2. CASE th[s].pc = "cia_reset" /\ Goto(s, "cia_read")
      BY <2>13, <3>2 DEF ResetInit, Return, Goto
    <3>q. QED
      BY <2>13, <3>1, <3>2 DEF ResetInit
  <2>14. CASE BeginCIA(s)
    BY <2>14 DEF BeginCIA, MayBegin, MayUsePipe
  <2>15. CASE CancelCIA(s)
    BY <2>15 DEF CancelCIA, HasCIA, MoveHandle, MayUsePipe, EndOpenTitle, TitleEnds, NoTitle
  <2>16. CASE FinishCIA(s)
    BY <2>16 DEF FinishCIA, HasCIA, MoveHandle, MayUsePipe
  <2>17. CASE ReadData(s)
    <3>1. CASE pipe.kind = "cia" /\ Goto(s, "cia_finish")
      BY <2>17, <3>1 DEF ReadData, Goto
    <3>2. CASE pipe.kind # "cia" /\ Goto(s, "cia_lost")
      BY <2>17, <3>2 DEF ReadData, Goto
    <3>3. CASE pipe.kind # "cia" /\ Goto(s, "fault")
      BY <2>17, <3>3 DEF ReadData, Goto
    <3>q. QED
      BY <2>17, <3>1, <3>2, <3>3 DEF ReadData
  <2>18. CASE FinishCIATitle(s)
    <3>1. CASE th[s].pc = "cia_finish" /\ Return(s) /\ title # NoTitle /\ TitleEnds
      BY <2>18, <3>1 DEF FinishCIATitle, Goto, Return, EndOpenTitle, TitleEnds, NoTitle
    <3>2. CASE th[s].pc = "cia_finish" /\ Return(s) /\ UNCHANGED am9
      BY <2>18, <3>2 DEF FinishCIATitle, Goto, Return, EndOpenTitle, TitleEnds, NoTitle
    <3>3. CASE th[s].pc = "cia_lost" /\ Goto(s, "fault") /\ title # NoTitle /\ TitleEnds
      BY <2>18, <3>3 DEF FinishCIATitle, Goto, Return, EndOpenTitle, TitleEnds, NoTitle
    <3>4. CASE th[s].pc = "cia_lost" /\ Goto(s, "fault") /\ UNCHANGED am9
      BY <2>18, <3>4 DEF FinishCIATitle, Goto, Return, EndOpenTitle, TitleEnds, NoTitle
    <3>q. QED
      BY <2>18, <3>1, <3>2, <3>3, <3>4 DEF FinishCIATitle, EndOpenTitle
  <2>19. CASE DropHandle(s)
    BY <2>19 DEF DropHandle, HasCIA
  <2>20. CASE NextClient(s)
    BY <2>20, ZenonT(60) DEF NextClient, ClosesPipe
  <2>q. QED
    BY <1>1, StepKinds, <2>1, <2>2, <2>3, <2>4, <2>5, <2>6, <2>7, <2>8, <2>9, <2>10,
       <2>11, <2>12, <2>13, <2>14, <2>15, <2>16, <2>17, <2>18, <2>19, <2>20 DEF StepKind
<1>2. CASE StartPipeThread
  BY <1>2 DEF StartPipeThread
<1>3. CASE Write
  BY <1>3 DEF Write
<1>4. CASE ReceiveWrite
  BY <1>4 DEF ReceiveWrite
<1>5. CASE CIABeginTitle
  <2>1. CASE title' = [by |-> CIA, media |-> FirstMedia] /\ pipe' = [pipe EXCEPT !.cia = "title"]
    BY <1>5, <2>1 DEF CIABeginTitle, NoOne, CIA
  <2>2. CASE pipe' = [pipe EXCEPT !.cia = "failed"] /\ UNCHANGED title
    BY <1>5, <2>2 DEF CIABeginTitle
  <2>q. QED
    BY <1>5, <2>1, <2>2 DEF CIABeginTitle
<1>6. CASE CIAFinishBatch
  BY <1>6 DEF CIAFinishBatch, TitleEnds, NoTitle
<1>7. CASE WriteReturns
  BY <1>7 DEF WriteReturns
<1>8. CASE PipeThreadExits
  BY <1>8 DEF PipeThreadExits
<1>q. QED
  BY <1>1, <1>2, <1>3, <1>4, <1>5, <1>6, <1>7, <1>8 DEF Next, SStep

\* No step changes the environment.
LEMMA MayIsFixed ==
  ASSUME Next
  PROVE  may' = may
  BY DEF Next, BeginTitle, StopTitle, EnsureThreadExit, PipeThreadIsGone, StopInAM9,
         FinishTitle, BeginTicket, BeginTMD, BeginContent, BeginPart,
         CreateImportHandle, EndTicket, EndTMD, EndContent, PauseContent,
         EndPart, Refuse, MoveHandle, CloseImportHandle, ResetInit, BeginCIA, CancelCIA,
         FinishCIA, ReadData, FinishCIATitle, DropHandle, NextClient, StartPipeThread, Write,
         ReceiveWrite, CIABeginTitle, CIAFinishBatch, WriteReturns, PipeThreadExits

-----------------------------------------------------------------------------
\* Without "overlap": one command uses the pipe, for the import that has it.
OneCommand ==
  /\ \A r, s \in Sessions : th[r].pc \in PipeCommands /\ th[s].pc \in PipeCommands => r = s
  /\ \A s \in Sessions :
       /\ th[s].pc = "create" => pipe = NoImport /\ \A r \in Sessions : handle[r] = "none"
       /\ handle[s] # "none" => pipe = NoImport \/ (pipe.by = s /\ pipe.kind = handle[s])
       /\ th[s].pc \in {"close", "cia_close"} =>
            pipe = NoImport \/ (pipe.by = s /\ pipe.kind = th[s].kind)
       /\ th[s].pc \in {"reset"} \union (Finishing \ {"cia_close"}) => pipe = NoImport \/ pipe.closed

\* And without "late_start": the flag is set for the import that has the pipe, and
\* who waits for a pipe thread waits for one that runs or has ended.
StopFindsThread ==
  /\ pipe # NoImport /\ ~pipe.closed => init
  /\ \A s \in Sessions :
       /\ th[s].pc = "exit_wait" => pipe = NoImport \/ pipe.started
       /\ th[s].pc = "stop" /\ pipe.by = s => pipe.closed

\* While clients live and there is memory: the flag and the close event are not
\* left from an earlier import.
EventHasWaiter ==
  /\ init => \/ pipe # NoImport /\ ~pipe.closed
             \/ \E s \in Sessions : th[s].pc \in {"reset", "cia_reset", "exit_wait"}
  /\ close_event => /\ pipe.started /\ ~pipe.closed
                    /\ \E s \in Sessions : th[s].pc = "exit_wait"

\* A served import has its client, which has the title that a part belongs to.
PipeHasClient ==
  pipe.kind # "none" /\ ~pipe.closed =>
    /\ \/ handle[pipe.by] = pipe.kind
       \/ th[pipe.by].pc \in {"close", "cia_close"} /\ th[pipe.by].kind = pipe.kind
    /\ pipe.kind \in PartTitle => importing_title[pipe.by]

\* The data of a CIA import are there for the command that finishes it.
DataAreThere == \A s \in Sessions : th[s].pc # "fault" /\ th[s].pc # "cia_lost"
                   /\ (th[s].pc \in {"cia_close", "cia_reset", "cia_read"} => pipe.kind = "cia")

\* An open title has somebody who will end it.
TitleHasEnder ==
  /\ title # NoTitle => title.by # NoOne
  /\ title.by \in Sessions => importing_title[title.by]
  /\ title.by = CIA =>
       \/ pipe.cia = "title" /\ ~pipe.closed /\ handle[pipe.by] = "cia"
       \/ \E s \in Sessions : th[s].pc \in Finishing \union {"exit_wait", "stop"}
  /\ pipe.cia # "title_failed" /\ ~(writing /\ pipe.closed)

\* An open part has its handle with the client, or on the way there.
PartHasHandle ==
  /\ \A k \in Parts : part[k] # NoOne =>
       \/ handle[part[k]] = k
       \/ th[part[k]].pc = "create" /\ th[part[k]].kind = k
  /\ \A k \in PartTitle : part[k] # NoOne => importing_title[part[k]] /\ title # NoTitle

\* Who has the pipe, or is about to, has the part open in AM9.
PartIsOwn ==
  /\ \A s \in Sessions :
       /\ th[s].pc = "create" /\ th[s].kind \in Parts => part[th[s].kind] = s
       /\ handle[s] = "ticket" => part["ticket"] = s
  /\ pipe.kind \in Parts /\ (writing \/ handle[pipe.by] = pipe.kind) =>
       /\ part[pipe.kind] = pipe.by
       /\ pipe.kind \in PartTitle => title.by = pipe.by
  /\ writing /\ pipe.closed /\ pipe.kind \in PartTitle => ~importing_title[pipe.by]

\* Every step keeps what is true of threads and pipe in every environment.
LEMMA ThreadsAndPipe ==
  ASSUME TypeOK, TypeOK', BusyThreads, PipeState, Next
  PROVE  BusyThreads' /\ PipeState'
<1> USE SessionsAssumption, MediaAssumption
<1> USE DEF TypeOK, Threads, Places, PipeCommands, Finishing, Pipes, Kinds, Parts,
            PartTitle, am9, data, manager, write, Idle, BusyThreads, PipeState, NoImport
<1>1. ASSUME NEW s \in Sessions, SStep(s) PROVE BusyThreads' /\ PipeState'
  <2>1. ASSUME NEW m \in Media, BeginTitle(s, m) PROVE BusyThreads' /\ PipeState'
    BY <2>1 DEF BeginTitle, NoTitle
  <2>2. ASSUME NEW k \in Parts, BeginsPart(s, k) PROVE BusyThreads' /\ PipeState'
    BY <2>2 DEF BeginsPart, BeginPart, MayBegin, MayUsePipe
  <2>3. ASSUME NEW k \in Parts, EndsPart(s, k) PROVE BusyThreads' /\ PipeState'
    BY <2>3 DEF EndsPart, EndPart, MoveHandle, MayUsePipe
  <2>4. ASSUME NEW k \in PartTitle, Refuse(s, k) PROVE BusyThreads' /\ PipeState'
    BY <2>4 DEF Refuse
  <2>5. CASE PauseRefused(s)
    BY <2>5 DEF PauseRefused, MoveHandle, MayUsePipe
  <2>6. CASE StopTitle(s)
    BY <2>6 DEF StopTitle, Goto, MayUsePipe
  <2>7. CASE EnsureThreadExit(s)
    <3>1. CASE init /\ pipe.started /\ Goto(s, "exit_wait") /\ UNCHANGED init
      BY <2>7, <3>1 DEF EnsureThreadExit, Goto, LockIsFree
    <3>2. CASE ~(init /\ pipe.started) /\ Goto(s, "stop") /\ init' = FALSE
      BY <2>7, <3>2 DEF EnsureThreadExit, Goto, LockIsFree
    <3>q. QED
      BY <2>7, <3>1, <3>2 DEF EnsureThreadExit
  <2>8. CASE PipeThreadIsGone(s)
    BY <2>8 DEF PipeThreadIsGone, Goto
  <2>9. CASE StopInAM9(s)
    BY <2>9 DEF StopInAM9, Return, EndOpenTitle, TitleEnds, NoTitle
  <2>10. CASE FinishTitle(s)
    BY <2>10 DEF FinishTitle, EndOpenTitle, TitleEnds, NoTitle
  <2>11. CASE CreateImportHandle(s)
    BY <2>11 DEF CreateImportHandle, Return, LockIsFree
  <2>12. CASE CloseImportHandle(s)
    <3>1. CASE th[s].pc = "close" /\ ~(pipe.by = s /\ pipe.kind = th[s].kind)
      <4>1. /\ th' = [th EXCEPT ![s] = [pc |-> "reset", kind |-> th[s].kind]]
            /\ UNCHANGED <<importing_title, handle, pipe, sent, writing, part>>
        BY <2>12, <3>1 DEF CloseImportHandle, Goto, ClosesPipe
      <4>q. QED
        BY <3>1, <4>1
    <3>2. CASE th[s].pc = "cia_close" /\ ~(pipe.by = s /\ pipe.kind = th[s].kind)
      <4>1. /\ th' = [th EXCEPT ![s] = [pc |-> "cia_reset", kind |-> th[s].kind]]
            /\ UNCHANGED <<importing_title, handle, pipe, sent, writing, part>>
        BY <2>12, <3>2 DEF CloseImportHandle, Goto, ClosesPipe
      <4>q. QED
        BY <3>2, <4>1
    <3>3. CASE th[s].pc = "close" /\ pipe.by = s /\ pipe.kind = th[s].kind
      BY <2>12, <3>3 DEF CloseImportHandle, Goto, ClosesPipe
    <3>4. CASE th[s].pc = "cia_close" /\ pipe.by = s /\ pipe.kind = th[s].kind
      BY <2>12, <3>4 DEF CloseImportHandle, Goto, ClosesPipe
    <3>q. QED
      BY <2>12, <3>1, <3>2, <3>3, <3>4 DEF CloseImportHandle, ClosesPipe
  <2>13. CASE ResetInit(s)
    <3>1. CASE th[s].pc = "reset" /\ Return(s)
      BY <2>13, <3>1 DEF ResetInit, Return, Goto
    <3>2. CASE th[s].pc = "cia_reset" /\ Goto(s, "cia_read")
      BY <2>13, <3>2 DEF ResetInit, Return, Goto
    <3>q. QED
      BY <2>13, <3>1, <3>2 DEF ResetInit
  <2>14. CASE BeginCIA(s)
    BY <2>14 DEF BeginCIA, MayBegin, MayUsePipe
  <2>15. CASE CancelCIA(s)
    BY <2>15 DEF CancelCIA, HasCIA, MoveHandle, MayUsePipe, EndOpenTitle, TitleEnds, NoTitle
  <2>16. CASE FinishCIA(s)
    BY <2>16 DEF FinishCIA, HasCIA, MoveHandle, MayUsePipe
  <2>17. CASE ReadData(s)
    <3>1. CASE pipe.kind = "cia" /\ Goto(s, "cia_finish")
      BY <2>17, <3>1 DEF ReadData, Goto
    <3>2. CASE pipe.kind # "cia" /\ Goto(s, "cia_lost")
      BY <2>17, <3>2 DEF ReadData, Goto
    <3>3. CASE pipe.kind # "cia" /\ Goto(s, "fault")
      BY <2>17, <3>3 DEF ReadData, Goto
    <3>q. QED
      BY <2>17, <3>1, <3>2, <3>3 DEF ReadData
  <2>18. CASE FinishCIATitle(s)
    <3>1. CASE th[s].pc = "cia_finish" /\ Return(s) /\ title # NoTitle /\ TitleEnds
      BY <2>18, <3>1 DEF FinishCIATitle, Goto, Return, EndOpenTitle, TitleEnds, NoTitle
    <3>2. CASE th[s].pc = "cia_finish" /\ Return(s) /\ UNCHANGED am9
      BY <2>18, <3>2 DEF FinishCIATitle, Goto, Return, EndOpenTitle, TitleEnds, NoTitle
    <3>3. CASE th[s].pc = "cia_lost" /\ Goto(s, "fault") /\ title # NoTitle /\ TitleEnds
      BY <2>18, <3>3 DEF FinishCIATitle, Goto, Return, EndOpenTitle, TitleEnds, NoTitle
    <3>4. CASE th[s].pc = "cia_lost" /\ Goto(s, "fault") /\ UNCHANGED am9
      BY <2>18, <3>4 DEF FinishCIATitle, Goto, Return, EndOpenTitle, TitleEnds, NoTitle
    <3>q. QED
      BY <2>18, <3>1, <3>2, <3>3, <3>4 DEF FinishCIATitle, EndOpenTitle
  <2>19. CASE DropHandle(s)
    BY <2>19 DEF DropHandle, HasCIA
  <2>20. CASE NextClient(s)
    BY <2>20 DEF NextClient, ClosesPipe
  <2>q. QED
    BY <1>1, StepKinds, <2>1, <2>2, <2>3, <2>4, <2>5, <2>6, <2>7, <2>8, <2>9, <2>10,
       <2>11, <2>12, <2>13, <2>14, <2>15, <2>16, <2>17, <2>18, <2>19, <2>20 DEF StepKind
<1>2. CASE StartPipeThread
  BY <1>2 DEF StartPipeThread
<1>3. CASE Write
  BY <1>3 DEF Write
<1>4. CASE ReceiveWrite
  BY <1>4 DEF ReceiveWrite
<1>5. CASE CIABeginTitle
  BY <1>5 DEF CIABeginTitle
<1>6. CASE CIAFinishBatch
  BY <1>6 DEF CIAFinishBatch, TitleEnds, NoTitle
<1>7. CASE WriteReturns
  BY <1>7 DEF WriteReturns
<1>8. CASE PipeThreadExits
  BY <1>8 DEF PipeThreadExits
<1>q. QED
  BY <1>1, <1>2, <1>3, <1>4, <1>5, <1>6, <1>7, <1>8 DEF Next, SStep

\* While no CIA import is finished without its title, every step keeps to whom the
\* title belongs.
LEMMA Ownership ==
  ASSUME TypeOK, TypeOK', BusyThreads, PipeState, Owned, Next, "finish_early" \notin may
  PROVE  Owned'
<1> USE SessionsAssumption, MediaAssumption
<1> USE DEF TypeOK, Threads, Places, PipeCommands, Finishing, Pipes, Kinds, Parts,
            PartTitle, am9, data, manager, write, Idle, BusyThreads, PipeState, NoImport,
            Owned, FlagIsOwn, StopperHasFlag, EnderIsCIA, CIAHasTitle
<1>1. ASSUME NEW s \in Sessions, SStep(s) PROVE Owned'
  <2>1. ASSUME NEW m \in Media, BeginTitle(s, m) PROVE Owned'
    <3>1. title = NoTitle /\ NoTitle.by = NoOne /\ NoOne \notin Sessions /\ NoOne # CIA
      BY <2>1 DEF BeginTitle, NoTitle, NoOne, CIA
    <3>2. ~CIAHasTitle /\ \A r \in Sessions : ~importing_title[r] /\ th[r].pc \notin Finishing \union {"exit", "exit_wait", "stop"}
      BY <3>1
    <3>3. /\ importing_title' = [importing_title EXCEPT ![s] = TRUE] /\ media' = [media EXCEPT ![s] = m]
          /\ title' = [by |-> s, media |-> m] /\ UNCHANGED <<th, handle, pipe, writing>>
      BY <2>1 DEF BeginTitle
    <3>4. FlagIsOwn' /\ StopperHasFlag'
      BY <3>2, <3>3
    <3>5. EnderIsCIA'
      BY <3>2, <3>3
    <3>q. QED
      BY <3>4, <3>5
  <2>2. ASSUME NEW k \in Parts, BeginsPart(s, k) PROVE Owned'
    BY <2>2 DEF BeginsPart, BeginPart, MayBegin, MayUsePipe
  <2>3. ASSUME NEW k \in Parts, EndsPart(s, k) PROVE Owned'
    BY <2>3 DEF EndsPart, EndPart, MoveHandle, MayUsePipe
  <2>4. ASSUME NEW k \in PartTitle, Refuse(s, k) PROVE Owned'
    BY <2>4 DEF Refuse
  <2>5. CASE PauseRefused(s)
    BY <2>5 DEF PauseRefused, MoveHandle, MayUsePipe
  <2>6. CASE StopTitle(s)
    BY <2>6 DEF StopTitle, Goto, MayUsePipe
  <2>7. CASE EnsureThreadExit(s)
    <3>1. CASE init /\ pipe.started /\ Goto(s, "exit_wait") /\ UNCHANGED init
      BY <2>7, <3>1 DEF EnsureThreadExit, Goto, LockIsFree
    <3>2. CASE ~(init /\ pipe.started) /\ Goto(s, "stop") /\ init' = FALSE
      BY <2>7, <3>2 DEF EnsureThreadExit, Goto, LockIsFree
    <3>q. QED
      BY <2>7, <3>1, <3>2 DEF EnsureThreadExit
  <2>8. CASE PipeThreadIsGone(s)
    BY <2>8 DEF PipeThreadIsGone, Goto
  <2>9. CASE StopInAM9(s)
    BY <2>9 DEF StopInAM9, Return, EndOpenTitle, TitleEnds, NoTitle
  <2>10. CASE FinishTitle(s)
    BY <2>10 DEF FinishTitle, EndOpenTitle, TitleEnds, NoTitle
  <2>11. CASE CreateImportHandle(s)
    BY <2>11 DEF CreateImportHandle, Return, LockIsFree
  <2>12. CASE CloseImportHandle(s)
    <3>1. CASE th[s].pc = "close" /\ ~(pipe.by = s /\ pipe.kind = th[s].kind)
      BY <2>12, <3>1 DEF CloseImportHandle, Goto, ClosesPipe
    <3>2. CASE th[s].pc = "cia_close" /\ ~(pipe.by = s /\ pipe.kind = th[s].kind)
      BY <2>12, <3>2 DEF CloseImportHandle, Goto, ClosesPipe
    <3>3. CASE th[s].pc = "close" /\ pipe.by = s /\ pipe.kind = th[s].kind
      BY <2>12, <3>3 DEF CloseImportHandle, Goto, ClosesPipe
    <3>4. CASE th[s].pc = "cia_close" /\ pipe.by = s /\ pipe.kind = th[s].kind
      BY <2>12, <3>4 DEF CloseImportHandle, Goto, ClosesPipe
    <3>q. QED
      BY <2>12, <3>1, <3>2, <3>3, <3>4 DEF CloseImportHandle, ClosesPipe
  <2>13. CASE ResetInit(s)
    <3>1. CASE th[s].pc = "reset" /\ Return(s)
      BY <2>13, <3>1 DEF ResetInit, Return, Goto
    <3>2. CASE th[s].pc = "cia_reset" /\ Goto(s, "cia_read")
      BY <2>13, <3>2 DEF ResetInit, Return, Goto
    <3>q. QED
      BY <2>13, <3>1, <3>2 DEF ResetInit
  <2>14. CASE BeginCIA(s)
    BY <2>14 DEF BeginCIA, MayBegin, MayUsePipe
  <2>15. CASE CancelCIA(s)
    BY <2>15 DEF CancelCIA, HasCIA, MoveHandle, MayUsePipe, EndOpenTitle, TitleEnds, NoTitle
  <2>16. CASE FinishCIA(s)
    BY <2>16 DEF FinishCIA, HasCIA, MoveHandle, MayUsePipe
  <2>17. CASE ReadData(s)
    <3>1. CASE pipe.kind = "cia" /\ Goto(s, "cia_finish")
      BY <2>17, <3>1 DEF ReadData, Goto
    <3>2. CASE pipe.kind # "cia" /\ Goto(s, "cia_lost")
      BY <2>17, <3>2 DEF ReadData, Goto
    <3>3. CASE pipe.kind # "cia" /\ Goto(s, "fault")
      BY <2>17, <3>3 DEF ReadData, Goto
    <3>q. QED
      BY <2>17, <3>1, <3>2, <3>3 DEF ReadData
  <2>18. CASE FinishCIATitle(s)
    <3>1. CASE th[s].pc = "cia_finish" /\ Return(s) /\ title # NoTitle /\ TitleEnds
      BY <2>18, <3>1 DEF FinishCIATitle, Goto, Return, EndOpenTitle, TitleEnds, NoTitle
    <3>2. CASE th[s].pc = "cia_finish" /\ Return(s) /\ UNCHANGED am9
      BY <2>18, <3>2 DEF FinishCIATitle, Goto, Return, EndOpenTitle, TitleEnds, NoTitle
    <3>3. CASE th[s].pc = "cia_lost" /\ Goto(s, "fault") /\ title # NoTitle /\ TitleEnds
      BY <2>18, <3>3 DEF FinishCIATitle, Goto, Return, EndOpenTitle, TitleEnds, NoTitle
    <3>4. CASE th[s].pc = "cia_lost" /\ Goto(s, "fault") /\ UNCHANGED am9
      BY <2>18, <3>4 DEF FinishCIATitle, Goto, Return, EndOpenTitle, TitleEnds, NoTitle
    <3>q. QED
      BY <2>18, <3>1, <3>2, <3>3, <3>4 DEF FinishCIATitle, EndOpenTitle
  <2>19. CASE DropHandle(s)
    BY <2>19 DEF DropHandle, HasCIA
  <2>20. CASE NextClient(s)
    BY <2>20 DEF NextClient, ClosesPipe
  <2>q. QED
    BY <1>1, StepKinds, <2>1, <2>2, <2>3, <2>4, <2>5, <2>6, <2>7, <2>8, <2>9, <2>10,
       <2>11, <2>12, <2>13, <2>14, <2>15, <2>16, <2>17, <2>18, <2>19, <2>20 DEF StepKind
<1>2. CASE StartPipeThread
  BY <1>2 DEF StartPipeThread
<1>3. CASE Write
  BY <1>3 DEF Write
<1>4. CASE ReceiveWrite
  BY <1>4 DEF ReceiveWrite
<1>5. CASE CIABeginTitle
  <2>1. CASE title = NoTitle /\ title' = [by |-> CIA, media |-> FirstMedia] /\ pipe' = [pipe EXCEPT !.cia = "title"]
    <3>1. title = NoTitle /\ NoTitle.by = NoOne /\ NoOne \notin Sessions /\ NoOne # CIA
      BY <2>1 DEF CIABeginTitle, NoTitle, NoOne, CIA
    <3>2. ~CIAHasTitle /\ \A r \in Sessions : ~importing_title[r] /\ th[r].pc \notin Finishing \union {"exit", "exit_wait", "stop"}
      BY <3>1
    <3>3. UNCHANGED <<importing_title, th, handle, writing, media>>
      BY <1>5 DEF CIABeginTitle
    <3>4. FlagIsOwn' /\ StopperHasFlag'
      BY <3>2, <3>3
    <3>5. EnderIsCIA'
      BY <2>1, <3>2, <3>3
    <3>q. QED
      BY <3>4, <3>5
  <2>2. CASE pipe' = [pipe EXCEPT !.cia = "failed"] /\ UNCHANGED title
    BY <1>5, <2>2 DEF CIABeginTitle
  <2>q. QED
    BY <1>5, <2>1, <2>2 DEF CIABeginTitle
<1>6. CASE CIAFinishBatch
  BY <1>6 DEF CIAFinishBatch, TitleEnds, NoTitle
<1>7. CASE WriteReturns
  BY <1>7 DEF WriteReturns
<1>8. CASE PipeThreadExits
  BY <1>8 DEF PipeThreadExits
<1>q. QED
  BY <1>1, <1>2, <1>3, <1>4, <1>5, <1>6, <1>7, <1>8 DEF Next, SStep

\* Without "overlap" every step leaves one command that uses the pipe.
LEMMA OneCommandKept ==
  ASSUME TypeOK, TypeOK', BusyThreads, PipeState, PipeState', OneCommand, Next, "overlap" \notin may
  PROVE  OneCommand'
<1> USE SessionsAssumption, MediaAssumption
<1> USE DEF TypeOK, Threads, Places, PipeCommands, Finishing, Pipes, Kinds, Parts,
            PartTitle, am9, data, manager, write, Idle, BusyThreads, PipeState, NoImport,
            OneCommand
<1>1. ASSUME NEW s \in Sessions, SStep(s) PROVE OneCommand'
  <2>1. ASSUME NEW m \in Media, BeginTitle(s, m) PROVE OneCommand'
    BY <2>1 DEF BeginTitle, NoTitle
  <2>2. ASSUME NEW k \in Parts, BeginsPart(s, k) PROVE OneCommand'
    BY <2>2 DEF BeginsPart, BeginPart, MayBegin, MayUsePipe
  <2>3. ASSUME NEW k \in Parts, EndsPart(s, k) PROVE OneCommand'
    BY <2>3 DEF EndsPart, EndPart, MoveHandle, MayUsePipe
  <2>4. ASSUME NEW k \in PartTitle, Refuse(s, k) PROVE OneCommand'
    BY <2>4 DEF Refuse
  <2>5. CASE PauseRefused(s)
    BY <2>5 DEF PauseRefused, MoveHandle, MayUsePipe
  <2>6. CASE StopTitle(s)
    BY <2>6 DEF StopTitle, Goto, MayUsePipe
  <2>7. CASE EnsureThreadExit(s)
    <3>1. CASE init /\ pipe.started /\ Goto(s, "exit_wait") /\ UNCHANGED init
      BY <2>7, <3>1 DEF EnsureThreadExit, Goto, LockIsFree
    <3>2. CASE ~(init /\ pipe.started) /\ Goto(s, "stop") /\ init' = FALSE
      BY <2>7, <3>2 DEF EnsureThreadExit, Goto, LockIsFree
    <3>q. QED
      BY <2>7, <3>1, <3>2 DEF EnsureThreadExit
  <2>8. CASE PipeThreadIsGone(s)
    BY <2>8 DEF PipeThreadIsGone, Goto
  <2>9. CASE StopInAM9(s)
    BY <2>9 DEF StopInAM9, Return, EndOpenTitle, TitleEnds, NoTitle
  <2>10. CASE FinishTitle(s)
    BY <2>10 DEF FinishTitle, EndOpenTitle, TitleEnds, NoTitle
  <2>11. CASE CreateImportHandle(s)
    BY <2>11 DEF CreateImportHandle, Return, LockIsFree
  <2>12. CASE CloseImportHandle(s)
    <3>1. CASE th[s].pc = "close" /\ ~(pipe.by = s /\ pipe.kind = th[s].kind)
      BY <2>12, <3>1 DEF CloseImportHandle, Goto, ClosesPipe
    <3>2. CASE th[s].pc = "cia_close" /\ ~(pipe.by = s /\ pipe.kind = th[s].kind)
      BY <2>12, <3>2 DEF CloseImportHandle, Goto, ClosesPipe
    <3>3. CASE th[s].pc = "close" /\ pipe.by = s /\ pipe.kind = th[s].kind
      BY <2>12, <3>3 DEF CloseImportHandle, Goto, ClosesPipe
    <3>4. CASE th[s].pc = "cia_close" /\ pipe.by = s /\ pipe.kind = th[s].kind
      BY <2>12, <3>4 DEF CloseImportHandle, Goto, ClosesPipe
    <3>q. QED
      BY <2>12, <3>1, <3>2, <3>3, <3>4 DEF CloseImportHandle, ClosesPipe
  <2>13. CASE ResetInit(s)
    <3>1. CASE th[s].pc = "reset" /\ Return(s)
      BY <2>13, <3>1 DEF ResetInit, Return, Goto
    <3>2. CASE th[s].pc = "cia_reset" /\ Goto(s, "cia_read")
      BY <2>13, <3>2 DEF ResetInit, Return, Goto
    <3>q. QED
      BY <2>13, <3>1, <3>2 DEF ResetInit
  <2>14. CASE BeginCIA(s)
    BY <2>14 DEF BeginCIA, MayBegin, MayUsePipe
  <2>15. CASE CancelCIA(s)
    BY <2>15 DEF CancelCIA, HasCIA, MoveHandle, MayUsePipe, EndOpenTitle, TitleEnds, NoTitle
  <2>16. CASE FinishCIA(s)
    BY <2>16 DEF FinishCIA, HasCIA, MoveHandle, MayUsePipe
  <2>17. CASE ReadData(s)
    <3>1. CASE pipe.kind = "cia" /\ Goto(s, "cia_finish")
      BY <2>17, <3>1 DEF ReadData, Goto
    <3>2. CASE pipe.kind # "cia" /\ Goto(s, "cia_lost")
      BY <2>17, <3>2 DEF ReadData, Goto
    <3>3. CASE pipe.kind # "cia" /\ Goto(s, "fault")
      BY <2>17, <3>3 DEF ReadData, Goto
    <3>q. QED
      BY <2>17, <3>1, <3>2, <3>3 DEF ReadData
  <2>18. CASE FinishCIATitle(s)
    <3>1. CASE th[s].pc = "cia_finish" /\ Return(s) /\ title # NoTitle /\ TitleEnds
      BY <2>18, <3>1 DEF FinishCIATitle, Goto, Return, EndOpenTitle, TitleEnds, NoTitle
    <3>2. CASE th[s].pc = "cia_finish" /\ Return(s) /\ UNCHANGED am9
      BY <2>18, <3>2 DEF FinishCIATitle, Goto, Return, EndOpenTitle, TitleEnds, NoTitle
    <3>3. CASE th[s].pc = "cia_lost" /\ Goto(s, "fault") /\ title # NoTitle /\ TitleEnds
      BY <2>18, <3>3 DEF FinishCIATitle, Goto, Return, EndOpenTitle, TitleEnds, NoTitle
    <3>4. CASE th[s].pc = "cia_lost" /\ Goto(s, "fault") /\ UNCHANGED am9
      BY <2>18, <3>4 DEF FinishCIATitle, Goto, Return, EndOpenTitle, TitleEnds, NoTitle
    <3>q. QED
      BY <2>18, <3>1, <3>2, <3>3, <3>4 DEF FinishCIATitle, EndOpenTitle
  <2>19. CASE DropHandle(s)
    BY <2>19 DEF DropHandle, HasCIA
  <2>20. CASE NextClient(s)
    BY <2>20 DEF NextClient, ClosesPipe
  <2>q. QED
    BY <1>1, StepKinds, <2>1, <2>2, <2>3, <2>4, <2>5, <2>6, <2>7, <2>8, <2>9, <2>10,
       <2>11, <2>12, <2>13, <2>14, <2>15, <2>16, <2>17, <2>18, <2>19, <2>20 DEF StepKind
<1>2. CASE StartPipeThread
  BY <1>2 DEF StartPipeThread
<1>3. CASE Write
  BY <1>3 DEF Write
<1>4. CASE ReceiveWrite
  BY <1>4 DEF ReceiveWrite
<1>5. CASE CIABeginTitle
  BY <1>5 DEF CIABeginTitle
<1>6. CASE CIAFinishBatch
  BY <1>6 DEF CIAFinishBatch, TitleEnds, NoTitle
<1>7. CASE WriteReturns
  BY <1>7 DEF WriteReturns
<1>8. CASE PipeThreadExits
  BY <1>8 DEF PipeThreadExits
<1>q. QED
  BY <1>1, <1>2, <1>3, <1>4, <1>5, <1>6, <1>7, <1>8 DEF Next, SStep

\* Without "late_start" too, a title is stopped once the writes of the import that
\* it had have ended.
LEMMA StopFindsThreadKept ==
  ASSUME TypeOK, TypeOK', BusyThreads, PipeState, PipeState', OneCommand, StopFindsThread, Next,
         "overlap" \notin may, "late_start" \notin may
  PROVE  StopFindsThread'
<1> USE SessionsAssumption, MediaAssumption
<1> USE DEF TypeOK, Threads, Places, PipeCommands, Finishing, Pipes, Kinds, Parts,
            PartTitle, am9, data, manager, write, Idle, BusyThreads, PipeState, NoImport,
            OneCommand, StopFindsThread
<1>1. ASSUME NEW s \in Sessions, SStep(s) PROVE StopFindsThread'
  <2>1. ASSUME NEW m \in Media, BeginTitle(s, m) PROVE StopFindsThread'
    BY <2>1 DEF BeginTitle, NoTitle
  <2>2. ASSUME NEW k \in Parts, BeginsPart(s, k) PROVE StopFindsThread'
    BY <2>2 DEF BeginsPart, BeginPart, MayBegin, MayUsePipe
  <2>3. ASSUME NEW k \in Parts, EndsPart(s, k) PROVE StopFindsThread'
    BY <2>3 DEF EndsPart, EndPart, MoveHandle, MayUsePipe
  <2>4. ASSUME NEW k \in PartTitle, Refuse(s, k) PROVE StopFindsThread'
    BY <2>4 DEF Refuse
  <2>5. CASE PauseRefused(s)
    BY <2>5 DEF PauseRefused, MoveHandle, MayUsePipe
  <2>6. CASE StopTitle(s)
    BY <2>6 DEF StopTitle, Goto, MayUsePipe
  <2>7. CASE EnsureThreadExit(s)
    <3>1. CASE init /\ pipe.started /\ Goto(s, "exit_wait") /\ UNCHANGED init
      BY <2>7, <3>1 DEF EnsureThreadExit, Goto, LockIsFree
    <3>2. CASE ~(init /\ pipe.started) /\ Goto(s, "stop") /\ init' = FALSE
      BY <2>7, <3>2 DEF EnsureThreadExit, Goto, LockIsFree
    <3>q. QED
      BY <2>7, <3>1, <3>2 DEF EnsureThreadExit
  <2>8. CASE PipeThreadIsGone(s)
    BY <2>8 DEF PipeThreadIsGone, Goto
  <2>9. CASE StopInAM9(s)
    BY <2>9 DEF StopInAM9, Return, EndOpenTitle, TitleEnds, NoTitle
  <2>10. CASE FinishTitle(s)
    BY <2>10 DEF FinishTitle, EndOpenTitle, TitleEnds, NoTitle
  <2>11. CASE CreateImportHandle(s)
    BY <2>11 DEF CreateImportHandle, Return, LockIsFree
  <2>12. CASE CloseImportHandle(s)
    <3>1. CASE th[s].pc = "close" /\ ~(pipe.by = s /\ pipe.kind = th[s].kind)
      BY <2>12, <3>1 DEF CloseImportHandle, Goto, ClosesPipe
    <3>2. CASE th[s].pc = "cia_close" /\ ~(pipe.by = s /\ pipe.kind = th[s].kind)
      BY <2>12, <3>2 DEF CloseImportHandle, Goto, ClosesPipe
    <3>3. CASE th[s].pc = "close" /\ pipe.by = s /\ pipe.kind = th[s].kind
      BY <2>12, <3>3 DEF CloseImportHandle, Goto, ClosesPipe
    <3>4. CASE th[s].pc = "cia_close" /\ pipe.by = s /\ pipe.kind = th[s].kind
      BY <2>12, <3>4 DEF CloseImportHandle, Goto, ClosesPipe
    <3>q. QED
      BY <2>12, <3>1, <3>2, <3>3, <3>4 DEF CloseImportHandle, ClosesPipe
  <2>13. CASE ResetInit(s)
    <3>1. CASE th[s].pc = "reset" /\ Return(s)
      BY <2>13, <3>1 DEF ResetInit, Return, Goto
    <3>2. CASE th[s].pc = "cia_reset" /\ Goto(s, "cia_read")
      BY <2>13, <3>2 DEF ResetInit, Return, Goto
    <3>q. QED
      BY <2>13, <3>1, <3>2 DEF ResetInit
  <2>14. CASE BeginCIA(s)
    BY <2>14 DEF BeginCIA, MayBegin, MayUsePipe
  <2>15. CASE CancelCIA(s)
    BY <2>15 DEF CancelCIA, HasCIA, MoveHandle, MayUsePipe, EndOpenTitle, TitleEnds, NoTitle
  <2>16. CASE FinishCIA(s)
    BY <2>16 DEF FinishCIA, HasCIA, MoveHandle, MayUsePipe
  <2>17. CASE ReadData(s)
    <3>1. CASE pipe.kind = "cia" /\ Goto(s, "cia_finish")
      BY <2>17, <3>1 DEF ReadData, Goto
    <3>2. CASE pipe.kind # "cia" /\ Goto(s, "cia_lost")
      BY <2>17, <3>2 DEF ReadData, Goto
    <3>3. CASE pipe.kind # "cia" /\ Goto(s, "fault")
      BY <2>17, <3>3 DEF ReadData, Goto
    <3>q. QED
      BY <2>17, <3>1, <3>2, <3>3 DEF ReadData
  <2>18. CASE FinishCIATitle(s)
    <3>1. CASE th[s].pc = "cia_finish" /\ Return(s) /\ title # NoTitle /\ TitleEnds
      BY <2>18, <3>1 DEF FinishCIATitle, Goto, Return, EndOpenTitle, TitleEnds, NoTitle
    <3>2. CASE th[s].pc = "cia_finish" /\ Return(s) /\ UNCHANGED am9
      BY <2>18, <3>2 DEF FinishCIATitle, Goto, Return, EndOpenTitle, TitleEnds, NoTitle
    <3>3. CASE th[s].pc = "cia_lost" /\ Goto(s, "fault") /\ title # NoTitle /\ TitleEnds
      BY <2>18, <3>3 DEF FinishCIATitle, Goto, Return, EndOpenTitle, TitleEnds, NoTitle
    <3>4. CASE th[s].pc = "cia_lost" /\ Goto(s, "fault") /\ UNCHANGED am9
      BY <2>18, <3>4 DEF FinishCIATitle, Goto, Return, EndOpenTitle, TitleEnds, NoTitle
    <3>q. QED
      BY <2>18, <3>1, <3>2, <3>3, <3>4 DEF FinishCIATitle, EndOpenTitle
  <2>19. CASE DropHandle(s)
    BY <2>19 DEF DropHandle, HasCIA
  <2>20. CASE NextClient(s)
    BY <2>20 DEF NextClient, ClosesPipe
  <2>q. QED
    BY <1>1, StepKinds, <2>1, <2>2, <2>3, <2>4, <2>5, <2>6, <2>7, <2>8, <2>9, <2>10,
       <2>11, <2>12, <2>13, <2>14, <2>15, <2>16, <2>17, <2>18, <2>19, <2>20 DEF StepKind
<1>2. CASE StartPipeThread
  BY <1>2 DEF StartPipeThread
<1>3. CASE Write
  BY <1>3 DEF Write
<1>4. CASE ReceiveWrite
  BY <1>4 DEF ReceiveWrite
<1>5. CASE CIABeginTitle
  BY <1>5 DEF CIABeginTitle
<1>6. CASE CIAFinishBatch
  BY <1>6 DEF CIAFinishBatch, TitleEnds, NoTitle
<1>7. CASE WriteReturns
  BY <1>7 DEF WriteReturns
<1>8. CASE PipeThreadExits
  BY <1>8 DEF PipeThreadExits
<1>q. QED
  BY <1>1, <1>2, <1>3, <1>4, <1>5, <1>6, <1>7, <1>8 DEF Next, SStep

\* While clients live and there is memory, a close event is for the thread that is
\* waited for.
LEMMA EventHasWaiterKept ==
  ASSUME TypeOK, TypeOK', BusyThreads, PipeState, PipeState', OneCommand, StopFindsThread, EventHasWaiter, Next,
         "overlap" \notin may, "late_start" \notin may, "die" \notin may, "no_pipe" \notin may
  PROVE  EventHasWaiter'
<1> USE SessionsAssumption, MediaAssumption
<1> USE DEF TypeOK, Threads, Places, PipeCommands, Finishing, Pipes, Kinds, Parts,
            PartTitle, am9, data, manager, write, Idle, BusyThreads, PipeState, NoImport,
            OneCommand, StopFindsThread, EventHasWaiter
<1>1. ASSUME NEW s \in Sessions, SStep(s) PROVE EventHasWaiter'
  <2>1. ASSUME NEW m \in Media, BeginTitle(s, m) PROVE EventHasWaiter'
    BY <2>1 DEF BeginTitle, NoTitle
  <2>2. ASSUME NEW k \in Parts, BeginsPart(s, k) PROVE EventHasWaiter'
    BY <2>2 DEF BeginsPart, BeginPart, MayBegin, MayUsePipe
  <2>3. ASSUME NEW k \in Parts, EndsPart(s, k) PROVE EventHasWaiter'
    BY <2>3 DEF EndsPart, EndPart, MoveHandle, MayUsePipe
  <2>4. ASSUME NEW k \in PartTitle, Refuse(s, k) PROVE EventHasWaiter'
    BY <2>4 DEF Refuse
  <2>5. CASE PauseRefused(s)
    BY <2>5 DEF PauseRefused, MoveHandle, MayUsePipe
  <2>6. CASE StopTitle(s)
    BY <2>6 DEF StopTitle, Goto, MayUsePipe
  <2>7. CASE EnsureThreadExit(s)
    <3>1. CASE init /\ pipe.started /\ Goto(s, "exit_wait") /\ UNCHANGED init
      BY <2>7, <3>1 DEF EnsureThreadExit, Goto, LockIsFree
    <3>2. CASE ~(init /\ pipe.started) /\ Goto(s, "stop") /\ init' = FALSE
      BY <2>7, <3>2 DEF EnsureThreadExit, Goto, LockIsFree
    <3>q. QED
      BY <2>7, <3>1, <3>2 DEF EnsureThreadExit
  <2>8. CASE PipeThreadIsGone(s)
    BY <2>8 DEF PipeThreadIsGone, Goto
  <2>9. CASE StopInAM9(s)
    BY <2>9 DEF StopInAM9, Return, EndOpenTitle, TitleEnds, NoTitle
  <2>10. CASE FinishTitle(s)
    BY <2>10 DEF FinishTitle, EndOpenTitle, TitleEnds, NoTitle
  <2>11. CASE CreateImportHandle(s)
    BY <2>11 DEF CreateImportHandle, Return, LockIsFree
  <2>12. CASE CloseImportHandle(s)
    <3>1. CASE th[s].pc = "close" /\ ~(pipe.by = s /\ pipe.kind = th[s].kind)
      BY <2>12, <3>1 DEF CloseImportHandle, Goto, ClosesPipe
    <3>2. CASE th[s].pc = "cia_close" /\ ~(pipe.by = s /\ pipe.kind = th[s].kind)
      BY <2>12, <3>2 DEF CloseImportHandle, Goto, ClosesPipe
    <3>3. CASE th[s].pc = "close" /\ pipe.by = s /\ pipe.kind = th[s].kind
      BY <2>12, <3>3 DEF CloseImportHandle, Goto, ClosesPipe
    <3>4. CASE th[s].pc = "cia_close" /\ pipe.by = s /\ pipe.kind = th[s].kind
      BY <2>12, <3>4 DEF CloseImportHandle, Goto, ClosesPipe
    <3>q. QED
      BY <2>12, <3>1, <3>2, <3>3, <3>4 DEF CloseImportHandle, ClosesPipe
  <2>13. CASE ResetInit(s)
    <3>1. CASE th[s].pc = "reset" /\ Return(s)
      BY <2>13, <3>1 DEF ResetInit, Return, Goto
    <3>2. CASE th[s].pc = "cia_reset" /\ Goto(s, "cia_read")
      BY <2>13, <3>2 DEF ResetInit, Return, Goto
    <3>q. QED
      BY <2>13, <3>1, <3>2 DEF ResetInit
  <2>14. CASE BeginCIA(s)
    BY <2>14 DEF BeginCIA, MayBegin, MayUsePipe
  <2>15. CASE CancelCIA(s)
    BY <2>15 DEF CancelCIA, HasCIA, MoveHandle, MayUsePipe, EndOpenTitle, TitleEnds, NoTitle
  <2>16. CASE FinishCIA(s)
    BY <2>16 DEF FinishCIA, HasCIA, MoveHandle, MayUsePipe
  <2>17. CASE ReadData(s)
    <3>1. CASE pipe.kind = "cia" /\ Goto(s, "cia_finish")
      BY <2>17, <3>1 DEF ReadData, Goto
    <3>2. CASE pipe.kind # "cia" /\ Goto(s, "cia_lost")
      BY <2>17, <3>2 DEF ReadData, Goto
    <3>3. CASE pipe.kind # "cia" /\ Goto(s, "fault")
      BY <2>17, <3>3 DEF ReadData, Goto
    <3>q. QED
      BY <2>17, <3>1, <3>2, <3>3 DEF ReadData
  <2>18. CASE FinishCIATitle(s)
    <3>1. CASE th[s].pc = "cia_finish" /\ Return(s) /\ title # NoTitle /\ TitleEnds
      BY <2>18, <3>1 DEF FinishCIATitle, Goto, Return, EndOpenTitle, TitleEnds, NoTitle
    <3>2. CASE th[s].pc = "cia_finish" /\ Return(s) /\ UNCHANGED am9
      BY <2>18, <3>2 DEF FinishCIATitle, Goto, Return, EndOpenTitle, TitleEnds, NoTitle
    <3>3. CASE th[s].pc = "cia_lost" /\ Goto(s, "fault") /\ title # NoTitle /\ TitleEnds
      BY <2>18, <3>3 DEF FinishCIATitle, Goto, Return, EndOpenTitle, TitleEnds, NoTitle
    <3>4. CASE th[s].pc = "cia_lost" /\ Goto(s, "fault") /\ UNCHANGED am9
      BY <2>18, <3>4 DEF FinishCIATitle, Goto, Return, EndOpenTitle, TitleEnds, NoTitle
    <3>q. QED
      BY <2>18, <3>1, <3>2, <3>3, <3>4 DEF FinishCIATitle, EndOpenTitle
  <2>19. CASE DropHandle(s)
    BY <2>19 DEF DropHandle, HasCIA
  <2>20. CASE NextClient(s)
    BY <2>20 DEF NextClient, ClosesPipe
  <2>q. QED
    BY <1>1, StepKinds, <2>1, <2>2, <2>3, <2>4, <2>5, <2>6, <2>7, <2>8, <2>9, <2>10,
       <2>11, <2>12, <2>13, <2>14, <2>15, <2>16, <2>17, <2>18, <2>19, <2>20 DEF StepKind
<1>2. CASE StartPipeThread
  BY <1>2 DEF StartPipeThread
<1>3. CASE Write
  BY <1>3 DEF Write
<1>4. CASE ReceiveWrite
  BY <1>4 DEF ReceiveWrite
<1>5. CASE CIABeginTitle
  BY <1>5 DEF CIABeginTitle
<1>6. CASE CIAFinishBatch
  BY <1>6 DEF CIAFinishBatch, TitleEnds, NoTitle
<1>7. CASE WriteReturns
  BY <1>7 DEF WriteReturns
<1>8. CASE PipeThreadExits
  BY <1>8 DEF PipeThreadExits
<1>q. QED
  BY <1>1, <1>2, <1>3, <1>4, <1>5, <1>6, <1>7, <1>8 DEF Next, SStep

\* While the pipe thread does not run ahead of a command that finishes a CIA import,
\* none loses its data.
LEMMA DataAreThereKept ==
  ASSUME TypeOK, TypeOK', BusyThreads, PipeState, PipeState', DataAreThere, Next, "late_read" \notin may
  PROVE  DataAreThere'
<1> USE SessionsAssumption, MediaAssumption
<1> USE DEF TypeOK, Threads, Places, PipeCommands, Finishing, Pipes, Kinds, Parts,
            PartTitle, am9, data, manager, write, Idle, BusyThreads, PipeState, NoImport,
            HasCIA, DataAreThere
<1>1. ASSUME NEW s \in Sessions, SStep(s) PROVE DataAreThere'
  <2>1. ASSUME NEW m \in Media, BeginTitle(s, m) PROVE DataAreThere'
    BY <2>1 DEF BeginTitle, NoTitle
  <2>2. ASSUME NEW k \in Parts, BeginsPart(s, k) PROVE DataAreThere'
    BY <2>2 DEF BeginsPart, BeginPart, MayBegin, MayUsePipe
  <2>3. ASSUME NEW k \in Parts, EndsPart(s, k) PROVE DataAreThere'
    BY <2>3 DEF EndsPart, EndPart, MoveHandle, MayUsePipe
  <2>4. ASSUME NEW k \in PartTitle, Refuse(s, k) PROVE DataAreThere'
    BY <2>4 DEF Refuse
  <2>5. CASE PauseRefused(s)
    BY <2>5 DEF PauseRefused, MoveHandle, MayUsePipe
  <2>6. CASE StopTitle(s)
    BY <2>6 DEF StopTitle, Goto, MayUsePipe
  <2>7. CASE EnsureThreadExit(s)
    <3>1. CASE init /\ pipe.started /\ Goto(s, "exit_wait") /\ UNCHANGED init
      BY <2>7, <3>1 DEF EnsureThreadExit, Goto, LockIsFree
    <3>2. CASE ~(init /\ pipe.started) /\ Goto(s, "stop") /\ init' = FALSE
      BY <2>7, <3>2 DEF EnsureThreadExit, Goto, LockIsFree
    <3>q. QED
      BY <2>7, <3>1, <3>2 DEF EnsureThreadExit
  <2>8. CASE PipeThreadIsGone(s)
    BY <2>8 DEF PipeThreadIsGone, Goto
  <2>9. CASE StopInAM9(s)
    BY <2>9 DEF StopInAM9, Return, EndOpenTitle, TitleEnds, NoTitle
  <2>10. CASE FinishTitle(s)
    BY <2>10 DEF FinishTitle, EndOpenTitle, TitleEnds, NoTitle
  <2>11. CASE CreateImportHandle(s)
    BY <2>11 DEF CreateImportHandle, Return, LockIsFree
  <2>12. CASE CloseImportHandle(s)
    <3>1. CASE th[s].pc = "close" /\ ~(pipe.by = s /\ pipe.kind = th[s].kind)
      BY <2>12, <3>1 DEF CloseImportHandle, Goto, ClosesPipe
    <3>2. CASE th[s].pc = "cia_close" /\ ~(pipe.by = s /\ pipe.kind = th[s].kind)
      BY <2>12, <3>2 DEF CloseImportHandle, Goto, ClosesPipe
    <3>3. CASE th[s].pc = "close" /\ pipe.by = s /\ pipe.kind = th[s].kind
      BY <2>12, <3>3 DEF CloseImportHandle, Goto, ClosesPipe
    <3>4. CASE th[s].pc = "cia_close" /\ pipe.by = s /\ pipe.kind = th[s].kind
      BY <2>12, <3>4 DEF CloseImportHandle, Goto, ClosesPipe
    <3>q. QED
      BY <2>12, <3>1, <3>2, <3>3, <3>4 DEF CloseImportHandle, ClosesPipe
  <2>13. CASE ResetInit(s)
    <3>1. CASE th[s].pc = "reset" /\ Return(s)
      BY <2>13, <3>1 DEF ResetInit, Return, Goto
    <3>2. CASE th[s].pc = "cia_reset" /\ Goto(s, "cia_read")
      BY <2>13, <3>2 DEF ResetInit, Return, Goto
    <3>q. QED
      BY <2>13, <3>1, <3>2 DEF ResetInit
  <2>14. CASE BeginCIA(s)
    BY <2>14 DEF BeginCIA, MayBegin, MayUsePipe
  <2>15. CASE CancelCIA(s)
    BY <2>15 DEF CancelCIA, HasCIA, MoveHandle, MayUsePipe, EndOpenTitle, TitleEnds, NoTitle
  <2>16. CASE FinishCIA(s)
    BY <2>16 DEF FinishCIA, HasCIA, MoveHandle, MayUsePipe
  <2>17. CASE ReadData(s)
    <3>1. CASE pipe.kind = "cia" /\ Goto(s, "cia_finish")
      BY <2>17, <3>1 DEF ReadData, Goto
    <3>2. CASE pipe.kind # "cia" /\ Goto(s, "cia_lost")
      BY <2>17, <3>2 DEF ReadData, Goto
    <3>3. CASE pipe.kind # "cia" /\ Goto(s, "fault")
      BY <2>17, <3>3 DEF ReadData, Goto
    <3>q. QED
      BY <2>17, <3>1, <3>2, <3>3 DEF ReadData
  <2>18. CASE FinishCIATitle(s)
    <3>1. CASE th[s].pc = "cia_finish" /\ Return(s) /\ title # NoTitle /\ TitleEnds
      BY <2>18, <3>1 DEF FinishCIATitle, Goto, Return, EndOpenTitle, TitleEnds, NoTitle
    <3>2. CASE th[s].pc = "cia_finish" /\ Return(s) /\ UNCHANGED am9
      BY <2>18, <3>2 DEF FinishCIATitle, Goto, Return, EndOpenTitle, TitleEnds, NoTitle
    <3>3. CASE th[s].pc = "cia_lost" /\ Goto(s, "fault") /\ title # NoTitle /\ TitleEnds
      BY <2>18, <3>3 DEF FinishCIATitle, Goto, Return, EndOpenTitle, TitleEnds, NoTitle
    <3>4. CASE th[s].pc = "cia_lost" /\ Goto(s, "fault") /\ UNCHANGED am9
      BY <2>18, <3>4 DEF FinishCIATitle, Goto, Return, EndOpenTitle, TitleEnds, NoTitle
    <3>q. QED
      BY <2>18, <3>1, <3>2, <3>3, <3>4 DEF FinishCIATitle, EndOpenTitle
  <2>19. CASE DropHandle(s)
    BY <2>19 DEF DropHandle, HasCIA
  <2>20. CASE NextClient(s)
    BY <2>20 DEF NextClient, ClosesPipe
  <2>q. QED
    BY <1>1, StepKinds, <2>1, <2>2, <2>3, <2>4, <2>5, <2>6, <2>7, <2>8, <2>9, <2>10,
       <2>11, <2>12, <2>13, <2>14, <2>15, <2>16, <2>17, <2>18, <2>19, <2>20 DEF StepKind
<1>2. CASE StartPipeThread
  BY <1>2 DEF StartPipeThread
<1>3. CASE Write
  BY <1>3 DEF Write
<1>4. CASE ReceiveWrite
  BY <1>4 DEF ReceiveWrite
<1>5. CASE CIABeginTitle
  BY <1>5 DEF CIABeginTitle
<1>6. CASE CIAFinishBatch
  BY <1>6 DEF CIAFinishBatch, TitleEnds, NoTitle
<1>7. CASE WriteReturns
  BY <1>7 DEF WriteReturns
<1>8. CASE PipeThreadExits
  BY <1>8 DEF PipeThreadExits
<1>q. QED
  BY <1>1, <1>2, <1>3, <1>4, <1>5, <1>6, <1>7, <1>8 DEF Next, SStep

\* While no title is finished over an open handle, a served import has its client,
\* which has the title that a part belongs to.
LEMMA ClientKept ==
  ASSUME TypeOK, TypeOK', BusyThreads, PipeState, PipeState', OneCommand, StopFindsThread, PipeHasClient, Next,
         "finish_open" \notin may, "overlap" \notin may, "late_start" \notin may
  PROVE  PipeHasClient'
<1> USE SessionsAssumption, MediaAssumption
<1> USE DEF TypeOK, Threads, Places, PipeCommands, Finishing, Pipes, Kinds, Parts,
            PartTitle, am9, data, manager, write, Idle, BusyThreads, PipeState, NoImport,
            OneCommand, StopFindsThread, PipeHasClient
<1>1. ASSUME NEW s \in Sessions, SStep(s) PROVE PipeHasClient'
  <2>1. ASSUME NEW m \in Media, BeginTitle(s, m) PROVE PipeHasClient'
    BY <2>1 DEF BeginTitle, NoTitle
  <2>2. ASSUME NEW k \in Parts, BeginsPart(s, k) PROVE PipeHasClient'
    BY <2>2 DEF BeginsPart, BeginPart, MayBegin, MayUsePipe
  <2>3. ASSUME NEW k \in Parts, EndsPart(s, k) PROVE PipeHasClient'
    BY <2>3 DEF EndsPart, EndPart, MoveHandle, MayUsePipe
  <2>4. ASSUME NEW k \in PartTitle, Refuse(s, k) PROVE PipeHasClient'
    BY <2>4 DEF Refuse
  <2>5. CASE PauseRefused(s)
    BY <2>5 DEF PauseRefused, MoveHandle, MayUsePipe
  <2>6. CASE StopTitle(s)
    BY <2>6 DEF StopTitle, Goto, MayUsePipe
  <2>7. CASE EnsureThreadExit(s)
    <3>1. CASE init /\ pipe.started /\ Goto(s, "exit_wait") /\ UNCHANGED init
      BY <2>7, <3>1 DEF EnsureThreadExit, Goto, LockIsFree
    <3>2. CASE ~(init /\ pipe.started) /\ Goto(s, "stop") /\ init' = FALSE
      BY <2>7, <3>2 DEF EnsureThreadExit, Goto, LockIsFree
    <3>q. QED
      BY <2>7, <3>1, <3>2 DEF EnsureThreadExit
  <2>8. CASE PipeThreadIsGone(s)
    BY <2>8 DEF PipeThreadIsGone, Goto
  <2>9. CASE StopInAM9(s)
    BY <2>9 DEF StopInAM9, Return, EndOpenTitle, TitleEnds, NoTitle
  <2>10. CASE FinishTitle(s)
    BY <2>10 DEF FinishTitle, EndOpenTitle, TitleEnds, NoTitle
  <2>11. CASE CreateImportHandle(s)
    BY <2>11 DEF CreateImportHandle, Return, LockIsFree
  <2>12. CASE CloseImportHandle(s)
    <3>1. CASE th[s].pc = "close" /\ ~(pipe.by = s /\ pipe.kind = th[s].kind)
      BY <2>12, <3>1 DEF CloseImportHandle, Goto, ClosesPipe
    <3>2. CASE th[s].pc = "cia_close" /\ ~(pipe.by = s /\ pipe.kind = th[s].kind)
      BY <2>12, <3>2 DEF CloseImportHandle, Goto, ClosesPipe
    <3>3. CASE th[s].pc = "close" /\ pipe.by = s /\ pipe.kind = th[s].kind
      BY <2>12, <3>3 DEF CloseImportHandle, Goto, ClosesPipe
    <3>4. CASE th[s].pc = "cia_close" /\ pipe.by = s /\ pipe.kind = th[s].kind
      BY <2>12, <3>4 DEF CloseImportHandle, Goto, ClosesPipe
    <3>q. QED
      BY <2>12, <3>1, <3>2, <3>3, <3>4 DEF CloseImportHandle, ClosesPipe
  <2>13. CASE ResetInit(s)
    <3>1. CASE th[s].pc = "reset" /\ Return(s)
      BY <2>13, <3>1 DEF ResetInit, Return, Goto
    <3>2. CASE th[s].pc = "cia_reset" /\ Goto(s, "cia_read")
      BY <2>13, <3>2 DEF ResetInit, Return, Goto
    <3>q. QED
      BY <2>13, <3>1, <3>2 DEF ResetInit
  <2>14. CASE BeginCIA(s)
    BY <2>14 DEF BeginCIA, MayBegin, MayUsePipe
  <2>15. CASE CancelCIA(s)
    BY <2>15 DEF CancelCIA, HasCIA, MoveHandle, MayUsePipe, EndOpenTitle, TitleEnds, NoTitle
  <2>16. CASE FinishCIA(s)
    BY <2>16 DEF FinishCIA, HasCIA, MoveHandle, MayUsePipe
  <2>17. CASE ReadData(s)
    <3>1. CASE pipe.kind = "cia" /\ Goto(s, "cia_finish")
      BY <2>17, <3>1 DEF ReadData, Goto
    <3>2. CASE pipe.kind # "cia" /\ Goto(s, "cia_lost")
      BY <2>17, <3>2 DEF ReadData, Goto
    <3>3. CASE pipe.kind # "cia" /\ Goto(s, "fault")
      BY <2>17, <3>3 DEF ReadData, Goto
    <3>q. QED
      BY <2>17, <3>1, <3>2, <3>3 DEF ReadData
  <2>18. CASE FinishCIATitle(s)
    <3>1. CASE th[s].pc = "cia_finish" /\ Return(s) /\ title # NoTitle /\ TitleEnds
      BY <2>18, <3>1 DEF FinishCIATitle, Goto, Return, EndOpenTitle, TitleEnds, NoTitle
    <3>2. CASE th[s].pc = "cia_finish" /\ Return(s) /\ UNCHANGED am9
      BY <2>18, <3>2 DEF FinishCIATitle, Goto, Return, EndOpenTitle, TitleEnds, NoTitle
    <3>3. CASE th[s].pc = "cia_lost" /\ Goto(s, "fault") /\ title # NoTitle /\ TitleEnds
      BY <2>18, <3>3 DEF FinishCIATitle, Goto, Return, EndOpenTitle, TitleEnds, NoTitle
    <3>4. CASE th[s].pc = "cia_lost" /\ Goto(s, "fault") /\ UNCHANGED am9
      BY <2>18, <3>4 DEF FinishCIATitle, Goto, Return, EndOpenTitle, TitleEnds, NoTitle
    <3>q. QED
      BY <2>18, <3>1, <3>2, <3>3, <3>4 DEF FinishCIATitle, EndOpenTitle
  <2>19. CASE DropHandle(s)
    BY <2>19 DEF DropHandle, HasCIA
  <2>20. CASE NextClient(s)
    BY <2>20 DEF NextClient, ClosesPipe
  <2>q. QED
    BY <1>1, StepKinds, <2>1, <2>2, <2>3, <2>4, <2>5, <2>6, <2>7, <2>8, <2>9, <2>10,
       <2>11, <2>12, <2>13, <2>14, <2>15, <2>16, <2>17, <2>18, <2>19, <2>20 DEF StepKind
<1>2. CASE StartPipeThread
  BY <1>2 DEF StartPipeThread
<1>3. CASE Write
  BY <1>3 DEF Write
<1>4. CASE ReceiveWrite
  BY <1>4 DEF ReceiveWrite
<1>5. CASE CIABeginTitle
  BY <1>5 DEF CIABeginTitle
<1>6. CASE CIAFinishBatch
  BY <1>6 DEF CIAFinishBatch, TitleEnds, NoTitle
<1>7. CASE WriteReturns
  BY <1>7 DEF WriteReturns
<1>8. CASE PipeThreadExits
  BY <1>8 DEF PipeThreadExits
<1>q. QED
  BY <1>1, <1>2, <1>3, <1>4, <1>5, <1>6, <1>7, <1>8 DEF Next, SStep

\* While clients live, AM9 agrees and no command faults, an open title has somebody
\* to end it.
LEMMA EnderKept ==
  ASSUME TypeOK, TypeOK', BusyThreads, PipeState, PipeState', OneCommand, EventHasWaiter, DataAreThere, TitleHasEnder, Next,
         "die" \notin may, "refuse_end" \notin may, "no_pipe" \notin may, "late_read" \notin may,
         "overlap" \notin may, "late_start" \notin may
  PROVE  TitleHasEnder'
<1> USE SessionsAssumption, MediaAssumption
<1> USE DEF TypeOK, Threads, Places, PipeCommands, Finishing, Pipes, Kinds, Parts,
            PartTitle, am9, data, manager, write, Idle, BusyThreads, PipeState, NoImport,
            OneCommand, EventHasWaiter, DataAreThere, TitleHasEnder
<1>1. ASSUME NEW s \in Sessions, SStep(s) PROVE TitleHasEnder'
  <2>1. ASSUME NEW m \in Media, BeginTitle(s, m) PROVE TitleHasEnder'
    BY <2>1 DEF BeginTitle, NoTitle
  <2>2. ASSUME NEW k \in Parts, BeginsPart(s, k) PROVE TitleHasEnder'
    BY <2>2 DEF BeginsPart, BeginPart, MayBegin, MayUsePipe
  <2>3. ASSUME NEW k \in Parts, EndsPart(s, k) PROVE TitleHasEnder'
    BY <2>3 DEF EndsPart, EndPart, MoveHandle, MayUsePipe
  <2>4. ASSUME NEW k \in PartTitle, Refuse(s, k) PROVE TitleHasEnder'
    BY <2>4 DEF Refuse
  <2>5. CASE PauseRefused(s)
    BY <2>5 DEF PauseRefused, MoveHandle, MayUsePipe
  <2>6. CASE StopTitle(s)
    BY <2>6 DEF StopTitle, Goto, MayUsePipe
  <2>7. CASE EnsureThreadExit(s)
    <3>1. CASE init /\ pipe.started /\ Goto(s, "exit_wait") /\ UNCHANGED init
      BY <2>7, <3>1 DEF EnsureThreadExit, Goto, LockIsFree
    <3>2. CASE ~(init /\ pipe.started) /\ Goto(s, "stop") /\ init' = FALSE
      BY <2>7, <3>2 DEF EnsureThreadExit, Goto, LockIsFree
    <3>q. QED
      BY <2>7, <3>1, <3>2 DEF EnsureThreadExit
  <2>8. CASE PipeThreadIsGone(s)
    BY <2>8 DEF PipeThreadIsGone, Goto
  <2>9. CASE StopInAM9(s)
    <3>1. title' = NoTitle
      BY <2>9 DEF StopInAM9, EndOpenTitle, TitleEnds
    <3>2. NoTitle.by = NoOne /\ NoOne \notin Sessions /\ NoOne # CIA
      BY DEF NoTitle, NoOne, CIA
    <3>q. QED
      BY <2>9, <3>1, <3>2 DEF StopInAM9, Return, EndOpenTitle, TitleEnds, NoTitle
  <2>10. CASE FinishTitle(s)
    <3>1. title' = NoTitle
      BY <2>10 DEF FinishTitle, EndOpenTitle, TitleEnds
    <3>2. NoTitle.by = NoOne /\ NoOne \notin Sessions /\ NoOne # CIA
      BY DEF NoTitle, NoOne, CIA
    <3>q. QED
      BY <2>10, <3>1, <3>2 DEF FinishTitle, EndOpenTitle, TitleEnds, NoTitle
  <2>11. CASE CreateImportHandle(s)
    BY <2>11 DEF CreateImportHandle, Return, LockIsFree
  <2>12. CASE CloseImportHandle(s)
    <3>1. CASE th[s].pc = "close" /\ ~(pipe.by = s /\ pipe.kind = th[s].kind)
      BY <2>12, <3>1 DEF CloseImportHandle, Goto, ClosesPipe
    <3>2. CASE th[s].pc = "cia_close" /\ ~(pipe.by = s /\ pipe.kind = th[s].kind)
      BY <2>12, <3>2 DEF CloseImportHandle, Goto, ClosesPipe
    <3>3. CASE th[s].pc = "close" /\ pipe.by = s /\ pipe.kind = th[s].kind
      BY <2>12, <3>3 DEF CloseImportHandle, Goto, ClosesPipe
    <3>4. CASE th[s].pc = "cia_close" /\ pipe.by = s /\ pipe.kind = th[s].kind
      BY <2>12, <3>4 DEF CloseImportHandle, Goto, ClosesPipe
    <3>q. QED
      BY <2>12, <3>1, <3>2, <3>3, <3>4 DEF CloseImportHandle, ClosesPipe
  <2>13. CASE ResetInit(s)
    <3>1. CASE th[s].pc = "reset" /\ Return(s)
      BY <2>13, <3>1 DEF ResetInit, Return, Goto
    <3>2. CASE th[s].pc = "cia_reset" /\ Goto(s, "cia_read")
      BY <2>13, <3>2 DEF ResetInit, Return, Goto
    <3>q. QED
      BY <2>13, <3>1, <3>2 DEF ResetInit
  <2>14. CASE BeginCIA(s)
    BY <2>14 DEF BeginCIA, MayBegin, MayUsePipe
  <2>15. CASE CancelCIA(s)
    <3>1. CASE title' = NoTitle
      <4>1. UNCHANGED <<pipe, writing>>
        BY <2>15 DEF CancelCIA, MoveHandle
      <4>2. NoTitle.by = NoOne /\ NoOne \notin Sessions /\ NoOne # CIA
        BY DEF NoTitle, NoOne, CIA
      <4>q. QED
        BY <3>1, <4>1, <4>2
    <3>2. CASE pipe.cia \notin {"title", "title_failed"} /\ UNCHANGED am9
      <4>1. /\ UNCHANGED <<title, importing_title, pipe, writing>> /\ th[s].pc = "idle"
            /\ \A r \in Sessions : r # s => th'[r] = th[r]
        BY <2>15, <3>2 DEF CancelCIA, MoveHandle
      <4>q. QED
        BY <3>2, <4>1, ZenonT(60)
    <3>q. QED
      BY <2>15, <3>1, <3>2 DEF CancelCIA, EndOpenTitle, TitleEnds
  <2>16. CASE FinishCIA(s)
    BY <2>16 DEF FinishCIA, HasCIA, MoveHandle, MayUsePipe
  <2>17. CASE ReadData(s)
    <3>1. CASE pipe.kind = "cia" /\ Goto(s, "cia_finish")
      BY <2>17, <3>1 DEF ReadData, Goto
    <3>2. CASE pipe.kind # "cia" /\ Goto(s, "cia_lost")
      BY <2>17, <3>2 DEF ReadData, Goto
    <3>3. CASE pipe.kind # "cia" /\ Goto(s, "fault")
      BY <2>17, <3>3 DEF ReadData, Goto
    <3>q. QED
      BY <2>17, <3>1, <3>2, <3>3 DEF ReadData
  <2>18. CASE FinishCIATitle(s)
    <3>1. th[s].pc = "cia_finish" /\ title' = NoTitle /\ UNCHANGED <<pipe, writing>>
      BY <2>18 DEF FinishCIATitle, EndOpenTitle, TitleEnds
    <3>2. NoTitle.by = NoOne /\ NoOne \notin Sessions /\ NoOne # CIA
      BY DEF NoTitle, NoOne, CIA
    <3>q. QED
      BY <3>1, <3>2
  <2>19. CASE DropHandle(s)
    BY <2>19 DEF DropHandle, HasCIA
  <2>20. CASE NextClient(s)
    BY <2>20 DEF NextClient, ClosesPipe
  <2>q. QED
    BY <1>1, StepKinds, <2>1, <2>2, <2>3, <2>4, <2>5, <2>6, <2>7, <2>8, <2>9, <2>10,
       <2>11, <2>12, <2>13, <2>14, <2>15, <2>16, <2>17, <2>18, <2>19, <2>20 DEF StepKind
<1>2. CASE StartPipeThread
  BY <1>2 DEF StartPipeThread
<1>3. CASE Write
  BY <1>3 DEF Write
<1>4. CASE ReceiveWrite
  BY <1>4 DEF ReceiveWrite
<1>5. CASE CIABeginTitle
  BY <1>5 DEF CIABeginTitle
<1>6. CASE CIAFinishBatch
  <2>1. title' = NoTitle /\ UNCHANGED writing /\ pipe' = [pipe EXCEPT !.cia = "between"]
    BY <1>6 DEF CIAFinishBatch, TitleEnds
  <2>2. NoTitle.by = NoOne /\ NoOne \notin Sessions /\ NoOne # CIA
    BY DEF NoTitle, NoOne, CIA
  <2>q. QED
    BY <2>1, <2>2
<1>7. CASE WriteReturns
  BY <1>7 DEF WriteReturns
<1>8. CASE PipeThreadExits
  BY <1>8 DEF PipeThreadExits
<1>q. QED
  BY <1>1, <1>2, <1>3, <1>4, <1>5, <1>6, <1>7, <1>8 DEF Next, SStep

\* While clients live, AM9 agrees and there is memory, an open part has its handle.
LEMMA HandleKept ==
  ASSUME TypeOK, TypeOK', BusyThreads, PipeState, PipeState', OneCommand, EventHasWaiter, PartHasHandle, Next,
         "die" \notin may, "refuse_end" \notin may, "no_pipe" \notin may,
         "overlap" \notin may, "late_start" \notin may
  PROVE  PartHasHandle'
<1> USE SessionsAssumption, MediaAssumption
<1> USE DEF TypeOK, Threads, Places, PipeCommands, Finishing, Pipes, Kinds, Parts,
            PartTitle, am9, data, manager, write, Idle, BusyThreads, PipeState, NoImport,
            OneCommand, EventHasWaiter, PartHasHandle
<1>1. ASSUME NEW s \in Sessions, SStep(s) PROVE PartHasHandle'
  <2>1. ASSUME NEW m \in Media, BeginTitle(s, m) PROVE PartHasHandle'
    BY <2>1 DEF BeginTitle, NoTitle
  <2>2. ASSUME NEW k \in Parts, BeginsPart(s, k) PROVE PartHasHandle'
    BY <2>2 DEF BeginsPart, BeginPart, MayBegin, MayUsePipe
  <2>3. ASSUME NEW k \in Parts, EndsPart(s, k) PROVE PartHasHandle'
    BY <2>3 DEF EndsPart, EndPart, MoveHandle, MayUsePipe
  <2>4. ASSUME NEW k \in PartTitle, Refuse(s, k) PROVE PartHasHandle'
    BY <2>4 DEF Refuse
  <2>5. CASE PauseRefused(s)
    BY <2>5 DEF PauseRefused, MoveHandle, MayUsePipe
  <2>6. CASE StopTitle(s)
    BY <2>6 DEF StopTitle, Goto, MayUsePipe
  <2>7. CASE EnsureThreadExit(s)
    <3>1. CASE init /\ pipe.started /\ Goto(s, "exit_wait") /\ UNCHANGED init
      BY <2>7, <3>1 DEF EnsureThreadExit, Goto, LockIsFree
    <3>2. CASE ~(init /\ pipe.started) /\ Goto(s, "stop") /\ init' = FALSE
      BY <2>7, <3>2 DEF EnsureThreadExit, Goto, LockIsFree
    <3>q. QED
      BY <2>7, <3>1, <3>2 DEF EnsureThreadExit
  <2>8. CASE PipeThreadIsGone(s)
    BY <2>8 DEF PipeThreadIsGone, Goto
  <2>9. CASE StopInAM9(s)
    BY <2>9 DEF StopInAM9, Return, EndOpenTitle, TitleEnds, NoTitle
  <2>10. CASE FinishTitle(s)
    <3>1. CASE TitleEnds
      <4>1. part'["tmd"] = NoOne /\ part'["content"] = NoOne /\ part'["ticket"] = part["ticket"]
        BY <3>1 DEF TitleEnds
      <4>2. UNCHANGED <<handle, th>>
        BY <2>10 DEF FinishTitle
      <4>q. QED
        BY <4>1, <4>2
    <3>2. CASE title = NoTitle /\ UNCHANGED am9
      <4>1. part["tmd"] = NoOne /\ part["content"] = NoOne
        BY <3>2
      <4>q. QED
        BY <2>10, <3>2, <4>1 DEF FinishTitle
    <3>q. QED
      BY <2>10, <3>1, <3>2 DEF FinishTitle, EndOpenTitle
  <2>11. CASE CreateImportHandle(s)
    BY <2>11 DEF CreateImportHandle, Return, LockIsFree
  <2>12. CASE CloseImportHandle(s)
    <3>1. CASE th[s].pc = "close" /\ ~(pipe.by = s /\ pipe.kind = th[s].kind)
      BY <2>12, <3>1 DEF CloseImportHandle, Goto, ClosesPipe
    <3>2. CASE th[s].pc = "cia_close" /\ ~(pipe.by = s /\ pipe.kind = th[s].kind)
      BY <2>12, <3>2 DEF CloseImportHandle, Goto, ClosesPipe
    <3>3. CASE th[s].pc = "close" /\ pipe.by = s /\ pipe.kind = th[s].kind
      BY <2>12, <3>3 DEF CloseImportHandle, Goto, ClosesPipe
    <3>4. CASE th[s].pc = "cia_close" /\ pipe.by = s /\ pipe.kind = th[s].kind
      BY <2>12, <3>4 DEF CloseImportHandle, Goto, ClosesPipe
    <3>q. QED
      BY <2>12, <3>1, <3>2, <3>3, <3>4 DEF CloseImportHandle, ClosesPipe
  <2>13. CASE ResetInit(s)
    <3>1. CASE th[s].pc = "reset" /\ Return(s)
      BY <2>13, <3>1 DEF ResetInit, Return, Goto
    <3>2. CASE th[s].pc = "cia_reset" /\ Goto(s, "cia_read")
      BY <2>13, <3>2 DEF ResetInit, Return, Goto
    <3>q. QED
      BY <2>13, <3>1, <3>2 DEF ResetInit
  <2>14. CASE BeginCIA(s)
    BY <2>14 DEF BeginCIA, MayBegin, MayUsePipe
  <2>15. CASE CancelCIA(s)
    <3>1. CASE TitleEnds
      <4>1. part'["tmd"] = NoOne /\ part'["content"] = NoOne /\ part'["ticket"] = part["ticket"]
        BY <3>1 DEF TitleEnds
      <4>2. /\ handle[s] = "cia" /\ handle' = [handle EXCEPT ![s] = "none"] /\ th[s].pc = "idle"
            /\ th' = [th EXCEPT ![s] = [pc |-> "close", kind |-> "cia"]]
        BY <2>15 DEF CancelCIA, MoveHandle
      <4>q. QED
        BY <4>1, <4>2
    <3>2. CASE UNCHANGED am9
      BY <2>15, <3>2 DEF CancelCIA, MoveHandle
    <3>q. QED
      BY <2>15, <3>1, <3>2 DEF CancelCIA, EndOpenTitle
  <2>16. CASE FinishCIA(s)
    BY <2>16 DEF FinishCIA, HasCIA, MoveHandle, MayUsePipe
  <2>17. CASE ReadData(s)
    <3>1. CASE pipe.kind = "cia" /\ Goto(s, "cia_finish")
      BY <2>17, <3>1 DEF ReadData, Goto
    <3>2. CASE pipe.kind # "cia" /\ Goto(s, "cia_lost")
      BY <2>17, <3>2 DEF ReadData, Goto
    <3>3. CASE pipe.kind # "cia" /\ Goto(s, "fault")
      BY <2>17, <3>3 DEF ReadData, Goto
    <3>q. QED
      BY <2>17, <3>1, <3>2, <3>3 DEF ReadData
  <2>18. CASE FinishCIATitle(s)
    <3>1. CASE TitleEnds
      <4>1. part'["tmd"] = NoOne /\ part'["content"] = NoOne /\ part'["ticket"] = part["ticket"]
        BY <3>1 DEF TitleEnds
      <4>2. th[s].pc \in {"cia_finish", "cia_lost"} /\ UNCHANGED handle /\ \A r \in Sessions \ {s} : th'[r] = th[r]
        BY <2>18 DEF FinishCIATitle, Goto, Return
      <4>3. part["ticket"] # s
        BY <4>2
      <4>q. QED
        BY <4>1, <4>2, <4>3
    <3>2. CASE title = NoTitle /\ UNCHANGED am9
      <4>1. part["tmd"] = NoOne /\ part["content"] = NoOne
        BY <3>2
      <4>2. th[s].pc \in {"cia_finish", "cia_lost"} /\ UNCHANGED handle /\ \A r \in Sessions \ {s} : th'[r] = th[r]
        BY <2>18 DEF FinishCIATitle, Goto, Return
      <4>3. part["ticket"] # s
        BY <4>2
      <4>q. QED
        BY <3>2, <4>1, <4>2, <4>3
    <3>q. QED
      BY <2>18, <3>1, <3>2 DEF FinishCIATitle, EndOpenTitle
  <2>19. CASE DropHandle(s)
    BY <2>19 DEF DropHandle, HasCIA
  <2>20. CASE NextClient(s)
    BY <2>20 DEF NextClient, ClosesPipe
  <2>q. QED
    BY <1>1, StepKinds, <2>1, <2>2, <2>3, <2>4, <2>5, <2>6, <2>7, <2>8, <2>9, <2>10,
       <2>11, <2>12, <2>13, <2>14, <2>15, <2>16, <2>17, <2>18, <2>19, <2>20 DEF StepKind
<1>2. CASE StartPipeThread
  BY <1>2 DEF StartPipeThread
<1>3. CASE Write
  BY <1>3 DEF Write
<1>4. CASE ReceiveWrite
  BY <1>4 DEF ReceiveWrite
<1>5. CASE CIABeginTitle
  BY <1>5 DEF CIABeginTitle
<1>6. CASE CIAFinishBatch
  BY <1>6 DEF CIAFinishBatch, TitleEnds, NoTitle
<1>7. CASE WriteReturns
  BY <1>7 DEF WriteReturns
<1>8. CASE PipeThreadExits
  BY <1>8 DEF PipeThreadExits
<1>q. QED
  BY <1>1, <1>2, <1>3, <1>4, <1>5, <1>6, <1>7, <1>8 DEF Next, SStep

\* While titles are finished as they should be and a stop finds the pipe thread, the
\* part in the pipe stays open.
LEMMA PartKept ==
  ASSUME TypeOK, TypeOK', BusyThreads, PipeState, PipeState', Owned, OneCommand, StopFindsThread, PartIsOwn, Next,
         "finish_open" \notin may, "finish_early" \notin may, "overlap" \notin may, "late_start" \notin may
  PROVE  PartIsOwn'
<1> USE SessionsAssumption, MediaAssumption
<1> USE DEF TypeOK, Threads, Places, PipeCommands, Finishing, Pipes, Kinds, Parts,
            PartTitle, am9, data, manager, write, Idle, BusyThreads, PipeState, NoImport,
            OneCommand, StopFindsThread, PartIsOwn, Owned, FlagIsOwn, StopperHasFlag,
            EnderIsCIA, CIAHasTitle
<1>1. ASSUME NEW s \in Sessions, SStep(s) PROVE PartIsOwn'
  <2>1. ASSUME NEW m \in Media, BeginTitle(s, m) PROVE PartIsOwn'
    BY <2>1 DEF BeginTitle, NoTitle
  <2>2. ASSUME NEW k \in Parts, BeginsPart(s, k) PROVE PartIsOwn'
    BY <2>2 DEF BeginsPart, BeginPart, MayBegin, MayUsePipe
  <2>3. ASSUME NEW k \in Parts, EndsPart(s, k) PROVE PartIsOwn'
    BY <2>3 DEF EndsPart, EndPart, MoveHandle, MayUsePipe
  <2>4. ASSUME NEW k \in PartTitle, Refuse(s, k) PROVE PartIsOwn'
    BY <2>4 DEF Refuse
  <2>5. CASE PauseRefused(s)
    BY <2>5 DEF PauseRefused, MoveHandle, MayUsePipe
  <2>6. CASE StopTitle(s)
    BY <2>6 DEF StopTitle, Goto, MayUsePipe
  <2>7. CASE EnsureThreadExit(s)
    <3>1. CASE init /\ pipe.started /\ Goto(s, "exit_wait") /\ UNCHANGED init
      BY <2>7, <3>1 DEF EnsureThreadExit, Goto, LockIsFree
    <3>2. CASE ~(init /\ pipe.started) /\ Goto(s, "stop") /\ init' = FALSE
      BY <2>7, <3>2 DEF EnsureThreadExit, Goto, LockIsFree
    <3>q. QED
      BY <2>7, <3>1, <3>2 DEF EnsureThreadExit
  <2>8. CASE PipeThreadIsGone(s)
    BY <2>8 DEF PipeThreadIsGone, Goto
  <2>9. CASE StopInAM9(s)
    BY <2>9 DEF StopInAM9, Return, EndOpenTitle, TitleEnds, NoTitle
  <2>10. CASE FinishTitle(s)
    <3>1. /\ title.by = s /\ th[s].pc = "idle" /\ handle[s] \notin PartTitle
          /\ ~(writing /\ pipe.by = s /\ ~pipe.closed)
          /\ importing_title[s] /\ \A r \in Sessions \ {s} : ~importing_title[r]
      BY <2>10 DEF FinishTitle
    <3>2. \A r \in Sessions : th[r].pc = "create" => th[r].kind \notin PartTitle
      BY <3>1
    <3>3. pipe.kind \in PartTitle => ~writing /\ handle[pipe.by] # pipe.kind
      BY <3>1
    <3>4. part'["ticket"] = part["ticket"]
      BY <2>10 DEF FinishTitle, EndOpenTitle, TitleEnds
    <3>5. /\ importing_title' = [importing_title EXCEPT ![s] = FALSE]
          /\ UNCHANGED <<th, handle, pipe, writing>>
      BY <2>10 DEF FinishTitle
    <3>q. QED
      BY <3>1, <3>2, <3>3, <3>4, <3>5
  <2>11. CASE CreateImportHandle(s)
    BY <2>11 DEF CreateImportHandle, Return, LockIsFree
  <2>12. CASE CloseImportHandle(s)
    <3>1. CASE th[s].pc = "close" /\ ~(pipe.by = s /\ pipe.kind = th[s].kind)
      BY <2>12, <3>1 DEF CloseImportHandle, Goto, ClosesPipe
    <3>2. CASE th[s].pc = "cia_close" /\ ~(pipe.by = s /\ pipe.kind = th[s].kind)
      BY <2>12, <3>2 DEF CloseImportHandle, Goto, ClosesPipe
    <3>3. CASE th[s].pc = "close" /\ pipe.by = s /\ pipe.kind = th[s].kind
      BY <2>12, <3>3 DEF CloseImportHandle, Goto, ClosesPipe
    <3>4. CASE th[s].pc = "cia_close" /\ pipe.by = s /\ pipe.kind = th[s].kind
      BY <2>12, <3>4 DEF CloseImportHandle, Goto, ClosesPipe
    <3>q. QED
      BY <2>12, <3>1, <3>2, <3>3, <3>4 DEF CloseImportHandle, ClosesPipe
  <2>13. CASE ResetInit(s)
    <3>1. CASE th[s].pc = "reset" /\ Return(s)
      BY <2>13, <3>1 DEF ResetInit, Return, Goto
    <3>2. CASE th[s].pc = "cia_reset" /\ Goto(s, "cia_read")
      BY <2>13, <3>2 DEF ResetInit, Return, Goto
    <3>q. QED
      BY <2>13, <3>1, <3>2 DEF ResetInit
  <2>14. CASE BeginCIA(s)
    BY <2>14 DEF BeginCIA, MayBegin, MayUsePipe
  <2>15. CASE CancelCIA(s)
    BY <2>15 DEF CancelCIA, HasCIA, MoveHandle, MayUsePipe, EndOpenTitle, TitleEnds, NoTitle
  <2>16. CASE FinishCIA(s)
    BY <2>16 DEF FinishCIA, HasCIA, MoveHandle, MayUsePipe
  <2>17. CASE ReadData(s)
    <3>1. CASE pipe.kind = "cia" /\ Goto(s, "cia_finish")
      BY <2>17, <3>1 DEF ReadData, Goto
    <3>2. CASE pipe.kind # "cia" /\ Goto(s, "cia_lost")
      BY <2>17, <3>2 DEF ReadData, Goto
    <3>3. CASE pipe.kind # "cia" /\ Goto(s, "fault")
      BY <2>17, <3>3 DEF ReadData, Goto
    <3>q. QED
      BY <2>17, <3>1, <3>2, <3>3 DEF ReadData
  <2>18. CASE FinishCIATitle(s)
    <3>1. title.by = CIA /\ \A r \in Sessions : ~importing_title[r]
      BY <2>18 DEF FinishCIATitle
    <3>2. \A r \in Sessions : th[r].pc = "create" => th[r].kind \notin PartTitle
      BY <3>1
    <3>3. pipe.kind \in PartTitle => ~writing /\ handle[pipe.by] # pipe.kind
      BY <3>1
    <3>4. part'["ticket"] = part["ticket"]
      BY <2>18 DEF FinishCIATitle, EndOpenTitle, TitleEnds
    <3>5. /\ UNCHANGED <<importing_title, handle, pipe, writing>>
          /\ th'[s].pc # "create" /\ \A r \in Sessions \ {s} : th'[r] = th[r]
      BY <2>18 DEF FinishCIATitle, Goto, Return
    <3>q. QED
      BY <3>1, <3>2, <3>3, <3>4, <3>5
  <2>19. CASE DropHandle(s)
    BY <2>19 DEF DropHandle, HasCIA
  <2>20. CASE NextClient(s)
    BY <2>20 DEF NextClient, ClosesPipe
  <2>q. QED
    BY <1>1, StepKinds, <2>1, <2>2, <2>3, <2>4, <2>5, <2>6, <2>7, <2>8, <2>9, <2>10,
       <2>11, <2>12, <2>13, <2>14, <2>15, <2>16, <2>17, <2>18, <2>19, <2>20 DEF StepKind
<1>2. CASE StartPipeThread
  BY <1>2 DEF StartPipeThread
<1>3. CASE Write
  BY <1>3 DEF Write
<1>4. CASE ReceiveWrite
  BY <1>4 DEF ReceiveWrite
<1>5. CASE CIABeginTitle
  BY <1>5 DEF CIABeginTitle
<1>6. CASE CIAFinishBatch
  BY <1>6 DEF CIAFinishBatch, TitleEnds, NoTitle
<1>7. CASE WriteReturns
  BY <1>7 DEF WriteReturns
<1>8. CASE PipeThreadExits
  BY <1>8 DEF PipeThreadExits
<1>q. QED
  BY <1>1, <1>2, <1>3, <1>4, <1>5, <1>6, <1>7, <1>8 DEF Next, SStep

-----------------------------------------------------------------------------
\* The invariant, with what each environment leaves of it.
OInv ==
  /\ TypeOK /\ BusyThreads /\ PipeState
  /\ ~May({"finish_early"}) => Owned
  /\ ~May({"overlap"}) => OneCommand
  /\ ~May({"overlap", "late_start"}) => StopFindsThread
  /\ ~May({"overlap", "late_start", "die", "no_pipe"}) => EventHasWaiter
  /\ ~May({"late_read"}) => DataAreThere
  /\ ~May({"finish_open", "overlap", "late_start"}) => PipeHasClient
  /\ ~May({"die", "refuse_end", "no_pipe", "late_read", "overlap", "late_start"}) => TitleHasEnder
  /\ ~May({"die", "refuse_end", "no_pipe", "overlap", "late_start"}) => PartHasHandle
  /\ ~May({"finish_open", "finish_early", "overlap", "late_start"}) => PartIsOwn

\* Nothing is open, and the pipe has no import.
LEMMA OInitInv == Init => OInv
<1> SUFFICES ASSUME Init PROVE OInv
  OBVIOUS
<1>1. /\ title = NoTitle /\ title.by = NoOne /\ writing = FALSE /\ sent = FALSE
      /\ init = FALSE /\ close_event = FALSE /\ part = [k \in Parts |-> NoOne]
      /\ pipe = NoImport /\ pipe.kind = "none" /\ pipe.closed = FALSE /\ pipe.cia = "none"
      /\ \A s \in Sessions : th[s].pc = "idle" /\ handle[s] = "none" /\ ~importing_title[s]
  BY DEF Init, NoTitle, NoImport
<1>2. NoOne \notin Sessions /\ NoOne # CIA
  BY SessionsAssumption DEF NoOne, CIA
<1>3. TypeOK
  BY MediaAssumption
  DEF Init, TypeOK, Threads, Places, PipeCommands, Finishing, Pipes, Kinds, Parts, NoTitle, NoImport
<1>4. BusyThreads /\ PipeState
  BY <1>1 DEF BusyThreads, PipeState, Finishing
<1>5. Owned
  BY <1>1 DEF Owned, FlagIsOwn, StopperHasFlag, EnderIsCIA, CIAHasTitle, Finishing
<1>6. OneCommand
  BY <1>1 DEF OneCommand, PipeCommands, Finishing
<1>7. StopFindsThread /\ EventHasWaiter
  BY <1>1 DEF StopFindsThread, EventHasWaiter
<1>8. DataAreThere /\ PipeHasClient /\ TitleHasEnder
  BY <1>1, <1>2 DEF DataAreThere, PipeHasClient, TitleHasEnder
<1>9. PartHasHandle /\ PartIsOwn
  BY <1>1 DEF PartHasHandle, PartIsOwn, Parts, PartTitle
<1>q. QED
  BY <1>3, <1>4, <1>5, <1>6, <1>7, <1>8, <1>9 DEF OInv

\* Each environment's part is kept by that environment's steps.
LEMMA ONextInv == OInv /\ [Next]_vars => OInv'
<1> SUFFICES ASSUME OInv, [Next]_vars PROVE OInv'
  OBVIOUS
<1> USE DEF OInv
<1>1. CASE Next
  <2>1. may' = may
    BY <1>1, MayIsFixed
  <2>2. TypeOK /\ TypeOK' /\ BusyThreads' /\ PipeState'
    BY <1>1, Typing, ThreadsAndPipe
  <2>3. (~May({"finish_early"}) => Owned)'
    BY <1>1, <2>1, <2>2, Ownership DEF May
  <2>4. (~May({"overlap"}) => OneCommand)'
    BY <1>1, <2>1, <2>2, OneCommandKept DEF May
  <2>5. (~May({"overlap", "late_start"}) => StopFindsThread)'
    BY <1>1, <2>1, <2>2, StopFindsThreadKept DEF May
  <2>6. (~May({"overlap", "late_start", "die", "no_pipe"}) => EventHasWaiter)'
    BY <1>1, <2>1, <2>2, EventHasWaiterKept DEF May
  <2>7. (~May({"late_read"}) => DataAreThere)'
    BY <1>1, <2>1, <2>2, DataAreThereKept DEF May
  <2>8. (~May({"finish_open", "overlap", "late_start"}) => PipeHasClient)'
    BY <1>1, <2>1, <2>2, ClientKept DEF May
  <2>9. (~May({"die", "refuse_end", "no_pipe", "late_read", "overlap", "late_start"}) => TitleHasEnder)'
    BY <1>1, <2>1, <2>2, EnderKept DEF May
  <2>10. (~May({"die", "refuse_end", "no_pipe", "overlap", "late_start"}) => PartHasHandle)'
    BY <1>1, <2>1, <2>2, HandleKept DEF May
  <2>11. (~May({"finish_open", "finish_early", "overlap", "late_start"}) => PartIsOwn)'
    BY <1>1, <2>1, <2>2, PartKept DEF May
  <2>q. QED
    BY <2>2, <2>3, <2>4, <2>5, <2>6, <2>7, <2>8, <2>9, <2>10, <2>11
<1>2. CASE UNCHANGED vars
  <2>1. UNCHANGED <<may, importing_title, media, th, handle, init, close_event, pipe, sent, writing, title, part>>
    BY <1>2 DEF vars, data, am9, manager, write
  <2>2. TypeOK' /\ BusyThreads' /\ PipeState' /\ UNCHANGED <<Owned, OneCommand, StopFindsThread, EventHasWaiter>>
    BY <2>1 DEF TypeOK, BusyThreads, PipeState, Owned, FlagIsOwn, StopperHasFlag,
       EnderIsCIA, CIAHasTitle,
               OneCommand, StopFindsThread, EventHasWaiter
  <2>3. UNCHANGED <<DataAreThere, PipeHasClient, TitleHasEnder, PartHasHandle, PartIsOwn>>
    BY <2>1 DEF DataAreThere, PipeHasClient, TitleHasEnder, PartHasHandle, PartIsOwn
  <2>q. QED
    BY <2>1, <2>2, <2>3 DEF May
<1>q. QED
  BY <1>1, <1>2

\* What each environment leaves of the bookkeeping between AM, pipe and AM9.
THEOREM OInvariance == Spec => []OInv
BY OInitInv, ONextInv, PTL DEF Spec

\* A session whose importing_title is set has its own title open in AM9, for any
\* number of sessions and media.
THEOREM FlagIsTrue == Spec => []FlagMeansOwnTitle
<1>1. OInv => FlagMeansOwnTitle
  BY DEF OInv, Owned, FlagIsOwn, FlagMeansOwnTitle
<1>q. QED
  BY <1>1, OInvariance, PTL

\* Where a stop finds the pipe thread, what AM_Pipe_Ticket_Write, AM_Pipe_TMD_Write
\* and AM_Pipe_Content_Write give to AM9 reaches the part that the writing client's
\* own session began, for any number of sessions.
THEOREM WritesStayInPart == Spec => []WritesReachOpenPart
<1>1. OInv => WritesReachOpenPart
  BY DEF OInv, PartIsOwn, WritesReachOpenPart
<1>q. QED
  BY <1>1, OInvariance, PTL

\* When no command is in progress, and stops have found the pipe thread, the title,
\* the parts and the pipe that are still taken can all be given back by a client
\* that has the flag or the handle for it: in each environment, those it leaves.
THEOREM NothingIsOrphaned == Spec => []NothingOrphaned
<1>1. OInv => NothingOrphaned
  <2> SUFFICES ASSUME OInv, \A s \in Sessions : th[s].pc \in {"idle", "fault"}, ~May({"overlap", "late_start"})
               PROVE  NothingOrphaned
    BY DEF NothingOrphaned
  <2> USE DEF OInv, TypeOK, May
  <2>1. ~May({"die", "refuse_end", "no_pipe", "late_read"}) =>
          \/ title = NoTitle
          \/ title.by = CIA /\ pipe.cia = "title"
          \/ title.by \in Sessions /\ importing_title[title.by]
    BY DEF TitleHasEnder, Finishing
  <2>2. ~May({"die", "refuse_end", "no_pipe"}) =>
          \A k \in Parts : part[k] # NoOne => handle[part[k]] = k
    BY DEF PartHasHandle, PipeState
  <2>3. ~May({"finish_open"}) => pipe = NoImport \/ pipe.closed \/ handle[pipe.by] = pipe.kind
    BY DEF PipeHasClient, PipeState
  <2>q. QED
    BY <2>1, <2>2, <2>3 DEF NothingOrphaned
<1>q. QED
  BY <1>1, OInvariance, PTL

-----------------------------------------------------------------------------
\* An import's session in the kernel, as seen by ImportPipe: only who has the pipe,
\* whether the handle is closed, and whether a write is under way.
LEMMA PipeUntouched ==
  ASSUME pipe'.by = pipe.by, pipe'.closed = pipe.closed, writing' = writing
  PROVE  UNCHANGED ImportPipe!pipevars
BY DEF ImportPipe!pipevars

\* A handle that has the pipe is closed once; another one's close is not noticed.
LEMMA ClosingIsClose ==
  ASSUME TypeOK, NEW s \in Sessions, NEW k \in Kinds \ {"none"}, ClosesPipe(s, k), writing' = writing
  PROVE  [ImportPipe!Next]_(ImportPipe!pipevars)
<1>1. CASE pipe.by = s /\ pipe.kind = k /\ ~pipe.closed
  <2>1. pipe' = [pipe EXCEPT !.closed = TRUE]
    BY <1>1 DEF ClosesPipe
  <2>2. pipe'.by = pipe.by /\ pipe'.closed = TRUE
    BY <2>1 DEF TypeOK, Pipes
  <2>3. ImportPipe!Close
    BY <1>1, <2>2, SessionsAssumption DEF ImportPipe!Close
  <2>q. QED
    BY <2>3 DEF ImportPipe!Next
<1>2. CASE ~(pipe.by = s /\ pipe.kind = k /\ ~pipe.closed)
  <2>1. pipe'.by = pipe.by /\ pipe'.closed = pipe.closed
    BY <1>2 DEF ClosesPipe, TypeOK, Pipes
  <2>q. QED
    BY <2>1, PipeUntouched
<1>q. QED
  BY <1>1, <1>2

\* Every step that touches the pipe is one of the pipe's own, or no other import
\* could notice it.
LEMMA StepsUsePipe ==
  ASSUME TypeOK, TypeOK', BusyThreads, PipeState, Next
  PROVE  [ImportPipe!Next]_(ImportPipe!pipevars)
<1>1. pipe.by = NoOne => pipe = NoImport /\ ~writing
  BY SessionsAssumption DEF TypeOK, PipeState
<1>2. pipe = NoImport => pipe.by = NoOne /\ pipe.closed = FALSE /\ ~writing
  BY DEF NoImport, PipeState
<1>3. ASSUME pipe' = NoImport, ~writing, writing' = writing
      PROVE  [ImportPipe!Next]_(ImportPipe!pipevars)
  <2>1. pipe'.by = NoOne /\ pipe'.closed = FALSE
    BY <1>3 DEF NoImport
  <2>2. ImportPipe!TearDown
    BY <1>3, <2>1 DEF ImportPipe!TearDown
  <2>q. QED
    BY <2>2 DEF ImportPipe!Next
<1>4. ASSUME NEW s \in Sessions, SStep(s) PROVE [ImportPipe!Next]_(ImportPipe!pipevars)
  <2>1. CASE UNCHANGED <<pipe, writing>>
    BY <2>1, PipeUntouched
  <2>2. CASE CreateImportHandle(s)
    <3>1. CASE UNCHANGED pipe
      BY <2>1, <2>2, <3>1 DEF CreateImportHandle, write
    <3>2. CASE pipe = NoImport /\ pipe'.by = s /\ pipe'.closed = FALSE
      <4>1. writing' = writing /\ ~writing /\ pipe.by = NoOne /\ pipe.closed = FALSE
        BY <1>2, <2>2, <3>2 DEF CreateImportHandle, write
      <4>2. ImportPipe!Register(s)
        BY <3>2, <4>1, SessionsAssumption DEF ImportPipe!Register
      <4>q. QED
        BY <4>2 DEF ImportPipe!Next
    <3>3. CASE pipe = NoImport /\ \E k, c : pipe' = [kind |-> k, by |-> s, started |-> FALSE, closed |-> FALSE, cia |-> c]
      <4>1. PICK k, c : pipe' = [kind |-> k, by |-> s, started |-> FALSE, closed |-> FALSE, cia |-> c]
        BY <3>3
      <4>2. pipe'.by = s /\ pipe'.closed = FALSE
        BY <4>1
      <4>q. QED
        BY <3>2, <3>3, <4>2
    <3>q. QED
      BY <2>2, <3>1, <3>3 DEF CreateImportHandle
  <2>3. CASE CloseImportHandle(s)
    <3>1. th[s].kind \in Kinds \ {"none"} /\ ClosesPipe(s, th[s].kind) /\ writing' = writing
      BY <2>3 DEF CloseImportHandle, BusyThreads, Finishing, TypeOK, Threads, Kinds, write
    <3>q. QED
      BY <3>1, ClosingIsClose
  <2>4. CASE NextClient(s)
    <3>1. CASE ClosesPipe(s, pipe.kind) /\ pipe.kind # "none"
      <4>1. pipe.kind \in Kinds
        BY DEF TypeOK, Pipes
      <4>q. QED
        BY <2>4, <3>1, <4>1, ClosingIsClose DEF NextClient
    <3>2. CASE ClosesPipe(s, pipe.kind) /\ pipe.kind = "none"
      <4>1. pipe = NoImport /\ pipe.by # s
        BY <3>2, SessionsAssumption DEF PipeState, NoImport
      <4>q. QED
        BY <2>1, <2>4, <3>2, <4>1 DEF ClosesPipe, NextClient
    <3>q. QED
      BY <2>1, <2>4, <3>1, <3>2 DEF NextClient
  <2>q. QED
    BY <1>4, <2>1, <2>2, <2>3, <2>4
    DEF SStep, BeginTitle, StopTitle, EnsureThreadExit, PipeThreadIsGone, StopInAM9, FinishTitle, BeginTicket,
        BeginTMD, BeginContent, BeginPart, EndTicket, EndTMD, EndContent, PauseContent, EndPart, Refuse,
        MoveHandle, ResetInit, BeginCIA, CancelCIA, FinishCIA, ReadData, FinishCIATitle, DropHandle, write
<1>5. CASE StartPipeThread \/ CIABeginTitle \/ CIAFinishBatch
  <2>1. pipe'.by = pipe.by /\ pipe'.closed = pipe.closed /\ writing' = writing
    BY <1>5 DEF StartPipeThread, CIABeginTitle, CIAFinishBatch, write, TypeOK, Pipes
  <2>q. QED
    BY <2>1, PipeUntouched
<1>6. CASE Write
  BY <1>6, PipeUntouched DEF Write
<1>7. CASE ReceiveWrite
  <2>1. pipe # NoImport /\ ~writing /\ ~pipe.closed /\ writing' = TRUE /\ pipe' = pipe
    BY <1>7 DEF ReceiveWrite, PipeState, NoImport
  <2>2. pipe.by \in Sessions
    BY <1>1, <2>1 DEF TypeOK, PipeState
  <2>3. ImportPipe!Serve(pipe.by)
    BY <2>1, <2>2, SessionsAssumption DEF ImportPipe!Serve
  <2>q. QED
    BY <2>2, <2>3 DEF ImportPipe!Next
<1>8. CASE WriteReturns
  <2>1. writing /\ ~writing' /\ pipe' = pipe
    BY <1>8 DEF WriteReturns
  <2>2. pipe.by # NoOne
    BY <1>1, <2>1
  <2>3. ImportPipe!Answer
    BY <2>1, <2>2 DEF ImportPipe!Answer
  <2>q. QED
    BY <2>3 DEF ImportPipe!Next
<1>9. CASE PipeThreadExits
  BY <1>3, <1>9 DEF PipeThreadExits
<1>q. QED
  BY <1>4, <1>5, <1>6, <1>7, <1>8, <1>9 DEF Next, SStep

\* What any number of sessions, their title commands and CIA imports do to the pipe
\* is what a pipe allows, whatever overlaps and whenever a title is stopped: no import
\* takes it from another, no write is served after a close, none is ended by a stop.
THEOREM TitlesUsePipe == Spec => UsesPipe
<1>1. Init => ImportPipe!Init
  BY DEF Init, NoImport, ImportPipe!Init
<1>2. OInv /\ [Next]_vars => [ImportPipe!Next]_(ImportPipe!pipevars)
  <2>1. ASSUME OInv, Next PROVE [ImportPipe!Next]_(ImportPipe!pipevars)
    BY <2>1, Typing, StepsUsePipe DEF OInv
  <2>2. ASSUME UNCHANGED vars PROVE UNCHANGED ImportPipe!pipevars
    BY <2>2, PipeUntouched DEF vars, write
  <2>q. QED
    BY <2>1, <2>2
<1>q. QED
  BY <1>1, <1>2, OInvariance, PTL DEF Spec, UsesPipe, ImportPipe!Spec
=============================================================================
