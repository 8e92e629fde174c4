-------------------------- MODULE PipeManagerProofs --------------------------
(***************************************************************************)
(* Theorems about PipeManager, for any sessions, any number of imports and *)
(* any set of environments.                                                *)
(*                                                                         *)
(* The init flag is a token: whoever has an import open took it.  When     *)
(* imports come one after another there is more to say: the pipe is empty, *)
(* or one import has it, and the places it goes through - the port's       *)
(* queue, AM_Main, the pipe thread - follow each other whatever the        *)
(* session thread does meanwhile.  As much of that is left when titles are *)
(* ended over an open handle as makes the manager a pipe (module Pipe).    *)
(***************************************************************************)
EXTENDS PipeManager, TLAPS

Creating == {"lock", "init", "connect", "failed"}
Registered == {"write", "data", "event", "send"}
Ending == {"finish_cia", "cancel_cia", "cancel_data", "cancel_use", "close", "close_finish", "close_media"}
Ended == {"reset", "reset_finish", "reset_media", "finish_data", "finish_use", "read_media", "fault"}
Exiting == {"exit_lock", "exit_signal", "exit_thread", "exit_wait"}
ThLabels == {"idle"} \union Creating \union Registered \union Ending \union Ended \union Exiting
Closing == {"zero", "free", "clear_data", "clear_write"}
PtLabels == {"none", "signal", "capture", "receive", "write", "close", "exited", "panic", "fault"} \union Closing

ThreadsTyped ==
  /\ th \in [Sessions -> [pc : ThLabels, id : Imports \union {0}, c : Nat]]
  /\ \A s \in Sessions : th[s].pc \notin Exiting \union {"idle"} => th[s].id \in Imports

PTypeOK ==
  /\ init \in BOOLEAN /\ close_event \in BOOLEAN
  /\ write \in {"none", "cia", "raw"} /\ data \in Imports \union {0}
  /\ current_session \in Imports \union {0}
  /\ thread \in Nat /\ started \in Nat
  /\ heap \subseteq Imports /\ port \in Seq(Imports) /\ request \subseteq Imports
  /\ client \in [Imports -> {"none", "am", "user", "closed"}]
  /\ server \in [Imports -> {"none", "pending", "open", "closed"}]
  /\ main \in {"wait", "free", "start"}
  /\ pt \in [pc : PtLabels, mine : Imports \union {0}]
  /\ ThreadsTyped
  /\ kind \in [Imports -> {"none", "cia", "raw"}]
  /\ importing \subseteq Sessions

\* A pipe thread that runs can be waited for, and none runs when AM_Main has
\* waited.
ThreadIsStored ==
  /\ PipeThreadAlive => thread # 0
  /\ main = "start" => ~PipeThreadAlive

-----------------------------------------------------------------------------
\* What "end_title" would bring.
NoTitleEnds ==
  /\ importing = {} /\ close_event = FALSE
  /\ \A s \in Sessions : th[s].pc \notin Exiting

\* A session's thread that has an import open.
HasOpen(s) ==
  th[s].pc \in {"connect"} \union Registered \union Ending \union {"reset", "reset_finish", "reset_media"}

\* The flag is up while an import is open, and only one is.
InitIsToken ==
  /\ \A s \in Sessions : HasOpen(s) => init /\ \A i \in Imports : client[i] # "user"
  /\ \A s, r \in Sessions : HasOpen(s) /\ HasOpen(r) => s = r
  /\ \A i \in Imports : client[i] = "user" => init
  /\ \A i, j \in Imports : client[i] = "user" /\ client[j] = "user" => i = j

-----------------------------------------------------------------------------
(* One after another *)

Alone == \A s, r \in Sessions : ~Idle(s) /\ ~Idle(r) => s = r

\* A request waits for an answer only as long as its client does.
RequestsAreLive ==
  /\ \A i \in request : client[i] = "user"
  /\ pt.pc = "write" => pt.mine \in request

\* What a begin command has allocated is there until it is registered or freed.
DataIsKept ==
  /\ \A i \in heap : kind[i] = "cia"
  /\ \A s \in Sessions : th[s].pc \in Creating \union Registered =>
       kind[th[s].id] # "none" /\ (kind[th[s].id] = "cia" => th[s].id \in heap)

\* Where the import that has the pipe is.
Queued(i) == port = <<i>> /\ main = "wait" /\ ~PipeThreadAlive /\ current_session = 0 /\ server[i] = "pending"
Accepted(i) == port = <<>> /\ main \in {"free", "start"} /\ ~PipeThreadAlive /\ current_session = i /\ server[i] = "open"
Starting(i) == port = <<>> /\ main = "wait" /\ pt.pc \in {"signal", "capture"} /\ current_session = i /\ server[i] = "open"
Served(i) == port = <<>> /\ main = "wait" /\ pt.pc \in {"receive", "write", "close"} /\ pt.mine = i /\ current_session = i /\ server[i] = "open"
Leaving(i) ==
  /\ port = <<>> /\ main = "wait" /\ pt.pc \in Closing /\ pt.mine = i /\ server[i] = "closed"
  /\ current_session = IF pt.pc = "zero" THEN i ELSE 0

Stage(i) == Queued(i) \/ Accepted(i) \/ Starting(i) \/ Served(i) \/ Leaving(i)

\* Nobody else has a session.
OthersAreClosed(i) ==
  \A j \in Imports : j # i => server[j] \in {"none", "closed"} /\ client[j] \in {"none", "closed"}

\* Who else is at work: a session thread with this import, or one that has begun
\* another and will find the flag up.
OthersCreate(i) ==
  \A s \in Sessions :
    /\ th[s].pc # "connect"
    /\ th[s].pc \in Creating =>
         th[s].id # i /\ client[i] = "user" /\ pt.pc \in {"receive", "write"}
    /\ th[s].pc \in Registered \union Ending => th[s].id = i /\ client[i] = "am"

\* The write function and its data, as far as they are published.
Published(i) ==
  LET writing == \E s \in Sessions : th[s].pc = "write"
      storing == \E s \in Sessions : th[s].pc \in {"write", "data"}
  IN
  /\ write = IF writing THEN "none" ELSE kind[i]
  /\ data = IF storing \/ pt.pc = "clear_write" \/ kind[i] # "cia" THEN 0 ELSE i

HeapIs(i) ==
  /\ i \in heap <=> kind[i] = "cia" /\ pt.pc \notin {"clear_data", "clear_write"}
  /\ \A j \in heap : j # i => \E s \in Sessions : th[s].pc \in Creating /\ th[s].id = j

Has(i) ==
  /\ Stage(i) /\ kind[i] # "none" /\ OthersAreClosed(i) /\ OthersCreate(i) /\ Published(i) /\ HeapIs(i)
  /\ client[i] \in {"am", "user", "closed"}
  /\ client[i] = "am" => \E s \in Sessions : th[s].pc \in Registered \union Ending
  /\ pt.pc \in {"close"} \union Closing => client[i] = "closed"

Empty ==
  /\ port = <<>> /\ main = "wait" /\ ~PipeThreadAlive
  /\ write = "none" /\ data = 0 /\ current_session = 0
  /\ \A j \in Imports : server[j] \in {"none", "closed"} /\ client[j] \in {"none", "closed"}
  /\ \A s \in Sessions : th[s].pc \in {"idle"} \union Creating \union Ended
  /\ \A j \in heap : \E s \in Sessions : th[s].pc \in Creating /\ th[s].id = j

\* The data that a cancelling command has read are those of its import.
CancelHasData ==
  \A s \in Sessions :
    /\ th[s].pc \in {"cancel_cia", "cancel_data", "cancel_use"} => kind[th[s].id] = "cia"
    /\ th[s].pc = "cancel_use" => th[s].c = th[s].id

InTurn == Alone /\ RequestsAreLive /\ DataIsKept /\ (Empty \/ \E i \in Imports : Has(i))

PInv ==
  /\ PTypeOK /\ ThreadIsStored
  /\ "end_title" \notin may => NoTitleEnds /\ InitIsToken
  /\ OneAfterAnother => InTurn /\ CancelHasData

-----------------------------------------------------------------------------
\* Imports are numbered from 1.
LEMMA ImportNumbers == 0 \notin Imports /\ Imports \subseteq Nat
BY MaxImportsAssumption DEF Imports

\* A command that has begun has an import, unless it is about a title.
LEMMA HasImport ==
  ASSUME ThreadsTyped, NEW s \in Sessions
  PROVE  /\ th[s].pc \in Creating \union Registered \union Ending \union Ended => th[s].id \in Imports
         /\ th[s].id \in Imports \union {0} /\ th[s].c \in Nat /\ th[s].pc \in ThLabels
BY DEF ThreadsTyped, ThLabels, Creating, Registered, Ending, Ended, Exiting

\* What a session thread's step from label to label leaves as it is.
LEMMA GotoKeeps ==
  ASSUME ThreadsTyped, NEW s \in Sessions, NEW l \in ThLabels, NEW v \in Nat,
         l \in Exiting \union {"idle"} \/ th[s].id \in Imports,
         Goto(s, l) \/ th' = [th EXCEPT ![s].pc = l, ![s].c = v]
  PROVE  /\ ThreadsTyped'
         /\ th'[s].pc = l /\ th'[s].id = th[s].id
         /\ \A r \in Sessions : r # s => th'[r] = th[r]
<1>1. PICK rec : /\ th' = [th EXCEPT ![s] = rec]
                 /\ rec = [th[s] EXCEPT !.pc = l] \/ rec = [th[s] EXCEPT !.pc = l, !.c = v]
  BY DEF Goto
<1>2. th'[s] = rec /\ \A r \in Sessions : r # s => th'[r] = th[r]
  BY <1>1 DEF ThreadsTyped
<1>3. /\ rec \in [pc : ThLabels, id : Imports \union {0}, c : Nat]
      /\ rec.pc = l /\ rec.id = th[s].id
  BY <1>1 DEF ThreadsTyped
<1>4. th' \in [Sessions -> [pc : ThLabels, id : Imports \union {0}, c : Nat]]
  BY <1>1, <1>3 DEF ThreadsTyped
<1>5. ThreadsTyped'
  BY <1>2, <1>3, <1>4 DEF ThreadsTyped
<1>q. QED
  BY <1>2, <1>3, <1>5

\* Where each step of a session's thread begins and ends.
Moved(s, from, to) ==
  /\ th[s].pc \in from /\ th[s].id \in Imports
  /\ th'[s].pc \in to /\ th'[s].id = th[s].id
  /\ \A r \in Sessions : r # s => th'[r] = th[r]

\* Where each step takes the thread of its session.
LEMMA Moves ==
  ASSUME ThreadsTyped, NEW s \in Sessions
  PROVE
    /\ CreateLock(s) => Moved(s, {"lock"}, {"init"})
    /\ CreateInit(s) => Moved(s, {"init"}, {"failed", "connect"})
    /\ CreateSession(s) => Moved(s, {"connect"}, {"write", "failed"})
    /\ PublishWrite(s) => Moved(s, {"write"}, {"data"})
    /\ PublishData(s) => Moved(s, {"data"}, {"event"})
    /\ WaitEvent(s) => Moved(s, {"event"}, {"send"})
    /\ SendHandle(s) => Moved(s, {"send"}, {"idle"})
    /\ CreateFailed(s) => Moved(s, {"failed"}, {"idle"})
    /\ CheckWrite(s) => Moved(s, {"finish_cia", "cancel_cia"}, {"idle", "close_finish", "cancel_data"})
    /\ CancelData(s) => Moved(s, {"cancel_data"}, {"cancel_use"})
    /\ CancelUse(s) => Moved(s, {"cancel_use"}, {"close", "fault"})
    /\ CloseHandle(s) => Moved(s, {"close", "close_finish", "close_media"}, {"reset", "reset_finish", "reset_media"})
    /\ ResetInit(s) => Moved(s, {"reset", "reset_finish", "reset_media"}, {"idle", "finish_data", "read_media"})
    /\ FinishData(s) => Moved(s, {"finish_data"}, {"finish_use"})
    /\ FinishUse(s) => Moved(s, {"finish_use"}, {"idle", "fault"})
    /\ ReadMedia(s) => Moved(s, {"read_media"}, {"idle", "fault"})
<1>1. CreateLock(s) => Moved(s, {"lock"}, {"init"})
  BY HasImport DEF CreateLock, Goto, Moved, ThreadsTyped, Creating, Registered, Ending, Ended
<1>2. CreateInit(s) => Moved(s, {"init"}, {"failed", "connect"})
  BY HasImport DEF CreateInit, Goto, Moved, ThreadsTyped, Creating, Registered, Ending, Ended
<1>3. CreateSession(s) => Moved(s, {"connect"}, {"write", "failed"})
  BY HasImport DEF CreateSession, Goto, Moved, ThreadsTyped, Creating, Registered, Ending, Ended
<1>4. PublishWrite(s) => Moved(s, {"write"}, {"data"})
  BY HasImport DEF PublishWrite, Goto, Moved, ThreadsTyped, Creating, Registered, Ending, Ended
<1>5. PublishData(s) => Moved(s, {"data"}, {"event"})
  BY HasImport DEF PublishData, Goto, Moved, ThreadsTyped, Creating, Registered, Ending, Ended
<1>6. WaitEvent(s) => Moved(s, {"event"}, {"send"})
  BY HasImport DEF WaitEvent, Goto, Moved, ThreadsTyped, Creating, Registered, Ending, Ended
<1>7. SendHandle(s) => Moved(s, {"send"}, {"idle"})
  BY HasImport DEF SendHandle, Goto, Moved, ThreadsTyped, Creating, Registered, Ending, Ended
<1>8. CreateFailed(s) => Moved(s, {"failed"}, {"idle"})
  BY HasImport DEF CreateFailed, Goto, Moved, ThreadsTyped, Creating, Registered, Ending, Ended
<1>9. CheckWrite(s) => Moved(s, {"finish_cia", "cancel_cia"}, {"idle", "close_finish", "cancel_data"})
  BY HasImport DEF CheckWrite, Goto, Moved, ThreadsTyped, Creating, Registered, Ending, Ended
<1>10. CancelData(s) => Moved(s, {"cancel_data"}, {"cancel_use"})
  BY HasImport DEF CancelData, Moved, ThreadsTyped, Creating, Registered, Ending, Ended
<1>11. CancelUse(s) => Moved(s, {"cancel_use"}, {"close", "fault"})
  BY HasImport DEF CancelUse, UseData, Goto, Moved, ThreadsTyped, Creating, Registered, Ending, Ended
<1>12. CloseHandle(s) => Moved(s, {"close", "close_finish", "close_media"}, {"reset", "reset_finish", "reset_media"})
  BY HasImport DEF CloseHandle, Goto, Moved, ThreadsTyped, Creating, Registered, Ending, Ended
<1>13. ResetInit(s) => Moved(s, {"reset", "reset_finish", "reset_media"}, {"idle", "finish_data", "read_media"})
  BY HasImport DEF ResetInit, Goto, Moved, ThreadsTyped, Creating, Registered, Ending, Ended
<1>14. FinishData(s) => Moved(s, {"finish_data"}, {"finish_use"})
  BY HasImport DEF FinishData, Moved, ThreadsTyped, Creating, Registered, Ending, Ended
<1>15. FinishUse(s) => Moved(s, {"finish_use"}, {"idle", "fault"})
  BY HasImport DEF FinishUse, UseData, Goto, Moved, ThreadsTyped, Creating, Registered, Ending, Ended
<1>16. ReadMedia(s) => Moved(s, {"read_media"}, {"idle", "fault"})
  BY HasImport DEF ReadMedia, UseData, Goto, Moved, ThreadsTyped, Creating, Registered, Ending, Ended
<1>q. QED
  BY <1>1, <1>2, <1>3, <1>4, <1>5, <1>6, <1>7, <1>8, <1>9, <1>10, <1>11, <1>12, <1>13, <1>14, <1>15, <1>16

\* Every step keeps the types.
LEMMA PTyping ==
  ASSUME PTypeOK, Next
  PROVE  PTypeOK'
<1> USE ImportNumbers
<1> USE DEF PTypeOK, ThLabels, Creating, Registered, Ending, Ended, Exiting, PtLabels, Closing,
            manager, kernel, pipeThread, Idle
<1>1. ASSUME NEW s \in Sessions, Client(s) \/ Create(s) \/ End(s) PROVE PTypeOK'
  <2>1. ASSUME NEW k \in {"cia", "raw"}, BeginImport(s, k) PROVE PTypeOK'
    <3>1. PICK i \in Imports :
            /\ kind' = [kind EXCEPT ![i] = k]
            /\ heap' = IF k = "cia" THEN heap \union {i} ELSE heap
            /\ th' = [th EXCEPT ![s] = [pc |-> "lock", id |-> i, c |-> 0]]
      BY <2>1 DEF BeginImport
    <3>2. ThreadsTyped'
      BY <3>1 DEF ThreadsTyped
    <3>q. QED
      BY <2>1, <3>1, <3>2 DEF BeginImport
  <2>2. ASSUME NEW i \in Imports, NEW l \in {"finish_cia", "close_media", "cancel_cia", "close"},
               EndImport(s, i, l) PROVE PTypeOK'
    <3>1. ThreadsTyped'
      BY <2>2 DEF EndImport, ThreadsTyped
    <3>q. QED
      BY <2>2, <3>1 DEF EndImport
  <2>3. CASE TitleBegin(s)
    <3>1. ThreadsTyped'
      BY <2>3 DEF TitleBegin, ThreadsTyped
    <3>q. QED
      BY <2>3, <3>1 DEF TitleBegin
  <2>4. CASE TitleEnd(s)
    <3>1. ThreadsTyped'
      BY <2>4, GotoKeeps DEF TitleEnd
    <3>q. QED
      BY <2>4, <3>1 DEF TitleEnd
  <2>5. CASE CreateLock(s)
    <3>1. th[s].id \in Imports
      BY <2>5, HasImport DEF CreateLock
    <3>2. ThreadsTyped'
      BY <2>5, <3>1, GotoKeeps DEF CreateLock
    <3>q. QED
      BY <2>5, <3>1, <3>2 DEF CreateLock
  <2>6. CASE CreateInit(s)
    <3>1. th[s].id \in Imports
      BY <2>6, HasImport DEF CreateInit
    <3>2. ThreadsTyped'
      BY <2>6, <3>1, GotoKeeps DEF CreateInit
    <3>3. init' \in BOOLEAN
      BY <2>6 DEF CreateInit
    <3>q. QED
      BY <2>6, <3>2, <3>3 DEF CreateInit
  <2>7. CASE CreateSession(s)
    <3>1. th[s].id \in Imports
      BY <2>7, HasImport DEF CreateSession
    <3>2. ThreadsTyped'
      BY <2>7, <3>1, GotoKeeps DEF CreateSession
    <3>3. CASE /\ client' = [client EXCEPT ![th[s].id] = "am"]
               /\ server' = [server EXCEPT ![th[s].id] = "pending"]
               /\ port' = Append(port, th[s].id)
      <4>1. port' \in Seq(Imports)
        BY <3>1, <3>3
      <4>2. /\ client' \in [Imports -> {"none", "am", "user", "closed"}]
            /\ server' \in [Imports -> {"none", "pending", "open", "closed"}]
        BY <3>3
      <4>q. QED
        BY <2>7, <3>2, <4>1, <4>2 DEF CreateSession
    <3>4. CASE UNCHANGED <<client, server, port>>
      BY <2>7, <3>2, <3>4 DEF CreateSession
    <3>q. QED
      BY <2>7, <3>3, <3>4 DEF CreateSession
  <2>8. CASE PublishWrite(s)
    <3>1. th[s].id \in Imports
      BY <2>8, HasImport DEF PublishWrite
    <3>2. ThreadsTyped'
      BY <2>8, <3>1, GotoKeeps DEF PublishWrite
    <3>q. QED
      BY <2>8, <3>1, <3>2, SMTT(60) DEF PublishWrite
  <2>9. CASE PublishData(s)
    <3>1. th[s].id \in Imports
      BY <2>9, HasImport DEF PublishData
    <3>2. ThreadsTyped'
      BY <2>9, <3>1, GotoKeeps DEF PublishData
    <3>q. QED
      BY <2>9, <3>1, <3>2 DEF PublishData
  <2>10. CASE WaitEvent(s)
    <3>1. th[s].id \in Imports
      BY <2>10, HasImport DEF WaitEvent
    <3>2. ThreadsTyped'
      BY <2>10, <3>1, GotoKeeps DEF WaitEvent
    <3>q. QED
      BY <2>10, <3>1, <3>2 DEF WaitEvent
  <2>11. CASE SendHandle(s)
    <3>1. th[s].id \in Imports
      BY <2>11, HasImport DEF SendHandle
    <3>2. ThreadsTyped'
      BY <2>11, <3>1, GotoKeeps DEF SendHandle
    <3>q. QED
      BY <2>11, <3>1, <3>2 DEF SendHandle
  <2>12. CASE CreateFailed(s)
    <3>1. th[s].id \in Imports
      BY <2>12, HasImport DEF CreateFailed
    <3>2. ThreadsTyped'
      BY <2>12, <3>1, GotoKeeps DEF CreateFailed
    <3>q. QED
      BY <2>12, <3>1, <3>2, ZenonT(90) DEF CreateFailed
  <2>13. CASE CheckWrite(s)
    <3>1. th[s].id \in Imports
      BY <2>13, HasImport DEF CheckWrite
    <3>2. ThreadsTyped'
      BY <2>13, <3>1, GotoKeeps DEF CheckWrite
    <3>q. QED
      BY <2>13, <3>1, <3>2 DEF CheckWrite
  <2>14. CASE CancelData(s)
    <3>1. th[s].id \in Imports
      BY <2>14, HasImport DEF CancelData
    <3>2. ThreadsTyped'
      BY <2>14, <3>1, GotoKeeps, Zenon DEF CancelData
    <3>q. QED
      BY <2>14, <3>1, <3>2 DEF CancelData
  <2>15. CASE CancelUse(s)
    <3>1. th[s].id \in Imports
      BY <2>15, HasImport DEF CancelUse
    <3>2. ThreadsTyped'
      BY <2>15, <3>1, GotoKeeps DEF CancelUse, UseData
    <3>q. QED
      BY <2>15, <3>1, <3>2 DEF CancelUse
  <2>16. CASE CloseHandle(s)
    <3>1. th[s].id \in Imports
      BY <2>16, HasImport DEF CloseHandle
    <3>2. ThreadsTyped'
      BY <2>16, <3>1, GotoKeeps DEF CloseHandle
    <3>q. QED
      BY <2>16, <3>1, <3>2 DEF CloseHandle
  <2>17. CASE ResetInit(s)
    <3>1. th[s].id \in Imports
      BY <2>17, HasImport DEF ResetInit
    <3>2. ThreadsTyped'
      BY <2>17, <3>1, GotoKeeps DEF ResetInit
    <3>q. QED
      BY <2>17, <3>1, <3>2, ZenonT(90) DEF ResetInit
  <2>18. CASE FinishData(s)
    <3>1. th[s].id \in Imports
      BY <2>18, HasImport DEF FinishData
    <3>2. ThreadsTyped'
      BY <2>18, <3>1, GotoKeeps, Zenon DEF FinishData
    <3>q. QED
      BY <2>18, <3>1, <3>2 DEF FinishData
  <2>19. CASE FinishUse(s)
    <3>1. th[s].id \in Imports
      BY <2>19, HasImport DEF FinishUse
    <3>2. ThreadsTyped'
      BY <2>19, <3>1, GotoKeeps DEF FinishUse, UseData
    <3>q. QED
      BY <2>19, <3>1, <3>2 DEF FinishUse
  <2>20. CASE ExitLock(s)
    <3>1. ThreadsTyped'
      BY <2>20, GotoKeeps DEF ExitLock
    <3>q. QED
      BY <2>20, <3>1 DEF ExitLock
  <2>21. CASE ExitSignal(s)
    <3>1. ThreadsTyped'
      BY <2>21, GotoKeeps, Zenon DEF ExitSignal
    <3>q. QED
      BY <2>21, <3>1 DEF ExitSignal
  <2>22. CASE ExitWait(s)
    <3>1. ThreadsTyped'
      BY <2>22, GotoKeeps DEF ExitWait
    <3>q. QED
      BY <2>22, <3>1, ZenonT(60) DEF ExitWait
  <2>23. CASE ReadMedia(s)
    <3>1. th[s].id \in Imports
      BY <2>23, HasImport DEF ReadMedia
    <3>2. ThreadsTyped'
      BY <2>23, <3>1, GotoKeeps DEF ReadMedia, UseData
    <3>q. QED
      BY <2>23, <3>1, <3>2 DEF ReadMedia
  <2>24. CASE ExitThread(s)
    <3>1. ThreadsTyped'
      BY <2>24, GotoKeeps, Zenon DEF ExitThread
    <3>q. QED
      BY <2>24, <3>1 DEF ExitThread
  <2>q. QED
    BY <1>1, <2>1, <2>2, <2>3, <2>4, <2>5, <2>6, <2>7, <2>8, <2>9, <2>10, <2>11,
       <2>12, <2>13, <2>14, <2>15, <2>16, <2>17, <2>18, <2>19, <2>20, <2>21, <2>22, <2>23, <2>24
    DEF Client, Create, End
<1>2. ASSUME NEW i \in Imports, UserWrite(i) PROVE PTypeOK'
  <2>1. ThreadsTyped'
    BY <1>2 DEF UserWrite, ThreadsTyped
  <2>q. QED
    BY <1>2, <2>1 DEF UserWrite, PtGoto
<1>3. ASSUME NEW i \in Imports, UserDrop(i) PROVE PTypeOK'
  <2>1. ThreadsTyped'
    BY <1>3 DEF UserDrop, ThreadsTyped
  <2>q. QED
    BY <1>3, <2>1 DEF UserDrop, PtGoto
<1>4. CASE AcceptPipe
  <2>1. ThreadsTyped'
    BY <1>4 DEF AcceptPipe, ThreadsTyped
  <2>q. QED
    BY <1>4, <2>1 DEF AcceptPipe, PtGoto
<1>5. CASE FreeThread
  <2>1. ThreadsTyped'
    BY <1>5 DEF FreeThread, ThreadsTyped
  <2>q. QED
    BY <1>5, <2>1 DEF FreeThread, PtGoto
<1>6. CASE StartThread
  <2>1. ThreadsTyped'
    BY <1>6 DEF StartThread, ThreadsTyped
  <2>q. QED
    BY <1>6, <2>1 DEF StartThread, PtGoto
<1>7. CASE SignalEvent
  <2>1. ThreadsTyped'
    BY <1>7 DEF SignalEvent, ThreadsTyped
  <2>q. QED
    BY <1>7, <2>1 DEF SignalEvent, PtGoto
<1>8. CASE CaptureHandles
  <2>1. ThreadsTyped'
    BY <1>8 DEF CaptureHandles, ThreadsTyped
  <2>q. QED
    BY <1>8, <2>1 DEF CaptureHandles, PtGoto
<1>9. CASE ReceiveWrite
  <2>1. ThreadsTyped'
    BY <1>9 DEF ReceiveWrite, ThreadsTyped
  <2>q. QED
    BY <1>9, <2>1 DEF ReceiveWrite, PtGoto
<1>10. CASE ReplyWrite
  <2>1. ThreadsTyped'
    BY <1>10 DEF ReplyWrite, ThreadsTyped
  <2>q. QED
    BY <1>10, <2>1 DEF ReplyWrite, PtGoto
<1>11. CASE ReceiveClosed
  <2>1. ThreadsTyped'
    BY <1>11 DEF ReceiveClosed, ThreadsTyped
  <2>q. QED
    BY <1>11, <2>1 DEF ReceiveClosed, PtGoto
<1>12. CASE ReceiveCloseEvent
  <2>1. ThreadsTyped'
    BY <1>12 DEF ReceiveCloseEvent, ThreadsTyped
  <2>q. QED
    BY <1>12, <2>1 DEF ReceiveCloseEvent, PtGoto
<1>13. CASE ReceivePanic
  <2>1. ThreadsTyped'
    BY <1>13 DEF ReceivePanic, ThreadsTyped
  <2>q. QED
    BY <1>13, <2>1 DEF ReceivePanic, PtGoto
<1>14. CASE CloseSession
  <2>1. ThreadsTyped'
    BY <1>14 DEF CloseSession, ThreadsTyped
  <2>q. QED
    BY <1>14, <2>1, ZenonT(60) DEF CloseSession, PtGoto
<1>15. CASE ZeroSession
  <2>1. ThreadsTyped'
    BY <1>15 DEF ZeroSession, ThreadsTyped
  <2>q. QED
    BY <1>15, <2>1 DEF ZeroSession, PtGoto
<1>16. CASE FreeData
  <2>1. ThreadsTyped'
    BY <1>16 DEF FreeData, ThreadsTyped
  <2>q. QED
    BY <1>16, <2>1 DEF FreeData, PtGoto
<1>17. CASE ClearData
  <2>1. ThreadsTyped'
    BY <1>17 DEF ClearData, ThreadsTyped
  <2>q. QED
    BY <1>17, <2>1 DEF ClearData, PtGoto
<1>18. CASE ClearWrite
  <2>1. ThreadsTyped'
    BY <1>18 DEF ClearWrite, ThreadsTyped
  <2>q. QED
    BY <1>18, <2>1 DEF ClearWrite, PtGoto
<1>q. QED
  BY <1>1, <1>2, <1>3, <1>4, <1>5, <1>6, <1>7, <1>8, <1>9,
     <1>10, <1>11, <1>12, <1>13, <1>14, <1>15, <1>16, <1>17, <1>18 DEF Next, Main, PipeThread

\* A thread is started when the one before has been waited for.
LEMMA StoredKept ==
  ASSUME PTypeOK, PTypeOK', ThreadIsStored, Next
  PROVE  ThreadIsStored'
<1> USE ImportNumbers
<1> USE DEF PTypeOK, ThreadIsStored, PipeThreadAlive, manager, kernel, pipeThread
<1>1. ASSUME NEW s \in Sessions, Client(s) \/ Create(s) \/ End(s) PROVE ThreadIsStored'
  <2>1. ASSUME NEW k \in {"cia", "raw"}, BeginImport(s, k) PROVE ThreadIsStored'
    BY <2>1 DEF BeginImport
  <2>2. ASSUME NEW i \in Imports, NEW l \in {"finish_cia", "close_media", "cancel_cia", "close"},
               EndImport(s, i, l) PROVE ThreadIsStored'
    BY <2>2 DEF EndImport
  <2>3. CASE TitleBegin(s)
    BY <2>3 DEF TitleBegin
  <2>4. CASE TitleEnd(s)
    BY <2>4 DEF TitleEnd, Goto
  <2>5. CASE CreateLock(s)
    BY <2>5 DEF CreateLock, Goto
  <2>6. CASE CreateInit(s)
    BY <2>6 DEF CreateInit, Goto
  <2>7. CASE CreateSession(s)
    BY <2>7 DEF CreateSession, Goto, PortFull
  <2>8. CASE PublishWrite(s)
    BY <2>8 DEF PublishWrite, Goto
  <2>9. CASE PublishData(s)
    BY <2>9 DEF PublishData, Goto
  <2>10. CASE WaitEvent(s)
    BY <2>10 DEF WaitEvent, Goto
  <2>11. CASE SendHandle(s)
    BY <2>11 DEF SendHandle, Goto
  <2>12. CASE CreateFailed(s)
    BY <2>12 DEF CreateFailed, Goto
  <2>13. CASE CheckWrite(s)
    BY <2>13 DEF CheckWrite, Goto
  <2>14. CASE CancelData(s)
    BY <2>14 DEF CancelData
  <2>15. CASE CancelUse(s)
    BY <2>15 DEF CancelUse, Goto
  <2>16. CASE CloseHandle(s)
    BY <2>16 DEF CloseHandle, Goto
  <2>17. CASE ResetInit(s)
    BY <2>17 DEF ResetInit, Goto
  <2>18. CASE FinishData(s)
    BY <2>18 DEF FinishData
  <2>19. CASE FinishUse(s)
    BY <2>19 DEF FinishUse, Goto
  <2>20. CASE ExitLock(s)
    BY <2>20 DEF ExitLock, Goto
  <2>21. CASE ExitSignal(s)
    BY <2>21 DEF ExitSignal
  <2>22. CASE ExitWait(s)
    BY <2>22 DEF ExitWait, Goto
  <2>23. CASE ReadMedia(s)
    BY <2>23 DEF ReadMedia
  <2>24. CASE ExitThread(s)
    BY <2>24 DEF ExitThread
  <2>q. QED
    BY <1>1, <2>1, <2>2, <2>3, <2>4, <2>5, <2>6, <2>7, <2>8, <2>9, <2>10, <2>11,
       <2>12, <2>13, <2>14, <2>15, <2>16, <2>17, <2>18, <2>19, <2>20, <2>21, <2>22, <2>23, <2>24
    DEF Client, Create, End
<1>2. ASSUME NEW i \in Imports, UserWrite(i) PROVE ThreadIsStored'
  BY <1>2 DEF UserWrite
<1>3. ASSUME NEW i \in Imports, UserDrop(i) PROVE ThreadIsStored'
  BY <1>3 DEF UserDrop
<1>4. CASE AcceptPipe
  BY <1>4 DEF AcceptPipe
<1>5. CASE FreeThread
  BY <1>5 DEF FreeThread
<1>6. CASE StartThread
  BY <1>6 DEF StartThread
<1>7. CASE SignalEvent
  BY <1>7 DEF SignalEvent, PtGoto
<1>8. CASE CaptureHandles
  BY <1>8 DEF CaptureHandles
<1>9. CASE ReceiveWrite
  BY <1>9 DEF ReceiveWrite, PtGoto, HandleValid
<1>10. CASE ReplyWrite
  BY <1>10 DEF ReplyWrite, PtGoto
<1>11. CASE ReceiveClosed
  BY <1>11 DEF ReceiveClosed, PtGoto, HandleValid
<1>12. CASE ReceiveCloseEvent
  BY <1>12 DEF ReceiveCloseEvent, PtGoto, HandleValid
<1>13. CASE ReceivePanic
  BY <1>13 DEF ReceivePanic, PtGoto, HandleValid
<1>14. CASE CloseSession
  BY <1>14 DEF CloseSession, PtGoto, HandleValid
<1>15. CASE ZeroSession
  BY <1>15 DEF ZeroSession, PtGoto
<1>16. CASE FreeData
  BY <1>16 DEF FreeData, PtGoto
<1>17. CASE ClearData
  BY <1>17 DEF ClearData, PtGoto
<1>18. CASE ClearWrite
  BY <1>18 DEF ClearWrite, PtGoto
<1>q. QED
  BY <1>1, <1>2, <1>3, <1>4, <1>5, <1>6, <1>7, <1>8, <1>9,
     <1>10, <1>11, <1>12, <1>13, <1>14, <1>15, <1>16, <1>17, <1>18 DEF Next, Main, PipeThread

\* As long as no title is ended over an open handle, init is a token.
LEMMA TokenKept ==
  ASSUME PTypeOK, PTypeOK', NoTitleEnds, InitIsToken, Next, "end_title" \notin may
  PROVE  NoTitleEnds' /\ InitIsToken'
<1> USE ImportNumbers
<1> USE DEF PTypeOK, NoTitleEnds, InitIsToken, HasOpen, Idle, ThLabels, Creating, Registered, Ending, Ended, Exiting, PtLabels, Closing,
            manager, kernel, pipeThread
<1>1. ASSUME NEW s \in Sessions, Client(s) \/ Create(s) \/ End(s) PROVE NoTitleEnds' /\ InitIsToken'
  <2>1. ASSUME NEW k \in {"cia", "raw"}, BeginImport(s, k) PROVE NoTitleEnds' /\ InitIsToken'
    BY <2>1 DEF BeginImport
  <2>2. ASSUME NEW i \in Imports, NEW l \in {"finish_cia", "close_media", "cancel_cia", "close"},
               EndImport(s, i, l) PROVE NoTitleEnds' /\ InitIsToken'
    <3>1. /\ client[i] = "user" /\ client' = [client EXCEPT ![i] = "am"] /\ Idle(s)
          /\ th' = [th EXCEPT ![s] = [pc |-> l, id |-> i, c |-> 0]]
          /\ UNCHANGED <<init, close_event, importing>>
      BY <2>2 DEF EndImport
    <3>2. th'[s].pc \in Ending /\ \A r \in Sessions : r # s => th'[r] = th[r]
      BY <3>1 DEF ThreadsTyped
    <3>3. \A r \in Sessions : ~HasOpen(r)
      BY <3>1
    <3>4. \A j \in Imports : client'[j] # "user"
      BY <3>1
    <3>q. QED
      BY <3>1, <3>2, <3>3, <3>4
  <2>3. CASE TitleBegin(s)
    BY <2>3 DEF TitleBegin
  <2>4. CASE TitleEnd(s)
    BY <2>4 DEF TitleEnd, Goto
  <2>5. CASE CreateLock(s)
    <3>1. Moved(s, {"lock"}, {"init"})
      BY <2>5, Moves
    <3>q. QED
      BY <2>5, <3>1, SMTT(60) DEF CreateLock, Moved
  <2>6. CASE CreateInit(s)
    <3>1. Moved(s, {"init"}, {"failed", "connect"})
      BY <2>6, Moves
    <3>2. CASE init /\ Goto(s, "failed") /\ UNCHANGED init
      <4>1. th'[s].pc = "failed"
        BY <3>2 DEF Goto, ThreadsTyped
      <4>q. QED
        BY <2>6, <3>1, <3>2, <4>1, SMTT(60) DEF CreateInit, Moved
    <3>3. CASE ~init /\ init' = TRUE /\ Goto(s, "connect")
      <4>1. \A r \in Sessions : ~HasOpen(r)
        BY <3>3
      <4>q. QED
        BY <2>6, <3>1, <3>3, <4>1, SMTT(60) DEF CreateInit, Moved
    <3>q. QED
      BY <2>6, <3>2, <3>3 DEF CreateInit
  <2>7. CASE CreateSession(s)
    <3>1. Moved(s, {"connect"}, {"write", "failed"})
      BY <2>7, Moves
    <3>2. /\ UNCHANGED <<init, importing, close_event>>
          /\ client' \in {client, [client EXCEPT ![th[s].id] = "am"]}
      BY <2>7 DEF CreateSession
    <3>3. \A r \in Sessions : th'[r].pc \notin Exiting /\ (HasOpen(r)' => HasOpen(r))
      BY <3>1 DEF Moved
    <3>4. HasOpen(s)
      BY <3>1 DEF Moved
    <3> HIDE DEF HasOpen, Exiting
    <3>5. \A i \in Imports : client[i] # "user"
      BY <3>4
    <3>6. \A i \in Imports : client'[i] # "user"
      BY <3>2, <3>5
    <3>q. QED
      BY <3>2, <3>3, <3>6
  <2>8. CASE PublishWrite(s)
    <3>1. Moved(s, {"write"}, {"data"})
      BY <2>8, Moves
    <3>q. QED
      BY <2>8, <3>1 DEF PublishWrite, Moved
  <2>9. CASE PublishData(s)
    <3>1. Moved(s, {"data"}, {"event"})
      BY <2>9, Moves
    <3>2. UNCHANGED <<init, client, importing, close_event>>
      BY <2>9 DEF PublishData
    <3>3. \A r \in Sessions : th'[r].pc \notin Exiting /\ (HasOpen(r)' => HasOpen(r))
      BY <3>1 DEF Moved
    <3> HIDE DEF HasOpen, Exiting
    <3>q. QED
      BY <3>2, <3>3
  <2>10. CASE WaitEvent(s)
    <3>1. Moved(s, {"event"}, {"send"})
      BY <2>10, Moves
    <3>q. QED
      BY <2>10, <3>1 DEF WaitEvent, Moved
  <2>11. CASE SendHandle(s)
    <3>1. Moved(s, {"send"}, {"idle"})
      BY <2>11, Moves
    <3>2. client' = [client EXCEPT ![th[s].id] = "user"] /\ UNCHANGED <<init, importing, close_event>>
      BY <2>11 DEF SendHandle
    <3>3. HasOpen(s) /\ \A r \in Sessions : th'[r].pc \notin Exiting /\ (HasOpen(r)' => HasOpen(r) /\ r # s)
      BY <3>1 DEF Moved
    <3> HIDE DEF HasOpen, Exiting
    <3>4. \A r \in Sessions : ~HasOpen(r)'
      BY <3>3
    <3>5. init /\ \A j \in Imports : client'[j] = "user" => j = th[s].id
      BY <3>2, <3>3
    <3>q. QED
      BY <3>2, <3>3, <3>4, <3>5
  <2>12. CASE CreateFailed(s)
    <3>1. Moved(s, {"failed"}, {"idle"})
      BY <2>12, Moves
    <3>q. QED
      BY <2>12, <3>1, SMTT(60) DEF CreateFailed, Moved
  <2>13. CASE CheckWrite(s)
    <3>1. Moved(s, {"finish_cia", "cancel_cia"}, {"idle", "close_finish", "cancel_data"})
      BY <2>13, Moves
    <3>2. UNCHANGED <<init, client, importing, close_event>>
      BY <2>13 DEF CheckWrite
    <3>3. \A r \in Sessions : th'[r].pc \notin Exiting /\ (HasOpen(r)' => HasOpen(r))
      BY <3>1 DEF Moved
    <3> HIDE DEF HasOpen, Exiting
    <3>q. QED
      BY <3>2, <3>3
  <2>14. CASE CancelData(s)
    <3>1. Moved(s, {"cancel_data"}, {"cancel_use"})
      BY <2>14, Moves
    <3>2. UNCHANGED <<init, client, importing, close_event>>
      BY <2>14 DEF CancelData
    <3>3. \A r \in Sessions : th'[r].pc \notin Exiting /\ (HasOpen(r)' => HasOpen(r))
      BY <3>1, ZenonT(60) DEF Moved
    <3> HIDE DEF HasOpen, Exiting
    <3>q. QED
      BY <3>2, <3>3
  <2>15. CASE CancelUse(s)
    <3>1. Moved(s, {"cancel_use"}, {"close", "fault"})
      BY <2>15, Moves
    <3>q. QED
      BY <2>15, <3>1 DEF CancelUse, Moved
  <2>16. CASE CloseHandle(s)
    <3>1. Moved(s, {"close", "close_finish", "close_media"}, {"reset", "reset_finish", "reset_media"})
      BY <2>16, Moves
    <3>2. /\ UNCHANGED <<init, importing, close_event>>
          /\ client' = [client EXCEPT ![th[s].id] = "closed"]
      BY <2>16 DEF CloseHandle
    <3>3. \A r \in Sessions : th'[r].pc \notin Exiting /\ (HasOpen(r)' => HasOpen(r))
      BY <3>1 DEF Moved
    <3> HIDE DEF HasOpen, Exiting
    <3>4. \A i \in Imports : client'[i] = "user" => client[i] = "user"
      BY <3>2
    <3>q. QED
      BY <3>2, <3>3, <3>4
  <2>17. CASE ResetInit(s)
    <3>1. Moved(s, {"reset", "reset_finish", "reset_media"}, {"idle", "finish_data", "read_media"})
      BY <2>17, Moves
    <3>2. /\ \A r \in Sessions : ~HasOpen(r)'
          /\ \A j \in Imports : client'[j] # "user"
      BY <2>17, <3>1 DEF ResetInit, Moved
    <3>q. QED
      BY <2>17, <3>1, <3>2 DEF ResetInit, Moved
  <2>18. CASE FinishData(s)
    <3>1. Moved(s, {"finish_data"}, {"finish_use"})
      BY <2>18, Moves
    <3>2. UNCHANGED <<init, client, importing, close_event>>
      BY <2>18 DEF FinishData
    <3>3. \A r \in Sessions : th'[r].pc \notin Exiting /\ (HasOpen(r)' => HasOpen(r))
      BY <3>1 DEF Moved
    <3> HIDE DEF HasOpen, Exiting
    <3>q. QED
      BY <3>2, <3>3
  <2>19. CASE FinishUse(s)
    <3>1. Moved(s, {"finish_use"}, {"idle", "fault"})
      BY <2>19, Moves
    <3>2. UNCHANGED <<init, client, importing, close_event>>
      BY <2>19 DEF FinishUse
    <3>3. \A r \in Sessions : th'[r].pc \notin Exiting /\ (HasOpen(r)' => HasOpen(r))
      BY <3>1 DEF Moved
    <3> HIDE DEF HasOpen, Exiting
    <3>q. QED
      BY <3>2, <3>3
  <2>20. CASE ExitLock(s)
    BY <2>20 DEF ExitLock, Goto
  <2>21. CASE ExitSignal(s)
    BY <2>21 DEF ExitSignal
  <2>22. CASE ExitWait(s)
    BY <2>22 DEF ExitWait, Goto
  <2>23. CASE ReadMedia(s)
    <3>1. Moved(s, {"read_media"}, {"idle", "fault"})
      BY <2>23, Moves
    <3>2. UNCHANGED <<init, client, importing, close_event>>
      BY <2>23 DEF ReadMedia
    <3>3. \A r \in Sessions : th'[r].pc \notin Exiting /\ (HasOpen(r)' => HasOpen(r))
      BY <3>1 DEF Moved
    <3> HIDE DEF HasOpen, Exiting
    <3>q. QED
      BY <3>2, <3>3
  <2>24. CASE ExitThread(s)
    BY <2>24 DEF ExitThread
  <2> HIDE DEF NoTitleEnds, InitIsToken
  <2>q. QED
    BY <1>1, <2>1, <2>2, <2>3, <2>4, <2>5, <2>6, <2>7, <2>8, <2>9, <2>10, <2>11,
       <2>12, <2>13, <2>14, <2>15, <2>16, <2>17, <2>18, <2>19, <2>20, <2>21, <2>22, <2>23, <2>24
    DEF Client, Create, End
<1>2. ASSUME NEW i \in Imports, UserWrite(i) PROVE NoTitleEnds' /\ InitIsToken'
  BY <1>2 DEF UserWrite
<1>3. ASSUME NEW i \in Imports, UserDrop(i) PROVE NoTitleEnds' /\ InitIsToken'
  BY <1>3 DEF UserDrop
<1>4. CASE AcceptPipe
  BY <1>4 DEF AcceptPipe
<1>5. CASE FreeThread
  BY <1>5 DEF FreeThread
<1>6. CASE StartThread
  BY <1>6 DEF StartThread
<1>7. CASE SignalEvent
  BY <1>7 DEF SignalEvent, PtGoto
<1>8. CASE CaptureHandles
  BY <1>8 DEF CaptureHandles
<1>9. CASE ReceiveWrite
  BY <1>9 DEF ReceiveWrite, PtGoto, HandleValid
<1>10. CASE ReplyWrite
  BY <1>10 DEF ReplyWrite, PtGoto
<1>11. CASE ReceiveClosed
  BY <1>11 DEF ReceiveClosed, PtGoto, HandleValid
<1>12. CASE ReceiveCloseEvent
  BY <1>12 DEF ReceiveCloseEvent, PtGoto, HandleValid
<1>13. CASE ReceivePanic
  BY <1>13 DEF ReceivePanic, PtGoto, HandleValid
<1>14. CASE CloseSession
  BY <1>14 DEF CloseSession, PtGoto, HandleValid
<1>15. CASE ZeroSession
  BY <1>15 DEF ZeroSession, PtGoto
<1>16. CASE FreeData
  BY <1>16 DEF FreeData, PtGoto
<1>17. CASE ClearData
  BY <1>17 DEF ClearData, PtGoto
<1>18. CASE ClearWrite
  BY <1>18 DEF ClearWrite, PtGoto
<1>q. QED
  BY <1>1, <1>2, <1>3, <1>4, <1>5, <1>6, <1>7, <1>8, <1>9,
     <1>10, <1>11, <1>12, <1>13, <1>14, <1>15, <1>16, <1>17, <1>18 DEF Next, Main, PipeThread

-----------------------------------------------------------------------------
\* The pipe thread serves the import and leaves; its steps do not depend on what
\* the session's thread does meanwhile.
LEMMA PipeThreadTurn ==
  ASSUME PTypeOK, PTypeOK', NoTitleEnds, InTurn, PipeThread
  PROVE  InTurn'
<1> USE ImportNumbers
<1>1. UNCHANGED <<th, kind, client, port, main>> /\ PipeThreadAlive
  BY DEF PipeThread, SignalEvent, CaptureHandles, ReceiveWrite, ReplyWrite, ReceiveClosed,
         ReceiveCloseEvent, ReceivePanic, CloseSession, ZeroSession, FreeData, ClearData, ClearWrite,
         PtGoto, kernel, PipeThreadAlive
<1>2. PICK i \in Imports : Has(i)
  BY <1>1 DEF InTurn, Empty
<1>3. Alone' /\ Alone /\ RequestsAreLive /\ DataIsKept
  BY <1>1 DEF InTurn, Alone, Idle
<1>4. /\ kind[i] # "none" /\ kind[i] \in {"none", "cia", "raw"}
      /\ pt \in [pc : PtLabels, mine : Imports \union {0}]
      /\ close_event = FALSE
  BY <1>2 DEF Has, PTypeOK, NoTitleEnds
<1>5. ASSUME UNCHANGED <<heap, write, data>>, Stage(i)', RequestsAreLive', server' = server \/ server' = [server EXCEPT ![i] = "closed"],
             pt'.pc \in {"signal", "capture", "receive", "write", "close", "zero", "free"},
             pt'.pc \in {"receive", "write"} \/ pt.pc \notin {"receive", "write"} \/ client[i] = "closed",
             pt'.pc \in {"close", "zero", "free"} => client[i] = "closed",
             pt.pc \notin {"clear_data", "clear_write"}
      PROVE  InTurn'
  <2>1. OthersAreClosed(i)'
    BY <1>1, <1>2, <1>5 DEF Has, OthersAreClosed, PTypeOK
  <2>2. OthersCreate(i)'
    BY <1>1, <1>2, <1>5 DEF Has, OthersCreate
  <2>3. Published(i)'
    BY <1>1, <1>2, <1>5 DEF Has, Published
  <2>4. HeapIs(i)'
    BY <1>1, <1>2, <1>5 DEF Has, HeapIs
  <2>5. DataIsKept'
    BY <1>1, <1>3, <1>5 DEF DataIsKept
  <2>6. Has(i)'
    BY <1>1, <1>2, <1>5, <2>1, <2>2, <2>3, <2>4 DEF Has, Closing
  <2>q. QED
    BY <1>3, <1>5, <2>5, <2>6 DEF InTurn
<1>6. CASE SignalEvent
  <2>1. /\ UNCHANGED <<heap, write, data, current_session, server, request>>
        /\ pt.pc = "signal" /\ pt' = [pt EXCEPT !.pc = "capture"] /\ pt'.pc = "capture"
    BY <1>4, <1>6 DEF SignalEvent, PtGoto, kernel
  <2>2. Stage(i)'
    BY <1>1, <1>2, <2>1 DEF Has, Stage, Queued, Accepted, Starting, Served, Leaving, Closing, PipeThreadAlive
  <2>3. RequestsAreLive'
    BY <1>1, <1>3, <2>1 DEF RequestsAreLive
  <2>q. QED
    BY <1>5, <2>1, <2>2, <2>3
<1>7. CASE CaptureHandles
  <2>1. /\ UNCHANGED <<heap, write, data, current_session, server, request>>
        /\ pt.pc = "capture" /\ pt' = [pc |-> "receive", mine |-> current_session]
    BY <1>7 DEF CaptureHandles, manager, kernel
  <2>2. Stage(i)'
    BY <1>1, <1>2, <2>1 DEF Has, Stage, Queued, Accepted, Starting, Served, Leaving, Closing, PipeThreadAlive
  <2>3. RequestsAreLive'
    BY <1>1, <1>3, <2>1 DEF RequestsAreLive
  <2>q. QED
    BY <1>5, <2>1, <2>2, <2>3
<1>8. ASSUME pt.pc \in {"receive", "write", "close"} PROVE Served(i)
  BY <1>1, <1>2, <1>8 DEF Has, Stage, Queued, Accepted, Starting, Served, Leaving, Closing, PipeThreadAlive
<1>9. CASE ReceiveWrite
  <2>1. /\ UNCHANGED <<heap, write, data, current_session, server, request>>
        /\ pt.pc = "receive" /\ pt.mine \in request
        /\ pt' = [pt EXCEPT !.pc = IF write = "none" THEN "fault" ELSE "write"]
    BY <1>9 DEF ReceiveWrite, PtGoto, manager, kernel
  <2>2. pt.mine = i /\ client[i] = "user"
    BY <1>3, <1>8, <2>1 DEF Served, RequestsAreLive
  <2>3. write = kind[i]
    BY <1>2, <2>2 DEF Has, OthersCreate, Published, Registered
  <2>4. pt'.pc = "write" /\ pt'.mine = i
    BY <1>4, <2>1, <2>2, <2>3
  <2>5. Stage(i)' /\ RequestsAreLive'
    BY <1>1, <1>3, <1>8, <2>1, <2>2, <2>4 DEF Stage, Served, RequestsAreLive
  <2>q. QED
    BY <1>5, <2>1, <2>4, <2>5
<1>10. CASE ReplyWrite
  <2>1. /\ UNCHANGED <<heap, write, data, current_session, server>>
        /\ request' = request \ {pt.mine} /\ pt.pc = "write" /\ pt' = [pt EXCEPT !.pc = "receive"]
    BY <1>10 DEF ReplyWrite, PtGoto, manager
  <2>2. pt'.pc = "receive" /\ pt'.mine = pt.mine
    BY <1>4, <2>1
  <2>3. Stage(i)' /\ RequestsAreLive'
    BY <1>1, <1>3, <1>8, <2>1, <2>2 DEF Stage, Served, RequestsAreLive
  <2>q. QED
    BY <1>5, <2>1, <2>2, <2>3
<1>11. CASE ReceiveClosed
  <2>1. /\ UNCHANGED <<heap, write, data, current_session, server, request>>
        /\ client[pt.mine] = "closed" /\ pt.pc = "receive" /\ pt' = [pt EXCEPT !.pc = "close"]
    BY <1>11 DEF ReceiveClosed, PtGoto, manager, kernel
  <2>2. pt'.pc = "close" /\ pt'.mine = pt.mine /\ client[i] = "closed"
    BY <1>4, <1>8, <2>1 DEF Served
  <2>3. Stage(i)' /\ RequestsAreLive'
    BY <1>1, <1>3, <1>8, <2>1, <2>2 DEF Stage, Served, RequestsAreLive
  <2>q. QED
    BY <1>5, <2>1, <2>2, <2>3
<1>12. ~ReceiveCloseEvent
  BY <1>4 DEF ReceiveCloseEvent
<1>13. ~ReceivePanic
  BY <1>8, ImportNumbers DEF ReceivePanic, HandleValid, Served
<1>14. CASE CloseSession
  <2>1. pt.pc = "close" /\ HandleValid(current_session) /\ current_session = i /\ client[i] = "closed"
    BY <1>2, <1>8, <1>14 DEF CloseSession, Served, HandleValid, Has
  <2>2. /\ UNCHANGED <<heap, write, data, current_session>>
        /\ server' = [server EXCEPT ![i] = "closed"] /\ request' = request \ {i}
        /\ pt' = [pt EXCEPT !.pc = "zero"]
    BY <1>14, <2>1 DEF CloseSession, PtGoto, manager
  <2>3. pt'.pc = "zero" /\ pt'.mine = pt.mine /\ server'[i] = "closed"
    BY <1>4, <2>2 DEF PTypeOK
  <2>4. Stage(i)' /\ RequestsAreLive'
    BY <1>1, <1>3, <1>8, <2>1, <2>2, <2>3 DEF Stage, Served, Leaving, Closing, RequestsAreLive
  <2>q. QED
    BY <1>5, <2>1, <2>2, <2>3, <2>4
<1>15. ASSUME pt.pc \in Closing
       PROVE  /\ Leaving(i) /\ client[i] = "closed"
              /\ \A s \in Sessions : th[s].pc \notin Creating \union Registered \union Ending
  <2>1. Leaving(i) /\ client[i] = "closed"
    BY <1>1, <1>2, <1>15 DEF Has, Stage, Queued, Accepted, Starting, Served, Leaving, Closing, PipeThreadAlive
  <2>q. QED
    BY <1>2, <2>1 DEF Has, OthersCreate
<1>16. CASE ZeroSession
  <2>1. /\ UNCHANGED <<heap, write, data, server, request>> /\ current_session' = 0
        /\ pt.pc = "zero" /\ pt' = [pt EXCEPT !.pc = "free"]
    BY <1>16 DEF ZeroSession, PtGoto, kernel
  <2>2. pt'.pc = "free" /\ pt'.mine = pt.mine
    BY <1>4, <2>1
  <2>3. Stage(i)' /\ RequestsAreLive' /\ client[i] = "closed"
    BY <1>1, <1>3, <1>15, <2>1, <2>2 DEF Stage, Leaving, Closing, RequestsAreLive
  <2>q. QED
    BY <1>5, <2>1, <2>2, <2>3
<1>17. CASE FreeData
  <2>1. /\ UNCHANGED <<write, data, current_session, server, request>> /\ pt.pc = "free"
        /\ (write # "none" => heap' = heap \ {data} /\ pt' = [pt EXCEPT !.pc = "clear_data"])
    BY <1>17 DEF FreeData, PtGoto, manager, kernel
  <2>2. /\ Leaving(i) /\ client[i] = "closed"
        /\ \A s \in Sessions : th[s].pc \notin Creating \union Registered \union Ending
    BY <1>15, <2>1 DEF Closing
  <2>3. write = kind[i] /\ data = IF kind[i] = "cia" THEN i ELSE 0
    BY <1>2, <2>1, <2>2 DEF Has, Published, Registered
  <2>4. pt'.pc = "clear_data" /\ pt'.mine = pt.mine /\ heap' = heap \ {data}
    BY <1>4, <2>1, <2>3
  <2>5. HeapIs(i)'
    BY <1>1, <1>2, <2>2, <2>3, <2>4 DEF Has, HeapIs, PTypeOK
  <2>6. OthersAreClosed(i)' /\ OthersCreate(i)'
    BY <1>1, <1>2, <2>1, <2>2 DEF Has, OthersAreClosed, OthersCreate
  <2>7. Published(i)'
    BY <1>1, <2>1, <2>2, <2>3, <2>4 DEF Published, Registered
  <2>8. Stage(i)' /\ RequestsAreLive'
    BY <1>1, <1>3, <2>1, <2>2, <2>4 DEF Stage, Leaving, Closing, RequestsAreLive
  <2>9. DataIsKept'
    BY <1>1, <1>3, <2>2, <2>4 DEF DataIsKept
  <2>10. Has(i)'
    BY <1>1, <1>4, <2>2, <2>5, <2>6, <2>7, <2>8 DEF Has
  <2>q. QED
    BY <1>3, <2>8, <2>9, <2>10 DEF InTurn
<1>18. CASE ClearData
  <2>1. /\ UNCHANGED <<heap, write, current_session, server, request>> /\ data' = 0
        /\ pt.pc = "clear_data" /\ pt' = [pt EXCEPT !.pc = "clear_write"]
    BY <1>18 DEF ClearData, PtGoto, kernel
  <2>2. /\ Leaving(i) /\ client[i] = "closed"
        /\ \A s \in Sessions : th[s].pc \notin Creating \union Registered \union Ending
    BY <1>15, <2>1 DEF Closing
  <2>3. pt'.pc = "clear_write" /\ pt'.mine = pt.mine
    BY <1>4, <2>1
  <2>4. HeapIs(i)'
    BY <1>1, <1>2, <2>1, <2>3 DEF Has, HeapIs
  <2>5. OthersAreClosed(i)' /\ OthersCreate(i)'
    BY <1>1, <1>2, <2>1, <2>2 DEF Has, OthersAreClosed, OthersCreate
  <2>6. Published(i)'
    BY <1>1, <1>2, <2>1, <2>2, <2>3 DEF Has, Published, Registered
  <2>7. Stage(i)' /\ RequestsAreLive'
    BY <1>1, <1>3, <2>1, <2>2, <2>3 DEF Stage, Leaving, Closing, RequestsAreLive
  <2>8. DataIsKept'
    BY <1>1, <1>3, <2>1 DEF DataIsKept
  <2>9. Has(i)'
    BY <1>1, <1>4, <2>2, <2>4, <2>5, <2>6, <2>7 DEF Has
  <2>q. QED
    BY <1>3, <2>7, <2>8, <2>9 DEF InTurn
<1>19. CASE ClearWrite
  <2>1. /\ UNCHANGED <<heap, data, current_session, server, request>> /\ write' = "none"
        /\ pt.pc = "clear_write" /\ pt' = [pt EXCEPT !.pc = "exited"]
    BY <1>19 DEF ClearWrite, PtGoto, kernel
  <2>2. /\ Leaving(i) /\ client[i] = "closed"
        /\ \A s \in Sessions : th[s].pc \notin Creating \union Registered \union Ending
    BY <1>15, <2>1 DEF Closing
  <2>3. pt'.pc = "exited"
    BY <1>4, <2>1
  <2>4. heap' = {}
    BY <1>2, <2>1, <2>2 DEF Has, HeapIs
  <2>5. \A s \in Sessions : th'[s].pc \in {"idle"} \union Ended
    BY <1>1, <2>2 DEF NoTitleEnds, PTypeOK, ThreadsTyped, ThLabels
  <2>6. /\ data' = 0 /\ current_session' = 0 /\ port' = <<>> /\ main' = "wait" /\ ~PipeThreadAlive'
    BY <1>1, <1>2, <2>1, <2>2, <2>3 DEF Has, Published, Leaving, PipeThreadAlive
  <2>7. \A j \in Imports : server'[j] \in {"none", "closed"} /\ client'[j] \in {"none", "closed"}
    BY <1>1, <1>2, <2>1, <2>2 DEF Has, OthersAreClosed, Leaving
  <2>8. Empty'
    BY <2>1, <2>4, <2>5, <2>6, <2>7 DEF Empty
  <2>9. RequestsAreLive' /\ DataIsKept'
    BY <1>1, <1>3, <2>1, <2>3 DEF RequestsAreLive, DataIsKept
  <2>q. QED
    BY <1>3, <2>8, <2>9 DEF InTurn
<1>q. QED
  BY <1>6, <1>7, <1>9, <1>10, <1>11, <1>12, <1>13, <1>14, <1>16, <1>17, <1>18, <1>19 DEF PipeThread

\* AM_Main takes the session from the port and starts the thread.
LEMMA MainTurn ==
  ASSUME PTypeOK, InTurn, Main
  PROVE  InTurn'
<1> USE ImportNumbers
<1>1. /\ UNCHANGED <<th, kind, client, request, heap, write, data>>
      /\ port # <<>> \/ main # "wait"
  BY DEF Main, AcceptPipe, FreeThread, StartThread, kernel
<1>2. PICK i \in Imports : Has(i)
  BY <1>1 DEF InTurn, Empty
<1>3. Queued(i) \/ Accepted(i)
  BY <1>1, <1>2 DEF Has, Stage, Starting, Served, Leaving
<1>4. ~PipeThreadAlive /\ pt.pc \in {"none", "exited"}
  BY <1>3 DEF Queued, Accepted, PipeThreadAlive
<1>5. Alone' /\ DataIsKept' /\ RequestsAreLive
  BY <1>1 DEF InTurn, Alone, Idle, DataIsKept
<1>6. ASSUME Stage(i)', \A j \in Imports : j # i => server'[j] = server[j],
             pt'.pc \in {"none", "exited", "signal"}
      PROVE  InTurn'
  <2>1. OthersAreClosed(i)'
    BY <1>1, <1>2, <1>6 DEF Has, OthersAreClosed
  <2>2. OthersCreate(i)'
    BY <1>1, <1>2, <1>4 DEF Has, OthersCreate
  <2>3. Published(i)'
    BY <1>1, <1>2, <1>4, <1>6 DEF Has, Published
  <2>4. HeapIs(i)'
    BY <1>1, <1>2, <1>4, <1>6 DEF Has, HeapIs
  <2>5. Has(i)'
    BY <1>1, <1>2, <1>6, <2>1, <2>2, <2>3, <2>4 DEF Has, Closing
  <2>6. RequestsAreLive'
    BY <1>1, <1>5, <1>6 DEF RequestsAreLive
  <2>q. QED
    BY <1>5, <2>5, <2>6 DEF InTurn
<1>7. CASE AcceptPipe
  <2>1. Queued(i) /\ Head(port) = i /\ Tail(port) = <<>>
    BY <1>3, <1>7 DEF AcceptPipe, Queued, Accepted
  <2>2. /\ current_session' = i /\ server' = [server EXCEPT ![i] = "open"] /\ port' = <<>> /\ main' = "free"
        /\ UNCHANGED pt
    BY <1>7, <2>1 DEF AcceptPipe, pipeThread
  <2>3. Stage(i)'
    BY <1>4, <2>2 DEF Stage, Accepted, PipeThreadAlive, PTypeOK
  <2>q. QED
    BY <1>4, <1>6, <2>2, <2>3 DEF PTypeOK
<1>8. CASE FreeThread
  <2>1. main' = "start" /\ UNCHANGED <<current_session, server, port, pt>> /\ main = "free"
    BY <1>8 DEF FreeThread, kernel, pipeThread
  <2>2. Stage(i)'
    BY <1>3, <2>1 DEF Stage, Queued, Accepted, PipeThreadAlive
  <2>q. QED
    BY <1>4, <1>6, <2>1, <2>2
<1>9. CASE StartThread
  <2>1. main' = "wait" /\ UNCHANGED <<current_session, server, port>> /\ main = "start" /\ pt'.pc = "signal"
    BY <1>9 DEF StartThread, kernel
  <2>2. Stage(i)'
    BY <1>3, <2>1 DEF Stage, Queued, Accepted, Starting
  <2>q. QED
    BY <1>6, <2>1, <2>2
<1>q. QED
  BY <1>7, <1>8, <1>9 DEF Main

\* A client writes on its import, or closes it without a command.
LEMMA UserTurn ==
  ASSUME PTypeOK, InTurn, OneAfterAnother, NEW k \in Imports, UserWrite(k) \/ UserDrop(k)
  PROVE  InTurn'
<1> USE ImportNumbers
<1>1. /\ UNCHANGED <<th, kind, server, port, main, pt, heap, write, data, current_session>>
      /\ client[k] = "user"
  BY DEF UserWrite, UserDrop, manager, kernel, pipeThread
<1>2. PICK i \in Imports : Has(i)
  BY <1>1 DEF InTurn, Empty
<1>3. k = i
  BY <1>1, <1>2 DEF Has, OthersAreClosed
<1>4. Alone' /\ DataIsKept' /\ Alone /\ RequestsAreLive
  BY <1>1 DEF InTurn, Alone, Idle, DataIsKept
<1>5. CASE UserWrite(k)
  <2>1. client' = client /\ request' = request \union {k}
    BY <1>5 DEF UserWrite
  <2>2. Has(i)'
    BY <1>1, <1>2, <2>1
    DEF Has, Stage, Queued, Accepted, Starting, Served, Leaving, PipeThreadAlive, OthersAreClosed,
        OthersCreate, Published, HeapIs
  <2>3. RequestsAreLive'
    BY <1>1, <1>4, <2>1 DEF RequestsAreLive
  <2>q. QED
    BY <1>4, <2>2, <2>3 DEF InTurn
<1>6. CASE UserDrop(k)
  <2>1. /\ client' = [client EXCEPT ![i] = "closed"] /\ UNCHANGED request /\ i \notin request
        /\ \A s \in Sessions : th[s].pc = "idle"
    BY <1>3, <1>6 DEF UserDrop, kernel, OneAfterAnother, Idle
  <2>2. client'[i] = "closed" /\ \A j \in Imports : j # i => client'[j] = client[j]
    BY <2>1 DEF PTypeOK
  <2>3. Stage(i)'
    BY <1>1, <1>2 DEF Has, Stage, Queued, Accepted, Starting, Served, Leaving, PipeThreadAlive
  <2>4. OthersAreClosed(i)'
    BY <1>1, <1>2, <2>2 DEF Has, OthersAreClosed
  <2>5. OthersCreate(i)'
    BY <1>1, <2>1 DEF OthersCreate, Creating, Registered, Ending
  <2>6. Published(i)' /\ HeapIs(i)'
    BY <1>1, <1>2 DEF Has, Published, HeapIs
  <2>7. Has(i)'
    BY <1>1, <1>2, <2>2, <2>3, <2>4, <2>5, <2>6 DEF Has
  <2>8. RequestsAreLive'
    BY <1>1, <1>4, <2>1, <2>2 DEF RequestsAreLive, PTypeOK
  <2>q. QED
    BY <1>4, <2>7, <2>8 DEF InTurn
<1>q. QED
  BY <1>5, <1>6

\* A step of a session's thread that changes nothing another thread looks at, and
\* keeps to its part of a command.
LEMMA QuietMove ==
  ASSUME PTypeOK, InTurn, NEW s \in Sessions, NEW from, NEW to, Moved(s, from, to), ~Idle(s),
         th'[s].pc \in Creating <=> th[s].pc \in Creating,
         th'[s].pc \in Registered <=> th[s].pc \in Registered,
         th'[s].pc \in Ending <=> th[s].pc \in Ending,
         th'[s].pc \in {"idle"} \union Ended <=> th[s].pc \in {"idle"} \union Ended,
         th[s].pc \notin {"write", "data"}, th'[s].pc \notin {"write", "data"},
         Empty \/ th'[s].pc # "connect",
         UNCHANGED <<write, data, current_session, heap, port, client, server, request, main, pt, kind>>
  PROVE  InTurn'
<1>1. \A r \in Sessions :
        /\ th'[r].id = th[r].id
        /\ th'[r].pc \in Creating <=> th[r].pc \in Creating
        /\ th'[r].pc \in Registered <=> th[r].pc \in Registered
        /\ th'[r].pc \in Ending <=> th[r].pc \in Ending
        /\ th'[r].pc \in {"idle"} \union Ended <=> th[r].pc \in {"idle"} \union Ended
        /\ th'[r].pc = "write" <=> th[r].pc = "write"
        /\ th'[r].pc = "data" <=> th[r].pc = "data"
        /\ r # s => th'[r] = th[r]
  BY DEF Moved
<1>2. Alone'
  BY <1>1 DEF InTurn, Alone, Idle
<1> HIDE DEF Creating, Registered, Ending, Ended
<1>3. RequestsAreLive'
  BY DEF InTurn, RequestsAreLive
<1>4. DataIsKept'
  BY <1>1 DEF InTurn, DataIsKept
<1>5. CASE Empty
  <2>1. Empty'
    BY <1>1, <1>5 DEF Empty, PipeThreadAlive
  <2>q. QED
    BY <1>2, <1>3, <1>4, <2>1 DEF InTurn
<1>6. CASE ~Empty
  <2>1. PICK i \in Imports : Has(i)
    BY <1>6 DEF InTurn
  <2>2. Stage(i)' /\ OthersAreClosed(i)'
    BY <2>1 DEF Has, Stage, Queued, Accepted, Starting, Served, Leaving, PipeThreadAlive, OthersAreClosed
  <2>3. OthersCreate(i)'
    BY <1>1, <1>6, <2>1 DEF Has, OthersCreate
  <2>4. Published(i)'
    BY <1>1, <2>1 DEF Has, Published
  <2>5. HeapIs(i)'
    BY <1>1, <2>1 DEF Has, HeapIs
  <2>6. Has(i)'
    BY <1>1, <2>1, <2>2, <2>3, <2>4, <2>5 DEF Has
  <2>q. QED
    BY <1>2, <1>3, <1>4, <2>6 DEF InTurn
<1>q. QED
  BY <1>5, <1>6

\* A begin command comes when the pipe is empty, or is refused later because an
\* import is served.
LEMMA BeginTurn ==
  ASSUME PTypeOK, PTypeOK', InTurn, OneAfterAnother, NEW s \in Sessions,
         NEW k \in {"cia", "raw"}, BeginImport(s, k)
  PROVE  InTurn'
<1> USE ImportNumbers
<1>1. /\ ~TearingDown /\ \A r \in Sessions : th[r].pc = "idle"
      /\ UNCHANGED <<write, data, current_session, close_event, port, client, server, request, main, pt>>
  BY DEF BeginImport, OneAfterAnother, Idle, manager, kernel, pipeThread
<1>2. PICK n \in Imports :
        /\ kind[n] = "none" /\ kind' = [kind EXCEPT ![n] = k]
        /\ heap' = IF k = "cia" THEN heap \union {n} ELSE heap
        /\ th' = [th EXCEPT ![s] = [pc |-> "lock", id |-> n, c |-> 0]]
  BY DEF BeginImport
<1>3. /\ th'[s].pc = "lock" /\ th'[s].id = n
      /\ \A r \in Sessions : r # s => th'[r].pc = "idle"
  BY <1>1, <1>2 DEF PTypeOK, ThreadsTyped
<1>4. kind'[n] = k /\ \A j \in Imports : j # n => kind'[j] = kind[j]
  BY <1>2 DEF PTypeOK
<1>5. Alone' /\ RequestsAreLive'
  BY <1>1, <1>3 DEF Alone, Idle, InTurn, RequestsAreLive
<1>6. DataIsKept'
  BY <1>2, <1>3, <1>4 DEF InTurn, DataIsKept, PTypeOK, Creating, Registered
<1>7. CASE Empty
  <2>1. \A j \in heap' : j = n
    BY <1>1, <1>2, <1>7 DEF Empty, Creating
  <2>2. Empty'
    BY <1>1, <1>3, <1>7, <2>1 DEF Empty, PipeThreadAlive, Creating
  <2>q. QED
    BY <1>5, <1>6, <2>2 DEF InTurn
<1>8. CASE \E i \in Imports : Has(i)
  <2>1. PICK i \in Imports : Has(i)
    BY <1>8
  <2>2. i # n
    BY <1>2, <2>1 DEF Has
  <2>3. client[i] \in {"user", "closed"}
    BY <1>1, <2>1 DEF Has, Registered, Ending
  <2>4. pt.pc \in {"receive", "write"} /\ pt.mine = i
    BY <1>1, <2>1
    DEF TearingDown, PipeThreadAlive, Has, Stage, Queued, Accepted, Starting, Served, Leaving, Closing
  <2>5. client[i] = "user"
    BY <1>1, <2>3, <2>4 DEF TearingDown
  <2>6. Stage(i)' /\ OthersAreClosed(i)'
    BY <1>1, <2>1 DEF Has, Stage, Queued, Accepted, Starting, Served, Leaving, PipeThreadAlive, OthersAreClosed
  <2>7. OthersCreate(i)'
    BY <1>1, <1>3, <2>2, <2>4, <2>5 DEF OthersCreate, Creating, Registered, Ending
  <2>8. Published(i)'
    BY <1>1, <1>3, <1>4, <2>1, <2>2 DEF Has, Published
  <2>9. HeapIs(i)'
    BY <1>1, <1>2, <1>3, <1>4, <2>1, <2>2 DEF Has, HeapIs, Creating
  <2>10. Has(i)'
    BY <1>1, <1>4, <2>1, <2>2, <2>4, <2>5, <2>6, <2>7, <2>8, <2>9 DEF Has, Closing
  <2>q. QED
    BY <1>5, <1>6, <2>10 DEF InTurn
<1>q. QED
  BY <1>7, <1>8 DEF InTurn

\* The client gives its handle back.
LEMMA GiveBackTurn ==
  ASSUME PTypeOK, PTypeOK', InTurn, OneAfterAnother, NEW s \in Sessions, NEW n \in Imports,
         NEW l \in {"finish_cia", "close_media", "cancel_cia", "close"}, EndImport(s, n, l)
  PROVE  InTurn'
<1> USE ImportNumbers
<1>1. /\ \A r \in Sessions : th[r].pc = "idle"
      /\ client[n] = "user" /\ n \notin request
      /\ client' = [client EXCEPT ![n] = "am"]
      /\ th' = [th EXCEPT ![s] = [pc |-> l, id |-> n, c |-> 0]]
      /\ UNCHANGED <<write, data, current_session, heap, port, server, request, main, pt, kind>>
  BY DEF EndImport, OneAfterAnother, Idle, manager, pipeThread
<1>2. PICK i \in Imports : Has(i)
  BY <1>1 DEF InTurn, Empty
<1>3. n = i
  BY <1>1, <1>2 DEF Has, OthersAreClosed
<1>4. /\ th'[s].pc \in Ending /\ th'[s].pc = l /\ th'[s].id = i
      /\ \A r \in Sessions : r # s => th'[r].pc = "idle"
  BY <1>1, <1>3 DEF PTypeOK, ThreadsTyped, Ending
<1>5. client'[i] = "am" /\ \A j \in Imports : j # i => client'[j] = client[j]
  BY <1>1, <1>3 DEF PTypeOK
<1>6. Alone' /\ RequestsAreLive' /\ DataIsKept'
  BY <1>1, <1>3, <1>4, <1>5 DEF Alone, Idle, InTurn, RequestsAreLive, DataIsKept, PTypeOK, Creating, Registered, Ending
<1>7. Stage(i)' /\ OthersAreClosed(i)'
  BY <1>1, <1>2, <1>5 DEF Has, Stage, Queued, Accepted, Starting, Served, Leaving, PipeThreadAlive, OthersAreClosed
<1>8. OthersCreate(i)'
  BY <1>4, <1>5 DEF OthersCreate, Creating, Registered, Ending
<1>9. Published(i)'
  BY <1>1, <1>2, <1>4 DEF Has, Published
<1>10. HeapIs(i)'
  BY <1>1, <1>2, <1>4 DEF Has, HeapIs, Creating
<1>11. Has(i)'
  BY <1>1, <1>2, <1>3, <1>4, <1>5, <1>7, <1>8, <1>9, <1>10 DEF Has, Closing
<1>q. QED
  BY <1>6, <1>11 DEF InTurn

\* A command that begins an import finds the pipe empty, or finds the flag up.
LEMMA CreateTurn ==
  ASSUME PTypeOK, PTypeOK', InitIsToken, InTurn, NEW s \in Sessions, Create(s)
  PROVE  InTurn'
<1> USE ImportNumbers
<1>1. ThreadsTyped /\ Alone /\ RequestsAreLive /\ DataIsKept
  BY DEF PTypeOK, InTurn
<1>0. PICK n \in Imports \union {0} : n = th[s].id
  BY <1>1, HasImport
<1> USE <1>0
<1>2. CASE CreateLock(s)
  <2>1. Moved(s, {"lock"}, {"init"})
    BY <1>1, <1>2, Moves
  <2>2. UNCHANGED <<write, data, current_session, heap, port, client, server, request, main, pt, kind>>
    BY <1>2 DEF CreateLock, manager, kernel, pipeThread
  <2>q. QED
    BY <2>1, <2>2, QuietMove DEF Moved, Idle, Creating, Registered, Ending, Ended
<1>3. CASE CreateInit(s)
  <2>1. Moved(s, {"init"}, {"failed", "connect"})
    BY <1>1, <1>3, Moves
  <2>2. UNCHANGED <<write, data, current_session, heap, port, client, server, request, main, pt, kind>>
    BY <1>3 DEF CreateInit, kernel, pipeThread
  <2>3. ASSUME NEW i \in Imports, Has(i) PROVE init
    BY <2>1, <2>3 DEF Moved, Has, OthersCreate, Creating, InitIsToken
  <2>4. init => th'[s].pc = "failed"
    BY <1>1, <1>3 DEF CreateInit, Goto, ThreadsTyped
  <2>5. Empty \/ th'[s].pc # "connect"
    BY <2>3, <2>4 DEF InTurn
  <2>q. QED
    BY <2>1, <2>2, <2>5, QuietMove DEF Moved, Idle, Creating, Registered, Ending, Ended
<1>4. CASE CreateSession(s)
  <2>1. Moved(s, {"connect"}, {"write", "failed"}) /\ n \in Imports
    BY <1>1, <1>4, Moves DEF Moved
  <2>2. Empty
    BY <2>1 DEF InTurn, Has, OthersCreate, Moved
  <2>3. UNCHANGED <<write, data, current_session, heap, request, main, pt, kind>>
    BY <1>4 DEF CreateSession, manager, pipeThread
  <2>4. CASE UNCHANGED <<client, server, port>> /\ Goto(s, "failed")
    <3>1. th'[s].pc = "failed"
      BY <1>1, <2>4 DEF Goto, ThreadsTyped
    <3>q. QED
      BY <2>1, <2>2, <2>3, <2>4, <3>1, QuietMove DEF Moved, Idle, Creating, Registered, Ending, Ended
  <2>5. CASE /\ client' = [client EXCEPT ![n] = "am"] /\ server' = [server EXCEPT ![n] = "pending"]
             /\ port' = Append(port, n) /\ Goto(s, "write")
    <3>1. th'[s].pc = "write" /\ th'[s].id = n /\ \A r \in Sessions : r # s => th'[r] = th[r]
      BY <1>1, <2>1, <2>5 DEF Goto, ThreadsTyped, Moved
    <3>2. \A r \in Sessions : r # s => th'[r].pc = "idle"
      BY <1>1, <2>1, <3>1 DEF Alone, Idle, Moved
    <3>3. /\ client'[n] = "am" /\ server'[n] = "pending" /\ port' = <<n>>
          /\ \A j \in Imports : j # n => client'[j] = client[j] /\ server'[j] = server[j]
      BY <2>1, <2>2, <2>5 DEF PTypeOK, Empty
    <3>4. Queued(n)'
      BY <2>2, <2>3, <3>3 DEF Queued, Empty, PipeThreadAlive
    <3>5. OthersAreClosed(n)'
      BY <2>2, <3>3 DEF OthersAreClosed, Empty
    <3>6. OthersCreate(n)'
      BY <3>1, <3>2, <3>3 DEF OthersCreate, Creating, Registered, Ending
    <3>7. Published(n)'
      BY <2>2, <2>3, <3>1 DEF Published, Empty
    <3>8. kind[n] # "none" /\ (n \in heap <=> kind[n] = "cia")
      BY <1>1, <2>1 DEF DataIsKept, Moved, Creating
    <3>9. \A j \in heap : j = n
      BY <1>1, <2>1, <2>2 DEF Empty, Alone, Idle, Moved, Creating
    <3>10. HeapIs(n)'
      BY <2>2, <2>3, <3>8, <3>9 DEF HeapIs, Empty, PipeThreadAlive
    <3>11. Has(n)'
      BY <2>2, <2>3, <3>1, <3>3, <3>4, <3>5, <3>6, <3>7, <3>8, <3>10
      DEF Has, Stage, Empty, PipeThreadAlive, Registered, Closing
    <3>12. Alone'
      BY <3>2 DEF Alone, Idle
    <3>13. RequestsAreLive'
      BY <1>1, <2>2, <2>3 DEF RequestsAreLive, Empty, PTypeOK, PipeThreadAlive
    <3>14. DataIsKept'
      BY <1>1, <2>3, <3>1, <3>2, <3>8 DEF DataIsKept, Creating, Registered
    <3>q. QED
      BY <2>1, <3>11, <3>12, <3>13, <3>14 DEF InTurn
  <2>q. QED
    BY <1>4, <2>4, <2>5 DEF CreateSession
<1>5. ASSUME th[s].pc \in Registered
      PROVE  /\ n \in Imports /\ Has(n) /\ client[n] = "am"
             /\ \A r \in Sessions : r # s => th[r].pc = "idle"
  <2>1. ~Empty
    BY <1>5 DEF Empty, Registered, Creating, Ended
  <2>2. PICK i \in Imports : Has(i)
    BY <2>1 DEF InTurn
  <2>3. th[s].id = i /\ client[i] = "am"
    BY <1>5, <2>2 DEF Has, OthersCreate
  <2>q. QED
    BY <1>1, <1>5, <2>2, <2>3 DEF Alone, Idle, Registered
<1>6. ASSUME th[s].pc \in Registered, NEW to, Moved(s, Registered, to),
             UNCHANGED <<current_session, heap, port, server, request, main, pt, kind>>,
             \/ th'[s].pc \in Registered /\ UNCHANGED client
             \/ th'[s].pc = "idle" /\ client' = [client EXCEPT ![n] = "user"],
             Published(n)'
      PROVE  InTurn'
  <2>1. /\ n \in Imports /\ Has(n) /\ client[n] = "am" /\ th'[s].id = n
        /\ \A r \in Sessions : r # s => th'[r].pc = "idle" /\ th[r].pc = "idle"
    BY <1>5, <1>6 DEF Moved
  <2>2. /\ \/ client'[n] = "am" /\ th'[s].pc \in Registered
           \/ client'[n] = "user" /\ th'[s].pc = "idle"
        /\ \A j \in Imports : j # n => client'[j] = client[j]
    BY <1>6, <2>1 DEF PTypeOK
  <2>3. Alone' /\ RequestsAreLive' /\ DataIsKept'
    BY <1>1, <1>6, <2>1, <2>2 DEF Alone, Idle, RequestsAreLive, DataIsKept, PTypeOK, Creating, Registered
  <2>4. Stage(n)' /\ OthersAreClosed(n)'
    BY <1>6, <2>1, <2>2
    DEF Has, Stage, Queued, Accepted, Starting, Served, Leaving, PipeThreadAlive, OthersAreClosed
  <2>5. OthersCreate(n)'
    BY <2>1, <2>2 DEF OthersCreate, Creating, Registered, Ending
  <2>6. HeapIs(n)'
    BY <1>6, <2>1 DEF Has, HeapIs, Creating, Registered
  <2>7. Has(n)'
    BY <1>6, <2>1, <2>2, <2>4, <2>5, <2>6 DEF Has
  <2>q. QED
    BY <2>1, <2>3, <2>7 DEF InTurn
<1>7. CASE PublishWrite(s)
  <2>1. Moved(s, {"write"}, {"data"})
    BY <1>1, <1>7, Moves
  <2>2. th[s].pc = "write" /\ th'[s].pc = "data" /\ th[s].pc \in Registered /\ th'[s].pc \in Registered /\ Moved(s, Registered, {"data"})
    BY <2>1 DEF Moved, Registered
  <2>3. write' = kind[n] /\ UNCHANGED <<data, current_session, heap, port, client, server, request, main, pt, kind>>
    BY <1>7 DEF PublishWrite, kernel, pipeThread
  <2>4. Published(n)'
    BY <1>5, <2>2, <2>3 DEF Has, Published, Moved
  <2>q. QED
    BY <1>6, <2>2, <2>3, <2>4
<1>8. CASE PublishData(s)
  <2>1. Moved(s, {"data"}, {"event"})
    BY <1>1, <1>8, Moves
  <2>2. th[s].pc = "data" /\ th'[s].pc = "event" /\ th[s].pc \in Registered /\ th'[s].pc \in Registered /\ Moved(s, Registered, {"event"})
    BY <2>1 DEF Moved, Registered
  <2>3. /\ data' = IF kind[n] = "cia" THEN n ELSE 0
        /\ UNCHANGED <<write, current_session, heap, port, client, server, request, main, pt, kind>>
    BY <1>8 DEF PublishData, kernel, pipeThread
  <2>4. pt.pc # "clear_write"
    BY <1>5, <2>2 DEF Has, Closing
  <2>5. Published(n)'
    BY <1>5, <2>2, <2>3, <2>4 DEF Has, Published, Moved
  <2>q. QED
    BY <1>6, <2>2, <2>3, <2>5
<1>9. CASE WaitEvent(s)
  <2>1. Moved(s, {"event"}, {"send"})
    BY <1>1, <1>9, Moves
  <2>2. UNCHANGED <<write, data, current_session, heap, port, client, server, request, main, pt, kind>>
    BY <1>9 DEF WaitEvent, kernel, pipeThread
  <2>q. QED
    BY <2>1, <2>2, QuietMove DEF Moved, Idle, Creating, Registered, Ending, Ended
<1>10. CASE SendHandle(s)
  <2>1. Moved(s, {"send"}, {"idle"})
    BY <1>1, <1>10, Moves
  <2>2. th[s].pc = "send" /\ th'[s].pc = "idle" /\ th[s].pc \in Registered /\ Moved(s, Registered, {"idle"})
    BY <2>1 DEF Moved, Registered
  <2>3. /\ client' = [client EXCEPT ![n] = "user"]
        /\ UNCHANGED <<write, data, current_session, heap, port, server, request, main, pt, kind>>
    BY <1>10 DEF SendHandle, manager, pipeThread
  <2>4. Published(n)'
    BY <1>5, <2>2, <2>3 DEF Has, Published, Moved
  <2>q. QED
    BY <1>6, <2>2, <2>3, <2>4
<1>11. CASE CreateFailed(s)
  <2>1. Moved(s, {"failed"}, {"idle"}) /\ th[s].pc = "failed" /\ th'[s].pc = "idle" /\ n \in Imports
    BY <1>1, <1>11, Moves DEF Moved
  <2>2. /\ heap' = heap \ {n}
        /\ UNCHANGED <<write, data, current_session, port, client, server, request, main, pt, kind>>
    BY <1>11 DEF CreateFailed, manager, kernel, pipeThread
  <2>3. \A r \in Sessions : th'[r].pc = "idle" /\ (r # s => th[r].pc = "idle")
    BY <1>1, <2>1 DEF Alone, Idle, Moved
  <2>4. Alone' /\ RequestsAreLive' /\ DataIsKept'
    BY <1>1, <2>2, <2>3 DEF Alone, Idle, RequestsAreLive, DataIsKept, Creating, Registered
  <2>5. CASE Empty
    <3>1. heap' = {}
      BY <2>2, <2>3, <2>5 DEF Empty, Creating
    <3>2. Empty'
      BY <2>2, <2>3, <2>5, <3>1 DEF Empty, PipeThreadAlive
    <3>q. QED
      BY <2>4, <3>2 DEF InTurn
  <2>6. CASE \E i \in Imports : Has(i)
    <3>1. PICK i \in Imports : Has(i)
      BY <2>6
    <3>2. i # n /\ client[i] = "user"
      BY <2>1, <3>1 DEF Has, OthersCreate, Creating
    <3>3. Stage(i)' /\ OthersAreClosed(i)'
      BY <2>2, <3>1 DEF Has, Stage, Queued, Accepted, Starting, Served, Leaving, PipeThreadAlive, OthersAreClosed
    <3>4. OthersCreate(i)'
      BY <2>3 DEF OthersCreate, Creating, Registered, Ending
    <3>5. Published(i)'
      BY <2>1, <2>2, <2>3, <3>1 DEF Has, Published
    <3>6. HeapIs(i)'
      BY <2>2, <2>3, <3>1, <3>2 DEF Has, HeapIs, Creating
    <3>7. Has(i)'
      BY <2>2, <3>1, <3>2, <3>3, <3>4, <3>5, <3>6 DEF Has
    <3>q. QED
      BY <2>4, <3>7 DEF InTurn
  <2>q. QED
    BY <2>5, <2>6 DEF InTurn
<1>q. QED
  BY <1>2, <1>3, <1>4, <1>7, <1>8, <1>9, <1>10, <1>11 DEF Create

\* The import that a command ends is the one that has the pipe.
LEMMA EndingHas ==
  ASSUME PTypeOK, InTurn, NEW s \in Sessions, NEW n, n = th[s].id, th[s].pc \in Ending
  PROVE  /\ n \in Imports /\ Has(n) /\ client[n] = "am" /\ write = kind[n] /\ kind[n] # "none"
         /\ \A r \in Sessions : r # s => th[r].pc = "idle"
<1>1. ~Empty
  BY DEF Empty, Ending, Creating, Ended
<1>2. PICK i \in Imports : Has(i)
  BY <1>1 DEF InTurn
<1>3. th[s].id = i /\ client[i] = "am"
  BY <1>2 DEF Has, OthersCreate
<1>4. \A r \in Sessions : (r # s => th[r].pc = "idle") /\ th[r].pc # "write"
  BY DEF InTurn, Alone, Idle, Ending
<1>q. QED
  BY <1>2, <1>3, <1>4 DEF Has, Published

\* A command that ends an import finds it registered, and closes its handle.
LEMMA EndTurn ==
  ASSUME PTypeOK, PTypeOK', NoTitleEnds, InTurn, CancelHasData, NEW s \in Sessions, End(s)
  PROVE  InTurn'
<1> USE ImportNumbers
<1>1. ThreadsTyped /\ Alone /\ RequestsAreLive /\ DataIsKept
  BY DEF PTypeOK, InTurn
<1>0. PICK n \in Imports \union {0} : n = th[s].id
  BY <1>1, HasImport
<1> USE <1>0
<1>2. th[s].pc \in Ending =>
        /\ n \in Imports /\ Has(n) /\ client[n] = "am" /\ write = kind[n] /\ kind[n] # "none"
        /\ \A r \in Sessions : r # s => th[r].pc = "idle"
  BY EndingHas
<1>3. CASE CheckWrite(s)
  <2>1. Moved(s, {"finish_cia", "cancel_cia"}, {"idle", "close_finish", "cancel_data"}) /\ th[s].pc \in Ending
    BY <1>1, <1>3, Moves DEF Moved, Ending
  <2>2. UNCHANGED <<write, data, current_session, heap, port, client, server, request, main, pt, kind>>
    BY <1>3 DEF CheckWrite, manager, kernel, pipeThread
  <2>3. write # "none"
    BY <1>2, <2>1
  <2>4. th'[s].pc \in {"close_finish", "cancel_data"}
    BY <1>1, <1>3, <2>3 DEF CheckWrite, Goto, ThreadsTyped
  <2>q. QED
    BY <2>1, <2>2, <2>4, QuietMove DEF Moved, Idle, Creating, Registered, Ending, Ended
<1>4. CASE CancelData(s)
  <2>1. Moved(s, {"cancel_data"}, {"cancel_use"})
    BY <1>1, <1>4, Moves
  <2>2. UNCHANGED <<write, data, current_session, heap, port, client, server, request, main, pt, kind>>
    BY <1>4 DEF CancelData, manager, kernel, pipeThread
  <2>q. QED
    BY <2>1, <2>2, QuietMove DEF Moved, Idle, Creating, Registered, Ending, Ended
<1>5. CASE CancelUse(s)
  <2>1. Moved(s, {"cancel_use"}, {"close", "fault"}) /\ th[s].pc \in Ending /\ th[s].pc = "cancel_use"
    BY <1>1, <1>5, Moves DEF Moved, Ending
  <2>2. UNCHANGED <<write, data, current_session, heap, port, client, server, request, main, pt, kind>>
    BY <1>5 DEF CancelUse, manager, kernel, pipeThread
  <2>3. th[s].c \in heap
    BY <1>2, <2>1 DEF CancelHasData, Has, HeapIs, Closing
  <2>4. th'[s].pc = "close"
    BY <1>1, <1>5, <2>3 DEF CancelUse, UseData, Goto, ThreadsTyped
  <2>q. QED
    BY <2>1, <2>2, <2>4, QuietMove DEF Moved, Idle, Creating, Registered, Ending, Ended
<1>6. CASE CloseHandle(s)
  <2>1. Moved(s, {"close", "close_finish", "close_media"}, {"reset", "reset_finish", "reset_media"})
    BY <1>1, <1>6, Moves
  <2>2. /\ client' = [client EXCEPT ![n] = "closed"]
        /\ UNCHANGED <<write, data, current_session, heap, port, server, request, main, pt, kind>>
    BY <1>6 DEF CloseHandle, manager, pipeThread
  <2>3. /\ n \in Imports /\ Has(n) /\ client[n] = "am" /\ th'[s].pc \in {"reset", "reset_finish", "reset_media"}
        /\ th[s].pc \in {"close", "close_finish", "close_media"}
        /\ \A r \in Sessions : r # s => th'[r].pc = "idle" /\ th[r].pc = "idle"
    BY <1>2, <2>1 DEF Moved, Ending
  <2>4. client'[n] = "closed" /\ \A j \in Imports : j # n => client'[j] = client[j]
    BY <2>2, <2>3 DEF PTypeOK
  <2>5. Alone' /\ RequestsAreLive' /\ DataIsKept'
    BY <1>1, <2>2, <2>3, <2>4 DEF Alone, Idle, RequestsAreLive, DataIsKept, PTypeOK, Creating, Registered
  <2>6. Stage(n)' /\ OthersAreClosed(n)'
    BY <2>2, <2>3, <2>4
    DEF Has, Stage, Queued, Accepted, Starting, Served, Leaving, PipeThreadAlive, OthersAreClosed
  <2>7. OthersCreate(n)'
    BY <2>3 DEF OthersCreate, Creating, Registered, Ending
  <2>8. Published(n)'
    BY <2>2, <2>3 DEF Has, Published
  <2>9. HeapIs(n)'
    BY <2>2, <2>3 DEF Has, HeapIs, Creating
  <2>10. Has(n)'
    BY <2>2, <2>3, <2>4, <2>6, <2>7, <2>8, <2>9 DEF Has
  <2>q. QED
    BY <2>3, <2>5, <2>10 DEF InTurn
<1>7. CASE ResetInit(s)
  <2>1. Moved(s, {"reset", "reset_finish", "reset_media"}, {"idle", "finish_data", "read_media"})
    BY <1>1, <1>7, Moves
  <2>2. UNCHANGED <<write, data, current_session, heap, port, client, server, request, main, pt, kind>>
    BY <1>7 DEF ResetInit, kernel, pipeThread
  <2>q. QED
    BY <2>1, <2>2, QuietMove DEF Moved, Idle, Creating, Registered, Ending, Ended
<1>8. CASE FinishData(s)
  <2>1. Moved(s, {"finish_data"}, {"finish_use"})
    BY <1>1, <1>8, Moves
  <2>2. UNCHANGED <<write, data, current_session, heap, port, client, server, request, main, pt, kind>>
    BY <1>8 DEF FinishData, manager, kernel, pipeThread
  <2>q. QED
    BY <2>1, <2>2, QuietMove DEF Moved, Idle, Creating, Registered, Ending, Ended
<1>9. CASE FinishUse(s)
  <2>1. Moved(s, {"finish_use"}, {"idle", "fault"})
    BY <1>1, <1>9, Moves
  <2>2. UNCHANGED <<write, data, current_session, heap, port, client, server, request, main, pt, kind>>
    BY <1>9 DEF FinishUse, manager, kernel, pipeThread
  <2>q. QED
    BY <2>1, <2>2, QuietMove DEF Moved, Idle, Creating, Registered, Ending, Ended
<1>10. CASE ReadMedia(s)
  <2>1. Moved(s, {"read_media"}, {"idle", "fault"})
    BY <1>1, <1>10, Moves
  <2>2. UNCHANGED <<write, data, current_session, heap, port, client, server, request, main, pt, kind>>
    BY <1>10 DEF ReadMedia, manager, kernel, pipeThread
  <2>q. QED
    BY <2>1, <2>2, QuietMove DEF Moved, Idle, Creating, Registered, Ending, Ended
<1>11. ~ExitLock(s) /\ ~ExitSignal(s) /\ ~ExitThread(s) /\ ~ExitWait(s)
  BY DEF NoTitleEnds, Exiting, ExitLock, ExitSignal, ExitThread, ExitWait
<1>q. QED
  BY <1>3, <1>4, <1>5, <1>6, <1>7, <1>8, <1>9, <1>10, <1>11 DEF End

\* A command begins, and no title ends: the only ones that do need "end_title".
LEMMA ClientTurn ==
  ASSUME PTypeOK, PTypeOK', NoTitleEnds, InTurn, OneAfterAnother, NEW s \in Sessions, Client(s)
  PROVE  InTurn'
<1>1. ~TitleBegin(s) /\ ~TitleEnd(s)
  BY DEF OneAfterAnother, NoTitleEnds, TitleBegin, TitleEnd
<1>2. ASSUME NEW k \in {"cia", "raw"}, BeginImport(s, k) PROVE InTurn'
  BY <1>2, BeginTurn
<1>3. ASSUME NEW i \in Imports, NEW l \in {"finish_cia", "close_media", "cancel_cia", "close"},
             EndImport(s, i, l) PROVE InTurn'
  BY <1>3, GiveBackTurn
<1>q. QED
  BY <1>1, <1>2, <1>3 DEF Client

\* What a cancelling command uses is its import's, and stays so.
LEMMA CancelKept ==
  ASSUME PTypeOK, PTypeOK', NoTitleEnds, InTurn, CancelHasData, OneAfterAnother, Next
  PROVE  CancelHasData'
<1> DEFINE labels == {"cancel_cia", "cancel_data", "cancel_use"}
<1>1. ASSUME UNCHANGED <<th, kind>> PROVE CancelHasData'
  BY <1>1 DEF CancelHasData
<1>2. ASSUME NEW s \in Sessions, \A r \in Sessions : r # s => th'[r] = th[r],
             \A i \in Imports : kind[i] = "cia" => kind'[i] = "cia",
             /\ th'[s].pc \in labels => th'[s].id \in Imports /\ kind[th'[s].id] = "cia"
             /\ th'[s].pc = "cancel_use" => th'[s].c = th'[s].id
      PROVE  CancelHasData'
  <2>1. \A r \in Sessions : th[r].pc \in labels => th[r].id \in Imports
    BY DEF PTypeOK, ThreadsTyped, Exiting
  <2>q. QED
    BY <1>2, <2>1 DEF CancelHasData
<1>3. ASSUME NEW s \in Sessions, NEW from, NEW to, Moved(s, from, to), to \intersect labels = {}, UNCHANGED kind
      PROVE  CancelHasData'
  BY <1>2, <1>3 DEF Moved
<1>4. ASSUME NEW s \in Sessions, Client(s) PROVE CancelHasData'
  <2>1. ASSUME NEW k \in {"cia", "raw"}, BeginImport(s, k) PROVE CancelHasData'
    <3>1. PICK i \in Imports : /\ kind[i] = "none" /\ kind' = [kind EXCEPT ![i] = k]
                              /\ th' = [th EXCEPT ![s] = [pc |-> "lock", id |-> i, c |-> 0]]
      BY <2>1 DEF BeginImport
    <3>2. /\ th'[s].pc = "lock" /\ \A r \in Sessions : r # s => th'[r] = th[r]
          /\ \A j \in Imports : kind[j] = "cia" => kind'[j] = "cia"
      BY <3>1 DEF PTypeOK, ThreadsTyped
    <3>q. QED
      BY <1>2, <3>2
  <2>2. ASSUME NEW i \in Imports, NEW l \in {"finish_cia", "close_media", "cancel_cia", "close"},
               EndImport(s, i, l), l = "close" \/ kind[i] = "cia"
        PROVE  CancelHasData'
    <3>1. th' = [th EXCEPT ![s] = [pc |-> l, id |-> i, c |-> 0]] /\ UNCHANGED kind
      BY <2>2 DEF EndImport
    <3>2. th'[s].pc = l /\ th'[s].id = i /\ \A r \in Sessions : r # s => th'[r] = th[r]
      BY <3>1 DEF PTypeOK, ThreadsTyped
    <3>q. QED
      BY <1>2, <2>2, <3>1, <3>2
  <2>3. ~TitleBegin(s) /\ ~TitleEnd(s)
    BY DEF OneAfterAnother, NoTitleEnds, TitleBegin, TitleEnd
  <2>q. QED
    BY <1>4, <2>1, <2>2, <2>3 DEF Client
<1>5. ThreadsTyped
  BY DEF PTypeOK
<1>6. ASSUME NEW s \in Sessions, Create(s) PROVE CancelHasData'
  <2>1. UNCHANGED kind
    BY <1>6 DEF Create, CreateLock, CreateInit, CreateSession, PublishWrite, PublishData, WaitEvent,
       SendHandle, CreateFailed
  <2>2. PICK from, to : Moved(s, from, to) /\ to \intersect labels = {}
    BY <1>5, <1>6, Moves DEF Create
  <2>q. QED
    BY <1>3, <2>1, <2>2
<1>7. ASSUME NEW s \in Sessions, End(s) PROVE CancelHasData'
  <2>1. UNCHANGED kind
    BY <1>7 DEF End, CheckWrite, CancelData, CancelUse, CloseHandle, ResetInit, ReadMedia, FinishData,
       FinishUse, ExitLock, ExitSignal, ExitThread, ExitWait
  <2>2. ~ExitLock(s) /\ ~ExitSignal(s) /\ ~ExitThread(s) /\ ~ExitWait(s)
    BY DEF NoTitleEnds, Exiting, ExitLock, ExitSignal, ExitThread, ExitWait
  <2>3. CASE CancelUse(s) \/ CloseHandle(s) \/ ResetInit(s) \/ ReadMedia(s) \/ FinishData(s) \/ FinishUse(s)
    <3>1. PICK from, to : Moved(s, from, to) /\ to \intersect labels = {}
      BY <1>5, <2>3, Moves
    <3>q. QED
      BY <1>3, <2>1, <3>1
  <2>4. CASE CheckWrite(s)
    <3>1. Moved(s, {"finish_cia", "cancel_cia"}, {"idle", "close_finish", "cancel_data"})
      BY <1>5, <2>4, Moves
    <3>2. th'[s].pc = "cancel_data" => th[s].pc = "cancel_cia"
      BY <1>5, <2>4 DEF CheckWrite, Goto, ThreadsTyped
    <3>3. th'[s].pc \in labels => kind[th[s].id] = "cia" /\ th'[s].pc = "cancel_data"
      BY <3>1, <3>2 DEF Moved, CancelHasData
    <3>q. QED
      BY <1>2, <2>1, <3>1, <3>3 DEF Moved
  <2>5. CASE CancelData(s)
    <3>1. Moved(s, {"cancel_data"}, {"cancel_use"}) /\ th[s].pc = "cancel_data" /\ kind[th[s].id] = "cia"
      BY <1>5, <2>5, Moves DEF Moved, CancelHasData
    <3>2. PICK n \in Imports : n = th[s].id
      BY <3>1 DEF Moved
    <3>3. /\ Has(n) /\ client[n] = "am" /\ \A r \in Sessions : r # s => th[r].pc = "idle"
      BY <3>1, <3>2, EndingHas DEF Ending
    <3>4. data = n
      BY <3>1, <3>2, <3>3 DEF Has, Published, Closing
    <3>5. th'[s].c = n
      BY <1>5, <2>5, <3>4 DEF CancelData, ThreadsTyped
    <3>q. QED
      BY <1>2, <2>1, <3>1, <3>2, <3>5 DEF Moved
  <2>q. QED
    BY <1>7, <2>2, <2>3, <2>4, <2>5 DEF End
<1>8. ASSUME NEW i \in Imports, UserWrite(i) \/ UserDrop(i) PROVE CancelHasData'
  BY <1>1, <1>8 DEF UserWrite, UserDrop
<1>9. CASE Main \/ PipeThread
  BY <1>1, <1>9
  DEF Main, AcceptPipe, FreeThread, StartThread, PipeThread, SignalEvent, CaptureHandles, ReceiveWrite,
      ReplyWrite, ReceiveClosed, ReceiveCloseEvent, ReceivePanic, CloseSession, ZeroSession, FreeData,
      ClearData, ClearWrite
<1>q. QED
  BY <1>4, <1>6, <1>7, <1>8, <1>9 DEF Next

-----------------------------------------------------------------------------
(* The invariant *)

\* Before anything has begun the pipe is empty.
LEMMA PInitInv == Init => PInv
<1> SUFFICES ASSUME Init PROVE PInv
  OBVIOUS
<1>1. PTypeOK
  <2>1. ThreadsTyped
    BY DEF Init, ThreadsTyped, ThLabels
  <2>2. /\ client \in [Imports -> {"none", "am", "user", "closed"}]
        /\ server \in [Imports -> {"none", "pending", "open", "closed"}]
        /\ kind \in [Imports -> {"none", "cia", "raw"}]
        /\ pt \in [pc : PtLabels, mine : Imports \union {0}]
    BY DEF Init, PtLabels
  <2>3. port \in Seq(Imports)
    BY DEF Init
  <2>q. QED
    BY <2>1, <2>2, <2>3 DEF Init, PTypeOK
<1>2. ThreadIsStored
  BY DEF Init, ThreadIsStored, PipeThreadAlive
<1>3. NoTitleEnds /\ InitIsToken
  BY DEF Init, NoTitleEnds, InitIsToken, HasOpen, Exiting, Registered, Ending
<1>4. InTurn
  BY DEF Init, InTurn, Empty, Alone, RequestsAreLive, DataIsKept, Idle, PipeThreadAlive, Creating, Registered
<1>5. CancelHasData
  BY DEF Init, CancelHasData
<1>q. QED
  BY <1>1, <1>2, <1>3, <1>4, <1>5 DEF PInv

\* The environment is chosen once.
LEMMA MayIsFixed == Next => may' = may
BY ZenonT(60) DEF Next, Client, Create, End, Main, PipeThread, BeginImport, EndImport, TitleBegin, TitleEnd,
       CreateLock, CreateInit, CreateSession, PublishWrite, PublishData, WaitEvent, SendHandle,
       CreateFailed, CheckWrite, CancelData, CancelUse, CloseHandle, ResetInit, ReadMedia, FinishData,
       FinishUse, ExitLock, ExitSignal, ExitThread, ExitWait, UserWrite, UserDrop, AcceptPipe, FreeThread, StartThread,
       SignalEvent, CaptureHandles, ReceiveWrite, ReplyWrite, ReceiveClosed, ReceiveCloseEvent,
       ReceivePanic, CloseSession, ZeroSession, FreeData, ClearData, ClearWrite

\* Every step keeps the invariant.
LEMMA PNextInv == PInv /\ [Next]_vars => PInv'
<1> SUFFICES ASSUME PInv, [Next]_vars PROVE PInv'
  OBVIOUS
<1>1. CASE UNCHANGED vars
  <2>1. PTypeOK' /\ ThreadIsStored' /\ may' = may
    BY <1>1 DEF PInv, PTypeOK, ThreadsTyped, ThreadIsStored, PipeThreadAlive, vars, manager, kernel, pipeThread
  <2>2. NoTitleEnds /\ InitIsToken => NoTitleEnds' /\ InitIsToken'
    BY <1>1 DEF NoTitleEnds, InitIsToken, HasOpen, vars, manager, kernel
  <2>3. InTurn => Alone' /\ RequestsAreLive' /\ DataIsKept'
    BY <1>1 DEF InTurn, Alone, Idle, RequestsAreLive, DataIsKept, vars, kernel, pipeThread
  <2>4. Empty => Empty'
    BY <1>1 DEF Empty, PipeThreadAlive, vars, manager, kernel, pipeThread
  <2>5. ASSUME NEW i \in Imports, Has(i) PROVE Has(i)'
    <3>1. Stage(i)' /\ OthersAreClosed(i)'
      BY <1>1, <2>5
      DEF Has, Stage, Queued, Accepted, Starting, Served, Leaving, PipeThreadAlive, OthersAreClosed,
          vars, manager, kernel, pipeThread
    <3>2. OthersCreate(i)' /\ Published(i)' /\ HeapIs(i)'
      BY <1>1, <2>5 DEF Has, OthersCreate, Published, HeapIs, vars, manager, kernel, pipeThread
    <3>q. QED
      BY <1>1, <2>5, <3>1, <3>2 DEF Has, vars, kernel, pipeThread
  <2>6. InTurn => InTurn'
    BY <2>3, <2>4, <2>5 DEF InTurn
  <2>7. CancelHasData => CancelHasData'
    BY <1>1 DEF CancelHasData, vars
  <2>q. QED
    BY <2>1, <2>2, <2>6, <2>7 DEF PInv, OneAfterAnother
<1>2. CASE Next
  <2>1. PTypeOK /\ PTypeOK' /\ may' = may
    BY <1>2, PTyping, MayIsFixed DEF PInv
  <2>2. ThreadIsStored'
    BY <1>2, <2>1, StoredKept DEF PInv
  <2>3. "end_title" \notin may => NoTitleEnds' /\ InitIsToken'
    BY <1>2, <2>1, TokenKept DEF PInv
  <2>4. ASSUME OneAfterAnother PROVE InTurn' /\ CancelHasData'
    <3>1. NoTitleEnds /\ InitIsToken /\ InTurn /\ CancelHasData
      BY <2>4 DEF PInv, OneAfterAnother
    <3>2. ASSUME NEW s \in Sessions, Client(s) \/ Create(s) \/ End(s) PROVE InTurn'
      BY <2>1, <2>4, <3>1, <3>2, ClientTurn, CreateTurn, EndTurn
    <3>3. ASSUME NEW i \in Imports, UserWrite(i) \/ UserDrop(i) PROVE InTurn'
      BY <2>1, <2>4, <3>1, <3>3, UserTurn
    <3>4. ASSUME Main PROVE InTurn'
      BY <2>1, <3>1, <3>4, MainTurn
    <3>5. ASSUME PipeThread PROVE InTurn'
      BY <2>1, <3>1, <3>5, PipeThreadTurn
    <3>6. CancelHasData'
      BY <1>2, <2>1, <2>4, <3>1, CancelKept
    <3>q. QED
      BY <1>2, <3>2, <3>3, <3>4, <3>5, <3>6 DEF Next
  <2>q. QED
    BY <2>1, <2>2, <2>3, <2>4 DEF PInv, OneAfterAnother
<1>q. QED
  BY <1>1, <1>2

\* g_PipeManager, its pipe thread and the threads that use them are always as the
\* invariant says.
THEOREM PInvariance == Spec => []PInv
BY PInitInv, PNextInv, PTL DEF Spec

-----------------------------------------------------------------------------
(* What it is for *)

\* However the sessions' threads interleave between two kernel calls, the flag that
\* AM_Pipe_CreateImportHandle tests and sets lets one import in at a time.
THEOREM OneImportAtATime == Spec => []OneImport
<1>1. PInv => OneImport
  <2> SUFFICES ASSUME PInv, "end_title" \notin may, NEW i \in Imports, NEW j \in Imports, Open(i), Open(j)
               PROVE  i = j
    BY DEF OneImport
  <2>1. InitIsToken
    BY DEF PInv
  <2>2. ASSUME NEW k \in Imports, Open(k)
        PROVE  client[k] = "user" \/ \E s \in Sessions : HasOpen(s) /\ th[s].id = k
    BY <2>2 DEF Open, HasOpen, Registered, Ending
  <2>3. /\ client[i] = "user" \/ \E s \in Sessions : HasOpen(s) /\ th[s].id = i
        /\ client[j] = "user" \/ \E s \in Sessions : HasOpen(s) /\ th[s].id = j
    BY <2>2
  <2>q. QED
    BY <2>1, <2>3 DEF InitIsToken
<1>q. QED
  BY <1>1, PInvariance, PTL

\* AM_Main starts a pipe thread, on the one stack they have, only when the one
\* before has ended: freeThread has waited for the handle it had stored.
THEOREM PipeThreadIsAlone == Spec => OnePipeThread
<1>1. PInv /\ [Next]_vars => [started' # started => ~PipeThreadAlive]_vars
  <2> SUFFICES ASSUME PInv, Next, started' # started PROVE ~PipeThreadAlive
    OBVIOUS
  <2>1. StartThread
    BY ZenonT(60) DEF Next, Client, Create, End, Main, PipeThread, BeginImport, EndImport, TitleBegin, TitleEnd,
           CreateLock, CreateInit, CreateSession, PublishWrite, PublishData, WaitEvent, SendHandle,
           CreateFailed, CheckWrite, CancelData, CancelUse, CloseHandle, ResetInit, ReadMedia, FinishData,
           FinishUse, ExitLock, ExitSignal, ExitThread, ExitWait, UserWrite, UserDrop, AcceptPipe, FreeThread,
           SignalEvent, CaptureHandles, ReceiveWrite, ReplyWrite, ReceiveClosed, ReceiveCloseEvent,
           ReceivePanic, CloseSession, ZeroSession, FreeData, ClearData, ClearWrite, pipeThread
  <2>q. QED
    BY <2>1 DEF StartThread, PInv, ThreadIsStored
<1>q. QED
  BY <1>1, PInvariance, PTL DEF Spec, OnePipeThread

\* Between imports the heap, the write function, its data and the session are
\* as they were before the first: pipe_tmain has undone what the begin command did.
THEOREM NothingIsLeft == Spec => []NothingLeft
<1>1. PInv => NothingLeft
  <2> SUFFICES ASSUME PInv, OneAfterAnother, Quiescent
               PROVE  /\ heap = {} /\ write = "none" /\ data = 0 /\ current_session = 0
                      /\ \A i \in Imports : server[i] # "open"
    BY DEF NothingLeft
  <2>1. InTurn
    BY DEF PInv
  <2>2. ASSUME NEW i \in Imports, Has(i) PROVE FALSE
    BY <2>2 DEF Has, Stage, Queued, Accepted, Starting, Served, Leaving, Closing, Quiescent, PipeThreadAlive
  <2>3. Empty
    BY <2>1, <2>2 DEF InTurn
  <2>q. QED
    BY <2>3 DEF Empty, Quiescent, Idle, Creating
<1>q. QED
  BY <1>1, PInvariance, PTL

\* As long as a client has the handle it was given, its writes reach the write
\* function and the data of its own import.
THEOREM WritesGoToOwnImport == Spec => []WritesReachOwnImport
<1>1. PInv => WritesReachOwnImport
  <2> SUFFICES ASSUME PInv, OneAfterAnother, NEW i \in Imports, client[i] = "user"
               PROVE  /\ write = kind[i]
                      /\ kind[i] = "cia" => data = i /\ i \in heap
                      /\ pt.pc \in {"receive", "write"} /\ server[i] = "open" /\ main = "wait" => pt.mine = i
    BY DEF WritesReachOwnImport
  <2>1. PICK k \in Imports : Has(k)
    BY DEF PInv, InTurn, Empty
  <2>2. k = i
    BY <2>1 DEF Has, OthersAreClosed
  <2>3. \A s \in Sessions : th[s].pc \notin {"write", "data"}
    BY <2>1, <2>2 DEF Has, OthersCreate, Registered
  <2>4. pt.pc \notin Closing
    BY <2>1, <2>2 DEF Has
  <2>5. write = kind[i] /\ (kind[i] = "cia" => data = i /\ i \in heap)
    BY <2>1, <2>2, <2>3, <2>4 DEF Has, Published, HeapIs, Closing
  <2>6. pt.pc \in {"receive", "write"} => pt.mine = i
    BY <2>1, <2>2 DEF Has, Stage, Queued, Accepted, Starting, Served, Leaving, Closing, PipeThreadAlive
  <2>q. QED
    BY <2>5, <2>6
<1>q. QED
  BY <1>1, PInvariance, PTL

-----------------------------------------------------------------------------
(* As long as commands do not overlap *)

\* The import has the pipe, and its session is open.
Live(i) == Queued(i) \/ Accepted(i) \/ Starting(i) \/ Served(i)

NoUser ==
  /\ port = <<>> /\ main = "wait" /\ ~PipeThreadAlive /\ current_session = 0
  /\ \A j \in Imports : server[j] \in {"none", "closed"}

OthersAreDone(i) == \A j \in Imports : j # i => server[j] \in {"none", "closed"}

OneUser == NoUser \/ \E i \in Imports : Stage(i) /\ OthersAreDone(i)

\* What a session's thread has published of its import when it is at l.
Shown(l, i) ==
  /\ l # "write" => write = kind[i]
  /\ kind[i] = "cia" => i \in heap /\ (l \in {"event", "send"} => data = i)

\* While a session's thread begins an import nothing is torn down ...
Begins(s) ==
  th[s].pc \in Creating =>
    /\ ~TearingDown /\ server[th[s].id] = "none" /\ client[th[s].id] = "none"
    /\ kind[th[s].id] # "none" /\ (kind[th[s].id] = "cia" => th[s].id \in heap)

\* ... and once it has registered it, nobody else gets the pipe.
Publishes(s) ==
  th[s].pc \in Registered =>
    /\ client[th[s].id] = "am"
    /\ \A i \in Imports : Live(i) => i = th[s].id /\ Shown(th[s].pc, i)

GivesBack(s) == th[s].pc \in Ending => client[th[s].id] = "am"

Reached == \A i \in Imports : Live(i) /\ client[i] = "user" => Shown("send", i)

Known == \A i \in Imports : server[i] # "none" \/ client[i] # "none" => kind[i] # "none"

\* As long as commands do not overlap, whatever else happens.
Sole ==
  /\ Alone /\ RequestsAreLive /\ OneUser /\ Reached /\ Known
  /\ \A s \in Sessions : Begins(s) /\ Publishes(s) /\ GivesBack(s)

\* An import whose session is open has the pipe, and no other.
LEMMA LiveIsOnly ==
  ASSUME OneUser, NEW i \in Imports, Live(i)
  PROVE  /\ ~NoUser /\ Stage(i) /\ OthersAreDone(i) /\ ~Leaving(i)
         /\ \A j \in Imports : Stage(j) => j = i
<1>1. server[i] \in {"pending", "open"}
  BY DEF Live, Queued, Accepted, Starting, Served
<1>2. ~NoUser
  BY <1>1 DEF NoUser
<1>3. PICK k \in Imports : Stage(k) /\ OthersAreDone(k)
  BY <1>2 DEF OneUser
<1>4. k = i
  BY <1>1, <1>3 DEF OthersAreDone
<1>5. ~Leaving(i)
  BY <1>1 DEF Leaving
<1>6. ASSUME NEW j \in Imports, Stage(j) PROVE j = i
  <2>1. server[j] \in {"pending", "open"} \/ Leaving(j)
    BY <1>6 DEF Stage, Queued, Accepted, Starting, Served
  <2>2. CASE Leaving(j)
    <3>1. PipeThreadAlive /\ main = "wait" /\ port = <<>> /\ pt.pc \in Closing
      BY <2>2 DEF Leaving, PipeThreadAlive, Closing
    <3>q. QED
      BY <3>1 DEF Live, Queued, Accepted, Starting, Served, Closing
  <2>q. QED
    BY <1>3, <1>4, <2>1, <2>2 DEF OthersAreDone
<1>q. QED
  BY <1>2, <1>3, <1>4, <1>5, <1>6

\* Who has the pipe depends on the port, AM_Main and the pipe thread.
LEMMA SameStage ==
  ASSUME OneUser, UNCHANGED <<port, main, pt, current_session, server>>
  PROVE  OneUser' /\ \A i \in Imports : Live(i)' <=> Live(i)
<1>1. \A i \in Imports : (Live(i)' <=> Live(i)) /\ (Stage(i)' <=> Stage(i)) /\ (OthersAreDone(i)' <=> OthersAreDone(i))
  BY DEF Live, Stage, Queued, Accepted, Starting, Served, Leaving, PipeThreadAlive, OthersAreDone
<1>2. NoUser' <=> NoUser
  BY DEF NoUser, PipeThreadAlive
<1>q. QED
  BY <1>1, <1>2 DEF OneUser

\* A step of the only thread that is at work, or that begins to be.
Shift(s, i, l) ==
  /\ th'[s].pc = l /\ th'[s].id = i
  /\ \A r \in Sessions : r # s => th[r].pc = "idle" /\ th'[r].pc = "idle"

LEMMA OnlyOneMoves ==
  ASSUME PTypeOK, Alone, NEW s \in Sessions, ~Idle(s) \/ \A r \in Sessions : Idle(r), NEW l,
         Goto(s, l) \/ \E v : th' = [th EXCEPT ![s].pc = l, ![s].c = v]
  PROVE  Shift(s, th[s].id, l) /\ Alone'
<1>1. th'[s].pc = l /\ th'[s].id = th[s].id /\ \A r \in Sessions : r # s => th'[r] = th[r]
  <2>0. PICK v : Goto(s, l) \/ th' = [th EXCEPT ![s].pc = l, ![s].c = v]
    OBVIOUS
  <2>1. PICK rec : /\ th' = [th EXCEPT ![s] = rec]
                   /\ rec = [th[s] EXCEPT !.pc = l] \/ rec = [th[s] EXCEPT !.pc = l, !.c = v]
    BY <2>0 DEF Goto
  <2>2. th'[s] = rec /\ \A r \in Sessions : r # s => th'[r] = th[r]
    BY <2>1 DEF PTypeOK, ThreadsTyped
  <2>3. th[s] \in [pc : ThLabels, id : Imports \union {0}, c : Nat]
    BY DEF PTypeOK, ThreadsTyped
  <2>4. rec.pc = l /\ rec.id = th[s].id
    BY <2>1, <2>3
  <2>q. QED
    BY <2>2, <2>4
<1>2. \A r \in Sessions : r # s => th[r].pc = "idle"
  BY DEF Alone, Idle
<1>q. QED
  BY <1>1, <1>2 DEF Shift, Alone, Idle

\* Of such a step only what it says of the thread itself is left to show, when
\* it leaves alone what others look at.
LEMMA OthersKeep ==
  ASSUME NEW s \in Sessions, NEW i, NEW l, Shift(s, i, l), Begins(s)', Publishes(s)', GivesBack(s)'
  PROVE  \A r \in Sessions : Begins(r)' /\ Publishes(r)' /\ GivesBack(r)'
<1> SUFFICES ASSUME NEW r \in Sessions PROVE Begins(r)' /\ Publishes(r)' /\ GivesBack(r)'
  OBVIOUS
<1>1. CASE r = s
  BY <1>1
<1>2. CASE r # s
  BY <1>2 DEF Shift, Begins, Publishes, GivesBack, Creating, Registered, Ending
<1>q. QED
  BY <1>1, <1>2

LEMMA QuietSole ==
  ASSUME PTypeOK, Sole, NEW s \in Sessions, NEW l, ~Idle(s) \/ \A r \in Sessions : Idle(r),
         Goto(s, l) \/ \E v : th' = [th EXCEPT ![s].pc = l, ![s].c = v],
         UNCHANGED <<write, data, current_session, heap, port, client, server, request, main, pt, kind>>,
         l \in Creating => th[s].pc \in Creating /\ UNCHANGED close_event,
         l \in Registered => th[s].pc = "event" /\ l = "send",
         l \in Ending => th[s].pc \in Ending
  PROVE  Sole'
<1>1. Shift(s, th[s].id, l) /\ Alone'
  BY OnlyOneMoves DEF Sole
<1>2. OneUser' /\ \A i \in Imports : Live(i)' <=> Live(i)
  BY SameStage DEF Sole
<1>3. RequestsAreLive' /\ Known'
  BY DEF Sole, RequestsAreLive, Known
<1>4. Reached'
  BY <1>2 DEF Sole, Reached, Shown
<1>5. Begins(s)'
  <2> SUFFICES ASSUME l \in Creating PROVE Begins(s)'
    BY <1>1 DEF Begins, Shift
  <2>1. ~TearingDown'
    BY DEF Sole, Begins, TearingDown, PipeThreadAlive
  <2>q. QED
    BY <1>1, <2>1 DEF Sole, Begins, Shift
<1>6. Publishes(s)'
  <2> SUFFICES ASSUME l \in Registered PROVE Publishes(s)'
    BY <1>1 DEF Publishes, Shift
  <2>1. th[s].pc = "event" /\ l = "send"
    OBVIOUS
  <2>q. QED
    BY <1>1, <1>2, <2>1 DEF Sole, Publishes, Shift, Shown, Registered
<1>7. GivesBack(s)'
  BY <1>1 DEF Sole, GivesBack, Shift
<1>8. \A r \in Sessions : Begins(r)' /\ Publishes(r)' /\ GivesBack(r)'
  BY <1>1, <1>5, <1>6, <1>7, OthersKeep
<1>q. QED
  BY <1>1, <1>2, <1>3, <1>4, <1>8 DEF Sole
\* A begin command is registered, stored where the pipe thread will look, and
\* given to its client.
LEMMA RegisterSole ==
  ASSUME PTypeOK, Sole, NEW s \in Sessions, CreateSession(s)
  PROVE  Sole'
<1>1. th[s].pc = "connect" /\ ~Idle(s) /\ th[s].id \in Imports
  BY HasImport DEF CreateSession, Idle, PTypeOK, Creating
<1>2. PICK n \in Imports : n = th[s].id
  BY <1>1
<1> USE <1>2
<1>3. /\ ~TearingDown /\ server[n] = "none" /\ client[n] = "none" /\ kind[n] # "none"
      /\ kind[n] = "cia" => n \in heap
  BY <1>1 DEF Sole, Begins, Creating
<1>4. CASE Goto(s, "failed") /\ UNCHANGED <<client, server, port>>
  <2>1. UNCHANGED <<write, data, close_event, current_session, heap, port, client, server, request, main, pt, kind>>
    BY <1>4 DEF CreateSession, manager, pipeThread
  <2>2. PICK l \in {"failed"} : Goto(s, l) /\ th[s].pc = "connect"
    BY <1>1, <1>4
  <2>q. QED
    BY <2>1, <2>2, QuietSole DEF Idle, Creating, Registered, Ending
<1>5. CASE /\ ~PortFull /\ Goto(s, "write") /\ port' = Append(port, n)
           /\ client' = [client EXCEPT ![n] = "am"] /\ server' = [server EXCEPT ![n] = "pending"]
  <2>1. UNCHANGED <<write, data, current_session, heap, request, main, pt, kind>>
    BY DEF CreateSession, manager, pipeThread
  <2>2. /\ client'[n] = "am" /\ server'[n] = "pending"
        /\ \A j \in Imports : j # n => client'[j] = client[j] /\ server'[j] = server[j]
    BY <1>5, <2>1 DEF PTypeOK
  <2>3. Shift(s, th[s].id, "write") /\ Alone'
    BY <1>1, <1>5, <2>1, OnlyOneMoves DEF Sole
  <2>4. NoUser
    <3>1. ASSUME NEW i \in Imports, Stage(i) PROVE FALSE
      <4>1. server[i] \notin {"pending", "open"}
        BY <1>5, <2>1 DEF PortFull
      <4>2. Leaving(i)
        BY <3>1, <4>1 DEF Stage, Queued, Accepted, Starting, Served
      <4>q. QED
        BY <1>3, <4>2 DEF Leaving, TearingDown, PipeThreadAlive, Closing
    <3>q. QED
      BY <3>1 DEF Sole, OneUser
  <2>5. Queued(n)'
    <3>1. port' = <<n>>
      BY <1>5, <2>1, <2>4 DEF NoUser
    <3>q. QED
      BY <1>5, <2>1, <2>2, <2>4, <3>1 DEF Queued, NoUser, PipeThreadAlive
  <2>6. \A j \in Imports : j # n => server'[j] \in {"none", "closed"} /\ ~Live(j)'
    BY <2>2, <2>4 DEF NoUser, Live, Queued, Accepted, Starting, Served
  <2>7. OneUser'
    BY <2>5, <2>6 DEF OneUser, Stage, OthersAreDone
  <2>8. RequestsAreLive'
    BY <1>3, <1>5, <2>1, <2>2, <2>4 DEF Sole, RequestsAreLive, NoUser, PipeThreadAlive, PTypeOK
  <2>9. Reached' /\ Known'
    BY <1>3, <1>5, <2>1, <2>2, <2>6 DEF Sole, Reached, Known
  <2>10. Begins(s)' /\ Publishes(s)' /\ GivesBack(s)'
    BY <1>3, <1>5, <2>1, <2>2, <2>3, <2>6 DEF Begins, Publishes, GivesBack, Shift, Shown, Creating, Ending
  <2>11. \A r \in Sessions : Begins(r)' /\ Publishes(r)' /\ GivesBack(r)'
    BY <2>3, <2>10, OthersKeep
  <2>q. QED
    BY <2>3, <2>7, <2>8, <2>9, <2>11 DEF Sole
<1>q. QED
  BY <1>4, <1>5 DEF CreateSession

LEMMA CreateSole ==
  ASSUME PTypeOK, Sole, NEW s \in Sessions, Create(s)
  PROVE  Sole'
<1>1. CASE CreateLock(s) \/ CreateInit(s) \/ WaitEvent(s)
  <2>1. PICK l \in {"init", "failed", "connect", "send"} :
           Goto(s, l) /\ (l = "send" <=> th[s].pc = "event") /\ (l # "send" => th[s].pc \in {"lock", "init"})
    BY <1>1 DEF CreateLock, CreateInit, WaitEvent
  <2>2. UNCHANGED <<write, data, close_event, current_session, heap, port, client, server, request, main, pt, kind>>
    BY <1>1 DEF CreateLock, CreateInit, WaitEvent, manager, kernel, pipeThread
  <2>q. QED
    BY <2>1, <2>2, QuietSole DEF Idle, Creating, Registered, Ending
<1>2. CASE CreateSession(s)
  BY <1>2, RegisterSole
<1>3. ASSUME th[s].pc \in Registered
      PROVE  /\ client[th[s].id] = "am" /\ th[s].id \in Imports
             /\ \A i \in Imports : Live(i) => i = th[s].id /\ Shown(th[s].pc, i)
  BY <1>3, HasImport DEF Sole, Publishes, PTypeOK
<1>4. CASE PublishWrite(s) \/ PublishData(s)
  <2>1. PICK l \in {"data", "event"} : Goto(s, l)
    BY <1>4 DEF PublishWrite, PublishData
  <2>2. th[s].pc \in Registered /\ ~Idle(s)
    BY <1>4 DEF PublishWrite, PublishData, Registered, Idle
  <2>3. UNCHANGED <<current_session, heap, port, client, server, request, main, pt, kind>>
    BY <1>4 DEF PublishWrite, PublishData, kernel, pipeThread
  <2>4. Shift(s, th[s].id, l) /\ Alone'
    BY <2>1, <2>2, OnlyOneMoves DEF Sole
  <2>5. OneUser' /\ \A i \in Imports : Live(i)' <=> Live(i)
    BY <2>3, SameStage DEF Sole
  <2>6. RequestsAreLive' /\ Known'
    BY <2>3 DEF Sole, RequestsAreLive, Known
  <2>7. Reached'
    BY <1>3, <2>2, <2>3, <2>5 DEF Reached
  <2>8. \A i \in Imports : Live(i)' => i = th[s].id /\ Shown(l, i)'
    <3> SUFFICES ASSUME NEW i \in Imports, Live(i) PROVE i = th[s].id /\ Shown(l, i)'
      BY <2>5
    <3>1. i = th[s].id /\ Shown(th[s].pc, i)
      BY <1>3, <2>2
    <3>2. CASE PublishWrite(s)
      <4>1. th[s].pc = "write" /\ write' = kind[i] /\ l = "data"
        BY <2>4, <3>1, <3>2 DEF PublishWrite, Goto, PTypeOK, ThreadsTyped, Shift
      <4>q. QED
        BY <2>3, <3>1, <4>1 DEF Shown
    <3>3. CASE PublishData(s)
      <4>1. th[s].pc = "data" /\ write' = write /\ (kind[i] = "cia" => data' = i)
        BY <3>1, <3>3 DEF PublishData
      <4>q. QED
        BY <2>3, <3>1, <4>1 DEF Shown
    <3>q. QED
      BY <1>4, <3>2, <3>3
  <2>9. Begins(s)' /\ Publishes(s)' /\ GivesBack(s)'
    BY <1>3, <2>2, <2>3, <2>4, <2>8 DEF Begins, Publishes, GivesBack, Shift, Creating, Ending
  <2>10. \A r \in Sessions : Begins(r)' /\ Publishes(r)' /\ GivesBack(r)'
    BY <2>4, <2>9, OthersKeep
  <2>q. QED
    BY <2>4, <2>5, <2>6, <2>7, <2>10 DEF Sole
<1>5. CASE SendHandle(s)
  <2>1. th[s].pc = "send" /\ th[s].pc \in Registered /\ ~Idle(s)
    BY <1>5 DEF SendHandle, Registered, Idle
  <2>2. PICK n \in Imports : n = th[s].id
    BY <1>3, <2>1
  <2>3. /\ client[n] = "am" /\ \A i \in Imports : Live(i) => i = n /\ Shown("send", i)
    BY <1>3, <2>1, <2>2
  <2>4. /\ Goto(s, "idle") /\ client' = [client EXCEPT ![n] = "user"]
        /\ UNCHANGED <<write, data, current_session, heap, port, server, request, main, pt, kind>>
    BY <1>5, <2>2 DEF SendHandle, manager, pipeThread
  <2>5. client'[n] = "user" /\ \A j \in Imports : j # n => client'[j] = client[j]
    BY <2>4 DEF PTypeOK
  <2>6. Shift(s, th[s].id, "idle") /\ Alone'
    BY <2>1, <2>4, OnlyOneMoves DEF Sole
  <2>7. OneUser' /\ \A i \in Imports : Live(i)' <=> Live(i)
    BY <2>4, SameStage DEF Sole
  <2>8. RequestsAreLive' /\ Known'
    BY <2>3, <2>4, <2>5 DEF Sole, RequestsAreLive, Known, PTypeOK
  <2>9. Reached'
    BY <2>3, <2>4, <2>7 DEF Reached, Shown
  <2>10. Begins(s)' /\ Publishes(s)' /\ GivesBack(s)'
    BY <2>6 DEF Begins, Publishes, GivesBack, Shift, Creating, Registered, Ending
  <2>11. \A r \in Sessions : Begins(r)' /\ Publishes(r)' /\ GivesBack(r)'
    BY <2>6, <2>10, OthersKeep
  <2>q. QED
    BY <2>6, <2>7, <2>8, <2>9, <2>11 DEF Sole
<1>6. CASE CreateFailed(s)
  <2>1. th[s].pc = "failed" /\ ~Idle(s) /\ th[s].id \in Imports
    BY <1>6, HasImport DEF CreateFailed, Idle, Creating, PTypeOK
  <2>2. PICK n \in Imports : n = th[s].id
    BY <2>1
  <2>3. client[n] = "none"
    BY <2>1, <2>2 DEF Sole, Begins, Creating
  <2>4. /\ Goto(s, "idle") /\ heap' = heap \ {n}
        /\ UNCHANGED <<write, data, current_session, port, client, server, request, main, pt, kind>>
    BY <1>6, <2>2 DEF CreateFailed, manager, kernel, pipeThread
  <2>5. Shift(s, th[s].id, "idle") /\ Alone'
    BY <2>1, <2>4, OnlyOneMoves DEF Sole
  <2>6. OneUser' /\ \A i \in Imports : Live(i)' <=> Live(i)
    BY <2>4, SameStage DEF Sole
  <2>7. RequestsAreLive' /\ Known'
    BY <2>4 DEF Sole, RequestsAreLive, Known
  <2>8. Reached'
    BY <2>3, <2>4, <2>6 DEF Sole, Reached, Shown
  <2>9. Begins(s)' /\ Publishes(s)' /\ GivesBack(s)'
    BY <2>5 DEF Begins, Publishes, GivesBack, Shift, Creating, Registered, Ending
  <2>10. \A r \in Sessions : Begins(r)' /\ Publishes(r)' /\ GivesBack(r)'
    BY <2>5, <2>9, OthersKeep
  <2>q. QED
    BY <2>5, <2>6, <2>7, <2>8, <2>10 DEF Sole
<1>q. QED
  BY <1>1, <1>2, <1>4, <1>5, <1>6 DEF Create

\* A command that ends an import closes the handle that it was given.
LEMMA EndSole ==
  ASSUME PTypeOK, Sole, NEW s \in Sessions, End(s)
  PROVE  Sole'
<1>1. CASE CheckWrite(s) \/ CancelUse(s) \/ ResetInit(s) \/ ReadMedia(s) \/ FinishUse(s)
           \/ ExitLock(s) \/ ExitSignal(s) \/ ExitWait(s)
  <2>1. PICK l \in {"idle", "close_finish", "cancel_data", "close", "finish_data", "read_media", "fault",
                    "exit_signal", "exit_thread"} :
           Goto(s, l) /\ th[s].pc # "idle" /\ (l \in Ending => th[s].pc \in Ending)
    BY <1>1 DEF CheckWrite, CancelUse, ResetInit, ReadMedia, FinishUse, UseData, ExitLock, ExitSignal, ExitWait,
       Ending
  <2>2. UNCHANGED <<write, data, current_session, heap, port, client, server, request, main, pt, kind>>
    BY <1>1 DEF CheckWrite, CancelUse, ResetInit, ReadMedia, FinishUse, ExitLock, ExitSignal, ExitWait, manager,
       kernel, pipeThread
  <2>q. QED
    BY <2>1, <2>2, QuietSole DEF Idle, Creating, Registered
<1>2. CASE CancelData(s) \/ FinishData(s) \/ ExitThread(s)
  <2>1. PICK l \in {"cancel_use", "finish_use", "exit_wait"} :
           /\ \E v : th' = [th EXCEPT ![s].pc = l, ![s].c = v]
           /\ th[s].pc # "idle" /\ (l \in Ending => th[s].pc \in Ending)
    BY <1>2 DEF CancelData, FinishData, ExitThread, Ending
  <2>2. UNCHANGED <<write, data, current_session, heap, port, client, server, request, main, pt, kind>>
    BY <1>2 DEF CancelData, FinishData, ExitThread, manager, kernel, pipeThread
  <2>q. QED
    BY <2>1, <2>2, QuietSole DEF Idle, Creating, Registered
<1>3. CASE CloseHandle(s)
  <2>1. th[s].pc \in Ending /\ ~Idle(s) /\ th[s].id \in Imports
    BY <1>3, HasImport DEF CloseHandle, Idle, Ending, PTypeOK
  <2>2. PICK n \in Imports : n = th[s].id
    BY <2>1
  <2>3. client[n] = "am"
    BY <2>1, <2>2 DEF Sole, GivesBack
  <2>4. PICK l \in {"reset", "reset_finish", "reset_media"} : Goto(s, l)
    BY <1>3 DEF CloseHandle
  <2>5. /\ client' = [client EXCEPT ![n] = "closed"]
        /\ UNCHANGED <<write, data, current_session, heap, port, server, request, main, pt, kind>>
    BY <1>3, <2>2 DEF CloseHandle, manager, pipeThread
  <2>6. client'[n] = "closed" /\ \A j \in Imports : j # n => client'[j] = client[j]
    BY <2>5 DEF PTypeOK
  <2>7. Shift(s, th[s].id, l) /\ Alone'
    BY <2>1, <2>4, OnlyOneMoves DEF Sole
  <2>8. OneUser' /\ \A i \in Imports : Live(i)' <=> Live(i)
    BY <2>5, SameStage DEF Sole
  <2>9. RequestsAreLive' /\ Known'
    BY <2>3, <2>5, <2>6 DEF Sole, RequestsAreLive, Known, PTypeOK
  <2>10. Reached'
    BY <2>5, <2>6, <2>8 DEF Sole, Reached, Shown
  <2>11. Begins(s)' /\ Publishes(s)' /\ GivesBack(s)'
    BY <2>7 DEF Begins, Publishes, GivesBack, Shift, Creating, Registered, Ending
  <2>12. \A r \in Sessions : Begins(r)' /\ Publishes(r)' /\ GivesBack(r)'
    BY <2>7, <2>11, OthersKeep
  <2>q. QED
    BY <2>7, <2>8, <2>9, <2>10, <2>12 DEF Sole
<1>q. QED
  BY <1>1, <1>2, <1>3 DEF End

\* No command begins while the pipe is torn down, or while another is under way.
LEMMA ClientSole ==
  ASSUME PTypeOK, Sole, "overlap" \notin may, NEW s \in Sessions, Client(s)
  PROVE  Sole'
<1>1. ASSUME NEW k \in {"cia", "raw"}, BeginImport(s, k) PROVE Sole'
  <2>1. /\ ~TearingDown /\ \A r \in Sessions : Idle(r)
        /\ UNCHANGED <<write, data, close_event, current_session, port, client, server, request, main, pt>>
    BY <1>1 DEF BeginImport, manager, kernel, pipeThread
  <2>2. PICK i \in Imports :
          /\ kind[i] = "none" /\ kind' = [kind EXCEPT ![i] = k]
          /\ heap' = IF k = "cia" THEN heap \union {i} ELSE heap
          /\ th' = [th EXCEPT ![s] = [pc |-> "lock", id |-> i, c |-> 0]]
    BY <1>1 DEF BeginImport
  <2>3. server[i] = "none" /\ client[i] = "none"
    BY <2>2 DEF Sole, Known
  <2>4. /\ kind'[i] = k /\ \A j \in Imports : j # i => kind'[j] = kind[j]
        /\ k = "cia" => i \in heap'
        /\ \A j \in Imports : j \in heap => j \in heap'
    BY <2>2 DEF PTypeOK
  <2>5. Shift(s, i, "lock")
    BY <2>1, <2>2 DEF Shift, Idle, PTypeOK, ThreadsTyped
  <2>6. Alone'
    BY <2>5 DEF Shift, Alone, Idle
  <2>7. OneUser' /\ \A j \in Imports : Live(j)' <=> Live(j)
    BY <2>1, SameStage DEF Sole
  <2>8. RequestsAreLive' /\ Known'
    BY <2>1, <2>3, <2>4 DEF Sole, RequestsAreLive, Known
  <2>9. Reached'
    BY <2>1, <2>3, <2>4, <2>7 DEF Sole, Reached, Shown
  <2>10. ~TearingDown'
    BY <2>1 DEF TearingDown, PipeThreadAlive
  <2>11. Begins(s)' /\ Publishes(s)' /\ GivesBack(s)'
    BY <2>1, <2>3, <2>4, <2>5, <2>10 DEF Begins, Publishes, GivesBack, Shift, Registered, Ending
  <2>12. \A r \in Sessions : Begins(r)' /\ Publishes(r)' /\ GivesBack(r)'
    BY <2>5, <2>11, OthersKeep
  <2>q. QED
    BY <2>6, <2>7, <2>8, <2>9, <2>12 DEF Sole
<1>2. ASSUME NEW i \in Imports, NEW l \in {"finish_cia", "close_media", "cancel_cia", "close"}, EndImport(s, i, l)
      PROVE  Sole'
  <2>1. /\ \A r \in Sessions : Idle(r)
        /\ client[i] = "user" /\ i \notin request /\ client' = [client EXCEPT ![i] = "am"]
        /\ th' = [th EXCEPT ![s] = [pc |-> l, id |-> i, c |-> 0]]
        /\ UNCHANGED <<write, data, current_session, heap, port, server, request, main, pt, kind>>
    BY <1>2 DEF EndImport, manager, pipeThread
  <2>2. client'[i] = "am" /\ \A j \in Imports : j # i => client'[j] = client[j]
    BY <2>1 DEF PTypeOK
  <2>3. Shift(s, i, l)
    BY <2>1 DEF Shift, Idle, PTypeOK, ThreadsTyped
  <2>4. Alone'
    BY <2>3 DEF Shift, Alone, Idle
  <2>5. OneUser' /\ \A j \in Imports : Live(j)' <=> Live(j)
    BY <2>1, SameStage DEF Sole
  <2>6. RequestsAreLive' /\ Known'
    BY <2>1, <2>2 DEF Sole, RequestsAreLive, Known, PTypeOK
  <2>7. Reached'
    BY <2>1, <2>2, <2>5 DEF Sole, Reached, Shown
  <2>8. Begins(s)' /\ Publishes(s)' /\ GivesBack(s)'
    BY <2>2, <2>3 DEF Begins, Publishes, GivesBack, Shift, Creating, Registered
  <2>9. \A r \in Sessions : Begins(r)' /\ Publishes(r)' /\ GivesBack(r)'
    BY <2>3, <2>8, OthersKeep
  <2>q. QED
    BY <2>4, <2>5, <2>6, <2>7, <2>9 DEF Sole
<1>3. CASE TitleBegin(s)
  <2>1. UNCHANGED <<th, write, data, close_event, current_session, heap, port, client, server, request, main, pt, kind>>
    BY <1>3 DEF TitleBegin, manager, kernel, pipeThread
  <2>2. OneUser' /\ \A j \in Imports : Live(j)' <=> Live(j)
    BY <2>1, SameStage DEF Sole
  <2>3. TearingDown' <=> TearingDown
    BY <2>1 DEF TearingDown, PipeThreadAlive
  <2>4. Alone' /\ RequestsAreLive' /\ Known' /\ Reached'
    BY <2>1, <2>2 DEF Sole, Alone, Idle, RequestsAreLive, Known, Reached, Shown
  <2>5. \A r \in Sessions : Begins(r)' /\ Publishes(r)' /\ GivesBack(r)'
    BY <2>1, <2>2, <2>3 DEF Sole, Begins, Publishes, GivesBack, Shown
  <2>q. QED
    BY <2>2, <2>4, <2>5 DEF Sole
<1>4. CASE TitleEnd(s)
  <2>1. /\ \A r \in Sessions : Idle(r)
        /\ UNCHANGED <<write, data, close_event, current_session, heap, port, client, server, request, main, pt, kind>>
    BY <1>4 DEF TitleEnd, manager, kernel, pipeThread
  <2>2. PICK l \in {"exit_lock"} : Goto(s, l)
    BY <1>4 DEF TitleEnd
  <2>q. QED
    BY <2>1, <2>2, QuietSole DEF Creating, Registered, Ending
<1>q. QED
  BY <1>1, <1>2, <1>3, <1>4 DEF Client

\* A step of no session thread keeps all that Sole says, when it takes no data
\* from the import that has the pipe, and tears nothing down while one begins.
LEMMA SystemSole ==
  ASSUME PTypeOK, Sole, OneUser', RequestsAreLive', UNCHANGED <<th, kind, client>>,
         \A i \in Imports : Live(i)' => Live(i) /\ write' = write /\ data' = data /\ heap' = heap,
         \A i \in Imports : server'[i] = "none" <=> server[i] = "none",
         (\E s \in Sessions : th[s].pc \in Creating) => ~TearingDown' /\ heap' = heap
  PROVE  Sole'
<1>1. Alone' /\ Known'
  BY DEF Sole, Alone, Idle, Known
<1>2. \A l, i : UNCHANGED <<write, data, heap>> => (Shown(l, i)' <=> Shown(l, i))
  BY DEF Shown
<1>3. Reached'
  BY <1>2 DEF Sole, Reached
<1>4. ASSUME NEW s \in Sessions PROVE Begins(s)' /\ Publishes(s)' /\ GivesBack(s)'
  <2>1. Begins(s)'
    <3> SUFFICES ASSUME th[s].pc \in Creating PROVE Begins(s)'
      BY DEF Begins
    <3>1. th[s].id \in Imports /\ ~TearingDown' /\ heap' = heap
      BY HasImport DEF PTypeOK
    <3>q. QED
      BY <3>1 DEF Sole, Begins
  <2>2. Publishes(s)'
    BY <1>2 DEF Sole, Publishes
  <2>3. GivesBack(s)'
    BY DEF Sole, GivesBack
  <2>q. QED
    BY <2>1, <2>2, <2>3
<1>q. QED
  BY <1>1, <1>3, <1>4 DEF Sole

\* A client writes as long as it has its handle, and drops it between commands.
LEMMA UserSole ==
  ASSUME PTypeOK, Sole, "overlap" \notin may, NEW i \in Imports, UserWrite(i) \/ UserDrop(i)
  PROVE  Sole'
<1>1. /\ UNCHANGED <<th, write, data, close_event, current_session, heap, port, server, main, pt, kind>>
      /\ client[i] = "user"
  BY DEF UserWrite, UserDrop, manager, kernel, pipeThread
<1>2. OneUser' /\ \A j \in Imports : Live(j)' <=> Live(j)
  BY <1>1, SameStage DEF Sole
<1>3. CASE UserWrite(i)
  <2>1. request' = request \union {i} /\ UNCHANGED client
    BY <1>3 DEF UserWrite
  <2>2. RequestsAreLive'
    BY <1>1, <2>1 DEF Sole, RequestsAreLive
  <2>3. TearingDown' <=> TearingDown
    BY <1>1, <2>1 DEF TearingDown, PipeThreadAlive
  <2>4. (\E s \in Sessions : th[s].pc \in Creating) => ~TearingDown'
    BY <2>3 DEF Sole, Begins
  <2>q. QED
    BY <1>1, <1>2, <2>1, <2>2, <2>4, SystemSole
<1>4. CASE UserDrop(i)
  <2>1. /\ i \notin request /\ client' = [client EXCEPT ![i] = "closed"] /\ UNCHANGED request
        /\ \A r \in Sessions : th[r].pc = "idle"
    BY <1>4 DEF UserDrop, Idle
  <2>2. client'[i] = "closed" /\ \A j \in Imports : j # i => client'[j] = client[j]
    BY <2>1 DEF PTypeOK
  <2>3. Alone' /\ RequestsAreLive' /\ Known'
    BY <1>1, <2>1, <2>2 DEF Sole, Alone, Idle, RequestsAreLive, Known, PTypeOK
  <2>4. Reached'
    BY <1>1, <1>2, <2>2 DEF Sole, Reached, Shown
  <2>5. \A r \in Sessions : Begins(r)' /\ Publishes(r)' /\ GivesBack(r)'
    BY <1>1, <2>1 DEF Begins, Publishes, GivesBack, Creating, Registered, Ending
  <2>q. QED
    BY <1>2, <2>3, <2>4, <2>5 DEF Sole
<1>q. QED
  BY <1>3, <1>4

\* AM_Main takes the one session that is queued, when nobody begins another.
LEMMA MainSole ==
  ASSUME PTypeOK, Sole, Main
  PROVE  Sole'
<1> USE ImportNumbers
<1>1. /\ UNCHANGED <<th, kind, client, write, data, heap, request>>
      /\ port # <<>> \/ main # "wait"
  BY DEF Main, AcceptPipe, FreeThread, StartThread, kernel
<1>2. \A s \in Sessions : th[s].pc \notin Creating
  BY <1>1 DEF Sole, Begins, TearingDown
<1>3. ~NoUser
  BY <1>1 DEF NoUser
<1>4. PICK i \in Imports : (Queued(i) \/ Accepted(i)) /\ OthersAreDone(i)
  BY <1>1, <1>3 DEF Sole, OneUser, Stage, Queued, Accepted, Starting, Served, Leaving
<1>5. /\ (Accepted(i) \/ Starting(i))'
      /\ \A j \in Imports : j # i => server'[j] = server[j]
      /\ server'[i] = "open" /\ server[i] \in {"pending", "open"}
  <2>1. CASE AcceptPipe
    <3>1. port = <<i>> /\ main = "wait" /\ ~PipeThreadAlive /\ server[i] = "pending"
      BY <1>4, <2>1 DEF AcceptPipe, Queued, Accepted
    <3>2. Head(port) = i /\ Tail(port) = <<>>
      BY <3>1
    <3>3. /\ current_session' = i /\ port' = <<>> /\ main' = "free" /\ pt' = pt
          /\ server' = [server EXCEPT ![i] = "open"]
      BY <2>1, <3>2 DEF AcceptPipe, pipeThread
    <3>4. server'[i] = "open" /\ \A j \in Imports : j # i => server'[j] = server[j]
      BY <3>3 DEF PTypeOK
    <3>q. QED
      BY <3>1, <3>3, <3>4 DEF Accepted, PipeThreadAlive
  <2>2. CASE FreeThread \/ StartThread
    <3>1. Accepted(i)
      BY <1>4, <2>2 DEF FreeThread, StartThread, Queued
    <3>2. (Accepted(i) \/ Starting(i))' /\ UNCHANGED server
      BY <2>2, <3>1 DEF FreeThread, StartThread, Accepted, Starting, PipeThreadAlive, kernel, pipeThread
    <3>q. QED
      BY <3>1, <3>2 DEF Accepted
  <2>q. QED
    BY <2>1, <2>2 DEF Main
<1>6. OneUser'
  BY <1>4, <1>5 DEF OneUser, Stage, OthersAreDone
<1>7. \A j \in Imports : Live(j)' => Live(j)
  BY <1>4, <1>5 DEF OthersAreDone, Live, Queued, Accepted, Starting, Served
<1>8. RequestsAreLive'
  <2>1. pt'.pc = "write" => pt.pc = "write"
    BY DEF Main, AcceptPipe, FreeThread, StartThread, pipeThread
  <2>2. pt.pc # "write"
    BY <1>4 DEF Queued, Accepted, PipeThreadAlive
  <2>q. QED
    BY <1>1, <2>1, <2>2 DEF Sole, RequestsAreLive
<1>9. \A j \in Imports : server'[j] = "none" <=> server[j] = "none"
  BY <1>5
<1>q. QED
  BY <1>1, <1>2, <1>6, <1>7, <1>8, <1>9, SystemSole

\* While it serves a session the pipe thread leaves no other thread's state alone
\* but the event; once it was told to leave nobody begins an import.
LEMMA PipeThreadSole ==
  ASSUME PTypeOK, PTypeOK', Sole, PipeThread
  PROVE  Sole'
<1> USE ImportNumbers
<1>1. UNCHANGED <<th, kind, client, port, main>> /\ PipeThreadAlive
  BY DEF PipeThread, SignalEvent, CaptureHandles, ReceiveWrite, ReplyWrite, ReceiveClosed,
         ReceiveCloseEvent, ReceivePanic, CloseSession, ZeroSession, FreeData, ClearData, ClearWrite,
         kernel, PipeThreadAlive
<1>2. PICK i \in Imports : (Starting(i) \/ Served(i) \/ Leaving(i)) /\ OthersAreDone(i)
  BY <1>1 DEF Sole, OneUser, NoUser, Stage, Queued, Accepted
<1>3. pt = [pc |-> pt.pc, mine |-> pt.mine] /\ pt' = [pc |-> pt'.pc, mine |-> pt'.mine]
  BY DEF PTypeOK
<1>4. TearingDown => \A s \in Sessions : th[s].pc \notin Creating
  BY DEF Sole, Begins
<1>5. server[i] # "none" /\ kind[i] # "none"
  BY <1>2 DEF Starting, Served, Leaving, Sole, Known
<1>6. CASE SignalEvent \/ CaptureHandles
  <2>1. UNCHANGED <<write, data, close_event, current_session, heap, server, request>>
    BY <1>6 DEF SignalEvent, CaptureHandles, manager, kernel
  <2>2. Starting(i)
    BY <1>2, <1>6 DEF SignalEvent, CaptureHandles, Served, Leaving, Closing
  <2>3. (Starting(i) \/ Served(i))' /\ pt'.pc # "write"
    BY <1>1, <1>3, <1>6, <2>1, <2>2 DEF SignalEvent, CaptureHandles, PtGoto, Starting, Served
  <2>4. OneUser'
    BY <1>2, <2>1, <2>3 DEF OneUser, Stage, OthersAreDone
  <2>5. \A j \in Imports : Live(j)' => Live(j)
    BY <1>2, <2>1, <2>2 DEF OthersAreDone, Live, Queued, Accepted, Starting, Served
  <2>6. RequestsAreLive'
    BY <1>1, <2>1, <2>3 DEF Sole, RequestsAreLive
  <2>7. TearingDown
    BY <1>6, <1>1 DEF SignalEvent, CaptureHandles, TearingDown
  <2>q. QED
    BY <1>1, <1>4, <2>1, <2>4, <2>5, <2>6, <2>7, SystemSole
<1>7. CASE ReceiveWrite \/ ReplyWrite
  <2>1. UNCHANGED <<write, data, close_event, current_session, heap, server>>
    BY <1>7 DEF ReceiveWrite, ReplyWrite, manager, kernel
  <2>2. Served(i) /\ pt.pc \in {"receive", "write"} /\ pt.mine = i
    BY <1>2, <1>7 DEF ReceiveWrite, ReplyWrite, Starting, Served, Leaving, Closing
  <2>3. /\ pt' = [pt EXCEPT !.pc = IF ReceiveWrite THEN "write" ELSE "receive"]
        /\ ReceiveWrite => i \in request /\ request' = request
        /\ ~ReceiveWrite => request' = request \ {i}
    <3>1. CASE ReceiveWrite
      <4>1. i \in request /\ request' = request
        BY <2>2, <3>1 DEF ReceiveWrite, kernel
      <4>2. write # "none"
        BY <1>5, <2>2, <4>1 DEF Sole, RequestsAreLive, Reached, Live, Shown
      <4>q. QED
        BY <3>1, <4>1, <4>2 DEF ReceiveWrite, PtGoto
    <3>2. CASE ~ReceiveWrite /\ ReplyWrite
      BY <2>2, <3>2 DEF ReplyWrite, PtGoto
    <3>q. QED
      BY <1>7, <3>1, <3>2
  <2>4. pt'.pc \in {"receive", "write"} /\ pt'.mine = i /\ (ReceiveWrite <=> pt'.pc = "write")
    BY <1>3, <2>2, <2>3
  <2>5. Served(i)'
    BY <1>1, <2>1, <2>2, <2>4 DEF Served
  <2>6. OneUser'
    BY <1>2, <2>1, <2>5 DEF OneUser, Stage, OthersAreDone
  <2>7. \A j \in Imports : Live(j)' => Live(j)
    BY <1>2, <2>1, <2>2 DEF OthersAreDone, Live, Queued, Accepted, Starting, Served
  <2>8. RequestsAreLive'
    BY <1>1, <2>3, <2>4 DEF Sole, RequestsAreLive
  <2>9. TearingDown' <=> TearingDown
    BY <1>1, <2>1, <2>2, <2>4 DEF TearingDown, PipeThreadAlive
  <2>10. (\E s \in Sessions : th[s].pc \in Creating) => ~TearingDown'
    BY <1>4, <2>9
  <2>q. QED
    BY <1>1, <2>1, <2>6, <2>7, <2>8, <2>10, SystemSole
<1>8. ~ReceivePanic
  BY <1>2 DEF ReceivePanic, HandleValid, Starting, Served, Leaving, Closing
<1>9. CASE ReceiveClosed \/ ReceiveCloseEvent
  <2>1. UNCHANGED <<write, data, current_session, heap, server, request>>
    BY <1>9 DEF ReceiveClosed, ReceiveCloseEvent, manager, kernel
  <2>2. Served(i) /\ TearingDown
    BY <1>1, <1>2, <1>9
    DEF ReceiveClosed, ReceiveCloseEvent, HandleValid, TearingDown, Starting, Served, Leaving, Closing
  <2>3. pt' = [pt EXCEPT !.pc = "close"]
    BY <1>9 DEF ReceiveClosed, ReceiveCloseEvent, PtGoto
  <2>4. Served(i)' /\ pt'.pc # "write"
    BY <1>1, <1>3, <2>1, <2>2, <2>3 DEF Served
  <2>5. OneUser'
    BY <1>2, <2>1, <2>4 DEF OneUser, Stage, OthersAreDone
  <2>6. \A j \in Imports : Live(j)' => Live(j)
    BY <1>2, <2>1, <2>2 DEF OthersAreDone, Live, Queued, Accepted, Starting, Served
  <2>7. RequestsAreLive'
    BY <1>1, <2>1, <2>4 DEF Sole, RequestsAreLive
  <2>q. QED
    BY <1>1, <1>4, <2>1, <2>2, <2>5, <2>6, <2>7, SystemSole
<1>10. CASE CloseSession \/ ZeroSession \/ FreeData \/ ClearData \/ ClearWrite
  <2>1. TearingDown
    BY <1>1, <1>10 DEF TearingDown, CloseSession, ZeroSession, FreeData, ClearData, ClearWrite
  <2>2. /\ Leaving(i)' \/ (pt'.pc = "exited" /\ current_session' = 0)
        /\ server'[i] = "closed" /\ \A j \in Imports : j # i => server'[j] = server[j]
        /\ \A j \in Imports : j \in request' => j \in request
    <3>1. CASE CloseSession
      <4>1. Served(i) /\ current_session = i /\ server[i] = "open"
        BY <1>2, <3>1 DEF CloseSession, Starting, Served, Leaving, Closing
      <4>2. HandleValid(current_session)
        BY <4>1 DEF HandleValid
      <4>3. /\ server' = [server EXCEPT ![i] = "closed"] /\ request' = request \ {i}
            /\ pt' = [pt EXCEPT !.pc = "zero"] /\ current_session' = i
        BY <3>1, <4>1, <4>2 DEF CloseSession, PtGoto, manager
      <4>4. server'[i] = "closed" /\ \A j \in Imports : j # i => server'[j] = server[j]
        BY <4>3 DEF PTypeOK
      <4>5. pt'.pc = "zero" /\ pt'.mine = pt.mine
        BY <1>3, <4>3
      <4>6. pt.mine = i /\ port = <<>> /\ main = "wait"
        BY <1>2, <3>1 DEF CloseSession, Starting, Served, Leaving, Closing
      <4>7. Leaving(i)'
        BY <1>1, <4>3, <4>4, <4>5, <4>6 DEF Leaving, Closing
      <4>8. \A j \in Imports : j \in request' => j \in request
        BY <4>3
      <4>q. QED
        BY <4>4, <4>7, <4>8
    <3>2. CASE ZeroSession \/ FreeData \/ ClearData \/ ClearWrite
      <4>1. Leaving(i)
        BY <1>2, <3>2 DEF ZeroSession, FreeData, ClearData, ClearWrite, Starting, Served
      <4>2. UNCHANGED <<server, request>>
        BY <3>2 DEF ZeroSession, FreeData, ClearData, ClearWrite, kernel
      <4>3. current_session' = 0
        BY <3>2, <4>1 DEF ZeroSession, FreeData, ClearData, ClearWrite, Leaving, manager
      <4>4. PICK l \in {"free", "clear_data", "clear_write", "exited"} : pt' = [pt EXCEPT !.pc = l]
        BY <3>2 DEF ZeroSession, FreeData, ClearData, ClearWrite, PtGoto
      <4>q. QED
        BY <1>1, <1>3, <4>1, <4>2, <4>3, <4>4 DEF Leaving, Closing
    <3>q. QED
      BY <1>10, <3>1, <3>2
  <2>3. OneUser'
    <3>1. CASE Leaving(i)'
      BY <1>2, <2>2, <3>1 DEF OneUser, Stage, OthersAreDone
    <3>2. CASE pt'.pc = "exited" /\ current_session' = 0
      <4>1. port = <<>> /\ main = "wait"
        BY <1>2 DEF Starting, Served, Leaving
      <4>q. QED
        BY <1>1, <1>2, <2>2, <3>2, <4>1 DEF OneUser, NoUser, OthersAreDone, PipeThreadAlive
    <3>q. QED
      BY <2>2, <3>1, <3>2
  <2>4. \A j \in Imports : ~Live(j)'
    BY <1>2, <2>2 DEF OthersAreDone, Live, Queued, Accepted, Starting, Served
  <2>5. RequestsAreLive'
    BY <1>1, <2>2 DEF Sole, RequestsAreLive, Leaving, Closing, PTypeOK
  <2>6. \A j \in Imports : server'[j] = "none" <=> server[j] = "none"
    BY <1>5, <2>2
  <2>q. QED
    BY <1>1, <1>4, <2>1, <2>3, <2>4, <2>5, <2>6, SystemSole
<1>q. QED
  BY <1>6, <1>7, <1>8, <1>9, <1>10 DEF PipeThread

\* As long as commands do not overlap, nobody has the pipe or one import has it;
\* what a title's end adds is that its handle may still be open.
SoleInv == PTypeOK /\ may \in Mays /\ ("overlap" \notin may => Sole)

\* At first nobody has the pipe.
LEMMA SoleInit == Init => SoleInv
<1> SUFFICES ASSUME Init PROVE SoleInv
  OBVIOUS
<1>1. PTypeOK
  BY PInitInv DEF PInv
<1>2. NoUser
  BY DEF Init, NoUser, PipeThreadAlive
<1>3. Sole
  BY <1>2 DEF Init, Sole, OneUser, Alone, Idle, RequestsAreLive, Reached, Known, Begins, Publishes, GivesBack,
              Creating, Registered, Ending
<1>q. QED
  BY <1>1, <1>3 DEF SoleInv, Init

\* Every step leaves it with nobody or with one import.
LEMMA SoleNext == SoleInv /\ [Next]_vars => SoleInv'
<1> SUFFICES ASSUME SoleInv, [Next]_vars PROVE SoleInv'
  OBVIOUS
<1>1. CASE UNCHANGED vars
  <2>1. UNCHANGED <<th, write, data, close_event, current_session, heap, port, client, server, request, main, pt, kind, may>>
    BY <1>1 DEF vars, manager, kernel, pipeThread
  <2>2. PTypeOK'
    BY <1>1 DEF SoleInv, PTypeOK, ThreadsTyped, vars, manager, kernel, pipeThread
  <2>3. ASSUME Sole PROVE Sole'
    <3>1. OneUser' /\ \A j \in Imports : Live(j)' <=> Live(j)
      BY <2>1, <2>3, SameStage DEF Sole
    <3>2. TearingDown' <=> TearingDown
      BY <2>1 DEF TearingDown, PipeThreadAlive
    <3>3. RequestsAreLive'
      BY <2>1, <2>3 DEF Sole, RequestsAreLive
    <3>4. (\E s \in Sessions : th[s].pc \in Creating) => ~TearingDown'
      BY <2>3, <3>2 DEF Sole, Begins
    <3>q. QED
      BY <2>1, <2>3, <3>1, <3>3, <3>4, SystemSole DEF SoleInv
  <2>q. QED
    BY <2>1, <2>2, <2>3 DEF SoleInv
<1>2. CASE Next
  <2>1. PTypeOK /\ PTypeOK' /\ may' = may
    BY <1>2, PTyping, MayIsFixed DEF SoleInv
  <2>2. ASSUME "overlap" \notin may PROVE Sole'
    <3>1. Sole
      BY <2>2 DEF SoleInv
    <3>2. ASSUME NEW s \in Sessions, Client(s) \/ Create(s) \/ End(s) PROVE Sole'
      BY <2>1, <2>2, <3>1, <3>2, ClientSole, CreateSole, EndSole
    <3>3. ASSUME NEW i \in Imports, UserWrite(i) \/ UserDrop(i) PROVE Sole'
      BY <2>1, <2>2, <3>1, <3>3, UserSole
    <3>4. CASE Main
      BY <2>1, <3>1, <3>4, MainSole
    <3>5. CASE PipeThread
      BY <2>1, <3>1, <3>5, PipeThreadSole
    <3>q. QED
      BY <1>2, <3>2, <3>3, <3>4, <3>5 DEF Next
  <2>q. QED
    BY <2>1, <2>2 DEF SoleInv
<1>q. QED
  BY <1>1, <1>2

\* Unless commands overlap the pipe is nobody's or one import's, whatever clients
\* drop and whatever titles are ended with the handle open.
THEOREM SoleInvariance == Spec => []SoleInv
BY SoleInit, SoleNext, PTL DEF Spec

\* The pipe thread's receive and close find their handles open, and a write finds
\* its function, as long as commands do not overlap.
THEOREM PipeThreadIsSafe == Spec => []PipeThreadNeverPanics
<1>1. SoleInv => PipeThreadNeverPanics
  <2> SUFFICES ASSUME Sole PROVE NeverPanics
    BY DEF SoleInv, PipeThreadNeverPanics
  <2>1. NoUser \/ \E i \in Imports : Stage(i)
    BY DEF Sole, OneUser
  <2>q. QED
    BY <2>1 DEF NeverPanics, NoUser, Stage, Queued, Accepted, Starting, Served, Leaving, Closing, PipeThreadAlive
<1>q. QED
  BY <1>1, SoleInvariance, PTL

-----------------------------------------------------------------------------
(* The pipe that PipeManager implements *)

\* What ImportPipe sees of the places an import goes through.
View ==
  /\ NoUser => Users = {}
  /\ \A i \in Imports : Stage(i) /\ OthersAreDone(i) => Users = {i}
  /\ Serving = IF pt.pc = "write" THEN pt.mine ELSE 0

\* Who has the pipe is its user, and whose session is served finds its own data.
LEMMA SoleView == PTypeOK /\ Sole => View
<1> SUFFICES ASSUME PTypeOK, Sole PROVE View
  OBVIOUS
<1>1. ASSUME NoUser PROVE Users = {}
  BY <1>1 DEF NoUser, Users, PipeThreadAlive
<1>2. ASSUME NEW i \in Imports, Stage(i), OthersAreDone(i) PROVE Users = {i}
  <2>1. i \in Users
    BY <1>2 DEF Users, Stage, Queued, Accepted, Starting, Served, Leaving, Closing
  <2>2. ASSUME NEW j \in Users PROVE j = i
    <3>1. CASE server[j] \in {"pending", "open"}
      BY <1>2, <2>2, <3>1 DEF Users, OthersAreDone
    <3>2. CASE pt.mine = j /\ pt.pc \in Closing
      BY <1>2, <3>2 DEF Stage, Queued, Accepted, Starting, Served, Leaving, Closing, PipeThreadAlive
    <3>q. QED
      BY <2>2, <3>1, <3>2 DEF Users, Closing
  <2>q. QED
    BY <2>1, <2>2
<1>3. Serving = IF pt.pc = "write" THEN pt.mine ELSE 0
  <2>1. CASE pt.pc = "write"
    <3>1. PICK i \in Imports : Served(i)
      BY <2>1 DEF Sole, OneUser, NoUser, Stage, Queued, Accepted, Starting, Leaving, Closing, PipeThreadAlive
    <3>2. pt.mine = i /\ client[i] = "user"
      BY <2>1, <3>1 DEF Sole, RequestsAreLive, Served
    <3>3. write = kind[i] /\ (kind[i] = "cia" => i \in heap /\ data = i)
      BY <3>1, <3>2 DEF Sole, Reached, Live, Shown
    <3>q. QED
      BY <2>1, <3>2, <3>3 DEF Serving
  <2>q. QED
    BY <2>1 DEF Serving
<1>q. QED
  BY <1>1, <1>2, <1>3 DEF View

\* Steps that no other import could notice.
LEMMA SamePipe ==
  ASSUME PTypeOK, View, View', UNCHANGED <<may, server, pt>>,
         \A j \in Imports : client'[j] = "closed" <=> client[j] = "closed"
  PROVE  UNCHANGED ImportPipe!pipevars
<1>1. Users' = Users
  BY DEF Users
<1>2. Serving' = Serving
  BY DEF View
<1>3. (\E i \in Users : client[i] = "closed")' <=> \E i \in Users : client[i] = "closed"
  BY <1>1 DEF Users
<1>q. QED
  BY <1>1, <1>2, <1>3 DEF ImportPipe!pipevars

\* A handle is closed once.
LEMMA HandleCloses ==
  ASSUME PTypeOK, Sole, View, View', UNCHANGED <<may, server, pt>>, NEW i \in Imports,
         client[i] \in {"am", "user"}, client' = [client EXCEPT ![i] = "closed"]
  PROVE  [ImportPipe!Next]_(ImportPipe!pipevars)
<1>1. client'[i] = "closed" /\ \A j \in Imports : j # i => client'[j] = client[j]
  BY DEF PTypeOK
<1>2. Users' = Users /\ Serving' = Serving
  BY DEF Users, View
<1>3. Users = {} \/ \E k \in Imports : Users = {k}
  BY DEF Sole, OneUser, View
<1>4. CASE i \in Users
  <2>1. Users = {i}
    BY <1>3, <1>4
  <2>2. ImportPipe!Close
    BY <1>1, <1>2, <2>1 DEF ImportPipe!Close
  <2>q. QED
    BY <2>2 DEF ImportPipe!Next
<1>5. CASE i \notin Users
  <2>1. (\E j \in Users : client[j] = "closed")' <=> \E j \in Users : client[j] = "closed"
    BY <1>1, <1>2, <1>5 DEF Users
  <2>q. QED
    BY <1>2, <2>1 DEF ImportPipe!pipevars
<1>q. QED
  BY <1>4, <1>5

\* A session's thread registers an import when the pipe is nobody's, and closes the
\* handle it was given.
LEMMA ThreadPipe ==
  ASSUME PTypeOK, Sole, Sole', View, View', may' = may, NEW s \in Sessions, Client(s) \/ Create(s) \/ End(s)
  PROVE  [ImportPipe!Next]_(ImportPipe!pipevars)
<1>0. PICK n : n = th[s].id
  OBVIOUS
<1>1. CASE CreateSession(s) /\ server' # server
  <2>1. th[s].pc = "connect" /\ n \in Imports
    BY <1>0, <1>1, HasImport DEF CreateSession, PTypeOK, Creating
  <2>2. /\ ~PortFull /\ UNCHANGED <<pt, write, data, heap, kind>>
        /\ client' = [client EXCEPT ![n] = "am"] /\ server' = [server EXCEPT ![n] = "pending"]
    BY <1>0, <1>1 DEF CreateSession, manager, pipeThread
  <2>3. /\ client'[n] = "am" /\ server'[n] = "pending"
        /\ \A j \in Imports : j # n => server'[j] = server[j]
    BY <2>1, <2>2 DEF PTypeOK
  <2>4. ~TearingDown
    BY <2>1 DEF Sole, Begins, Creating
  <2>5. Users = {}
    BY <2>2, <2>4 DEF Users, PortFull, TearingDown, PipeThreadAlive
  <2>6. Users' = {n}
    <3>1. n \in Users'
      BY <2>1, <2>3 DEF Users
    <3>2. ASSUME NEW j \in Users' PROVE j = n
      BY <2>2, <2>3, <2>5, <3>2 DEF Users
    <3>q. QED
      BY <3>1, <3>2
  <2>7. Serving' = Serving
    BY <2>2 DEF View
  <2>8. ImportPipe!Register(n)
    BY <2>1, <2>3, <2>5, <2>6, <2>7 DEF ImportPipe!Register
  <2>q. QED
    BY <2>1, <2>8 DEF ImportPipe!Next
<1>2. CASE CloseHandle(s)
  <2>1. n \in Imports /\ client[n] = "am"
    BY <1>0, <1>2, HasImport DEF CloseHandle, Sole, GivesBack, PTypeOK, Ending
  <2>2. client' = [client EXCEPT ![n] = "closed"] /\ UNCHANGED <<server, pt>>
    BY <1>0, <1>2 DEF CloseHandle, pipeThread
  <2>q. QED
    BY <2>1, <2>2, HandleCloses
<1>3. CASE SendHandle(s) \/ \E i \in Imports, l \in {"finish_cia", "close_media", "cancel_cia", "close"} : EndImport(s, i, l)
  <2>1. UNCHANGED <<server, pt>>
    BY <1>3 DEF SendHandle, EndImport, pipeThread
  <2>2. PICK i \in Imports, to \in {"am", "user"} :
           client[i] \in {"am", "user"} /\ client' = [client EXCEPT ![i] = to]
    <3>1. CASE SendHandle(s)
      <4>1. n \in Imports /\ client[n] = "am"
        BY <1>0, <3>1, HasImport DEF SendHandle, Sole, Publishes, PTypeOK, Registered
      <4>q. QED
        BY <1>0, <3>1, <4>1 DEF SendHandle
    <3>q. QED
      BY <1>3, <3>1 DEF EndImport
  <2>3. \A j \in Imports : client'[j] = "closed" <=> client[j] = "closed"
    BY <2>2 DEF PTypeOK
  <2>q. QED
    BY <2>1, <2>3, SamePipe
<1>4. CASE UNCHANGED <<client, server, pt>>
  BY <1>4, SamePipe
<1>5. Client(s) => UNCHANGED <<client, server, pt>> \/
        \E i \in Imports, l \in {"finish_cia", "close_media", "cancel_cia", "close"} : EndImport(s, i, l)
  BY DEF Client, BeginImport, TitleBegin, TitleEnd, kernel, pipeThread
<1>6. Create(s) => UNCHANGED <<client, server, pt>> \/ SendHandle(s) \/ (CreateSession(s) /\ server' # server)
  <2>1. CASE CreateSession(s) /\ server' = server
    <3>1. UNCHANGED <<client, server, pt>> \/ (/\ ~PortFull /\ server' = [server EXCEPT ![th[s].id] = "pending"])
      BY <2>1 DEF CreateSession, pipeThread
    <3>2. th[s].id \in Imports
      BY <2>1, HasImport DEF CreateSession, PTypeOK, Creating
    <3>3. CASE ~PortFull /\ server' = [server EXCEPT ![th[s].id] = "pending"]
      <4>1. server'[th[s].id] = "pending" /\ server[th[s].id] # "pending"
        BY <3>2, <3>3 DEF PortFull, PTypeOK
      <4>q. QED
        BY <2>1, <4>1
    <3>q. QED
      BY <3>1, <3>3
  <2>q. QED
    BY <2>1 DEF Create, CreateLock, CreateInit, PublishWrite, PublishData, WaitEvent, CreateFailed, kernel, pipeThread
<1>7. End(s) => UNCHANGED <<client, server, pt>> \/ CloseHandle(s)
  BY DEF End, CheckWrite, CancelData, CancelUse, ResetInit, ReadMedia, FinishData, FinishUse, ExitLock,
         ExitSignal, ExitThread, ExitWait, kernel, pipeThread
<1>q. QED
  BY <1>1, <1>2, <1>3, <1>4, <1>5, <1>6, <1>7

\* AM_Main changes where the session is, not whose it is.
LEMMA MainPipe ==
  ASSUME PTypeOK, Sole, View, View', may' = may, Main
  PROVE  [ImportPipe!Next]_(ImportPipe!pipevars)
<1>1. UNCHANGED client /\ pt.pc \notin Closing \union {"write"} /\ pt'.pc \notin Closing \union {"write"}
  <2>1. port # <<>> \/ main # "wait"
    BY DEF Main, AcceptPipe, FreeThread, StartThread
  <2>2. ~PipeThreadAlive
    BY <2>1 DEF Sole, OneUser, NoUser, Stage, Queued, Accepted, Starting, Served, Leaving
  <2>q. QED
    BY <2>2 DEF Main, AcceptPipe, FreeThread, StartThread, PipeThreadAlive, Closing, kernel, pipeThread
<1>2. \A j \in Imports : server'[j] \in {"pending", "open"} <=> server[j] \in {"pending", "open"}
  <2>1. CASE AcceptPipe
    <3>1. PICK i \in Imports : port = <<i>> /\ server[i] = "pending"
      BY <2>1 DEF AcceptPipe, Sole, OneUser, NoUser, Stage, Queued, Accepted, Starting, Served, Leaving
    <3>2. Head(port) = i
      BY <3>1
    <3>q. QED
      BY <2>1, <3>1, <3>2 DEF AcceptPipe, PTypeOK
  <2>q. QED
    BY <2>1 DEF Main, FreeThread, StartThread, kernel
<1>3. Users' = Users
  BY <1>1, <1>2 DEF Users, Closing
<1>4. Serving' = Serving
  BY <1>1 DEF View
<1>5. (\E i \in Users : client[i] = "closed")' <=> \E i \in Users : client[i] = "closed"
  BY <1>1, <1>3 DEF Users
<1>q. QED
  BY <1>3, <1>4, <1>5 DEF ImportPipe!pipevars

\* The pipe thread serves the writes of the import that has the pipe, and leaves
\* when its handle was closed, or else a title was stopped.
LEMMA PipeThreadPipe ==
  ASSUME PTypeOK, PTypeOK', Sole, Sole', View, View', PInv, "overlap" \notin may, may' = may, PipeThread
  PROVE  [ImportPipe!Next]_(ImportPipe!pipevars)
<1> USE ImportNumbers
<1>1. UNCHANGED <<client, port, main>> /\ PipeThreadAlive
  BY DEF PipeThread, SignalEvent, CaptureHandles, ReceiveWrite, ReplyWrite, ReceiveClosed,
         ReceiveCloseEvent, ReceivePanic, CloseSession, ZeroSession, FreeData, ClearData, ClearWrite,
         kernel, PipeThreadAlive
<1>2. PICK i \in Imports : (Starting(i) \/ Served(i) \/ Leaving(i)) /\ OthersAreDone(i)
  BY <1>1 DEF Sole, OneUser, NoUser, Stage, Queued, Accepted
<1>3. Users = {i} /\ port = <<>> /\ main = "wait"
  BY <1>2 DEF View, Stage, Starting, Served, Leaving
<1>4. pt = [pc |-> pt.pc, mine |-> pt.mine] /\ pt' = [pc |-> pt'.pc, mine |-> pt'.mine]
  BY DEF PTypeOK
<1>5. ASSUME PipeThreadAlive' PROVE Users' = {i}
  <2>1. PICK k \in Imports : Stage(k)' /\ OthersAreDone(k)'
    BY <1>5 DEF Sole, OneUser, NoUser
  <2>2. Users' = {k}
    BY <2>1 DEF View
  <2>3. CASE server' = server /\ ~Leaving(i)
    BY <1>2, <2>1, <2>2, <2>3 DEF Starting, Served, OthersAreDone
  <2>4. CASE server' # server \/ Leaving(i)
    <3>1. CloseSession \/ ZeroSession \/ FreeData \/ ClearData \/ ClearWrite
      BY <1>2, <2>4 DEF PipeThread, SignalEvent, CaptureHandles, ReceiveWrite, ReplyWrite, ReceiveClosed,
         ReceiveCloseEvent, ReceivePanic, Leaving, Closing, kernel
    <3>2. pt.mine = i
      BY <1>2, <3>1 DEF CloseSession, ZeroSession, FreeData, ClearData, ClearWrite, Starting, Served, Leaving
    <3>3. PICK l \in Closing \union {"panic", "exited"} : pt' = [pt EXCEPT !.pc = l]
      BY <3>1 DEF CloseSession, ZeroSession, FreeData, ClearData, ClearWrite, PtGoto, Closing
    <3>4. pt'.pc \in Closing \union {"panic"} /\ pt'.mine = i
      BY <1>4, <1>5, <3>2, <3>3 DEF PipeThreadAlive
    <3>5. k = i
      BY <2>1, <3>4 DEF Stage, Queued, Accepted, Starting, Served, Leaving, Closing, PipeThreadAlive
    <3>q. QED
      BY <2>2, <3>5
  <2>q. QED
    BY <2>3, <2>4
<1>6. CASE ReceiveWrite \/ ReplyWrite
  <2>1. Served(i) /\ pt.mine = i /\ client[i] = "user"
    BY <1>2, <1>6 DEF ReceiveWrite, ReplyWrite, Starting, Served, Leaving, Closing, Sole, RequestsAreLive
  <2>2. pt' = [pt EXCEPT !.pc = pt'.pc] /\ pt'.mine = i
    BY <1>4, <1>6, <2>1 DEF ReceiveWrite, ReplyWrite, PtGoto
  <2>3. pt'.pc \in {"receive", "write", "fault"}
    BY <1>4, <1>6 DEF ReceiveWrite, ReplyWrite, PtGoto
  <2>4. Users' = {i}
    BY <1>5, <2>3 DEF PipeThreadAlive
  <2>5. pt'.pc # "fault"
    BY <2>3, <2>4 DEF Sole, OneUser, NoUser, Stage, Queued, Accepted, Starting, Served, Leaving, Closing, PipeThreadAlive
  <2>6. CASE ReceiveWrite
    <3>1. Serving = 0 /\ Serving' = i
      BY <1>4, <2>2, <2>3, <2>5, <2>6 DEF View, ReceiveWrite, PtGoto
    <3>2. ImportPipe!Serve(i)
      BY <1>1, <1>3, <2>1, <2>4, <3>1 DEF ImportPipe!Serve
    <3>q. QED
      BY <3>2 DEF ImportPipe!Next
  <2>7. CASE ReplyWrite
    <3>1. Serving = i /\ Serving' = 0
      BY <1>4, <2>1, <2>7 DEF View, ReplyWrite, PtGoto
    <3>2. ImportPipe!Answer
      BY <1>1, <1>3, <2>1, <2>4, <3>1 DEF ImportPipe!Answer
    <3>q. QED
      BY <3>2 DEF ImportPipe!Next
  <2>q. QED
    BY <1>6, <2>6, <2>7
<1>7. CASE ~ReceiveWrite /\ ~ReplyWrite
  <2>1. pt.pc # "write" /\ pt'.pc # "write"
    BY <1>4, <1>7 DEF PipeThread, SignalEvent, CaptureHandles, ReceiveClosed, ReceiveCloseEvent, ReceivePanic,
       CloseSession, ZeroSession, FreeData, ClearData, ClearWrite, PtGoto
  <2>2. Serving = 0 /\ Serving' = 0
    BY <2>1 DEF View
  <2>3. CASE PipeThreadAlive'
    BY <1>1, <1>3, <1>5, <2>2, <2>3 DEF ImportPipe!pipevars
  <2>4. CASE ~PipeThreadAlive'
    <3>1. Leaving(i)
      BY <1>2, <1>4, <1>7, <2>4 DEF PipeThread, SignalEvent, CaptureHandles, ReceiveClosed, ReceiveCloseEvent,
         ReceivePanic, CloseSession, ZeroSession, FreeData, ClearData, ClearWrite, PtGoto, PipeThreadAlive,
         Starting, Served
    <3>2. NoUser'
      BY <1>1, <1>3, <2>4 DEF Sole, OneUser, Stage, Queued, Accepted, Starting, Served, Leaving, Closing, PipeThreadAlive
    <3>3. Users' = {}
      BY <3>2 DEF View
    <3>4. "end_title" \in may \/ client[i] = "closed"
      <4>1. CASE "end_title" \notin may
        <5>1. OneAfterAnother
          BY <4>1 DEF OneAfterAnother
        <5>2. PICK k \in Imports : Has(k)
          BY <1>1, <5>1 DEF PInv, InTurn, Empty
        <5>3. k = i /\ pt.pc \in Closing
          BY <3>1, <5>2 DEF Has, Stage, Queued, Accepted, Starting, Served, Leaving, Closing, PipeThreadAlive
        <5>q. QED
          BY <5>2, <5>3 DEF Has
      <4>q. QED
        BY <4>1
    <3>5. ImportPipe!TearDown
      BY <1>3, <2>2, <3>3, <3>4 DEF ImportPipe!TearDown
    <3>q. QED
      BY <3>5 DEF ImportPipe!Next
  <2>q. QED
    BY <2>3, <2>4
<1>q. QED
  BY <1>6, <1>7

\* As long as commands do not overlap, all that session threads, AM_Main and the
\* pipe thread do to g_PipeManager is a pipe that one import has at a time: whatever
\* clients drop and whatever titles are ended, its writes reach its own data,
\* none is served after its handle was closed, and none while it is torn down.
THEOREM PipeIsImplemented ==
  ASSUME \A m \in Mays : "overlap" \notin m
  PROVE  Spec => ImplementsPipe
<1>1. Init => ImportPipe!Init
  <2> SUFFICES ASSUME Init PROVE ImportPipe!Init
    OBVIOUS
  <2>1. Users = {} /\ Serving = 0
    BY DEF Init, Users, Serving
  <2>q. QED
    BY <2>1 DEF ImportPipe!Init
<1>2. SoleInv => Sole /\ View /\ PTypeOK /\ "overlap" \notin may
  BY SoleView DEF SoleInv
<1>3. SoleInv /\ SoleInv' /\ View' /\ PInv /\ [Next]_vars => [ImportPipe!Next]_(ImportPipe!pipevars)
  <2> SUFFICES ASSUME SoleInv, SoleInv', View', PInv, [Next]_vars
               PROVE  [ImportPipe!Next]_(ImportPipe!pipevars)
    OBVIOUS
  <2>1. Sole /\ View /\ PTypeOK /\ PTypeOK' /\ "overlap" \notin may
    BY <1>2 DEF SoleInv
  <2>2. Sole'
    BY DEF SoleInv
  <2>3. CASE UNCHANGED vars
    BY <2>1, <2>3, SamePipe DEF vars, kernel, pipeThread
  <2>4. CASE Next
    <3>1. may' = may
      BY <2>4, MayIsFixed
    <3>2. ASSUME NEW s \in Sessions, Client(s) \/ Create(s) \/ End(s)
          PROVE  [ImportPipe!Next]_(ImportPipe!pipevars)
      BY <2>1, <2>2, <3>1, <3>2, ThreadPipe
    <3>3. ASSUME NEW i \in Imports, UserWrite(i) \/ UserDrop(i)
          PROVE  [ImportPipe!Next]_(ImportPipe!pipevars)
      <4>1. CASE UserWrite(i)
        BY <2>1, <3>1, <4>1, SamePipe DEF UserWrite, pipeThread
      <4>2. CASE UserDrop(i)
        BY <2>1, <3>1, <4>2, HandleCloses DEF UserDrop, pipeThread
      <4>q. QED
        BY <3>3, <4>1, <4>2
    <3>4. CASE Main
      BY <2>1, <3>1, <3>4, MainPipe
    <3>5. CASE PipeThread
      BY <2>1, <2>2, <3>1, <3>5, PipeThreadPipe
    <3>q. QED
      BY <2>4, <3>2, <3>3, <3>4, <3>5 DEF Next
  <2>q. QED
    BY <2>3, <2>4
<1>q. QED
  BY <1>1, <1>2, <1>3, SoleInvariance, PInvariance, PTL DEF Spec, ImplementsPipe, ImportPipe!Spec
=============================================================================
