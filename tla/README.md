# A verification development for 3ds_am

`3ds_am` reimplements the ARM11 side of AM, the Nintendo 3DS system module that
installs titles. It serves up to five client sessions and one import pipe with a
thread each, hands the cryptographic work to AM9 on the other processor, and
keeps a small database of demo launches. The code has no tests. This directory
holds TLA+ modules of the parts whose correctness depends on the order in which
things happen, the TLC configurations that check them on small instances, and
proofs for any number of threads, sessions and imports, any files and any limits.

Paths are relative to `src/`; `pipe.c:750` is line 750 of `source/am/pipe.c`.

## 1. The system

| component | state | operations | with whom |
|---|---|---|---|
| synchronization (`source/3ds/synchronization.c`) | lock word; tag and counter; event word | LightLock, RecursiveLock, LightEvent | everybody; the kernel's address arbiter |
| session manager (`source/main.c`) | `AM_SessionsData`, stacks, five service handles | accept, `getNewSessionData`, `tmain`, termination | clients, service manager |
| pipe manager (`pipe.c:671-931`, `pipe_tmain`, handlers in `ipc.c`) | `g_PipeManager` | begin, write, finish, cancel and tear down an import | session threads, main thread, pipe thread |
| CIA installation (`pipe.c:7-669`) | `CIAInstallData` | `AM_Pipe_CIA_Write`; 0x0404 to 0x0406 | AM9 |
| demo database (`source/am/demodb.c`) | a file in the save data, its header in memory | initialize, launch right, launch infos, clear, close | session threads, file system, AM9 |
| allocator (`source/allocator.c`) | one array of words, a linked free list | `meminit`, `malloc`, `free` | everybody |
| title, ticket, TMD and content commands (`ipc.c`, 0x0801 to 0x0829) | `importing_title` of the session; what AM9 has open | begin, stop, cancel, finish, commit | pipe manager, AM9 |
| readers (`source/am/cia.c`) | `min_tmd` and `g_TMDReader_Lock` | infos, sizes and metadata of CIA files | file system |
| TWL import (`source/am/twlexport.c`) | one buffer, section by section; what AM9 has open | import a backup, read its information | AM9, file system |
| firm selection, context sizes (`ipc.c`) | none; the installed titles and the FIRM partitions are AM9's | commit with a FIRM, update the FIRM, size of DLC | AM9 |
| IPC dispatch and queries (`ipc.c`) | none of their own | check a header, call AM9, copy the answer | AM9 |
| AM9, FS, SRV and error clients (`source/3ds`) | a session handle each | one request each | other processes |
| SHA-256, assembly, helpers, export script | none | - | - |

How they interact. Each session has a thread that runs `tmain` and answers its
client's commands one at a time. A command that begins an import creates a
session to AM's own pipe port and returns its client end. The main thread sees
the port, accepts the other end, waits for the last pipe thread, and starts a
new one. The client's writes then go to the pipe thread, which feeds them to AM9
through the write function in `g_PipeManager`. Ending an import closes the
handle; the pipe thread notices and tears the import down. All of these threads
meet in `g_PipeManager`, most of whose fields are read and written without its
lock; that is the hardest part of the program and the first thing modelled.

What is hard, and what makes each part correct:

- *Synchronization*: interleavings of LDREX and STREX, wake-ups that get lost, a
  tag read without the lock. At most one holder; no waiter forgotten; the
  recursive lock is a reentrant lock; one signal lets one waiter return.
- *Pipe manager*: three kinds of threads on the same fields, a flag set before
  the work it announces, a one-shot event and a thread handle that outlive their
  import, waits inside a lock. One import at a time; writes reach their own
  import; nothing left behind; commands return.
- *CIA installation*: a parser fed in chunks of any size, writes that must be
  whole AES blocks, batches, and an AM9 that may refuse any call. The right bytes
  to AM9; flags that say what to cancel; no loop without progress.
- *Session manager*: a place is given away by a thread that still runs on its
  stack; more places than stacks. No shared stacks; no thread answers another's
  session; the shutdown ends.
- *Title commands*: one title open in AM9 for the whole system, one flag a session
  to know whose it is, and a request that AM9 may refuse between them. The flag
  means the session's own title; nothing stays open that no client can end.
- *Demo database*: read-modify-write by several sessions, loss of power between
  writes, a ring that wraps. In memory and after any crash each title once, with
  its own count, under a header that covers it; limits kept.
- *Allocator*: sizes and links inside the memory it manages. Nothing given out
  twice, nothing lost.
- *Readers*: every thread's TMD in the same static structure, a lock taken twice
  and released on some returns only, sizes rounded in 32 bits. Each answer is
  about the file that was asked about, and is right; each question is answered.
- *TWL import*: offsets that depend on all sizes before them, three formats, two
  levels of cancelling, one open title in AM9 for all sessions. Everything or
  nothing; nobody else's title cancelled; every good backup accepted.
- *Firm selection*: chosen from a list that other sessions change, among what is
  installed and what is about to be. Never an older FIRM, none missed.

`PROJECT.json` lists every hazard at its line, with the properties that cover it.

## 2. The modules

| module | models | is used by |
|---|---|---|
| `LightLock` | `LightLock_Lock` and `_Unlock`, one memory access a step | `RecursiveLock` |
| `RecursiveLock` | `RecursiveLock_*`; every LightLock step is one of its steps | - |
| `ReentrantLock` | what RecursiveLock promises | refined by `RecursiveLock`; used by `CIAReader` |
| `LightEvent` | `LightEvent_Wait` and `_Signal`, one memory access a step | - |
| `Event` | what a one-shot event promises | refined by `LightEvent` |
| `PipeManager` | imports: session threads, main thread, pipe thread, clients | - |
| `Pipe` | what the import pipe promises to the commands | refined by `PipeManager` and by `TitleImport` |
| `CIAInstall` | `AM_Pipe_CIA_Write`, cancel and finish | - |
| `TitleImport` | commands 0x0801 to 0x0812, 0x0828 and the CIA commands, over AM9 and the pipe | - |
| `SessionManager` | `AM_Main`, the table of sessions, `tmain`, termination | - |
| `DemoDatabase` | the demo database, with crashes | - |
| `Allocator` | `malloc` and `free` | - |
| `Heap` | what an allocator promises | refined by `Allocator` |
| `CIAReader` | `cia.c` and its seven commands, `AMNet_CalculateContextRequiredSize`, over `ReentrantLock` | - |
| `TWLImport` | `AM_ImportTWLBackup`, `AM_ReadTWLBackupInfo`, over AM9 | - |
| `FirmUpgrade` | commits with a FIRM, update of the FIRM, over AM9 | - |
| `MC...` | instances of the above for TLC | - |
| `PipeManagerProofs`, `CIAInstallProofs`, `TitleImportProofs`, `SessionManagerProofs`, `DemoDatabaseProofs` | theorems about the module they are named for | - |
| `RecursiveLockProofs` | theorems about `LightLock` and `RecursiveLock` | - |
| `RuntimeProofs` | theorems about `LightEvent` and `Allocator` | - |
| `SessionCommandsProofs` | theorems about `TWLImport`, `FirmUpgrade` and `CIAReader` | - |

Definitions keep the names of the source where they can. Operators named `Bug...`
are wrong variants of the definition after them; no specification uses them. They
show that each property depends on the code it is about.

**LightLock.** `lock` is the word (1 free, negative held, its size counts the
waiters). `reserved` is the exclusive monitor: a store succeeds while the
thread's reservation stands and breaks everyone's; `LoseReservation` is a context
switch. `pc` names the load, store or arbiter call a thread is at. Waiting in the
arbiter compares and sleeps in one step, as the kernel does.

**RecursiveLock.** Extends LightLock: `EnterLight` and `LeaveLight` call it and
`LightStep` is any of its steps. `nest` is not in the code: it is how often the
thread has locked, against which the tag is compared.

**LightEvent.** The one event of the program is never initialised. Its memory is
zero, which is `SIGNALED_ONESHOT`; the sticky states cannot occur and are left
out.

**PipeManager.** A step is the code between two points where another thread can
see a difference: kernel calls and accesses to shared fields. The manager's
recursive lock is one variable here (its implementation is the business of
`RecursiveLock`), and the event one value (`LightEvent`). An import is a number,
which also names its session and its `CIAInstallData`; `heap` is the set of those
that are allocated. Of the write functions only the call and the return are
modelled (`CIAInstall` has the rest). `may` is chosen at the start and tells what
the environment does beside the plain protocol: overlap of commands, dropped
handles, titles ended with the handle open, `svcCreateSessionToPort` failing. The
runs choose sets of such environments. The port is created for one session
(`main.c:311`), which the kernel counts until the server end is closed.
`UseData` is a use of the pointer that 0x0404, 0x0405 and 0x0406 take from
`g_PipeManager.data`: null is a data abort (`fault`), and memory that the pipe thread
has freed is one or is not. 0x0406 is taken to read `c->media` whenever it passes it on.
A data abort ends the module; in the model the other threads go on, and what comes after
one is named in the properties (`Faulted`). The wait of `AM_Pipe_EnsureThreadExit` is
three steps: the signal, the read of the thread handle, the wait for that thread.

**Pipe.** One import has the pipe from its registration to the end of its teardown;
its writes are served one by one, with its own function and data, none after its
handle was closed; and it is torn down between writes, after its handle was closed
or a title was stopped. `PipeManager` maps to it whose session is open or not
forgotten, and a write that would find another's function or data to nobody
(`Serving`); `TitleImport` maps its variable `pipe`. Both implement the same
module, so that what `TitleImport` takes for granted of who has the pipe is what
the parts of the manager do. Not in it: that `AM_Pipe_EnsureThreadExit` has waited
when it returns, which it need not have (section 5).

**CIAInstall.** A byte is its position in the file, so what AM9 was given is a
sequence of positions. One pass of the loop around the switch is one step, with
all its AM9 calls; `BeginFails`, `Fails` and the last three disjuncts of
`ContentSetup` let any of them fail, with the effects of the earlier ones.
`Blocks` is the handling of AES blocks that TMD and contents share, with the one
difference between the two copies in the code as a parameter (`guard`). A file is a
record of the sizes of its parts with `con`, the sizes of its contents by index, 0
for one that is not in it, and `at`, where each begins. `WellFormed` says what the
format (`format.h`) and the code make of these: each part and content is aligned after
the one before; contents, which are encrypted, are whole blocks, and so is the TMD
header the code reads (`pipe.c:243`).

**TitleImport.** `title` and `part` are AM9's: the open title and who began each
open part of it. `importing_title` and `media` are AM's, `handle` is what the
client has been given, `pipe` the import that has the pipe. The pipe is taken at
its promise, one import at a time (`PipeManager`), with those of its steps that
another command can come between: the flag `init`, the close event, the start of the
pipe thread (`StartPipeThread`: until then a stop finds no thread to wait for, though
the client has its handle), a write that is sent and received, the close of a handle
before the flag is reset. A stop is then four steps: it begins, signals and looks for
the thread (`EnsureThreadExit`), has waited (`PipeThreadIsGone`), asks AM9
(`StopInAM9`). The close event stays set when no thread consumes it. A CIA import is
taken at what it does to the title: begin, finish and begin between batches, cancel by
its flag, finish without looking (`CIAInstall`). Its own ticket, TMD and contents are
not among `part`, so a part that another session has open does not meet them.
0x0405 and 0x0406 close the handle, then read the import's data; when the pipe thread
was faster they fault (`ReadData`). `BeginTitle` stands for 0x0804, 0x0806 and
0x0828, which differ in the request only. A request that changes nothing, because
the session's flag or AM9 refuses it, is not a step unless the command goes on
after it. Errors that make AM stop the system (`Err_Throw`) are refusals after
which nothing happens, which every behaviour allows. `may` is as in `PipeManager`,
one fault at a time.

**SessionManager.** `session` and `thread` are the two fields of
`AM_SessionsData` by place. `getNewSessionData` looks at one place a step, as the
threads clear theirs meanwhile. When no place is left the stack is any of them
(an index never set), and the next step is a write through NULL: `fault`, where
the model stops.

**DemoDatabase.** `file` is what was written, `saved` what was committed, and a
crash goes back to `saved`. A count carries the title it was written for, so that
a count beside another title shows. `granted` is what clients have been told.
`overlapped` records that command 0x0827, which clears the database without its
lock, ran together with another.

**Allocator.** One call is one step, on memory that is modelled word by word with
the links inside the blocks. `FreeAt` is the way along the links, which the loops of
`malloc` and `free` go: the first free block, the next, and so on.

**CIAReader.** A file is what the commands take from it: enabled indices, chunk
records, save sizes, section sizes, bytes left behind the contents. `min_tmd` is
the name of the file whose TMD it holds, so that an answer put together from two
files shows. `g_TMDReader_Lock` is taken at its promise: `Lock` is `Acquire` or
`Reenter` of `ReentrantLock`, which `RecursiveLock` is shown to implement. The
error returns of `cia.c:96` and `105` keep the lock, as in the code. `Aligned`
rounds with the 32-bit mask of `ALIGN`. `unread` is chosen at the start and says
which reads may fail. `Total` is what a loop adds up. `Countable` and
`CountableChoice` are the conditions under which 32 bits hold what is rounded and
added, save data included.

**TWLImport.** One import or one question about a backup. A backup is its type,
the sizes of its twelve sections and which parts are damaged; `Start` is where
AM9 has put each, `offset` where the code reads, and a MAC is right only for an
intact section, read whole and from where it begins. `stack` is what the stack
holds where a header of format V2_11 does not reach and `getExportSize` reads.
`got` counts the bytes AM9 has been given of each section; `closed` counts calls
of `FSFile_Close`. `faults` is chosen at the start: what may fail, and whether
another session opens and ends titles meanwhile.

**FirmUpgrade.** A title id is what the code looks at: whether it is the system's,
the 20 bits above the low byte, and the low byte, which is compared with the core
version. Each request to AM9 is a step, so `GetTitleCount` and `GetTitleList` may
see different titles, and what is chosen may be committed by then. `firm` is the
FIRM in the partitions, `running` the one that has been started from them. Without
"overlap", nothing of another session happens while a command is under way
(`Undisturbed`); deletions come at any time where there are any.

## 3. The runs

| run | instance | shows |
|---|---|---|
| `MCRecursiveLock` | 3 threads, 2 levels | LightLock: mutual exclusion, exact word, no lost wake-up, progress; the tag is right whenever it is read; implements `ReentrantLock` |
| `MCRuntime` | 3 waiters, 2 signallers; 11 words; 4 sessions, 2 places and the pipe thread's | LightEvent implements `Event`, a signal that finds a waiter lets one return; Allocator: words tiled by blocks, implements `Heap`; SessionManager: stacks, own session, shutdown ends |
| `MCPipe` | 2 sessions, 2 imports, everything overlapping | one import at a time, one pipe thread at a time |
| `MCPipeSerial` | 2 sessions, 2 imports, one after another | implements `Pipe` (writes reach their import); nothing left, no panic, commands return unless one has faulted, teardown completes |
| `MCCIAInstall` | 5 files, all chunk sizes, all failures | exact bytes, whole blocks, right flags, batches, complete at the file's end, writes return |
| `MCDemo` | 3 titles, ring of 2, 2 threads, 5 commands, 1 crash | whole database in memory and on the card, limits, durable grants |
| `MCSessionCommands` | 13 backups, 3 titles and versions, 3 files, 5 contents of a DLC; 2 sessions with titles, 2 media, 8 faults, one at a time | backups all or nothing, others' titles stay, good backups accepted; FIRM only upgraded, and current; answers are the reader's own and right, and come; a flag means an own title, nothing orphaned, writes reach an open part, titles end |
| `MCPipePanic` | 1 session, 2 imports | violation: the pipe thread can panic (section 5, as for the runs below) |
| `MCPipeFault` | 1 session, 1 import | violation: a finish faults on data that were freed |
| `MCTitleStop` | 2 sessions, a thread that starts late | violation: a write after its title was stopped |
| `MCCIAMisaligned` | the same files, TMD split anywhere | violation: TMD bytes are lost |
| `MCSessionStacks` | 2 places and the pipe thread's, 3 sessions | violation: a session runs on the pipe thread's stack |

Two runs have parts in them that share no state. `MCRuntime` lets one of LightEvent,
Allocator and SessionManager run and the others keep still, `MCSessionCommands` (variable
`family`) one of TWLImport, FirmUpgrade, CIAReader and TitleImport: the states to check
are the sum, not the product, of the parts', and each part's properties are about its own
variables. Where a part keeps still it is in its initial state, in which none of its fair
actions can be taken, so that its fairness does not exclude the others' behaviours.

Why the bounds are enough:

- *LightLock, RecursiveLock*: three threads give a holder, a waiter and one that
  overtakes the waiter. The proofs cover any number. Two levels tell an inner
  unlock from an outer one.
- *LightEvent*: two waiters can race for a signal with a third asleep; two
  signallers can race to set the event.
- *PipeManager*: two imports overlap in every way, and the second meets what the
  first has left. `NothingLeft` says that between serial imports only `init`,
  `event`, `close_event`, the dead thread's handle and the counts differ from the
  initial state, and the second import is begun in each combination of these that
  a first import can leave. Two sessions are needed for two commands at once; a
  third would only wait for the lock.
- *CIAInstall*: sizes are scaled. A block has 4 bytes for 16, alignment is 8 for
  0x40, the largest write 8 for 0x3000, a batch 2 for 64; the ratios that matter
  (a write is several blocks, padding is sometimes less than a block) are kept.
  Chunks of 1 to 13 bytes are smaller and larger than every part of the files.
  The files have every part; no certificates and no metadata; a DLC with a
  disabled index and a first content, a full batch and a full second batch; no
  ticket; no content, so that the file ends with its TMD. In `MCCIAInstall` a chunk that ends inside the TMD ends between two
  blocks of it (`AnyTMDChunk` is FALSE): the run `MCCIAMisaligned` shows why the
  assumption is needed. `U32` stands for 2^32.
- *TitleImport*: one session has the title, the other meets it with a title, a
  part or a CIA import of its own; AM9 and the pipe serve one at a time, so a
  third would be refused like the second. Without "overlap", a client begins an
  import when every handle has been given back and the pipe is free, and sends a
  command that uses the pipe when no other is in progress; it sends the CIA commands
  while its import has the pipe. That AM9 refuses to begin what is open and to end
  what is not is an assumption about AM9. `may` is one of eight faults:

  | fault | what may happen |
  |---|---|
  | "late_start" | a title is stopped while the import that has the pipe has no thread yet |
  | "late_read" | the pipe thread frees a CIA import's data before the command that finishes it reads them |
  | "overlap" | commands that use the pipe overlap, or an import begins before the last handle came back |
  | "no_pipe" | the pipe cannot be created |
  | "refuse_end" | AM9 refuses to end what is open |
  | "die" | a client dies, and another gets its place |
  | "finish_open" | a title is finished with its part's handle open |
  | "finish_early" | a CIA import is finished without its title |

  "late_start" and "late_read" are orders of steps rather than failures: nothing in the
  code excludes them, the first only takes a client that stops its title as soon as it
  has its handle, the second only a pipe thread that runs first. They are faults
  here because so much depends on them. Each property names the faults it cannot
  stand, and each of these was seen to break it. `FlagMeansOwnTitle`: "finish_early"
  finishes the title of another session. `WritesReachOpenPart`: "late_start" (a stop
  that misses the thread ends the part before its last write), "overlap" (a flag or an
  event that is left over, with the same effect), "finish_open" and "finish_early" (the
  title is ended without a look at the pipe). `NothingOrphaned`: "late_start" and
  "overlap" (a write that was waiting begins a CIA's title after the stop, and the late
  close event then takes the pipe from the only import that could end it),
  "refuse_end", "die", "no_pipe" (a title or part whose flag or handle is gone),
  "late_read" (a finish that faults before it asks AM9) and, for the pipe, "finish_open"
  (the handle is refused and not closed). `TitlesEnd`: all that leave a title open,
  and its premise is that clients ask to stop their titles and give back CIA imports;
  without the fairness of the stop, of the pipe thread or of the CIA commands it fails.
  So `WritesReachOpenPart`, `NothingOrphaned` and `TitlesEnd` say that a stop which
  does find the pipe thread waits for it long enough, in every interleaving of two
  sessions; `MCTitleStop` shows what happens when it does not.
- *SessionManager*: two ordinary places are enough for two threads to be
  confused; with four sessions every place is used again and one finds none.
- *DemoDatabase*: three titles in a ring of two push one another out; limits of
  one and two launches, and none, with counts that wrap at three. A limit is less
  than `CountMod`: limit and count are 8-bit fields (`am9.h:216-221`). A limit of zero
  launches is not an instance: 0 stands for a title without a limit, and a ticket that
  allows none is granted its first, as the code compares only the count of a title that
  is already in the database.
- *Allocator*: eleven words hold three free blocks with used ones between them,
  and every case of `free`.

- *CIAReader*: two threads and three questions: one thread reads while the other
  is anywhere in its own, and one goes on after an error that kept the lock. The
  questions are of all commands; files with all contents and with some, of both
  kinds of save data and of none, with more contents than `ManyContents` and more
  enabled than are written; sizes at, below and above a multiple of the block and
  just inside `U32`, which stands for 2^32. Batches of two for 64: lists of one,
  two (full), three (a short batch after a full one) and four contents.
- *TWLImport*: backups of the formats V2_12 and V2_11 and both old types; in the
  newer ones each kind of part damaged in turn, sections absent, shorter than an
  AES block, whole blocks, not whole blocks, and longer than the buffer, which is
  the smallest allowed, one byte too small, and not whole blocks.
- *FirmUpgrade*: the running FIRM, one of a higher core version and the safe mode's
  odd one between; versions that differ in minor number and in revision; two
  imports, so that one can be committed while the other is chosen.

Conditions inside properties are part of what they say. `OneAfterAnother` (each
import is torn down before the next is begun), `"end_title" \notin may`,
`~May(...)`, `~overlapped`, and the sets of faults in the properties of
`MCSessionCommands` mark protocols outside which the property fails, for the reasons
in section 5; `EveryoneHasAPlace` excludes the session for which there is no
place.

Deadlock is checked where the system runs for ever. It is not where commands,
imports, sessions or crashes are bounded and the model comes to its end; a command of
`TitleImport` that has faulted does not return either.

Fairness. The module's threads are weakly fair: a thread of the process that can
run does, on a preemptive kernel. Clients owe nothing, except in
`ShutdownCompletes` and `TitlesEnd`, whose premises are that they close their
sessions, ask to stop their titles and give CIA imports back. A store
conditional is strongly fair once its reservation stands (`Store`): context
switches break reservations but not before every one of a thread's stores.
`ReceiveCloseEvent` is strongly fair: `svcReplyAndReceive` replies and looks at
all handles again in one kernel call, so a client that writes all the time
cannot keep the pipe thread from its close event; `PipeThreadExits` of
`TitleImport` is strongly fair for the same reason; the other steps of a command, the
pipe thread and the main thread are weakly fair there. A critical section ends
(`RFairness`), as `LockProgress` could not hold otherwise. The readers are weakly
fair although they wait for a lock that others take: questions are bounded, so
from some state on nobody else does. Imports of backups and commits have only
safety properties.

## 4. What is proved

Eight modules hold theorems (section 2 says about which). All of them are about any finite or
infinite choice of the constants that their assumptions allow, where a run of section 3 shows the same property on one instance. Each safety property is
proved from an inductive invariant: it holds at first, every action keeps it, and the
property follows from it. Lemmas named `...Keeps` or `...Step` are one action each; the
temporal step is the last one of each theorem.

### Synchronization

From `ThreadsFinite`, and `RLAssumption` for RecursiveLock; for LightEvent from
`ThreadsAssumption`: a thread that signals does not wait.

| module | theorem | states |
|---|---|---|
| `RecursiveLockProofs` | `Invariance`, `TypeCorrect` | `LLInv`, `LLTypeOK` |
| | `Safety` | `MutualExclusion` |
| | `WordIsExact` | `LockWord` |
| | `WakeupSafety` | `NoLostWakeup` |
| | `RInvariance` | `RInv` |
| | `RecursiveExclusion`, `RecursiveWord`, `RecursiveWakeup` | the three above, of `RSpec` |
| | `TagIsOwn` | `TagReadIsOwn` |
| | `RecursiveImplements` | `RSpec => ImplementsReentrant` |
| `RuntimeProofs` | `EventInvariance` | `EInv` |
| | `EventImplements` | `EventSpec => ImplementsEvent` |

Mutual exclusion is not inductive: a thread about to store may hold a value read
long ago. The inductive invariant is

    LLInv == LLTypeOK /\ MutualExclusion /\ LockWord /\ ReservedReadIsCurrent

`ReservedReadIsCurrent` is the fact that makes LDREX and STREX work: while a
reservation stands, the value read is still in the word. With it a successful
store writes a value computed from the current word, `LockWord` turns the word's
sign into "somebody holds", and only then does a store that takes the lock show
that nobody held it. Counting waiters needs facts about the cardinality of finite
sets when one thread is added or removed (`Counts`, `WaiterCounted`). Most steps
change no thread's class; `LoadStep`, `FailedStore` and `PlainStep` deal with
these at once, and the three stores each have a lemma. `NoLostWakeup` is proved on
top of `LLInv`, step by step: a waiter goes to sleep only while the word is
negative, and the store that makes it positive with waiters goes on to signal.

A step of RecursiveLock is a step of LightLock or leaves it alone (`LightRefined`), so
what is proved of LightLock carries over. `RInv` adds who owns the lock:
`OwnerIsTagged` (the thread between the store of the tag and the store that clears it
holds the LightLock, the tag is its own and the counter is its depth), `FreeIsClear`
and `LightWhere`. A thread that reads the tag without the lock may see any other
thread's, never its own by mistake. The refinement maps the owner to the tag while the
counter is not 0; each action is then a step of `ReentrantLock` or a stutter.

Of the event, `ReservedIsSet` (a waiter about to clear the word with a standing
reservation read it set, and set it still is) is what keeps two waiters from taking one
signal.

### PipeManager

From `MaxImportsAssumption`, for any sessions and environments.

| theorem | states |
|---|---|
| `PInvariance` | `PInv` |
| `OneImportAtATime` | `OneImport` |
| `PipeThreadIsAlone` | `OnePipeThread`, of every step |
| `NothingIsLeft` | `NothingLeft` |
| `WritesGoToOwnImport` | `WritesReachOwnImport` |
| `SoleInvariance` | `SoleInv` |
| `PipeThreadIsSafe` | `PipeThreadNeverPanics` |
| `PipeIsImplemented` | `Spec => ImplementsPipe`, if no environment has "overlap" |

`PInv` has three layers. In every environment a pipe thread that runs has its handle
stored, as the main thread waits for it before it starts the next (`ThreadIsStored`).
Where no title is ended over an import, `init` is a token: whoever has an import open
took it (`InitIsToken`), which is all that holds of `OneImport` when commands overlap.
When imports follow one another, either the pipe is empty or one import has it, at one of
the stages `Queued`, `Accepted`, `Starting`, `Served` and `Leaving`, and each field of the
manager is what the stage says (`Has`). The stages are needed because the session thread
goes on meanwhile: it publishes function and data after the main thread may have started
the pipe thread, and another session's begin may allocate its data and be refused.
`CancelHasData` adds that a cancel under way holds the data of an import that has them:
it reads the pointer before it closes the handle, so that it never faults, as the
commands that finish may.

The refinement of `Pipe` also covers environments in which titles are stopped over an open
handle. There `InTurn` does not hold: init falls, the client of a torn-down import keeps
its handle, and a new import may have the pipe meanwhile. `Sole` says what is left:
nobody or one import has the pipe, at one of the same stages (`OneUser`); while its session
is open and its client has the handle, function and data are its own (`Reached`); while
a command begins an import nothing is torn down (`Begins`), and once it has registered it
nobody else has the pipe (`Publishes`). `SoleView` turns that into the abstract state, and
`ThreadPipe`, `MainPipe` and `PipeThreadPipe` map each step to a step or a stutter. That
an import is torn down only when its handle is closed, where titles are not stopped, is
`Has` of `PInv`. The hypothesis is that commands do not overlap: `MCPipePanic` shows what
happens if they do.

### CIAInstall

From `SizesAssumption` and `FilesAssumption` (every file is `WellFormed`).

| theorem | states | for |
|---|---|---|
| `FlagsInvariance`, `FlagsAreTrue` | `FlagsInv`, `FlagsMatchAM9` | any chunks |
| `IInvariance` | `IInv` | chunks that do not split a TMD block |
| `BytesAreExact` | `InstalledExactly` | the same |
| `WritesAreAligned` | `WritesAligned` | the same |
| `ContentsHaveContexts` | `ContentHasContext` | the same |
| `AllIsInstalled` | `FileEndInstallsAll` | the same |

The hypothesis `~AnyTMDChunk` of the last five is not for convenience: `MCCIAMisaligned`
shows that they fail without it. The heart of `IInv` is `Received`: what AM9 has been
given of the object that is open, followed by what waits in `misalign_buf`, is the file
from the object's start to the offset (`Run`). A pass of the loop keeps that if `Blocks`
hands on or keeps exactly the bytes it uses (`BlocksExact`, with the arithmetic of whole
blocks), whatever the size of the chunk and whether the pass ends by the chunk, by the
object or by the largest write. The rest of `IInv` says where the offset may be in each
state (`Placed`), which header has been read (`Buffered`), what is open (`Opened`) and
installed (`InstalledAll`), that the next enabled content in the file is the one at the
offset (`NextInFile`), and how the batch of a DLC and its contexts follow the contents
(`Batched`). The next content is the least index, which exists because an order on the
naturals is well founded; the size of a batch needs cardinalities.
`FileEndInstallsAll` is about files that go on behind their TMD: one without any content
whose TMD ends it has no byte left for the pass that finishes the TMD, so that it stays
open until the client gives up (`MCCIAInstall` has such a file).

### TitleImport

From `MediaAssumption` and `SessionsAssumption`, in every environment.

| theorem | states |
|---|---|
| `FlagIsTrue` | `FlagMeansOwnTitle` |
| `OInvariance` | `OInv` |
| `WritesStayInPart` | `WritesReachOpenPart` |
| `NothingIsOrphaned` | `NothingOrphaned` |
| `TitlesUsePipe` | `Spec => UsesPipe` |

`FlagMeansOwnTitle` is not inductive: whoever may end the title that is open must be
shown to be its owner. A session on its way to stop a title still has its flag; a CIA
import that may still finish or cancel a title has begun it, so that it is no session's,
and at most one such import exists (`Owned`). The last is what "finish_early" breaks.
The other parts of `OInv` hold where the faults they name are absent:

- `OneCommand`: one command at a time uses the pipe, and no import begins while the
  last has it. So what a stop finds when it looks at the flag is what it finds when it
  has waited.
- `StopFindsThread`: the flag is set for the import that has the pipe, whoever waits for a
  pipe thread waits for one that runs or has ended, and once a stop has gone past its wait
  its own session has no open import in the pipe. It is why AM9 is asked after the last
  write, and it is false with "late_start".
- `EventHasWaiter`: when the close event is set, a stop is waiting for the thread that
  will consume it, so that no event is left for the next import.
- `DataAreThere`: a CIA import that is being finished still has its data.
- `PipeHasClient`: an import that has the pipe has a client with its handle or a command
  that closes it. `PartHasHandle` says the same of an open part, `TitleHasEnder` of an
  open title, and `PartIsOwn` that whoever has the pipe has the part.

Each is kept by every step with the help of those before it, one lemma for each group of
actions.
`TitlesUsePipe` needs only that a served import has a session (`PipeState`), and holds
whatever the faults.

### SessionManager

From `SessionsAssumption`.

| theorem | states |
|---|---|
| `SInvariance` | `SInv` |
| `ServesOwnSession` | `OwnSession` |
| `StacksAreDisjoint` | `SessionStacksDisjoint` |

A place is taken twice, by its session and by its thread, and given back at two times.
`SInv` says that place, session and thread name each other: the session until the thread
zeroes it (`SessionIsServed`), the thread until `freeThread` has waited for it
(`ThreadIsKnown`). A session without a place (section 5) is served on no session at all,
and is the case `EveryoneHasAPlace` leaves out of the second theorem; the first holds
for it as well.

### DemoDatabase

From `DatabaseAssumption`, with any number of crashes.

| theorem | states |
|---|---|
| `DInvariance` | `DInv` |
| `LimitIsRespected` | `LimitRespected` |
| `DatabaseStaysWhole` | `DatabaseIsWhole` |
| `GrantSurvives` | `GrantIsDurable` |

`DInv` says label by label how far file, header and save data have moved apart within
one launch request (`Working`): from an entry that is not listed yet and whose count is
another's, to one that is counted but not committed. At every moment what a crash would
leave is a whole database that has counted every launch granted so far (`Sound(saved.hdr,
saved)`). That limits are 8-bit values is needed: a count that wraps before it reaches its
limit would grant launches for ever.

### Allocator

From `AllocatorAssumption`, for memory of any size and any requests (`RuntimeProofs`).

| theorem | states |
|---|---|
| `AllocatorSound` | `AInv` |
| `MemoryTiled` | `BlocksTileMemory` |
| `AllocatorIsHeap` | `AllocatorSpec => ImplementsHeap` |

The free blocks are those on the way along the links, so that an invariant about them
would speak of what a walk through the memory finds. `AInv` says instead that there is
some set `F` of places which, with the blocks in use, tiles the memory, and whose
members are linked in the order of their places: `avail` is the first, and each link is
the next one behind or the end (`Linked`). Blocks in use have places of their own and
the size asked for at least (`Granted`). A call adds places to `F`, takes them out or
both; one lemma for each case of `malloc` and `free` names the new set and shows that
sizes and links, which share the memory with what clients write, are those of that set.
That the walk finds `F` and nothing else is a statement about the least place that it
has not come to, as an order on the naturals is well founded, and is where the order of
the links is needed.

### TWLImport

From `TWLAssumption` (what AM9 puts into a backup), for any backups, faults and sizes of
buffers (`SessionCommandsProofs`).

| theorem | states |
|---|---|
| `BackupInvariance` | `TInv` |
| `BackupAllOrNothing` | `AllOrNothing` |
| `BackupAccepted` | `BackupsAreAccepted` |
| `BackupOthersTitle` | `OthersTitleStays` |

`TInv` says at each place of the code what has been found right so far (`Certain`), where
the import reads (`Placed`: where AM9 has put the section it is at, unless the backup is
an old one, when it never is), what AM9 has open (`Silent`) and how many bytes of each
section it has been given (`Given`: the ones before whole, of this one as many as were
read, of the others none). That the header is right exactly if it states the size of each
section compares two sums of twelve terms (`verifyExportHeader`); for the old formats,
where one save's size is missing or is whatever the stack holds, sections can only be
exchanged for padding if both are absent.

### FirmUpgrade

From `TitlesAssumption` and `VersionsAssumption`, for any titles, versions and sessions
(`SessionCommandsProofs`).

| theorem | states |
|---|---|
| `FirmInvariance` | `FInv` |
| `FirmCurrent` | `FirmIsCurrent` |
| `FirmUpgradesOnly` | `FirmOnlyUpgraded` |

`FInv` has three layers, as its properties have conditions. Always: a command that asks
AM9 has an input chosen from what it is to commit. Where nothing is deleted or put back
(`Steady`), versions only grow, what runs is not newer than the partitions, and these are
not newer than some installed FIRM (`Upwards`); so a target that was newer than the
running FIRM when it was chosen still is when it is written (`ThreadSure`), however
commands overlap. When they follow one another (`Alone`), what a command has found is
still the highest installed FIRM when it is written (`Highest`), and why the target was
chosen is known (`Chosen`). The attempt corrected the model: commits, imports and 0x0401
of other sessions could happen within a command also where the environment has no
"overlap", and with three titles TLC then finds `FirmOnlyUpgraded` violated.
`Undisturbed` is what was missing.

### CIAReader

From `ReaderAssumption` (the widths of the fields), for any number of threads, files,
contents and batches (`SessionCommandsProofs`).

| theorem | states |
|---|---|
| `ReadersInvariance` | `RInv` |
| `ReaderAnswers` | `AnswersAreOwn` |

`RInv` says of each thread by itself what it has counted so far for its own file
(`CountsFile`) or list of contents (`CountsChoice`), and of the shared state two things
only: a thread at a place inside the lock is the lock's owner, and while it counts with a
TMD, `min_tmd` is its file's. The owner's steps are the only ones that write `min_tmd`;
after an error that keeps the lock its thread may go on and take it again, and nobody else
ever does. What is counted is a sum along a sequence. `NatSet`, a lemma about sets of
numbers that rests on their order, takes the place of the induction theorems: sums are
compared term by term with it (`Summation`), and batches are added (`TotalParts`). A size
below 2^32 with its last block is rounded as without a mask (`AlignedIs`).

### What is only model-checked

Liveness, as it is out of the prover's reach: `LockProgress`, `CommandsReturn`,
`TeardownCompletes`, `WriteReturns`, `TitlesEnd`, `ShutdownCompletes`, `ReadersReturn`,
`SignalLetsOneReturn`. The refinements are proved of the steps, which is all that
`ReentrantLock`, `Event`, `Heap` and `Pipe` demand. Every other property of a run that passes is
a theorem, and the types of each module are part of its inductive invariant.

Proved and not in a run: `UsesPipe`, and `WritesReachOwnImport`, which for the writes that are
served is what `ImplementsPipe` says.

## 5. Where code and comments part

Five runs show a disagreement:

- `MCPipePanic`: `pipe_tmain` tears down by the fields of `g_PipeManager`. When it
  has closed its session the next import can be accepted, and then it zeroes the
  new import's session and frees its data. The new pipe thread receives on handle
  0 and panics, though `main.c:182` expects no error but a closed session.
- `MCPipeFault`: commands 0x0405 and 0x0406 use `g_PipeManager.data` after closing the
  handle (`ipc.c:1293`, `1319`). The pipe thread may have seen the close, freed the data
  and cleared the pointer by then (`main.c:219-220`), so that a command that is to
  "finish CIA install" (`ipc.c:1276`) ends in a data abort. No overlap is needed.
- `MCTitleStop`: `AM_Pipe_EnsureThreadExit` waits on the thread handle as it is, which is
  0 or a dead thread's until the main thread reaches `main.c:362`, and then the wait
  returns at once (`pipe.c:803-807`). AM9 ends the title, the new thread delivers the write that
  was waiting before it looks at the close event (`main.c:168`), which is "used to tell
  pipe thread to exit when pausing or cancelling imports" (`main.c:322`).
- `MCCIAMisaligned`: `README.md:8` says misaligned writes are supported. A chunk
  that is used up while a TMD block is being filled loses the bytes kept so far
  (`pipe.c:373-396` lacks the test the content state has).
- `MCSessionStacks`: `main.c:57` counts five session stacks and one for the pipe
  thread; the table has six places, so a sixth session gets the pipe's.

These are in the models too, and shape the conditions of the properties, but have
no run of their own:

- Nothing initialises the event of `g_PipeManager`, and zero is its signalled state, so
  the first import handle is sent before its thread runs, against `pipe.c:774`; each
  later import may be let through by the signal of the one before it.
- A failed `svcCreateSessionToPort` and a dropped handle leave `init` set; imports
  are then refused though none is open, against `pipe.c:750`.
- `AM_Pipe_EnsureThreadExit` signals the close event also when the pipe thread has
  left by itself; the next import's thread consumes it and leaves.
- A stop that misses the pipe thread (`MCTitleStop`) may also leave a title open for
  good: a CIA's write that was waiting begins its title after the stop, and the close
  event then takes the pipe away, so that 0x0404 and 0x0405 are refused.
- For a CIA without a ticket the TMD header is skipped, against `pipe.c:239`, and
  the TMD state then uses a buffer that is NULL.
- 0x0405, which is to "finish CIA install" (`ipc.c:1276`), finishes whatever title AM9 has
  open, also when the CIA import has begun none (`ipc.c:1295`); the title may be another
  session's.
- `importing_title` is cleared before AM9 is asked (`ipc.c:2290`, `2339`, `2359`): a
  refusal leaves the title open and no session able to end it. So does the death of
  a client, as its place starts with a clear flag (`main.c:107`); the medium, by
  which errors are judged fatal, is inherited by the next session.
- 0x0808 does not wait for the pipe thread as 0x0805 and 0x0807 do, and these end the
  import that has the pipe, whichever session began it.
- 0x080B, 0x080C, 0x0811 and 0x0812 keep the handle they refuse; 0x080F closes it.
- 0x0822 to 0x0824 and 0x0826 act on AM9's open title without looking at the flag.
- 0x0827 clears the database without the lock; a launch entered meanwhile ends up
  with its count beside another title, against `demodb.h:36`.
- The loop that fills a new database file ends after one buffer
  (`demodb.c:108-116`).
- `CIAReader_CalculateTitleSize` returns without giving back its lock when the TMD
  or a chunk record cannot be read (`cia.c:96`, `105`); `min_tmd` is then closed to
  all other sessions.
- `ALIGN` of a 64-bit size loses its high half (`types.h:28`, `cia.c:109`): the
  contents of a title are counted modulo 4 GiB each.
- Metadata are read from `CON_END`, not `META_START` (`cia.c:177`, `format.h:19`).
- `AMNet_CalculateContextRequiredSize` never lowers `remain` (`ipc.c:134`): with 65
  indices it asks about 64 and 64 more, and misses the end of its loop.
- An old backup (V1_4) is found by its header, but the footer is passed over with the
  size of the footer of the type asked for (`twlexport.c:371`, `459`), so that its
  sections are looked for in the wrong place. By `twlexport.h:27` type 0xD works and
  only 0xC cannot be imported; neither can. (As the type is taken to be 0xC from the
  header on, type 4 does not stop after the footer and type 5 would install nothing.)
- `getExportSize` reads `private_save_size` for V2_11 too, where it is whatever the
  stack holds (`twlexport.c:142`): a good backup may be refused as invalid.
- When the metadata of a section cannot be read the file is closed twice, and the
  part is not cancelled by itself (`twlexport.c:22`, `248`).
- When the commit of an imported backup fails, `AM9_InstallTitleCancel` cancels a
  title that is no longer this import's (`twlexport.c:513-517`).
- A FIRM of the same minor version and a later revision is never taken; the third
  disjunct of `firmNewerThanRunning` is implied by the second (`ipc.c:8`).
- `free` joins a block with its successor only when it also joins its predecessor
  or comes first; `malloc` can then refuse what would fit, against
  `allocator.c:104`.

## 6. What is not modelled

- The export of a backup (0x001B): one request to AM9. Of an import, the contents of
  sections, hashes and signatures; a save is written to its title before its MAC is
  checked, which nothing takes back.
- In `CIAReader`, reads that return fewer bytes than asked for, except of metadata;
  a chunk record cut off at the end of a file is then what was in the stack.
- The choice of contents (0x080D, 0x0826) and queries about the open title: one
  request to AM9 each, with no state in AM. Commits are in `FirmUpgrade`.
- Dispatch, argument checks and queries in `ipc.c`: no state of their own. The
  clients of AM9, FS, SRV and the error service: one request each; the other side
  is external and appears as operations that succeed or fail.
- SHA-256, assembly stubs, helpers, the export script: third-party or without
  behaviour of interest. LDREX and STREX are operators of the lock modules.
- A CIA's own ticket, TMD and contents in `TitleImport`, and what a client does with
  the handle of an import whose command faulted or was refused (0x0404 and 0x0405 keep it).
- Concurrent `malloc` and `free` (nothing locks the allocator): one call is one
  step; a client with two threads on one import; the count in the answer to a
  write, which the code does not always set (`pipe.c:908`).

## 7. Plan

Done: the primitives first, as everything rests on them; then the pipe manager
and the CIA installation, the program's own core; then the title commands over
both; then sessions, the database and the allocator; then the commands that read
CIA files, import backups and commit with a FIRM.

Next, in this order:

1. `PipeManager` with `CIAInstall`: two client threads on one import, cancel
   during a write.
2. The allocator with concurrent calls; shutdown with the database.
3. In `TitleImport`: `TWLImport` as another client of the open title, and the CIA's
   own ticket, TMD and contents beside the parts of other sessions.

Theorems, done: everything that the passing runs check, but liveness.
