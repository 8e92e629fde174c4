----------------------------- MODULE DemoDatabase -----------------------------
(***************************************************************************)
(* source/am/demodb.c: how often each demo was launched, in a file of the  *)
(* module's save data.  Title ids are written round a ring; the play count *)
(* of an entry is beside it in a second array; the header, of which there  *)
(* is a copy in memory, says how many entries there are and which is next. *)
(*                                                                         *)
(* Writes reach the save data only when they are committed: a crash takes  *)
(* the file back to the last commit.  Between two writes, and between the  *)
(* reads and the writes of the header in memory, is a step.  The recursive *)
(* lock is one step to take and one to leave (module RecursiveLock).       *)
(***************************************************************************)
EXTENDS Integers, FiniteSets

CONSTANTS
  Threads,      \* threads of sessions
  Titles, NoTitle,
  Limit,        \* each title's launches by its ticket; 0 when it has no limit
  MaxEntries,   \* SAVE_MAX_ENTRIES
  CountMod,     \* where the u8 play count wraps
  BufSize,      \* entries in tid_buf, by which a new file is filled
  MaxCalls,     \* bound: how many commands are sent altogether
  MaxCrashes    \* bound: how often the power goes

\* The limit in a ticket is a u8 as well, so there is a count for each limit.
ASSUME DatabaseAssumption ==
  /\ NoTitle \notin Titles \union Threads
  /\ MaxEntries \in Nat \ {0} /\ CountMod \in Nat \ {0} /\ BufSize \in Nat \ {0}
  /\ Limit \in [Titles -> 0..(CountMod - 1)]
  /\ MaxCalls \in Nat /\ MaxCrashes \in Nat

VARIABLES
  boot,      \* where AM_DemoDatabase_Initialize is; "ready", or "closed" again
  exists,    \* the save data has the file
  file,      \* the file as written: header, title ids, counts, bytes filled
  saved,     \* the file as last committed
  info,      \* the header in memory: next_entry_index and entry_count
  lock,      \* the thread that holds db->lock, or NoTitle
  th,        \* each thread: where it is, the title it asks about, an index
  calls, crashes,
  overlapped,\* 0x0827 has been in progress together with another command
  granted    \* launches granted to each title since it was last entered

vars == <<boot, exists, file, saved, info, lock, th, calls, crashes, overlapped, granted>>

Entries == 0..(MaxEntries - 1)
Header0 == [next |-> 0, count |-> 0]
NoLock == NoTitle

\* A count remembers for which title it was written.
Blank == [hdr |-> Header0,
          tids |-> [i \in Entries |-> NoTitle],
          counts |-> [i \in Entries |-> [of |-> NoTitle, n |-> 0]],
          filled |-> {}]

Idle(t) == th[t].pc = "idle"
Resetting == \E t \in Threads : th[t].pc \in {"reset_write", "reset_commit"}
Stopped == [t \in Threads |-> [pc |-> "idle", title |-> NoTitle, index |-> 0]]

Init ==
  /\ boot = "open" /\ exists = FALSE
  /\ file = Blank /\ saved = Blank /\ info = Header0
  /\ lock = NoLock /\ th = Stopped /\ calls = 0 /\ crashes = 0 /\ overlapped = FALSE
  /\ granted = [x \in Titles |-> 0]

-----------------------------------------------------------------------------
(* AM_DemoDatabase_Initialize *)

\* Sizes in bytes: an entry of either array has 8, as has the header.
FileSize == 8 + 16 * MaxEntries
BufBytes == 8 * BufSize

OpenFile ==
  /\ boot = "open"
  /\ \/ /\ exists
        /\ info' = file.hdr /\ boot' = "ready"
        /\ UNCHANGED <<file, exists>>
     \/ /\ ~exists
        /\ file' = [Blank EXCEPT !.filled = 0..7]
        /\ info' = Header0 /\ boot' = "fill"
        /\ UNCHANGED exists
  /\ UNCHANGED <<saved, lock, th, calls, crashes, overlapped, granted>>

\* for (i = 0; i < (SAVE_FILE_SIZE - 8) / sizeof(tid_buf); i += sizeof(tid_buf)):
\* i is an offset, but is compared with a number of buffers.
FillOffsets == {i \in 0..(FileSize - 1) : i % BufBytes = 0 /\ i < (FileSize - 8) \div BufBytes}

FillFile ==
  /\ boot = "fill"
  /\ file' = [file EXCEPT !.filled = @ \union UNION {(i + 8)..(i + 7 + BufBytes) : i \in FillOffsets}]
  /\ boot' = "commit"
  /\ UNCHANGED <<exists, saved, info, lock, th, calls, crashes, overlapped, granted>>

CommitNewFile ==
  /\ boot = "commit"
  /\ saved' = file /\ exists' = TRUE /\ boot' = "ready"
  /\ UNCHANGED <<file, info, lock, th, calls, crashes, overlapped, granted>>

-----------------------------------------------------------------------------
(* Reading *)

Goto(t, l) == th' = [th EXCEPT ![t].pc = l]

Matches(x) == {i \in Entries : i < info.count /\ file.tids[i] = x}

\* findIndex stops at the first match; AM_DemoDatabase_GetLaunchInfos goes on,
\* so that the last one counts.
FindIndex(x) == CHOOSE i \in Matches(x) : \A j \in Matches(x) : i <= j
PlayCount(x) == file.counts[CHOOSE i \in Matches(x) : \A j \in Matches(x) : i >= j].n

-----------------------------------------------------------------------------
(* AM_DemoDatabase_HasDemoLaunchRight *)

Call(t, x) ==
  /\ boot = "ready" /\ Idle(t) /\ calls < MaxCalls
  /\ overlapped' = (overlapped \/ Resetting)
  /\ th' = [th EXCEPT ![t] = [pc |-> "lock", title |-> x, index |-> 0]]
  /\ calls' = calls + 1
  /\ UNCHANGED <<boot, exists, file, saved, info, lock, crashes, granted>>

Lock(t) ==
  /\ th[t].pc = "lock" /\ lock = NoLock
  /\ lock' = t /\ Goto(t, "check")
  /\ UNCHANGED <<boot, exists, file, saved, info, calls, crashes, overlapped, granted>>

\* Mutant: one launch more than the ticket says.
BugLimitPlusOne(t) ==
  /\ th[t].pc = "check"
  /\ LET x == th[t].title
         used == Limit[x] > 0 /\ Matches(x) # {} /\ PlayCount(x) > Limit[x]
     IN \/ used /\ lock' = NoLock /\ Goto(t, "idle")
        \/ ~used /\ UNCHANGED lock /\ Goto(t, "find")
  /\ UNCHANGED <<boot, exists, file, saved, info, calls, crashes, overlapped, granted>>

\* AM9 may know no ticket; a ticket without a limit is not checked.
CheckLimit(t) ==
  /\ th[t].pc = "check"
  /\ LET x == th[t].title
         used == Limit[x] > 0 /\ Matches(x) # {} /\ PlayCount(x) >= Limit[x]
     IN \/ lock' = NoLock /\ Goto(t, "idle")         \* AM9_GetTicketLimitInfos, or used
        \/ ~used /\ UNCHANGED lock /\ Goto(t, "find")
  /\ UNCHANGED <<boot, exists, file, saved, info, calls, crashes, overlapped, granted>>

Find(t) ==
  /\ th[t].pc = "find"
  /\ LET x == th[t].title IN
       th' = [th EXCEPT ![t].pc = IF Matches(x) = {} THEN "tid" ELSE "bump",
                        ![t].index = IF Matches(x) = {} THEN 0 ELSE FindIndex(x)]
  /\ UNCHANGED <<boot, exists, file, saved, info, lock, calls, crashes, overlapped, granted>>

\* The title whose entry this was is forgotten.
WriteTitleId(t) ==
  /\ th[t].pc = "tid"
  /\ file' = [file EXCEPT !.tids[info.next] = th[t].title]
  /\ granted' = [x \in Titles |->
                   IF x = th[t].title \/ (x = file.tids[info.next] /\ info.count = MaxEntries)
                   THEN 0 ELSE granted[x]]
  /\ Goto(t, "count")
  /\ UNCHANGED <<boot, exists, saved, info, lock, calls, crashes, overlapped>>

\* next_entry_index is read again.
WriteFirstCount(t) ==
  /\ th[t].pc = "count"
  /\ file' = [file EXCEPT !.counts[info.next] = [of |-> th[t].title, n |-> 1]]
  /\ Goto(t, "entry_count")
  /\ UNCHANGED <<boot, exists, saved, info, lock, calls, crashes, overlapped, granted>>

CountEntry(t) ==
  /\ th[t].pc = "entry_count"
  /\ info' = [info EXCEPT !.count = IF @ < MaxEntries THEN @ + 1 ELSE @]
  /\ Goto(t, "next_index")
  /\ UNCHANGED <<boot, exists, file, saved, lock, calls, crashes, overlapped, granted>>

NextIndex(t) ==
  /\ th[t].pc = "next_index"
  /\ info' = [info EXCEPT !.next = IF @ = MaxEntries - 1 THEN 0 ELSE @ + 1]
  /\ Goto(t, "header")
  /\ UNCHANGED <<boot, exists, file, saved, lock, calls, crashes, overlapped, granted>>

\* Mutant: the header stays in memory.
BugHeaderNotWritten(t) ==
  /\ th[t].pc = "header"
  /\ Goto(t, "commit")
  /\ UNCHANGED <<boot, exists, file, saved, info, lock, calls, crashes, overlapped, granted>>

WriteHeader(t) ==
  /\ th[t].pc = "header"
  /\ file' = [file EXCEPT !.hdr = info]
  /\ Goto(t, "commit")
  /\ UNCHANGED <<boot, exists, saved, info, lock, calls, crashes, overlapped, granted>>

BumpCount(t) ==
  /\ th[t].pc = "bump"
  /\ LET i == th[t].index IN
       file' = [file EXCEPT !.counts[i] = [of |-> th[t].title, n |-> (@.n + 1) % CountMod]]
  /\ Goto(t, "commit")
  /\ UNCHANGED <<boot, exists, saved, info, lock, calls, crashes, overlapped, granted>>

Commit(t) ==
  /\ th[t].pc = "commit"
  /\ saved' = file
  /\ Goto(t, "unlock")
  /\ UNCHANGED <<boot, exists, file, info, lock, calls, crashes, overlapped, granted>>

\* The command answers that the title may be launched.
Grant(t) ==
  /\ th[t].pc = "unlock"
  /\ lock' = NoLock
  /\ granted' = [granted EXCEPT ![th[t].title] = @ + 1]
  /\ Goto(t, "idle")
  /\ UNCHANGED <<boot, exists, file, saved, info, calls, crashes, overlapped>>

-----------------------------------------------------------------------------
(* AM_DemoDatabase_InitializeHeader, without the lock *)

ResetInfo(t) ==
  /\ boot = "ready" /\ Idle(t) /\ calls < MaxCalls
  /\ overlapped' = (overlapped \/ \E u \in Threads : ~Idle(u))
  /\ info' = Header0
  /\ granted' = [x \in Titles |-> 0]
  /\ calls' = calls + 1
  /\ Goto(t, "reset_write")
  /\ UNCHANGED <<boot, exists, file, saved, lock, crashes>>

ResetWrite(t) ==
  /\ th[t].pc = "reset_write"
  /\ file' = [file EXCEPT !.hdr = info]
  /\ Goto(t, "reset_commit")
  /\ UNCHANGED <<boot, exists, saved, info, lock, calls, crashes, overlapped, granted>>

ResetCommit(t) ==
  /\ th[t].pc = "reset_commit"
  /\ saved' = file
  /\ Goto(t, "idle")
  /\ UNCHANGED <<boot, exists, file, info, lock, calls, crashes, overlapped, granted>>

-----------------------------------------------------------------------------
\* AM_DemoDatabase_Close, when no command is in progress.
Close ==
  /\ boot = "ready" /\ \A t \in Threads : Idle(t)
  /\ saved' = file /\ boot' = "closed"
  /\ UNCHANGED <<exists, file, info, lock, th, calls, crashes, overlapped, granted>>

\* Mutant: what was written is there after a crash, committed or not.
BugCrashKeepsFile ==
  /\ crashes < MaxCrashes
  /\ crashes' = crashes + 1
  /\ boot' = "open" /\ saved' = file /\ info' = Header0 /\ lock' = NoLock /\ th' = Stopped
  /\ UNCHANGED <<exists, file, calls, overlapped, granted>>

\* The power goes, and the module is started again.
Crash ==
  /\ crashes < MaxCrashes
  /\ crashes' = crashes + 1
  /\ boot' = "open" /\ file' = saved /\ info' = Header0 /\ lock' = NoLock /\ th' = Stopped
  /\ UNCHANGED <<exists, saved, calls, overlapped, granted>>

HasDemoLaunchRight(t) ==
  \/ Lock(t)            \/ CheckLimit(t) \/ Find(t)      \/ WriteTitleId(t)
  \/ WriteFirstCount(t) \/ CountEntry(t) \/ NextIndex(t) \/ WriteHeader(t)
  \/ BumpCount(t)       \/ Commit(t)     \/ Grant(t)

Next ==
  \/ OpenFile \/ FillFile \/ CommitNewFile \/ Close \/ Crash
  \/ \E t \in Threads :
       \/ \E x \in Titles : Call(t, x)
       \/ HasDemoLaunchRight(t)
       \/ ResetInfo(t) \/ ResetWrite(t) \/ ResetCommit(t)

Spec == Init /\ [][Next]_vars

-----------------------------------------------------------------------------
(* Properties *)

\* No command has the database, and none has ever overlapped with a reset,
\* which does not take the lock and leaves the arrays in any state.
Quiet == boot = "ready" /\ lock = NoLock /\ ~Resetting /\ ~overlapped

\* Each entry that the header makes valid has the play count of the title id
\* with the same index (demodb.h), and no title has two.
Whole(header, d) ==
  LET listed == {i \in Entries : i < header.count} IN
  /\ \A i \in listed : d.counts[i].of = d.tids[i]
  /\ \A i, j \in listed : d.tids[i] = d.tids[j] => i = j

\* A title whose ticket allows n launches is never granted more, whatever
\* sessions ask at once and whenever the power goes, as long as it is not
\* pushed out of the ring or the database cleared.
LimitRespected ==
  ~overlapped => \A x \in Titles : Limit[x] > 0 => granted[x] <= Limit[x]

\* The database is whole when no command has it, also when two sessions have
\* asked about a new title at once or the ring has wrapped; and what is in the
\* save data is whole at every moment the power could go.
DatabaseIsWhole ==
  /\ Quiet => Whole(info, file)
  /\ ~Resetting /\ ~overlapped => Whole(saved.hdr, saved)

\* A launch that was granted is in the save data before the client hears of it.
GrantIsDurable ==
  boot = "ready" /\ lock = NoLock /\ ~overlapped =>
    \A x \in Titles : granted[x] > 0 /\ Limit[x] > 0 =>
      \E i \in Entries : i < saved.hdr.count /\ saved.tids[i] = x /\ saved.counts[i].n >= granted[x]
=============================================================================
