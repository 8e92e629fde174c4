-------------------------- MODULE DemoDatabaseProofs --------------------------
(***************************************************************************)
(* Theorems about DemoDatabase, for any threads, titles and limits, any    *)
(* size of the ring and any number of crashes.                             *)
(*                                                                         *)
(* A launch is granted only after the commit, so what is in the save data  *)
(* is at any time a database that is whole and has counted every launch    *)
(* granted so far.  Between commands file and header agree with it; within *)
(* a command the invariant says, label by label, how far they have moved   *)
(* away.  All of it as long as no reset has overlapped with a command.     *)
(***************************************************************************)
EXTENDS DemoDatabase, TLAPS

LockLabels == {"check", "find", "tid", "count", "entry_count", "next_index", "header", "bump",
               "commit", "unlock"}
ResetLabels == {"reset_write", "reset_commit"}
DLabels == {"idle", "lock"} \union LockLabels \union ResetLabels

Headers == [next : Entries, count : 0..MaxEntries]
Files == [hdr : Headers, tids : [Entries -> Titles \union {NoTitle}],
          counts : [Entries -> [of : Titles \union {NoTitle}, n : Nat]], filled : SUBSET Int]

DTypeOK ==
  /\ boot \in {"open", "fill", "commit", "ready", "closed"}
  /\ exists \in BOOLEAN
  /\ file \in Files /\ saved \in Files /\ info \in Headers
  /\ lock \in Threads \union {NoLock}
  /\ th \in [Threads -> [pc : DLabels, title : Titles \union {NoTitle}, index : Entries]]
  /\ \A t \in Threads : th[t].pc \in {"lock"} \union LockLabels => th[t].title \in Titles
  /\ granted \in [Titles -> Nat]

Inside(t) == th[t].pc \in LockLabels
InReset(t) == th[t].pc \in ResetLabels

\* The lock is held by the one thread that is past it; a reset is alone.
Locking ==
  /\ lock \in Threads => Inside(lock)
  /\ \A t \in Threads : Inside(t) => lock = t
  /\ \A t \in Threads : ~Idle(t) => boot = "ready"
  /\ \A t, u \in Threads : InReset(t) /\ ~Idle(u) => t = u

\* Until the ring has wrapped, entries are added at the end.
Ring(header) == header.count < MaxEntries => header.next = header.count

\* Every launch that was granted has been counted.
Counted(header, d) ==
  \A x \in Titles : granted[x] > 0 /\ Limit[x] > 0 =>
    \E i \in Entries : i < header.count /\ d.tids[i] = x /\ d.counts[i].n >= granted[x]

Sound(header, d) == Ring(header) /\ Whole(header, d) /\ Counted(header, d)

Settled == file = saved /\ info = saved.hdr

Booting ==
  /\ boot = "open" => file = saved
  /\ boot \in {"fill", "commit"} => ~exists /\ file.hdr = Header0 /\ info = Header0
  /\ boot \in {"ready", "closed"} => exists
  /\ ~exists => saved.hdr = Header0
  /\ boot = "ready" /\ lock = NoLock /\ (\A t \in Threads : ~InReset(t)) => Settled

Allowed(x) == Limit[x] > 0 => \A i \in Matches(x) : file.counts[i].n < Limit[x]

\* The next launch is counted already, and still within the limit.
Grantable(x) ==
  Limit[x] > 0 =>
    granted[x] < Limit[x] /\ \E i \in Matches(x) : file.counts[i].n >= granted[x] + 1

\* The title id is written; its entry is not listed yet, or was another's.
Entering(x) ==
  /\ info = file.hdr /\ Ring(info) /\ Counted(info, file) /\ granted[x] = 0
  /\ file.tids[info.next] = x
  /\ \A i \in Entries : i < info.count /\ i # info.next =>
       /\ file.tids[i] # x /\ file.counts[i].of = file.tids[i]
       /\ \A j \in Entries : j < info.count /\ j # info.next /\ file.tids[i] = file.tids[j] => i = j

\* How far file and header have moved away from the save data, by label.
Working(t) ==
  LET x == th[t].title
      at(labels) == th[t].pc \in labels
  IN
  /\ at({"check", "find", "tid", "bump", "unlock"}) => Settled
  /\ at({"find", "tid", "bump"}) => Allowed(x)
  /\ at({"tid"}) => Matches(x) = {}
  /\ at({"bump"}) => th[t].index \in Matches(x)
  /\ at({"count", "entry_count"}) => Entering(x)
  /\ at({"entry_count"}) => file.counts[info.next] = [of |-> x, n |-> 1]
  /\ at({"next_index"}) =>
       /\ Whole(info, file) /\ Counted(info, file) /\ granted[x] = 0
       /\ info.next \in Matches(x) /\ file.counts[info.next].n = 1
       /\ info.count < MaxEntries => info.count = info.next + 1
  /\ at({"header"}) =>
       /\ Sound(info, file) /\ granted[x] = 0
       /\ \E i \in Matches(x) : file.counts[i].n = 1
  /\ at({"commit"}) => info = file.hdr /\ Sound(info, file)
  /\ at({"commit", "unlock"}) => Grantable(x)

\* A reset begins with nothing granted, and goes through header and file.
ResetGoes(t) ==
  /\ InReset(t) => info = Header0 /\ \A x \in Titles : granted[x] = 0
  /\ th[t].pc = "reset_commit" => file.hdr = Header0

DState ==
  /\ DTypeOK /\ Locking /\ Booting
  /\ Sound(saved.hdr, saved)
  /\ \A x \in Titles : Limit[x] > 0 => granted[x] <= Limit[x]
  /\ \A t \in Threads : Inside(t) => Working(t)
  /\ \A t \in Threads : ResetGoes(t)

DInv == overlapped \in BOOLEAN /\ (~overlapped => DState)

-----------------------------------------------------------------------------
\* The first entry is there for any ring, and no thread is none.
LEMMA EntriesBegin ==
  /\ 0 \in Entries /\ NoLock \notin Threads /\ NoTitle \notin Titles
  /\ \A i \in Entries : i \in Nat /\ i < MaxEntries
  /\ Header0 \in Headers /\ Blank \in Files
<1>1. /\ 0 \in Entries /\ NoLock \notin Threads /\ NoTitle \notin Titles
      /\ \A i \in Entries : i \in Nat /\ i < MaxEntries
  BY DatabaseAssumption DEF Entries, NoLock
<1>2. Header0 \in Headers
  BY <1>1, DatabaseAssumption DEF Header0, Headers
<1>3. Blank \in Files
  BY <1>2 DEF Blank, Files
<1>q. QED
  BY <1>1, <1>2, <1>3

\* In a database that is whole the first match is the last.
LEMMA UniqueMatch ==
  ASSUME NEW x \in Titles, Whole(info, file), NEW i \in Matches(x)
  PROVE  Matches(x) = {i} /\ FindIndex(x) = i /\ PlayCount(x) = file.counts[i].n
<1>1. i \in Entries /\ \A j \in Matches(x) : j = i
  BY DEF Matches, Whole
<1>2. i \in Int
  BY <1>1, EntriesBegin
<1>3. Matches(x) = {i}
  BY <1>1
<1>4. FindIndex(x) = i
  BY <1>2, <1>3 DEF FindIndex
<1>5. (CHOOSE k \in Matches(x) : \A j \in Matches(x) : k >= j) = i
  BY <1>2, <1>3
<1>q. QED
  BY <1>3, <1>4, <1>5 DEF PlayCount

\* An empty header lists nothing.
LEMMA EmptyIsSound ==
  ASSUME NEW d, \A x \in Titles : Limit[x] > 0 => ~(granted[x] > 0)
  PROVE  Sound(Header0, d)
<1>1. \A i \in Entries : ~(i < Header0.count)
  BY EntriesBegin DEF Header0
<1>2. Ring(Header0)
  BY DEF Ring, Header0
<1>q. QED
  BY <1>1, <1>2 DEF Sound, Whole, Counted

-----------------------------------------------------------------------------
\* The holder of the lock goes on to another label at which it holds it: the
\* others do not matter, and what is to be shown is its own label.
LEMMA HolderStep ==
  ASSUME DState, NEW t \in Threads, Inside(t), Inside(t)',
         UNCHANGED <<boot, exists, lock>>, DTypeOK',
         \A u \in Threads : u # t => th'[u] = th[u],
         Working(t)', Sound(saved.hdr, saved)',
         \A x \in Titles : Limit[x] > 0 => granted'[x] <= Limit[x]
  PROVE  DState'
<1>1. /\ lock = t /\ boot = "ready" /\ exists /\ lock # NoLock
      /\ ~Idle(t) /\ ~InReset(t) /\ ~Idle(t)' /\ ~InReset(t)'
      /\ \A u \in Threads : u # t => ~Inside(u) /\ ~InReset(u)
  BY EntriesBegin DEF DState, DTypeOK, Locking, Booting, Inside, InReset, Idle, LockLabels, ResetLabels
<1>2. \A u \in Threads : u # t => (Inside(u)' <=> Inside(u)) /\ (InReset(u)' <=> InReset(u)) /\ (Idle(u)' <=> Idle(u))
  BY DEF Inside, InReset, Idle
<1>3. Locking'
  BY <1>1, <1>2 DEF Locking, DState
<1>4. Booting'
  BY <1>1 DEF Booting
<1>5. \A u \in Threads : Inside(u)' => Working(u)'
  BY <1>1, <1>2
<1>6. \A u \in Threads : ResetGoes(u)'
  BY <1>1, <1>2 DEF ResetGoes, InReset, ResetLabels
<1>q. QED
  BY <1>3, <1>4, <1>5, <1>6 DEF DState

\* The holder of the lock leaves it, and nothing is under way.
LEMMA LeaveStep ==
  ASSUME DState, NEW t \in Threads, Inside(t), Settled, lock' = NoLock,
         UNCHANGED <<boot, exists, file, saved, info>>, th' = [th EXCEPT ![t].pc = "idle"],
         granted' \in [Titles -> Nat], Counted(saved.hdr, saved)',
         \A x \in Titles : Limit[x] > 0 => granted'[x] <= Limit[x]
  PROVE  DState'
<1>1. /\ lock = t /\ boot = "ready" /\ exists /\ ~Idle(t)
      /\ \A u \in Threads : u # t => ~Inside(u) /\ ~InReset(u)
  BY EntriesBegin DEF DState, DTypeOK, Locking, Booting, Inside, InReset, Idle, LockLabels, ResetLabels
<1>2. DTypeOK'
  BY DEF DState, DTypeOK, DLabels, LockLabels
<1>3. Idle(t)' /\ \A u \in Threads : u # t => th'[u] = th[u]
  BY DEF DState, DTypeOK, Idle
<1>4. \A u \in Threads : ~Inside(u)' /\ ~InReset(u)' /\ (~Idle(u)' => ~Idle(u))
  BY <1>1, <1>3 DEF Inside, InReset, Idle, LockLabels, ResetLabels
<1>5. Locking'
  BY <1>4, EntriesBegin DEF Locking, DState
<1>6. Booting'
  BY <1>1 DEF Booting, Settled
<1>7. Sound(saved.hdr, saved)'
  BY DEF DState, Sound, Ring, Whole
<1>8. \A u \in Threads : ResetGoes(u)'
  BY <1>4 DEF ResetGoes, InReset, ResetLabels
<1>q. QED
  BY <1>2, <1>4, <1>5, <1>6, <1>7, <1>8 DEF DState

-----------------------------------------------------------------------------
\* Nothing was granted, and the file is not there yet.
LEMMA DInitState == Init => DInv
<1> SUFFICES ASSUME Init PROVE DInv
  OBVIOUS
<1> USE EntriesBegin
<1>1. DTypeOK
  BY DEF Init, DTypeOK, Stopped, DLabels, LockLabels
<1>2. \A t \in Threads : th[t].pc = "idle"
  BY DEF Init, Stopped
<1>3. Locking
  BY <1>2 DEF Init, Locking, Inside, InReset, Idle, LockLabels, ResetLabels
<1>4. Booting
  BY DEF Init, Booting, Blank
<1>5. Sound(saved.hdr, saved)
  BY EmptyIsSound DEF Init, Blank
<1>6. \A x \in Titles : Limit[x] > 0 => granted[x] <= Limit[x]
  BY DatabaseAssumption DEF Init
<1>7. \A t \in Threads : ~Inside(t) /\ ResetGoes(t)
  BY <1>2 DEF Inside, ResetGoes, InReset, LockLabels, ResetLabels
<1>q. QED
  BY <1>1, <1>3, <1>4, <1>5, <1>6, <1>7 DEF Init, DInv, DState

\* Before the database is ready no command is in progress.
LEMMA NobodyYet ==
  ASSUME DState, (boot # "ready") \/ \A t \in Threads : Idle(t)
  PROVE  lock = NoLock /\ \A t \in Threads : Idle(t) /\ ~Inside(t) /\ ~InReset(t)
BY EntriesBegin
DEF DState, DTypeOK, Locking, Inside, InReset, Idle, LockLabels, ResetLabels

\* AM_DemoDatabase_Initialize and AM_DemoDatabase_Close leave threads and
\* launches alone.
LEMMA QuietStep ==
  ASSUME DState, \A t \in Threads : Idle(t), UNCHANGED <<lock, th, granted>>,
         boot' \in {"open", "fill", "commit", "ready", "closed"}, exists' \in BOOLEAN,
         file' \in Files, saved' \in Files, info' \in Headers,
         Booting', Sound(saved.hdr, saved)'
  PROVE  DState'
<1>1. \A t \in Threads : /\ Idle(t)' /\ Idle(t) /\ ~Inside(t) /\ ~InReset(t)
                         /\ ~Inside(t)' /\ ~InReset(t)'
  BY NobodyYet DEF Idle, Inside, InReset
<1>2. DTypeOK'
  BY DEF DState, DTypeOK
<1>3. Locking'
  BY <1>1 DEF Locking, DState, Inside
<1>4. \A t \in Threads : ResetGoes(t)'
  BY <1>1 DEF ResetGoes, InReset, ResetLabels
<1>q. QED
  BY <1>1, <1>2, <1>3, <1>4 DEF DState

\* Opening reads the header that was committed or starts an empty one.
LEMMA BootStep ==
  ASSUME DState, OpenFile \/ FillFile \/ CommitNewFile \/ Close
  PROVE  DState'
<1> USE EntriesBegin
<1> USE DEF DState
<1>1. \A t \in Threads : Idle(t)
  BY NobodyYet DEF OpenFile, FillFile, CommitNewFile, Close
<1>2. UNCHANGED <<lock, th, granted>>
  BY DEF OpenFile, FillFile, CommitNewFile, Close
<1>3. lock = NoLock /\ \A t \in Threads : ~InReset(t)
  BY <1>1, NobodyYet
<1>4. CASE OpenFile
  <2>1. UNCHANGED <<saved, granted>> /\ boot = "open" /\ file = saved
    BY <1>4 DEF OpenFile, Booting
  <2>2. CASE exists /\ info' = file.hdr /\ boot' = "ready" /\ UNCHANGED <<file, exists>>
    <3>1. info' \in Headers
      BY <2>2 DEF DTypeOK, Files
    <3>2. Booting'
      BY <2>1, <2>2 DEF Booting, Settled
    <3>3. Sound(saved.hdr, saved)'
      BY <2>1 DEF Sound, Ring, Whole, Counted
    <3>q. QED
      BY <1>1, <1>2, <2>1, <2>2, <3>1, <3>2, <3>3, QuietStep DEF DTypeOK
  <2>3. CASE ~exists /\ file' = [Blank EXCEPT !.filled = 0..7] /\ info' = Header0 /\ boot' = "fill" /\ UNCHANGED exists
    <3>1. file' \in Files /\ file'.hdr = Header0
      <4>1. Blank.hdr = Header0
        BY DEF Blank
      <4>q. QED
        BY <2>3, <4>1 DEF Files
    <3>2. Booting'
      BY <2>1, <2>3, <3>1 DEF Booting, Settled
    <3>3. Sound(saved.hdr, saved)'
      BY <2>1 DEF Sound, Ring, Whole, Counted
    <3>q. QED
      BY <1>1, <1>2, <2>1, <2>3, <3>1, <3>2, <3>3, QuietStep DEF DTypeOK
  <2>q. QED
    BY <1>4, <2>2, <2>3 DEF OpenFile
<1>5. CASE FillFile
  <2>1. PICK bytes : file' = [file EXCEPT !.filled = @ \union bytes] /\ bytes \subseteq Int
    <3>1. UNION {(i + 8)..(i + 7 + BufBytes) : i \in FillOffsets} \subseteq Int
      OBVIOUS
    <3>q. QED
      BY <1>5, <3>1 DEF FillFile
  <2>2. file' \in Files /\ file'.hdr = file.hdr
    BY <2>1 DEF DTypeOK, Files
  <2>3. UNCHANGED <<exists, saved, info, granted>> /\ boot = "fill" /\ boot' = "commit"
    BY <1>5 DEF FillFile
  <2>4. Booting'
    BY <2>2, <2>3 DEF Booting
  <2>5. Sound(saved.hdr, saved)'
    BY <2>3 DEF Sound, Ring, Whole, Counted
  <2>q. QED
    BY <1>1, <1>2, <2>2, <2>3, <2>4, <2>5, QuietStep DEF DTypeOK
<1>6. CASE CommitNewFile
  <2>1. /\ saved' = file /\ exists' = TRUE /\ boot' = "ready" /\ boot = "commit"
        /\ UNCHANGED <<file, info, granted>>
    BY <1>6 DEF CommitNewFile
  <2>2. ~exists /\ file.hdr = Header0 /\ info = Header0 /\ saved.hdr = Header0
    BY <2>1 DEF Booting
  <2>3. Booting'
    BY <2>1, <2>2 DEF Booting, Settled
  <2>4. \A x \in Titles : Limit[x] > 0 => ~(granted[x] > 0)
    BY <2>2 DEF Sound, Counted, Header0
  <2>5. Sound(saved.hdr, saved)'
    <3>1. \A x \in Titles : Limit[x] > 0 => ~(granted'[x] > 0)
      BY <2>1, <2>4
    <3>2. saved'.hdr = Header0
      BY <2>1, <2>2
    <3>q. QED
      BY <3>1, <3>2 DEF Sound, Ring, Whole, Counted, Header0
  <2>q. QED
    BY <1>1, <1>2, <2>1, <2>3, <2>5, QuietStep DEF DTypeOK
<1>7. CASE Close
  <2>1. saved' = file /\ boot' = "closed" /\ boot = "ready" /\ UNCHANGED <<exists, file, info, granted>>
    BY <1>7 DEF Close
  <2>2. Settled /\ lock = NoLock /\ exists
    BY <1>3, <2>1 DEF Booting
  <2>3. UNCHANGED saved
    BY <2>1, <2>2 DEF Settled
  <2>4. Booting'
    BY <2>1, <2>2, <2>3 DEF Booting
  <2>5. Sound(saved.hdr, saved)'
    BY <2>1, <2>3 DEF Sound, Ring, Whole, Counted
  <2>q. QED
    BY <1>1, <1>2, <2>1, <2>3, <2>4, <2>5, QuietStep DEF DTypeOK
<1>q. QED
  BY <1>4, <1>5, <1>6, <1>7

\* A crash forgets whatever was not committed, and so nothing granted.
LEMMA CrashStep ==
  ASSUME DState, Crash
  PROVE  DState'
<1> USE EntriesBegin
<1> USE DEF DState
<1>1. /\ boot' = "open" /\ file' = saved /\ info' = Header0 /\ lock' = NoLock /\ th' = Stopped
      /\ UNCHANGED <<exists, saved, granted>>
  BY DEF Crash
<1>2. \A t \in Threads : /\ th'[t].pc = "idle" /\ Idle(t)'
                         /\ ~Inside(t)' /\ ~InReset(t)'
  BY <1>1 DEF Stopped, Idle, Inside, InReset, LockLabels, ResetLabels
<1>3. th' \in [Threads -> [pc : DLabels, title : Titles \union {NoTitle}, index : Entries]]
  BY <1>1 DEF Stopped, DLabels
<1>4. DTypeOK'
  BY <1>1, <1>2, <1>3 DEF DTypeOK, LockLabels
<1>5. Locking'
  BY <1>1, <1>2 DEF Locking
<1>6. Booting'
  BY <1>1 DEF Booting
<1>7. Sound(saved.hdr, saved)'
  BY <1>1 DEF Sound, Ring, Whole, Counted
<1>8. \A t \in Threads : ResetGoes(t)'
  BY <1>2 DEF ResetGoes, InReset, ResetLabels
<1>q. QED
  BY <1>1, <1>2, <1>4, <1>5, <1>6, <1>7, <1>8

-----------------------------------------------------------------------------
\* A command waits for the lock.
LEMMA CallStep ==
  ASSUME DState, NEW t \in Threads, NEW x \in Titles, Call(t, x), ~Resetting
  PROVE  DState'
<1> USE DEF DState
<1>1. /\ boot = "ready" /\ Idle(t)
      /\ UNCHANGED <<boot, exists, file, saved, info, lock, granted>>
      /\ th' = [th EXCEPT ![t] = [pc |-> "lock", title |-> x, index |-> 0]]
  BY DEF Call
<1>2. /\ th'[t] = [pc |-> "lock", title |-> x, index |-> 0]
      /\ \A u \in Threads : u # t => th'[u] = th[u]
  BY <1>1 DEF DTypeOK
<1>3. DTypeOK'
  BY <1>1, <1>2, EntriesBegin DEF DTypeOK, DLabels, LockLabels
<1>4. ~Inside(t)' /\ ~Inside(t)
  BY <1>1, <1>2 DEF Inside, Idle, LockLabels
<1>5. \A u \in Threads : ~InReset(u) /\ ~InReset(u)'
  BY <1>1, <1>2 DEF InReset, Resetting, ResetLabels
<1>6. \A u \in Threads : u # t => (Inside(u)' <=> Inside(u)) /\ (Idle(u)' <=> Idle(u))
  BY <1>2 DEF Inside, Idle
<1>7. Locking'
  <2>1. lock' \in Threads => Inside(lock)'
    BY <1>1, <1>4, <1>6 DEF Locking
  <2>q. QED
    BY <1>1, <1>4, <1>5, <1>6, <2>1 DEF Locking
<1>8. Booting'
  BY <1>1, <1>5 DEF Booting, Settled
<1>9. Sound(saved.hdr, saved)'
  BY <1>1 DEF Sound, Ring, Whole, Counted
<1>10. \A u \in Threads : Inside(u)' => Working(u)'
  <2> SUFFICES ASSUME NEW u \in Threads, Inside(u)' PROVE Working(u)'
    OBVIOUS
  <2>1. u # t /\ th'[u] = th[u] /\ Working(u)
    BY <1>2, <1>4, <1>6
  <2>q. QED
    BY <1>1, <2>1
    DEF Working, Settled, Allowed, Matches, Entering, Ring, Counted, Whole, Sound, Grantable
<1>11. \A u \in Threads : ResetGoes(u)'
  BY <1>5 DEF ResetGoes, InReset, ResetLabels
<1>q. QED
  BY <1>1, <1>3, <1>7, <1>8, <1>9, <1>10, <1>11

\* The lock is free, so what the database says is in the save data.
LEMMA LockStep ==
  ASSUME DState, NEW t \in Threads, Lock(t)
  PROVE  DState'
<1> USE EntriesBegin
<1> USE DEF DState
<1>1. /\ th[t].pc = "lock" /\ lock = NoLock /\ lock' = t
      /\ UNCHANGED <<boot, exists, file, saved, info, granted>>
      /\ th' = [th EXCEPT ![t].pc = "check"]
  BY DEF Lock, Goto
<1>2. th'[t].pc = "check" /\ \A u \in Threads : u # t => th'[u] = th[u]
  BY <1>1 DEF DTypeOK
<1>3. DTypeOK'
  BY <1>1, <1>2 DEF DTypeOK, DLabels, LockLabels
<1>4. ~Idle(t) /\ ~InReset(t)' /\ Inside(t)' /\ ~InReset(t)
  BY <1>1, <1>2 DEF Idle, InReset, Inside, LockLabels, ResetLabels
<1>5. \A u \in Threads : ~InReset(u) /\ ~InReset(u)'
  BY <1>2, <1>4 DEF Locking, InReset
<1>6. \A u \in Threads : u # t => ~Inside(u) /\ ~Inside(u)' /\ (Idle(u)' <=> Idle(u))
  BY <1>1, <1>2 DEF Locking, Inside, Idle
<1>7. Settled /\ boot = "ready" /\ exists
  BY <1>1, <1>4, <1>5 DEF Booting, Locking
<1>8. Locking'
  BY <1>1, <1>4, <1>5, <1>6, <1>7 DEF Locking
<1>9. Booting'
  BY <1>1, <1>7 DEF Booting
<1>10. Sound(saved.hdr, saved)'
  BY <1>1 DEF Sound, Ring, Whole, Counted
<1>11. Working(t)'
  BY <1>1, <1>2, <1>7 DEF Working, Settled
<1>12. \A u \in Threads : ResetGoes(u)'
  BY <1>5 DEF ResetGoes, InReset, ResetLabels
<1>q. QED
  BY <1>1, <1>3, <1>6, <1>8, <1>9, <1>10, <1>11, <1>12

\* A title may go on as long as its count is below the limit.
LEMMA CheckStep ==
  ASSUME DState, NEW t \in Threads, CheckLimit(t)
  PROVE  DState'
<1> USE DEF DState
<1> DEFINE x == th[t].title
<1>1. /\ th[t].pc = "check" /\ Inside(t) /\ Settled /\ Whole(info, file) /\ x \in Titles
      /\ UNCHANGED <<boot, exists, file, saved, info, granted>>
  BY DEF CheckLimit, Inside, LockLabels, Working, Settled, Sound, DTypeOK
<1>2. CASE lock' = NoLock /\ Goto(t, "idle")
  <2>1. Counted(saved.hdr, saved)'
    BY <1>1 DEF Sound, Counted
  <2>q. QED
    BY <1>1, <1>2, <2>1, LeaveStep DEF Goto, DTypeOK
<1>3. CASE /\ ~(Limit[x] > 0 /\ Matches(x) # {} /\ PlayCount(x) >= Limit[x])
           /\ UNCHANGED lock /\ Goto(t, "find")
  <2>1. /\ th'[t].pc = "find" /\ th'[t].title = x
        /\ \A u \in Threads : u # t => th'[u] = th[u]
    BY <1>3 DEF Goto, DTypeOK
  <2>2. DTypeOK'
    BY <1>1, <1>3 DEF DTypeOK, Goto, DLabels, LockLabels
  <2>3. Allowed(x)
    <3> SUFFICES ASSUME Limit[x] > 0, NEW i \in Matches(x) PROVE file.counts[i].n < Limit[x]
      BY DEF Allowed
    <3>1. PlayCount(x) = file.counts[i].n
      BY <1>1, UniqueMatch
    <3>2. file.counts[i].n \in Nat /\ Limit[x] \in Nat
      BY <1>1, DatabaseAssumption DEF DTypeOK, Files, Matches
    <3>q. QED
      BY <1>3, <3>1, <3>2
  <2>4. Working(t)'
    BY <1>1, <2>1, <2>3 DEF Working, Settled, Allowed, Matches
  <2>5. Sound(saved.hdr, saved)'
    BY <1>1 DEF Sound, Ring, Whole, Counted
  <2>q. QED
    BY <1>1, <1>3, <2>1, <2>2, <2>4, <2>5, HolderStep DEF Inside, LockLabels
<1>q. QED
  BY <1>2, <1>3 DEF CheckLimit

\* The entry of the title, or none.
LEMMA FindStep ==
  ASSUME DState, NEW t \in Threads, Find(t)
  PROVE  DState'
<1> USE DEF DState
<1> DEFINE x == th[t].title
<1>1. /\ th[t].pc = "find" /\ Inside(t) /\ Settled /\ Whole(info, file) /\ x \in Titles /\ Allowed(x)
      /\ UNCHANGED <<boot, exists, file, saved, info, lock, granted>>
  BY DEF Find, Inside, LockLabels, Working, Settled, Sound, DTypeOK
<1>2. /\ th' = [th EXCEPT ![t] = [th[t] EXCEPT !.pc = IF Matches(x) = {} THEN "tid" ELSE "bump",
                                   !.index = IF Matches(x) = {} THEN 0 ELSE FindIndex(x)]]
  BY DEF Find
<1>3. \A i \in Matches(x) : FindIndex(x) = i /\ i \in Entries
  BY <1>1, UniqueMatch DEF Matches
<1>4. /\ th'[t] = [th[t] EXCEPT !.pc = IF Matches(x) = {} THEN "tid" ELSE "bump",
                                !.index = IF Matches(x) = {} THEN 0 ELSE FindIndex(x)]
      /\ \A u \in Threads : u # t => th'[u] = th[u]
  BY <1>2 DEF DTypeOK
<1>5. /\ th'[t].title = x /\ th'[t].pc \in {"tid", "bump"} /\ th'[t].index \in Entries
      /\ th'[t].pc = "tid" => Matches(x) = {}
      /\ th'[t].pc = "bump" => th'[t].index \in Matches(x)
  BY <1>3, <1>4, EntriesBegin DEF DTypeOK
<1>6. DTypeOK'
  <2>1. th'[t] \in [pc : DLabels, title : Titles \union {NoTitle}, index : Entries]
    BY <1>4, <1>5 DEF DTypeOK, DLabels, LockLabels
  <2>q. QED
    BY <1>1, <1>2, <1>4, <1>5, <2>1 DEF DTypeOK
<1>7. Working(t)'
  BY <1>1, <1>5 DEF Working, Settled, Allowed, Matches
<1>8. Sound(saved.hdr, saved)'
  BY <1>1 DEF Sound, Ring, Whole, Counted
<1>q. QED
  BY <1>1, <1>4, <1>5, <1>6, <1>7, <1>8, HolderStep DEF Inside, LockLabels

-----------------------------------------------------------------------------
\* What a step from label to label leaves as it is.
LEMMA GotoFacts ==
  ASSUME DTypeOK, NEW t \in Threads, Inside(t), NEW l \in LockLabels, Goto(t, l),
         UNCHANGED <<boot, exists, lock>>,
         file' \in Files, saved' \in Files, info' \in Headers, granted' \in [Titles -> Nat]
  PROVE  /\ DTypeOK' /\ Inside(t)'
         /\ th'[t].pc = l /\ th'[t].title = th[t].title /\ th'[t].index = th[t].index
         /\ \A u \in Threads : u # t => th'[u] = th[u]
<1>1. /\ th' = [th EXCEPT ![t] = [th[t] EXCEPT !.pc = l]]
      /\ th[t].title \in Titles
  BY DEF Goto, DTypeOK, Inside
<1>2. /\ th'[t] = [th[t] EXCEPT !.pc = l]
      /\ \A u \in Threads : u # t => th'[u] = th[u]
  BY <1>1 DEF DTypeOK
<1>3. /\ th'[t].pc = l /\ th'[t].title = th[t].title /\ th'[t].index = th[t].index
      /\ th'[t] \in [pc : DLabels, title : Titles \union {NoTitle}, index : Entries]
  BY <1>2 DEF DTypeOK, DLabels
<1>4. th' \in [Threads -> [pc : DLabels, title : Titles \union {NoTitle}, index : Entries]]
  BY <1>1, <1>3 DEF DTypeOK
<1>5. DTypeOK'
  BY <1>1, <1>2, <1>3, <1>4 DEF DTypeOK
<1>q. QED
  BY <1>2, <1>3, <1>5 DEF Inside

\* The title id goes where the ring says; if it replaces another title's, that
\* one's launches are forgotten.
LEMMA WriteTitleIdStep ==
  ASSUME DState, NEW t \in Threads, WriteTitleId(t)
  PROVE  DState'
<1> USE DEF DState
<1> DEFINE x == th[t].title
           k == info.next
<1>1. /\ th[t].pc = "tid" /\ Inside(t) /\ Settled /\ x \in Titles /\ Allowed(x) /\ Matches(x) = {}
      /\ Sound(info, file) /\ info = file.hdr
      /\ UNCHANGED <<boot, exists, saved, info, lock>>
      /\ Goto(t, "count")
  BY DEF WriteTitleId, Inside, LockLabels, Working, Settled, DTypeOK
<1>2. k \in Entries /\ info.count \in 0..MaxEntries /\ file \in Files
  BY DEF DTypeOK, Headers
<1>3. file' = [file EXCEPT !.tids = [file.tids EXCEPT ![k] = x]]
  BY DEF WriteTitleId
<1>4. /\ file' \in Files /\ file'.hdr = file.hdr /\ file'.counts = file.counts /\ file'.tids[k] = x
      /\ \A i \in Entries : i # k => file'.tids[i] = file.tids[i]
  BY <1>1, <1>2, <1>3 DEF Files
<1>5. /\ granted' \in [Titles -> Nat] /\ granted'[x] = 0
      /\ \A y \in Titles : \/ granted'[y] = 0
                           \/ granted'[y] = granted[y] /\ y # x /\ ~(y = file.tids[k] /\ info.count = MaxEntries)
  BY <1>1 DEF WriteTitleId, DTypeOK
<1>6. /\ DTypeOK' /\ Inside(t)' /\ th'[t].pc = "count" /\ th'[t].title = x
      /\ \A u \in Threads : u # t => th'[u] = th[u]
  BY <1>1, <1>4, <1>5, GotoFacts DEF DTypeOK, LockLabels
<1>7. Sound(saved.hdr, saved)'
  BY <1>1, <1>5 DEF Sound, Ring, Whole, Counted
<1>8. \A y \in Titles : Limit[y] > 0 => granted'[y] <= Limit[y]
  BY <1>5, DatabaseAssumption
<1>9. Counted(info, file)'
  <2> SUFFICES ASSUME NEW y \in Titles, granted'[y] > 0, Limit[y] > 0
               PROVE  \E i \in Entries : i < info.count /\ file'.tids[i] = y /\ file'.counts[i].n >= granted'[y]
    BY <1>1 DEF Counted
  <2>1. granted'[y] = granted[y] /\ y # x /\ ~(y = file.tids[k] /\ info.count = MaxEntries)
    BY <1>5
  <2>2. PICK i \in Entries : i < info.count /\ file.tids[i] = y /\ file.counts[i].n >= granted[y]
    BY <1>1, <2>1 DEF Sound, Counted
  <2>3. i # k
    BY <1>1, <1>2, <2>1, <2>2, EntriesBegin, DatabaseAssumption DEF Sound, Ring
  <2>q. QED
    BY <1>4, <2>1, <2>2, <2>3
<1>10. Entering(x)'
  <2>1. \A i \in Entries : i < info.count => file.tids[i] # x /\ file.counts[i].of = file.tids[i]
    BY <1>1 DEF Matches, Sound, Whole
  <2>2. \A i, j \in Entries : i < info.count /\ j < info.count /\ file.tids[i] = file.tids[j] => i = j
    BY <1>1 DEF Sound, Whole
  <2>3. Ring(info)' /\ info' = file'.hdr
    BY <1>1, <1>4 DEF Sound, Ring
  <2>q. QED
    BY <1>1, <1>4, <1>5, <1>6, <1>9, <2>1, <2>2, <2>3 DEF Entering
<1>11. Working(t)'
  BY <1>6, <1>10 DEF Working
<1>q. QED
  BY <1>1, <1>6, <1>7, <1>8, <1>11, HolderStep

\* The count goes beside the title id: next_entry_index has not moved.
LEMMA WriteFirstCountStep ==
  ASSUME DState, NEW t \in Threads, WriteFirstCount(t)
  PROVE  DState'
<1> USE DEF DState
<1> DEFINE x == th[t].title
           k == info.next
           first == [of |-> x, n |-> 1]
<1>1. /\ th[t].pc = "count" /\ Inside(t) /\ x \in Titles /\ Entering(x)
      /\ UNCHANGED <<boot, exists, saved, info, lock, granted>>
      /\ Goto(t, "entry_count")
  BY DEF WriteFirstCount, Inside, LockLabels, Working, DTypeOK
<1>2. k \in Entries /\ file \in Files
  BY DEF DTypeOK, Headers
<1>3. file' = [file EXCEPT !.counts = [file.counts EXCEPT ![k] = first]]
  BY DEF WriteFirstCount
<1>4. /\ file' \in Files /\ file'.hdr = file.hdr /\ file'.tids = file.tids /\ file'.counts[k] = first
      /\ \A i \in Entries : i # k => file'.counts[i] = file.counts[i]
  BY <1>1, <1>2, <1>3 DEF Files
<1>5. /\ DTypeOK' /\ Inside(t)' /\ th'[t].pc = "entry_count" /\ th'[t].title = x
      /\ \A u \in Threads : u # t => th'[u] = th[u]
  BY <1>1, <1>4, GotoFacts DEF DTypeOK, LockLabels
<1>6. Sound(saved.hdr, saved)'
  BY <1>1 DEF Sound, Ring, Whole, Counted
<1>7. Counted(info, file)'
  <2> SUFFICES ASSUME NEW y \in Titles, granted[y] > 0, Limit[y] > 0
               PROVE  \E i \in Entries : i < info.count /\ file'.tids[i] = y /\ file'.counts[i].n >= granted[y]
    BY <1>1 DEF Counted
  <2>1. PICK i \in Entries : i < info.count /\ file.tids[i] = y /\ file.counts[i].n >= granted[y]
    BY <1>1 DEF Entering, Counted
  <2>2. y # x /\ file.tids[k] = x
    BY <1>1 DEF Entering
  <2>q. QED
    BY <1>4, <2>1, <2>2
<1>8. Entering(x)'
  BY <1>1, <1>4, <1>5, <1>7 DEF Entering, Ring
<1>9. Working(t)'
  BY <1>1, <1>4, <1>5, <1>8 DEF Working
<1>q. QED
  BY <1>1, <1>5, <1>6, <1>9, HolderStep

\* Now the new entry is listed, and it is the only one of its title.
LEMMA CountEntryStep ==
  ASSUME DState, NEW t \in Threads, CountEntry(t)
  PROVE  DState'
<1> USE EntriesBegin, DatabaseAssumption
<1> USE DEF DState
<1> DEFINE x == th[t].title
           k == info.next
<1>1. /\ th[t].pc = "entry_count" /\ Inside(t) /\ x \in Titles /\ Entering(x)
      /\ file.counts[k] = [of |-> x, n |-> 1]
      /\ UNCHANGED <<boot, exists, file, saved, lock, granted>>
      /\ Goto(t, "next_index")
  BY DEF CountEntry, Inside, LockLabels, Working, DTypeOK
<1>2. k \in Entries /\ info.count \in 0..MaxEntries
  BY DEF DTypeOK, Headers
<1>3. /\ info' \in Headers /\ info'.next = k
      /\ info'.count = IF info.count < MaxEntries THEN info.count + 1 ELSE info.count
  BY <1>2 DEF CountEntry, DTypeOK, Headers
<1>4. /\ DTypeOK' /\ Inside(t)' /\ th'[t].pc = "next_index" /\ th'[t].title = x
      /\ \A u \in Threads : u # t => th'[u] = th[u]
  BY <1>1, <1>3, GotoFacts DEF DTypeOK, LockLabels
<1>5. Sound(saved.hdr, saved)'
  BY <1>1 DEF Sound, Ring, Whole, Counted
<1>6. k < info'.count /\ (info'.count < MaxEntries => info'.count = k + 1)
  BY <1>1, <1>2, <1>3 DEF Entering, Ring
<1>7. \A i \in Entries : i < info'.count <=> i < info.count \/ i = k
  BY <1>1, <1>2, <1>3, <1>6 DEF Entering, Ring
<1>8. Whole(info, file)'
  BY <1>1, <1>7 DEF Entering, Whole
<1>9. Counted(info, file)'
  BY <1>1, <1>7 DEF Entering, Counted
<1>10. k \in Matches(x)'
  BY <1>1, <1>2, <1>3, <1>4, <1>6 DEF Entering, Matches
<1>11. Working(t)'
  BY <1>1, <1>3, <1>4, <1>6, <1>8, <1>9, <1>10 DEF Working, Entering
<1>q. QED
  BY <1>1, <1>4, <1>5, <1>11, HolderStep

\* The ring goes on behind the new entry.
LEMMA NextIndexStep ==
  ASSUME DState, NEW t \in Threads, NextIndex(t)
  PROVE  DState'
<1> USE EntriesBegin, DatabaseAssumption
<1> USE DEF DState
<1> DEFINE x == th[t].title
           k == info.next
<1>1. /\ th[t].pc = "next_index" /\ Inside(t) /\ x \in Titles
      /\ Whole(info, file) /\ Counted(info, file) /\ granted[x] = 0
      /\ k \in Matches(x) /\ file.counts[k].n = 1
      /\ info.count < MaxEntries => info.count = k + 1
      /\ UNCHANGED <<boot, exists, file, saved, lock, granted>>
      /\ Goto(t, "header")
  BY DEF NextIndex, Inside, LockLabels, Working, DTypeOK
<1>2. k \in Entries /\ info.count \in 0..MaxEntries
  BY DEF DTypeOK, Headers
<1>3. /\ info' \in Headers /\ info'.count = info.count
      /\ info'.next = IF k = MaxEntries - 1 THEN 0 ELSE k + 1
  <2>1. (IF k = MaxEntries - 1 THEN 0 ELSE k + 1) \in Entries
    BY <1>2 DEF Entries
  <2>q. QED
    BY <1>2, <2>1 DEF NextIndex, DTypeOK, Headers
<1>4. /\ DTypeOK' /\ Inside(t)' /\ th'[t].pc = "header" /\ th'[t].title = x
      /\ \A u \in Threads : u # t => th'[u] = th[u]
  BY <1>1, <1>3, GotoFacts DEF DTypeOK, LockLabels
<1>5. Sound(saved.hdr, saved)'
  BY <1>1 DEF Sound, Ring, Whole, Counted
<1>6. Sound(info, file)'
  <2>1. Ring(info)'
    BY <1>1, <1>2, <1>3 DEF Ring
  <2>q. QED
    BY <1>1, <1>3, <2>1 DEF Sound, Whole, Counted
<1>7. k \in Matches(x)'
  BY <1>1, <1>3, <1>4 DEF Matches
<1>8. Working(t)'
  BY <1>1, <1>4, <1>6, <1>7 DEF Working
<1>q. QED
  BY <1>1, <1>4, <1>5, <1>8, HolderStep

\* The header in the file is the one in memory again.
LEMMA WriteHeaderStep ==
  ASSUME DState, NEW t \in Threads, WriteHeader(t)
  PROVE  DState'
<1> USE DEF DState
<1> DEFINE x == th[t].title
<1>1. /\ th[t].pc = "header" /\ Inside(t) /\ x \in Titles
      /\ Sound(info, file) /\ granted[x] = 0
      /\ \E i \in Matches(x) : file.counts[i].n = 1
      /\ UNCHANGED <<boot, exists, saved, info, lock, granted>>
      /\ Goto(t, "commit")
  BY DEF WriteHeader, Inside, LockLabels, Working, DTypeOK
<1>2. /\ file' \in Files /\ file'.hdr = info /\ file'.tids = file.tids /\ file'.counts = file.counts
  BY DEF WriteHeader, DTypeOK, Files
<1>3. /\ DTypeOK' /\ Inside(t)' /\ th'[t].pc = "commit" /\ th'[t].title = x
      /\ \A u \in Threads : u # t => th'[u] = th[u]
  BY <1>1, <1>2, GotoFacts DEF DTypeOK, LockLabels
<1>4. Sound(saved.hdr, saved)'
  BY <1>1 DEF Sound, Ring, Whole, Counted
<1>5. Sound(info, file)'
  BY <1>1, <1>2 DEF Sound, Ring, Whole, Counted
<1>6. Grantable(x)'
  <2>1. \E i \in Matches(x)' : file'.counts[i].n = 1
    BY <1>1, <1>2, <1>3 DEF Matches
  <2>2. granted'[x] = 0
    BY <1>1
  <2>q. QED
    BY <1>1, <1>3, <2>1, <2>2 DEF Grantable
<1>7. Working(t)'
  BY <1>1, <1>2, <1>3, <1>5, <1>6 DEF Working
<1>q. QED
  BY <1>1, <1>3, <1>4, <1>7, HolderStep

\* One launch more of a title in the database: below its limit, so the count
\* does not wrap.
LEMMA BumpCountStep ==
  ASSUME DState, NEW t \in Threads, BumpCount(t)
  PROVE  DState'
<1> USE DEF DState
<1> DEFINE x == th[t].title
           k == th[t].index
           n == file.counts[k].n
           more == [of |-> x, n |-> (n + 1) % CountMod]
<1>1. /\ th[t].pc = "bump" /\ Inside(t) /\ x \in Titles /\ k \in Matches(x)
      /\ Settled /\ Allowed(x) /\ Sound(info, file) /\ info = file.hdr
      /\ UNCHANGED <<boot, exists, saved, info, lock, granted>>
      /\ Goto(t, "commit")
  BY DEF BumpCount, Inside, LockLabels, Working, Settled, DTypeOK
<1>2. k \in Entries /\ k < info.count /\ file.tids[k] = x /\ file \in Files /\ n \in Nat
  BY <1>1 DEF Matches, DTypeOK, Files
<1>3. file' = [file EXCEPT !.counts = [file.counts EXCEPT ![k] = more]]
  BY DEF BumpCount
<1>4. (n + 1) % CountMod \in Nat
  BY <1>2, DatabaseAssumption, SMTT(60)
<1>5. /\ file' \in Files /\ file'.hdr = file.hdr /\ file'.tids = file.tids /\ file'.counts[k] = more
      /\ \A i \in Entries : i # k => file'.counts[i] = file.counts[i]
  BY <1>1, <1>2, <1>3, <1>4 DEF Files
<1>6. Limit[x] > 0 => n < Limit[x] /\ granted[x] <= n /\ more.n = n + 1
  <2> SUFFICES ASSUME Limit[x] > 0 PROVE n < Limit[x] /\ granted[x] <= n /\ more.n = n + 1
    OBVIOUS
  <2>1. n < Limit[x] /\ Limit[x] \in 0..(CountMod - 1) /\ CountMod \in Nat
    BY <1>1, DatabaseAssumption DEF Allowed
  <2>2. (n + 1) % CountMod = n + 1
    BY <1>2, <2>1
  <2>3. granted[x] <= n
    <3>1. CASE granted[x] > 0
      <4>1. PICK i \in Entries : i < info.count /\ file.tids[i] = x /\ file.counts[i].n >= granted[x]
        BY <1>1, <3>1 DEF Sound, Counted
      <4>2. i = k
        BY <1>1, <1>2, <4>1 DEF Sound, Whole
      <4>q. QED
        BY <1>2, <4>1, <4>2 DEF DTypeOK
    <3>2. CASE ~(granted[x] > 0)
      BY <1>1, <1>2, <3>2 DEF DTypeOK
    <3>q. QED
      BY <3>1, <3>2
  <2>q. QED
    BY <2>1, <2>2, <2>3
<1>7. /\ DTypeOK' /\ Inside(t)' /\ th'[t].pc = "commit" /\ th'[t].title = x /\ th'[t].index = k
      /\ \A u \in Threads : u # t => th'[u] = th[u]
  BY <1>1, <1>5, GotoFacts DEF DTypeOK, LockLabels
<1>8. Sound(saved.hdr, saved)'
  BY <1>1 DEF Sound, Ring, Whole, Counted
<1>9. Counted(info, file)'
  <2> SUFFICES ASSUME NEW y \in Titles, granted[y] > 0, Limit[y] > 0
               PROVE  \E i \in Entries : i < info.count /\ file'.tids[i] = y /\ file'.counts[i].n >= granted[y]
    BY <1>1 DEF Counted
  <2>1. PICK i \in Entries : i < info.count /\ file.tids[i] = y /\ file.counts[i].n >= granted[y]
    BY <1>1 DEF Sound, Counted
  <2>2. CASE y = x
    <3>1. file'.counts[k].n = n + 1 /\ granted[y] <= n /\ granted[y] \in Nat
      BY <1>5, <1>6, <2>2 DEF DTypeOK
    <3>q. QED
      BY <1>2, <1>5, <2>2, <3>1
  <2>3. CASE y # x
    BY <1>2, <1>5, <2>1, <2>3
  <2>q. QED
    BY <2>2, <2>3
<1>10. Sound(info, file)'
  <2>1. Ring(info)'
    BY <1>1 DEF Sound, Ring
  <2>2. Whole(info, file)'
    BY <1>1, <1>2, <1>5 DEF Sound, Whole
  <2>q. QED
    BY <1>9, <2>1, <2>2 DEF Sound
<1>11. Grantable(x)'
  <2> SUFFICES ASSUME Limit[x] > 0
               PROVE  granted[x] < Limit[x] /\ \E i \in Matches(x)' : file'.counts[i].n >= granted[x] + 1
    BY <1>1, <1>7 DEF Grantable
  <2>1. k \in Matches(x)'
    BY <1>1, <1>2, <1>5, <1>7 DEF Matches
  <2>2. granted[x] \in Nat /\ Limit[x] \in Nat
    BY <1>1, DatabaseAssumption DEF DTypeOK
  <2>3. granted[x] < Limit[x] /\ file'.counts[k].n >= granted[x] + 1
    BY <1>2, <1>5, <1>6, <2>2
  <2>q. QED
    BY <2>1, <2>3
<1>12. Working(t)'
  BY <1>1, <1>5, <1>7, <1>10, <1>11 DEF Working
<1>q. QED
  BY <1>1, <1>7, <1>8, <1>12, HolderStep

\* What was done is in the save data.
LEMMA CommitStep ==
  ASSUME DState, NEW t \in Threads, Commit(t)
  PROVE  DState'
<1> USE DEF DState
<1> DEFINE x == th[t].title
<1>1. /\ th[t].pc = "commit" /\ Inside(t) /\ x \in Titles
      /\ info = file.hdr /\ Sound(info, file) /\ Grantable(x)
      /\ saved' = file /\ UNCHANGED <<boot, exists, file, info, lock, granted>>
      /\ Goto(t, "unlock")
  BY DEF Commit, Inside, LockLabels, Working, DTypeOK
<1>2. /\ DTypeOK' /\ Inside(t)' /\ th'[t].pc = "unlock" /\ th'[t].title = x
      /\ \A u \in Threads : u # t => th'[u] = th[u]
  BY <1>1, GotoFacts DEF DTypeOK, LockLabels
<1>3. Sound(saved.hdr, saved)'
  BY <1>1 DEF Sound, Ring, Whole, Counted
<1>4. Grantable(x)'
  BY <1>1, <1>2 DEF Grantable, Matches
<1>5. Working(t)'
  BY <1>1, <1>2, <1>4 DEF Working, Settled
<1>q. QED
  BY <1>1, <1>2, <1>3, <1>5, HolderStep

\* The launch is granted; it has been counted before.
LEMMA GrantStep ==
  ASSUME DState, NEW t \in Threads, Grant(t)
  PROVE  DState'
<1> USE DEF DState
<1> DEFINE x == th[t].title
<1>1. /\ th[t].pc = "unlock" /\ Inside(t) /\ x \in Titles /\ Settled /\ Grantable(x)
      /\ lock' = NoLock /\ UNCHANGED <<boot, exists, file, saved, info>>
      /\ th' = [th EXCEPT ![t].pc = "idle"]
  BY DEF Grant, Goto, Inside, LockLabels, Working, DTypeOK
<1>2. /\ granted' \in [Titles -> Nat] /\ granted'[x] = granted[x] + 1 /\ granted[x] \in Nat
      /\ \A y \in Titles : y # x => granted'[y] = granted[y]
  BY <1>1 DEF Grant, DTypeOK
<1>3. \A y \in Titles : Limit[y] > 0 => granted'[y] <= Limit[y]
  BY <1>1, <1>2, DatabaseAssumption DEF Grantable
<1>4. Counted(saved.hdr, saved)'
  BY <1>1, <1>2 DEF Counted, Sound, Grantable, Matches, Settled
<1>q. QED
  BY <1>1, <1>2, <1>3, <1>4, LeaveStep

-----------------------------------------------------------------------------
\* A reset with no command in progress: the header empties in memory, then in
\* the file, then in the save data, and nothing counts as granted any more.
LEMMA ResetStep ==
  ASSUME DState, NEW t \in Threads,
         \/ ResetInfo(t) /\ \A u \in Threads : Idle(u)
         \/ ResetWrite(t)
         \/ ResetCommit(t)
  PROVE  DState'
<1> USE EntriesBegin
<1> USE DEF DState
<1>1. CASE ResetInfo(t) /\ \A u \in Threads : Idle(u)
  <2>1. /\ boot = "ready" /\ UNCHANGED <<boot, exists, file, saved, lock>>
        /\ info' = Header0 /\ granted' = [x \in Titles |-> 0]
        /\ th' = [th EXCEPT ![t].pc = "reset_write"]
    BY <1>1 DEF ResetInfo, Goto
  <2>2. th'[t].pc = "reset_write" /\ \A u \in Threads : u # t => th'[u] = th[u] /\ th'[u].pc = "idle"
    BY <1>1, <2>1 DEF DTypeOK, Idle
  <2>3. DTypeOK'
    BY <2>1, <2>2 DEF DTypeOK, DLabels, LockLabels, ResetLabels
  <2>4. /\ \A u \in Threads : ~Inside(u)' /\ (u # t => Idle(u)' /\ ~InReset(u)')
        /\ InReset(t)' /\ lock = NoLock
    BY <1>1, <2>2, NobodyYet DEF Inside, InReset, Idle, LockLabels, ResetLabels
  <2>5. Locking'
    BY <2>1, <2>4 DEF Locking
  <2>6. Booting'
    BY <2>1, <2>4 DEF Booting
  <2>7. \A x \in Titles : granted'[x] = 0
    BY <2>1
  <2>8. Sound(saved.hdr, saved)'
    BY <2>1, <2>7 DEF Sound, Ring, Whole, Counted
  <2>9. \A u \in Threads : ResetGoes(u)'
    BY <2>1, <2>2, <2>7 DEF ResetGoes
  <2>q. QED
    BY <2>3, <2>4, <2>5, <2>6, <2>7, <2>8, <2>9, DatabaseAssumption
<1>2. CASE ResetWrite(t)
  <2>1. /\ th[t].pc = "reset_write" /\ InReset(t) /\ ~Idle(t)
        /\ UNCHANGED <<boot, exists, saved, info, lock, granted>>
        /\ th' = [th EXCEPT ![t].pc = "reset_commit"]
    BY <1>2 DEF ResetWrite, Goto, InReset, ResetLabels, Idle
  <2>2. info = Header0 /\ (\A x \in Titles : granted[x] = 0) /\ \A u \in Threads : u # t => Idle(u)
    BY <2>1 DEF ResetGoes, Locking
  <2>3. file' \in Files /\ file'.hdr = Header0
    BY <1>2, <2>2 DEF ResetWrite, DTypeOK, Files
  <2>4. th'[t].pc = "reset_commit" /\ \A u \in Threads : u # t => th'[u] = th[u] /\ th'[u].pc = "idle"
    BY <2>1, <2>2 DEF DTypeOK, Idle
  <2>5. DTypeOK'
    BY <2>1, <2>3, <2>4 DEF DTypeOK, DLabels, LockLabels, ResetLabels
  <2>6. /\ \A u \in Threads : ~Inside(u) /\ ~Inside(u)' /\ (u # t => Idle(u)' /\ ~InReset(u)')
        /\ InReset(t)'
    BY <2>1, <2>2, <2>4 DEF Inside, InReset, Idle, LockLabels, ResetLabels
  <2>7. boot = "ready" /\ exists /\ lock = NoLock
    BY <2>1, <2>6 DEF Locking, Booting, DTypeOK
  <2>8. Locking'
    BY <2>1, <2>6, <2>7 DEF Locking
  <2>9. Booting'
    BY <2>1, <2>6, <2>7 DEF Booting
  <2>10. Sound(saved.hdr, saved)'
    BY <2>1 DEF Sound, Ring, Whole, Counted
  <2>11. \A u \in Threads : ResetGoes(u)'
    BY <2>1, <2>2, <2>3, <2>4 DEF ResetGoes
  <2>q. QED
    BY <2>1, <2>5, <2>6, <2>8, <2>9, <2>10, <2>11
<1>3. CASE ResetCommit(t)
  <2>1. /\ th[t].pc = "reset_commit" /\ InReset(t) /\ ~Idle(t)
        /\ saved' = file /\ UNCHANGED <<boot, exists, file, info, lock, granted>>
        /\ th' = [th EXCEPT ![t].pc = "idle"]
    BY <1>3 DEF ResetCommit, Goto, InReset, ResetLabels, Idle
  <2>2. /\ info = Header0 /\ file.hdr = Header0 /\ (\A x \in Titles : granted[x] = 0)
        /\ \A u \in Threads : u # t => Idle(u)
    BY <2>1 DEF ResetGoes, Locking
  <2>3. \A u \in Threads : th'[u].pc = "idle"
    BY <2>1, <2>2 DEF DTypeOK, Idle
  <2>4. DTypeOK'
    BY <2>1, <2>3 DEF DTypeOK, DLabels, LockLabels
  <2>5. \A u \in Threads : ~Inside(u) /\ ~Inside(u)' /\ ~InReset(u)' /\ Idle(u)'
    BY <2>1, <2>2, <2>3 DEF Inside, InReset, Idle, LockLabels, ResetLabels
  <2>6. boot = "ready" /\ exists /\ lock = NoLock
    BY <2>1, <2>5 DEF Locking, Booting, DTypeOK
  <2>7. Locking'
    BY <2>1, <2>5, <2>6 DEF Locking
  <2>8. Booting'
    BY <2>1, <2>2, <2>6 DEF Booting, Settled
  <2>9. Sound(saved.hdr, saved)'
    <3>1. saved'.hdr = Header0 /\ \A x \in Titles : ~(granted'[x] > 0)
      BY <2>1, <2>2
    <3>q. QED
      BY <3>1 DEF Sound, Ring, Whole, Counted, Header0
  <2>10. \A u \in Threads : ResetGoes(u)'
    BY <2>5, <2>3 DEF ResetGoes
  <2>q. QED
    BY <2>1, <2>4, <2>5, <2>7, <2>8, <2>9, <2>10
<1>q. QED
  BY <1>1, <1>2, <1>3

\* A step that overlaps leaves nothing to show, and once there was one, no
\* later step takes it back.
LEMMA DNextInv == DInv /\ [Next]_vars => DInv'
<1> SUFFICES ASSUME DInv, [Next]_vars PROVE DInv'
  OBVIOUS
<1> USE DEF DInv
<1>1. CASE OpenFile \/ FillFile \/ CommitNewFile \/ Close \/ Crash
  <2>1. UNCHANGED overlapped
    BY <1>1 DEF OpenFile, FillFile, CommitNewFile, Close, Crash
  <2>q. QED
    BY <1>1, <2>1, BootStep, CrashStep
<1>2. ASSUME NEW t \in Threads, NEW x \in Titles, Call(t, x) PROVE DInv'
  <2>1. overlapped' = (overlapped \/ Resetting)
    BY <1>2 DEF Call
  <2>q. QED
    BY <1>2, <2>1, CallStep
<1>3. ASSUME NEW t \in Threads, HasDemoLaunchRight(t) PROVE DInv'
  <2>1. UNCHANGED overlapped
    BY <1>3 DEF HasDemoLaunchRight, Lock, CheckLimit, Find, WriteTitleId, WriteFirstCount, CountEntry,
                NextIndex, WriteHeader, BumpCount, Commit, Grant
  <2>2. DState => DState'
    BY <1>3, LockStep, CheckStep, FindStep, WriteTitleIdStep, WriteFirstCountStep, CountEntryStep,
       NextIndexStep, WriteHeaderStep, BumpCountStep, CommitStep, GrantStep DEF HasDemoLaunchRight
  <2>q. QED
    BY <2>1, <2>2
<1>4. ASSUME NEW t \in Threads, ResetInfo(t) PROVE DInv'
  <2>1. overlapped' = (overlapped \/ \E u \in Threads : ~Idle(u))
    BY <1>4 DEF ResetInfo
  <2>q. QED
    BY <1>4, <2>1, ResetStep
<1>5. ASSUME NEW t \in Threads, ResetWrite(t) \/ ResetCommit(t) PROVE DInv'
  <2>1. UNCHANGED overlapped
    BY <1>5 DEF ResetWrite, ResetCommit
  <2>q. QED
    BY <1>5, <2>1, ResetStep
<1>6. CASE UNCHANGED vars
  BY <1>6
  DEF vars, DState, DTypeOK, Locking, Booting, Sound, Ring, Whole, Counted, Working, ResetGoes, Settled,
      Allowed, Matches, Entering, Grantable, Inside, InReset, Idle
<1>q. QED
  BY <1>1, <1>2, <1>3, <1>4, <1>5, <1>6 DEF Next

-----------------------------------------------------------------------------
\* As long as no reset has overlapped with a command: the save data is a
\* database that has counted every granted launch, and a command in progress
\* has moved file and header away from it by just the writes it has done.
THEOREM DInvariance == Spec => []DInv
<1>1. Init => DInv
  BY DInitState
<1>2. DInv /\ [Next]_vars => DInv'
  BY DNextInv
<1>q. QED
  BY <1>1, <1>2, PTL DEF Spec

\* AM_DemoDatabase_HasDemoLaunchRight never lets a title be launched more often
\* than its ticket says, for any ring, however many sessions ask at once and
\* wherever the power goes.
THEOREM LimitIsRespected == Spec => []LimitRespected
<1>1. DInv => LimitRespected
  BY DEF DInv, DState, LimitRespected
<1>q. QED
  BY <1>1, DInvariance, PTL

\* Between commands each entry of the database has its own title's count and
\* no title has two, in memory and file, and at any moment in the save data.
THEOREM DatabaseStaysWhole == Spec => []DatabaseIsWhole
<1>1. DInv => DatabaseIsWhole
  <2> SUFFICES ASSUME DInv PROVE DatabaseIsWhole
    OBVIOUS
  <2>1. ~overlapped => Whole(saved.hdr, saved)
    BY DEF DInv, DState, Sound
  <2>2. Quiet => Settled
    BY DEF DInv, DState, Booting, Quiet, InReset, ResetLabels, Resetting
  <2>q. QED
    BY <2>1, <2>2 DEF DatabaseIsWhole, Quiet, Settled
<1>q. QED
  BY <1>1, DInvariance, PTL

\* What a client was told it may launch has been counted in the save data, so
\* that a crash after the answer does not give the launch back.
THEOREM GrantSurvives == Spec => []GrantIsDurable
<1>1. DInv => GrantIsDurable
  BY DEF DInv, DState, Sound, Counted, GrantIsDurable
<1>q. QED
  BY <1>1, DInvariance, PTL
=============================================================================
