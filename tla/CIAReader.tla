------------------------------ MODULE CIAReader ------------------------------
(***************************************************************************)
(* Questions about CIA files, source/am/cia.c, and their commands 0x0408,  *)
(* 0x0409 to 0x040D, 0x0413 and 0x0414; and AMNet_CalculateContextRequired *)
(* Size (0x0825) of source/am/ipc.c, which asks AM9 for the like.  All the *)
(* session threads read TMDs into one min_tmd, under g_TMDReader_Lock.     *)
(*                                                                         *)
(* The lock is taken at its promise, module ReentrantLock, which module    *)
(* RecursiveLock is shown to keep.  A step is the code between two points  *)
(* where another thread may see or make a difference.  Files have at least *)
(* a CIA header; they and AM9 are external.                                *)
(***************************************************************************)
EXTENDS Integers, FiniteSets, Sequences

CONSTANTS
  Readers,      \* session threads
  CIAFile,      \* by name: what the commands need of a file, its TMD included
  DLC,          \* the contents of an installed title, by index
  Questions,    \* commands with their media type, file and list of indices
  U32,          \* 2^32
  IndexMax,     \* 256 enabled contents are looked at
  ManyContents, \* 254
  ContextBatch, \* 64 contents are asked about at a time
  MaxQuestions, \* bound: how many questions are asked altogether
  ReadFaults    \* the environments: sets of what may not be read
                \*   "header", "indices", "chunks"   parts of a file
                \*   "info", "tmd"   its TMD, by 0x0408 and by 0x040D
                \*   "am9"           DLC

NoReader == "none"
NoFile == "none"

FileType ==
  [enabled : SUBSET Nat, chunks : Seq([index : Nat, size : Nat]), twl : BOOLEAN, banner : BOOLEAN,
   public : Nat, private : Nat, ctr : Nat,
   cert : Nat, tik : Nat, tmd : Nat, con : Nat, meta : Nat, left : Nat]

Commands == {"info", "required", "smdh", "dependencies", "core", "offset", "meta size", "meta", "context"}

Medias == {"nand", "sd", "card", "none"}

QuestionType ==
  [command : Commands, media : Medias, file : DOMAIN CIAFile \union {NoFile}, choice : Seq(Nat)]

\* Indices, and how many contents there are, are 16 bits wide, so that what the
\* code counts for them, with a block of at most 65536 bytes, is below 2^32.
\* Every title has a last content.
ReaderAssumption ==
  /\ NoReader \notin Readers
  /\ CIAFile \in [DOMAIN CIAFile -> FileType]
  /\ \A f \in DOMAIN CIAFile :
       IsFiniteSet(CIAFile[f].enabled) /\ 2820 + 48 * Len(CIAFile[f].chunks) + 65536 <= U32
  /\ Questions \subseteq QuestionType
  /\ \A q \in Questions : q.command = "context" \/ q.file \in DOMAIN CIAFile
  /\ DLC \in [DOMAIN DLC -> [size : Nat, optional : BOOLEAN]]
  /\ DOMAIN DLC \subseteq Nat /\ IsFiniteSet(DOMAIN DLC)
  /\ \E i \in DOMAIN DLC :
       /\ \A j \in DOMAIN DLC : j <= i
       /\ 20 * (i + 1) + 32 + 4 * Cardinality(DOMAIN DLC) + 65536 <= U32
  /\ {U32, IndexMax, ManyContents, ContextBatch, MaxQuestions} \subseteq Nat
  /\ 1024 * IndexMax + 512 + 65536 <= U32 /\ ContextBatch > 0

ASSUME ReaderAssumption

VARIABLES
  unread,                  \* one of ReadFaults, and never changes
  min_tmd,                 \* the file whose TMD is in it
  lock_owner, lock_depth,  \* g_TMDReader_Lock
  reader,                  \* each thread: its place in the code, its question
  asked                    \* how many questions have been asked

rdvars == <<unread, min_tmd, lock_owner, lock_depth, reader, asked>>

TMDLock == INSTANCE ReentrantLock
  WITH Threads <- Readers, NoThread <- NoReader, owner <- lock_owner, depth <- lock_depth

\* n is what a loop has counted, indices what is enabled, of the file that the
\* TMD fields of an answer come from.
Unasked == [pc |-> "idle", command |-> "none", media |-> "none", file |-> NoFile, choice |-> <<>>,
            n |-> 0, indices |-> {}, size |-> 0, of |-> NoFile, result |-> "none"]

ReaderInit ==
  /\ unread \in ReadFaults
  /\ min_tmd = NoFile
  /\ TMDLock!Init
  /\ reader = [r \in Readers |-> Unasked]
  /\ asked = 0

At(r, l) == reader[r].pc = l
Advance(r, l) == reader' = [reader EXCEPT ![r].pc = l]

\* The command is answered.
Finish(r, res, n) == reader' = [reader EXCEPT ![r].pc = "idle", ![r].result = res, ![r].size = n]

-----------------------------------------------------------------------------
(* Sizes *)

\* ALIGN of a 64-bit number to a 32-bit alignment, whose complement is not
\* extended by its sign.
Aligned(n, a) == (((n + a - 1) % U32) \div a) * a

Align(media) == IF media = "sd" THEN 32768 ELSE 16384

Up64(n) == ((n + 63) \div 64) * 64

\* CON_END
ConEnd(f) == Up64(Up64(Up64(8256 + f.cert) + f.tik) + f.tmd) + f.con

\* The first that are enabled.
EnabledIndices(f) == {i \in f.enabled : Cardinality({j \in f.enabled : j < i}) < IndexMax}

\* What a loop over a sequence adds up.
Total(sizes) ==
  LET sum[k \in 0..Len(sizes)] == IF k = 0 THEN 0 ELSE sum[k - 1] + sizes[k]
  IN sum[Len(sizes)]

\* Of the first n chunk records, those that the file brings.
ContentsSize(f, n, indices, a) ==
  Total([k \in 1..n |-> IF k \in DOMAIN f.chunks /\ f.chunks[k].index \in indices
                         THEN Aligned(f.chunks[k].size, a) ELSE 0])

TMDSize(n, a) == (IF n > ManyContents THEN 2 ELSE 1) * a + Aligned(2820 + 48 * n, a)

SaveSize(f, a) ==
  LET size == IF f.twl
              THEN (Aligned(f.public, a) + Aligned(f.private, a) + (IF f.banner THEN a ELSE 0)) % U32
              ELSE Aligned(f.ctr, a)
  IN IF size = 0 THEN 0 ELSE (size + a) % U32

-----------------------------------------------------------------------------
(* Commands *)

Take(r, q, l) ==
  /\ At(r, "idle") /\ asked < MaxQuestions
  /\ reader' = [reader EXCEPT ![r] = [Unasked EXCEPT
       !.pc = l, !.command = q.command, !.media = q.media, !.file = q.file, !.choice = q.choice]]
  /\ asked' = asked + 1
  /\ UNCHANGED <<unread, min_tmd, lock_owner, lock_depth>>

Question(r, q) == q.command # "context" /\ Take(r, q, "init")

ContextQuestion(r, q) == q.command = "context" /\ Take(r, q, "context")

File(r) == CIAFile[reader[r].file]

\* 0x0408 and 0x040D go on to the TMD.
GetTitleInfo(r) == reader[r].command = "info" /\ Advance(r, "lock_info")

GetRequiredSize(r) == reader[r].command = "required" /\ Advance(r, "size")

\* What 0x0409, 0x040A and 0x040C copy: where in the metadata it ends.
MetaPart == [smdh |-> 1024 + 14016, dependencies |-> 768, core |-> 772]

ExtractMetaPart(r) ==
  LET command == reader[r].command IN
  /\ command \in DOMAIN MetaPart
  /\ Finish(r, IF File(r).left >= MetaPart[command] THEN "ok" ELSE "not found", ConEnd(File(r)))

GetMetaStart(r) == reader[r].command = "offset" /\ Finish(r, "ok", ConEnd(File(r)))

GetMetaSize(r) == reader[r].command = "meta size" /\ Finish(r, "ok", File(r).meta)

\* As much metadata as there are, when the client has room for MetaSize.
ExtractMeta(r) ==
  LET f == File(r) IN
  /\ reader[r].command = "meta"
  /\ \E room \in {f.meta - 1, f.meta, f.meta + 1} :
       IF f.meta > room THEN Finish(r, "too small", 0)
       ELSE Finish(r, "ok", IF f.left < room THEN f.left ELSE room)

\* CIAReader_Init and, up to where another thread matters, the command.
InitReader(r) ==
  /\ At(r, "init")
  /\ \/ "header" \in unread /\ Finish(r, "no header", 0)
     \/ GetTitleInfo(r) \/ GetRequiredSize(r)
     \/ ExtractMetaPart(r) \/ GetMetaStart(r) \/ GetMetaSize(r) \/ ExtractMeta(r)
  /\ UNCHANGED <<unread, min_tmd, lock_owner, lock_depth, asked>>

\* Mutant: the lock is taken from whoever has it.
BugLockDoesNotWait(r, l) == lock_owner' = r /\ lock_depth' = 1 /\ Advance(r, l)

Lock(r, l) == (TMDLock!Acquire(r) \/ TMDLock!Reenter(r)) /\ Advance(r, l)

\* CIAReader_GetTitleInfo
LockForInfo(r) ==
  /\ At(r, "lock_info") /\ Lock(r, "info")
  /\ UNCHANGED <<unread, min_tmd, asked>>

\* CIAReader_ReadMinTMD and the fields of the answer.
ReadInfo408(r) ==
  /\ At(r, "info")
  /\ \/ /\ min_tmd' = reader[r].file
        /\ reader' = [reader EXCEPT ![r].pc = "size", ![r].of = min_tmd']
     \/ /\ "info" \in unread
        /\ reader' = [reader EXCEPT ![r].pc = "unlock_info", ![r].result = "no tmd"]
        /\ UNCHANGED min_tmd
  /\ UNCHANGED <<unread, lock_owner, lock_depth, asked>>

\* CIAReader_CalculateTitleSize ends with an error, and so does its caller;
\* GetTitleInfo unlocks first.
Failed(r, res) ==
  IF reader[r].command = "info"
  THEN reader' = [reader EXCEPT ![r].pc = "unlock_info", ![r].result = res]
  ELSE Finish(r, res, 0)

\* CIAReader_ReadEnabledIndices
ReadEnabledIndices(r) ==
  /\ At(r, "size")
  /\ IF reader[r].media = "card" THEN Failed(r, "invalid")
     ELSE \/ reader' = [reader EXCEPT ![r].pc = "lock", ![r].indices = EnabledIndices(File(r))]
          \/ "indices" \in unread /\ Failed(r, "no indices")
  /\ UNCHANGED <<unread, min_tmd, lock_owner, lock_depth, asked>>

\* GetTitleInfo has the TMD already.
LockForSize(r) ==
  /\ At(r, "lock") /\ Lock(r, IF reader[r].command = "info" THEN "chunks" ELSE "tmd")
  /\ UNCHANGED <<unread, min_tmd, asked>>

\* The error return of cia.c:96 keeps the lock.
ReadMinTMD(r) ==
  /\ At(r, "tmd")
  /\ \/ min_tmd' = reader[r].file /\ Advance(r, "chunks")
     \/ "tmd" \in unread /\ Failed(r, "no tmd") /\ UNCHANGED min_tmd
  /\ UNCHANGED <<unread, lock_owner, lock_depth, asked>>

\* As many chunk records as min_tmd says, from the file; cia.c:105 keeps the
\* lock as well.
ReadChunks(r) ==
  LET a == Align(reader[r].media)
      n == Len(CIAFile[min_tmd].chunks)
  IN
  /\ At(r, "chunks")
  /\ \/ reader' = [reader EXCEPT ![r].pc = "save", ![r].n = n,
          ![r].size = ContentsSize(File(r), n, reader[r].indices, a) + TMDSize(n, a)]
     \/ "chunks" \in unread /\ n > 0 /\ Failed(r, "no chunks")
  /\ UNCHANGED <<unread, min_tmd, lock_owner, lock_depth, asked>>

\* The title id and the sizes of the save data, and the blocks at the end.
AddSave(r) ==
  LET a == Align(reader[r].media) IN
  /\ At(r, "save")
  /\ reader' = [reader EXCEPT ![r].pc = "unlock",
                              ![r].size = @ + SaveSize(CIAFile[min_tmd], a) + 3 * a]
  /\ UNCHANGED <<unread, min_tmd, lock_owner, lock_depth, asked>>

\* Mutant: only the caller's lock is given back.
BugUnlockSkipped(r) ==
  /\ At(r, "unlock")
  /\ IF reader[r].command = "info"
     THEN Advance(r, "unlock_info") /\ UNCHANGED <<lock_owner, lock_depth>>
     ELSE TMDLock!Leave(r) /\ Finish(r, "ok", reader[r].size)
  /\ UNCHANGED <<unread, min_tmd, asked>>

\* CIAReader_CalculateRequiredSize adds a block and room for the indices.
UnlockSize(r) ==
  LET a == Align(reader[r].media) IN
  /\ At(r, "unlock") /\ TMDLock!Leave(r)
  /\ IF reader[r].command = "info"
     THEN reader' = [reader EXCEPT ![r].pc = "unlock_info", ![r].result = "ok"]
     ELSE Finish(r, "ok", reader[r].size + a
                            + Aligned(Cardinality(reader[r].indices) * 1024 + 512, a))
  /\ UNCHANGED <<unread, min_tmd, asked>>

UnlockInfo(r) ==
  /\ At(r, "unlock_info") /\ TMDLock!Leave(r)
  /\ Advance(r, "idle")
  /\ UNCHANGED <<unread, min_tmd, asked>>

-----------------------------------------------------------------------------
(* AMNet_CalculateContextRequiredSize *)

ContextAlign(media) == IF media = "sd" THEN 65536 ELSE 16384

BatchSize(choice, from, to, a) ==
  Total([k \in 1..(to - from + 1) |-> Aligned(DLC[choice[from - 1 + k]].size, a)])

\* The contents of a batch.  remain keeps its first value: when the last batch
\* is shorter, what lies behind the client's indices is asked about with it,
\* and so on for as long as AM9 finds such contents, as processed never comes
\* to the count: 2^32 is a multiple of the batches.
ContextContents(r) ==
  LET choice == reader[r].choice
      batch == IF Len(choice) < ContextBatch THEN Len(choice) ELSE ContextBatch
      from == reader[r].n + 1
      to == reader[r].n + batch
      a == ContextAlign(reader[r].media)
      allowed == \A k \in (from..to) \intersect DOMAIN choice :
                   choice[k] \in DOMAIN DLC /\ DLC[choice[k]].optional
  IN
  /\ At(r, "context") /\ reader[r].n # Len(choice) /\ reader[r].media # "card"
  /\ \/ /\ allowed
        /\ reader' = [reader EXCEPT
             ![r].n = IF to > Len(choice) THEN Len(choice) + 1 ELSE to,
             ![r].size = IF to > Len(choice) THEN 0 ELSE @ + BatchSize(choice, from, to, a)]
     \/ /\ ~allowed \/ to > Len(choice) \/ "am9" \in unread
        /\ Finish(r, "refused", 0)
  /\ UNCHANGED <<unread, min_tmd, lock_owner, lock_depth, asked>>

\* The index of the title's last content.
LastIndex == CHOOSE i \in DOMAIN DLC : \A j \in DOMAIN DLC : i >= j

\* AM9 is asked for it, for the size of its context.
ContextLast(r) ==
  LET a == ContextAlign(reader[r].media)
      count == Cardinality(DOMAIN DLC)
  IN
  /\ At(r, "context") /\ reader[r].n = Len(reader[r].choice) /\ reader[r].media # "card"
  /\ \/ Finish(r, "ok", reader[r].size + Aligned(Len(reader[r].choice) * 1024 + 512, a)
                          + Aligned(16 * LastIndex + 16 + 4 * LastIndex + 4 + 32 + 4 * count, a))
     \/ "am9" \in unread /\ Finish(r, "refused", 0)
  /\ UNCHANGED <<unread, min_tmd, lock_owner, lock_depth, asked>>

ContextMedia(r) ==
  /\ At(r, "context") /\ reader[r].media = "card"
  /\ Finish(r, "invalid", 0)
  /\ UNCHANGED <<unread, min_tmd, lock_owner, lock_depth, asked>>

-----------------------------------------------------------------------------
ReaderStep(r) ==
  \/ InitReader(r) \/ LockForInfo(r) \/ ReadInfo408(r) \/ ReadEnabledIndices(r) \/ LockForSize(r)
  \/ ReadMinTMD(r) \/ ReadChunks(r)  \/ AddSave(r)     \/ UnlockSize(r)         \/ UnlockInfo(r)
  \/ ContextContents(r) \/ ContextLast(r) \/ ContextMedia(r)

ReaderNext ==
  \E r \in Readers :
    ReaderStep(r) \/ \E q \in Questions : Question(r, q) \/ ContextQuestion(r, q)

\* The session threads run, and whoever waits for the lock gets it when it is
\* free and nobody else takes it: as the questions are bounded, nobody does for
\* good.
ReaderFairness == \A r \in Readers : WF_rdvars(ReaderStep(r))

ReaderSpec == ReaderInit /\ [][ReaderNext]_rdvars /\ ReaderFairness

-----------------------------------------------------------------------------
(* Properties *)

\* Rounded up to blocks of a bytes.
Blocks(n, a) == ((n + a - 1) \div a) * a

\* The space for a title with its contents on a medium: the contents that the
\* file brings, a block (two for many contents), the TMD, the save data with a
\* block, three more blocks.
TitleSpace(f, a) ==
  LET count == Len(f.chunks)
      saves == IF f.twl
               THEN Blocks(f.public, a) + Blocks(f.private, a) + Blocks(IF f.banner THEN 1 ELSE 0, a)
               ELSE Blocks(f.ctr, a)
  IN Total([k \in 1..count |-> IF f.chunks[k].index \in f.enabled
                                THEN Blocks(f.chunks[k].size, a) ELSE 0])
     + (IF count >= ManyContents + 1 THEN 5 ELSE 4) * a + Blocks(2820 + 48 * count, a)
     + saves + (IF saves > 0 THEN a ELSE 0)

\* What the code can count: no more contents than it has room for, each smaller
\* than 4 GiB with its last block, and so is the save data with its four.
Countable(f, a) ==
  /\ Cardinality(f.enabled) <= IndexMax
  /\ \A k \in DOMAIN f.chunks : f.chunks[k].size + a <= U32
  /\ f.public + f.private + 4 * a <= U32 /\ f.ctr + 2 * a <= U32

\* And of a DLC: so are the contents that are chosen, and the room for them.
CountableChoice(choice, a) ==
  /\ \A k \in DOMAIN choice : DLC[choice[k]].size + a <= U32
  /\ Len(choice) * 1024 + 512 + a <= U32

\* Whatever the other threads read into min_tmd meanwhile, each answer is about
\* the file of its own question, and is the space the title needs; metadata
\* are copied from where they begin, when the contents end at a multiple of 64.
AnswersAreOwn ==
  \A r \in Readers :
    LET f == File(r)
        a == Align(reader[r].media)
        b == ContextAlign(reader[r].media)
        choice == reader[r].choice
        is(command) == At(r, "idle") /\ reader[r].result = "ok" /\ reader[r].command = command
    IN
    /\ is("info") => reader[r].of = reader[r].file
    /\ is("info") /\ Countable(f, a) => reader[r].size = TitleSpace(f, a)
    /\ is("required") /\ Countable(f, a) =>
         reader[r].size = TitleSpace(f, a) + a + Blocks(Cardinality(f.enabled) * 1024 + 512, a)
    /\ \A command \in DOMAIN MetaPart :
         is(command) /\ f.con % 64 = 0 => reader[r].size = Up64(ConEnd(f))
    /\ is("context") /\ CountableChoice(choice, b) =>
         reader[r].size =
           Total([k \in 1..Len(choice) |-> Blocks(DLC[choice[k]].size, b)])
           + Blocks(Len(choice) * 1024 + 512, b)
           + Blocks(20 * Cardinality(0..LastIndex) + 32 + 4 * Cardinality(DOMAIN DLC), b)

\* AM9 is asked about what lies behind the client's indices.
Overrun(r) == reader[r].n > Len(reader[r].choice) /\ reader[r].command = "context"

\* Every question is answered, whichever threads ask and whatever cannot be
\* read, except when 0x040D cannot read a TMD or either command a chunk record
\* (the lock is kept then), and when more contents are asked about than a batch
\* holds, and not a multiple of it.
ReadersReturn ==
  unread \intersect {"tmd", "chunks"} = {} =>
    \A r \in Readers : ~At(r, "idle") ~> (At(r, "idle") \/ Overrun(r))
=============================================================================
