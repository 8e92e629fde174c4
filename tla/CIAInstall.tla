------------------------------ MODULE CIAInstall ------------------------------
(***************************************************************************)
(* AM_Pipe_CIA_Write: a state machine that is fed a CIA file in chunks of  *)
(* whatever size the client likes, finds the parts of the file, and passes *)
(* ticket, TMD and contents on to AM9.  With it, the commands that finish  *)
(* and cancel the install.                                                 *)
(*                                                                         *)
(* A byte is its position in the file, so what AM9 has been given for one  *)
(* object is a sequence of positions.  Sizes are scaled: Block stands for  *)
(* the 16 bytes of an AES block, Align for 0x40, MaxWrite for 0x3000,      *)
(* BatchMax for 64.  One pass of the loop around the switch is one step,   *)
(* with every AM9 call it makes; any of those calls may fail.              *)
(***************************************************************************)
EXTENDS Integers, Sequences, FiniteSets, SequencesExt

CONSTANTS
  CIAs,       \* the files: records of sizes, and where the contents are
  Block, Align, MaxWrite, BatchMax,
  MaxChunk,   \* bound: the largest chunk a client writes
  AnyTMDChunk,\* TRUE: a chunk may also end between two blocks of the TMD
  AM9Fails    \* TRUE: any call to AM9 and any allocation may fail

ASSUME SizesAssumption ==
  /\ Block \in Nat \ {0} /\ Align \in Nat \ {0} /\ Align % Block = 0
  /\ MaxWrite \in Nat \ {0} /\ MaxWrite % Block = 0 /\ BatchMax \in Nat \ {0}
  /\ MaxChunk \in Nat \ {0} /\ AnyTMDChunk \in BOOLEAN /\ AM9Fails \in BOOLEAN

U32 == 1000000   \* where an unsigned difference wraps: beyond every file size

VARIABLES
  cia,       \* the file being installed
  c,         \* CIAInstallData
  size,      \* what is left of the current chunk
  call,      \* "none", or "write" while AM_Pipe_CIA_Write runs
  fed,       \* how much of the file the client has written
  am9        \* AM9: what is open, what it has been given, what it has installed

vars == <<cia, c, size, call, fed, am9>>

-----------------------------------------------------------------------------
(* The file: include/am/format.h *)

RoundUp(n) == ((n + Align - 1) \div Align) * Align
Smaller(a, b) == IF a < b THEN a ELSE b

ConStartOf(f) == RoundUp(RoundUp(RoundUp(RoundUp(f.hdr + f.idx) + f.cert) + f.tik) + f.tmd)
EndOf(f) == IF f.meta = 0 THEN f.at[f.n] ELSE f.at[f.n] + f.meta

\* A file of n contents.  Only those with a size are in it, each aligned after
\* the one before; at[n] is where the padding of the last one ends.  Contents are
\* encrypted, so whole blocks, and so is the TMD header the code reads.
WellFormed(f) ==
  LET present == {i \in 0..(f.n - 1) : f.con[i] > 0} IN
  /\ {f.hdr, f.idx, f.cert, f.tikHdr, f.tik, f.tmdHdr, f.tmd, f.meta} \subseteq Nat
  /\ f.n \in Nat /\ f.con \in [0..(f.n - 1) -> Nat] /\ f.at \in [0..f.n -> Nat]
  /\ f.dlc \in BOOLEAN
  /\ f.tik > 0 => f.tikHdr <= f.tik
  /\ f.tmdHdr <= f.tmd /\ f.tmdHdr % Block = 0
  /\ \A i \in present : f.con[i] % Block = 0
  /\ \A j \in present \union {f.n} :
       /\ (\A k \in present : k >= j) => f.at[j] = ConStartOf(f)
       /\ \A i \in present : i < j =>
            /\ f.at[i] >= ConStartOf(f) /\ f.at[j] >= f.at[i] + f.con[i]
            /\ (\A k \in present : k <= i \/ k >= j) => f.at[j] = RoundUp(f.at[i] + f.con[i])
  /\ EndOf(f) < U32

ASSUME FilesAssumption == \A f \in CIAs : WellFormed(f)

IdxStart == cia.hdr
IdxEnd == IdxStart + cia.idx
CrtStart == RoundUp(IdxEnd)
CrtEnd == CrtStart + cia.cert
TikStart == RoundUp(CrtEnd)
TikEnd == TikStart + cia.tik
TmdStart == RoundUp(TikEnd)
TmdEnd == TmdStart + cia.tmd
ConStart == RoundUp(TmdEnd)
Indices == 0..(cia.n - 1)
Enabled == {i \in Indices : cia.con[i] > 0}
ConAt(i) == cia.at[i]
FileEnd == EndOf(cia)

\* What AM9 installs: the ticket, the TMD, and contents by their index.
Ticket == -1
TMD == -2

Bytes(from, to) == [k \in 1..(to - from) |-> from + k - 1]

-----------------------------------------------------------------------------
Init ==
  /\ cia \in CIAs
  /\ c = [state |-> "Header", offset |-> 0, buf |-> FALSE, misalign |-> <<>>,
          tikHeader |-> FALSE, tmdHeader |-> FALSE, importing |-> {},
          cindex |-> 0, imported |-> 0, batch |-> 0, inBatch |-> 0,
          start |-> 0, end |-> 0, invalidated |-> FALSE]
  /\ size = 0 /\ call = "none" /\ fed = 0
  /\ am9 = [open |-> {}, recv |-> <<>>, ragged |-> FALSE, installed |-> {},
            contexts |-> {}, title |-> "none"]

Ended == am9.title \in {"cancelled", "finished"}

\* The client writes the next chunk.  A file is written from start to end.
WriteCall(n) ==
  /\ call = "none" /\ fed + n <= FileEnd /\ ~Ended
  /\ LET last == fed + n IN
       AnyTMDChunk \/ last \notin TmdStart..(TmdEnd - 1) \/ (last - TmdStart) % Block = 0
  /\ IF c.invalidated
       THEN UNCHANGED <<size, call, fed>>
       ELSE size' = n /\ call' = "write" /\ fed' = fed + n
  /\ UNCHANGED <<cia, c, am9>>

Running(s) == call = "write" /\ size > 0 /\ c.state = s

\* The chunk is used up.
WriteReturn ==
  /\ call = "write" /\ size = 0
  /\ call' = "none"
  /\ UNCHANGED <<cia, c, size, fed, am9>>

\* err_exit, with what the calls before the failing one have changed.
ErrExit(importing, open) ==
  /\ c' = [c EXCEPT !.buf = FALSE, !.invalidated = TRUE, !.importing = importing]
  /\ am9' = [am9 EXCEPT !.open = open]
  /\ size' = 0 /\ call' = "none"
  /\ UNCHANGED <<cia, fed>>

\* Of the imports in "calls", begun in that order, some first ones succeed and
\* the next call fails.
BeginFails(calls) ==
  /\ AM9Fails
  /\ \E n \in 0..Len(calls) :
       LET begun == ToSet(SubSeq(calls, 1, n))
       IN  ErrExit(c.importing \union begun, am9.open \union begun)

Fails == AM9Fails /\ ErrExit(c.importing, am9.open)

\* The pass goes on with the next one: n bytes of the chunk are gone.
Pass(newc, n, newam9) ==
  /\ c' = [newc EXCEPT !.offset = @ + n]
  /\ size' = size - n
  /\ am9' = newam9
  /\ UNCHANGED <<cia, call, fed>>

\* SKIP_PADDING: what it takes, when the chunk reaches beyond the padding.
Padding(newoff) == IF c.offset < newoff THEN newoff - c.offset ELSE 0
Skip(newoff) == size < Padding(newoff) /\ Pass(c, size, am9)

\* BASIC_COPY into a buffer that ends at file offset "end".
BasicCopy(pad, end, next) ==
  \/ /\ c.offset + pad = end
     /\ Pass([c EXCEPT !.state = next], pad, am9)
  \/ /\ c.offset + pad # end
     /\ Pass([c EXCEPT !.buf = @ \/ c.state \notin {"Header", "ContentIndex"}],
             pad + Smaller(end - (c.offset + pad), size - pad), am9)

\* AM9 is given the bytes.  Only the last write of an object may be ragged.
Given(a, bytes) ==
  [a EXCEPT !.recv = @ \o bytes,
            !.ragged = @ \/ (bytes # <<>> /\ Len(a.recv) % Block # 0)]
Begun(a, what) == [a EXCEPT !.open = @ \union {what}, !.recv = <<>>, !.ragged = FALSE]
Finished(a, what, object) ==
  [a EXCEPT !.open = @ \ {what}, !.recv = <<>>,
            !.installed = @ \union {<<object, a.recv>>}]

-----------------------------------------------------------------------------
(* The states of the switch *)

Header ==
  /\ Running("Header")
  /\ BasicCopy(0, IdxStart, "ContentIndex")

ContentIndex ==
  /\ Running("ContentIndex")
  /\ BasicCopy(0, IdxEnd, "CertChainCopy")

\* Mutant: without certificates the state stays.
BugNoCertsStays ==
  /\ Running("CertChainCopy")
  /\ \/ cia.cert = 0 /\ Pass(c, 0, am9)
     \/ cia.cert > 0 /\ Skip(CrtStart)
     \/ /\ cia.cert > 0 /\ size >= Padding(CrtStart)
        /\ BasicCopy(Padding(CrtStart), CrtEnd, "CertChainInstall") \/ (~c.buf /\ Fails)

CertChainCopy ==
  /\ Running("CertChainCopy")
  /\ \/ cia.cert = 0 /\ Pass([c EXCEPT !.state = "TicketHeader"], 0, am9)
     \/ cia.cert > 0 /\ Skip(CrtStart)
     \/ /\ cia.cert > 0 /\ size >= Padding(CrtStart)
        /\ BasicCopy(Padding(CrtStart), CrtEnd, "CertChainInstall") \/ (~c.buf /\ Fails)

CertChainInstall ==
  /\ Running("CertChainInstall")
  /\ Fails \/ Pass([c EXCEPT !.buf = FALSE, !.state = "TicketHeader"], 0, am9)

TicketHeader ==
  /\ Running("TicketHeader")
  /\ \/ cia.tik = 0 /\ Pass([c EXCEPT !.state = "TMD"], 0, am9)
     \/ cia.tik > 0 /\ Skip(TikStart)
     \/ /\ cia.tik > 0 /\ size >= Padding(TikStart)
        /\ BasicCopy(Padding(TikStart), TikStart + cia.tikHdr, "Ticket") \/ (~c.buf /\ Fails)

\* First the header, then as much as the chunk has, at most MaxWrite.
TicketImport ==
  /\ Running("Ticket") /\ ~c.tikHeader
  /\ \/ BeginFails(<<"tik">>)
     \/ Pass([c EXCEPT !.tikHeader = TRUE, !.importing = @ \union {"tik"}], 0,
             Given(Begun(am9, "tik"), Bytes(TikStart, TikStart + cia.tikHdr)))

TicketWrite ==
  /\ Running("Ticket") /\ c.tikHeader /\ c.offset # TikEnd
  /\ LET n == Smaller(Smaller(TikEnd - c.offset, size), MaxWrite) IN
       Fails \/ Pass(c, n, Given(am9, Bytes(c.offset, c.offset + n)))

\* An outdated ticket is not an error.
TicketFinish ==
  /\ Running("Ticket") /\ c.tikHeader /\ c.offset = TikEnd
  /\ \/ Fails
     \/ Pass([c EXCEPT !.buf = FALSE, !.state = "TMDHeader", !.importing = @ \ {"tik"}], 0,
             Finished(am9, "tik", Ticket))

TMDHeader ==
  /\ Running("TMDHeader")
  /\ \/ Skip(TmdStart)
     \/ /\ size >= Padding(TmdStart)
        /\ BasicCopy(Padding(TmdStart), TmdStart + cia.tmdHdr, "TMD") \/ (~c.buf /\ Fails)

\* The header is read from c->buf, which must be there.
TMDImport ==
  /\ Running("TMD") /\ ~c.tmdHeader
  /\ \/ ~c.buf /\ call' = "fault" /\ UNCHANGED <<cia, c, size, fed, am9>>
     \/ c.buf /\ BeginFails(<<"title", "tmd">>)
     \/ /\ c.buf
        /\ Pass([c EXCEPT !.tmdHeader = TRUE, !.importing = @ \union {"title", "tmd"}], 0,
                [Given(Begun(Begun(am9, "title"), "tmd"), Bytes(TmdStart, TmdStart + cia.tmdHdr))
                   EXCEPT !.title = "open"])

\* Mutant: a rest shorter than a block is left out.
BugRestDropped(mis, off, n, end, cap, guard) ==
  LET rem == (end - off) % U32
      want == Smaller(Smaller(rem, n), cap)
      write == IF n >= rem THEN want ELSE want - (want % Block)
  IN  [out |-> Bytes(off, off + write), mis |-> <<>>, used |-> want]

\* Mutant: bytes go to AM9 as they come.
BugDirectWrites(mis, off, n, end, cap, guard) ==
  LET write == Smaller(Smaller((end - off) % U32, n), cap)
  IN  [out |-> Bytes(off, off + write), mis |-> <<>>, used |-> write]

\* What one pass does with n bytes at offset off, of an object that ends at
\* "end": first it fills misalign_buf to a block, then whole blocks go to AM9,
\* and a rest shorter than a block waits in misalign_buf.  "guard": the code
\* tests whether the chunk was used up by the first part.
Blocks(mis, off, n, end, cap, guard) ==
  LET fills == mis # <<>> /\ Len(mis) + n >= Block
      take == IF mis = <<>> THEN 0 ELSE IF fills THEN Block - Len(mis) ELSE n
      out1 == IF fills THEN mis \o Bytes(off, off + take) ELSE <<>>
      mis1 == IF fills THEN <<>> ELSE IF mis = <<>> THEN <<>> ELSE mis \o Bytes(off, off + take)
      off1 == off + take
      n1 == n - take
      rem == (end - off1) % U32
      last == n1 >= rem
      want == IF last THEN rem ELSE Smaller(Smaller(rem, n1), cap)
      write == IF last THEN want ELSE want - (want % Block)
  IN  IF n1 = 0 /\ guard
      THEN [out |-> out1, mis |-> mis1, used |-> take]
      ELSE IF write = 0 /\ ~last
      THEN [out |-> out1, mis |-> Bytes(off1, off1 + want), used |-> take + want]
      ELSE [out |-> out1 \o Bytes(off1, off1 + write), mis |-> mis1, used |-> take + write]

TMDWrite ==
  /\ Running("TMD") /\ c.tmdHeader /\ c.offset # TmdEnd
  /\ LET b == Blocks(c.misalign, c.offset, size, TmdEnd, MaxWrite, FALSE) IN
       Fails \/ Pass([c EXCEPT !.misalign = b.mis], b.used, Given(am9, b.out))

TMDFinish ==
  /\ Running("TMD") /\ c.tmdHeader /\ c.offset = TmdEnd
  /\ \/ Fails
     \/ Pass([c EXCEPT !.buf = FALSE, !.state = "Content", !.start = ConStart,
                       !.importing = @ \ {"tmd"}], 0, Finished(am9, "tmd", TMD))

\* Mutant: a finished batch is not committed.
BugCommitOnce == cia.dlc /\ c.batch = 0 /\ c.imported = 1

\* DLC: the title is committed after the first content and after every batch.
CommitDue ==
  /\ cia.dlc
  /\ \/ c.batch = 0 /\ c.imported = 1
     \/ c.batch > 0 /\ c.inBatch = c.batch

ContentSkip == Running("Content") /\ Skip(c.start)

\* InstallTitleFinish, InstallTitlesCommit and InstallTitleBegin; then the rest
\* of the pass, which sets up the next batch and the next content.
ContentSetup ==
  /\ Running("Content") /\ size >= Padding(c.start) /\ ~("content" \in c.importing)
  /\ LET pad == Padding(c.start)
         commit == CommitDue
         batch0 == IF commit THEN 0 ELSE c.batch
         left == {i \in Enabled : i >= c.cindex}
         newBatch == cia.dlc /\ c.imported >= 1 /\ batch0 = 0
         chosen == {i \in left : Cardinality({j \in left : j < i}) < BatchMax}
         next == CHOOSE i \in left : \A j \in left : i <= j
         start == RoundUp(c.offset + pad)
         c1 == [c EXCEPT !.batch = IF newBatch THEN Cardinality(chosen) ELSE batch0,
                         !.inBatch = IF commit THEN 0 ELSE @]
         a1 == [am9 EXCEPT !.contexts = IF newBatch THEN chosen ELSE IF commit THEN {} ELSE @]
     IN \/ /\ left # {}
           /\ Pass([c1 EXCEPT !.cindex = next, !.importing = @ \union {"content"},
                              !.start = start, !.end = start + cia.con[next]],
                   pad, Begun(a1, "content"))
        \/ /\ left = {}
           /\ Pass([c1 EXCEPT !.cindex = cia.n, !.state = "Finalize"], pad, a1)
        \/ Fails                       \* TitleFinish, CreateContexts or ContentBegin
        \/ /\ left # {} /\ AM9Fails     \* GetCurrentImportContentContexts
           /\ ErrExit(c.importing \union {"content"}, am9.open \union {"content"})
        \/ /\ commit /\ AM9Fails       \* TitlesCommit or TitleBegin
           /\ ErrExit(c.importing \ {"title"}, am9.open \ {"title"})

\* Mutant: the same index is installed again.
BugIndexNotAdvanced(c1) ==
  [c1 EXCEPT !.imported = @ + 1, !.importing = @ \ {"content"},
             !.inBatch = IF cia.dlc /\ c1.imported # 0 THEN @ + 1 ELSE @]

\* Mutant: importing_content stays set.
BugFlagStays(c1) ==
  [c1 EXCEPT !.imported = @ + 1, !.cindex = @ + 1,
             !.inBatch = IF cia.dlc /\ c1.imported # 0 THEN @ + 1 ELSE @]

\* check_finish_content: the first content is not part of a batch.
ContentDone(c1) ==
  [c1 EXCEPT !.imported = @ + 1, !.cindex = @ + 1, !.importing = @ \ {"content"},
             !.inBatch = IF cia.dlc /\ c1.imported # 0 THEN @ + 1 ELSE @]

\* Write what the chunk has of the content, and finish it at its end.
ContentWrite ==
  /\ Running("Content") /\ size >= Padding(c.start) /\ ~CommitDue /\ "content" \in c.importing
  /\ LET pad == Padding(c.start)
         off == c.offset + pad
         b == Blocks(c.misalign, off, size - pad, c.end, U32, TRUE)
         given == Given(am9, b.out)
         c1 == [c EXCEPT !.misalign = b.mis]
     IN \/ /\ off + b.used = c.end
           /\ Pass(ContentDone(c1), pad + b.used, Finished(given, "content", c.cindex))
        \/ off + b.used # c.end /\ Pass(c1, pad + b.used, given)
        \/ Fails

\* The chunk is done with, whatever is left of it.
Finalize ==
  /\ Running("Finalize")
  /\ \/ cia.meta > 0 /\ Skip(FileEnd)
     \/ /\ cia.meta = 0 \/ size >= Padding(FileEnd)
        /\ c' = [c EXCEPT !.offset = @ + (IF cia.meta = 0 THEN 0 ELSE Padding(FileEnd))]
        /\ size' = 0 /\ call' = "none"
        /\ UNCHANGED <<cia, fed, am9>>

-----------------------------------------------------------------------------
(* source/am/ipc.c: the commands that end the install, sent between writes *)

\* 0x0404: cancel in AM9 what the flags say is open.
CancelInstall ==
  /\ call = "none" /\ ~Ended
  /\ c' = [c EXCEPT !.buf = FALSE]
  /\ am9' = [am9 EXCEPT !.open = @ \ c.importing, !.title = "cancelled"]
  /\ UNCHANGED <<cia, size, call, fed>>

\* 0x0405, 0x0406: AM9 accepts when the title is all that is open.  The handle
\* is closed, so the install is over, either way.
FinishInstall ==
  /\ call = "none" /\ ~Ended
  /\ am9' = [am9 EXCEPT !.open = IF @ = {"title"} THEN {} ELSE @, !.title = "finished"]
  /\ UNCHANGED <<cia, c, size, call, fed>>

-----------------------------------------------------------------------------
Step ==
  \/ WriteReturn
  \/ Header \/ ContentIndex \/ CertChainCopy \/ CertChainInstall
  \/ TicketHeader \/ TicketImport \/ TicketWrite \/ TicketFinish
  \/ TMDHeader \/ TMDImport \/ TMDWrite \/ TMDFinish
  \/ ContentSkip \/ ContentSetup \/ ContentWrite \/ Finalize

Next == (\E n \in 1..MaxChunk : WriteCall(n)) \/ Step \/ CancelInstall \/ FinishInstall

\* A write that was received is processed.
Spec == Init /\ [][Next]_vars /\ WF_vars(Step)

-----------------------------------------------------------------------------
(* Properties *)

\* Wherever the client splits the file, AM9 is given exactly the bytes of each
\* ticket, TMD and content before it is told to finish it.
InstalledExactly ==
  \A x \in am9.installed :      \* <<object, what AM9 was given for it>>
    x[2] = CASE x[1] = Ticket -> Bytes(TikStart, TikEnd)
             [] x[1] = TMD -> Bytes(TmdStart, TmdEnd)
             [] OTHER -> Bytes(ConAt(x[1]), ConAt(x[1]) + cia.con[x[1]])

\* TMD and contents are written encrypted: every write but an object's last is
\* a whole number of blocks, and starts on one.
WritesAligned ==
  am9.open \intersect {"tmd", "content"} # {} /\ ~c.invalidated => ~am9.ragged

\* The flags a later cancel goes by say what is open in AM9, also after any
\* call has failed.
FlagsMatchAM9 == ~Ended => c.importing = am9.open

\* A DLC content other than the first is imported under a context made for it.
ContentHasContext ==
  cia.dlc /\ "content" \in am9.open /\ c.imported >= 1 /\ ~c.invalidated =>
    c.cindex \in am9.contexts

\* When the file has been written to its end without an error, the ticket, the
\* TMD and every enabled content are installed and only the title is open.  (A
\* file that ends with its TMD has no more bytes to bring the pass that finishes it.)
FileEndInstallsAll ==
  fed = FileEnd /\ TmdEnd < FileEnd /\ call = "none" /\ ~c.invalidated /\ ~Ended =>
    /\ {x[1] : x \in am9.installed} = {Ticket, TMD} \union Enabled
    /\ am9.open = {"title"}

\* Every write is answered: no state of the machine loops without consuming.
\* (A file without a ticket leads to the use of a TMD header never read.)
WriteReturns == cia.tik > 0 => ((call = "write") ~> (call = "none"))
=============================================================================
