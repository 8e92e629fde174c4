------------------------------ MODULE TWLImport ------------------------------
(***************************************************************************)
(* Backups of DSiWare titles: AM_ImportTWLBackup (0x001C) and AM_Read      *)
(* TWLBackupInfo (0x001E, 0x0028) of source/am/twlexport.c.  A backup is a *)
(* banner, a header, a footer and up to twelve sections, each padded to    *)
(* an AES block and followed by its MAC and IV.  Decrypting, MACs and      *)
(* signatures are AM9's: a MAC is right when the code asks about a part    *)
(* that is intact, at the place and of the size that AM9 gave it.          *)
(*                                                                         *)
(* AM9 has one open title for the whole system; another session may open   *)
(* one whenever this import has none.  A step is the code between two      *)
(* requests that change what AM9 has.                                      *)
(***************************************************************************)
EXTENDS Integers

CONSTANTS
  Backups,     \* files: format, section sizes, and which parts are damaged
  ExportTypes, \* the export types that clients ask for
  Buffers,     \* sizes of the client's working buffer
  Garbage,     \* what the stack may hold where the header buffer is not written
  FaultSets    \* the environments: sets of what may fail
               \*   "file"    a read of the block metadata
               \*   "am9"     a request to AM9 before the title is finished
               \*   "commit"  the commit of the finished title
               \* or be done by another session
               \*   "other"   opening and ending a title

VARIABLES
  faults, file,        \* chosen once, never changed
  cmd,                 \* the command: its name, export type, buffer size
  pc, answer,          \* the command's place in the code and its result
  type, info,          \* AM_ImportTWLBackup's, which an old header changes
  offset, section, remaining, nand_save_offset, stack,
  closed,              \* how often FSFile_Close was called on the file
  open_title, open_part, got, pending, committed    \* AM9

locals == <<type, info, offset, section, remaining, nand_save_offset, stack>>
am9_titles == <<open_title, open_part, got, pending, committed>>
tvars == <<faults, file, cmd, pc, answer, locals, closed, am9_titles>>

-----------------------------------------------------------------------------
(* Formats *)

BANNER_SIZE == 16384

ExportInfo ==
  [V2_12 |-> [header |-> 256, footer |-> 1280],
   V2_11 |-> [header |-> 240, footer |-> 1248],
   V1_4  |-> [header |-> 160, footer |-> 1024]]

getExportTypeInfo(t) ==
  IF t \in 7..11 THEN "V2_12" ELSE IF t \in {12, 13} THEN "V1_4" ELSE "V2_11"

AlignTo16(n) == ((n + 15) \div 16) * 16

alignMeta(n) == IF n = 0 THEN 0 ELSE AlignTo16(n) + 32

\* The sections, by the index of their hash in the footer of format V2_12.
TMD == 0
Contents == 1..8
PublicSave == 9
PrivateSave == 11
Saves == PublicSave..PrivateSave
Sections == TMD..PrivateSave

\* Parts in front of the sections.
Banner == -3
Header == -2
Footer == -1

\* What AM9 writes: the size of a section, and where it begins.  An old backup
\* has a TMD, a content and two saves; of the two old types, 0xC leaves the
\* size of the public save out of the header.
Format(f) == IF f.type \in {12, 13} THEN "V1_4" ELSE getExportTypeInfo(f.type)

FullHeader(i) == alignMeta(BANNER_SIZE) + alignMeta(ExportInfo[i].header)

Start(f) ==
  LET at[s \in 0..12] ==
        IF s = 0 THEN FullHeader(Format(f)) + alignMeta(ExportInfo[Format(f)].footer)
                 ELSE at[s - 1] + alignMeta(f.size[s - 1])
  IN at

FileSize(f) == Start(f)[12]

Intact(f, p) == p \notin f.damaged

\* The sizes as the code finds them in its header of format V2_12: in a V2_11
\* header the private save's lies behind what was decrypted, in the stack.
StatedSize(i, s) ==
  CASE s = PublicSave /\ file.type = 12 -> 0
    [] s = PrivateSave /\ i = "V2_11"   -> stack
    [] s = PrivateSave /\ i = "V1_4"    -> 0
    [] OTHER -> file.size[s]

getExportSize(i) ==
  LET sum[s \in 0..11] == IF s = 0 THEN 0 ELSE sum[s - 1] + alignMeta(StatedSize(i, s - 1))
  IN FullHeader(i) + alignMeta(ExportInfo[i].footer) + sum[11]
       + alignMeta(StatedSize(i, PrivateSave))

verifyExportHeader(i) ==
  getExportSize(i) = FileSize(file) /\ StatedSize(i, TMD) # 0 /\ StatedSize(i, 1) # 0

\* What AM9 puts into a backup: a TMD and a content at least, and in format
\* V2_11 no private save.  A part that is absent is not damaged.
ASSUME TWLAssumption ==
  /\ \A f \in Backups :
       /\ f.type \in Nat /\ f.size \in [Sections -> Nat] /\ f.damaged \subseteq Banner..PrivateSave
       /\ f.size[TMD] # 0 /\ f.size[1] # 0
       /\ Format(f) = "V2_11" => f.size[PrivateSave] = 0
       /\ \A s \in f.damaged \intersect Sections : f.size[s] # 0
  /\ Buffers \subseteq Nat /\ Garbage \subseteq Nat /\ ExportTypes \subseteq Nat

-----------------------------------------------------------------------------
TWLInit ==
  /\ faults \in FaultSets /\ file \in Backups /\ stack \in Garbage
  /\ cmd = [asks |-> {}, type |-> 0, buffer |-> 0]
  /\ pc = "idle" /\ answer = "none" /\ closed = 0
  /\ type = 0 /\ info = "V2_11"
  /\ offset = 0 /\ section = TMD /\ remaining = 0 /\ nand_save_offset = 0
  /\ open_title = "none" /\ open_part = "none" /\ got = [s \in Sections |-> 0]
  /\ pending = FALSE /\ committed = FALSE

\* CLOSEFILE_RET
CloseFile(r) == pc' = "done" /\ answer' = r /\ closed' = closed + 1

Proceed(l) == pc' = l /\ UNCHANGED <<answer, closed>>

\* Verify-only types install nothing.
OnlyVerify == type \notin {5, 11}

-----------------------------------------------------------------------------
(* AM_ImportTWLBackup: banner, header, footer *)

\* Types with an installation and the two verifying ones; a buffer of 128 KiB;
\* a file with room for the parts in front.
Import(t, b) ==
  LET i == getExportTypeInfo(t) IN
  /\ pc = "idle"
  /\ cmd' = [asks |-> {"import"}, type |-> t, buffer |-> b]
  /\ type' = t /\ info' = i
  /\ IF /\ t \in {2, 4, 5, 9, 10, 11} /\ b >= 131072
        /\ FileSize(file) >= FullHeader(i) + alignMeta(ExportInfo[i].footer)
     THEN Proceed("banner") ELSE CloseFile("error")
  /\ UNCHANGED <<faults, file, offset, section, remaining, nand_save_offset, stack, am9_titles>>

VerifyBanner ==
  /\ pc = "banner"
  /\ IF Intact(file, Banner)
       THEN Proceed("header") /\ offset' = alignMeta(BANNER_SIZE)
       ELSE CloseFile("error") /\ UNCHANGED offset
  /\ UNCHANGED <<faults, file, cmd, type, info, section, remaining, nand_save_offset, stack,
                 am9_titles>>

\* decryptSectionVerify of a header of format i.
HeaderDecrypts(i) == Format(file) = i /\ Intact(file, Header)

\* When the header is not of the format of the type, and that has eleven
\* sections, it is tried as an old one, whose type is then taken to be 0xC.
VerifyHeader ==
  LET i == IF info = "V2_12" \/ HeaderDecrypts(info) THEN info ELSE "V1_4" IN
  /\ pc = "header"
  /\ IF HeaderDecrypts(i) /\ verifyExportHeader(i)
       THEN /\ Proceed("footer")
            /\ info' = i
            /\ type' = IF i = "V1_4" THEN 12 ELSE type
            /\ offset' = offset + alignMeta(ExportInfo[i].header)
       ELSE CloseFile("error") /\ UNCHANGED <<info, type, offset>>
  /\ UNCHANGED <<faults, file, cmd, section, remaining, nand_save_offset, stack, am9_titles>>

\* footer_fullsize is still the one of the type that was asked for.
FooterFullSize == alignMeta(ExportInfo[getExportTypeInfo(cmd.type)].footer)

\* The footer's MAC, signature and certificates, and its hashes of the banner
\* and the header.  Types 4 and 10 are content with that.
VerifyFooter ==
  /\ pc = "footer"
  /\ IF ~Intact(file, Footer) THEN CloseFile("error") /\ UNCHANGED offset
     ELSE IF type \in {4, 10} THEN CloseFile("ok") /\ UNCHANGED offset
     ELSE Proceed(IF OnlyVerify THEN "section" ELSE "begin") /\ offset' = offset + FooterFullSize
  /\ UNCHANGED <<faults, file, cmd, type, info, section, remaining, nand_save_offset, stack,
                 am9_titles>>

-----------------------------------------------------------------------------
(* The title in AM9 *)

\* Mutant: the title is cancelled when it could not be begun.
BugCancelNotBegun ==
  /\ pc = "begin"
  /\ \/ open_title = "none" /\ open_title' = "import" /\ Proceed("section")
     \/ (open_title # "none" \/ "am9" \in faults) /\ open_title' = "none" /\ CloseFile("error")
  /\ UNCHANGED <<faults, file, cmd, locals, open_part, got, pending, committed>>

InstallTitleBegin ==
  /\ pc = "begin"
  /\ \/ open_title = "none" /\ open_title' = "import" /\ Proceed("section")
     \/ (open_title # "none" \/ "am9" \in faults) /\ CloseFile("error") /\ UNCHANGED open_title
  /\ UNCHANGED <<faults, file, cmd, locals, open_part, got, pending, committed>>

\* A section fails: AM9_InstallTitleCancel, which cancels whatever title is
\* open with its parts, unless nothing is installed; the file is closed.
Abort(closings) ==
  /\ pc' = "done" /\ answer' = "error" /\ closed' = closed + closings
  /\ IF OnlyVerify THEN UNCHANGED <<open_title, open_part>>
                   ELSE open_title' = "none" /\ open_part' = "none"

InstallTitleFinish ==
  /\ pc = "finish"
  /\ \/ open_title' = "none" /\ pending' = TRUE /\ Proceed("commit") /\ UNCHANGED open_part
     \/ "am9" \in faults /\ Abort(1) /\ UNCHANGED pending
  /\ UNCHANGED <<faults, file, cmd, locals, got, committed>>

InstallTitlesCommit ==
  /\ pc = "commit"
  /\ \/ /\ pending' = FALSE /\ committed' = TRUE /\ CloseFile("ok")
        /\ UNCHANGED <<open_title, open_part>>
     \/ "commit" \in faults /\ Abort(1) /\ UNCHANGED <<pending, committed>>
  /\ UNCHANGED <<faults, file, cmd, locals, got>>

-----------------------------------------------------------------------------
(* processSection *)

PartOf(s) == IF s = TMD THEN "tmd" ELSE IF s \in Contents THEN "content" ELSE "none"

Size == StatedSize(info, section)

\* AM_ImportTWLBackup goes from section to section; those of size 0 are left out.
SkipSection ==
  /\ pc = "section" /\ section \in Sections \ {TMD} /\ Size = 0
  /\ section' = section + 1
  /\ UNCHANGED <<faults, file, cmd, pc, answer, type, info, offset, remaining, nand_save_offset,
                 stack, closed, am9_titles>>

SectionsDone ==
  /\ pc = "section" /\ section \notin Sections
  /\ IF OnlyVerify THEN CloseFile("ok") ELSE Proceed("finish")
  /\ UNCHANGED <<faults, file, cmd, locals, am9_titles>>

\* processBegin, then READ_BLKMETA, which on an error closes the file before
\* the caller does, and does not call processCancel.
ProcessBegin ==
  LET metaEnd == offset + AlignTo16(Size) + 32 IN
  /\ pc = "section" /\ section \in Sections /\ (Size # 0 \/ section = TMD)
  /\ \/ /\ metaEnd <= FileSize(file)
        /\ open_part' = IF OnlyVerify THEN open_part ELSE PartOf(section)
        /\ remaining' = Size - (Size % 16)
        /\ nand_save_offset' = 0
        /\ Proceed("blocks")
        /\ UNCHANGED open_title
     \/ /\ metaEnd > FileSize(file) \/ "file" \in faults
        /\ Abort(2)
        /\ UNCHANGED <<remaining, nand_save_offset>>
     \/ /\ "am9" \in faults /\ ~OnlyVerify
        /\ Abort(1)
        /\ UNCHANGED <<remaining, nand_save_offset>>
  /\ UNCHANGED <<faults, file, cmd, type, info, offset, section, stack, got, pending, committed>>

\* AM9 takes n bytes, a save's at nand_save_offset.
Taken(n) ==
  IF OnlyVerify \/ (section \in Saves /\ nand_save_offset # got[section]) THEN got
  ELSE [got EXCEPT ![section] = @ + n]

\* A pass of the loop: as much as the buffer holds, in whole AES blocks.
ProcessBlocks ==
  LET bufsize == cmd.buffer - (cmd.buffer % 16)
      n == IF bufsize < remaining THEN bufsize ELSE remaining
  IN
  /\ pc = "blocks" /\ remaining > 0
  /\ \/ /\ got' = Taken(n)
        /\ offset' = offset + n
        /\ nand_save_offset' = nand_save_offset + n
        /\ remaining' = remaining - n
        /\ UNCHANGED <<pc, answer, closed, open_title, open_part>>
     \/ /\ "am9" \in faults
        /\ Abort(1)
        /\ UNCHANGED <<got, offset, nand_save_offset, remaining>>
  /\ UNCHANGED <<faults, file, cmd, type, info, section, stack, pending, committed>>

\* Mutant: the padding of the last block is installed with it.
BugPaddingInstalled ==
  /\ pc = "blocks" /\ remaining = 0
  /\ got' = IF Size % 16 = 0 THEN got ELSE Taken(16)
  /\ offset' = offset + (IF Size % 16 = 0 THEN 0 ELSE 16)
  /\ Proceed("verify")
  /\ UNCHANGED <<faults, file, cmd, type, info, section, remaining, nand_save_offset, stack,
                 open_title, open_part, pending, committed>>

\* The rest is read as a whole block, and installed without its padding.
ProcessRest ==
  /\ pc = "blocks" /\ remaining = 0
  /\ \/ /\ got' = Taken(Size % 16)
        /\ offset' = offset + (IF Size % 16 = 0 THEN 0 ELSE 16)
        /\ Proceed("verify")
        /\ UNCHANGED <<open_title, open_part>>
     \/ /\ "am9" \in faults /\ Size % 16 # 0
        /\ Abort(1)
        /\ UNCHANGED <<got, offset>>
  /\ UNCHANGED <<faults, file, cmd, type, info, section, remaining, nand_save_offset, stack,
                 pending, committed>>

\* The MAC is right for the section's own data, read from where it begins.
MACValid ==
  /\ offset - AlignTo16(Size) = Start(file)[section]
  /\ Size = file.size[section]
  /\ Intact(file, section)

\* Mutant: the metadata of the section are taken for the next one.
BugMetaNotSkipped ==
  /\ pc = "verify"
  /\ \/ /\ MACValid
        /\ open_part' = "none"
        /\ section' = section + 1
        /\ Proceed("section")
        /\ UNCHANGED <<offset, open_title>>
     \/ /\ ~MACValid \/ "am9" \in faults
        /\ Abort(1)
        /\ UNCHANGED <<offset, section>>
  /\ UNCHANGED <<faults, file, cmd, type, info, remaining, nand_save_offset, stack, got, pending,
                 committed>>

\* The MAC and the hash in the footer, then processFinish; the metadata are
\* passed over.
ProcessFinish ==
  /\ pc = "verify"
  /\ \/ /\ MACValid
        /\ open_part' = "none"
        /\ offset' = offset + 32
        /\ section' = section + 1
        /\ Proceed("section")
        /\ UNCHANGED open_title
     \/ /\ ~MACValid \/ "am9" \in faults
        /\ Abort(1)
        /\ UNCHANGED <<offset, section>>
  /\ UNCHANGED <<faults, file, cmd, type, info, remaining, nand_save_offset, stack, got, pending,
                 committed>>

-----------------------------------------------------------------------------
(* AM_ReadTWLBackupInfo *)

\* 0x0028 takes only headers of format V2_12, 0x001E of V2_11 and the old one.
InfoReadable(i) == HeaderDecrypts(i) \/ (i # "V2_12" /\ HeaderDecrypts("V1_4"))

\* The banner and the information are each read only when there is room for
\* them in the client's buffers.
ReadInfo(t, b, asks) ==
  LET i == getExportTypeInfo(t) IN
  /\ pc = "idle"
  /\ cmd' = [asks |-> asks, type |-> t, buffer |-> b]
  /\ CloseFile(IF /\ b >= FullHeader(i) /\ FileSize(file) >= FullHeader(i)
               /\ ("banner" \in asks => Intact(file, Banner))
               /\ ("info" \in asks => InfoReadable(i))
            THEN "ok" ELSE "error")
  /\ UNCHANGED <<faults, file, locals, am9_titles>>

\* 0x001E and 0x0028
ReadInfo11(b, asks) == ReadInfo(0, b, asks)

ReadInfo12(b, asks) == ReadInfo(7, b, asks)

-----------------------------------------------------------------------------
(* Other sessions *)

OtherTitle ==
  /\ "other" \in faults
  /\ \/ open_title = "none" /\ open_title' = "other"
     \/ open_title = "other" /\ open_title' = "none"
  /\ UNCHANGED <<faults, file, cmd, pc, answer, locals, closed, open_part, got, pending, committed>>

-----------------------------------------------------------------------------
Importing ==
  \/ VerifyBanner \/ VerifyHeader \/ VerifyFooter
  \/ InstallTitleBegin \/ InstallTitleFinish \/ InstallTitlesCommit
  \/ SkipSection \/ SectionsDone \/ ProcessBegin \/ ProcessBlocks \/ ProcessRest \/ ProcessFinish

TWLNext ==
  \/ \E b \in Buffers :
       \/ \E t \in ExportTypes : Import(t, b)
       \/ \E asks \in SUBSET {"banner", "info"} : ReadInfo11(b, asks) \/ ReadInfo12(b, asks)
  \/ Importing
  \/ OtherTitle

TWLSpec == TWLInit /\ [][TWLNext]_tvars

-----------------------------------------------------------------------------
(* Properties *)

Imports == "import" \in cmd.asks
Installs == Imports /\ cmd.type \in {5, 11}

\* An import that is reported as done has had every section of the backup
\* checked and, for types 5 and 11, given to AM9 with exactly its bytes, and
\* committed (twlexport.c:328-337); the other types change nothing.  One that
\* failed has left no title or part open and committed nothing; only when the
\* commit itself fails is the finished title pending.  Either way the client's
\* file is closed, and once, except when the metadata of a section could not
\* be read, or an old backup's are looked for in the wrong place.
AllOrNothing ==
  /\ (Imports /\ answer = "ok") =>
       /\ {Banner, Header, Footer} \intersect file.damaged = {}
       /\ (cmd.type \notin {4, 10} => file.damaged = {})
       /\ (Installs => committed /\ got = file.size)
  /\ ~Installs =>
       /\ open_title # "import" /\ open_part = "none" /\ ~pending
       /\ \A s \in Sections : got[s] = 0
  /\ answer = "error" =>
       /\ open_title # "import" /\ open_part = "none" /\ ~committed
       /\ ("commit" \notin faults => ~pending)
  /\ answer # "none" =>
       closed = 1 \/ (closed = 2 /\ ("file" \in faults \/ Format(file) = "V1_4"))

\* Until its title is finished, an import ends no title but its own: what
\* another session has open stays open.  (When the commit fails, the code
\* cancels the title that is open by then.)
OthersTitleStays ==
  [][pc # "commit" /\ pc' # pc /\ open_title = "other" => open_title' = "other"]_tvars

\* Nothing is wrong with the backup, nothing fails, and the command and type
\* are for backups of its format.
Flawless ==
  /\ file.damaged = {} /\ faults = {} /\ cmd.buffer >= 131072
  /\ IF Imports THEN cmd.type \in (IF Format(file) = "V2_12" THEN {9, 10, 11} ELSE {2, 4, 5})
                ELSE cmd.type = (IF Format(file) = "V2_12" THEN 7 ELSE 0)

\* A backup in one of the two newer formats imports, whatever the sizes of its
\* sections and of the buffer: every part is looked for where it is.  (In
\* format V2_11 the stack has to be zero where the header does not reach; old
\* backups, V1_4, do not import.)  The information in a backup can be read in
\* every format.
BackupsAreAccepted ==
  (/\ cmd.asks # {} /\ Flawless
   /\ Imports => Format(file) # "V1_4"
   /\ Imports /\ Format(file) = "V2_11" => stack = 0)
  => answer # "error"
=============================================================================
