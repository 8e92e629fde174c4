-------------------------- MODULE MCSessionCommands --------------------------
(* Four families of commands of the session threads: backups of DSiWare,      *)
(* commits with a FIRM, questions about CIA files and DLC, and imports of     *)
(* titles (MCTitleImport has their instance).  They share no state, so a      *)
(* behaviour is of one of them and the others keep still.                     *)
(*                                                                            *)
(* Backups in the three formats, intact or damaged in one part, with sections *)
(* that are absent, shorter than an AES block, not whole blocks, and longer   *)
(* than the buffer.                                                           *)
EXTENDS TWLImport, FirmUpgrade, CIAReader, MCTitleImport, TLC

OldSize == [s \in Sections |-> CASE s = 0 -> 520 [] s = 1 -> 131100 [] s = 9 -> 48 [] OTHER -> 0]
NewSize == [s \in Sections |-> CASE s = 0 -> 592 [] s = 1 -> 262164 [] s = 3 -> 16 [] s = 9 -> 30
                                 [] OTHER -> 0]
MoreSaves == [NewSize EXCEPT ![10] = 17, ![11] = 131088]

Backup(t, size, parts) == [type |-> t, size |-> size, damaged |-> parts]
TheBackups ==
  {Backup(9, MoreSaves, d) : d \in {{}, {Banner}, {Header}, {Footer}, {TMD}, {1}, {PublicSave},
                                    {PrivateSave}}}
  \union {Backup(2, NewSize, d) : d \in {{}, {Header}, {PublicSave}}}
  \union {Backup(12, OldSize, {}), Backup(13, OldSize, {})}

TheFaultSets == {{}, {"other", "am9"}, {"other", "file"}, {"other", "commit"}}

(* FIRM 2 runs; there is one with a higher core version, and the safe mode's  *)
(* between them.  Versions differ in their minor number or their revision.    *)
FirmTitle(low) == [system |-> TRUE, unique |-> 0, low |-> low]
Version(m, r) == [minor |-> m, revision |-> r]

TheTitles == {FirmTitle(2), FirmTitle(3), FirmTitle(4)}
TheVersions == {Version(1, 0), Version(1, 1), Version(2, 0)}
Native == FirmTitle(2)
First == Version(1, 0)
TheFirmMays == {{}, {"overlap"}, {"refuse", "plain"}, {"delete"}, {"older"}}

(* A CTR title with a content that the file leaves out, a TWL title with save *)
(* data, one with more contents than "many".  A DLC of four contents, of      *)
(* which the first is not optional, asked about in batches of two.            *)
Chunk(i, n) == [index |-> i, size |-> n]
Game == [enabled |-> {0, 2}, chunks |-> <<Chunk(0, 40000), Chunk(1, 100000), Chunk(2, 16384)>>,
         twl |-> FALSE, public |-> 0, private |-> 0, banner |-> FALSE, ctr |-> 40000,
         cert |-> 2560, tik |-> 848, tmd |-> 2964, con |-> 56384, meta |-> 15040, left |-> 15040]
DSiWare == [Game EXCEPT !.enabled = {0}, !.chunks = <<Chunk(0, 1015808)>>, !.twl = TRUE,
                        !.public = 20000, !.private = 20000, !.banner = TRUE, !.con = 1015824,
                        !.left = 770]
Many == [Game EXCEPT !.enabled = 0..2, !.ctr = 0,
                     !.chunks = <<Chunk(0, 1015809), Chunk(1, 1), Chunk(2, 16385), Chunk(3, 3)>>]

TheFiles == ("game" :> Game) @@ ("dsiware" :> DSiWare) @@ ("many" :> Many)
TheDLC == [i \in {0, 1, 2, 5} |-> [size |-> 70000 * i, optional |-> i # 0]]

OfFile(c, m, f) == [command |-> c, media |-> m, file |-> f, choice |-> <<>>]
OfDLC(m, choice) == [command |-> "context", media |-> m, file |-> NoFile, choice |-> choice]
TheQuestions ==
  {OfFile("info", "nand", "game"), OfFile("info", "sd", "dsiware"),
   OfFile("info", "card", "game"),
   OfFile("required", "sd", "game"), OfFile("required", "nand", "dsiware"),
   OfFile("required", "nand", "many"), OfFile("smdh", "none", "dsiware"),
   OfFile("dependencies", "none", "game"), OfFile("offset", "none", "game"),
   OfFile("meta size", "none", "game"), OfFile("meta", "none", "game"),
   OfDLC("card", <<1>>), OfDLC("sd", <<1>>), OfDLC("nand", <<5, 2, 1>>), OfDLC("sd", <<1, 2, 5, 1>>),
   OfDLC("sd", <<1, 0>>)}

TheReadFaults == {{}, {"header", "indices", "info", "am9"}, {"tmd", "chunks"}}

-----------------------------------------------------------------------------
VARIABLE family

cvars == <<family, tvars, fvars, rdvars, vars>>

CommandsInit ==
  /\ family \in {"backups", "firm", "files", "titles"}
  /\ TWLInit
  /\ family = "backups" \/ (faults = {} /\ stack = 0 /\ file = Backup(2, NewSize, {}))
  /\ FirmInit
  /\ family = "firm" \/ environment = {}
  /\ ReaderInit
  /\ family = "files" \/ unread = {}
  /\ Init
  /\ family = "titles" \/ may = CHOOSE m \in Mays : TRUE

CommandsNext ==
  \/ family = "backups" /\ TWLNext /\ UNCHANGED <<family, fvars, rdvars, vars>>
  \/ family = "firm" /\ FirmNext /\ UNCHANGED <<family, tvars, rdvars, vars>>
  \/ family = "files" /\ ReaderNext /\ UNCHANGED <<family, tvars, fvars, vars>>
  \/ family = "titles" /\ Next /\ UNCHANGED <<family, tvars, fvars, rdvars>>

CommandsSpec == CommandsInit /\ [][CommandsNext]_cvars /\ ReaderFairness /\ Fairness
=============================================================================
