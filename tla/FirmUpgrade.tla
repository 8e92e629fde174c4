----------------------------- MODULE FirmUpgrade -----------------------------
(***************************************************************************)
(* Committing imported titles with the firmware that belongs to them:      *)
(* 0x040E and 0x081B (AM_InstallTitlesCommit_OptionalFirmUpgrade), the     *)
(* plain commits 0x0407 and 0x0809, and 0x040F, all of source/am/ipc.c.    *)
(* FIRM is a title like any other on the NAND; what the system boots is a  *)
(* copy of it in partitions of its own, which AM9 writes when AM tells it  *)
(* which title to take.  The low byte of such a title's id is compared     *)
(* with the core version of the FIRM that is running.                      *)
(*                                                                         *)
(* A step is a request to AM9 with the code up to the next one.  AM9 is    *)
(* external.                                                               *)
(***************************************************************************)
EXTENDS Integers, FiniteSets

CONSTANTS
  FirmSessions,   \* session threads
  TitleIds,       \* records [system, unique, low]: what the code looks at
  Versions,       \* records [minor, revision] of a title's version
  FirstFirm,      \* the title of the FIRM that runs at first, with FirstVersion
  FirstVersion,
  MaxTitles,      \* bound: how many titles are imported altogether
  FirmMays        \* the environments: sets of what may happen beside commands
                  \* that follow one another
                  \*   "overlap"   commands of two sessions overlap
                  \*   "refuse"    AM9 refuses a request
                  \*   "delete"    titles are deleted, whatever commands do
                  \*   "older"     titles are replaced by older versions, and a
                  \*               client says which FIRM is to be written
                  \*   "plain"     titles are committed without regard to FIRM

VARIABLES
  environment,   \* one of FirmMays, and never changes
  installed, imported,   \* AM9: the versions of titles committed and pending
  running,       \* CFG_FIRM_SYSCOREVER, _VERSIONMINOR, _VERSIONREVISION
  firm,          \* the FIRM in the partitions, which the next start will run
  fth,           \* each session's thread: its command, and where it is
  titlesLeft

nand == <<installed, imported, firm>>
fvars == <<environment, nand, running, fth, titlesLeft>>

Absent == [minor |-> 0, revision |-> 0]
NoTitleId == [system |-> FALSE, unique |-> 0, low |-> 0]

ASSUME VersionsAssumption == Versions \subseteq [minor : Nat \ {0}, revision : Nat]

\* Titles without a unique id are FIRM, and each has a low byte of its own; the
\* one that runs at first is not the safe mode's.
ASSUME TitlesAssumption ==
  /\ IsFiniteSet(TitleIds) /\ TitleIds \subseteq [system : BOOLEAN, unique : Nat, low : 0..255]
  /\ \A t, u \in TitleIds : t.unique = 0 /\ u.unique = 0 /\ t.low = u.low => t = u
  /\ FirstFirm \in TitleIds /\ FirstVersion \in Versions
  /\ FirstFirm.system /\ FirstFirm.unique = 0 /\ FirstFirm.low > 0 /\ FirstFirm.low % 2 = 0

Firm(t, v) == [core |-> t.low, minor |-> v.minor, revision |-> v.revision]

\* f is a later FIRM than g, revisions included.
Later(f, g) ==
  \/ f.core > g.core
  \/ f.core = g.core /\ f.minor > g.minor
  \/ f.core = g.core /\ f.minor = g.minor /\ f.revision > g.revision

On(titles) == {t \in TitleIds : titles[t] # Absent}

Ready(s) == fth[s].pc = "idle"

\* No command of another session is under way.
Undisturbed == "overlap" \notin environment => \A r \in FirmSessions : Ready(r)

Resting == [pc |-> "idle", command |-> "none", ids |-> {}, count |-> 0,
            input |-> NoTitleId, found |-> NoTitleId, target |-> NoTitleId]

FirmInit ==
  /\ environment \in FirmMays
  /\ installed = [t \in TitleIds |-> IF t = FirstFirm THEN FirstVersion ELSE Absent]
  /\ imported = [t \in TitleIds |-> Absent]
  /\ running = Firm(FirstFirm, FirstVersion) /\ firm = running
  /\ fth = [s \in FirmSessions |-> Resting]
  /\ titlesLeft = MaxTitles

-----------------------------------------------------------------------------
(* Choosing *)

\* Mutant: a version that is only not older counts as newer.
BugNewerOrSame(t, v) ==
  t.low > running.core \/ (t.low = running.core /\ v.minor >= running.minor)

\* The third disjunct of the code adds nothing to the second: a later revision
\* of the running minor version does not count as newer.
firmNewerThanRunning(t, v) ==
  \/ t.low > running.core
  \/ t.low = running.core /\ v.minor > running.minor
  \/ t.low = running.core /\ v.minor > running.minor /\ v.revision > running.revision

\* Titles with no unique id and the highest low byte; the system's odd ones,
\* which are for the safe mode, are left out.
findNewestFirmTitleId(ids) ==
  LET firms == {t \in ids : (~t.system \/ t.low % 2 = 0) /\ t.unique = 0 /\ t.low > 0}
  IN IF firms = {} THEN NoTitleId ELSE CHOOSE t \in firms : \A u \in firms : u.low <= t.low

-----------------------------------------------------------------------------
(* Commands *)

Ask(s, command, ids) ==
  /\ Ready(s) /\ Undisturbed
  /\ fth' = [fth EXCEPT ![s] = [Resting EXCEPT
       !.pc = "count", !.command = command, !.ids = ids, !.input = findNewestFirmTitleId(ids)]]
  /\ UNCHANGED <<environment, nand, running, titlesLeft>>

Answer(s) == fth' = [fth EXCEPT ![s] = Resting]

\* A request that AM9 refuses ends the command with its result, and so does the
\* lack of memory for the list of titles.
Refused(s) ==
  /\ ~Ready(s) /\ "refuse" \in environment
  /\ Answer(s)
  /\ UNCHANGED <<environment, nand, running, titlesLeft>>

\* findNewestInstalledFirmTitleId: how many titles, and then so many of them.
GetTitleCount(s) ==
  /\ fth[s].pc = "count"
  /\ fth' = [fth EXCEPT ![s].pc = "list", ![s].count = Cardinality(On(installed))]
  /\ UNCHANGED <<environment, nand, running, titlesLeft>>

\* Without an installed FIRM the code goes on as with none that is newer.
Undecided(s, found) ==
  IF fth[s].command = "update" THEN Answer(s)
  ELSE fth' = [fth EXCEPT ![s].found = found,
                          ![s].pc = IF fth[s].input = NoTitleId THEN "commit" ELSE "pending"]

GetTitleList(s) ==
  /\ fth[s].pc = "list"
  /\ \E ids \in SUBSET On(installed) :
       LET found == findNewestFirmTitleId(ids) IN
       /\ \/ Cardinality(ids) = fth[s].count
          \/ ids = On(installed) /\ Cardinality(ids) < fth[s].count
       /\ IF found = NoTitleId THEN Undecided(s, found)
          ELSE fth' = [fth EXCEPT ![s].found = found, ![s].pc = "infos"]
  /\ UNCHANGED <<environment, nand, running, titlesLeft>>

\* Mutant: an installed FIRM is preferred to the one that is imported.
BugPreferInstalled(s) ==
  LET t == fth[s].found IN
  /\ fth[s].pc = "infos"
  /\ \/ installed[t] = Absent /\ Answer(s)
     \/ /\ installed[t] # Absent /\ firmNewerThanRunning(t, installed[t])
        /\ fth' = [fth EXCEPT ![s].pc = "commit", ![s].target = t]
     \/ /\ installed[t] # Absent /\ ~firmNewerThanRunning(t, installed[t])
        /\ Undecided(s, t)
  /\ UNCHANGED <<environment, nand, running, titlesLeft>>

\* findInstalledFirmTitleIdNewerThanRunning, and the choice between it and the
\* FIRM among the titles to commit.
GetTitleInfos(s) ==
  LET t == fth[s].found
      chosen == IF fth[s].input.low < t.low THEN t ELSE fth[s].input
  IN
  /\ fth[s].pc = "infos"
  /\ \/ installed[t] = Absent /\ Answer(s)
     \/ /\ installed[t] # Absent /\ firmNewerThanRunning(t, installed[t])
        /\ fth' = [fth EXCEPT ![s].pc = "commit", ![s].target = chosen]
     \/ /\ installed[t] # Absent /\ ~firmNewerThanRunning(t, installed[t])
        /\ Undecided(s, t)
  /\ UNCHANGED <<environment, nand, running, titlesLeft>>

\* findFirmTitleIdToInstall when no installed FIRM is newer than the running one.
GetPendingTitleInfo(s) ==
  LET t == fth[s].input IN
  /\ fth[s].pc = "pending"
  /\ IF imported[t] = Absent THEN Answer(s)
     ELSE fth' = [fth EXCEPT ![s].pc = "commit",
                    ![s].target = IF firmNewerThanRunning(t, imported[t]) THEN t ELSE NoTitleId]
  /\ UNCHANGED <<environment, nand, running, titlesLeft>>

\* AM9 commits all titles or none.
Commit(ids) ==
  /\ ids \subseteq On(imported)
  /\ installed' = [t \in TitleIds |-> IF t \in ids THEN imported[t] ELSE installed[t]]
  /\ imported' = [t \in TitleIds |-> IF t \in ids THEN Absent ELSE imported[t]]

\* AM9_InstallTitlesCommit, AM9_InstallTitlesFinishAndInstallFIRM or, for 0x040F
\* with no titles to commit, AM9_InstallFIRM.
CommitTitles(s) ==
  LET t == fth[s].target IN
  /\ fth[s].pc = "commit"
  /\ \/ /\ Commit(fth[s].ids)
        /\ \/ t = NoTitleId /\ UNCHANGED firm
           \/ t # NoTitleId /\ installed'[t] # Absent /\ firm' = Firm(t, installed'[t])
     \/ /\ \/ ~(fth[s].ids \subseteq On(imported))
           \/ t # NoTitleId /\ t \notin fth[s].ids /\ installed[t] = Absent
        /\ UNCHANGED nand
  /\ Answer(s)
  /\ UNCHANGED <<environment, running, titlesLeft>>

\* 0x0407, 0x0809
PlainCommit(s, ids) ==
  /\ Ready(s) /\ Undisturbed /\ "plain" \in environment
  /\ Commit(ids)
  /\ UNCHANGED <<environment, running, firm, fth, titlesLeft>>

\* A title of another session is finished and waits for its commit.
ImportTitle(t, v) ==
  /\ titlesLeft > 0 /\ imported[t] = Absent /\ Undisturbed
  /\ Later(Firm(t, v), Firm(t, installed[t])) \/ "older" \in environment
  /\ imported' = [imported EXCEPT ![t] = v]
  /\ titlesLeft' = titlesLeft - 1
  /\ UNCHANGED <<environment, installed, running, firm, fth>>

\* 0x0401: any installed FIRM.
InstallFIRM(s, t) ==
  /\ Ready(s) /\ Undisturbed /\ "older" \in environment /\ installed[t] # Absent
  /\ firm' = Firm(t, installed[t])
  /\ UNCHANGED <<environment, installed, imported, running, fth, titlesLeft>>

-----------------------------------------------------------------------------
(* AM9 and the system *)

\* 0x0410 deletes any title.
DeleteTitle(t) ==
  /\ "delete" \in environment /\ installed[t] # Absent
  /\ installed' = [installed EXCEPT ![t] = Absent]
  /\ UNCHANGED <<environment, imported, running, firm, fth, titlesLeft>>

\* The system restarts from the partitions; commands are lost.
Restart ==
  /\ running' = firm
  /\ fth' = [s \in FirmSessions |-> Resting]
  /\ UNCHANGED <<environment, nand, titlesLeft>>

FirmNext ==
  \/ \E s \in FirmSessions :
       \/ \E ids \in SUBSET On(imported) \ {{}} : Ask(s, "commit", ids) \/ PlainCommit(s, ids)
       \/ Ask(s, "update", {})
       \/ \E t \in TitleIds : InstallFIRM(s, t)
       \/ GetTitleCount(s) \/ GetTitleList(s) \/ GetTitleInfos(s) \/ GetPendingTitleInfo(s)
       \/ CommitTitles(s) \/ Refused(s)
  \/ \E t \in TitleIds : DeleteTitle(t) \/ \E v \in Versions : ImportTitle(t, v)
  \/ Restart

FirmSpec == FirmInit /\ [][FirmNext]_fvars

-----------------------------------------------------------------------------
(* Properties *)

\* Commits write a FIRM only if it is newer than the one that runs, in a minor
\* version at least, and as long as commands do not overlap, never one older
\* than the partitions have already.
FirmOnlyUpgraded ==
  [][firm' # firm /\ environment \intersect {"delete", "older"} = {} =>
       /\ firm'.core > running.core \/ (firm'.core = running.core /\ firm'.minor > running.minor)
       /\ "overlap" \notin environment => ~Later(firm, firm')]_fvars

\* When every commit regards FIRM, then between commands the partitions have
\* the newest installed FIRM, up to its revision: none waits for an upgrade.
FirmIsCurrent ==
  environment \intersect {"overlap", "plain", "delete", "older"} = {} =>
    \A t \in TitleIds :
      t.system /\ t.unique = 0 /\ t.low % 2 = 0 /\ installed[t] # Absent =>
        ~Later(Firm(t, [installed[t] EXCEPT !.revision = 0]), [firm EXCEPT !.revision = 0])
=============================================================================
