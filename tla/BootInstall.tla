----------------------------- MODULE BootInstall -----------------------------
(***************************************************************************)
(* One installation directory under repeated runs of the LILO map          *)
(* installer: lilo (bsect_open ... bsect_update), lilo -t (bsect_cancel),  *)
(* lilo -u and -U (bsect_uninstall), with the list of temporary files of   *)
(* temp.c.                                                                 *)
(*                                                                         *)
(* The disk keeps the boot sector, /boot/map, /boot/map~ and the backup    *)
(* copy /boot/boot.NNNN.  A run is a sequence of system calls; each may    *)
(* fail (die(), which exits through temp_remove) and the process may be    *)
(* killed between any two of them (no cleanup at all).  A map file is      *)
(* known by the run that wrote it, a boot sector by the run or the other   *)
(* system that wrote it.                                                   *)
(***************************************************************************)
EXTENDS Integers, FiniteSets

CONSTANTS
    Foreign,        \* boot sectors of other systems
    Jobs,           \* what runs may do, a subset of AllJobs
    Forces,         \* whether FORCE-BACKUP is set, a subset of BOOLEAN
    Louds,          \* whether the verbosity is 9 or more (-v), of BOOLEAN
    RootDevices,    \* whether BOOT is unset (the current root), of BOOLEAN
    Gaps,           \* seconds between the starts of two runs
    MaxRuns,        \* bound: runs of the installer
    MaxTmpDev       \* MAX_TMP_DEV of device.h

AllJobs == {"install", "test", "-u", "-U"}

ASSUME InstallAssumption ==
    /\ Foreign \cap Nat = {}
    /\ Jobs \subseteq AllJobs
    /\ Forces \subseteq BOOLEAN
    /\ Louds \subseteq BOOLEAN
    /\ RootDevices \subseteq BOOLEAN
    /\ Gaps \subseteq Nat
    /\ MaxRuns \in Nat /\ MaxTmpDev \in Nat

VARIABLES
    sector,     \* the boot sector on the device
    mapFile,    \* /boot/map: [run, done], or NoFile
    mapTemp,    \* /boot/map~
    backup,     \* /boot/boot.NNNN: [state, content, mtime]
    devNodes,   \* how many /tmp/dev.N exist
    clock,      \* seconds
    runs,       \* runs started so far; the number of the present one
    pc,         \* the next system call of the present run, or "idle"
    opts,       \* its job and options
    bsect,      \* its copy of the boot sector, merged and updated in memory
    bsect_orig, \* the boot sector as it was read
    temps,      \* its list of temporary files (temp.c)
    warned      \* the last run printed "The system is unbootable !"

disk == <<sector, mapFile, mapTemp, backup, devNodes>>
maps == <<mapFile, mapTemp>>
memory == <<opts, bsect, bsect_orig>>
vars == <<disk, clock, runs, pc, memory, temps, warned>>

Runs == 1 .. MaxRuns
NoFile == [run |-> 0, done |-> FALSE]

\* What a sector says (timestamp, the map whose sectors it points to) and, as
\* history, the sector it stands for: the one -u is meant to bring back.
Sectors == [id : Foreign \cup Runs, timestamp : Nat, map : 0 .. MaxRuns,
            ancestor : Foreign \cup Runs]
IsLilo(s) == s.id \notin Foreign

\* The backup file: absent, created but not written, or complete.
NoSector == [id |-> 0, timestamp |-> 0, map |-> 0, ancestor |-> 0]
NoBackup == [state |-> "none", content |-> NoSector, mtime |-> 0]

\* A foreign sector has no LILO timestamp; its bytes there match no file date.
ForeignSector(f) == [id |-> f, timestamp |-> 0, map |-> 0, ancestor |-> f]

\* The boot sector leads to a finished map file with this name.
LeadsTo(file) == file.done /\ file.run = sector.map

\* The machine comes up from this sector: it is another system's, or the map
\* whose disk sectors it names still exists and is complete.
Bootable == IsLilo(sector) => LeadsTo(mapFile) \/ LeadsTo(mapTemp)

Init ==
    /\ sector \in {ForeignSector(f) : f \in Foreign}
    /\ mapFile = NoFile
    /\ mapTemp = NoFile
    /\ backup = NoBackup
    /\ devNodes = 0
    /\ clock = 1
    /\ runs = 0
    /\ pc = "idle"
    /\ opts = [job |-> "test", force |-> FALSE, loud |-> FALSE, root |-> FALSE]
    /\ bsect = sector
    /\ bsect_orig = sector
    /\ temps = {}
    /\ warned = FALSE

-----------------------------------------------------------------------------
(* Ends of a run.                                                          *)

\* Mutant of RemoveOnExit: atexit(temp_remove) is missing.
RemoveOnExitNothing == {}

\* temp_remove, run at exit, removes every file still on the list.
RemoveOnExit == temps

\* exit(): the process is gone, its listed temporary files are removed.
Exit ==
    /\ pc' = "idle"
    /\ mapTemp' = IF "map~" \in RemoveOnExit THEN NoFile ELSE mapTemp
    /\ devNodes' = IF "dev" \in RemoveOnExit THEN devNodes - 1 ELSE devNodes
    /\ temps' = {}
    /\ UNCHANGED memory

\* The system calls after which the code calls die() on an error.
MayFail == {"open", "create", "created", "images", "backup", "write backup",
            "stat backup", "close backup", "map done", "write boot",
            "check", "read backup", "write back", "cancel"}

\* die(): message and exit(1).
Die ==
    /\ pc \in MayFail
    /\ Exit
    /\ UNCHANGED <<sector, mapFile, backup, clock, runs, warned>>

\* The process is killed: nothing handles signals, nothing is cleaned up.
Kill ==
    /\ pc # "idle"
    /\ pc' = "idle"
    /\ temps' = {}
    /\ UNCHANGED <<disk, clock, runs, memory, warned>>

-----------------------------------------------------------------------------
(* main and bsect_open: a run starts by reading the boot sector.           *)

\* Without BOOT the device of the root file system is opened, if need be
\* through a temporary node /tmp/dev.N that goes on the list (dev_open).
Start(job, force, loud, root, node, gap) ==
    /\ pc = "idle"
    /\ runs < MaxRuns
    /\ node => root /\ devNodes <= MaxTmpDev
    /\ runs' = runs + 1
    /\ clock' = clock + gap
    /\ opts' = [job |-> job, force |-> force, loud |-> loud, root |-> root]
    /\ bsect' = sector
    /\ bsect_orig' = sector
    /\ devNodes' = IF node THEN devNodes + 1 ELSE devNodes
    /\ temps' = IF node THEN {"dev"} ELSE {}
    /\ pc' = IF job \in {"-u", "-U"} THEN "check" ELSE "open"
    /\ warned' = FALSE
    /\ UNCHANGED <<sector, maps, backup>>

\* bsect_open up to map_create: boot.b is read over the sector, the timestamp is
\* put back.  The sector now stands for what it will overwrite, or for what the
\* LILO sector before it stood for.
MergeLoader ==
    /\ pc = "open"
    /\ bsect' = [bsect EXCEPT !.id = runs,
                              !.ancestor = IF IsLilo(bsect_orig) THEN bsect_orig.ancestor
                                           ELSE bsect_orig.id]
    /\ pc' = "create"
    /\ UNCHANGED <<disk, clock, runs, opts, bsect_orig, temps, warned>>

\* map_create: creat() truncates whatever /boot/map~ there is.
CreateMap ==
    /\ pc = "create"
    /\ mapTemp' = [run |-> runs, done |-> FALSE]
    /\ pc' = "created"
    /\ UNCHANGED <<sector, mapFile, backup, devNodes, clock, runs, memory, temps, warned>>

\* temp_register(temp_map); a failed write in map_create comes before it.
RegisterMap ==
    /\ pc = "created"
    /\ temps' = temps \cup {"map~"}
    /\ pc' = "images"
    /\ UNCHANGED <<disk, clock, runs, memory, warned>>

\* Mutant of Goal: -t is ignored.
GoalAlways == "backup"

\* After the images are mapped: `if (!test) bsect_update else bsect_cancel`.
Goal == IF opts.job = "test" THEN "cancel" ELSE "backup"

\* cfg_parse(cf_top) and check_fallback: all images are in the map file.
MapImages ==
    /\ pc = "images"
    /\ pc' = Goal
    /\ UNCHANGED <<disk, clock, runs, memory, temps, warned>>

\* Closing the boot device; dev_close also removes a temporary node.
CloseDevice ==
    IF opts.root /\ "dev" \in temps THEN devNodes' = devNodes - 1 ELSE UNCHANGED devNodes

\* bsect_cancel: finish the map, close, unregister, and remove /boot/map~ unless
\* the verbosity is 9 or more.
Cancel ==
    /\ pc = "cancel"
    /\ CloseDevice
    /\ mapTemp' = IF opts.loud THEN [mapTemp EXCEPT !.done = TRUE] ELSE NoFile
    /\ temps' = {}
    /\ pc' = "idle"
    /\ UNCHANGED <<sector, mapFile, backup, clock, runs, memory, warned>>

-----------------------------------------------------------------------------
(* bsect_update.                                                           *)

\* The backup file can be opened and FORCE-BACKUP is not set.
KeepBackup == backup.state # "none" /\ ~opts.force

\* Open the backup copy, or creat() it: the old contents are gone.
OpenBackup ==
    /\ pc = "backup"
    /\ \/ /\ KeepBackup
          /\ pc' = "close backup"
          /\ UNCHANGED backup
       \/ /\ ~KeepBackup
          /\ backup' = [state |-> "partial", content |-> NoSector, mtime |-> clock]
          /\ pc' = "write backup"
    /\ UNCHANGED <<sector, maps, devNodes, clock, runs, memory, temps, warned>>

BackupContents == bsect_orig

WriteBackup ==
    /\ pc = "write backup"
    /\ backup' = [state |-> "complete", content |-> BackupContents, mtime |-> clock]
    /\ pc' = "stat backup"
    /\ UNCHANGED <<sector, maps, devNodes, clock, runs, memory, temps, warned>>

\* The file's date becomes the timestamp; the sector now stands for the copy.
StampBackup ==
    /\ pc = "stat backup"
    /\ bsect' = [bsect EXCEPT !.timestamp = backup.mtime, !.ancestor = bsect_orig.id]
    /\ pc' = "close backup"
    /\ UNCHANGED <<disk, clock, runs, opts, bsect_orig, temps, warned>>

\* Mutant of AfterBackup: the boot sector is written before the map is done.
AfterBackupWrite == "write boot"

AfterBackup == "map done"

CloseBackup ==
    /\ pc = "close backup"
    /\ pc' = AfterBackup
    /\ UNCHANGED <<disk, clock, runs, memory, temps, warned>>

\* map_done: descriptors and checksum go into /boot/map~, their addresses into
\* the sector.
MapDone ==
    /\ pc = "map done"
    /\ mapTemp' = [mapTemp EXCEPT !.done = TRUE]
    /\ bsect' = [bsect EXCEPT !.map = runs]
    /\ pc' = "write boot"
    /\ UNCHANGED <<sector, mapFile, backup, devNodes, clock, runs, opts, bsect_orig, temps,
                   warned>>

WriteBoot ==
    /\ pc = "write boot"
    /\ sector' = bsect
    /\ pc' = "close boot"
    /\ UNCHANGED <<maps, backup, devNodes, clock, runs, memory, temps, warned>>

CloseBoot ==
    /\ pc = "close boot"
    /\ CloseDevice
    /\ temps' = temps \ {"dev"}
    /\ pc' = "unregister"
    /\ UNCHANGED <<sector, maps, backup, clock, runs, memory, warned>>

\* The close reports an error.  A named device is reported as unbootable; for
\* the current root device dev_close only dies.  Either way /boot/map~ is still
\* on the list and is removed at exit.
CloseBootFails ==
    /\ pc = "close boot"
    /\ warned' = ~opts.root
    /\ Exit
    /\ UNCHANGED <<sector, mapFile, backup, clock, runs>>

UnregisterMap ==
    /\ pc = "unregister"
    /\ temps' = temps \ {"map~"}
    /\ pc' = "rename"
    /\ UNCHANGED <<disk, clock, runs, memory, warned>>

RenameMap ==
    /\ pc = "rename"
    /\ mapFile' = mapTemp
    /\ mapTemp' = NoFile
    /\ pc' = "idle"
    /\ UNCHANGED <<sector, backup, devNodes, clock, runs, memory, temps, warned>>

\* rename() fails: "unbootable", although /boot/map~ stays where it is.
RenameMapFails ==
    /\ pc = "rename"
    /\ warned' = TRUE
    /\ Exit
    /\ UNCHANGED <<sector, mapFile, backup, clock, runs>>

-----------------------------------------------------------------------------
(* bsect_uninstall.                                                        *)

\* Mutant of TimestampMatches: the timestamp is not compared.
TimestampMatchesAlways == TRUE

\* -u compares the date of the backup with the timestamp in the sector.
TimestampMatches == opts.job = "-U" \/ backup.mtime = bsect.timestamp

CheckBackup ==
    /\ pc = "check"
    /\ IsLilo(bsect)
    /\ backup.state # "none"
    /\ TimestampMatches
    /\ pc' = "read backup"
    /\ UNCHANGED <<disk, clock, runs, memory, temps, warned>>

ReadBackup ==
    /\ pc = "read backup"
    /\ backup.state = "complete"
    /\ bsect' = backup.content
    /\ pc' = "write back"
    /\ UNCHANGED <<disk, clock, runs, opts, bsect_orig, temps, warned>>

\* Everything before the partition table is written back; then exit(0), or
\* unbootable() when the close of a named device fails.
WriteBack ==
    /\ pc = "write back"
    /\ sector' = bsect
    /\ warned' \in {FALSE, ~opts.root}
    /\ Exit
    /\ UNCHANGED <<mapFile, backup, clock, runs>>

-----------------------------------------------------------------------------
\* Another system installs its own boot sector between two runs.
OtherSystem(f) ==
    /\ pc = "idle"
    /\ sector' = ForeignSector(f)
    /\ UNCHANGED <<maps, backup, devNodes, clock, runs, pc, memory, temps, warned>>

Install ==
    \/ MergeLoader \/ CreateMap \/ RegisterMap \/ MapImages \/ Cancel
    \/ OpenBackup \/ WriteBackup \/ StampBackup \/ CloseBackup
    \/ MapDone \/ WriteBoot \/ CloseBoot \/ CloseBootFails
    \/ UnregisterMap \/ RenameMap \/ RenameMapFails

Uninstall == CheckBackup \/ ReadBackup \/ WriteBack

Next ==
    \/ \E job \in Jobs, force \in Forces, loud \in Louds, root \in RootDevices,
         node \in BOOLEAN, gap \in Gaps : Start(job, force, loud, root, node, gap)
    \/ Install
    \/ Uninstall
    \/ Die
    \/ Kill
    \/ \E f \in Foreign : OtherSystem(f)

Spec == Init /\ [][Next]_vars

-----------------------------------------------------------------------------
Files == [run : 0 .. MaxRuns, done : BOOLEAN]

TypeOK ==
    /\ sector \in Sectors /\ bsect \in Sectors /\ bsect_orig \in Sectors
    /\ mapFile \in Files /\ mapTemp \in Files
    /\ backup \in [state : {"none", "partial", "complete"},
                   content : Sectors \cup {NoSector}, mtime : Nat]
    /\ devNodes \in Nat
    /\ clock \in Nat
    /\ runs \in 0 .. MaxRuns
    /\ pc \in MayFail \cup {"idle", "close boot", "unregister", "rename"}
    /\ opts \in [job : AllJobs, force : BOOLEAN, loud : BOOLEAN, root : BOOLEAN]
    /\ temps \subseteq {"map~", "dev"}
    /\ warned \in BOOLEAN

\* As long as the sector leads to /boot/map, no single step of any run, failure
\* or kill makes the machine unbootable; only -u/-U, which may bring back an
\* old LILO sector whose map is gone, is exempt.
CommittedMapIsSafe ==
    [][Bootable /\ ~LeadsTo(mapTemp) /\ pc # "write back" => Bootable']_vars

\* What comes up is the other system, or the run whose map the sector leads to.
Boots ==
    IF ~IsLilo(sector) THEN sector.id
    ELSE IF LeadsTo(mapFile) \/ LeadsTo(mapTemp) THEN sector.map ELSE 0

Doing ==
    IF pc = "idle" THEN "idle"
    ELSE IF opts.job \in {"-u", "-U"} THEN "undo" ELSE opts.job

\* A run takes over the machine with one write or not at all, also where it fails
\* or is killed; the new system can be lost only until /boot/map~ has its final
\* name, the old one only to -u and -U: BootSwitch.
Promise == INSTANCE BootSwitch
    WITH Systems <- Foreign, Nothing <- 0, boots <- Boots, doing <- Doing,
         settled <- (IsLilo(sector) /\ LeadsTo(mapTemp) => LeadsTo(mapFile))
SwitchesAtOnce == Promise!Spec

\* The run ends by itself: it exits or returns from main, it is not killed.
EndsItself == pc # "idle" /\ pc' = "idle" /\ ~Kill

\* The runs that leave /boot/map~ behind on purpose or by the way they fail: a
\* test run with a verbosity of 9 or more that ends well (for somebody to look at
\* the map), and the failures before temp_register and after temp_unregister.
LeavesMap == pc \in {"created", "rename"} \/ (opts.loud /\ Cancel)

\* A run that ends by itself removes the device node it made and, unless it is
\* one that leaves it, the /boot/map~ it created, at whatever call it fails.
CleansUp ==
    [][EndsItself =>
         /\ devNodes' = devNodes - Cardinality(temps \cap {"dev"})
         /\ mapTemp.run = runs /\ ~LeavesMap => mapTemp' = NoFile]_vars

\* A test run changes neither the boot sector nor the map file nor the backup
\* ("The boot sector and the map file have *NOT* been altered.").
TestAltersNothing ==
    [][pc # "idle" /\ opts.job = "test" => UNCHANGED <<sector, mapFile, backup>>]_vars

\* Only FORCE-BACKUP replaces a finished backup copy.
BackupKept ==
    [][backup.state = "complete" /\ backup' # backup => opts.force]_vars

\* What lilo -u writes back, the timestamp having matched, is the sector that
\* the present boot sector stands for.
RestoresAncestor ==
    pc = "write back" /\ opts.job = "-u" => bsect.id = bsect_orig.ancestor

-----------------------------------------------------------------------------
(* What the README promises, and some runs do not keep.                    *)

\* "LILO automatically makes backup copies when it overwrites boot sectors."
\* While a LILO sector is installed, the sector it stands for can be restored.
OriginalIsBackedUp ==
    IsLilo(sector) => backup.state = "complete"
=============================================================================
