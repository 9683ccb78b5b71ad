-------------------------- MODULE BootInstallProofs --------------------------
(***************************************************************************)
(* Theorems about the map installer, for any number of runs, any other     *)
(* systems and any mix of jobs, options, failures and kills.               *)
(*                                                                         *)
(* The argument: the label a run has reached says what job it does, which  *)
(* map /boot/map~ holds and what is on the list of temporary files.  From  *)
(* the write of the boot sector to the rename the sector leads to          *)
(* /boot/map~; no other step touches the map a committed sector leads to.  *)
(*                                                                         *)
(* That a run switches the machine at once needs the order of the numbers: *)
(* everything on the disk is older than the present run until the run      *)
(* writes it.  That -u restores the right sector needs the order of the    *)
(* dates: a sector with the date of the copy was stamped when that copy    *)
(* was made.                                                               *)
(***************************************************************************)
EXTENDS BootInstall, FiniteSetTheorems, TLAPS

\* Where each job may be.
Updating == {"backup", "write backup", "stat backup", "close backup", "map done",
             "write boot", "close boot", "unregister", "rename"}
Uninstalling == {"check", "read backup", "write back"}
Opening == {"open", "create"}

\* The labels between temp_register and temp_unregister.
Listed == {"images", "cancel"} \cup (Updating \ {"rename"})

\* A run is numbered, its label fits its job.
JobFits ==
    /\ pc # "idle" => runs \in Runs
    /\ pc \in Updating => opts.job = "install"
    /\ pc \in Uninstalling => opts.job \in {"-u", "-U"}
    /\ pc \in Opening \cup {"created", "images"} => opts.job \in {"install", "test"}
    /\ pc = "cancel" => opts.job = "test"

\* /boot/map~ is older than a run that has not created it, and its own after.
TempIsOwn ==
    /\ mapTemp.run <= runs
    /\ pc \in Opening \cup Uninstalling => mapTemp.run < runs
    /\ pc \in Listed \cup {"created"} => mapTemp.run = runs

\* What is on the list of temporary files.
ListFits ==
    /\ "map~" \in temps <=> pc \in Listed
    /\ "dev" \in temps => devNodes > 0 /\ opts.root
    /\ pc \in {"idle", "unregister", "rename"} => "dev" \notin temps

\* The boot sector is written when /boot/map~ is complete, and leads to it then.
MapReady ==
    /\ pc = "write boot" => mapTemp.done /\ mapTemp.run = bsect.map
    /\ pc \in {"close boot", "unregister", "rename"} => LeadsTo(mapTemp)

\* A complete backup holds a sector; what is being written is not complete yet.
BackupFits ==
    /\ backup.state = "complete" => backup.content \in Sectors
    /\ pc = "write backup" => backup.state = "partial"

\* The inductive invariant.
Inv == TypeOK /\ JobFits /\ TempIsOwn /\ ListFits /\ MapReady /\ BackupFits

-----------------------------------------------------------------------------
\* A sector with another identity is a sector; so is one with another date or map.
LEMMA Renamed ==
    ASSUME NEW s \in Sectors, NEW i \in Foreign \cup Runs, NEW a \in Foreign \cup Runs
    PROVE  [s EXCEPT !.id = i, !.ancestor = a] \in Sectors
  BY DEF Sectors

\* A date and an ancestor make a sector a sector.
LEMMA Dated ==
    ASSUME NEW s \in Sectors, NEW t \in Nat, NEW a \in Foreign \cup Runs
    PROVE  [s EXCEPT !.timestamp = t, !.ancestor = a] \in Sectors
  BY DEF Sectors

\* So does the number of a map file.
LEMMA Mapped ==
    ASSUME NEW s \in Sectors, NEW m \in 0 .. MaxRuns
    PROVE  /\ [s EXCEPT !.map = m] \in Sectors
           /\ [s EXCEPT !.map = m].map = m
  BY DEF Sectors

\* A finished map file keeps its number.
LEMMA Finished ==
    ASSUME NEW f \in Files
    PROVE  /\ [f EXCEPT !.done = TRUE] \in Files
           /\ [f EXCEPT !.done = TRUE].done
           /\ [f EXCEPT !.done = TRUE].run = f.run
  BY DEF Files

\* No file is one of the values a file may have.
LEMMA NoFileIsFile == NoFile \in Files /\ NoFile.run = 0
  BY InstallAssumption DEF NoFile, Files

\* Every start is one of the invariant's states.
LEMMA InitInv == Init => Inv
  <1> SUFFICES ASSUME Init
               PROVE  Inv
    OBVIOUS
  <1>1. \A f \in Foreign : ForeignSector(f) \in Sectors
    BY InstallAssumption DEF ForeignSector, Sectors
  <1>2. sector \in Sectors /\ bsect \in Sectors /\ bsect_orig \in Sectors
    BY <1>1 DEF Init
  <1>3. backup \in [state : {"none", "partial", "complete"},
                     content : Sectors \cup {NoSector}, mtime : Nat]
    BY DEF Init, NoBackup
  <1>4. opts \in [job : AllJobs, force : BOOLEAN, loud : BOOLEAN, root : BOOLEAN]
    BY DEF Init, AllJobs
  <1>5. TypeOK
    <2>1. devNodes \in Nat /\ clock \in Nat /\ runs \in 0 .. MaxRuns
      BY InstallAssumption DEF Init
    <2>2. mapFile \in Files /\ mapTemp \in Files /\ temps = {} /\ warned = FALSE
      BY NoFileIsFile DEF Init
    <2>3. pc \in MayFail \cup {"idle", "close boot", "unregister", "rename"}
      BY DEF Init
    <2> QED
      BY <1>2, <1>3, <1>4, <2>1, <2>2, <2>3 DEF TypeOK
  <1>6. JobFits /\ TempIsOwn /\ ListFits /\ MapReady /\ BackupFits
    BY NoFileIsFile
    DEF Init, JobFits, TempIsOwn, ListFits, MapReady, BackupFits, NoBackup, Updating,
        Uninstalling, Opening, Listed
  <1> QED
    BY <1>5, <1>6 DEF Inv
-----------------------------------------------------------------------------
\* The labels, jobs and numbers of runs go together over every step.
LEMMA NextJob == Inv /\ [Next]_vars => JobFits'
  <1> SUFFICES ASSUME Inv, [Next]_vars
               PROVE  JobFits'
    OBVIOUS
  <1>inv. JobFits /\ runs \in 0 .. MaxRuns /\ MaxRuns \in Nat
    BY InstallAssumption DEF Inv, TypeOK
  <1> USE DEF JobFits, Runs, Updating, Uninstalling, Opening, memory, disk
  <1>1. ASSUME NEW job \in Jobs, NEW force \in Forces, NEW loud \in Louds,
               NEW root \in RootDevices, NEW node \in BOOLEAN, NEW gap \in Gaps,
               Start(job, force, loud, root, node, gap)
        PROVE  JobFits'
    <2>1. job \in AllJobs
      BY InstallAssumption
    <2>2. opts'.job = job
      BY <1>1 DEF Start
    <2> QED
      BY <1>inv, <1>1, <2>1, <2>2 DEF Start, AllJobs
  <1>2. CASE MergeLoader \/ CreateMap \/ RegisterMap \/ MapImages \/ Cancel
    <2>1. CASE MergeLoader
      <3>1. opts' = opts /\ runs' = runs /\ pc = "open" /\ pc' = "create"
        BY <2>1 DEF MergeLoader
      <3> QED
        BY <1>inv, <3>1
    <2>2. CASE CreateMap \/ RegisterMap
      BY <1>inv, <2>2 DEF CreateMap, RegisterMap
    <2>3. CASE MapImages
      BY <1>inv, <2>3 DEF MapImages, Goal
    <2>4. CASE Cancel
      BY <1>inv, <2>4 DEF Cancel
    <2> QED
      BY <1>2, <2>1, <2>2, <2>3, <2>4
  <1>3. CASE OpenBackup \/ WriteBackup \/ StampBackup \/ CloseBackup
    BY <1>inv, <1>3 DEF OpenBackup, WriteBackup, StampBackup, CloseBackup, AfterBackup
  <1>4. CASE MapDone \/ WriteBoot \/ CloseBoot \/ UnregisterMap \/ RenameMap
    BY <1>inv, <1>4 DEF MapDone, WriteBoot, CloseBoot, UnregisterMap, RenameMap
  <1>5. CASE CloseBootFails \/ RenameMapFails \/ Die \/ Kill \/ WriteBack
    BY <1>inv, <1>5 DEF CloseBootFails, RenameMapFails, Die, Kill, WriteBack, Exit
  <1>6. CASE CheckBackup \/ ReadBackup
    BY <1>inv, <1>6 DEF CheckBackup, ReadBackup
  <1>7. ASSUME NEW f \in Foreign, OtherSystem(f)
        PROVE  JobFits'
    BY <1>inv, <1>7 DEF OtherSystem
  <1>8. CASE UNCHANGED vars
    BY <1>inv, <1>8 DEF vars
  <1> QED
    BY <1>1, <1>2, <1>3, <1>4, <1>5, <1>6, <1>7, <1>8 DEF Next, Install, Uninstall

\* /boot/map~ stays the file of the run that created it.
LEMMA NextOwn == Inv /\ [Next]_vars => TempIsOwn'
  <1> SUFFICES ASSUME Inv, [Next]_vars
               PROVE  TempIsOwn'
    OBVIOUS
  <1>inv. TempIsOwn /\ JobFits /\ runs \in Nat /\ mapTemp.run \in Nat
    <2>1. TempIsOwn /\ JobFits /\ runs \in 0 .. MaxRuns /\ mapTemp \in Files
      BY DEF Inv, TypeOK
    <2>2. mapTemp.run \in 0 .. MaxRuns
      BY <2>1 DEF Files
    <2> QED
      BY <2>1, <2>2, InstallAssumption
  <1>nat. runs \in Nat /\ mapTemp.run \in Nat /\ mapTemp.run <= runs
    BY <1>inv DEF TempIsOwn
  <1> USE DEF TempIsOwn, Updating, Uninstalling, Opening, Listed, memory, maps, disk
  <1>1. ASSUME NEW job \in Jobs, NEW force \in Forces, NEW loud \in Louds,
               NEW root \in RootDevices, NEW node \in BOOLEAN, NEW gap \in Gaps,
               Start(job, force, loud, root, node, gap)
        PROVE  TempIsOwn'
    BY <1>inv, <1>1 DEF Start
  <1>2. CASE MergeLoader \/ RegisterMap \/ MapImages
    BY <1>inv, <1>2 DEF MergeLoader, RegisterMap, MapImages, Goal
  <1>3. CASE CreateMap
    BY <1>inv, <1>3 DEF CreateMap
  <1>4. CASE OpenBackup \/ WriteBackup \/ StampBackup \/ CloseBackup
    BY <1>inv, <1>4 DEF OpenBackup, WriteBackup, StampBackup, CloseBackup, AfterBackup
  <1>5. CASE MapDone
    <2>1. mapTemp \in Files
      BY DEF Inv, TypeOK
    <2>2. mapTemp'.run = mapTemp.run
      BY <1>5, <2>1, Finished DEF MapDone
    <2>3. runs' = runs /\ pc = "map done" /\ pc' = "write boot"
      BY <1>5 DEF MapDone
    <2> QED
      BY <1>inv, <2>2, <2>3
  <1>6. CASE WriteBoot \/ CloseBoot \/ UnregisterMap
    BY <1>inv, <1>6 DEF WriteBoot, CloseBoot, UnregisterMap
  <1>7. CASE Cancel \/ RenameMap
    <2>1. runs' = runs /\ pc' = "idle"
      BY <1>7 DEF Cancel, RenameMap
    <2>2. mapTemp' = NoFile \/ mapTemp' = [mapTemp EXCEPT !.done = TRUE]
      BY <1>7 DEF Cancel, RenameMap
    <2>3. mapTemp'.run = 0 \/ mapTemp'.run = mapTemp.run
      BY <2>2, NoFileIsFile, Finished DEF Inv, TypeOK
    <2> QED
      BY <1>nat, <2>1, <2>3
  <1>8. CASE CloseBootFails \/ RenameMapFails \/ Die \/ WriteBack
    <2>1. runs' = runs /\ pc' = "idle"
      BY <1>8 DEF CloseBootFails, RenameMapFails, Die, WriteBack, Exit
    <2>2. mapTemp' = mapTemp \/ mapTemp' = NoFile
      BY <1>8 DEF CloseBootFails, RenameMapFails, Die, WriteBack, Exit
    <2>3. mapTemp'.run = mapTemp.run \/ mapTemp'.run = 0
      BY <2>2 DEF NoFile
    <2> QED
      BY <1>nat, <2>1, <2>3
  <1>9. CASE Kill
    BY <1>inv, <1>9 DEF Kill
  <1>10. CASE CheckBackup \/ ReadBackup
    BY <1>inv, <1>10 DEF CheckBackup, ReadBackup
  <1>11. ASSUME NEW f \in Foreign, OtherSystem(f)
         PROVE  TempIsOwn'
    BY <1>inv, <1>11 DEF OtherSystem
  <1>12. CASE UNCHANGED vars
    BY <1>inv, <1>12 DEF vars
  <1> QED
    BY <1>1, <1>2, <1>3, <1>4, <1>5, <1>6, <1>7, <1>8, <1>9, <1>10, <1>11, <1>12
    DEF Next, Install, Uninstall
\* The list of temporary files follows the label.
LEMMA NextList == Inv /\ [Next]_vars => ListFits'
  <1> SUFFICES ASSUME Inv, [Next]_vars
               PROVE  ListFits'
    OBVIOUS
  <1>inv. ListFits
    BY DEF Inv
  <1>nat. devNodes \in Nat
    BY DEF Inv, TypeOK
  <1> USE DEF ListFits, Updating, Listed, memory, maps, disk
  <1>1. ASSUME NEW job \in Jobs, NEW force \in Forces, NEW loud \in Louds,
               NEW root \in RootDevices, NEW node \in BOOLEAN, NEW gap \in Gaps,
               Start(job, force, loud, root, node, gap)
        PROVE  ListFits'
    <2>1. pc' \in {"open", "check"}
      BY <1>1 DEF Start
    <2>2. CASE node
      <3>1. temps' = {"dev"} /\ devNodes' = devNodes + 1 /\ opts'.root
        BY <1>1, <2>2 DEF Start
      <3>2. devNodes' > 0
        BY <1>nat, <3>1
      <3> QED
        BY <2>1, <3>1, <3>2
    <2>3. CASE ~node
      <3>1. temps' = {}
        BY <1>1, <2>3 DEF Start
      <3> QED
        BY <2>1, <3>1
    <2> QED
      BY <2>2, <2>3
  <1>2. CASE MergeLoader
    <2>1. temps' = temps /\ devNodes' = devNodes /\ opts' = opts /\ pc = "open" /\ pc' = "create"
      BY <1>2 DEF MergeLoader
    <2> QED
      BY <1>inv, <2>1
  <1>3. CASE CreateMap
    BY <1>inv, <1>3 DEF CreateMap
  <1>4. CASE RegisterMap
    BY <1>inv, <1>4 DEF RegisterMap
  <1>5. CASE MapImages
    BY <1>inv, <1>5 DEF MapImages, Goal
  <1>6. CASE OpenBackup
    BY <1>inv, <1>6 DEF OpenBackup
  <1>7. CASE WriteBackup \/ StampBackup \/ CloseBackup
    BY <1>inv, <1>7 DEF WriteBackup, StampBackup, CloseBackup, AfterBackup
  <1>8. CASE MapDone \/ WriteBoot
    BY <1>inv, <1>8 DEF MapDone, WriteBoot
  <1>9. CASE CloseBoot \/ UnregisterMap \/ RenameMap
    <2>1. CASE CloseBoot
      BY <1>inv, <2>1 DEF CloseBoot
    <2>2. CASE UnregisterMap
      BY <1>inv, <2>2 DEF UnregisterMap
    <2>3. CASE RenameMap
      BY <1>inv, <2>3 DEF RenameMap
    <2> QED
      BY <1>9, <2>1, <2>2, <2>3
  <1>10. CASE Cancel \/ CloseBootFails \/ RenameMapFails \/ Die \/ Kill \/ WriteBack
    <2>1. pc' = "idle" /\ temps' = {}
      BY <1>10 DEF Cancel, CloseBootFails, RenameMapFails, Die, Kill, WriteBack, Exit
    <2> QED
      BY <2>1
  <1>11. CASE CheckBackup \/ ReadBackup
    BY <1>inv, <1>11 DEF CheckBackup, ReadBackup
  <1>12. ASSUME NEW f \in Foreign, OtherSystem(f)
         PROVE  ListFits'
    BY <1>inv, <1>12 DEF OtherSystem
  <1>13. CASE UNCHANGED vars
    BY <1>inv, <1>13 DEF vars
  <1> QED
    BY <1>1, <1>2, <1>3, <1>4, <1>5, <1>6, <1>7, <1>8, <1>9, <1>10, <1>11, <1>12, <1>13
    DEF Next, Install, Uninstall

\* The boot sector is written when the map is complete, and leads to it until
\* the map is renamed.
LEMMA NextReady == Inv /\ [Next]_vars => MapReady'
  <1> SUFFICES ASSUME Inv, [Next]_vars
               PROVE  MapReady'
    OBVIOUS
  <1>inv. MapReady
    BY DEF Inv
  <1> USE DEF MapReady, LeadsTo, memory, maps, disk
  <1>1. ASSUME NEW job \in Jobs, NEW force \in Forces, NEW loud \in Louds,
               NEW root \in RootDevices, NEW node \in BOOLEAN, NEW gap \in Gaps,
               Start(job, force, loud, root, node, gap)
        PROVE  MapReady'
    BY <1>1 DEF Start
  <1>2. CASE MergeLoader \/ CreateMap \/ RegisterMap \/ MapImages
    <2>1. pc' \in {"create", "created", "images", "cancel", "backup"}
      BY <1>2 DEF MergeLoader, CreateMap, RegisterMap, MapImages, Goal
    <2> QED
      BY <2>1
  <1>3. CASE OpenBackup \/ WriteBackup \/ StampBackup \/ CloseBackup
    <2>1. pc' \in {"write backup", "stat backup", "close backup", "map done"}
      BY <1>3 DEF OpenBackup, WriteBackup, StampBackup, CloseBackup, AfterBackup
    <2> QED
      BY <2>1
  <1>4. CASE MapDone
    <2>1. mapTemp \in Files /\ bsect \in Sectors /\ runs \in 0 .. MaxRuns /\ mapTemp.run = runs
      BY <1>4 DEF Inv, TypeOK, TempIsOwn, MapDone, Listed, Updating
    <2>2. mapTemp'.done /\ mapTemp'.run = runs
      BY <1>4, <2>1, Finished DEF MapDone
    <2>3. bsect'.map = runs /\ pc' = "write boot"
      BY <1>4, <2>1, Mapped DEF MapDone
    <2> QED
      BY <2>2, <2>3
  <1>5. CASE WriteBoot
    BY <1>inv, <1>5 DEF WriteBoot
  <1>6. CASE CloseBoot \/ UnregisterMap
    BY <1>inv, <1>6 DEF CloseBoot, UnregisterMap
  <1>7. CASE \/ Cancel \/ CloseBootFails \/ RenameMap \/ RenameMapFails \/ Die \/ Kill
             \/ WriteBack
    <2>1. pc' = "idle"
      BY <1>7 DEF Cancel, CloseBootFails, RenameMap, RenameMapFails, Die, Kill, WriteBack, Exit
    <2> QED
      BY <2>1
  <1>8. CASE CheckBackup \/ ReadBackup
    <2>1. pc' \in {"read backup", "write back"}
      BY <1>8 DEF CheckBackup, ReadBackup
    <2> QED
      BY <2>1
  <1>9. ASSUME NEW f \in Foreign, OtherSystem(f)
        PROVE  MapReady'
    <2>1. pc' = "idle"
      BY <1>9 DEF OtherSystem
    <2> QED
      BY <2>1
  <1>10. CASE UNCHANGED vars
    BY <1>inv, <1>10 DEF vars
  <1> QED
    BY <1>1, <1>2, <1>3, <1>4, <1>5, <1>6, <1>7, <1>8, <1>9, <1>10 DEF Next, Install, Uninstall
\* What the backup file holds follows the label.
LEMMA NextBackup == Inv /\ [Next]_vars => BackupFits'
  <1> SUFFICES ASSUME Inv, [Next]_vars
               PROVE  BackupFits'
    OBVIOUS
  <1>inv. BackupFits
    BY DEF Inv
  <1> USE DEF BackupFits, memory, maps, disk
  <1>1. ASSUME NEW job \in Jobs, NEW force \in Forces, NEW loud \in Louds,
               NEW root \in RootDevices, NEW node \in BOOLEAN, NEW gap \in Gaps,
               Start(job, force, loud, root, node, gap)
        PROVE  BackupFits'
    BY <1>inv, <1>1 DEF Start
  <1>2. CASE MergeLoader \/ CreateMap \/ RegisterMap \/ MapImages
    <2>1. pc' # "write backup" /\ backup' = backup
      BY <1>2 DEF MergeLoader, CreateMap, RegisterMap, MapImages, Goal
    <2> QED
      BY <1>inv, <2>1
  <1>3. CASE OpenBackup
    <2>1. CASE backup' = backup /\ pc' = "close backup"
      BY <1>inv, <2>1
    <2>2. CASE /\ backup' = [state |-> "partial", content |-> NoSector, mtime |-> clock]
               /\ pc' = "write backup"
      BY <2>2
    <2> QED
      BY <1>3, <2>1, <2>2 DEF OpenBackup
  <1>4. CASE WriteBackup
    <2>1. bsect_orig \in Sectors
      BY DEF Inv, TypeOK
    <2>2. backup' = [state |-> "complete", content |-> bsect_orig, mtime |-> clock]
      BY <1>4 DEF WriteBackup, BackupContents
    <2>3. pc' = "stat backup"
      BY <1>4 DEF WriteBackup
    <2> QED
      BY <2>1, <2>2, <2>3
  <1>5. CASE StampBackup \/ CloseBackup \/ MapDone \/ WriteBoot
    <2>1. pc' # "write backup" /\ backup' = backup
      BY <1>5 DEF StampBackup, CloseBackup, AfterBackup, MapDone, WriteBoot
    <2> QED
      BY <1>inv, <2>1
  <1>6. CASE CloseBoot \/ UnregisterMap \/ RenameMap \/ CheckBackup \/ ReadBackup
    <2>1. pc' # "write backup" /\ backup' = backup
      BY <1>6 DEF CloseBoot, UnregisterMap, RenameMap, CheckBackup, ReadBackup
    <2> QED
      BY <1>inv, <2>1
  <1>7. CASE Cancel \/ CloseBootFails \/ RenameMapFails \/ Die \/ Kill \/ WriteBack
    <2>1. pc' # "write backup" /\ backup' = backup
      BY <1>7 DEF Cancel, CloseBootFails, RenameMapFails, Die, Kill, WriteBack, Exit
    <2> QED
      BY <1>inv, <2>1
  <1>8. ASSUME NEW f \in Foreign, OtherSystem(f)
        PROVE  BackupFits'
    BY <1>inv, <1>8 DEF OtherSystem
  <1>9. CASE UNCHANGED vars
    BY <1>inv, <1>9 DEF vars
  <1> QED
    BY <1>1, <1>2, <1>3, <1>4, <1>5, <1>6, <1>7, <1>8, <1>9 DEF Next, Install, Uninstall

-----------------------------------------------------------------------------
(* Types, variable by variable.                                            *)

\* The values of the variables.
Labels == MayFail \cup {"idle", "close boot", "unregister", "rename"}
Backups == [state : {"none", "partial", "complete"},
            content : Sectors \cup {NoSector}, mtime : Nat]
Options == [job : AllJobs, force : BOOLEAN, loud : BOOLEAN, root : BOOLEAN]

\* The labels, and what only moves or stays.
LEMMA NextLabel == Inv /\ [Next]_vars => pc' \in Labels
  <1> SUFFICES ASSUME Inv, [Next]_vars
               PROVE  pc' \in Labels
    OBVIOUS
  <1>1. pc \in Labels
    BY DEF Inv, TypeOK, Labels
  <1>2. CASE Install
    BY <1>2
    DEF Labels, MayFail, Install, MergeLoader, CreateMap, RegisterMap, MapImages, Goal,
        Cancel, OpenBackup, WriteBackup, StampBackup, CloseBackup, AfterBackup, MapDone,
        WriteBoot, CloseBoot, CloseBootFails, UnregisterMap, RenameMap, RenameMapFails, Exit
  <1>3. CASE Uninstall \/ Die \/ Kill
    BY <1>3 DEF Labels, MayFail, Uninstall, CheckBackup, ReadBackup, WriteBack, Die, Kill, Exit
  <1>4. ASSUME NEW job \in Jobs, NEW force \in Forces, NEW loud \in Louds,
               NEW root \in RootDevices, NEW node \in BOOLEAN, NEW gap \in Gaps,
               Start(job, force, loud, root, node, gap)
        PROVE  pc' \in Labels
    BY <1>4 DEF Labels, MayFail, Start
  <1>5. ASSUME NEW f \in Foreign, OtherSystem(f)
        PROVE  pc' \in Labels
    BY <1>1, <1>5 DEF OtherSystem
  <1>6. CASE UNCHANGED vars
    BY <1>1, <1>6 DEF vars
  <1> QED
    BY <1>2, <1>3, <1>4, <1>5, <1>6 DEF Next

\* The sector on the disk and the two copies in memory.
LEMMA NextSectors ==
    Inv /\ [Next]_vars => bsect' \in Sectors /\ bsect_orig' \in Sectors /\ sector' \in Sectors
  <1> SUFFICES ASSUME Inv, [Next]_vars
               PROVE  bsect' \in Sectors /\ bsect_orig' \in Sectors /\ sector' \in Sectors
    OBVIOUS
  <1>inv. bsect \in Sectors /\ bsect_orig \in Sectors /\ sector \in Sectors
    BY DEF Inv, TypeOK
  <1> USE DEF memory, maps, disk
  <1>1. ASSUME NEW job \in Jobs, NEW force \in Forces, NEW loud \in Louds,
               NEW root \in RootDevices, NEW node \in BOOLEAN, NEW gap \in Gaps,
               Start(job, force, loud, root, node, gap)
        PROVE  bsect' \in Sectors /\ bsect_orig' \in Sectors /\ sector' \in Sectors
    BY <1>inv, <1>1 DEF Start
  <1>2. CASE MergeLoader
    <2>1. runs \in Runs
      BY <1>2 DEF Inv, JobFits, MergeLoader
    <2>2. bsect_orig.ancestor \in Foreign \cup Runs /\ bsect_orig.id \in Foreign \cup Runs
      BY <1>inv DEF Sectors
    <2>3. PICK a \in Foreign \cup Runs : bsect' = [bsect EXCEPT !.id = runs, !.ancestor = a]
      BY <1>2, <2>2 DEF MergeLoader
    <2>4. [bsect EXCEPT !.id = runs, !.ancestor = a] \in Sectors
      BY <1>inv, <2>1, Renamed
    <2>5. bsect_orig' = bsect_orig /\ sector' = sector
      BY <1>2 DEF MergeLoader
    <2> QED
      BY <1>inv, <2>3, <2>4, <2>5
  <1>3. CASE CreateMap \/ RegisterMap \/ MapImages \/ Cancel \/ OpenBackup \/ WriteBackup
    BY <1>inv, <1>3 DEF CreateMap, RegisterMap, MapImages, Cancel, OpenBackup, WriteBackup
  <1>4. CASE StampBackup
    <2>1. backup.mtime \in Nat
      BY DEF Inv, TypeOK
    <2>2. bsect_orig.id \in Foreign \cup Runs
      BY <1>inv DEF Sectors
    <2>3. bsect' = [bsect EXCEPT !.timestamp = backup.mtime, !.ancestor = bsect_orig.id]
      BY <1>4 DEF StampBackup
    <2>4. bsect' \in Sectors
      BY <1>inv, <2>1, <2>2, <2>3, Dated
    <2>5. bsect_orig' = bsect_orig /\ sector' = sector
      BY <1>4 DEF StampBackup
    <2> QED
      BY <1>inv, <2>4, <2>5
  <1>5. CASE MapDone
    <2>1. runs \in 0 .. MaxRuns
      BY DEF Inv, TypeOK
    <2>2. bsect' = [bsect EXCEPT !.map = runs]
      BY <1>5 DEF MapDone
    <2>3. [bsect EXCEPT !.map = runs] \in Sectors
      BY <1>inv, <2>1, Mapped
    <2>4. bsect_orig' = bsect_orig /\ sector' = sector
      BY <1>5 DEF MapDone
    <2> QED
      BY <1>inv, <2>2, <2>3, <2>4
  <1>6. CASE CloseBackup \/ WriteBoot \/ CloseBoot \/ UnregisterMap \/ RenameMap \/ CheckBackup
    BY <1>inv, <1>6
    DEF CloseBackup, WriteBoot, CloseBoot, UnregisterMap, RenameMap, CheckBackup
  <1>7. CASE ReadBackup
    <2>1. backup.content \in Sectors
      BY <1>7 DEF Inv, BackupFits, ReadBackup
    <2> QED
      BY <1>inv, <1>7, <2>1 DEF ReadBackup
  <1>8. CASE CloseBootFails \/ RenameMapFails \/ Die \/ Kill \/ WriteBack
    BY <1>inv, <1>8 DEF CloseBootFails, RenameMapFails, Die, Kill, WriteBack, Exit
  <1>9. ASSUME NEW f \in Foreign, OtherSystem(f)
        PROVE  bsect' \in Sectors /\ bsect_orig' \in Sectors /\ sector' \in Sectors
    <2>1. ForeignSector(f) \in Sectors
      BY InstallAssumption DEF ForeignSector, Sectors
    <2> QED
      BY <1>inv, <1>9, <2>1 DEF OtherSystem
  <1>10. CASE UNCHANGED vars
    BY <1>inv, <1>10 DEF vars
  <1> QED
    BY <1>1, <1>2, <1>3, <1>4, <1>5, <1>6, <1>7, <1>8, <1>9, <1>10 DEF Next, Install, Uninstall
\* The map files and the backup copy.
LEMMA NextFiles ==
    Inv /\ [Next]_vars => mapFile' \in Files /\ mapTemp' \in Files /\ backup' \in Backups
  <1> SUFFICES ASSUME Inv, [Next]_vars
               PROVE  mapFile' \in Files /\ mapTemp' \in Files /\ backup' \in Backups
    OBVIOUS
  <1>inv. mapFile \in Files /\ mapTemp \in Files /\ backup \in Backups
    BY DEF Inv, TypeOK, Backups
  <1> USE NoFileIsFile DEF memory, maps, disk
  <1>1. ASSUME NEW job \in Jobs, NEW force \in Forces, NEW loud \in Louds,
               NEW root \in RootDevices, NEW node \in BOOLEAN, NEW gap \in Gaps,
               Start(job, force, loud, root, node, gap)
        PROVE  mapFile' \in Files /\ mapTemp' \in Files /\ backup' \in Backups
    BY <1>inv, <1>1 DEF Start
  <1>2. CASE CreateMap
    <2>1. [run |-> runs, done |-> FALSE] \in Files
      BY DEF Inv, TypeOK, Files
    <2> QED
      BY <1>inv, <1>2, <2>1 DEF CreateMap
  <1>3. CASE MergeLoader \/ RegisterMap \/ MapImages \/ StampBackup \/ CloseBackup \/ WriteBoot
    BY <1>inv, <1>3
    DEF MergeLoader, RegisterMap, MapImages, StampBackup, CloseBackup, WriteBoot
  <1>4. CASE Cancel \/ RenameMap
    BY <1>inv, <1>4, Finished DEF Cancel, RenameMap
  <1>5. CASE OpenBackup \/ WriteBackup
    <2>1. clock \in Nat /\ bsect_orig \in Sectors
      BY DEF Inv, TypeOK
    <2>2. /\ [state |-> "partial", content |-> NoSector, mtime |-> clock] \in Backups
          /\ [state |-> "complete", content |-> bsect_orig, mtime |-> clock] \in Backups
      BY <2>1 DEF Backups
    <2>3. mapFile' = mapFile /\ mapTemp' = mapTemp
      BY <1>5 DEF OpenBackup, WriteBackup
    <2>4. \/ backup' = backup
          \/ backup' = [state |-> "partial", content |-> NoSector, mtime |-> clock]
          \/ backup' = [state |-> "complete", content |-> bsect_orig, mtime |-> clock]
      BY <1>5 DEF OpenBackup, WriteBackup, BackupContents
    <2> QED
      BY <1>inv, <2>2, <2>3, <2>4
  <1>6. CASE MapDone
    BY <1>inv, <1>6, Finished DEF MapDone
  <1>7. CASE CloseBoot \/ UnregisterMap \/ CheckBackup \/ ReadBackup
    BY <1>inv, <1>7 DEF CloseBoot, UnregisterMap, CheckBackup, ReadBackup
  <1>8. CASE CloseBootFails \/ RenameMapFails \/ Die \/ Kill \/ WriteBack
    BY <1>inv, <1>8 DEF CloseBootFails, RenameMapFails, Die, Kill, WriteBack, Exit
  <1>9. ASSUME NEW f \in Foreign, OtherSystem(f)
        PROVE  mapFile' \in Files /\ mapTemp' \in Files /\ backup' \in Backups
    BY <1>inv, <1>9 DEF OtherSystem
  <1>10. CASE UNCHANGED vars
    BY <1>inv, <1>10 DEF vars
  <1> QED
    BY <1>1, <1>2, <1>3, <1>4, <1>5, <1>6, <1>7, <1>8, <1>9, <1>10 DEF Next, Install, Uninstall

\* The numbers: a node is removed only while it is on the list.
LEMMA NextNumbers ==
    Inv /\ [Next]_vars => devNodes' \in Nat /\ clock' \in Nat /\ runs' \in 0 .. MaxRuns
  <1> SUFFICES ASSUME Inv, [Next]_vars
               PROVE  devNodes' \in Nat /\ clock' \in Nat /\ runs' \in 0 .. MaxRuns
    OBVIOUS
  <1>nat. devNodes \in Nat /\ clock \in Nat /\ runs \in 0 .. MaxRuns
    BY DEF Inv, TypeOK
  <1>dev. "dev" \in temps => devNodes - 1 \in Nat
    BY <1>nat DEF Inv, ListFits
  <1> USE DEF memory, maps, disk
  <1>1. ASSUME NEW job \in Jobs, NEW force \in Forces, NEW loud \in Louds,
               NEW root \in RootDevices, NEW node \in BOOLEAN, NEW gap \in Gaps,
               Start(job, force, loud, root, node, gap)
        PROVE  devNodes' \in Nat /\ clock' \in Nat /\ runs' \in 0 .. MaxRuns
    <2>1. gap \in Nat /\ MaxRuns \in Nat
      BY InstallAssumption
    <2>2. devNodes' = devNodes + 1 \/ devNodes' = devNodes
      BY <1>1 DEF Start
    <2>3. clock' = clock + gap /\ runs' = runs + 1 /\ runs < MaxRuns
      BY <1>1 DEF Start
    <2> QED
      BY <1>nat, <2>1, <2>2, <2>3
  <1>2. CASE MergeLoader \/ CreateMap \/ RegisterMap \/ MapImages \/ OpenBackup \/ WriteBackup
    BY <1>nat, <1>2 DEF MergeLoader, CreateMap, RegisterMap, MapImages, OpenBackup, WriteBackup
  <1>3. CASE StampBackup \/ CloseBackup \/ MapDone \/ WriteBoot \/ UnregisterMap \/ RenameMap
    BY <1>nat, <1>3 DEF StampBackup, CloseBackup, MapDone, WriteBoot, UnregisterMap, RenameMap
  <1>4. CASE Cancel \/ CloseBoot
    <2>1. clock' = clock /\ runs' = runs
      BY <1>4 DEF Cancel, CloseBoot
    <2>2. ("dev" \in temps /\ devNodes' = devNodes - 1) \/ devNodes' = devNodes
      BY <1>4 DEF Cancel, CloseBoot, CloseDevice
    <2> QED
      BY <1>nat, <1>dev, <2>1, <2>2
  <1>5. CASE CloseBootFails \/ RenameMapFails \/ Die \/ WriteBack
    <2>1. clock' = clock /\ runs' = runs
      BY <1>5 DEF CloseBootFails, RenameMapFails, Die, WriteBack
    <2>2. ("dev" \in temps /\ devNodes' = devNodes - 1) \/ devNodes' = devNodes
      BY <1>5 DEF CloseBootFails, RenameMapFails, Die, WriteBack, Exit, RemoveOnExit
    <2> QED
      BY <1>nat, <1>dev, <2>1, <2>2
  <1>6. CASE Kill \/ CheckBackup \/ ReadBackup
    BY <1>nat, <1>6 DEF Kill, CheckBackup, ReadBackup
  <1>7. ASSUME NEW f \in Foreign, OtherSystem(f)
        PROVE  devNodes' \in Nat /\ clock' \in Nat /\ runs' \in 0 .. MaxRuns
    BY <1>nat, <1>7 DEF OtherSystem
  <1>8. CASE UNCHANGED vars
    BY <1>nat, <1>8 DEF vars
  <1> QED
    BY <1>1, <1>2, <1>3, <1>4, <1>5, <1>6, <1>7, <1>8 DEF Next, Install, Uninstall

\* The options of a run, its list and the warning.
LEMMA NextRun ==
    Inv /\ [Next]_vars =>
        opts' \in Options /\ temps' \subseteq {"map~", "dev"} /\ warned' \in BOOLEAN
  <1> SUFFICES ASSUME Inv, [Next]_vars
               PROVE  /\ opts' \in Options
                      /\ temps' \subseteq {"map~", "dev"}
                      /\ warned' \in BOOLEAN
    OBVIOUS
  <1>inv. opts \in Options /\ temps \subseteq {"map~", "dev"} /\ warned \in BOOLEAN
    BY DEF Inv, TypeOK, Options
  <1> USE DEF memory
  <1>1. ASSUME NEW job \in Jobs, NEW force \in Forces, NEW loud \in Louds,
               NEW root \in RootDevices, NEW node \in BOOLEAN, NEW gap \in Gaps,
               Start(job, force, loud, root, node, gap)
        PROVE  opts' \in Options /\ temps' \subseteq {"map~", "dev"} /\ warned' \in BOOLEAN
    <2>1. job \in AllJobs /\ force \in BOOLEAN /\ loud \in BOOLEAN /\ root \in BOOLEAN
      BY InstallAssumption
    <2>2. [job |-> job, force |-> force, loud |-> loud, root |-> root] \in Options
      BY <2>1, Zenon DEF Options
    <2> QED
      BY <1>1, <2>2 DEF Start
  <1>2. CASE MergeLoader \/ CreateMap \/ RegisterMap \/ MapImages \/ OpenBackup \/ WriteBackup
    BY <1>inv, <1>2 DEF MergeLoader, CreateMap, RegisterMap, MapImages, OpenBackup, WriteBackup
  <1>3. CASE StampBackup \/ CloseBackup \/ MapDone \/ WriteBoot \/ UnregisterMap \/ RenameMap
    BY <1>inv, <1>3 DEF StampBackup, CloseBackup, MapDone, WriteBoot, UnregisterMap, RenameMap
  <1>4. CASE Cancel \/ CloseBoot \/ CheckBackup \/ ReadBackup \/ Kill
    BY <1>inv, <1>4 DEF Cancel, CloseBoot, CheckBackup, ReadBackup, Kill
  <1>5. CASE CloseBootFails \/ RenameMapFails \/ Die \/ WriteBack
    <2>1. opts' = opts /\ temps' = {}
      BY <1>5 DEF CloseBootFails, RenameMapFails, Die, WriteBack, Exit
    <2>2. warned' \in BOOLEAN
      BY <1>inv, <1>5 DEF CloseBootFails, RenameMapFails, Die, WriteBack
    <2> QED
      BY <1>inv, <2>1, <2>2
  <1>6. ASSUME NEW f \in Foreign, OtherSystem(f)
        PROVE  opts' \in Options /\ temps' \subseteq {"map~", "dev"} /\ warned' \in BOOLEAN
    BY <1>inv, <1>6 DEF OtherSystem
  <1>7. CASE UNCHANGED vars
    BY <1>inv, <1>7 DEF vars
  <1> QED
    BY <1>1, <1>2, <1>3, <1>4, <1>5, <1>6, <1>7 DEF Next, Install, Uninstall

-----------------------------------------------------------------------------
\* The inductive invariant holds in every state of every sequence of runs.
THEOREM Invariance == Spec => []Inv
  <1>1. Inv /\ [Next]_vars => TypeOK'
    BY NextLabel, NextSectors, NextFiles, NextNumbers, NextRun
    DEF TypeOK, Labels, Backups, Options
  <1>2. Inv /\ [Next]_vars => Inv'
    BY <1>1, NextJob, NextOwn, NextList, NextReady, NextBackup DEF Inv
  <1> QED
    BY InitInv, <1>2, PTL DEF Spec

\* Type correctness of the disk, the run and its copies of the boot sector.
THEOREM TypeCorrect == Spec => []TypeOK
  <1>1. Inv => TypeOK
    BY DEF Inv
  <1> QED
    BY <1>1, Invariance, PTL
-----------------------------------------------------------------------------
(* Steps.                                                                  *)

\* A sector that leads to /boot/map keeps doing so: the only steps that change
\* /boot/map or the sector are the rename and the write of the boot sector.
LEMMA SafeStep ==
    ASSUME Inv, [Next]_vars, Bootable, ~LeadsTo(mapTemp), pc # "write back"
    PROVE  Bootable'
  <1> USE DEF Bootable, LeadsTo, IsLilo, memory, maps, disk
  <1>1. CASE sector' = sector /\ mapFile' = mapFile
    BY <1>1
  <1>2. CASE WriteBoot
    BY <1>2 DEF Inv, MapReady, WriteBoot
  <1>3. CASE RenameMap
    BY <1>3 DEF Inv, MapReady, RenameMap
  <1>4. ASSUME NEW f \in Foreign, OtherSystem(f)
        PROVE  Bootable'
    BY <1>4 DEF OtherSystem, ForeignSector
  <1>5. ASSUME NEW job \in Jobs, NEW force \in Forces, NEW loud \in Louds,
               NEW root \in RootDevices, NEW node \in BOOLEAN, NEW gap \in Gaps,
               Start(job, force, loud, root, node, gap)
        PROVE  sector' = sector /\ mapFile' = mapFile
    BY <1>5 DEF Start
  <1>6. CASE MergeLoader \/ CreateMap \/ RegisterMap \/ MapImages \/ Cancel \/ OpenBackup
    BY <1>1, <1>6 DEF MergeLoader, CreateMap, RegisterMap, MapImages, Cancel, OpenBackup
  <1>7. CASE WriteBackup \/ StampBackup \/ CloseBackup \/ MapDone \/ CloseBoot \/ UnregisterMap
    BY <1>1, <1>7 DEF WriteBackup, StampBackup, CloseBackup, MapDone, CloseBoot, UnregisterMap
  <1>8. CASE CloseBootFails \/ RenameMapFails \/ Die \/ Kill \/ CheckBackup \/ ReadBackup
    BY <1>1, <1>8 DEF CloseBootFails, RenameMapFails, Die, Kill, CheckBackup, ReadBackup, Exit
  <1>9. ~WriteBack
    BY DEF WriteBack
  <1>10. CASE UNCHANGED vars
    BY <1>1, <1>10 DEF vars
  <1> QED
    BY <1>1, <1>2, <1>3, <1>4, <1>5, <1>6, <1>7, <1>8, <1>9, <1>10 DEF Next, Install, Uninstall

\* Every way a run ends by itself removes what is on its list.
LEMMA CleanStep ==
    ASSUME Inv, [Next]_vars, EndsItself
    PROVE  /\ devNodes' = devNodes - Cardinality(temps \cap {"dev"})
           /\ mapTemp.run = runs /\ ~LeavesMap => mapTemp' = NoFile
  <1>leaves. (~LeavesMap => pc \notin {"created", "rename"}) /\ (Cancel /\ opts.loud => LeavesMap)
    BY DEF LeavesMap
  <1>ends. pc # "idle" /\ pc' = "idle" /\ ~Kill
    BY DEF EndsItself
  <1>type. devNodes \in Nat /\ runs \in 0 .. MaxRuns
    BY DEF Inv, TypeOK
  <1>card. Cardinality(temps \cap {"dev"}) = IF "dev" \in temps THEN 1 ELSE 0
    <2>1. CASE "dev" \in temps
      <3>1. temps \cap {"dev"} = {"dev"}
        BY <2>1
      <3> QED
        BY <2>1, <3>1, FS_Singleton
    <2>2. CASE "dev" \notin temps
      <3>1. temps \cap {"dev"} = {}
        BY <2>2
      <3> QED
        BY <2>2, <3>1, FS_EmptySet
    <2> QED
      BY <2>1, <2>2
  <1>list. "map~" \in temps <=> pc \in Listed
    BY DEF Inv, ListFits
  <1>1. CASE Die \/ CloseBootFails \/ RenameMapFails \/ WriteBack
    <2>1. devNodes' = IF "dev" \in temps THEN devNodes - 1 ELSE devNodes
      BY <1>1 DEF Die, CloseBootFails, RenameMapFails, WriteBack, Exit, RemoveOnExit
    <2>2. mapTemp' = IF "map~" \in temps THEN NoFile ELSE mapTemp
      BY <1>1 DEF Die, CloseBootFails, RenameMapFails, WriteBack, Exit, RemoveOnExit
    <2>3. mapTemp.run = runs /\ pc \notin {"created", "rename"} => pc \in Listed
      <3>1. pc \in MayFail \cup {"close boot", "rename"}
        BY <1>1 DEF Die, CloseBootFails, RenameMapFails, WriteBack, MayFail
      <3>2. mapTemp.run = runs => pc \notin Opening \cup Uninstalling
        BY <1>type DEF Inv, TempIsOwn
      <3> QED
        BY <3>1, <3>2 DEF MayFail, Listed, Opening, Uninstalling, Updating
    <2> QED
      BY <1>leaves, <1>type, <1>card, <1>list, <2>1, <2>2, <2>3
  <1>2. CASE Cancel
    <2>1. "dev" \in temps => opts.root
      BY DEF Inv, ListFits
    <2>2. devNodes' = IF "dev" \in temps THEN devNodes - 1 ELSE devNodes
      BY <1>2, <2>1 DEF Cancel, CloseDevice
    <2>3. opts.loud \/ mapTemp' = NoFile
      BY <1>2 DEF Cancel
    <2> QED
      BY <1>2, <1>leaves, <1>type, <1>card, <2>2, <2>3
  <1>3. CASE RenameMap
    <2>1. pc = "rename" /\ devNodes' = devNodes
      BY <1>3 DEF RenameMap
    <2>2. "dev" \notin temps
      BY <2>1 DEF Inv, ListFits
    <2> QED
      BY <1>leaves, <1>type, <1>card, <2>1, <2>2
  <1>4. Die \/ CloseBootFails \/ RenameMapFails \/ WriteBack \/ Cancel \/ RenameMap
    <2>1. ~UNCHANGED vars /\ \A f \in Foreign : ~OtherSystem(f)
      BY <1>ends DEF vars, OtherSystem
    <2>2. ~(\E job \in Jobs, force \in Forces, loud \in Louds, root \in RootDevices,
              node \in BOOLEAN, gap \in Gaps : Start(job, force, loud, root, node, gap))
      BY <1>ends DEF Start
    <2>3. ~MergeLoader /\ ~CreateMap /\ ~RegisterMap /\ ~MapImages /\ ~OpenBackup
      BY <1>ends DEF MergeLoader, CreateMap, RegisterMap, MapImages, Goal, OpenBackup
    <2>4. ~WriteBackup /\ ~StampBackup /\ ~CloseBackup /\ ~MapDone
      BY <1>ends DEF WriteBackup, StampBackup, CloseBackup, AfterBackup, MapDone
    <2>5. ~WriteBoot /\ ~CloseBoot /\ ~UnregisterMap /\ ~CheckBackup /\ ~ReadBackup
      BY <1>ends DEF WriteBoot, CloseBoot, UnregisterMap, CheckBackup, ReadBackup
    <2> QED
      BY <1>ends, <2>1, <2>2, <2>3, <2>4, <2>5 DEF Next, Install, Uninstall
  <1> QED
    BY <1>1, <1>2, <1>3, <1>4
\* A test run ends with the cancellation of what it prepared.
LEMMA TestStep ==
    ASSUME Inv, [Next]_vars, pc # "idle", opts.job = "test"
    PROVE  UNCHANGED <<sector, mapFile, backup>>
  <1>1. pc \notin Updating /\ pc \notin Uninstalling
    BY DEF Inv, JobFits
  <1> USE DEF memory, maps, disk
  <1>2. CASE MergeLoader \/ CreateMap \/ RegisterMap \/ MapImages \/ Cancel
    BY <1>2 DEF MergeLoader, CreateMap, RegisterMap, MapImages, Cancel
  <1>3. CASE Die \/ Kill
    BY <1>3 DEF Die, Kill
  <1>4. CASE UNCHANGED vars
    BY <1>4 DEF vars
  <1>5. \A f \in Foreign : ~OtherSystem(f)
    BY DEF OtherSystem
  <1>6. ~(\E job \in Jobs, force \in Forces, loud \in Louds, root \in RootDevices,
            node \in BOOLEAN, gap \in Gaps : Start(job, force, loud, root, node, gap))
    BY DEF Start
  <1>7. ~OpenBackup /\ ~WriteBackup /\ ~StampBackup /\ ~CloseBackup /\ ~MapDone /\ ~WriteBoot
    BY <1>1 DEF OpenBackup, WriteBackup, StampBackup, CloseBackup, MapDone, WriteBoot, Updating
  <1>8. ~CloseBoot /\ ~CloseBootFails /\ ~UnregisterMap /\ ~RenameMap /\ ~RenameMapFails
    BY <1>1 DEF CloseBoot, CloseBootFails, UnregisterMap, RenameMap, RenameMapFails, Updating
  <1>9. ~CheckBackup /\ ~ReadBackup /\ ~WriteBack
    BY <1>1 DEF CheckBackup, ReadBackup, WriteBack, Uninstalling
  <1> QED
    BY <1>2, <1>3, <1>4, <1>5, <1>6, <1>7, <1>8, <1>9 DEF Next, Install, Uninstall

\* Only creat() with FORCE-BACKUP touches a complete copy.
LEMMA BackupStep ==
    ASSUME Inv, [Next]_vars, backup.state = "complete", backup' # backup
    PROVE  opts.force
  <1> USE DEF memory, maps, disk
  <1>1. CASE OpenBackup
    BY <1>1 DEF OpenBackup, KeepBackup
  <1>2. ~WriteBackup
    BY DEF Inv, BackupFits, WriteBackup
  <1>3. ~(\E job \in Jobs, force \in Forces, loud \in Louds, root \in RootDevices,
            node \in BOOLEAN, gap \in Gaps : Start(job, force, loud, root, node, gap))
    BY DEF Start
  <1>4. ~MergeLoader /\ ~CreateMap /\ ~RegisterMap /\ ~MapImages /\ ~Cancel
    BY DEF MergeLoader, CreateMap, RegisterMap, MapImages, Cancel
  <1>5. ~StampBackup /\ ~CloseBackup /\ ~MapDone /\ ~WriteBoot /\ ~CloseBoot /\ ~UnregisterMap
    BY DEF StampBackup, CloseBackup, MapDone, WriteBoot, CloseBoot, UnregisterMap
  <1>6. ~CloseBootFails /\ ~RenameMap /\ ~RenameMapFails /\ ~Die /\ ~Kill
    BY DEF CloseBootFails, RenameMap, RenameMapFails, Die, Kill
  <1>7. ~CheckBackup /\ ~ReadBackup /\ ~WriteBack
    BY DEF CheckBackup, ReadBackup, WriteBack
  <1>8. ~UNCHANGED vars /\ \A f \in Foreign : ~OtherSystem(f)
    BY DEF vars, OtherSystem
  <1> QED
    BY <1>1, <1>2, <1>3, <1>4, <1>5, <1>6, <1>7, <1>8 DEF Next, Install, Uninstall

\* As long as the boot sector leads to /boot/map the machine stays bootable
\* through every run, failure and kill (-u and -U excepted).
THEOREM CommittedMapStays == Spec => CommittedMapIsSafe
  <1>1. Inv /\ [Next]_vars
          => [Bootable /\ ~LeadsTo(mapTemp) /\ pc # "write back" => Bootable']_vars
    BY SafeStep
  <1> QED
    BY <1>1, Invariance, PTL DEF Spec, CommittedMapIsSafe

\* Every run that ends by itself removes its device node and its /boot/map~, if it
\* is not one of those that leave the map (LeavesMap).
THEOREM EveryExitCleansUp == Spec => CleansUp
  <1>1. Inv /\ [Next]_vars
          => [EndsItself =>
                /\ devNodes' = devNodes - Cardinality(temps \cap {"dev"})
                /\ mapTemp.run = runs /\ ~LeavesMap => mapTemp' = NoFile]_vars
    BY CleanStep
  <1> QED
    BY <1>1, Invariance, PTL DEF Spec, CleansUp

\* lilo -t changes neither the boot sector nor /boot/map nor the backup copy.
THEOREM TestIsHarmless == Spec => TestAltersNothing
  <1>1. Inv /\ [Next]_vars
          => [pc # "idle" /\ opts.job = "test" => UNCHANGED <<sector, mapFile, backup>>]_vars
    BY TestStep
  <1> QED
    BY <1>1, Invariance, PTL DEF Spec, TestAltersNothing

\* A complete backup copy is replaced only with FORCE-BACKUP.
THEOREM FirstBackupStays == Spec => BackupKept
  <1>1. Inv /\ [Next]_vars
          => [backup.state = "complete" /\ backup' # backup => opts.force]_vars
    BY BackupStep
  <1> QED
    BY <1>1, Invariance, PTL DEF Spec, BackupKept

-----------------------------------------------------------------------------
(* Which system comes up: the runs implement BootSwitch.                   *)

\* The labels at which the sector in memory is the run's own, and the labels
\* after it has been written to the device.
Merged == {"create", "created", "images", "cancel"}
            \cup (Updating \ {"close boot", "unregister", "rename"})
Written == {"close boot", "unregister", "rename"}
Late == Written \cup {"idle"}

\* Everything on the disk is older than the present run until that run writes it.
MapsAge ==
    /\ mapFile.run <= runs /\ sector.map <= runs
    /\ pc # "idle" => mapFile.run < runs /\ bsect_orig.map < runs
    /\ pc \notin Late => sector.map < runs

\* A complete map file is some run's.
MapsHaveRuns ==
    /\ mapFile.done => mapFile.run # 0
    /\ mapTemp.done => mapTemp.run # 0

\* The sector in memory, then the one on the device, is the present run's.
OwnSector ==
    /\ pc \in Merged => bsect.id = runs
    /\ pc \in Written => sector.id = runs /\ sector.map = runs

\* The sector in the backup copy does not lead to /boot/map~.
CopyAge ==
    /\ backup.state = "complete" =>
         /\ backup.content.map < runs
         /\ mapTemp.done => backup.content.map < mapTemp.run

\* What -u and -U write back is what the backup copy holds.
CopyInHand ==
    pc = "write back" => backup.state = "complete" /\ bsect = backup.content

\* What the runs, their map files and sectors have in common.
SwitchInv == MapsAge /\ MapsHaveRuns /\ OwnSector /\ CopyAge /\ CopyInHand

\* What is numbered, is numbered with natural numbers.
LEMMA Numbers ==
    ASSUME TypeOK
    PROVE  /\ runs \in Nat /\ clock \in Nat
           /\ mapFile.run \in Nat /\ mapTemp.run \in Nat
           /\ sector.map \in Nat /\ bsect.map \in Nat /\ bsect_orig.map \in Nat
           /\ sector.timestamp \in Nat /\ bsect.timestamp \in Nat
           /\ bsect_orig.timestamp \in Nat
           /\ backup.content.map \in Nat /\ backup.content.timestamp \in Nat
           /\ backup.mtime \in Nat
  <1>1. MaxRuns \in Nat
    BY InstallAssumption
  <1>2. \A s \in Sectors \cup {NoSector} : s.map \in Nat /\ s.timestamp \in Nat
    BY <1>1 DEF Sectors, NoSector
  <1>3. \A f \in Files : f.run \in Nat
    BY <1>1 DEF Files
  <1>4. backup.content \in Sectors \cup {NoSector} /\ backup.mtime \in Nat
    BY DEF TypeOK
  <1>5. runs \in 0 .. MaxRuns /\ clock \in Nat
    BY DEF TypeOK
  <1>6. mapFile \in Files /\ mapTemp \in Files
    BY DEF TypeOK
  <1>7. sector \in Sectors /\ bsect \in Sectors /\ bsect_orig \in Sectors
    BY DEF TypeOK
  <1> QED
    BY <1>1, <1>2, <1>3, <1>4, <1>5, <1>6, <1>7

\* Where a run ends, but for a test run that ends well, /boot/map~ stays, is renamed
\* or is removed.
LEMMA EndsWithout ==
    ASSUME RenameMap \/ CloseBootFails \/ RenameMapFails \/ Die \/ Kill \/ WriteBack
    PROVE  mapTemp' = mapTemp \/ ~mapTemp'.done
  <1>1. ~NoFile.done
    BY DEF NoFile
  <1>2. ASSUME Exit
        PROVE  mapTemp' = mapTemp \/ ~mapTemp'.done
    <2>1. mapTemp' = mapTemp \/ mapTemp' = NoFile
      BY <1>2 DEF Exit
    <2> QED
      BY <1>1, <2>1
  <1>3. CASE RenameMap
    <2>1. mapTemp' = NoFile
      BY <1>3 DEF RenameMap
    <2> QED
      BY <1>1, <2>1
  <1>4. CASE Kill
    BY <1>4 DEF Kill, disk
  <1> QED
    BY <1>2, <1>3, <1>4 DEF CloseBootFails, RenameMapFails, Die, WriteBack

\* A test run that ends well removes its /boot/map~, or leaves it complete.
LEMMA CancelledMap ==
    ASSUME Inv, Cancel
    PROVE  ~mapTemp'.done \/ mapTemp'.run = runs
  <1>1. mapTemp \in Files /\ mapTemp.run = runs
    BY DEF Inv, TypeOK, TempIsOwn, Cancel, Listed
  <1>2. mapTemp' = NoFile \/ mapTemp' = [mapTemp EXCEPT !.done = TRUE]
    BY DEF Cancel
  <1>3. ~NoFile.done
    BY DEF NoFile
  <1>4. [mapTemp EXCEPT !.done = TRUE].run = runs
    BY <1>1, Finished
  <1> QED
    BY <1>2, <1>3, <1>4

\* Before the first run nothing is numbered.
LEMMA InitSwitch == Init => SwitchInv
  <1> SUFFICES ASSUME Init
               PROVE  SwitchInv
    OBVIOUS
  <1>1. sector.map = 0
    BY DEF Init, ForeignSector
  <1>2. mapFile.run = 0 /\ ~mapFile.done /\ ~mapTemp.done
    BY DEF Init, NoFile
  <1>3. runs = 0 /\ pc = "idle" /\ backup.state = "none"
    BY DEF Init, NoBackup
  <1> QED
    BY <1>1, <1>2, <1>3
    DEF SwitchInv, MapsAge, MapsHaveRuns, OwnSector, CopyAge, CopyInHand, Merged, Written, Late,
        Updating

\* The steps that write, rename or remove a map file.
LEMMA OtherStepsKeepMaps ==
    ASSUME [Next]_vars
    PROVE  \/ MapDone \/ CreateMap \/ RenameMap \/ Cancel \/ CloseBootFails \/ RenameMapFails
           \/ Die \/ WriteBack \/ UNCHANGED maps
  <1> USE DEF memory, maps, disk
  <1>1. ASSUME NEW job \in Jobs, NEW force \in Forces, NEW loud \in Louds,
               NEW root \in RootDevices, NEW node \in BOOLEAN, NEW gap \in Gaps,
               Start(job, force, loud, root, node, gap)
        PROVE  UNCHANGED maps
    BY <1>1 DEF Start
  <1>2. CASE MergeLoader \/ RegisterMap \/ MapImages \/ OpenBackup \/ WriteBackup \/ StampBackup
    BY <1>2 DEF MergeLoader, RegisterMap, MapImages, OpenBackup, WriteBackup, StampBackup
  <1>3. CASE CloseBackup \/ WriteBoot \/ CloseBoot \/ UnregisterMap \/ Kill
    BY <1>3 DEF CloseBackup, WriteBoot, CloseBoot, UnregisterMap, Kill
  <1>4. CASE CheckBackup \/ ReadBackup
    BY <1>4 DEF CheckBackup, ReadBackup
  <1>5. ASSUME NEW f \in Foreign, OtherSystem(f)
        PROVE  UNCHANGED maps
    BY <1>5 DEF OtherSystem
  <1>6. CASE UNCHANGED vars
    BY <1>6 DEF vars
  <1> QED
    BY <1>1, <1>2, <1>3, <1>4, <1>5, <1>6 DEF Next, Install, Uninstall

\* Only the write of the boot sector and the rename use the number of the run.
LEMMA NextMapsAge == Inv /\ SwitchInv /\ [Next]_vars => MapsAge'
  <1> SUFFICES ASSUME Inv, SwitchInv, [Next]_vars
               PROVE  MapsAge'
    OBVIOUS
  <1>inv. MapsAge
    BY DEF SwitchInv
  <1>nat. /\ runs \in Nat /\ sector.map \in Nat /\ bsect_orig.map \in Nat
          /\ mapFile.run \in Nat /\ mapTemp.run \in Nat
    BY Numbers DEF Inv
  <1>idle. pc \notin Late => pc # "idle"
    BY DEF Late
  <1> USE DEF MapsAge, memory, maps, disk
  <1>1. ASSUME NEW job \in Jobs, NEW force \in Forces, NEW loud \in Louds,
               NEW root \in RootDevices, NEW node \in BOOLEAN, NEW gap \in Gaps,
               Start(job, force, loud, root, node, gap)
        PROVE  MapsAge'
    <2>1. /\ runs' = runs + 1 /\ sector'.map = sector.map
          /\ mapFile'.run = mapFile.run /\ bsect_orig'.map = sector.map
      BY <1>1 DEF Start
    <2> QED
      BY <1>inv, <1>nat, <2>1
  <1>2. CASE MergeLoader \/ CreateMap \/ RegisterMap \/ MapImages
    <2>1. pc \notin Late /\ UNCHANGED <<sector, mapFile, runs, bsect_orig>>
      BY <1>2 DEF MergeLoader, CreateMap, RegisterMap, MapImages, Late, Written
    <2> QED
      BY <1>inv, <1>idle, <2>1
  <1>3. CASE OpenBackup \/ WriteBackup \/ StampBackup \/ CloseBackup \/ MapDone
    <2>1. pc \notin Late /\ UNCHANGED <<sector, mapFile, runs, bsect_orig>>
      BY <1>3
      DEF OpenBackup, WriteBackup, StampBackup, CloseBackup, MapDone, Late, Written
    <2> QED
      BY <1>inv, <1>idle, <2>1
  <1>4. CASE WriteBoot
    <2>1. sector'.map = runs
      BY <1>4 DEF WriteBoot, Inv, MapReady, TempIsOwn, Listed, Updating
    <2>2. /\ pc # "idle" /\ pc' \in Late /\ runs' = runs
          /\ mapFile'.run = mapFile.run /\ bsect_orig'.map = bsect_orig.map
      BY <1>4 DEF WriteBoot, Late, Written
    <2> QED
      BY <1>inv, <1>nat, <2>1, <2>2
  <1>5. CASE CloseBoot \/ UnregisterMap
    <2>1. /\ pc # "idle" /\ pc' \in Late
          /\ UNCHANGED <<sector, mapFile, runs, bsect_orig>>
      BY <1>5 DEF CloseBoot, UnregisterMap, Late, Written
    <2> QED
      BY <1>inv, <2>1
  <1>6. CASE RenameMap
    <2>1. mapTemp.run <= runs
      BY DEF Inv, TempIsOwn
    <2>2. pc' = "idle" /\ pc' \in Late /\ mapFile' = mapTemp /\ sector' = sector /\ runs' = runs
      BY <1>6 DEF RenameMap, Late
    <2> QED
      BY <1>inv, <2>1, <2>2
  <1>7. CASE Cancel \/ CloseBootFails \/ RenameMapFails \/ Die \/ Kill
    <2>1. pc' = "idle" /\ pc' \in Late /\ UNCHANGED <<sector, mapFile, runs>>
      BY <1>7 DEF Cancel, CloseBootFails, RenameMapFails, Die, Kill, Exit, Late
    <2> QED
      BY <1>inv, <2>1
  <1>8. CASE WriteBack
    <2>1. backup.state = "complete" /\ sector' = backup.content
      BY <1>8 DEF WriteBack, SwitchInv, CopyInHand
    <2>2. sector'.map < runs
      BY <2>1 DEF SwitchInv, CopyAge
    <2>3. sector'.map \in Nat
      BY <2>1, Numbers DEF Inv
    <2>4. pc' = "idle" /\ pc' \in Late /\ runs' = runs /\ mapFile'.run = mapFile.run
      BY <1>8 DEF WriteBack, Exit, Late
    <2> QED
      BY <1>inv, <1>nat, <2>2, <2>3, <2>4
  <1>9. CASE CheckBackup \/ ReadBackup
    <2>1. pc \notin Late /\ UNCHANGED <<sector, mapFile, runs, bsect_orig>>
      BY <1>9 DEF CheckBackup, ReadBackup, Late, Written
    <2> QED
      BY <1>inv, <1>idle, <2>1
  <1>10. ASSUME NEW f \in Foreign, OtherSystem(f)
         PROVE  MapsAge'
    <2>1. /\ pc' = "idle" /\ pc' \in Late /\ sector'.map = 0
          /\ mapFile'.run = mapFile.run /\ runs' = runs
      BY <1>10 DEF OtherSystem, ForeignSector, Late
    <2> QED
      BY <1>inv, <1>nat, <2>1
  <1>11. CASE UNCHANGED vars
    BY <1>inv, <1>11 DEF vars
  <1> QED
    BY <1>1, <1>2, <1>3, <1>4, <1>5, <1>6, <1>7, <1>8, <1>9, <1>10, <1>11
    DEF Next, Install, Uninstall

\* map_done completes the file of the present run.
LEMMA NextMapsHaveRuns == Inv /\ SwitchInv /\ [Next]_vars => MapsHaveRuns'
  <1> SUFFICES ASSUME Inv, SwitchInv, [Next]_vars
               PROVE  MapsHaveRuns'
    OBVIOUS
  <1>inv. MapsHaveRuns
    BY DEF SwitchInv
  <1> USE DEF MapsHaveRuns, memory, maps, disk
  <1>1. CASE MapDone
    <2>1. mapTemp \in Files /\ mapTemp.run = runs
      BY <1>1 DEF Inv, TypeOK, TempIsOwn, MapDone, Listed, Updating
    <2>2. mapTemp'.run = runs
      BY <1>1, <2>1, Finished DEF MapDone
    <2>3. mapFile.run < runs /\ mapFile.run \in Nat /\ runs \in Nat
      BY <1>1, Numbers DEF MapDone, SwitchInv, MapsAge, Inv
    <2>4. runs # 0
      BY <2>3
    <2>5. mapFile' = mapFile
      BY <1>1 DEF MapDone
    <2> QED
      BY <1>inv, <2>2, <2>4, <2>5
  <1>2. CASE CreateMap
    <2>1. ~mapTemp'.done /\ mapFile' = mapFile
      BY <1>2 DEF CreateMap
    <2> QED
      BY <1>inv, <2>1
  <1>3. CASE RenameMap
    <2>1. ~mapTemp'.done /\ mapFile' = mapTemp
      BY <1>3 DEF RenameMap, NoFile
    <2> QED
      BY <1>inv, <2>1
  <1>4. CASE CloseBootFails \/ RenameMapFails \/ Die \/ WriteBack
    <2>1. mapFile' = mapFile
      BY <1>4 DEF CloseBootFails, RenameMapFails, Die, WriteBack
    <2>2. mapTemp' = mapTemp \/ ~mapTemp'.done
      BY <1>4, EndsWithout
    <2> QED
      BY <1>inv, <2>1, <2>2
  <1>5. ASSUME UNCHANGED maps
        PROVE  MapsHaveRuns'
    BY <1>inv, <1>5
  <1>6. MapDone \/ CreateMap \/ RenameMap \/ Cancel \/ CloseBootFails \/ RenameMapFails \/ Die
          \/ WriteBack \/ UNCHANGED maps
    BY OtherStepsKeepMaps
  <1>7. CASE Cancel
    <2>1. mapFile' = mapFile /\ pc # "idle"
      BY <1>7 DEF Cancel
    <2>2. runs # 0
      BY <2>1, Numbers DEF SwitchInv, MapsAge, Inv
    <2> QED
      BY <1>inv, <1>7, <2>1, <2>2, CancelledMap
  <1> QED
    BY <1>1, <1>2, <1>3, <1>4, <1>5, <1>6, <1>7

\* The merged sector is the run's until it is on the device.
LEMMA NextOwnSector == Inv /\ SwitchInv /\ [Next]_vars => OwnSector'
  <1> SUFFICES ASSUME Inv, SwitchInv, [Next]_vars
               PROVE  OwnSector'
    OBVIOUS
  <1>inv. OwnSector
    BY DEF SwitchInv
  <1>type. bsect \in Sectors
    BY DEF Inv, TypeOK
  <1> USE DEF OwnSector, Merged, Written, Updating, memory, maps, disk
  <1>1. ASSUME NEW job \in Jobs, NEW force \in Forces, NEW loud \in Louds,
               NEW root \in RootDevices, NEW node \in BOOLEAN, NEW gap \in Gaps,
               Start(job, force, loud, root, node, gap)
        PROVE  OwnSector'
    BY <1>1 DEF Start
  <1>2. CASE MergeLoader
    <2>1. bsect'.id = runs
      BY <1>type, <1>2 DEF MergeLoader, Sectors
    <2> QED
      BY <1>2, <2>1 DEF MergeLoader
  <1>3. CASE CreateMap \/ RegisterMap \/ MapImages
    BY <1>inv, <1>3 DEF CreateMap, RegisterMap, MapImages, Goal
  <1>4. CASE OpenBackup \/ WriteBackup \/ CloseBackup
    BY <1>inv, <1>4 DEF OpenBackup, WriteBackup, CloseBackup, AfterBackup
  <1>5. CASE StampBackup \/ MapDone
    <2>1. bsect'.id = bsect.id
      BY <1>type, <1>5 DEF StampBackup, MapDone, Sectors
    <2> QED
      BY <1>inv, <1>5, <2>1 DEF StampBackup, MapDone
  <1>6. CASE WriteBoot
    <2>1. bsect.map = runs
      BY <1>6 DEF WriteBoot, Inv, MapReady, TempIsOwn, Listed
    <2> QED
      BY <1>inv, <1>6, <2>1 DEF WriteBoot
  <1>7. CASE CloseBoot \/ UnregisterMap
    BY <1>inv, <1>7 DEF CloseBoot, UnregisterMap
  <1>8. CASE Cancel \/ RenameMap \/ CloseBootFails \/ RenameMapFails \/ Die \/ Kill \/ WriteBack
    <2>1. pc' = "idle"
      BY <1>8 DEF Cancel, RenameMap, CloseBootFails, RenameMapFails, Die, Kill, WriteBack, Exit
    <2> QED
      BY <2>1
  <1>9. CASE CheckBackup \/ ReadBackup
    BY <1>9 DEF CheckBackup, ReadBackup
  <1>10. ASSUME NEW f \in Foreign, OtherSystem(f)
         PROVE  OwnSector'
    BY <1>10 DEF OtherSystem
  <1>11. CASE UNCHANGED vars
    BY <1>inv, <1>11 DEF vars
  <1> QED
    BY <1>1, <1>2, <1>3, <1>4, <1>5, <1>6, <1>7, <1>8, <1>9, <1>10, <1>11
    DEF Next, Install, Uninstall

\* A copy is older than the run that makes it and than the next /boot/map~.
LEMMA NextCopyAge == Inv /\ SwitchInv /\ [Next]_vars => CopyAge'
  <1> SUFFICES ASSUME Inv, SwitchInv, [Next]_vars
               PROVE  CopyAge'
    OBVIOUS
  <1>inv. CopyAge
    BY DEF SwitchInv
  <1>nat. runs \in Nat /\ backup.content.map \in Nat
    BY Numbers DEF Inv
  <1> USE DEF CopyAge, memory, maps, disk
  <1>1. ASSUME NEW job \in Jobs, NEW force \in Forces, NEW loud \in Louds,
               NEW root \in RootDevices, NEW node \in BOOLEAN, NEW gap \in Gaps,
               Start(job, force, loud, root, node, gap)
        PROVE  CopyAge'
    <2>1. runs' = runs + 1 /\ backup' = backup /\ mapTemp' = mapTemp
      BY <1>1 DEF Start
    <2>2. backup.content.map < runs => backup.content.map < runs'
      BY <1>nat, <2>1
    <2> QED
      BY <1>inv, <2>1, <2>2
  <1>2. CASE MergeLoader \/ RegisterMap \/ MapImages \/ CloseBackup \/ StampBackup
    BY <1>inv, <1>2 DEF MergeLoader, RegisterMap, MapImages, CloseBackup, StampBackup
  <1>3. CASE CreateMap
    <2>1. ~mapTemp'.done /\ backup' = backup /\ runs' = runs
      BY <1>3 DEF CreateMap
    <2> QED
      BY <1>inv, <2>1
  <1>4. CASE OpenBackup
    <2>1. mapTemp' = mapTemp /\ runs' = runs
      BY <1>4 DEF OpenBackup
    <2>2. backup' = backup \/ backup' = [state |-> "partial", content |-> NoSector, mtime |-> clock]
      BY <1>4 DEF OpenBackup
    <2>3. CASE backup' = backup
      BY <1>inv, <2>1, <2>3
    <2>4. CASE backup' = [state |-> "partial", content |-> NoSector, mtime |-> clock]
      <3>1. backup'.state # "complete"
        BY <2>4
      <3> QED
        BY <3>1
    <2> QED
      BY <2>2, <2>3, <2>4
  <1>5. CASE WriteBackup
    <2>1. backup'.content = bsect_orig
      BY <1>5 DEF WriteBackup, BackupContents
    <2>2. bsect_orig.map < runs
      BY <1>5 DEF WriteBackup, SwitchInv, MapsAge
    <2>3. mapTemp' = mapTemp /\ mapTemp.run = runs /\ runs' = runs
      BY <1>5 DEF WriteBackup, Inv, TempIsOwn, Listed, Updating
    <2> QED
      BY <2>1, <2>2, <2>3
  <1>6. CASE MapDone
    <2>1. mapTemp \in Files /\ mapTemp.run = runs
      BY <1>6 DEF Inv, TypeOK, TempIsOwn, MapDone, Listed, Updating
    <2>2. mapTemp'.run = runs
      BY <1>6, <2>1, Finished DEF MapDone
    <2>3. backup' = backup /\ runs' = runs
      BY <1>6 DEF MapDone
    <2> QED
      BY <1>inv, <2>2, <2>3
  <1>7. CASE WriteBoot \/ CloseBoot \/ UnregisterMap
    BY <1>inv, <1>7 DEF WriteBoot, CloseBoot, UnregisterMap
  <1>8. CASE RenameMap \/ CloseBootFails \/ RenameMapFails \/ Die \/ Kill \/ WriteBack
    <2>1. runs' = runs /\ backup' = backup
      BY <1>8 DEF RenameMap, CloseBootFails, RenameMapFails, Die, Kill, WriteBack
    <2> QED
      BY <1>inv, <1>8, <2>1, EndsWithout
  <1>12. CASE Cancel
    <2>1. runs' = runs /\ backup' = backup
      BY <1>12 DEF Cancel
    <2> QED
      BY <1>inv, <1>12, <2>1, CancelledMap
  <1>9. CASE CheckBackup \/ ReadBackup
    BY <1>inv, <1>9 DEF CheckBackup, ReadBackup
  <1>10. ASSUME NEW f \in Foreign, OtherSystem(f)
         PROVE  CopyAge'
    BY <1>inv, <1>10 DEF OtherSystem
  <1>11. CASE UNCHANGED vars
    BY <1>inv, <1>11 DEF vars
  <1> QED
    BY <1>1, <1>2, <1>3, <1>4, <1>5, <1>6, <1>7, <1>8, <1>9, <1>10, <1>11, <1>12
    DEF Next, Install, Uninstall

\* Nothing comes between reading the copy and writing it back.
LEMMA NextCopyInHand == Inv /\ SwitchInv /\ [Next]_vars => CopyInHand'
  <1> SUFFICES ASSUME Inv, SwitchInv, [Next]_vars, pc' = "write back"
               PROVE  backup'.state = "complete" /\ bsect' = backup'.content
    BY DEF CopyInHand
  <1> USE DEF memory, maps, disk
  <1>1. CASE ReadBackup
    BY <1>1 DEF ReadBackup
  <1>2. ReadBackup \/ UNCHANGED vars
    <2>1. ~(\E job \in Jobs, force \in Forces, loud \in Louds, root \in RootDevices,
              node \in BOOLEAN, gap \in Gaps : Start(job, force, loud, root, node, gap))
      BY DEF Start
    <2>2. ~MergeLoader /\ ~CreateMap /\ ~RegisterMap /\ ~MapImages /\ ~Cancel /\ ~OpenBackup
      BY DEF MergeLoader, CreateMap, RegisterMap, MapImages, Goal, Cancel, OpenBackup
    <2>3. ~WriteBackup /\ ~StampBackup /\ ~CloseBackup /\ ~MapDone
      BY DEF WriteBackup, StampBackup, CloseBackup, AfterBackup, MapDone
    <2>4. ~WriteBoot /\ ~CloseBoot /\ ~UnregisterMap /\ ~CheckBackup /\ ~RenameMap
      BY DEF WriteBoot, CloseBoot, UnregisterMap, CheckBackup, RenameMap
    <2>5. ~CloseBootFails /\ ~RenameMapFails /\ ~Die /\ ~Kill /\ ~WriteBack
      BY DEF CloseBootFails, RenameMapFails, Die, Kill, WriteBack, Exit
    <2>6. \A f \in Foreign : ~OtherSystem(f)
      BY DEF OtherSystem
    <2> QED
      BY <2>1, <2>2, <2>3, <2>4, <2>5, <2>6 DEF Next, Install, Uninstall
  <1>3. CASE UNCHANGED vars
    BY <1>3 DEF vars, SwitchInv, CopyInHand
  <1> QED
    BY <1>1, <1>2, <1>3

\* The invariant of the switch holds throughout.
LEMMA SwitchInvariance == Spec => [](Inv /\ SwitchInv)
  <1>1. Init => SwitchInv
    BY InitSwitch
  <1>2. Inv /\ SwitchInv /\ [Next]_vars => SwitchInv'
    BY NextMapsAge, NextMapsHaveRuns, NextOwnSector, NextCopyAge, NextCopyInHand
    DEF SwitchInv
  <1> QED
    BY <1>1, <1>2, Invariance, PTL DEF Spec

\* The installation that comes up has its final name.
Settled == IsLilo(sector) /\ LeadsTo(mapTemp) => LeadsTo(mapFile)

\* A run goes on with its job until it ends.
LEMMA RunGoesOn ==
    ASSUME TypeOK, pc # "idle", runs' = runs, opts' = opts
    PROVE  Promise!GoOn
  <1>1. opts.job \in AllJobs
    BY DEF TypeOK
  <1> QED
    BY <1>1 DEF Promise!GoOn, Doing, AllJobs

\* A step that leaves the sector and both map files alone goes on or ends.
LEMMA NothingSwitched ==
    ASSUME TypeOK, pc # "idle", runs' = runs, opts' = opts, UNCHANGED <<sector, mapFile, mapTemp>>
    PROVE  Promise!End
  <1>1. Promise!GoOn
    BY RunGoesOn
  <1>2. UNCHANGED <<Boots, Settled>>
    BY DEF Boots, Settled, LeadsTo, IsLilo
  <1> QED
    BY <1>1, <1>2 DEF Promise!End, Settled

\* Without a complete /boot/map~ the sector leads to /boot/map or to nothing.
LEMMA TempGone ==
    ASSUME TypeOK, pc # "idle", runs' = runs, opts' = opts, UNCHANGED <<sector, mapFile>>,
           mapTemp' = mapTemp \/ ~mapTemp'.done
    PROVE  Promise!Next
  <1>1. Promise!GoOn
    BY RunGoesOn
  <1>2. CASE mapTemp' = mapTemp
    BY <1>2, NothingSwitched DEF Promise!Next
  <1>3. CASE ~mapTemp'.done /\ Settled
    <2>1. Settled'
      BY <1>3 DEF Settled, LeadsTo
    <2>2. Boots' = Boots
      BY <1>3 DEF Boots, Settled, LeadsTo, IsLilo
    <2> QED
      BY <1>1, <1>3, <2>1, <2>2 DEF Promise!Next, Promise!End, Settled
  <1>4. CASE ~mapTemp'.done /\ ~Settled
    <2>1. Settled'
      BY <1>4 DEF Settled, LeadsTo
    <2>2. Boots' = 0
      BY <1>4 DEF Boots, Settled, LeadsTo, IsLilo
    <2> QED
      BY <1>1, <1>4, <2>1, <2>2 DEF Promise!Next, Promise!Lose, Settled
  <1> QED
    BY <1>2, <1>3, <1>4

\* A start begins a run.
LEMMA StartBegins ==
    ASSUME NEW job \in Jobs, NEW force \in Forces, NEW root \in RootDevices,
           NEW loud \in Louds, NEW node \in BOOLEAN, NEW gap \in Gaps,
           Start(job, force, loud, root, node, gap)
    PROVE  Promise!Begin
  <1>1. job \in AllJobs
    BY InstallAssumption
  <1>2. Doing = "idle" /\ Doing' \in {"install", "test", "undo"}
    <2>1. pc = "idle" /\ pc' # "idle" /\ opts'.job = job
      BY DEF Start
    <2> QED
      BY <1>1, <2>1 DEF Doing, AllJobs
  <1>3. runs' = runs + 1
    BY DEF Start
  <1>4. UNCHANGED <<Boots, Settled>>
    <2>1. UNCHANGED <<sector, mapFile, mapTemp>>
      BY DEF Start, maps
    <2> QED
      BY <2>1 DEF Boots, Settled, LeadsTo, IsLilo
  <1> QED
    BY <1>2, <1>3, <1>4 DEF Promise!Begin, Settled

\* Completing /boot/map~ does not touch what the sector leads to.
LEMMA MapDoneSwitchesNothing ==
    ASSUME Inv, SwitchInv, MapDone
    PROVE  Promise!Next
  <1>1. runs' = runs /\ opts' = opts /\ pc = "map done" /\ UNCHANGED <<sector, mapFile>>
    BY DEF MapDone
  <1>2. mapTemp \in Files /\ mapTemp.run = runs
    BY DEF Inv, TypeOK, TempIsOwn, MapDone, Listed, Updating
  <1>3. mapTemp'.run = runs
    BY <1>2, Finished DEF MapDone
  <1>4. sector.map # runs
    <2>1. pc \notin Late
      BY <1>1 DEF Late, Written
    <2>2. sector.map < runs /\ sector.map \in Nat /\ runs \in Nat
      BY <2>1, Numbers DEF SwitchInv, MapsAge, Inv
    <2> QED
      BY <2>2
  <1>5. ~LeadsTo(mapTemp) /\ ~LeadsTo(mapTemp)'
    BY <1>1, <1>2, <1>3, <1>4 DEF LeadsTo
  <1>6. UNCHANGED <<Boots, Settled>>
    BY <1>1, <1>5 DEF Boots, Settled, LeadsTo, IsLilo
  <1>7. Promise!GoOn
    BY <1>1, RunGoesOn DEF Inv
  <1> QED
    BY <1>6, <1>7 DEF Promise!Next, Promise!End, Settled

\* Nor does the end of a test run.
LEMMA CancelSwitchesNothing ==
    ASSUME Inv, SwitchInv, Cancel
    PROVE  Promise!Next
  <1>1. runs' = runs /\ opts' = opts /\ pc = "cancel" /\ UNCHANGED <<sector, mapFile>>
    BY DEF Cancel, memory
  <1>2. mapTemp.run = runs
    BY <1>1 DEF Inv, TempIsOwn, Listed
  <1>3. sector.map # runs
    <2>1. pc \notin Late
      BY <1>1 DEF Late, Written
    <2>2. sector.map < runs /\ sector.map \in Nat /\ runs \in Nat
      BY <2>1, Numbers DEF SwitchInv, MapsAge, Inv
    <2> QED
      BY <2>2
  <1>4. ~LeadsTo(mapTemp) /\ ~LeadsTo(mapTemp)'
    BY <1>1, <1>2, <1>3, CancelledMap DEF LeadsTo
  <1>5. UNCHANGED <<Boots, Settled>>
    BY <1>1, <1>4 DEF Boots, Settled, LeadsTo, IsLilo
  <1>6. Promise!GoOn
    BY <1>1, RunGoesOn DEF Inv
  <1> QED
    BY <1>5, <1>6 DEF Promise!Next, Promise!End, Settled

\* Nothing in a run came up before the run wrote its sector.
LEMMA NewToTheMachine ==
    ASSUME TypeOK, MapsAge, pc \notin Late
    PROVE  Boots # runs
  <1>1. pc # "idle"
    BY DEF Late
  <1>2. /\ mapFile.run \in Nat /\ sector.map \in Nat /\ runs \in Nat
        /\ mapFile.run < runs /\ sector.map < runs
    BY <1>1, Numbers DEF MapsAge
  <1>3. sector.map # runs /\ 0 # runs
    BY <1>2
  <1>4. sector.id \in Foreign => sector.id # runs
    BY <1>2, InstallAssumption
  <1> QED
    BY <1>3, <1>4 DEF Boots, IsLilo

\* The write of the boot sector switches to the map of this run.
LEMMA WriteBootSwitches ==
    ASSUME Inv, SwitchInv, WriteBoot
    PROVE  Promise!Switch
  <1>1. /\ runs' = runs /\ opts' = opts /\ pc = "write boot" /\ sector' = bsect
        /\ UNCHANGED <<mapFile, mapTemp>>
    BY DEF WriteBoot, maps, memory
  <1>2. bsect.id = runs /\ bsect.map = runs /\ mapTemp.done /\ mapTemp.run = runs
    BY <1>1 DEF SwitchInv, OwnSector, Merged, Updating, Inv, MapReady, TempIsOwn, Listed
  <1>3. IsLilo(sector)' /\ LeadsTo(mapTemp)'
    <2>1. runs \in Nat
      BY Numbers DEF Inv
    <2>2. runs \notin Foreign
      BY <2>1, InstallAssumption
    <2> QED
      BY <1>1, <1>2, <2>2 DEF IsLilo, LeadsTo
  <1>4. ~LeadsTo(mapFile)'
    <2>1. mapFile.run < runs /\ mapFile.run \in Nat /\ runs \in Nat
      BY <1>1, Numbers DEF SwitchInv, MapsAge, Inv
    <2>2. mapFile.run # runs
      BY <2>1
    <2> QED
      BY <1>1, <1>2, <2>2 DEF LeadsTo
  <1>5. Boots' = runs /\ Settled' = FALSE
    BY <1>1, <1>2, <1>3, <1>4 DEF Boots, Settled, IsLilo
  <1>6. Boots # runs
    <2>1. pc \notin Late
      BY <1>1 DEF Late, Written
    <2> QED
      BY <2>1, NewToTheMachine DEF Inv, SwitchInv
  <1>7. Doing = "install"
    <2>1. opts.job = "install"
      BY <1>1 DEF Inv, JobFits, Updating
    <2> QED
      BY <1>1, <2>1 DEF Doing
  <1>8. Promise!GoOn
    BY <1>1, RunGoesOn DEF Inv
  <1> QED
    BY <1>5, <1>6, <1>7, <1>8 DEF Promise!Switch, Settled

\* The rename settles what the run switched to.
LEMMA RenameSettles ==
    ASSUME Inv, SwitchInv, RenameMap
    PROVE  Promise!Settle
  <1>1. /\ runs' = runs /\ opts' = opts /\ pc = "rename" /\ sector' = sector
        /\ mapFile' = mapTemp /\ ~mapTemp'.done
    BY DEF RenameMap, memory, NoFile
  <1>2. sector.id = runs /\ LeadsTo(mapTemp)
    BY <1>1 DEF SwitchInv, OwnSector, Written, Inv, MapReady
  <1>3. IsLilo(sector)
    <2>1. runs \in Nat
      BY Numbers DEF Inv
    <2> QED
      BY <1>2, <2>1, InstallAssumption DEF IsLilo
  <1>4. mapTemp.run = runs
    BY <1>1, <1>2 DEF SwitchInv, OwnSector, Written, LeadsTo
  <1>5. ~LeadsTo(mapFile)
    <2>1. mapFile.run < runs /\ mapFile.run \in Nat /\ runs \in Nat
      BY <1>1, Numbers DEF SwitchInv, MapsAge, Inv
    <2>2. mapFile.run # runs
      BY <2>1
    <2> QED
      BY <1>2, <1>4, <2>2 DEF LeadsTo
  <1>6. Boots = runs /\ Boots' = runs
    BY <1>1, <1>2, <1>3, <1>4 DEF Boots, LeadsTo, IsLilo
  <1>7. ~Settled /\ Settled'
    BY <1>1, <1>2, <1>3, <1>5 DEF Settled, LeadsTo
  <1>8. Doing = "install"
    <2>1. opts.job = "install"
      BY <1>1 DEF Inv, JobFits, Updating
    <2> QED
      BY <1>1, <2>1 DEF Doing
  <1>9. Promise!GoOn
    BY <1>1, RunGoesOn DEF Inv
  <1> QED
    BY <1>6, <1>7, <1>8, <1>9 DEF Promise!Settle, Settled

\* -u and -U bring back what the backup copy stands for, whatever is left of it.
LEMMA WriteBackBringsBack ==
    ASSUME Inv, SwitchInv, WriteBack
    PROVE  Promise!BringBack
  <1>1. /\ runs' = runs /\ opts' = opts /\ pc = "write back" /\ mapFile' = mapFile
        /\ sector' = backup.content /\ backup.state = "complete"
    BY DEF WriteBack, Exit, memory, SwitchInv, CopyInHand
  <1>2. mapTemp' = mapTemp
    <2>1. "map~" \notin temps
      BY <1>1 DEF Inv, ListFits, Listed, Updating
    <2> QED
      BY <2>1 DEF WriteBack, Exit, RemoveOnExit
  <1>3. backup.content \in Sectors
    BY <1>1 DEF Inv, BackupFits
  <1>4. /\ backup.content.map < runs /\ backup.content.map \in Nat /\ runs \in Nat
        /\ mapTemp.done => backup.content.map < mapTemp.run
        /\ mapTemp.run \in Nat
    BY <1>1, Numbers DEF SwitchInv, CopyAge, Inv
  <1>5. ~LeadsTo(mapTemp)'
    <2>1. mapTemp.done => backup.content.map # mapTemp.run
      BY <1>4
    <2> QED
      BY <1>1, <1>2, <2>1 DEF LeadsTo
  <1>6. Settled'
    BY <1>5 DEF Settled, LeadsTo
  <1>7. Boots' \in Foreign \cup {0} \cup (1 .. runs - 1)
    <2>1. CASE LeadsTo(mapFile)' /\ IsLilo(sector)'
      <3>1. sector'.map = backup.content.map /\ sector'.map # 0
        BY <1>1, <2>1 DEF LeadsTo, SwitchInv, MapsHaveRuns
      <3>2. backup.content.map \in 1 .. runs - 1
        BY <1>4, <3>1
      <3>3. Boots' = backup.content.map
        BY <2>1, <3>1 DEF Boots, LeadsTo, IsLilo
      <3> QED
        BY <3>2, <3>3
    <2>2. CASE ~LeadsTo(mapFile)' /\ IsLilo(sector)'
      BY <1>5, <2>2 DEF Boots, LeadsTo, IsLilo
    <2>3. CASE ~IsLilo(sector)'
      BY <2>3 DEF Boots, LeadsTo, IsLilo
    <2> QED
      BY <2>1, <2>2, <2>3
  <1>8. Doing = "undo"
    <2>1. opts.job \in {"-u", "-U"}
      BY <1>1 DEF Inv, JobFits, Uninstalling
    <2> QED
      BY <1>1, <2>1 DEF Doing
  <1>9. Promise!GoOn
    BY <1>1, RunGoesOn DEF Inv
  <1> QED
    BY <1>6, <1>7, <1>8, <1>9 DEF Promise!BringBack, Settled

\* Every step of the installer is a step of the promise, or stutters.
LEMMA SwitchStep ==
    ASSUME Inv, SwitchInv, [Next]_vars
    PROVE  [Promise!Next]_(Promise!vars)
  <1>type. TypeOK
    BY DEF Inv
  <1> USE DEF memory, maps, disk
  <1>1. ASSUME NEW job \in Jobs, NEW force \in Forces, NEW loud \in Louds,
               NEW root \in RootDevices, NEW node \in BOOLEAN, NEW gap \in Gaps,
               Start(job, force, loud, root, node, gap)
        PROVE  Promise!Next
    BY <1>1, StartBegins DEF Promise!Next
  <1>2. CASE MergeLoader \/ RegisterMap \/ MapImages \/ OpenBackup \/ WriteBackup \/ StampBackup
    <2>1. pc # "idle" /\ runs' = runs /\ opts' = opts /\ UNCHANGED <<sector, mapFile, mapTemp>>
      BY <1>2 DEF MergeLoader, RegisterMap, MapImages, OpenBackup, WriteBackup, StampBackup
    <2> QED
      BY <1>type, <2>1, NothingSwitched DEF Promise!Next
  <1>3. CASE CloseBackup \/ CloseBoot \/ UnregisterMap \/ Kill \/ CheckBackup \/ ReadBackup
    <2>1. pc # "idle" /\ runs' = runs /\ opts' = opts /\ UNCHANGED <<sector, mapFile, mapTemp>>
      BY <1>3 DEF CloseBackup, CloseBoot, UnregisterMap, Kill, CheckBackup, ReadBackup
    <2> QED
      BY <1>type, <2>1, NothingSwitched DEF Promise!Next
  <1>4. CASE CreateMap
    <2>1. /\ pc # "idle" /\ runs' = runs /\ opts' = opts /\ UNCHANGED <<sector, mapFile>>
          /\ ~mapTemp'.done
      BY <1>4 DEF CreateMap
    <2> QED
      BY <1>type, <2>1, TempGone
  <1>5. CASE Die \/ CloseBootFails \/ RenameMapFails
    <2>1. pc # "idle" /\ runs' = runs /\ opts' = opts /\ UNCHANGED <<sector, mapFile>>
      BY <1>5 DEF Die, CloseBootFails, RenameMapFails, Exit, MayFail
    <2>2. mapTemp' = mapTemp \/ ~mapTemp'.done
      BY <1>5, EndsWithout
    <2> QED
      BY <1>type, <2>1, <2>2, TempGone
  <1>6. CASE MapDone \/ Cancel
    BY <1>6, MapDoneSwitchesNothing, CancelSwitchesNothing
  <1>7. CASE WriteBoot
    BY <1>7, WriteBootSwitches DEF Promise!Next
  <1>8. CASE RenameMap
    BY <1>8, RenameSettles DEF Promise!Next
  <1>9. CASE WriteBack
    BY <1>9, WriteBackBringsBack DEF Promise!Next
  <1>10. ASSUME NEW f \in Foreign, OtherSystem(f)
         PROVE  Promise!Next
    <2>1. pc = "idle" /\ runs' = runs /\ pc' = pc /\ sector' = ForeignSector(f)
      BY <1>10 DEF OtherSystem
    <2>2. sector'.id = f
      BY <2>1 DEF ForeignSector
    <2>3. Boots' \in Foreign /\ Settled'
      BY <2>2 DEF Boots, Settled, IsLilo, LeadsTo
    <2>4. Doing = "idle" /\ Doing' = "idle"
      BY <2>1 DEF Doing
    <2> QED
      BY <2>1, <2>3, <2>4 DEF Promise!Next, Promise!OtherSystem, Settled
  <1>11. CASE UNCHANGED vars
    BY <1>11 DEF vars, Promise!vars, Boots, Doing, LeadsTo, IsLilo
  <1> QED
    BY <1>1, <1>2, <1>3, <1>4, <1>5, <1>6, <1>7, <1>8, <1>9, <1>10, <1>11
    DEF Next, Install, Uninstall

\* Before the first run the machine boots another system, and nothing is going on.
LEMMA InitPromise == Init => Promise!Init
  <1> SUFFICES ASSUME Init
               PROVE  Promise!Init
    OBVIOUS
  <1>1. PICK f \in Foreign : sector = ForeignSector(f)
    BY DEF Init
  <1>2. sector.id = f
    BY <1>1 DEF ForeignSector
  <1>3. Boots \in Foreign /\ Settled = TRUE
    BY <1>2 DEF Boots, Settled, IsLilo, LeadsTo
  <1>4. runs = 0 /\ Doing = "idle"
    BY DEF Init, Doing
  <1> QED
    BY <1>3, <1>4 DEF Promise!Init, Settled

\* The installer implements BootSwitch: under any failures and kills a run takes
\* over the machine with one write or not at all.
THEOREM RunsSwitchAtOnce == Spec => SwitchesAtOnce
  <1>1. Inv /\ SwitchInv /\ [Next]_vars => [Promise!Next]_(Promise!vars)
    BY SwitchStep
  <1> QED
    BY <1>1, InitPromise, SwitchInvariance, PTL DEF Spec, SwitchesAtOnce, Promise!Spec

-----------------------------------------------------------------------------
(* What lilo -u brings back.                                               *)

\* The labels at which the sector in memory may carry the date of this run's
\* backup copy, and those at which the copy is being written.
Stamped == {"close backup", "map done", "write boot"} \cup Late
Copying == {"write backup", "stat backup"}

\* Sectors are dated before the present run until it stamps and writes its own.
DatesFit ==
    /\ clock > 0
    /\ sector.timestamp <= clock /\ bsect.timestamp <= clock /\ backup.mtime <= clock
    /\ pc # "idle" => bsect_orig.timestamp < clock
    /\ pc \notin Late => sector.timestamp < clock
    /\ pc \notin Stamped => bsect.timestamp < clock

\* The copy is younger than the sector in it.
CopyDates ==
    /\ backup.state = "none" \/ backup.mtime > 0
    /\ backup.state = "complete" => backup.content.timestamp < backup.mtime
    /\ pc \in Copying => backup.mtime = clock

\* Other systems' sectors carry no date of a file; a LILO sector that carries the
\* date of the copy stands for what is in the copy.
Undated(s) == ~IsLilo(s) => s.timestamp = 0
Stands(s) ==
    IsLilo(s) /\ backup.state = "complete" /\ backup.mtime = s.timestamp
      => backup.content.id = s.ancestor

StandsFor ==
    /\ Undated(sector) /\ Undated(bsect_orig)
    /\ backup.state = "complete" => Undated(backup.content)
    /\ Stands(sector)
    /\ pc # "idle" => Stands(bsect_orig)
    /\ pc \in Merged => Stands(bsect)

\* What a run has in memory before it changes it, has copied, and has compared.
Known ==
    /\ pc \in {"open", "check"} => bsect = bsect_orig
    /\ pc = "stat backup" => backup.state = "complete" /\ backup.content = bsect_orig
    /\ pc \in {"read backup", "write back"} /\ opts.job = "-u"
         => IsLilo(bsect_orig) /\ backup.mtime = bsect_orig.timestamp

\* What dates, copies and ancestors have in common.
DateInv == DatesFit /\ CopyDates /\ StandsFor /\ Known

\* The steps that touch no sector, no date and no copy, and what labels they join.
QuietStep ==
    \/ CreateMap \/ RegisterMap \/ MapImages \/ Cancel \/ CloseBackup \/ CloseBoot
    \/ CloseBootFails \/ UnregisterMap \/ RenameMap \/ RenameMapFails \/ CheckBackup
    \/ Die \/ Kill

\* What a quiet step leaves alone.
LEMMA QuietSteps ==
    ASSUME QuietStep
    PROVE  /\ UNCHANGED <<sector, bsect, bsect_orig, backup, clock>>
           /\ pc # "idle" /\ pc' \notin Copying \cup {"open", "check", "write back"}
           /\ pc \in Late => pc' \in Late
           /\ pc \in Stamped => pc' \in Stamped
           /\ pc' \in Merged => pc \in Merged
  <1> USE DEF Late, Written, Stamped, Copying, Merged, Updating, memory, maps, disk
  <1>1. CASE CreateMap \/ RegisterMap
    BY <1>1 DEF CreateMap, RegisterMap
  <1>2. CASE MapImages
    BY <1>2 DEF MapImages, Goal
  <1>3. CASE CloseBackup
    BY <1>3 DEF CloseBackup, AfterBackup
  <1>4. CASE CloseBoot \/ UnregisterMap
    BY <1>4 DEF CloseBoot, UnregisterMap
  <1>5. CASE CheckBackup
    BY <1>5 DEF CheckBackup
  <1>6. CASE Cancel \/ CloseBootFails \/ RenameMap \/ RenameMapFails \/ Die \/ Kill
    <2>1. pc' = "idle" /\ pc # "idle"
      BY <1>6 DEF Cancel, CloseBootFails, RenameMap, RenameMapFails, Die, Kill, Exit, MayFail
    <2>2. UNCHANGED <<sector, bsect, bsect_orig, backup, clock>>
      BY <1>6 DEF Cancel, CloseBootFails, RenameMap, RenameMapFails, Die, Kill, Exit
    <2> QED
      BY <2>1, <2>2
  <1> QED
    BY <1>1, <1>2, <1>3, <1>4, <1>5, <1>6 DEF QuietStep

\* At first there is no copy and no dated sector.
LEMMA InitDates == Init => DateInv
  <1> SUFFICES ASSUME Init
               PROVE  DateInv
    OBVIOUS
  <1>1. PICK f \in Foreign : sector = ForeignSector(f)
    BY DEF Init
  <1>2. sector.id = f /\ sector.timestamp = 0 /\ bsect = sector /\ bsect_orig = sector
    BY <1>1 DEF ForeignSector, Init
  <1>3. clock = 1 /\ pc = "idle" /\ backup.state = "none" /\ backup.mtime = 0
    BY DEF Init, NoBackup
  <1>4. DatesFit
    BY <1>2, <1>3 DEF DatesFit, Stamped, Late
  <1>5. CopyDates
    BY <1>3 DEF CopyDates, Copying
  <1>6. StandsFor
    BY <1>2, <1>3 DEF StandsFor, Undated, Stands, IsLilo, Merged, Updating
  <1>7. Known
    BY <1>3 DEF Known
  <1> QED
    BY <1>4, <1>5, <1>6, <1>7 DEF DateInv

\* The copy that is written carries the date of the present run.
LEMMA NextDatesFit ==
    ASSUME 0 \notin Gaps, Inv, SwitchInv, DateInv, [Next]_vars
    PROVE  DatesFit'
  <1>inv. DatesFit
    BY DEF DateInv
  <1>nat. /\ clock \in Nat /\ backup.mtime \in Nat /\ backup.content.timestamp \in Nat
          /\ sector.timestamp \in Nat /\ bsect.timestamp \in Nat /\ bsect_orig.timestamp \in Nat
    BY Numbers DEF Inv
  <1>late. /\ pc \in Late => pc \in Stamped
           /\ pc' \in Late => pc' \in Stamped
           /\ pc' = "idle" => pc' \in Late
    BY DEF Late, Stamped
  <1> USE DEF DatesFit, memory, maps, disk
  <1>1. ASSUME NEW job \in Jobs, NEW force \in Forces, NEW loud \in Louds,
               NEW root \in RootDevices, NEW node \in BOOLEAN, NEW gap \in Gaps,
               Start(job, force, loud, root, node, gap)
        PROVE  DatesFit'
    <2>1. gap \in Nat /\ gap > 0
      BY InstallAssumption
    <2>2. /\ clock' = clock + gap /\ backup'.mtime = backup.mtime
          /\ sector'.timestamp = sector.timestamp /\ bsect'.timestamp = sector.timestamp
          /\ bsect_orig'.timestamp = sector.timestamp
      BY <1>1 DEF Start
    <2> QED
      BY <1>inv, <1>nat, <2>1, <2>2
  <1>2. CASE QuietStep
    <2>1. /\ UNCHANGED <<sector, bsect, bsect_orig, backup, clock>> /\ pc # "idle"
          /\ pc \in Late => pc' \in Late
          /\ pc \in Stamped => pc' \in Stamped
      BY <1>2, QuietSteps
    <2> QED
      BY <1>inv, <2>1
  <1>3. CASE MergeLoader
    <2>1. bsect \in Sectors
      BY DEF Inv, TypeOK
    <2>2. bsect'.timestamp = bsect.timestamp
      BY <1>3, <2>1 DEF MergeLoader, Sectors
    <2>3. pc # "idle" /\ pc \notin Stamped
      BY <1>3 DEF MergeLoader, Stamped, Late, Written
    <2>4. UNCHANGED <<sector, bsect_orig, backup, clock>>
      BY <1>3 DEF MergeLoader
    <2> QED
      BY <1>inv, <1>late, <2>2, <2>3, <2>4
  <1>4. CASE OpenBackup \/ WriteBackup
    <2>1. backup'.mtime = backup.mtime \/ backup'.mtime = clock
      <3>1. CASE WriteBackup
        BY <3>1 DEF WriteBackup
      <3>2. CASE OpenBackup /\ backup' = backup
        BY <3>2
      <3>3. CASE OpenBackup /\ backup' # backup
        <4>1. backup' = [state |-> "partial", content |-> NoSector, mtime |-> clock]
          BY <3>3 DEF OpenBackup
        <4> QED
          BY <4>1
      <3> QED
        BY <1>4, <3>1, <3>2, <3>3
    <2>2. pc # "idle" /\ pc \notin Stamped
      BY <1>4 DEF OpenBackup, WriteBackup, Stamped, Late, Written
    <2>3. UNCHANGED <<sector, bsect, bsect_orig, clock>>
      BY <1>4 DEF OpenBackup, WriteBackup
    <2> QED
      BY <1>inv, <1>nat, <1>late, <2>1, <2>2, <2>3
  <1>5. CASE StampBackup
    <2>1. bsect \in Sectors
      BY DEF Inv, TypeOK
    <2>2. bsect'.timestamp = backup.mtime
      BY <1>5, <2>1 DEF StampBackup, Sectors
    <2>3. pc # "idle" /\ pc \notin Late /\ pc' \in Stamped
      BY <1>5 DEF StampBackup, Stamped, Late, Written
    <2>4. UNCHANGED <<sector, bsect_orig, backup, clock>>
      BY <1>5 DEF StampBackup
    <2> QED
      BY <1>inv, <1>nat, <2>2, <2>3, <2>4
  <1>6. CASE MapDone
    <2>1. bsect \in Sectors
      BY DEF Inv, TypeOK
    <2>2. bsect'.timestamp = bsect.timestamp
      BY <1>6, <2>1 DEF MapDone, Sectors
    <2>3. pc # "idle" /\ pc \notin Late /\ pc' \in Stamped
      BY <1>6 DEF MapDone, Stamped, Late, Written
    <2>4. UNCHANGED <<sector, bsect_orig, backup, clock>>
      BY <1>6 DEF MapDone
    <2> QED
      BY <1>inv, <2>2, <2>3, <2>4
  <1>7. CASE WriteBoot
    <2>1. sector' = bsect /\ UNCHANGED <<bsect, bsect_orig, backup, clock>>
      BY <1>7 DEF WriteBoot
    <2>2. pc # "idle" /\ pc' \in Late
      BY <1>7 DEF WriteBoot, Late, Written
    <2> QED
      BY <1>inv, <1>late, <2>1, <2>2
  <1>8. CASE ReadBackup
    <2>1. backup.state = "complete" /\ bsect'.timestamp = backup.content.timestamp
      BY <1>8 DEF ReadBackup
    <2>2. backup.content.timestamp < backup.mtime
      BY <2>1 DEF DateInv, CopyDates
    <2>3. UNCHANGED <<sector, bsect_orig, backup, clock>>
      BY <1>8 DEF ReadBackup
    <2>4. pc # "idle" /\ pc \notin Late
      BY <1>8 DEF ReadBackup, Late, Written
    <2>5. bsect'.timestamp < clock
      BY <1>inv, <1>nat, <2>1, <2>2
    <2>6. bsect'.timestamp <= clock
      BY <1>nat, <2>1, <2>5
    <2> QED
      BY <1>inv, <2>3, <2>4, <2>5, <2>6
  <1>9. CASE WriteBack
    <2>1. sector' = bsect /\ UNCHANGED <<bsect, bsect_orig, backup, clock>> /\ pc' = "idle"
      BY <1>9 DEF WriteBack, Exit
    <2> QED
      BY <1>inv, <1>late, <2>1
  <1>10. ASSUME NEW f \in Foreign, OtherSystem(f)
         PROVE  DatesFit'
    <2>1. sector'.timestamp = 0 /\ UNCHANGED <<bsect, bsect_orig, backup, clock>> /\ pc' = "idle"
      BY <1>10 DEF OtherSystem, ForeignSector
    <2>2. sector'.timestamp <= clock
      BY <1>nat, <2>1
    <2> QED
      BY <1>inv, <1>late, <2>1, <2>2
  <1>11. CASE UNCHANGED vars
    BY <1>inv, <1>11 DEF vars
  <1> QED
    BY <1>1, <1>2, <1>3, <1>4, <1>5, <1>6, <1>7, <1>8, <1>9, <1>10, <1>11
    DEF Next, Install, Uninstall, QuietStep

\* A copy is dated when it is written, with a sector from before this run.
LEMMA NextCopyDates ==
    ASSUME Inv, SwitchInv, DateInv, [Next]_vars
    PROVE  CopyDates'
  <1>inv. CopyDates /\ clock > 0
    BY DEF DateInv, DatesFit
  <1> USE DEF CopyDates, memory, maps, disk
  <1>1. ASSUME NEW job \in Jobs, NEW force \in Forces, NEW loud \in Louds,
               NEW root \in RootDevices, NEW node \in BOOLEAN, NEW gap \in Gaps,
               Start(job, force, loud, root, node, gap)
        PROVE  CopyDates'
    BY <1>inv, <1>1 DEF Start, Copying
  <1>2. CASE QuietStep
    <2>1. UNCHANGED <<backup, clock>> /\ pc' \notin Copying
      BY <1>2, QuietSteps
    <2> QED
      BY <1>inv, <2>1
  <1>3. CASE MergeLoader \/ MapDone \/ WriteBoot \/ ReadBackup \/ StampBackup
    <2>1. UNCHANGED <<backup, clock>> /\ pc' \notin Copying
      BY <1>3 DEF MergeLoader, MapDone, WriteBoot, ReadBackup, StampBackup, Copying
    <2> QED
      BY <1>inv, <2>1
  <1>4. CASE OpenBackup
    <2>1. CASE backup' = backup /\ pc' \notin Copying
      BY <1>inv, <2>1
    <2>2. CASE backup' = [state |-> "partial", content |-> NoSector, mtime |-> clock]
      <3>1. backup'.state = "partial" /\ backup'.mtime = clock /\ clock' = clock
        BY <1>4, <2>2 DEF OpenBackup
      <3> QED
        BY <1>inv, <3>1
    <2> QED
      BY <1>4, <2>1, <2>2 DEF OpenBackup, Copying
  <1>5. CASE WriteBackup
    <2>1. backup'.mtime = clock /\ clock' = clock /\ backup'.content = bsect_orig
      BY <1>5 DEF WriteBackup, BackupContents
    <2>2. bsect_orig.timestamp < clock
      BY <1>5 DEF WriteBackup, DateInv, DatesFit
    <2> QED
      BY <1>inv, <2>1, <2>2
  <1>6. CASE WriteBack
    <2>1. UNCHANGED <<backup, clock>> /\ pc' \notin Copying
      BY <1>6 DEF WriteBack, Exit, Copying
    <2> QED
      BY <1>inv, <2>1
  <1>7. ASSUME NEW f \in Foreign, OtherSystem(f)
        PROVE  CopyDates'
    BY <1>inv, <1>7 DEF OtherSystem
  <1>8. CASE UNCHANGED vars
    BY <1>inv, <1>8 DEF vars
  <1> QED
    BY <1>1, <1>2, <1>3, <1>4, <1>5, <1>6, <1>7, <1>8 DEF Next, Install, Uninstall, QuietStep

\* What a sector with the copy's date stands for is in the copy.
LEMMA NextStandsFor ==
    ASSUME Inv, SwitchInv, DateInv, [Next]_vars
    PROVE  StandsFor'
  <1>inv. StandsFor /\ Known
    BY DEF DateInv
  <1>type. bsect \in Sectors
    BY DEF Inv, TypeOK
  <1>nat. /\ clock \in Nat /\ backup.mtime \in Nat /\ backup.content.timestamp \in Nat
          /\ sector.timestamp \in Nat /\ bsect.timestamp \in Nat /\ bsect_orig.timestamp \in Nat
    BY Numbers DEF Inv
  <1> USE DEF StandsFor, Undated, Stands, IsLilo, memory, maps, disk
  <1>1. ASSUME NEW job \in Jobs, NEW force \in Forces, NEW loud \in Louds,
               NEW root \in RootDevices, NEW node \in BOOLEAN, NEW gap \in Gaps,
               Start(job, force, loud, root, node, gap)
        PROVE  StandsFor'
    <2>1. sector' = sector /\ bsect_orig' = sector /\ backup' = backup /\ pc' \notin Merged
      BY <1>1 DEF Start, Merged, Updating
    <2> QED
      BY <1>inv, <2>1
  <1>2. CASE QuietStep
    <2>1. /\ UNCHANGED <<sector, bsect, bsect_orig, backup>> /\ pc # "idle"
          /\ pc' \in Merged => pc \in Merged
      BY <1>2, QuietSteps
    <2> QED
      BY <1>inv, <2>1
  <1>3. CASE MergeLoader
    <2>1. UNCHANGED <<sector, bsect_orig, backup>> /\ pc = "open" /\ bsect = bsect_orig
      BY <1>3, <1>inv DEF MergeLoader, Known
    <2>2. /\ bsect'.timestamp = bsect_orig.timestamp
          /\ IsLilo(bsect_orig) => bsect'.ancestor = bsect_orig.ancestor
      BY <1>3, <1>type, <2>1 DEF MergeLoader, Sectors
    <2>3. Stands(bsect)'
      <3>1. CASE IsLilo(bsect_orig)
        BY <1>inv, <2>1, <2>2, <3>1
      <3>2. CASE ~IsLilo(bsect_orig)
        <4>1. bsect'.timestamp = 0
          BY <1>inv, <2>2, <3>2
        <4>2. backup.state = "complete" => backup.mtime # 0
          <5>1. backup.state = "complete" => backup.mtime > 0
            BY DEF DateInv, CopyDates
          <5> QED
            BY <1>nat, <5>1
        <4> QED
          BY <2>1, <4>1, <4>2
      <3> QED
        BY <3>1, <3>2
    <2> QED
      BY <1>inv, <2>1, <2>3
  <1>4. CASE OpenBackup
    <2>1. UNCHANGED <<sector, bsect, bsect_orig>> /\ pc = "backup"
      BY <1>4 DEF OpenBackup
    <2>2. CASE backup' = backup
      BY <1>inv, <2>1, <2>2 DEF Merged, Updating
    <2>3. CASE backup' # backup
      <3>1. backup' = [state |-> "partial", content |-> NoSector, mtime |-> clock]
        BY <1>4, <2>3 DEF OpenBackup
      <3>2. backup'.state # "complete"
        BY <3>1
      <3> QED
        BY <1>inv, <2>1, <3>2
    <2> QED
      BY <2>2, <2>3
  <1>5. CASE WriteBackup
    <2>1. /\ UNCHANGED <<sector, bsect, bsect_orig>>
          /\ backup'.mtime = clock /\ backup'.content = bsect_orig
      BY <1>5 DEF WriteBackup, BackupContents
    <2>2. pc # "idle" /\ pc \notin Late /\ pc \notin Stamped
      BY <1>5 DEF WriteBackup, Late, Written, Stamped
    <2>3. /\ sector.timestamp < clock /\ bsect.timestamp < clock
          /\ bsect_orig.timestamp < clock
      BY <2>2 DEF DateInv, DatesFit
    <2>4. /\ sector.timestamp # clock /\ bsect.timestamp # clock
          /\ bsect_orig.timestamp # clock
      BY <1>nat, <2>3
    <2> QED
      BY <1>inv, <2>1, <2>4
  <1>6. CASE StampBackup
    <2>1. /\ UNCHANGED <<sector, bsect_orig, backup>> /\ pc # "idle"
          /\ backup.content = bsect_orig
      BY <1>6, <1>inv DEF StampBackup, Known
    <2>2. bsect'.ancestor = bsect_orig.id
      BY <1>6, <1>type DEF StampBackup, Sectors
    <2> QED
      BY <1>inv, <2>1, <2>2
  <1>7. CASE MapDone
    <2>1. UNCHANGED <<sector, bsect_orig, backup>> /\ pc # "idle" /\ pc \in Merged
      BY <1>7 DEF MapDone, Merged, Updating
    <2>2. /\ bsect'.id = bsect.id /\ bsect'.timestamp = bsect.timestamp
          /\ bsect'.ancestor = bsect.ancestor
      BY <1>7, <1>type DEF MapDone, Sectors
    <2> QED
      BY <1>inv, <2>1, <2>2
  <1>8. CASE WriteBoot
    <2>1. /\ sector' = bsect /\ UNCHANGED <<bsect, bsect_orig, backup>> /\ pc # "idle"
          /\ pc \in Merged
      BY <1>8 DEF WriteBoot, Merged, Updating
    <2>2. IsLilo(bsect)
      <3>1. bsect.id = runs /\ runs \in Nat
        BY <2>1, Numbers DEF SwitchInv, OwnSector, Inv
      <3> QED
        BY <3>1, InstallAssumption
    <2> QED
      BY <1>inv, <2>1, <2>2
  <1>9. CASE ReadBackup
    <2>1. UNCHANGED <<sector, bsect_orig, backup>> /\ pc # "idle" /\ pc' \notin Merged
      BY <1>9 DEF ReadBackup, Merged, Updating
    <2> QED
      BY <1>inv, <2>1
  <1>10. CASE WriteBack
    <2>1. /\ sector' = backup.content /\ UNCHANGED <<bsect_orig, backup>> /\ pc' = "idle"
          /\ backup.state = "complete"
      BY <1>10 DEF WriteBack, Exit, SwitchInv, CopyInHand
    <2>2. backup.content.timestamp # backup.mtime
      <3>1. backup.content.timestamp < backup.mtime
        BY <2>1 DEF DateInv, CopyDates
      <3> QED
        BY <1>nat, <3>1
    <2> QED
      BY <1>inv, <2>1, <2>2 DEF Merged, Updating
  <1>11. ASSUME NEW f \in Foreign, OtherSystem(f)
         PROVE  StandsFor'
    <2>1. /\ sector' = ForeignSector(f) /\ UNCHANGED <<bsect, bsect_orig, backup>>
          /\ pc' = "idle"
      BY <1>11 DEF OtherSystem
    <2>2. sector'.id = f /\ sector'.timestamp = 0
      BY <2>1 DEF ForeignSector
    <2> QED
      BY <1>inv, <2>1, <2>2 DEF Merged, Updating
  <1>12. CASE UNCHANGED vars
    BY <1>inv, <1>12 DEF vars
  <1> QED
    BY <1>1, <1>2, <1>3, <1>4, <1>5, <1>6, <1>7, <1>8, <1>9, <1>10, <1>11, <1>12
    DEF Next, Install, Uninstall, QuietStep

\* A run knows what it has read, copied and compared until it uses it.
LEMMA NextKnown ==
    ASSUME Inv, SwitchInv, DateInv, [Next]_vars
    PROVE  Known'
  <1>inv. Known
    BY DEF DateInv
  <1> USE DEF Known, memory, maps, disk
  <1>1. ASSUME NEW job \in Jobs, NEW force \in Forces, NEW loud \in Louds,
               NEW root \in RootDevices, NEW node \in BOOLEAN, NEW gap \in Gaps,
               Start(job, force, loud, root, node, gap)
        PROVE  Known'
    BY <1>1 DEF Start
  <1>2. CASE CheckBackup
    <2>1. /\ pc' = "read backup" /\ bsect = bsect_orig
          /\ UNCHANGED <<backup, opts, bsect, bsect_orig>>
      BY <1>2, <1>inv DEF CheckBackup
    <2>2. IsLilo(bsect) /\ (opts.job = "-u" => backup.mtime = bsect.timestamp)
      BY <1>2 DEF CheckBackup, TimestampMatches
    <2> QED
      BY <2>1, <2>2 DEF IsLilo
  <1>3. CASE ReadBackup
    <2>1. /\ pc = "read backup" /\ pc' = "write back"
          /\ UNCHANGED <<backup, opts, bsect_orig>>
      BY <1>3 DEF ReadBackup
    <2> QED
      BY <1>inv, <2>1 DEF IsLilo
  <1>4. CASE WriteBackup
    <2>1. pc' = "stat backup" /\ bsect_orig' = bsect_orig /\ backup'.state = "complete"
          /\ backup'.content = bsect_orig
      BY <1>4 DEF WriteBackup, BackupContents
    <2> QED
      BY <2>1
  <1>5. CASE QuietStep /\ ~CheckBackup
    <2>1. pc' \notin {"open", "check", "stat backup", "read backup", "write back"}
      <3>1. CASE CreateMap \/ RegisterMap \/ CloseBoot \/ UnregisterMap \/ RenameMap
        BY <3>1 DEF CreateMap, RegisterMap, CloseBoot, UnregisterMap, RenameMap
      <3>2. CASE MapImages \/ CloseBackup
        BY <3>2 DEF MapImages, Goal, CloseBackup, AfterBackup
      <3>3. CASE Cancel \/ CloseBootFails \/ RenameMapFails \/ Die \/ Kill
        BY <3>3 DEF Cancel, CloseBootFails, RenameMapFails, Die, Kill, Exit
      <3> QED
        BY <1>5, <3>1, <3>2, <3>3 DEF QuietStep
    <2> QED
      BY <2>1
  <1>6. CASE MergeLoader \/ OpenBackup \/ StampBackup \/ MapDone \/ WriteBoot
    <2>1. pc' \notin {"open", "check", "stat backup", "read backup", "write back"}
      BY <1>6 DEF MergeLoader, OpenBackup, StampBackup, MapDone, WriteBoot
    <2> QED
      BY <2>1
  <1>7. CASE WriteBack
    <2>1. pc' = "idle"
      BY <1>7 DEF WriteBack, Exit
    <2> QED
      BY <2>1
  <1>8. ASSUME NEW f \in Foreign, OtherSystem(f)
        PROVE  Known'
    <2>1. pc' = "idle"
      BY <1>8 DEF OtherSystem
    <2> QED
      BY <2>1
  <1>9. CASE UNCHANGED vars
    BY <1>inv, <1>9 DEF vars, IsLilo
  <1> QED
    BY <1>1, <1>2, <1>3, <1>4, <1>5, <1>6, <1>7, <1>8, <1>9 DEF Next, Install, Uninstall, QuietStep

\* If two runs never start within one second, what lilo -u writes back, the
\* timestamp having matched, is the sector that the present one stands for.
\* Within one second two runs can carry the same timestamp (bsect.c:573).
THEOREM UndoRestoresAncestor ==
    ASSUME 0 \notin Gaps
    PROVE  Spec => []RestoresAncestor
  <1>1. Init => DateInv
    BY InitDates
  <1>2. Inv /\ SwitchInv /\ DateInv /\ [Next]_vars => DateInv'
    BY NextDatesFit, NextCopyDates, NextStandsFor, NextKnown DEF DateInv
  <1>3. SwitchInv /\ DateInv => RestoresAncestor
    BY DEF SwitchInv, CopyInHand, DateInv, StandsFor, Stands, Known, RestoresAncestor
  <1> QED
    BY <1>1, <1>2, <1>3, SwitchInvariance, PTL DEF Spec
=============================================================================
