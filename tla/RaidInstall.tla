----------------------------- MODULE RaidInstall -----------------------------
(***************************************************************************)
(* main of lilo.c from the configuration file on: one installation or, if  *)
(* BOOT is a RAID 1 array, one for each of its disks, with the file read   *)
(* again each time, the list of disks (DiskTab) and the static variables   *)
(* of the image table (ImageTable) carried from one to the next.  /boot is *)
(* on the array: what a boot sector points to is read through geo_get of   *)
(* the array, that is, of its first disk.                                  *)
(*                                                                         *)
(* bsect_open, the images and bsect_update change the boot sector and the  *)
(* map file of a disk in one step here; module BootInstall has the system  *)
(* calls.  Each map file is known by the run and the pass that wrote it.   *)
(***************************************************************************)
EXTENDS ImageTable, DiskTab

CONSTANTS
    Members,        \* devices that arrays are made of
    Kernel,         \* what the kernel reports of a device
    NodeNames,      \* the device that eight characters of a node's name are for
    Setups          \* by name, a configuration and what it meets: DISK sections, lines
                    \* of disktab, types in CHANGE-RULES, sections of images; arrays,
                    \* {NoArray} if BOOT is none; jobs: install, test (-t), once (-u,
                    \* -q, -R); and the bound, runs

Md == [major |-> "md", disk |-> 0, part |-> 0]
NoArray == [slots |-> <<>>, nr_disks |-> 0, fit |-> TRUE]
EmptySlots == {[device |-> NoDevice, faulty |-> f] : f \in BOOLEAN}

ASSUME RaidAssumption ==
    /\ Members \subseteq [major : {"hd", "ide2", "sd"}, disk : Nat, part : Nat \ {0}]
    /\ \A m \in Members : NodeNames[m] \in {Whole(m), NoDevice}
    /\ \A m, n \in Members : Whole(m) = Whole(n) =>
        Kernel[m].heads = Kernel[n].heads /\ Kernel[m].sectors = Kernel[n].sectors
    /\ \A g \in Range(Setups) :
        /\ g.sections \in Seq(Range(g.sections))
        /\ \A s \in Range(g.sections) : s.device.part = 0 \/ s.device.major = "fd"
        /\ g.images \subseteq Sections /\ g.jobs \subseteq {"install", "test", "once"}
        /\ g.types \in BOOLEAN /\ g.runs \in Nat
        /\ \A a \in g.arrays :
            /\ a.slots \in Seq(EmptySlots \cup [device : Members, faulty : BOOLEAN])
            /\ a.nr_disks = Cardinality({i \in DOMAIN a.slots : a.slots[i].device # NoDevice})
            /\ a.nr_disks = 0 => a = NoArray
            /\ a = NoArray => g.arrays = {NoArray}

VARIABLES
    setup,
    array, job,     \* of the present run
    pass,           \* slots that are done
    boot, map,      \* BOOT and MAP as they are set for a disk
    sectors,        \* boot sectors, NoSector as long as they are not LILO's
    maps,           \* /boot/map and, for each device, /boot/map.NNNN
    runs

md == <<setup, array, job, pass>>
place == <<boot, map>>
boots == <<sectors, maps>>
vars == <<tableVars, pc, diskTab, md, place, boots, runs>>

Disks == {Whole(m) : m \in Members} \cup {NoDevice}
MapNames == Members \cup {NoDevice}
NoMap == <<0, 0>>
NoSector == [map |-> NoMap]

Init ==
    /\ TableInit
    /\ disktab = <<>> /\ old_disktab = FALSE
    /\ setup \in DOMAIN Setups /\ array \in Setups[setup].arrays /\ job \in Setups[setup].jobs
    /\ pass = 0 /\ pc = "start" /\ boot = NoDevice /\ map = NoDevice
    /\ sectors = [d \in Disks |-> NoSector]
    /\ maps = [n \in MapNames |-> NoMap]
    /\ runs = 1

given == Setups[setup]

IsArray == array # NoArray

\* GET_DISK_INFO for a number.
SlotOf(i) ==
    IF i <= Len(array.slots) THEN array.slots[i] ELSE [device |-> NoDevice, faulty |-> FALSE]

\* The process and its memory are gone.
Leave(how) ==
    /\ pc' = how
    /\ descr' = NewDescr /\ image' = 0 /\ image_base' = 0 /\ fallback' = <<>>
    /\ disktab' = <<>> /\ old_disktab' = FALSE
    /\ next' = 1 /\ tables' = 0
    /\ boot' = NoDevice /\ map' = NoDevice
    /\ UNCHANGED <<file, md, runs>>

Die == Leave("died") /\ UNCHANGED boots

-----------------------------------------------------------------------------
(* Before the loop.                                                        *)

MdEntry == [NoEntry EXCEPT !.device = Md, !.bios = 128]

\* cfg_parse of the options with their DISK sections; an array is checked and put on
\* the list.
ReadOptions ==
    /\ pc = "start"
    /\ IF IsArray /\ ~array.fit THEN Die
       ELSE /\ LET sections == [i \in DOMAIN given.sections |-> Entry(given.sections[i])]
               IN  disktab' = (IF IsArray THEN <<MdEntry>> ELSE <<>>) \o Reverse(sections)
            /\ pc' = "pass"
            /\ UNCHANGED <<tableVars, old_disktab, md, place, boots, runs>>

-----------------------------------------------------------------------------
(* The loop.                                                               *)

Continues == pass = 0 \/ (IsArray /\ pass < array.nr_disks)

LeaveLoop ==
    /\ pc = "pass" /\ ~Continues
    /\ Leave("done") /\ UNCHANGED boots

\* The file is read again from the second pass on: DISK finds its own entry and
\* CHANGE-RULES its own types.
RereadFails ==
    pass > 0 /\ (given.types \/ \E s \in Range(given.sections) : Refused(s))

Reread ==
    /\ pc = "pass" /\ Continues
    /\ IF RereadFails THEN Die
       ELSE /\ pc' = IF IsArray THEN "slot" ELSE "options"
            /\ UNCHANGED <<tableVars, diskTab, md, place, boots, runs>>

Slot == SlotOf(pass + 1)
Usable(s) == s.device # NoDevice /\ ~s.faulty

\* Mutant of PassAfterSkip: the slot is not counted.
PassAfterSkipSame == pass

PassAfterSkip == pass + 1

SkipSlot ==
    /\ pc = "slot" /\ ~Usable(Slot)
    /\ pass' = PassAfterSkip
    /\ pc' = "pass"
    /\ UNCHANGED <<tableVars, diskTab, setup, array, job, place, boots, runs>>

MemberEntry(d) ==
    [device |-> Whole(d), bios |-> 128, heads |-> Kernel[d].heads, sectors |-> Kernel[d].sectors,
     cylinders |-> Kernel[d].cylinders, start |-> Kernel[d].start]

\* Mutant of MapName: all disks use the map file of the array.
MapNameShared(d) == NoDevice

\* The name of the map file gets the number of the device.
MapName(d) == d

\* The disk is drive 0x80 from now on, and BOOT and MAP are its own.
TakeSlot ==
    /\ pc = "slot" /\ Usable(Slot)
    /\ disktab' = <<MemberEntry(Slot.device)>> \o disktab
    /\ boot' = NodeNames[Slot.device] /\ map' = MapName(Slot.device)
    /\ pc' = "options"
    /\ UNCHANGED <<tableVars, old_disktab, md, boots, runs>>

\* In the first pass -u, which restores the sector of this disk, -q and -R end lilo;
\* else geo_init reads the disktab file, and bsect_open opens the boot device.
Prepare ==
    /\ pc = "options"
    /\ \/ /\ job = "once" /\ Leave("done")
          /\ sectors' \in {sectors, [sectors EXCEPT ![boot] = NoSector]} /\ UNCHANGED maps
       \/ job # "once" /\ (RefusedLines(given.lines) \/ (IsArray /\ boot = NoDevice)) /\ Die
       \/ /\ job # "once" /\ ~RefusedLines(given.lines) /\ ~(IsArray /\ boot = NoDevice)
          /\ LoadLines(given.lines)
          /\ pass' = pass + 1 /\ pc' = "open"
          /\ UNCHANGED <<tableVars, setup, array, job, place, boots, runs>>

\* The slots that geo_get may take for the array.
Asked == {i \in 1 .. array.nr_disks : ~SlotOf(i).faulty}

\* geo_get of the array answers for its first disk.
FirstMember == SlotOf(Min(Asked)).device

\* geo_get takes an empty slot for a disk without a driver.
Unnamed == IsArray /\ FirstMember = NoDevice

Address ==
    IF IsArray
    THEN LET reported == Kernel[FirstMember]
         IN  Merged(FirstMember,
                    [bios |-> 128 + FirstMember.disk, heads |-> reported.heads,
                     sectors |-> reported.sectors, cylinders |-> reported.cylinders,
                     start |-> reported.start])
    ELSE NoEntry

\* bsect_open, as far as it maps boot.b; the callbacks of the image sections.
MapImages ==
    /\ pc \in {"open", "sections"} /\ ~(pc = "open" /\ Unnamed)
    /\ MakeTable(given.images)
    /\ UNCHANGED <<diskTab, md, place, boots, runs>>

\* bsect_update, or bsect_cancel for a test.
WriteDisk ==
    /\ pc = "mapped"
    /\ IF job = "test" THEN UNCHANGED boots
       ELSE /\ maps' = [maps EXCEPT ![map] = <<runs, pass>>]
            /\ sectors' = [sectors EXCEPT ![boot] =
                              [map |-> <<runs, pass>>, name |-> map, address |-> Address,
                               member |-> SlotOf(pass).device,
                               first |-> IF IsArray THEN FirstMember ELSE NoDevice]]
    /\ pc' = "pass"
    /\ UNCHANGED <<tableVars, diskTab, md, place, runs>>

\* Some call fails, as geo_get does if the array has no first disk, or the checks of
\* the table.
Fail == pc \in {"start", "pass", "slot", "options", "open", "sections", "mapped", "refused"} /\ Die

\* lilo is run again, with the same file and whatever became of the array.
AnotherRun(a, j) ==
    /\ pc \in {"done", "died"} /\ runs < given.runs
    /\ runs' = runs + 1 /\ array' = a /\ job' = j /\ pass' = 0 /\ pc' = "start"
    /\ UNCHANGED <<tableVars, diskTab, setup, place, boots>>

main ==
    \/ ReadOptions \/ LeaveLoop \/ Reread \/ SkipSlot \/ TakeSlot
    \/ Prepare \/ MapImages \/ WriteDisk \/ Fail

Next == main \/ \E a \in given.arrays, j \in given.jobs : AnotherRun(a, j)

\* lilo runs once it was started.
Spec == Init /\ [][Next]_vars /\ WF_vars(main)

-----------------------------------------------------------------------------
Layout(d) == <<Kernel[d].heads, Kernel[d].sectors, Kernel[d].start>>

\* The map file that a boot sector names by its sectors is still there.
LeadsToItsMap(s) == maps[s.name] = s.map

\* The addresses are those of the disk's own copy of /boot, for the BIOS that has the
\* disk as its first; all come from the first disk of the array and suit the others
\* if they are laid out alike.
OwnAddresses(s) ==
    s.member # NoDevice /\ Layout(s.member) = Layout(s.first) =>
        /\ s.address.bios = 128
        /\ <<s.address.heads, s.address.sectors, s.address.start>> = Layout(s.member)

\* No usable disk of the array is left out by a run that ends well.  The code keeps
\* this only if NoGaps: nr_disks, "total disks in the raid set" (md-int.h), bounds a
\* loop over slots, which skips an "empty slot left over from recovery process".
AllReached ==
    pc = "done" /\ job = "install" =>
        \A i \in DOMAIN array.slots :
            Usable(array.slots[i]) => sectors[Whole(array.slots[i].device)].map[1] = runs

NoGaps == \A i \in DOMAIN array.slots : array.slots[i].device # NoDevice

\* Each disk that LILO wrote a boot sector to can boot in the place of the first one,
\* after any sequence of runs, of disks that failed and came back, and of passes that
\* did not come to their end; and a run that ends well has reached all disks of an
\* array without empty slots.
EachDiskBoots ==
    /\ \A d \in Disks : sectors[d] # NoSector => LeadsToItsMap(sectors[d]) /\ OwnAddresses(sectors[d])
    /\ NoGaps => AllReached

\* Empty slots and disks that were kicked out do not stop lilo: each run ends.
RunEnds == pc = "start" ~> pc \in {"done", "died"}
=============================================================================
