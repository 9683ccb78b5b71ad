------------------------------- MODULE Devices -------------------------------
(***************************************************************************)
(* How the map installer finds out about disks: the DISK sections and the  *)
(* disktab file, the search for a device node with its cache and temporary *)
(* nodes (device.c, temp.c), and the queries of geometry.c, which open     *)
(* further devices while one is open.                                      *)
(*                                                                         *)
(* A device is a driver ("fd", "hd", "ide2" for the other IDE drivers,     *)
(* "sd", "ida" for Compaq's arrays, "other" for those that geo_query_dev   *)
(* does not know), a disk and a partition, 0 for the whole disk; with      *)
(* floppies the partition tells drive and format.  DAC960, with less than  *)
(* four bits for the partition, is left out.                               *)
(***************************************************************************)
EXTENDS DiskTab, FiniteSets

CONSTANTS
    Devices,            \* block devices
    Kernel,             \* what the kernel reports of a device
    DevNames,           \* names in /dev
    TmpDev,             \* the names /tmp/dev.0 ... in their order
    Usual,              \* preload_dev_cache: names and their customary devices
    NodeTables,         \* contents of /dev and /tmp at the start
    Sections,           \* DISK sections: disk and variables
    Starts,             \* values of START, or Unset
    DiskTabs,           \* contents of the disktab file
    Changes,            \* nodes that others make, replace or remove
    MaxSections, MaxParts, MaxCalls, MaxChanges     \* bounds

Hd(n) == [major |-> "hd", disk |-> n, part |-> 0]
Names == DevNames \cup Range(TmpDev)

\* What the list of disks can hold.
Entries ==
    LET Value == Nat \cup {Unset}
    IN  [device : Devices, bios : Value, heads : Value, sectors : Value, cylinders : Value,
         start : Value]

ASSUME DeviceAssumption ==
    /\ \A d \in Devices :
        /\ d.major \in {"fd", "hd", "ide2", "sd", "ida", "other"}
        /\ {d.disk, d.part} \subseteq 0 .. 15
    /\ {Hd(0), Hd(1)} \subseteq Devices
    /\ \A d \in Devices : Whole(d) \in Devices
    /\ TmpDev \in Seq(STRING) /\ IsInjective(TmpDev) /\ Range(TmpDev) \cap DevNames = {}
    /\ NodeTables \subseteq [Names -> Devices \cup {NoDevice}]
    /\ Usual \in Seq([name : Names, number : Devices])
    /\ Kernel \in [Devices -> [heads : Nat, sectors : Nat, cylinders : Nat, start : Nat]]
    /\ \A s \in Sections :
        /\ s.device \in Devices /\ s.inaccessible \in BOOLEAN
        /\ {s.bios, s.heads, s.sectors, s.cylinders} \subseteq Nat \cup {Unset}
    /\ Starts \subseteq Nat \cup {Unset} /\ DiskTabs \subseteq Seq(Entries)
    /\ Changes \subseteq [name : Names, number : Devices \cup {NoDevice}]
    /\ {MaxSections, MaxParts, MaxCalls, MaxChanges} \subseteq Nat

VARIABLES
    present,            \* the first two IDE disks, as far as they can be read
    others,             \* the device nodes that are not LILO's
    nodes,              \* all of them
    cache, temps,       \* the lists of device.c and temp.c
    sections,           \* history: the sections that were accepted
    pc,
    call,               \* geo_get(device, all) or is_first(device)
    frames,             \* the devices between dev_open and dev_close
    counting, devs,     \* the loop of last_dev
    geo, first,         \* history: the last answers
    calls, changes

world == <<present, others>>
config == <<diskTab, sections>>
search == <<nodes, cache, temps, frames>>
counter == <<counting, devs>>
answers == <<geo, first>>
bounds == <<calls, changes>>
vars == <<world, config, search, counter, pc, call, answers, bounds>>

NoCall == [op |-> "none", dev |-> NoDevice, all |-> FALSE]
NoAnswer == [dev |-> NoDevice]

Init ==
    /\ present \in SUBSET {Hd(0), Hd(1)}
    /\ others \in NodeTables /\ nodes = others
    /\ cache = Usual /\ temps = {}
    /\ disktab = <<>> /\ old_disktab = FALSE /\ sections = <<>>
    /\ pc = "config" /\ call = NoCall /\ frames = <<>>
    /\ counting = "no" /\ devs = 0
    /\ geo = NoAnswer /\ first = NoAnswer /\ calls = 0 /\ changes = 0

\* exit() and die() run temp_remove; the memory of the process is gone.
Leave(how) ==
    /\ pc' = how
    /\ nodes' = [n \in Names |-> IF n \in temps THEN NoDevice ELSE nodes[n]]
    /\ temps' = {} /\ frames' = <<>> /\ cache' = <<>>
    /\ disktab' = <<>> /\ old_disktab' = FALSE /\ sections' = <<>>
    /\ counting' = "no" /\ devs' = 0
    /\ call' = NoCall /\ geo' = NoAnswer /\ first' = NoAnswer
    /\ UNCHANGED <<world, bounds>>

-----------------------------------------------------------------------------
(* The configuration.                                                      *)

do_disk(s) ==
    /\ pc \in {"config", "section"} /\ Len(sections) < MaxSections
    /\ IF Refused(s) THEN Leave("died")
       ELSE /\ disktab' = <<Entry(s)>> \o disktab
            /\ sections' = Append(sections, [disk |-> s, parts |-> <<>>])
            /\ pc' = "section"
            /\ UNCHANGED <<world, old_disktab, search, counter, call, answers, bounds>>

do_partition(d, start) ==
    /\ pc = "section" /\ Len(sections[Len(sections)].parts) < MaxParts
    /\ IF RefusedPart(d) THEN Leave("died")
       ELSE /\ disktab' = <<PartEntry(d, start)>> \o disktab
            /\ sections' = [sections EXCEPT ![Len(sections)].parts =
                                Append(@, [device |-> d, start |-> start])]
            /\ UNCHANGED <<world, old_disktab, search, counter, pc, call, answers, bounds>>

geo_init(lines) ==
    /\ pc \in {"config", "section"}
    /\ IF RefusedLines(lines) THEN Leave("died")
       ELSE /\ LoadLines(lines)
            /\ pc' = "idle"
            /\ UNCHANGED <<world, sections, search, counter, call, answers, bounds>>

-----------------------------------------------------------------------------
(* dev_open and dev_close, for the device that was asked for last.         *)

Frame(d, opens) == [dev |-> d, opens |-> opens, phase |-> "lookup", name |-> "", delete |-> FALSE]

Top == frames[Len(frames)]
At(phase) == pc = "query" /\ frames # <<>> /\ Top.phase = phase
Becomes(frame) == frames' = [frames EXCEPT ![Len(frames)] = frame]

\* Mutant of Valid: the cache is believed.
ValidAlways(entry) == TRUE

Valid(entry) == nodes[entry.name] = entry.number

\* The first entry for the number is used, or removed.
lookup_dev ==
    /\ At("lookup")
    /\ LET hits == {i \in DOMAIN cache : cache[i].number = Top.dev}
           hit == CHOOSE i \in hits : \A j \in hits : i <= j
       IN  IF hits # {} /\ Valid(cache[hit])
           THEN /\ Becomes([Top EXCEPT !.phase = "open", !.name = cache[hit].name])
                /\ UNCHANGED cache
           ELSE /\ Becomes([Top EXCEPT !.phase = "scan"])
                /\ cache' = IF hits = {} THEN cache ELSE RemoveAt(cache, hit)
    /\ UNCHANGED <<world, config, nodes, temps, counter, pc, call, answers, bounds>>

\* Whichever node of /dev comes first.
scan_dir ==
    /\ At("scan")
    /\ LET found == {n \in DevNames : nodes[n] = Top.dev}
       IN  \/ \E n \in found :
                /\ Becomes([Top EXCEPT !.phase = "open", !.name = n])
                /\ cache' = <<[name |-> n, number |-> Top.dev]>> \o cache
           \/ found = {} /\ Becomes([Top EXCEPT !.phase = "make"]) /\ UNCHANGED cache
    /\ UNCHANGED <<world, config, nodes, temps, counter, pc, call, answers, bounds>>

FreeTmp == {i \in DOMAIN TmpDev : nodes[TmpDev[i]] = NoDevice}

\* A temporary node of the lowest number that is free.
MakeNode ==
    /\ At("make") /\ FreeTmp # {}
    /\ LET n == TmpDev[CHOOSE i \in FreeTmp : \A j \in FreeTmp : i <= j]
       IN  /\ nodes' = [nodes EXCEPT ![n] = Top.dev]
           /\ Becomes([Top EXCEPT !.phase = "made", !.name = n, !.delete = TRUE])
    /\ UNCHANGED <<world, config, cache, temps, counter, pc, call, answers, bounds>>

RegisterNode ==
    /\ At("made")
    /\ temps' = temps \cup {Top.name}
    /\ Becomes([Top EXCEPT !.phase = "open"])
    /\ UNCHANGED <<world, config, nodes, cache, counter, pc, call, answers, bounds>>

OpenNode ==
    /\ At("open")
    /\ Becomes([Top EXCEPT !.phase = "opened"])
    /\ UNCHANGED <<world, config, nodes, cache, temps, counter, pc, call, answers, bounds>>
\* Mutant of Removes: /dev's own nodes go, too.
RemovesAlways(frame) == frame.name # ""

Removes(frame) == frame.delete

\* dev_close: what dev_open made is removed.
CloseNode ==
    /\ nodes' = IF Removes(Top) THEN [nodes EXCEPT ![Top.name] = NoDevice] ELSE nodes
    /\ temps' = IF Removes(Top) THEN temps \ {Top.name} ELSE temps

\* Any of the system calls may fail; a node that was just made is not yet on
\* the list of temporary files.
Fail == pc \in {"config", "section", "query"} /\ Leave("died")

-----------------------------------------------------------------------------
(* The questions.                                                          *)

\* Drives behind the IDE disks, which last_dev counts.
BehindIde(d) == d.major \in {"ide2", "sd", "ida"}

\* The drivers that is_first has a case for; a user of another one "knows what
\* (s)he's doing".
Decided(d) == d.major \notin {"ida", "other"}

\* Mutant of IsFirstOf: a SCSI disk is taken for the first, whatever IDE disks
\* there are.
IsFirstOfDriver(d) == d.disk = 0

IsFirstOf(d) ==
    Decided(d) => IF d.major = "fd" THEN d.part % 4 = 0 ELSE d.disk = 0 /\ (BehindIde(d) => devs = 0)

Guess(d) == IF d.major = "fd" THEN d.part % 4 ELSE 128 + d.disk + (IF BehindIde(d) THEN devs ELSE 0)

\* geo_query_dev; for the boot device alone a floppy is not asked.
Reported(d) ==
    LET kernel == IF d.major = "fd" /\ ~call.all
                  THEN [heads |-> 1, sectors |-> 1, cylinders |-> 1, start |-> 0]
                  ELSE Kernel[d]
    IN  [bios |-> Guess(d), heads |-> kernel.heads, sectors |-> kernel.sectors,
         cylinders |-> kernel.cylinders, start |-> kernel.start]

Answered(d) == Merged(d, Reported(d))

geo_get(d, all) ==
    /\ pc = "idle" /\ calls < MaxCalls
    /\ IF Inaccessible(d) THEN Leave("died")
       ELSE /\ call' = [op |-> "get", dev |-> d, all |-> all] /\ calls' = calls + 1
            /\ counting' = "no" /\ devs' = 0
            /\ IF keep_cyls(d) /\ (all \/ d.major # "fd")
               THEN frames' = <<Frame(d, TRUE)>> /\ pc' = "query"
               ELSE pc' = "merge" /\ UNCHANGED frames
            /\ UNCHANGED <<world, config, nodes, cache, temps, answers, changes>>

\* What is to be read needs the geometry, a boot sector only the drive.
geo_open(d) == geo_get(d, TRUE)
geo_open_boot(d) == geo_get(d, FALSE)

is_first(d) ==
    /\ pc = "idle" /\ calls < MaxCalls
    /\ IF Inaccessible(d) THEN Leave("died")
       ELSE /\ call' = [op |-> "first", dev |-> d, all |-> FALSE] /\ calls' = calls + 1
            /\ devs' = 0
            /\ IF Walk(d).bios = Unset /\ Decided(d) /\ BehindIde(d) /\ d.disk = 0
               THEN frames' = <<Frame(Hd(0), FALSE)>> /\ counting' = "yes" /\ pc' = "query"
               ELSE pc' = "merge" /\ counting' = "no" /\ UNCHANGED frames
            /\ UNCHANGED <<world, config, nodes, cache, temps, answers, changes>>

\* geo_query_dev calls last_dev with its own device open.
StartCount ==
    /\ At("opened") /\ Top.opens /\ BehindIde(Top.dev) /\ counting = "no"
    /\ counting' = "yes" /\ frames' = Append(frames, Frame(Hd(0), FALSE))
    /\ UNCHANGED <<world, config, nodes, cache, temps, devs, pc, call, answers, bounds>>

\* A round of last_dev: does the disk exist, and is there another one?
CountDisk ==
    /\ At("opened") /\ ~Top.opens
    /\ CloseNode
    /\ LET exists == nodes[Top.name] \in present
           next == IF exists /\ devs = 0 THEN <<Frame(Hd(1), FALSE)>> ELSE <<>>
       IN  /\ devs' = IF exists THEN devs + 1 ELSE devs
           /\ frames' = Front(frames) \o next
           /\ counting' = IF next = <<>> THEN "done" ELSE "yes"
           /\ pc' = IF frames' = <<>> THEN "merge" ELSE pc
    /\ UNCHANGED <<world, config, cache, call, answers, bounds>>

\* The kernel answered; geo_query_dev closes its device.  Otherwise it dies: it
\* does not know the driver, or there is nothing to be had of it (Fail).
QueryDevice ==
    /\ At("opened") /\ Top.opens /\ (BehindIde(Top.dev) => counting = "done")
    /\ Top.dev.major # "other"
    /\ ~(call.all /\ Top.dev.major \in {"sd", "ida"} /\ Kernel[Top.dev].sectors = 0)
    /\ CloseNode /\ frames' = <<>> /\ pc' = "merge"
    /\ UNCHANGED <<world, config, cache, counter, call, answers, bounds>>

Answer ==
    /\ pc = "merge"
    /\ \/ /\ call.op = "first"
          /\ first' = [dev |-> call.dev,
                       yes |-> IF Walk(call.dev).bios # Unset THEN Walk(call.dev).bios % 128 = 0
                               ELSE IsFirstOf(call.dev)]
          /\ pc' = "idle"
          /\ UNCHANGED <<world, config, search, counter, call, geo, bounds>>
       \/ /\ call.op = "get" /\ ~(call.all /\ BadGeometry(Answered(call.dev)))
          /\ geo' = [dev |-> call.dev, all |-> call.all, found |-> Answered(call.dev)]
          /\ pc' = "idle"
          /\ UNCHANGED <<world, config, search, counter, call, first, bounds>>
       \/ call.op = "get" /\ call.all /\ BadGeometry(Answered(call.dev)) /\ Leave("died")

Exit == pc = "idle" /\ Leave("exited")

\* Somebody else makes, replaces or removes a node.
NodeChanges(c) ==
    /\ pc = "idle" /\ changes < MaxChanges
    /\ others' = [others EXCEPT ![c.name] = c.number]
    /\ nodes' = [nodes EXCEPT ![c.name] = c.number]
    /\ changes' = changes + 1
    /\ UNCHANGED <<present, config, cache, temps, frames, counter, pc, call, answers, calls>>

Next ==
    \/ \E s \in Sections : do_disk(s)
    \/ \E d \in Devices, start \in Starts : do_partition(d, start)
    \/ \E lines \in DiskTabs : geo_init(lines)
    \/ \E d \in Devices : is_first(d) \/ geo_open(d) \/ geo_open_boot(d)
    \/ lookup_dev \/ scan_dir \/ MakeNode \/ RegisterNode \/ OpenNode
    \/ StartCount \/ CountDisk \/ QueryDevice \/ Answer
    \/ Fail \/ Exit
    \/ \E c \in Changes : NodeChanges(c)

Spec == Init /\ [][Next]_vars

-----------------------------------------------------------------------------
\* Whatever was opened within whatever else, and wherever it ended: between the
\* questions and after the run /dev and /tmp hold what others put there, except
\* for a node made just before the end and not registered yet.
NodesAsFound ==
    [][pc' \in {"idle", "exited", "died"} /\ ~At("made") => nodes' = others']_vars

\* A device that is open is the one that was asked for: neither the customary
\* names, nor what an earlier search has found, are taken for granted.
OpensTheDevice ==
    \A i \in DOMAIN frames : frames[i].phase = "opened" => nodes[frames[i].name] = frames[i].dev

\* "Warning: ... is not on the first disk" agrees with the drive number that the
\* boot sector gets, with and without DISK sections and whatever IDE disks
\* there are.  Only of Compaq's arrays, and of other drivers without a case of
\* their own, nothing is said as long as no DISK section gives the number: there
\* is_first always says yes, and geo_query_dev counts a Compaq disk behind the
\* IDE disks.
IsFirstAgrees ==
    /\ first.dev = geo.dev /\ first.dev # NoDevice
    /\ Decided(first.dev) \/ Walk(first.dev).bios # Unset
    => (first.yes <=> geo.found.bios % 128 = 0)

\* A DISK section holds for the disk and the partitions that it names and, but for
\* the start, for those of the disk that no section names, whatever the order of
\* sections and partitions.
InheritsFromItsDisk ==
    geo.dev # NoDevice /\ ~old_disktab /\ (geo.dev.major = "fd" => geo.all) =>
        LET d == geo.dev
            Parts(s, e) == {p \in Range(s.parts) : p.device = e}
            Naming(e) == {s \in Range(sections) : s.disk.device = e \/ Parts(s, e) # {}}
            of == IF Naming(d) # {} THEN Naming(d) ELSE Naming(Whole(d))
            starts == {p.start : p \in UNION {Parts(s, d) : s \in of}}
        IN  /\ \A s \in of :
                /\ Whole(s.disk.device) = Whole(d) /\ ~s.disk.inaccessible
                /\ geo.found.heads = Given(s.disk.heads, Kernel[d].heads)
                /\ geo.found.sectors = Given(s.disk.sectors, Kernel[d].sectors)
                /\ s.disk.bios # Unset => geo.found.bios = s.disk.bios
                /\ s.disk.cylinders # Unset => geo.found.cylinders = s.disk.cylinders
            /\ of = {} => geo.found.heads = Kernel[d].heads
            /\ geo.found.start = IF starts \ {Unset} # {} THEN CHOOSE s \in starts : TRUE
                                 ELSE IF \E s \in of : s.disk.device = d THEN 0
                                 ELSE Kernel[d].start
=============================================================================
