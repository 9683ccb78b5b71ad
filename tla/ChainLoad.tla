------------------------------ MODULE ChainLoad ------------------------------
(***************************************************************************)
(* Partition tables on their way from the configuration file to a foreign  *)
(* operating system: CHANGE-RULES, CHANGE and MAP-DRIVE (partition.c,      *)
(* do_map_drive), the check and repair of an entry by part_verify, the     *)
(* table that boot_other merges into the chain loader, and chain.S, which  *)
(* rewrites the tables on the disks through a cache of one sector before   *)
(* it starts the other system.                                             *)
(*                                                                         *)
(* Disks are named by their BIOS numbers.  Of an entry the model keeps the *)
(* active flag, the type, and whether its 3D and linear addresses differ.  *)
(* The master boot record is its partition table; a run of the installer   *)
(* has one OTHER section, and its failures lie between system calls.       *)
(***************************************************************************)
EXTENDS Integers, SequencesExt

CONSTANTS
    Disks, Parts,       \* BIOS numbers; numbers of primary partitions
    Tables,             \* partition tables of all disks before the run
    Options,            \* FIX-TABLE, IGNORE-TABLE, -t, -w and BOOT
    TypeLines,          \* TYPE subsections of CHANGE-RULES
    Changes,            \* PARTITION subsections of CHANGE
    MapLines,           \* MAP-DRIVE lines
    Others,             \* what OTHER boots
    PrtmapSize, DrvmapSize,     \* PRTMAP_SIZE, DRVMAP_SIZE
    MaxBoots            \* bound: starts of the chain loader

Absent == -1
Bytes == 0 .. 255
Entry == [act : Bytes, type : Bytes, skewed : BOOLEAN]
Table == [Parts -> Entry]
Places == [disk : Disks, part : Parts, field : {"act", "type"}]
Maps == [from : Bytes, to : Bytes]

\* A partition, or with part 0 a whole disk or a floppy.
Devices == [disk : Disks \cup {0}, part : Parts \cup {0}]

ASSUME ChainAssumption ==
    /\ Disks \subseteq 1 .. 255 /\ 1 \in Parts /\ Parts \subseteq 1 .. 4
    /\ Tables \subseteq [Disks -> Table]
    /\ \A o \in Options :
        /\ {o.fix, o.ignore, o.test, o.nowarn} \subseteq BOOLEAN
        /\ o.boot \in Devices /\ o.boot.disk \in Disks
    /\ \A o \in Others :
        o.dev \in Devices /\ (o.dev.disk = 0 => o.dev.part = 0) /\ o.unsafe \in BOOLEAN
    /\ \A l \in TypeLines : {l.normal, l.hidden} \subseteq Bytes \cup {Absent}
    /\ \A c \in Changes :
        /\ c.dev.disk \in Disks /\ c.dev.part \in Parts
        /\ {c.hide, c.activate, c.deactivate} \subseteq BOOLEAN
    /\ MapLines \subseteq Maps
    /\ PrtmapSize \in Nat /\ DrvmapSize \in Nat /\ MaxBoots \in Nat

VARIABLES
    tables,         \* the partition tables on the disks
    backups,        \* /boot/part.NNNN of each disk, or NoTable
    opts,           \* the options of the run
    change_rules, prt_map, drv_map,     \* the lists of those names
    bsect,          \* the boot sector of a whole disk, as open_bsect read it
    other,          \* the device OTHER names
    preload,        \* the partition table in the chain loader in the map file
    pc,             \* where the installer, or the chain loader, is
    low, scratch,   \* the sectors at PARTS_LOAD and PARTS_SCR
    cache, dirty,   \* the drive whose sector is loaded, 0 if none
    ip,             \* the next rule
    boots,          \* starts of the chain loader
    before,         \* history: the tables before the first, torn pass
    torn,           \* history: the pass before this one did not end
    changes         \* history: the places this pass has changed

lists == <<change_rules, prt_map, drv_map>>
installer == <<backups, opts, lists, bsect, other, preload>>
memory == <<low, scratch, cache, dirty, ip>>
history == <<boots, before, torn, changes>>
vars == <<tables, installer, pc, memory, history>>

NoEntry == [act |-> 0, type |-> 0, skewed |-> FALSE]
NoTable == [p \in Parts |-> NoEntry]

\* preload_types, as it is: DOS16_big shares the hidden value of DOS16_small.
PreloadedTypes ==
    {[name |-> "DOS12", normal |-> 1, hidden |-> 17],
     [name |-> "DOS16_small", normal |-> 4, hidden |-> 20],
     [name |-> "DOS16_big", normal |-> 6, hidden |-> 20]}

Init ==
    /\ tables \in Tables /\ opts \in Options
    /\ backups = [d \in Disks |-> NoTable]
    /\ change_rules = PreloadedTypes
    /\ prt_map = <<>> /\ drv_map = <<>>
    /\ bsect = NoTable /\ preload = NoTable
    /\ other = [disk |-> 0, part |-> 0]
    /\ pc = "options"
    /\ low = NoTable /\ scratch = NoTable /\ cache = 0 /\ dirty = FALSE /\ ip = 1
    /\ boots = 0 /\ before = tables /\ torn = FALSE /\ changes = <<>>

Die == pc' = "died"

-----------------------------------------------------------------------------
(* The options section.                                                    *)

\* value ^ HIDDEN_OFF
Flip(b) == IF (b \div 16) % 2 = 1 THEN b - 16 ELSE b + 16

\* do_cr_type and add_type: the value that is present comes first.
TypeOf(l) ==
    LET first == IF l.normal = Absent THEN l.hidden ELSE l.normal
        second == IF l.normal = Absent \/ l.hidden = Absent THEN Flip(first) ELSE l.hidden
    IN  [name |-> l.name, normal |-> first, hidden |-> second]

DoType(l) ==
    /\ pc = "options"
    /\ \/ /\ l.normal # Absent \/ l.hidden # Absent
          /\ \A t \in change_rules : t.name # l.name
          /\ change_rules' = change_rules \cup {TypeOf(l)}
          /\ UNCHANGED pc
       \/ /\ \/ l.normal = Absent /\ l.hidden = Absent
             \/ \E t \in change_rules : t.name = l.name
          /\ Die
          /\ UNCHANGED change_rules
    /\ UNCHANGED <<tables, backups, opts, prt_map, drv_map, bsect, other, preload,
                   memory, history>>

DoReset ==
    /\ pc = "options"
    /\ change_rules' = {}
    /\ UNCHANGED <<tables, backups, opts, prt_map, drv_map, bsect, other, preload, pc,
                   memory, history>>

-----------------------------------------------------------------------------
(* part_verify.                                                            *)

\* Mutant of Adjusts: -t repairs the disk, too.
AdjustsInTest == opts.fix /\ ~opts.ignore

\* "The partition table is *NOT* being adjusted."
Adjusts == opts.fix /\ ~opts.ignore /\ ~opts.test

\* The 3D address of a partition is compared with the linear one; the memory
\* copy is corrected first, then saved to the backup, then written.
Verify(dev, next) ==
    IF dev.part = 0 \/ opts.nowarn THEN pc' = next /\ UNCHANGED <<tables, backups>>
    ELSE IF ~tables[dev.disk][dev.part].skewed
    THEN pc' = next /\ UNCHANGED <<tables, backups>>
    ELSE IF ~Adjusts
    THEN /\ pc' = IF opts.fix \/ opts.ignore THEN next ELSE "died"
         /\ UNCHANGED <<tables, backups>>
    ELSE LET table == [tables[dev.disk] EXCEPT ![dev.part].skewed = FALSE]
             saved == [backups EXCEPT ![dev.disk] = table]
         IN  \/ /\ backups' = saved
                /\ tables' = [tables EXCEPT ![dev.disk] = table]
                /\ pc' = next
             \/ /\ backups' \in {backups, saved}
                /\ Die
                /\ UNCHANGED tables

\* bsect_open: open_bsect reads the whole sector, then the partition is verified.
OpenBoot ==
    /\ pc = "options"
    /\ bsect' = IF opts.boot.part = 0 THEN tables[opts.boot.disk] ELSE NoTable
    /\ Verify(opts.boot, "other")
    /\ UNCHANGED <<opts, lists, other, preload, memory, history>>

-----------------------------------------------------------------------------
(* The OTHER section.                                                      *)

\* Mutant of Ambiguous: only identical lines are refused.
AmbiguousNever(m) == m \in Range(drv_map)

\* A drive is mapped once, or the list is searched in vain for the second.
Ambiguous(m) == \E i \in DOMAIN drv_map : drv_map[i].from = m.from

\* do_map_drive; 0 -> 0 is left out of the list, where it would end it.
DoMapDrive(m) ==
    /\ pc = "other"
    /\ LET skipped == m.from = 0 /\ m.to = 0
           refused == Ambiguous(m) \/ Len(drv_map) = DrvmapSize
       IN  /\ drv_map' = IF skipped \/ refused THEN drv_map ELSE Append(drv_map, m)
           /\ IF refused /\ ~skipped THEN Die ELSE UNCHANGED pc
    /\ UNCHANGED <<tables, backups, opts, change_rules, prt_map, bsect, other, preload,
                   memory, history>>

\* Mutant of Redundant: only repeated rules are refused.
RedundantRepeated(map, r) == r \in Range(map)

\* A rule that repeats one before it, or changes its result further.
Redundant(map, r) ==
    \E i \in DOMAIN map : map[i] = r \/ (map[i].at = r.at /\ map[i].set = r.expect)

Full(map) == Len(map) = PrtmapSize

\* do_cr_part: SET, ACTIVATE and DEACTIVATE become rules in this order.
RulesOf(c) ==
    LET at(f) == [disk |-> c.dev.disk, part |-> c.dev.part, field |-> f]
        t == CHOOSE t \in change_rules : t.name = c.type
        set == IF c.type = "" THEN <<>>
               ELSE IF c.hide THEN <<[at |-> at("type"), expect |-> t.normal, set |-> t.hidden]>>
               ELSE <<[at |-> at("type"), expect |-> t.hidden, set |-> t.normal]>>
        on == IF c.activate THEN <<[at |-> at("act"), expect |-> 0, set |-> 128]>> ELSE <<>>
        off == IF c.deactivate THEN <<[at |-> at("act"), expect |-> 128, set |-> 0]>> ELSE <<>>
    IN  set \o on \o off

\* All rules of a subsection go to the list, or the run ends.
Accepted(c) ==
    /\ c.type = "" \/ \E t \in change_rules : t.name = c.type
    /\ ~(c.activate /\ c.deactivate)
    /\ LET new == RulesOf(c)
       IN  \A k \in DOMAIN new :
             LET map == prt_map \o SubSeq(new, 1, k - 1)
             IN  ~Full(map) /\ ~Redundant(map, new[k])

DoPart(c) ==
    /\ pc = "other"
    /\ \/ /\ Accepted(c)
          /\ prt_map' = prt_map \o RulesOf(c)
          /\ UNCHANGED pc
       \/ /\ ~Accepted(c)
          /\ Die
          /\ UNCHANGED prt_map
    /\ UNCHANGED <<tables, backups, opts, change_rules, drv_map, bsect, other, preload,
                   memory, history>>

\* boot_other, first part: a partition of a hard disk has TABLE by default,
\* which UNSAFE excludes; without UNSAFE the entry is verified.
BootOther(o) ==
    /\ pc = "other"
    /\ other' = o.dev
    /\ IF o.unsafe
       THEN /\ pc' = IF o.dev.part = 0 THEN "merge" ELSE "died"
            /\ UNCHANGED <<tables, backups>>
       ELSE Verify(o.dev, "merge")
    /\ UNCHANGED <<opts, lists, bsect, preload, memory, history>>

\* The table that goes with the chain loader: the entry to boot is active, the
\* others are invalid unless DOS may look for them.  Without TABLE the first
\* entry only names the drive.
Merged ==
    IF other.part = 0 THEN [NoTable EXCEPT ![1].act = other.disk]
    ELSE [p \in Parts |->
            LET e == tables[other.disk][p]
            IN  IF p = other.part THEN [e EXCEPT !.act = 128]
                ELSE IF e.type \in {1, 4, 6} THEN e ELSE [e EXCEPT !.type = 98]]

\* boot_other, second part; "Partition entry not found."
Merge ==
    /\ pc = "merge"
    /\ IF other.part # 0 /\ tables[other.disk][other.part].type = 0
       THEN Die /\ UNCHANGED preload
       ELSE pc' = "update" /\ preload' = Merged
    /\ UNCHANGED <<tables, backups, opts, lists, bsect, other, memory, history>>

\* bsect_update writes the sector that open_bsect read, partition table and
\* all; bsect_cancel does not.
Update ==
    /\ pc = "update"
    /\ pc' = IF opts.test THEN "tested" ELSE "installed"
    /\ tables' = IF opts.test \/ opts.boot.part # 0 THEN tables
                 ELSE [tables EXCEPT ![opts.boot.disk] = bsect]
    /\ UNCHANGED <<installer, memory, history>>

-----------------------------------------------------------------------------
(* chain.S.                                                                *)

\* LILO loads the chain loader with its tables, fresh from the map file.
Start ==
    /\ pc = "installed" /\ boots < MaxBoots
    /\ pc' = "rules" /\ boots' = boots + 1
    /\ low' = preload /\ scratch' = NoTable
    /\ cache' = 0 /\ dirty' = FALSE /\ ip' = 1
    /\ before' = IF torn THEN before ELSE tables
    /\ changes' = <<>>
    /\ UNCHANGED <<tables, installer, torn>>

\* A BIOS call failed ("Rewrite error."), or the power: LILO starts again.
GiveUp == pc' = "installed" /\ torn' = TRUE

Rule == prt_map[ip]
InLow(drive) == drive = other.disk
Buffer == IF InLow(cache) THEN low ELSE scratch

\* Mutant of Flushes: the sector is written at the end only.
FlushesAtEnd == dirty /\ cache # 0 /\ ip > Len(prt_map)

\* dirty is never cleared: once set, every sector that follows is written.
Flushes == dirty /\ cache # 0

\* flush; a write that fails has changed the sector or not.
Flush(next) ==
    IF Flushes
    THEN LET written == [tables EXCEPT ![cache] = Buffer]
         IN  \/ tables' = written /\ pc' = next /\ UNCHANGED torn
             \/ tables' \in {tables, written} /\ GiveUp
    ELSE pc' = next /\ UNCHANGED <<tables, torn>>

\* The rule is for another drive than the cached one.
Miss ==
    /\ pc = "rules" /\ ip <= Len(prt_map) /\ Rule.at.disk # cache
    /\ Flush("load")
    /\ UNCHANGED <<installer, memory, boots, before, changes>>

\* Mutant of LoadsLow: the sector of the boot drive goes to the scratch area.
LoadsLowNever(drive) == FALSE

\* The table of the boot drive is loaded where the other system looks for it.
LoadsLow(drive) == InLow(drive)

Load ==
    /\ pc = "load"
    /\ \/ /\ cache' = Rule.at.disk
          /\ IF LoadsLow(Rule.at.disk)
             THEN low' = tables[Rule.at.disk] /\ UNCHANGED scratch
             ELSE scratch' = tables[Rule.at.disk] /\ UNCHANGED low
          /\ pc' = "rules"
          /\ UNCHANGED torn
       \/ GiveUp /\ UNCHANGED <<low, scratch, cache>>
    /\ UNCHANGED <<tables, installer, dirty, ip, boots, before, changes>>

\* A rule changes the byte it names if it finds the value it expects.
Changed(table, r) ==
    IF table[r.at.part][r.at.field] = r.expect
    THEN [table EXCEPT ![r.at.part][r.at.field] = r.set] ELSE table

Hit ==
    /\ pc = "rules" /\ ip <= Len(prt_map) /\ Rule.at.disk = cache
    /\ LET new == Changed(Buffer, Rule)
           match == Buffer[Rule.at.part][Rule.at.field] = Rule.expect
       IN  /\ IF InLow(cache) THEN low' = new /\ UNCHANGED scratch
              ELSE scratch' = new /\ UNCHANGED low
           /\ dirty' = (dirty \/ match)
           /\ changes' = IF match THEN Append(changes, Rule.at) ELSE changes
    /\ ip' = ip + 1
    /\ UNCHANGED <<tables, installer, pc, cache, boots, before, torn>>

EndOfRules ==
    /\ pc = "rules" /\ ip > Len(prt_map)
    /\ Flush("go")
    /\ UNCHANGED <<installer, memory, boots, before, changes>>

\* Which entry SI points to: `offset` of the chain loader.
BootEntry == IF other.part = 0 THEN 1 ELSE other.part

\* swap13 installs drv_map, the drive goes into the entry, the system starts.
Jump ==
    /\ pc = "go"
    /\ low' = [low EXCEPT ![BootEntry].act = other.disk]
    /\ pc' = "started"
    /\ UNCHANGED <<tables, installer, scratch, cache, dirty, ip, history>>

PowerOff ==
    /\ pc \in {"rules", "load", "go", "started"}
    /\ pc' = "installed"
    /\ torn' = (pc # "started")
    /\ UNCHANGED <<tables, installer, memory, boots, before, changes>>

\* new13: the drive that a BIOS call of the other system reaches.
Mapped(drive) ==
    LET from == {i \in DOMAIN drv_map : drv_map[i].from = drive}
    IN  IF from = {} THEN drive ELSE drv_map[Min(from)].to

Installer ==
    \/ \E l \in TypeLines : DoType(l)
    \/ DoReset \/ OpenBoot
    \/ \E m \in MapLines : DoMapDrive(m)
    \/ \E c \in Changes : DoPart(c)
    \/ \E o \in Others : BootOther(o)
    \/ Merge \/ Update

Loader == Start \/ Miss \/ Load \/ Hit \/ EndOfRules \/ Jump \/ PowerOff

Next == Installer \/ Loader

Spec == Init /\ [][Next]_vars

-----------------------------------------------------------------------------
\* Some rule expects what another one stores, in whatever order they come.
Chained ==
    \E i, j \in DOMAIN prt_map :
        prt_map[i].at = prt_map[j].at /\ prt_map[i].set = prt_map[j].expect

\* What the README says the rules do, without a cache: one after the other,
\* each where it finds the previous value.
Applied(disks, r) == [disks EXCEPT ![r.at.disk] = Changed(@, r)]

After[n \in 0 .. Len(prt_map)] ==
    IF n = 0 THEN before ELSE Applied(After[n - 1], prt_map[n])

InSequence == After[Len(prt_map)]

\* "Changes are applied in the sequence in which they appear": when the other
\* system starts, every table on every disk is what the rules make of it, on
\* whatever disks they alternate, and even if passes before this one were cut
\* short by a read error, a write error or the power (then for rules that do
\* not undo each other).
RulesInSequence ==
    pc = "started" /\ (~torn \/ ~Chained) => tables = InSequence

\* "Configurations containing changes that are redundant, either by repeating a
\* previous change or by changing its result further, are refused": one pass of
\* the chain loader never changes a byte twice.
ChangedOnce == IsInjective(changes)

\* A system booted from a disk that a rule names finds in memory the table that
\* is on that disk, but for the drive number in the entry it was booted from.
HandedTable ==
    pc = "started" /\ (\E i \in DOMAIN prt_map : prt_map[i].at.disk = other.disk) =>
        low = [tables[other.disk] EXCEPT ![BootEntry].act = other.disk]

\* Every MAP-DRIVE line that was accepted takes effect, and lines that only
\* exchange drives leave every drive within reach.
DrivesAsConfigured ==
    /\ \A m \in Range(drv_map) : Mapped(m.from) = m.to
    /\ {m.from : m \in Range(drv_map)} = {m.to : m \in Range(drv_map)}
         => \A d \in Disks : \E e \in Bytes : Mapped(e) = d

Installing == pc \in {"options", "other", "merge", "update"}

\* "-t ... except ... fixing partition tables", and IGNORE-TABLE: unless it is to
\* repair them, a run of the installer leaves all partition tables as they are,
\* also where it writes a whole boot sector.
TablesUntouched ==
    [][Installing /\ (opts.test \/ opts.ignore \/ ~opts.fix) => UNCHANGED tables]_vars
=============================================================================
