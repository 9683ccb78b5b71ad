----------------------------- MODULE MapSections -----------------------------
(***************************************************************************)
(* One section of LILO's map file: how the map installer lists the         *)
(* sectors of a file (map_add), merges adjacent ones into one read         *)
(* (map_compact), packs the list into chained pages (map_end_section),     *)
(* checks its size, and how the second stage loader reads it back (load    *)
(* and cread of second.S) to where it belongs in memory: the boot sector   *)
(* and the setup of a kernel apart, its rest below 640 kB or, as RAM disks,*)
(* by way of a buffer above 1 MB.                                          *)
(*                                                                         *)
(* A sector is [dev, at], its disk and its linear number.  An address as   *)
(* geo_comp_addr makes it keeps the low part of that number and, in the    *)
(* byte num, either a count of sectors or, marked nocount, the high part   *)
(* of a 32 bit number, which then holds for the addresses that follow.     *)
(***************************************************************************)
EXTENDS Integers, SequencesExt

CONSTANTS
    Disks, Floppies,    \* devices with and without bit 0x80
    Sectors,            \* the sectors of the files that are mapped
    Modes,              \* "lba32", "linear" (LINEAR) or "chs" (neither)
    Base,               \* numbers per high part: 2^24, or sectors per track
    Kinds,              \* "low" and "high" kernels, "ramdisk"
    SetupSecs,          \* sectors of the setup of a kernel
    Segment,            \* sectors in 64 kB
    PageEntries,        \* addresses in a page of the map, without its link: 101
    Limit,              \* setup_secs + MAX_KERNEL_SECS
    MaxLen              \* bound: sectors in a section

Devices == Disks \cup Floppies
Highs == {s.at \div Base : s \in Sectors}
Header == 1 + SetupSecs     \* boot sector and setup

ASSUME MapAssumption ==
    /\ Disks \cap Floppies = {}
    /\ Sectors \subseteq [dev : Devices, at : Nat]
    /\ Modes \subseteq {"lba32", "linear", "chs"}
    /\ {SetupSecs, Base, Segment, PageEntries} \subseteq Nat \ {0}
    /\ Kinds \subseteq {"low", "high", "ramdisk"}
    /\ {Limit, MaxLen} \subseteq Nat

VARIABLES
    mode, compact,  \* LINEAR or LBA32; COMPACT
    kind,           \* what the section is loaded as, once it has ended
    file,           \* history: the sectors that were added, in order
    map,            \* the list of addresses
    pc,             \* "add", "compact", "emit", "read", "loaded", "died"
    walk, hinib,    \* map_compact: the present entry, the current high part
    offset, noffset,\* map_compact: where the run and the next sector load to
    pages,          \* the pages written, each a sequence of addresses
    sectors,        \* what map_end_section returns
    slot,           \* load: moff, as a page and an entry in it
    loaderHi,       \* second.S: hinib
    dest,           \* where the next sector goes: an area of memory, ES and BX
    memory          \* the sectors that were loaded, by their places

input == <<mode, compact, kind, file>>
compaction == <<walk, hinib, offset, noffset>>
loader == <<slot, loaderHi, dest, memory>>
vars == <<input, map, pc, compaction, pages, sectors, loader>>

Lba(d) == mode = "lba32" /\ d \in Disks
Linear(d) == mode = "linear" /\ d \in Disks

\* geo_comp_addr: disks follow the mode, floppies always have a geometry.  In
\* linear mode there is no high part (die()).
Address(s) ==
    [dev |-> s.dev, nocount |-> Lba(s.dev),
     track |-> IF Lba(s.dev) \/ Linear(s.dev) THEN 0 ELSE s.at \div Base,
     lo |-> IF Linear(s.dev) THEN s.at ELSE s.at % Base,
     num |-> IF Lba(s.dev) THEN s.at \div Base ELSE 1]

Init ==
    /\ mode \in Modes /\ compact \in BOOLEAN
    /\ file = <<>> /\ map = <<>> /\ kind = "none"
    /\ pc = "add"
    /\ walk = 1 /\ hinib = -1 /\ offset = 0 /\ noffset = 0
    /\ pages = <<>> /\ sectors = 0
    /\ slot = [page |-> 1, entry |-> 1] /\ loaderHi = 0
    /\ dest = [area |-> "init", es |-> 0, bx |-> 0] /\ memory = <<>>

-----------------------------------------------------------------------------
(* The map installer.                                                      *)

\* map_add, map_add_sector, and the zero sector of the map file for a hole: one
\* more address, of the file's device or of that of the map.
AddSector(s) ==
    /\ pc = "add" /\ Len(file) < MaxLen
    /\ Cardinality({f.dev : f \in Range(file)} \cup {s.dev}) <= 2
    /\ Linear(s.dev) => s.at < Base
    /\ file' = Append(file, s)
    /\ map' = Append(map, Address(s))
    /\ UNCHANGED <<mode, compact, kind, pc, compaction, pages, sectors, loader>>

\* dont_compact: these entries at the beginning stay alone (and so do those of
\* the two special sectors before them, which BootPrompt has).
Alone(k) == IF k = "ramdisk" THEN 1 ELSE Header

\* map_end_section; an empty section is an error ("Empty map section").
EndSection(k) ==
    /\ pc = "add"
    /\ kind' = k
    /\ pc' = IF file = <<>> THEN "died" ELSE IF compact THEN "compact" ELSE "emit"
    /\ walk' = Alone(k) + 1
    /\ UNCHANGED <<mode, compact, file, map, hinib, offset, noffset, pages, sectors, loader>>

\* A 32 bit address gives up its high part for a count if the high part is the
\* current one; "current" is that of the entry before it, or the last one kept.
CurrentHi(a) == IF a.nocount THEN a.num ELSE hinib

\* Mutant of Countable: the high part is not compared.
CountableAlways(a, b) == a.dev = b.dev /\ Lba(a.dev) /\ b.nocount

Countable(a, b) ==
    a.dev = b.dev /\ Lba(a.dev) /\ b.nocount /\ b.num = CurrentHi(a)

\* The next sector continues the run; an entry that keeps its high part has no
\* room for a count.
Continues(a, b) ==
    /\ a.dev = b.dev /\ a.track = b.track
    /\ Lba(a.dev) => ~a.nocount /\ hinib = b.num
    /\ a.lo + a.num = b.lo

\* Mutant of SameSegment: runs grow over 64 kB boundaries.
SameSegmentAlways(from, to) == TRUE

SameSegment(from, to) == from \div Segment = to \div Segment

\* maxcount: 127 sectors with LBA32, or 128.
MaxCount == IF mode = "lba32" THEN Segment - 1 ELSE Segment

Room(a) == a.num < MaxCount

\* One round of the loop of map_compact.
Compact ==
    /\ pc = "compact" /\ walk < Len(map)
    /\ LET a == map[walk]
           b == map[walk + 1]
           next == IF Countable(a, b) THEN [b EXCEPT !.nocount = FALSE, !.num = 1] ELSE b
           merge == Continues(a, b) /\ SameSegment(offset, noffset + 1) /\ Room(a)
       IN  /\ hinib' = IF a.dev = b.dev /\ Lba(a.dev) THEN CurrentHi(a) ELSE hinib
           /\ noffset' = noffset + 1
           /\ IF merge
              THEN /\ map' = RemoveAt([map EXCEPT ![walk].num = @ + 1], walk + 1)
                   /\ UNCHANGED <<walk, offset>>
              ELSE /\ map' = [map EXCEPT ![walk + 1] = next]
                   /\ walk' = walk + 1 /\ offset' = noffset + 1
    /\ UNCHANGED <<input, pc, pages, sectors, loader>>

Compacted ==
    /\ pc = "compact" /\ walk >= Len(map)
    /\ pc' = "emit"
    /\ UNCHANGED <<input, map, compaction, pages, sectors, loader>>

PageFull(n) == n = PageEntries

\* The next address goes to the last page, or to a new one it is linked to.
Emit ==
    /\ pc = "emit" /\ map # <<>>
    /\ pages' = IF pages = <<>> \/ PageFull(Len(Last(pages)))
                THEN Append(pages, <<Head(map)>>)
                ELSE Front(pages) \o <<Append(Last(pages), Head(map))>>
    /\ sectors' = sectors + Head(map).num
    /\ map' = Tail(map)
    /\ UNCHANGED <<input, pc, compaction, loader>>

\* check_size of boot.c, for kernels that are loaded low.  The loader begins with
\* the high part that the read of the first page left, if any.
CheckSize ==
    /\ pc = "emit" /\ map = <<>>
    /\ pc' = IF kind = "low" /\ sectors > Limit THEN "died" ELSE "read"
    /\ loaderHi' \in IF mode = "lba32" THEN Highs ELSE {0}
    /\ UNCHANGED <<input, map, compaction, pages, sectors, slot, dest, memory>>

-----------------------------------------------------------------------------
(* The second stage loader.                                                *)

Page == pages[slot.page]

\* load saves hinib on the stack while it reads the next page.
AfterPage(hi) == hi

\* The last entry of a page is its link, unless the section ends before it.
NextPage ==
    /\ pc = "read" /\ slot.entry = PageEntries + 1 /\ slot.page < Len(pages)
    /\ slot' = [page |-> slot.page + 1, entry |-> 1]
    /\ loaderHi' = AfterPage(loaderHi)
    /\ UNCHANGED <<input, map, pc, compaction, pages, sectors, dest, memory>>

\* cread: the sectors that an address stands for.
Count(a) == IF a.nocount THEN 1 ELSE a.num
HighOf(a) == IF a.nocount THEN a.num ELSE loaderHi
Number(a) ==
    IF Lba(a.dev) THEN HighOf(a) * Base + a.lo
    ELSE IF Linear(a.dev) THEN a.lo ELSE a.track * Base + a.lo
Transfer(a) == [i \in 1 .. Count(a) |-> [dev |-> a.dev, at |-> Number(a) + i - 1]]

\* loadopt, loadfile and rdokay: the callers of load set ES:BX, or the GDT, for
\* the boot sector, for the setup and for what follows.
Entry == (slot.page - 1) * PageEntries + slot.entry
Begin(area) == [area |-> area, es |-> 0, bx |-> 0]
At == IF kind = "ramdisk" THEN (IF Entry = 1 THEN Begin("high") ELSE dest)
      ELSE IF Entry = 1 THEN Begin("init")
      ELSE IF Entry = 2 THEN Begin("setup")
      ELSE IF Entry = Header + 1 THEN Begin(IF kind = "high" THEN "high" ELSE "system")
      ELSE dest

\* rokay, and rdhigh for the GDT: a full segment moves ES, and so does the carry
\* of BX.
Advance(to, n) ==
    IF n = Segment THEN [to EXCEPT !.es = @ + 1]
    ELSE [to EXCEPT !.es = @ + (to.bx + n) \div Segment, !.bx = (@ + n) % Segment]

Place(to, i) == [area |-> to.area, at |-> to.es * Segment + to.bx + i]

\* What is read arrives at ES:BX, or in a buffer from where INT 15h moves it to
\* where the GDT points.
Stored(to, read) ==
    LET places == [i \in DOMAIN read |-> Place(to, i - 1)]
    IN  [p \in DOMAIN memory \cup Range(places) |->
            IF p \in Range(places) THEN read[CHOOSE i \in DOMAIN read : places[i] = p]
            ELSE memory[p]]

Reads == pc = "read" /\ slot.entry \in DOMAIN Page /\ slot.entry <= PageEntries

ReadEntry ==
    /\ Reads
    /\ LET a == Page[slot.entry]
       IN  /\ memory' = Stored(At, Transfer(a))
           /\ dest' = Advance(At, Count(a))
           /\ loaderHi' = IF Lba(a.dev) THEN HighOf(a) ELSE loaderHi
    /\ slot' = [slot EXCEPT !.entry = @ + 1]
    /\ UNCHANGED <<input, map, pc, compaction, pages, sectors>>

\* An entry of zeros ends the section: with the setup, when another system's
\* boot sector was loaded, or with what follows it.
Eof ==
    /\ pc = "read" /\ slot.page = Len(pages) /\ slot.entry > Len(Page)
    /\ pc' = "loaded"
    /\ UNCHANGED <<input, map, compaction, pages, sectors, loader>>

Next ==
    \/ \E s \in Sectors : AddSector(s)
    \/ \E k \in Kinds : EndSection(k)
    \/ Compact \/ Compacted \/ Emit \/ CheckSize
    \/ ReadEntry \/ NextPage \/ Eof

Spec == Init /\ [][Next]_vars

-----------------------------------------------------------------------------
\* Where the i-th sector of a file belongs.
Belongs(i) ==
    LET in(area, at) == [area |-> area, at |-> at]
    IN  IF kind = "ramdisk" THEN in("high", i - 1)
        ELSE IF i = 1 THEN in("init", 0)
        ELSE IF i <= Header THEN in("setup", i - 2)
        ELSE in(IF kind = "high" THEN "high" ELSE "system", i - Header - 1)

\* The loader reads the sectors of the file, each to its place in memory, however
\* they were merged, over whatever disks, high parts and pages they spread, and
\* at the end all of them.
LoadsTheFile ==
    /\ \A p \in DOMAIN memory : \E i \in DOMAIN file : p = Belongs(i) /\ memory[p] = file[i]
    /\ pc = "loaded" => DOMAIN memory = {Belongs(i) : i \in DOMAIN file}

\* No read crosses a 64 kB boundary of memory, which the BIOS could not do: what
\* map_compact counts as offset is what BX will be.  (What goes above 1 MB is
\* read to the beginning of a buffer, a segment at most.)
StaysInSegment ==
    Reads => (IF At.area = "high" THEN 0 ELSE At.bx) + Count(Page[slot.entry]) <= Segment
=============================================================================
