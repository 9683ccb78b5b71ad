------------------------------- MODULE DiskTab -------------------------------
(***************************************************************************)
(* The list of disks in geometry.c: what the DISK sections, the disktab    *)
(* file and, for an array, main put on it, and what geo_get makes of an    *)
(* entry and of the kernel's own answer.                                   *)
(*                                                                         *)
(* A device is a driver ("fd", "hd", "ide2" for the other IDE drivers,     *)
(* "sd", "ida", "md", "other"), a disk and a partition, 0 for the whole    *)
(* disk.                                                                   *)
(***************************************************************************)
EXTENDS Integers, SequencesExt

VARIABLES
    disktab,            \* the list, the entry added last first
    old_disktab         \* some of it is from the disktab file

diskTab == <<disktab, old_disktab>>

Unset == -1
NoDevice == [major |-> "none", disk |-> 0, part |-> 0]
Whole(d) == [d EXCEPT !.part = 0]

Known(d) == \E i \in DOMAIN disktab : disktab[i].device = d

-----------------------------------------------------------------------------
(* Sections and lines.                                                     *)

\* Compaq's arrays have partitions, but not here.
has_partitions(d) == d.major \in {"hd", "ide2", "sd"}

\* do_disk refuses partitions, one of SECTORS and HEADS, variables of an
\* inaccessible disk, and a second section for it.
Refused(s) ==
    \/ s.device.part # 0 /\ has_partitions(s.device)
    \/ (s.heads = Unset) # (s.sectors = Unset)
    \/ s.inaccessible /\ {s.bios, s.heads, s.cylinders} # {Unset}
    \/ Known(s.device)

Entry(s) ==
    [device |-> s.device, bios |-> s.bios, heads |-> IF s.inaccessible THEN 0 ELSE s.heads,
     sectors |-> s.sectors, cylinders |-> s.cylinders, start |-> 0]

\* A partition takes over what the head of the list has, but for its start.
RefusedPart(d) == Whole(d) # Whole(disktab[1].device) \/ Known(d)
PartEntry(d, start) == [disktab[1] EXCEPT !.device = d, !.start = start]

\* A file of lines is refused if there is a list already; each line goes in front
\* of the one before it.
RefusedLines(lines) == lines # <<>> /\ disktab # <<>>
LoadLines(lines) == disktab' = Reverse(lines) \o disktab /\ old_disktab' = (old_disktab \/ lines # <<>>)

-----------------------------------------------------------------------------
(* Questions.                                                              *)

Found(d) ==
    LET exact == {i \in DOMAIN disktab : disktab[i].device = d}
    IN  IF exact # {} \/ old_disktab THEN exact
        ELSE {i \in DOMAIN disktab : disktab[i].device = Whole(d)}

NoEntry ==
    [device |-> NoDevice, bios |-> Unset, heads |-> Unset, sectors |-> Unset,
     cylinders |-> Unset, start |-> Unset]

\* The entry for the device or else, without a disktab file, for its disk.
Walk(d) == IF Found(d) = {} THEN NoEntry ELSE disktab[Min(Found(d))]

Inherited(d) == ~Known(d) /\ ~old_disktab
Inaccessible(d) == Walk(d).heads = 0

\* The kernel is asked, whatever it is that the entry leaves open.
keep_cyls(d) ==
    LET walk == Walk(d)
    IN  Unset \in {walk.bios, walk.heads, walk.sectors, walk.start} \/ Inherited(d)

Given(value, default) == IF value # Unset THEN value ELSE default

\* Mutant of StartOf: a partition takes the start of its disk.
StartOfDisk(d, reported) == Given(Walk(d).start, reported.start)

StartOf(d, reported) ==
    IF Inherited(d) THEN reported.start ELSE Given(Walk(d).start, reported.start)

\* What geo_get makes of the entry and of what the kernel reports.
Merged(d, reported) ==
    LET walk == Walk(d)
    IN  [bios |-> Given(walk.bios, reported.bios),
         heads |-> Given(walk.heads, reported.heads),
         sectors |-> Given(walk.sectors, reported.sectors),
         cylinders |-> IF keep_cyls(d) THEN Given(walk.cylinders, reported.cylinders)
                       ELSE walk.cylinders,
         start |-> StartOf(d, reported)]

BadGeometry(g) == 0 \in {g.heads, g.sectors, g.cylinders} \/ g.heads > 256 \/ g.sectors > 63
=============================================================================
