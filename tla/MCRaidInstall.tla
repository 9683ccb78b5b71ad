---------------------------- MODULE MCRaidInstall ----------------------------
(* Four disks in arrays with faulty and empty slots, or no array; names of  *)
(* two letters, short and long, two sections and three slots of the table.   *)
EXTENDS RaidInstall

MCFallbacks == {NoName, [letter |-> "l", rest |-> "inux"]}

Member(major, disk) == [major |-> major, disk |-> disk, part |-> 1]
A == Member("hd", 0)
B == Member("hd", 1)
C == Member("sd", 0)
D == Member("sd", 1)
MCMembers == {A, B, C, D}

\* C is laid out differently.
MCKernel ==
    [m \in MCMembers |->
        [heads |-> IF m = C THEN 64 ELSE 16, sectors |-> 32, cylinders |-> 600,
         start |-> IF m = C THEN 100 ELSE 63]]
\* The node of D was found under another name.
MCNodeNames == [m \in MCMembers |-> IF m = D THEN NoDevice ELSE Whole(m)]

Good(d) == [device |-> d, faulty |-> FALSE]
Bad(d) == [device |-> d, faulty |-> TRUE]
Empty(f) == [device |-> NoDevice, faulty |-> f]
ArrayOf(slots) ==
    [slots |-> slots, nr_disks |-> Cardinality({i \in DOMAIN slots : slots[i].device # NoDevice}),
     fit |-> TRUE]
MCArrays ==
    {NoArray, ArrayOf(<<Good(A), Good(B)>>), ArrayOf(<<Bad(B), Good(A)>>),
     ArrayOf(<<Empty(TRUE), Good(B), Good(A)>>), ArrayOf(<<Empty(FALSE), Good(A), Good(B)>>),
     ArrayOf(<<Good(B), Bad(A), Good(C)>>), ArrayOf(<<Good(A), Good(D)>>),
     [ArrayOf(<<Good(A)>>) EXCEPT !.fit = FALSE]}

Section(device, bios) ==
    [device |-> device, bios |-> bios, heads |-> 8, sectors |-> 8, cylinders |-> Unset,
     inaccessible |-> FALSE]
Line == [device |-> A, bios |-> 129, heads |-> 4, sectors |-> 9, cylinders |-> 40, start |-> 0]

One == [alias |-> NoName, label |-> [letter |-> "k", rest |-> ""], single |-> FALSE,
        lock |-> FALSE, fallback |-> NoName]
Pair == ArrayOf(<<Good(A), Good(B)>>)

\* All tables, on one disk and on two; all arrays and options with one image.
Tables(arrays) ==
    [sections |-> <<>>, lines |-> <<>>, types |-> FALSE, images |-> Sections,
     arrays |-> arrays, jobs |-> {"install"}, runs |-> 1]
Plain ==
    [sections |-> <<>>, lines |-> <<>>, types |-> FALSE, images |-> {One},
     arrays |-> MCArrays \ {NoArray}, jobs |-> {"install", "test", "once"}, runs |-> 3]
MCSetups ==
    [disk |-> Tables({NoArray}), pair |-> Tables({Pair}), arrays |-> Plain,
     sections |-> [Plain EXCEPT !.sections = <<Section(Whole(A), 129)>>],
     disktab |-> [Plain EXCEPT !.lines = <<Line>>],
     rules |-> [Plain EXCEPT !.types = TRUE]]
=============================================================================
