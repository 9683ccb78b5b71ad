--------------------------- MODULE MCMapSections ---------------------------
(* Two hard disks and a floppy, numbers with two high parts.               *)
EXTENDS MapSections

MCSectors ==
    [dev : {"hda"}, at : 0 .. 3] \cup [dev : {"hdb"}, at : {1}] \cup [dev : {"fd0"}, at : {0}]
=============================================================================
