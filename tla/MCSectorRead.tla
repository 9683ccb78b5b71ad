---------------------------- MODULE MCSectorRead ----------------------------
(* Disks of up to twelve sectors behind BIOSes of different geometries, one  *)
(* with extended calls and one with as many heads as a byte cannot count.    *)
EXTENDS SectorRead

Bios(heads, spt, cyls, edd) == [heads |-> heads, spt |-> spt, cyls |-> cyls, edd |-> edd]

MCBioses ==
    {Bios(2, 2, 3, FALSE), Bios(2, 3, 2, FALSE), Bios(1, 2, 3, FALSE), Bios(4, 1, 3, FALSE),
     Bios(2, 2, 2, TRUE)}

MCLists ==
    [form : Forms, at : {<<1>>, <<5, 4, 8>>, <<0, 1, 11>>}]

MCRequests ==
    [op : {"read"}, form : Forms, at : {0, 1, 3, 7}, count : {1, 2, 4}]
      \cup [op : {"write"}, form : Forms, at : {2}, count : {1}]
=============================================================================
