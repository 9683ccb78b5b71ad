------------------------------ MODULE MCDevices ------------------------------
(* IDE disks, a SCSI disk with two partitions, an array and two floppies;    *)
(* names that are customary and right, wrong or missing; sections in every   *)
(* order.                                                                    *)
EXTENDS Devices

Dev(major, disk, part) == [major |-> major, disk |-> disk, part |-> part]
MCDevices == {Dev("fd", 0, 0), Dev("fd", 0, 1), Hd(0), Hd(1), Dev("sd", 0, 0), Dev("sd", 0, 1), Dev("sd", 0, 2),
               Dev("ida", 0, 0)}

Geometry(heads, sectors, cylinders, start) ==
    [heads |-> heads, sectors |-> sectors, cylinders |-> cylinders, start |-> start]
MCKernel ==
    [d \in MCDevices |->
        IF d.major = "sd" THEN Geometry(64, 32, 600, 100 * d.part) ELSE Geometry(16, 17, 900, 0)]

MCTmpDev == <<"/tmp/dev.0", "/tmp/dev.1">>
MCUsual == <<[name |-> "/dev/hda", number |-> Hd(0)]>>

Table(hda, other, tmp) ==
    [n \in {"/dev/hda", "/dev/other"} \cup Range(MCTmpDev) |->
        CASE n = "/dev/hda" -> hda
          [] n = "/dev/other" -> other
          [] n = "/tmp/dev.0" -> tmp
          [] n = "/tmp/dev.1" -> NoDevice]
MCNodeTables ==
    {Table(Hd(0), Dev("sd", 0, 1), NoDevice), Table(Hd(1), Hd(0), NoDevice),
     Table(NoDevice, Dev("sd", 0, 0), Hd(0))}

Section(device, bios, heads, sectors, cylinders, inaccessible) ==
    [device |-> device, bios |-> bios, heads |-> heads, sectors |-> sectors,
     cylinders |-> cylinders, inaccessible |-> inaccessible]
MCSections ==
    {Section(Dev("sd", 0, 0), 128, 8, 8, Unset, FALSE),
     Section(Dev("fd", 0, 1), 128, Unset, Unset, 700, FALSE),
     Section(Hd(0), Unset, Unset, Unset, Unset, TRUE),
     Section(Dev("sd", 0, 1), 128, Unset, Unset, Unset, FALSE)}
MCChanges ==
    {[name |-> "/dev/hda", number |-> NoDevice], [name |-> "/dev/other", number |-> Hd(0)]}
MCStarts == {Unset, 40}

Line(device, bios, start) ==
    [device |-> device, bios |-> bios, heads |-> 4, sectors |-> 9, cylinders |-> 40,
     start |-> start]
MCDiskTabs ==
    {<<>>, <<Line(Dev("sd", 0, 0), 130, 0), Line(Dev("sd", 0, 1), 128, Unset)>>}
=============================================================================
