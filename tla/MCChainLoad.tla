----------------------------- MODULE MCChainLoad -----------------------------
(* Two disks with two partitions each; rules that meet on a byte, alternate  *)
(* between the disks and touch the disk that is booted.                      *)
EXTENDS ChainLoad

E(act, type, skewed) == [act |-> act, type |-> type, skewed |-> skewed]

MCTables ==
    {(128 :> (1 :> E(128, 6, TRUE) @@ 2 :> E(0, 131, FALSE))) @@
     (129 :> (1 :> E(0, b, FALSE) @@ 2 :> E(0, 0, FALSE))) : b \in {6, 20}}

Dev(disk, part) == [disk |-> disk, part |-> part]
Run(fix, ignore, test, nowarn, boot) ==
    [fix |-> fix, ignore |-> ignore, test |-> test, nowarn |-> nowarn, boot |-> boot]

MCOptions ==
    {Run(TRUE, FALSE, FALSE, FALSE, Dev(128, 0)), Run(TRUE, FALSE, TRUE, FALSE, Dev(128, 1)),
     Run(FALSE, TRUE, FALSE, FALSE, Dev(128, 1)), Run(FALSE, FALSE, FALSE, TRUE, Dev(128, 2)),
     Run(TRUE, FALSE, FALSE, FALSE, Dev(128, 1))}

MCTypeLines == {[name |-> "DOS16_big", normal |-> Absent, hidden |-> 22]}

Change(dev, type, hide, on, off) ==
    [dev |-> dev, type |-> type, hide |-> hide, activate |-> on, deactivate |-> off]

MCChanges ==
    {Change(Dev(128, 1), "DOS16_big", TRUE, FALSE, TRUE),
     Change(Dev(128, 1), "DOS16_big", FALSE, FALSE, FALSE),
     Change(Dev(128, 1), "", FALSE, TRUE, FALSE),
     Change(Dev(129, 1), "DOS16_big", TRUE, TRUE, FALSE),
     Change(Dev(129, 1), "DOS16_small", FALSE, FALSE, FALSE)}

MCMapLines ==
    {[from |-> 128, to |-> 129], [from |-> 129, to |-> 128], [from |-> 128, to |-> 0],
     [from |-> 0, to |-> 0]}

MCOthers ==
    {[dev |-> Dev(128, 1), unsafe |-> FALSE], [dev |-> Dev(129, 1), unsafe |-> FALSE],
     [dev |-> Dev(129, 0), unsafe |-> TRUE], [dev |-> Dev(129, 2), unsafe |-> FALSE]}
=============================================================================
