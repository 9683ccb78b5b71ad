------------------------------- MODULE Transfer -------------------------------
(***************************************************************************)
(* What a caller of LILO's disk routines relies on: the sectors that were  *)
(* asked for are moved in their order, piece by piece; success is reported *)
(* when all of them were moved, and only then.  A transfer may start over, *)
(* as the first stage does, and may fail at any time.                      *)
(***************************************************************************)
EXTENDS Integers, Sequences

CONSTANT Sectors

VARIABLES
    wanted,     \* the sectors, in the order of the buffer
    got,        \* those that were moved
    status      \* "none", "moving", "ok" or "failed"

vars == <<wanted, got, status>>

Init ==
    /\ wanted \in Seq(Sectors) /\ got = <<>>
    /\ status \in {"none", "moving"}

Ask ==
    /\ status # "moving"
    /\ wanted' \in Seq(Sectors)
    /\ got' = <<>> /\ status' = "moving"

\* One piece more; with the last one the success may be reported at once.
Move ==
    /\ status = "moving"
    /\ \E n \in Len(got) + 1 .. Len(wanted) : got' = SubSeq(wanted, 1, n)
    /\ status' \in {"moving", "ok"} /\ (status' = "ok" => got' = wanted)
    /\ UNCHANGED wanted

\* The last piece was moved before the success is reported.
Report ==
    /\ status = "moving" /\ got = wanted
    /\ status' = "ok"
    /\ UNCHANGED <<wanted, got>>

StartOver ==
    /\ status = "moving"
    /\ got' = <<>>
    /\ UNCHANGED <<wanted, status>>

Fail ==
    /\ status = "moving"
    /\ status' = "failed"
    /\ UNCHANGED <<wanted, got>>

Next == Ask \/ Move \/ Report \/ StartOver \/ Fail

Spec == Init /\ [][Next]_vars
=============================================================================
