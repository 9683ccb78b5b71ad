------------------------------ MODULE BootSwitch ------------------------------
(***************************************************************************)
(* What the map installer promises about the machine: which system or      *)
(* installation comes up when it is switched on.  An installation switches *)
(* it at once or not at all; only between the switch and its settling can  *)
(* the machine lose what it boots, and nothing but -u and -U brings back   *)
(* something older.  Any step may be the last one of the run.              *)
(***************************************************************************)
EXTENDS Integers

CONSTANTS
    Systems,    \* other systems, each with a boot sector of its own
    Nothing     \* the machine does not come up

VARIABLES
    boots,      \* what comes up: a system, the number of a run, or Nothing
    settled,    \* the installation that comes up has its final name
    runs,       \* runs of the installer so far
    doing       \* "install", "test", "undo", or "idle" between two runs

vars == <<boots, settled, runs, doing>>

Init == boots \in Systems /\ settled = TRUE /\ runs = 0 /\ doing = "idle"

Begin ==
    /\ doing = "idle"
    /\ runs' = runs + 1
    /\ doing' \in {"install", "test", "undo"}
    /\ UNCHANGED <<boots, settled>>

GoOn == doing # "idle" /\ doing' \in {doing, "idle"} /\ UNCHANGED runs

End == GoOn /\ UNCHANGED <<boots, settled>>

\* The present run, which never came up before, takes over whole.
Switch ==
    /\ doing = "install" /\ boots # runs
    /\ boots' = runs /\ settled' = FALSE
    /\ GoOn

Settle ==
    /\ doing = "install" /\ ~settled /\ boots = runs
    /\ settled' = TRUE
    /\ GoOn /\ UNCHANGED boots

Lose ==
    /\ ~settled
    /\ boots' = Nothing /\ settled' = TRUE
    /\ GoOn

\* What comes back may have lost its own map in the meantime.
BringBack ==
    /\ doing = "undo"
    /\ boots' \in Systems \cup {Nothing} \cup (1 .. runs - 1)
    /\ settled' = TRUE
    /\ GoOn

OtherSystem ==
    /\ doing = "idle"
    /\ boots' \in Systems /\ settled' = TRUE
    /\ UNCHANGED <<runs, doing>>

Next == Begin \/ End \/ Switch \/ Settle \/ Lose \/ BringBack \/ OtherSystem

Spec == Init /\ [][Next]_vars
=============================================================================
