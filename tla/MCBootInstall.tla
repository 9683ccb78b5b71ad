---------------------------- MODULE MCBootInstall ----------------------------
(* Repeated runs of the map installer on one directory. *)
EXTENDS BootInstall

CONSTANTS f1, f2

\* The two foreign boot sectors are interchangeable.
MCForeign == {f1, f2}
MCOneForeign == {f1}
Both == BOOLEAN
Off == {FALSE}
=============================================================================
