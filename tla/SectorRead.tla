------------------------------ MODULE SectorRead ------------------------------
(***************************************************************************)
(* How LILO moves sectors: lba_read of read.S with its BIOS calls, once as *)
(* the second stage has it (cread, cwrite: many sectors per call, five     *)
(* tries) and once as first.S has it (one sector per call, no retry, the   *)
(* list of the second stage's sectors from its beginning after an error).  *)
(*                                                                         *)
(* A linear number becomes cylinder, head and sector by the geometry that  *)
(* the BIOS reports, unless LBA32 and the BIOS allow the extended calls.   *)
(* The sectors of the disk are known by their linear numbers; a call of    *)
(* the BIOS either moves all of its sectors, or fails after any of them.   *)
(***************************************************************************)
EXTENDS Integers, SequencesExt

CONSTANTS
    LastSector,           \* the last sector of the disk
    Bioses,         \* heads, sectors per track, cylinders, extended calls
    Lists,          \* second stages: address form and sectors
    Requests,       \* calls of cread and cwrite
    Byte, Word,     \* 2^8, 2^16
    EddMax,         \* 127: sectors in one extended call
    Tries,          \* 5
    MaxLen, MaxCalls    \* bounds: sectors in a request, requests

Sectors == 0 .. LastSector
Nothing == -1
Forms == {"chs", "linear", "lba32"}

ASSUME ReadAssumption ==
    /\ {LastSector, Byte, Word, EddMax, Tries, MaxLen, MaxCalls} \subseteq Nat \ {0}
    /\ \A b \in Bioses :
        /\ b.heads \in 1 .. Byte /\ b.spt \in 1 .. Byte - 1 /\ b.cyls \in 1 .. Word - 1
        /\ b.edd \in BOOLEAN
    /\ \A l \in Lists : l.form \in Forms /\ l.at \in Seq(Sectors) /\ Len(l.at) \in 1 .. MaxLen
    /\ \A r \in Requests :
        /\ r.form \in Forms /\ r.at \in Sectors /\ r.count \in 1 .. MaxLen
        /\ r.op \in {"read", "write"} /\ r.at + r.count - 1 \in Sectors

VARIABLES
    stage,          \* "first" or "second"
    bios,
    list,           \* first stage: the list; SI is entry
    entry,
    req,            \* second stage: the request
    dsk_wrflag,
    pc,
    at, left, pos,  \* DI:CX; the remaining count; ES:BX, in sectors
    call,           \* the BIOS call that moves the next piece
    tries,          \* BP of dsk_do_int13
    resetting,      \* it resets the controllers before the next try
    carry,          \* the error flag at the last return
    calls,          \* how many requests there were
    memory, disk    \* what each place of the buffer, and each sector, has got

input == <<stage, bios, list>>
registers == <<at, left, pos, call, tries>>
vars == <<input, entry, req, dsk_wrflag, pc, registers, resetting, carry, calls, memory, disk>>

Places == 1 .. MaxLen
NoList == [form |-> "chs", at |-> <<>>]
NoRequest == [op |-> "read", form |-> "chs", at |-> 0, count |-> 1]
NoCall == [edd |-> FALSE, cyl |-> 0, head |-> 0, sec |-> 1, at |-> 0, count |-> 1]

-----------------------------------------------------------------------------
(* Addresses.                                                              *)

\* inc al: 256 heads are none.
Heads == bios.heads % Byte
PerCylinder == Heads * bios.spt

\* geo_comp_addr, with the geometry of the BIOS.
Chs(s, n) ==
    [edd |-> FALSE, cyl |-> s \div (bios.heads * bios.spt),
     head |-> (s \div bios.spt) % bios.heads, sec |-> (s % bios.spt) + 1, at |-> s, count |-> n]

\* A number the division would overflow on, or a cylinder the disk has not.
OutOfReach(s) == s \div Word >= PerCylinder \/ s \div PerCylinder > bios.cyls - 1

\* Mutant of MaxPiece: all of the request.
MaxPieceWhole(sec) == left

\* lba_small reads up to the end of the track.
MaxPiece(sec) == bios.spt - (sec - 1)

\* The registers for the next piece: divide by the cylinder, then by the track.
Piece(s) ==
    LET rest == s % PerCylinder
        sec == (rest % bios.spt) + 1
    IN  [edd |-> FALSE, cyl |-> s \div PerCylinder, head |-> rest \div bios.spt, sec |-> sec,
         at |-> s,
         count |-> IF stage = "first" \/ left < MaxPiece(sec) THEN left ELSE MaxPiece(sec)]

\* LINEAR never uses the extended calls.
Extended(form, n) == bios.edd /\ form = "lba32" /\ (stage = "second" => n <= EddMax)

\* What a BIOS can do at all: it reads no further than the track.
Possible(c) ==
    IF c.edd THEN c.at + c.count - 1 \in Sectors
    ELSE /\ c.cyl < bios.cyls /\ c.head < bios.heads
         /\ c.sec >= 1 /\ c.sec + c.count - 1 <= bios.spt

\* The installer makes CHS addresses of sectors the BIOS reaches, and merges
\* them within a track.
Addressable(form, s, n) == form = "chs" => Possible(Chs(s, n))

\* Where a call starts on the disk.
Start(c) == IF c.edd THEN c.at ELSE (c.cyl * bios.heads + c.head) * bios.spt + c.sec - 1

Init ==
    /\ stage \in {"first", "second"} /\ bios \in Bioses
    /\ IF stage = "first" THEN list \in Lists ELSE list = NoList
    /\ entry = 1
    /\ \A s \in Range(list.at) : Addressable(list.form, s, 1)
    /\ req = NoRequest /\ dsk_wrflag = FALSE
    /\ pc = IF stage = "first" THEN "entry" ELSE "idle"
    /\ at = 0 /\ left = 1 /\ pos = 0 /\ call = NoCall /\ tries = 1 /\ resetting = FALSE
    /\ carry = FALSE /\ calls = 0
    /\ memory = [p \in Places |-> Nothing] /\ disk = [s \in Sectors |-> Nothing]

-----------------------------------------------------------------------------
(* The callers.                                                            *)

\* cread, and lba_read up to its first transfer.
Dispatch(form, s, n) ==
    /\ at' = s /\ left' = n /\ tries' = Tries
    /\ \/ form = "chs" /\ call' = Chs(s, n) /\ pc' = "move"
       \/ Extended(form, n) /\ call' = [NoCall EXCEPT !.edd = TRUE, !.at = s, !.count = n]
          /\ pc' = "move"
       \/ form # "chs" /\ ~Extended(form, n) /\ pc' = "geometry" /\ UNCHANGED call

\* cread and cwrite of the second stage.
Call(r) ==
    /\ pc = "idle" /\ calls < MaxCalls /\ Addressable(r.form, r.at, r.count)
    /\ calls' = calls + 1
    /\ req' = r /\ pos' = 0 /\ carry' = FALSE
    /\ dsk_wrflag' = (dsk_wrflag \/ r.op = "write")
    /\ Dispatch(r.form, r.at, r.count)
    /\ memory' = [p \in Places |-> Nothing] /\ disk' = [s \in Sectors |-> Nothing]
    /\ UNCHANGED <<input, entry, resetting>>

\* sload: the next address of the list, or a jump into the second stage.
NextEntry ==
    /\ pc = "entry"
    /\ IF entry > Len(list.at) THEN pc' = "started" /\ UNCHANGED registers
       ELSE Dispatch(list.form, list.at[entry], 1) /\ UNCHANGED pos
    /\ UNCHANGED <<input, entry, req, dsk_wrflag, resetting, carry, calls, memory, disk>>

\* Mutant of FlagAfter: an error leaves the flag.
FlagAfterSuccess(ok) == dsk_wrflag /\ ~ok

\* cwrite clears its flag, whatever became of it.
FlagAfter(ok) == IF req.op = "write" THEN FALSE ELSE dsk_wrflag

\* error, lagain: redo from start.
Restarts == 1

\* lba_read returns; the first stage starts over after an error.
Return(ok, moved) ==
    IF stage = "second"
    THEN /\ pc' = "idle" /\ carry' = ~ok /\ pos' = moved /\ dsk_wrflag' = FlagAfter(ok)
         /\ UNCHANGED entry
    ELSE /\ pc' = "entry"
         /\ entry' = IF ok THEN entry + 1 ELSE Restarts
         /\ pos' = IF ok THEN moved ELSE 0
         /\ UNCHANGED <<carry, dsk_wrflag>>

-----------------------------------------------------------------------------
(* The BIOS calls.                                                         *)

\* Mutant of TriesAfter: popa brings back the count that pusha saved.
TriesAfterPopa == tries

TriesAfter == tries - 1

\* A call failed: dsk_do_int13 tries again, after a reset.
Failed ==
    IF stage = "second" /\ tries > 1
    THEN tries' = TriesAfter /\ resetting' = TRUE /\ UNCHANGED <<pc, carry, pos, dsk_wrflag, entry>>
    ELSE Return(FALSE, pos) /\ UNCHANGED <<tries, resetting>>

Reset ==
    /\ resetting /\ resetting' = FALSE
    /\ UNCHANGED <<input, entry, req, dsk_wrflag, pc, registers, carry, calls, memory, disk>>

\* Function 8, the geometry; 256 heads fail here, too.
Geometry ==
    /\ pc = "geometry" /\ ~resetting
    /\ IF PerCylinder = 0 \/ OutOfReach(at) THEN Return(FALSE, pos) /\ UNCHANGED <<call, tries>>
       ELSE /\ call' = Piece(at) /\ pc' = "move" /\ tries' = Tries
            /\ UNCHANGED <<carry, pos, dsk_wrflag, entry>>
    /\ UNCHANGED <<input, req, at, left, resetting, calls, memory, disk>>

GeometryFails ==
    /\ pc = "geometry" /\ ~resetting
    /\ Failed
    /\ UNCHANGED <<input, req, at, left, call, calls, memory, disk>>

\* A piece is moved between the buffer and the disk.
Exchange(n) ==
    IF dsk_wrflag
    THEN disk' = [s \in Sectors |->
                    IF s - Start(call) \in 0 .. n - 1 THEN pos + 1 + s - Start(call) ELSE disk[s]]
         /\ UNCHANGED memory
    ELSE memory' = [p \in Places |->
                    IF p - pos \in 1 .. n THEN Start(call) + p - pos - 1 ELSE memory[p]]
         /\ UNCHANGED disk

\* The call returns; more pieces follow if the request is not complete.
Moved ==
    /\ pc = "move" /\ ~resetting /\ Possible(call)
    /\ Exchange(call.count)
    /\ at' = at + call.count /\ left' = left - call.count
    /\ IF left' = 0 THEN Return(TRUE, pos + call.count) /\ UNCHANGED tries
       ELSE /\ pc' = "geometry" /\ pos' = pos + call.count /\ tries' = Tries
            /\ UNCHANGED <<carry, dsk_wrflag, entry>>
    /\ UNCHANGED <<input, req, call, resetting, calls>>

\* The call fails, after some of its sectors.
MoveFails ==
    /\ pc = "move" /\ ~resetting
    /\ \E n \in 0 .. call.count : (n = 0 \/ Possible([call EXCEPT !.count = n])) /\ Exchange(n)
    /\ Failed
    /\ UNCHANGED <<input, req, at, left, call, calls>>

Next ==
    \/ \E r \in Requests : Call(r)
    \/ NextEntry
    \/ Geometry \/ GeometryFails \/ Reset
    \/ Moved \/ MoveFails

\* The processor goes on; a sector that the first stage reads over and over is
\* read some time.
Fairness ==
    /\ WF_vars(NextEntry) /\ WF_vars(Reset)
    /\ WF_vars(Geometry \/ GeometryFails) /\ WF_vars(Moved \/ MoveFails)
    /\ \A e \in Places :
        /\ SF_vars(stage = "first" /\ entry = e /\ Geometry)
        /\ SF_vars(stage = "first" /\ entry = e /\ Moved)

Spec == Init /\ [][Next]_vars /\ Fairness

-----------------------------------------------------------------------------
Form == IF stage = "first" THEN list.form ELSE req.form

\* Every BIOS call that is made is one that a BIOS can do: a conversion never
\* yields a sector behind the track, a head or a cylinder that the disk has not,
\* and the extended calls are kept to LBA32 and to their limit of sectors.
CallsFit ==
    pc = "move" =>
        /\ Possible(call)
        /\ call.edd => bios.edd /\ Form = "lba32" /\ call.count <= EddMax

Wanted ==
    IF stage = "first" THEN list.at
    ELSE IF calls = 0 THEN <<>> ELSE [i \in 1 .. req.count |-> req.at + i - 1]

\* The sector that a place of the buffer was exchanged with.
Partner(p) ==
    IF req.op = "read" THEN memory[p]
    ELSE IF p \in Range(disk) THEN CHOOSE s \in Sectors : disk[s] = p ELSE Nothing

Status ==
    IF pc = "started" THEN "ok"
    ELSE IF pc # "idle" THEN "moving"
    ELSE IF calls = 0 THEN "none" ELSE IF carry THEN "failed" ELSE "ok"

\* However a request is cut into pieces and calls, retried and begun again, it
\* moves the sectors it names, in their order, and reports just that: Transfer.
Promise == INSTANCE Transfer
    WITH wanted <- Wanted, got <- [p \in 1 .. pos |-> Partner(p)], status <- Status
MovesAsAsked == Promise!Spec

\* The first stage can reach all sectors of the second.
Reachable ==
    \A s \in Range(list.at) :
        list.form = "chs" \/ Extended(list.form, 1) \/ (Heads # 0 /\ ~OutOfReach(s))

\* No request is tried for ever, and the first stage, which never gives up, comes
\* to start the second if the BIOS can read it at all.
EndsSomeTime == stage = "second" \/ Reachable ~> pc \in {"idle", "started"}
=============================================================================
