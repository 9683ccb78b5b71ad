--------------------------- MODULE SectorReadProofs ---------------------------
(***************************************************************************)
(* Theorems about the disk routines, for every geometry that a BIOS can    *)
(* report, disks of any size, any lists and requests, and any number of    *)
(* failing calls.                                                          *)
(***************************************************************************)
EXTENDS SectorRead, TLAPS

\* A sector that is to be moved: the request is not complete.
Busy == pc \in {"geometry", "move"}

\* The first stage takes its list in order, one sector after the other.
FirstStage ==
    /\ list \in Lists /\ entry \in 1 .. Len(list.at) + 1
    /\ \A i \in 1 .. Len(list.at) : Addressable(list.form, list.at[i], 1)
    /\ req = NoRequest /\ dsk_wrflag = FALSE /\ pos = entry - 1
    /\ pc \in {"entry", "started", "geometry", "move"}
    /\ pc = "started" => entry = Len(list.at) + 1
    /\ Busy => entry <= Len(list.at) /\ at = list.at[entry] /\ left = 1

\* The second stage goes through a request from its first sector to its last.
SecondStage ==
    /\ list = NoList
    /\ IF calls = 0 THEN req = NoRequest /\ pos = 0 ELSE req \in Requests
    /\ pos \in 0 .. req.count
    /\ pc \in {"idle", "geometry", "move"}
    /\ dsk_wrflag = (Busy /\ req.op = "write")
    /\ Busy => /\ req \in Requests /\ calls # 0
               /\ left = req.count - pos /\ left # 0 /\ at = req.at + pos
    /\ pc = "idle" /\ calls # 0 /\ ~carry => pos = req.count

\* The next call moves sectors from where the request stands, all that are left
\* if the address is not one that the geometry has to cut.
CallInv ==
    /\ pc = "geometry" => Form # "chs"
    /\ pc = "move" =>
        /\ call.edd \in BOOLEAN
        /\ call.count \in 1 .. left /\ Start(call) = at /\ Possible(call)
        /\ call.edd => bios.edd /\ Form = "lba32" /\ call.count <= EddMax
        /\ call.edd \/ Form = "chs" => call.count = left

\* The sector that belongs to a place of the buffer.
Want(p) == IF stage = "first" THEN list.at[p] ELSE req.at + p - 1

\* Each place up to where the request stands has been exchanged with its sector,
\* and no sector has got anything from a place that is not its own.
Contents ==
    /\ memory \in [Places -> Int] /\ disk \in [Sectors -> Int]
    /\ req.op = "read" => \A p \in 1 .. pos : memory[p] = Want(p)
    /\ req.op = "write" =>
        /\ \A s \in Sectors : disk[s] = Nothing \/ disk[s] = s - req.at + 1
        /\ \A p \in 1 .. pos : disk[req.at + p - 1] = p

\* Each of the two stages goes through what it has to move.
Stages ==
    /\ bios \in Bioses /\ stage \in {"first", "second"} /\ calls \in Nat
    /\ stage = "first" => FirstStage
    /\ stage = "second" => SecondStage

\* The inductive invariant.
ReadInv == Stages /\ CallInv /\ Contents

-----------------------------------------------------------------------------
(* Numbers.                                                                *)

\* A dividend is made up of its quotient and its remainder, and of no others.
LEMMA Division ==
    ASSUME NEW s \in Nat, NEW b \in Nat \ {0}
    PROVE  /\ s \div b \in Nat /\ s % b \in 0 .. b - 1
           /\ s = b * (s \div b) + (s % b)
  OBVIOUS

\* So a quotient and a remainder that fit are those of div and mod.
LEMMA Quotient ==
    ASSUME NEW s \in Nat, NEW b \in Nat \ {0}, NEW q \in Nat, NEW r \in 0 .. b - 1, s = b * q + r
    PROVE  s \div b = q /\ s % b = r
  OBVIOUS

\* A product of positive numbers is one.
LEMMA Product ==
    ASSUME NEW a \in Nat \ {0}, NEW b \in Nat \ {0}
    PROVE  a * b \in Nat \ {0}
  OBVIOUS

\* To divide by a product is to divide by its factors in turn.
LEMMA DivideTwice ==
    ASSUME NEW s \in Nat, NEW h \in Nat \ {0}, NEW t \in Nat \ {0}
    PROVE  s \div (h * t) = (s \div t) \div h
  <1> DEFINE q == s \div t
             x == s % t
             c == q \div h
             y == q % h
  <1>1. /\ q \in Nat /\ x \in 0 .. t - 1 /\ s = t * q + x
    BY Division
  <1>2. /\ c \in Nat /\ y \in 0 .. h - 1 /\ q = h * c + y
    BY <1>1, Division
  <1> HIDE DEF q, x, c, y
  <1>3. t * q = (h * t) * c + t * y
    BY <1>1, <1>2
  <1>4. t * y + x \in 0 .. (h * t) - 1
    <2>1. t * y <= t * (h - 1)
      BY <1>2
    <2>2. t * y >= 0
      BY <1>2
    <2>3. t * (h - 1) = (h * t) - t
      OBVIOUS
    <2> QED
      BY <1>1, <1>2, <2>1, <2>2, <2>3
  <1>5. s = (h * t) * c + (t * y + x)
    BY <1>1, <1>2, <1>3
  <1>6. s \div (h * t) = c
    BY <1>2, <1>4, <1>5, Quotient, Product
  <1> QED
    BY <1>6 DEF q, c

\* Numbers that are put together from cylinder, head and sector.
LEMMA Composed ==
    ASSUME NEW c \in Nat, NEW y \in Nat, NEW x \in Nat, NEW h \in Nat \ {0}, NEW t \in Nat \ {0}
    PROVE  (c * h + y) * t + x = (h * t) * c + (t * y + x)
  <1>1. (c * h + y) * t = (c * h) * t + y * t
    OBVIOUS
  <1>2. (c * h) * t = (h * t) * c /\ y * t = t * y
    OBVIOUS
  <1> QED
    BY <1>1, <1>2

\* A position within a cylinder has a head below the number of heads.
LEMMA HeadBelow ==
    ASSUME NEW y \in Nat, NEW x \in Nat, NEW h \in Nat \ {0}, NEW t \in Nat \ {0},
           t * y + x < h * t
    PROVE  y < h
  <1> SUFFICES ASSUME y >= h
               PROVE  FALSE
    OBVIOUS
  <1>1. t * y >= t * h
    OBVIOUS
  <1>2. t * h = h * t /\ t * y \in Nat /\ h * t \in Nat
    OBVIOUS
  <1> QED
    BY <1>1, <1>2

\* Cylinder, head and sector of a number that is divided by the cylinder first.
LEMMA Cut ==
    ASSUME NEW s \in Nat, NEW h \in Nat \ {0}, NEW t \in Nat \ {0}, NEW rest, rest = s % (h * t)
    PROVE  /\ s \div (h * t) \in Nat /\ rest \div t \in 0 .. h - 1 /\ rest % t \in 0 .. t - 1
           /\ ((s \div (h * t)) * h + (rest \div t)) * t + (rest % t) = s
  <1> DEFINE pt == h * t
             c == s \div pt
             y == rest \div t
             x == rest % t
  <1>1. pt \in Nat \ {0}
    BY Product
  <1> HIDE DEF pt
  <1>2. c \in Nat /\ rest \in 0 .. pt - 1 /\ s = pt * c + rest
    BY <1>1, Division DEF pt
  <1>3. rest \in Nat
    BY <1>1, <1>2
  <1>4. y \in Nat /\ x \in 0 .. t - 1 /\ rest = t * y + x
    BY <1>3, Division
  <1> HIDE DEF c, y, x
  <1>5. x \in Nat /\ t * y + x < h * t
    BY <1>1, <1>2, <1>4 DEF pt
  <1>6. y < h
    BY <1>4, <1>5, HeadBelow
  <1>7. (c * h + y) * t + x = s
    BY <1>2, <1>4, <1>5, Composed DEF pt
  <1> QED
    BY <1>2, <1>4, <1>6, <1>7 DEF c, y, x, pt

-----------------------------------------------------------------------------
(* Conversions.                                                            *)

\* What a BIOS reports.
LEMMA Reported ==
    ASSUME bios \in Bioses
    PROVE  /\ bios.heads \in 1 .. Byte /\ bios.spt \in 1 .. Byte - 1 /\ bios.cyls \in 1 .. Word - 1
           /\ bios.edd \in BOOLEAN
           /\ Byte \in Nat /\ Word \in Nat
  BY ReadAssumption

\* The installer's conversion names the sector it was given.
LEMMA ChsNames ==
    ASSUME bios \in Bioses, NEW s \in Nat, NEW n
    PROVE  Start(Chs(s, n)) = s
  <1> DEFINE h == bios.heads
             t == bios.spt
             q == s \div t
             c == q \div h
             y == q % h
             x == s % t
  <1>1. h \in Nat \ {0} /\ t \in Nat \ {0}
    BY Reported
  <1>2. Start(Chs(s, n)) = ((s \div (h * t)) * h + y) * t + (x + 1) - 1
    BY DEF Start, Chs
  <1>3. s \div (h * t) = c
    BY <1>1, DivideTwice
  <1> HIDE DEF h, t
  <1>4. q \in Nat /\ x \in 0 .. t - 1 /\ s = t * q + x
    BY <1>1, Division
  <1> HIDE DEF q, x
  <1>5. c \in Nat /\ y \in 0 .. h - 1 /\ q = h * c + y
    BY <1>1, <1>4, Division
  <1> HIDE DEF c, y
  <1>6. c * h + y = q
    BY <1>1, <1>5
  <1>7. Start(Chs(s, n)) = q * t + (x + 1) - 1
    BY <1>2, <1>3, <1>6
  <1>8. q * t = t * q /\ q * t \in Nat /\ x \in Nat
    BY <1>1, <1>4
  <1> QED
    BY <1>4, <1>7, <1>8

\* The registers of a piece name the sector and a part of its track.
LEMMA PieceFits ==
    ASSUME bios \in Bioses, NEW s \in Nat, left \in Nat \ {0}, stage = "first" => left = 1,
           PerCylinder # 0, ~OutOfReach(s)
    PROVE  /\ Start(Piece(s)) = s /\ Possible(Piece(s))
           /\ Piece(s).count \in 1 .. left /\ Piece(s).edd = FALSE
  <1> DEFINE h == bios.heads
             t == bios.spt
             rest == s % (h * t)
             c == s \div (h * t)
             y == rest \div t
             x == rest % t
  <1>1. h \in Nat \ {0} /\ t \in Nat \ {0} /\ h <= Byte /\ Byte \in Nat \ {0} /\ bios.cyls \in Nat
    BY Reported, ReadAssumption
  <1>2. Heads = h
    <2>1. h < Byte => h % Byte = h
      BY <1>1, Quotient
    <2>2. Byte % Byte = 0
      BY <1>1, Quotient
    <2>3. Heads # 0
      BY <1>1 DEF PerCylinder
    <2> QED
      BY <1>1, <2>1, <2>2, <2>3 DEF Heads
  <1>3. PerCylinder = h * t
    BY <1>2 DEF PerCylinder
  <1>4. /\ Piece(s).edd = FALSE /\ Piece(s).cyl = c /\ Piece(s).head = y /\ Piece(s).sec = x + 1
        /\ Piece(s).count = IF stage = "first" \/ left < MaxPiece(x + 1) THEN left
                            ELSE MaxPiece(x + 1)
    BY <1>3 DEF Piece
  <1>5. ~(c > bios.cyls - 1)
    BY <1>3 DEF OutOfReach
  <1>6. MaxPiece(x + 1) = t - ((x + 1) - 1)
    BY DEF MaxPiece
  <1>7. Start(Piece(s)) = (c * h + y) * t + (x + 1) - 1
    BY <1>4 DEF Start
  <1> HIDE DEF h, t
  <1>8. c \in Nat /\ y \in 0 .. h - 1 /\ x \in 0 .. t - 1 /\ (c * h + y) * t + x = s
    BY <1>1, Cut
  <1> HIDE DEF c, y, x, rest
  <1>9. Piece(s).count \in 1 .. left /\ x + 1 + Piece(s).count - 1 <= t
    BY <1>1, <1>4, <1>6, <1>8
  <1>10. Possible(Piece(s))
    BY <1>1, <1>4, <1>5, <1>8, <1>9 DEF Possible, h, t
  <1>11. Start(Piece(s)) = s
    <2>1. (c * h + y) * t \in Int
      BY <1>1, <1>8
    <2> QED
      BY <1>7, <1>8, <2>1
  <1> QED
    BY <1>4, <1>9, <1>10, <1>11

-----------------------------------------------------------------------------
(* Requests and lists.                                                     *)

\* What a caller passes.
LEMMA Asked ==
    ASSUME NEW r \in Requests
    PROVE  /\ r.form \in Forms /\ r.at \in Nat /\ r.count \in 1 .. MaxLen
           /\ r.op \in {"read", "write"}
           /\ \A p \in 1 .. r.count : r.at + p - 1 \in Sectors
           /\ r.at + r.count - 1 \in Sectors
  <1>1. /\ r.form \in Forms /\ r.at \in Sectors /\ r.count \in 1 .. MaxLen
        /\ r.op \in {"read", "write"} /\ r.at + r.count - 1 \in Sectors
        /\ LastSector \in Nat /\ MaxLen \in Nat
    BY ReadAssumption
  <1> QED
    BY <1>1 DEF Sectors

\* What an installer has written into the first stage.
LEMMA Listed ==
    ASSUME NEW l \in Lists
    PROVE  /\ l.form \in Forms /\ l.at \in Seq(Sectors) /\ Len(l.at) \in 1 .. MaxLen
           /\ \A i \in 1 .. Len(l.at) : l.at[i] \in Sectors
           /\ Range(l.at) = {l.at[i] : i \in 1 .. Len(l.at)}
  <1>1. l.form \in Forms /\ l.at \in Seq(Sectors) /\ Len(l.at) \in 1 .. MaxLen
    BY ReadAssumption
  <1>2. DOMAIN l.at = 1 .. Len(l.at) /\ \A i \in 1 .. Len(l.at) : l.at[i] \in Sectors
    BY <1>1
  <1> QED
    BY <1>1, <1>2 DEF Range

\* Sectors are numbered from 0.
LEMMA SectorsAreNumbers == LastSector \in Nat /\ Sectors \subseteq Nat /\ 0 \in Sectors
  BY ReadAssumption DEF Sectors

\* The first transfer of a request is one that the BIOS can do, or is left to be
\* cut by the geometry.
LEMMA DispatchFits ==
    ASSUME Stages, NEW form \in Forms, NEW s \in Sectors, NEW n \in Nat \ {0},
           Addressable(form, s, n), s + n - 1 \in Sectors, stage = "first" => n = 1,
           Dispatch(form, s, n), UNCHANGED input, Form' = form
    PROVE  CallInv' /\ pc' \in {"geometry", "move"} /\ at' = s /\ left' = n
  <1> USE DEF input, Stages
  <1>1. s \in Nat /\ EddMax \in Nat \ {0}
    BY SectorsAreNumbers, ReadAssumption
  <1>2. at' = s /\ left' = n
    BY DEF Dispatch
  <1>3. CASE form = "chs" /\ call' = Chs(s, n) /\ pc' = "move"
    <2>1. Possible(Chs(s, n)) /\ Start(Chs(s, n)) = s
      BY <1>1, <1>3, ChsNames DEF Addressable
    <2>2. Possible(call)' /\ Start(call)' = s
      BY <1>3, <2>1 DEF Possible, Start
    <2>3. call'.edd = FALSE /\ call'.count = n
      BY <1>3 DEF Chs
    <2>4. n \in 1 .. n
      OBVIOUS
    <2> QED
      BY <1>2, <1>3, <2>2, <2>3, <2>4 DEF CallInv
  <1>4. CASE Extended(form, n) /\ call' = [NoCall EXCEPT !.edd = TRUE, !.at = s, !.count = n]
             /\ pc' = "move"
    <2>1. call'.edd = TRUE /\ call'.count = n /\ call'.at = s
      BY <1>4 DEF NoCall
    <2>2. n <= EddMax
      BY <1>1, <1>4 DEF Extended
    <2>3. Possible(call)' /\ Start(call)' = s
      BY <2>1 DEF Possible, Start
    <2>4. n \in 1 .. n
      OBVIOUS
    <2> QED
      BY <1>2, <1>4, <2>1, <2>2, <2>3, <2>4 DEF CallInv, Extended
  <1>5. CASE form # "chs" /\ pc' = "geometry"
    BY <1>2, <1>5 DEF CallInv
  <1> QED
    BY <1>2, <1>3, <1>4, <1>5 DEF Dispatch

-----------------------------------------------------------------------------
(* Steps.                                                                  *)

\* Nothing has been moved at first.
LEMMA InitInv == Init => ReadInv
  <1> SUFFICES ASSUME Init
               PROVE  ReadInv
    OBVIOUS
  <1>1. Stages
    <2>1. CASE stage = "first"
      <3>1. list \in Lists /\ pc = "entry" /\ entry = 1 /\ pos = 0 /\ req = NoRequest
        BY <2>1 DEF Init
      <3>2. \A i \in 1 .. Len(list.at) : Addressable(list.form, list.at[i], 1)
        BY <3>1, Listed DEF Init
      <3>3. Len(list.at) \in Nat
        BY <3>1, Listed
      <3> QED
        BY <2>1, <3>1, <3>2, <3>3 DEF Init, Stages, FirstStage, Busy
    <2>2. CASE stage = "second"
      <3>1. pos = 0 /\ req = NoRequest /\ pc = "idle" /\ calls = 0 /\ list = NoList
        BY <2>2 DEF Init
      <3>2. req.count = 1 /\ pos \in 0 .. req.count
        BY <3>1 DEF NoRequest
      <3>3. dsk_wrflag = (Busy /\ req.op = "write")
        BY <3>1 DEF Init, Busy
      <3> QED
        BY <2>2, <3>1, <3>2, <3>3 DEF Init, Stages, SecondStage, Busy
    <2> QED
      BY <2>1, <2>2 DEF Init
  <1>2. CallInv
    BY DEF Init, CallInv
  <1>3. Contents
    <2>1. req.op = "read" /\ pos = 0
      BY DEF Init, NoRequest
    <2> QED
      BY <2>1 DEF Init, Contents, Nothing
  <1> QED
    BY <1>1, <1>2, <1>3 DEF ReadInv

\* A failing call is tried again or ends the request; the first stage begins its
\* list anew.
LEMMA FailedLeads ==
    ASSUME Stages, Busy, Failed
    PROVE  \/ stage = "second" /\ UNCHANGED <<pc, carry, pos, dsk_wrflag, entry>>
           \/ /\ stage = "second" /\ UNCHANGED <<pos, entry>>
              /\ pc' = "idle" /\ carry' = TRUE /\ dsk_wrflag' = FALSE
           \/ /\ stage = "first" /\ UNCHANGED <<carry, dsk_wrflag>>
              /\ pc' = "entry" /\ pos' = 0 /\ entry' = 1
  BY DEF Failed, Return, Stages, Restarts, FlagAfter, SecondStage

\* A stage that gives up stays as described.
LEMMA ReturnsWithout ==
    ASSUME Stages, Busy, Return(FALSE, pos), UNCHANGED <<input, req, calls>>
    PROVE  Stages' /\ ~Busy' /\ pos' \in {pos, 0}
  <1>1. CASE stage = "second"
    <2>1. pc' = "idle" /\ carry' = TRUE /\ pos' = pos /\ dsk_wrflag' = FALSE /\ entry' = entry
      BY <1>1 DEF Return, Stages, SecondStage, FlagAfter
    <2> QED
      BY <1>1, <2>1 DEF Stages, SecondStage, Busy, input
  <1>2. CASE stage = "first"
    <2>0. pc' = "entry" /\ pos' = 0 /\ entry' = 1 /\ UNCHANGED <<carry, dsk_wrflag>>
      BY <1>2 DEF Return, Restarts
    <2>1. list \in Lists
      BY <1>2 DEF Stages, FirstStage
    <2>2. 1 \in 1 .. Len(list.at) + 1 /\ pos' = entry' - 1
      BY <2>0, <2>1, Listed
    <2>3. \A i \in 1 .. Len(list.at) : Addressable(list.form, list.at[i], 1)'
      BY <1>2 DEF Stages, FirstStage, Addressable, Possible, Chs, input
    <2> QED
      BY <1>2, <2>0, <2>1, <2>2, <2>3 DEF Stages, FirstStage, Busy, input
  <1> QED
    BY <1>1, <1>2 DEF Stages

\* Where a request stands is a sector, with others to follow.
LEMMA WhereItStands ==
    ASSUME Stages, Busy
    PROVE  /\ at \in Nat /\ left \in Nat \ {0} /\ pos \in Nat
           /\ stage = "first" => left = 1 /\ list \in Lists /\ entry \in 1 .. Len(list.at)
                                 /\ pos = entry - 1
           /\ stage = "second" => req \in Requests /\ at = req.at + pos /\ left = req.count - pos
  <1>1. CASE stage = "first"
    <2>1. list \in Lists /\ Len(list.at) \in Nat
      BY <1>1, Listed DEF Stages, FirstStage
    <2>2. /\ pos = entry - 1 /\ entry \in 1 .. Len(list.at)
          /\ at = list.at[entry] /\ left = 1
      BY <1>1, <2>1 DEF Stages, FirstStage, Busy
    <2>3. at \in Nat
      BY <2>1, <2>2, Listed, SectorsAreNumbers
    <2> QED
      BY <1>1, <2>1, <2>2, <2>3
  <1>2. CASE stage = "second"
    <2>1. req \in Requests /\ at = req.at + pos /\ pos \in 0 .. req.count /\ left = req.count - pos
          /\ left # 0
      BY <1>2 DEF Stages, SecondStage, Busy
    <2>2. req.count \in Nat /\ req.at \in Nat
      BY <2>1, Asked
    <2> QED
      BY <1>2, <2>1, <2>2
  <1> QED
    BY <1>1, <1>2 DEF Stages

\* So does one whose call failed.
LEMMA FailedKeeps ==
    ASSUME Stages, Busy, Failed, UNCHANGED <<input, req, at, left, calls>>
    PROVE  Stages' /\ (pc' = pc \/ ~Busy') /\ pos' \in {pos, 0}
  <1>1. CASE stage = "second" /\ UNCHANGED <<pc, carry, pos, dsk_wrflag, entry>>
    BY <1>1 DEF Stages, SecondStage, Busy, input
  <1>2. CASE /\ stage = "second" /\ UNCHANGED <<pos, entry>>
             /\ pc' = "idle" /\ carry' = TRUE /\ dsk_wrflag' = FALSE
    BY <1>2 DEF Stages, SecondStage, Busy, input
  <1>3. CASE /\ stage = "first" /\ UNCHANGED <<carry, dsk_wrflag>>
             /\ pc' = "entry" /\ pos' = 0 /\ entry' = 1
    <2>1. list \in Lists
      BY <1>3 DEF Stages, FirstStage
    <2>2. 1 \in 1 .. Len(list.at) + 1 /\ pos' = entry' - 1
      BY <1>3, <2>1, Listed
    <2>3. \A i \in 1 .. Len(list.at) : Addressable(list.form, list.at[i], 1)'
      BY <1>3 DEF Stages, FirstStage, Addressable, Possible, Chs, input
    <2> QED
      BY <1>3, <2>1, <2>2, <2>3 DEF Stages, FirstStage, Busy, input
  <1> QED
    BY <1>1, <1>2, <1>3, FailedLeads

\* The last piece completes a request; the first stage goes on with its list.
LEMMA ReturnsAll ==
    ASSUME Stages, Busy, Return(TRUE, pos + left), UNCHANGED <<input, req, calls>>
    PROVE  Stages' /\ ~Busy' /\ pos' = pos + left
  <1>1. CASE stage = "second"
    <2>1. /\ pc' = "idle" /\ carry' = FALSE /\ pos' = pos + left
          /\ dsk_wrflag' = FALSE /\ entry' = entry
      BY <1>1 DEF Return, Stages, SecondStage, FlagAfter
    <2>2. pos' = req.count /\ req.count \in Nat
      BY <1>1, <2>1, WhereItStands, Asked
    <2>3. pos' \in 0 .. req.count
      BY <2>2
    <2> QED
      BY <1>1, <2>1, <2>2, <2>3 DEF Stages, SecondStage, Busy, input
  <1>2. CASE stage = "first"
    <2>0. /\ pc' = "entry" /\ pos' = pos + left /\ entry' = entry + 1
          /\ UNCHANGED <<carry, dsk_wrflag>>
      BY <1>2 DEF Return
    <2>1. list \in Lists /\ entry \in 1 .. Len(list.at) /\ pos = entry - 1 /\ left = 1
      BY <1>2, WhereItStands
    <2>2. entry' \in 1 .. Len(list.at) + 1 /\ pos' = entry' - 1
      BY <2>0, <2>1, Listed
    <2>3. \A i \in 1 .. Len(list.at) : Addressable(list.form, list.at[i], 1)'
      BY <1>2 DEF Stages, FirstStage, Addressable, Possible, Chs, input
    <2> QED
      BY <1>2, <2>0, <2>1, <2>2, <2>3 DEF Stages, FirstStage, Busy, input
  <1> QED
    BY <1>1, <1>2 DEF Stages

\* What was exchanged stays so while nothing is moved.
LEMMA ContentsStay ==
    ASSUME Stages, Contents, UNCHANGED <<input, req, memory, disk>>, pos' \in {pos, 0}
    PROVE  Contents'
  BY DEF Contents, input, Want

\* A call of which some sectors are moved puts each of them where it belongs.
LEMMA ExchangeFits ==
    ASSUME Stages, CallInv, Contents, pc = "move", NEW n \in 0 .. call.count, Exchange(n),
           UNCHANGED <<input, req>>, pos' \in {pos, 0, pos + n}
    PROVE  Contents'
  <1>1. /\ n \in Nat /\ pos \in Nat /\ Start(call) = at /\ at \in Nat
        /\ at = Want(pos + 1) /\ call.count <= left /\ call.count \in Nat
        /\ stage = "second" => at = req.at + pos /\ req \in Requests /\ req.at \in Nat
        /\ stage = "second" => left = req.count - pos /\ req.count \in Nat
        /\ stage = "first" => left = 1
        /\ dsk_wrflag <=> req.op = "write"
    <2>1. CASE stage = "first"
      <3>0. list \in Lists /\ Len(list.at) \in Nat
        BY <2>1, Listed DEF Stages, FirstStage
      <3>1. pos = entry - 1 /\ entry \in Nat /\ entry >= 1 /\ entry <= Len(list.at)
            /\ at = list.at[entry] /\ left = 1
        BY <2>1, <3>0 DEF Stages, FirstStage, Busy
      <3>2. at \in Nat
        <4>1. \A i \in 1 .. Len(list.at) : list.at[i] \in Sectors
          BY <3>0, Listed
        <4>2. entry \in 1 .. Len(list.at)
          BY <3>0, <3>1
        <4> QED
          BY <3>1, <4>1, <4>2, SectorsAreNumbers
      <3>3. at = Want(pos + 1)
        BY <2>1, <3>1 DEF Want
      <3>4. dsk_wrflag = FALSE /\ req.op # "write"
        BY <2>1 DEF Stages, FirstStage, NoRequest
      <3>5. pos \in Nat /\ call.count \in 1 .. left /\ Start(call) = at
        BY <3>1 DEF CallInv
      <3> QED
        BY <2>1, <3>1, <3>2, <3>3, <3>4, <3>5
    <2>2. CASE stage = "second"
      <3>1. /\ req \in Requests /\ at = req.at + pos
            /\ pos \in 0 .. req.count /\ left = req.count - pos
        BY <2>2 DEF Stages, SecondStage, Busy
      <3>2. req.count \in Nat /\ req.at \in Nat
        BY <3>1, Asked
      <3>3. dsk_wrflag = (req.op = "write")
        BY <2>2 DEF Stages, SecondStage, Busy
      <3>4. at = Want(pos + 1)
        <4>1. pos \in Nat /\ Want(pos + 1) = req.at + (pos + 1) - 1
          BY <2>2, <3>1, <3>2 DEF Want
        <4> QED
          BY <3>1, <3>2, <4>1
      <3>5. call.count \in 1 .. left /\ Start(call) = at
        BY DEF CallInv
      <3>6. dsk_wrflag <=> req.op = "write"
        BY <3>3
      <3> QED
        BY <2>2, <3>1, <3>2, <3>4, <3>5, <3>6
    <2> QED
      BY <2>1, <2>2 DEF Stages
  <1>2. CASE ~dsk_wrflag
    <2>1. memory' = [p \in Places |-> IF p - pos \in 1 .. n THEN at + p - pos - 1 ELSE memory[p]]
          /\ disk' = disk /\ req.op # "write"
      BY <1>1, <1>2 DEF Exchange
    <2>2. memory' \in [Places -> Int] /\ disk' \in [Sectors -> Int]
      <3>1. \A p \in Places : at + p - pos - 1 \in Int
        BY <1>1 DEF Places
      <3> QED
        BY <2>1, <3>1 DEF Contents
    <2>3. ASSUME req.op = "read", NEW p \in 1 .. pos'
          PROVE  memory'[p] = Want(p)'
      <3>1. Want(p)' = Want(p)
        BY DEF Want, input
      <3>2. p \in Nat /\ p >= 1 /\ (p <= pos \/ p <= pos + n)
        BY <1>1
      <3>3. p \in Places
        <4>1. pos + n <= MaxLen
          <5>1. CASE stage = "first"
            <6>1. list \in Lists /\ entry <= Len(list.at) /\ pos = entry - 1 /\ entry \in Int
              BY <5>1 DEF Stages, FirstStage, Busy
            <6> QED
              BY <1>1, <5>1, <6>1, Listed, ReadAssumption
          <5>2. CASE stage = "second"
            <6>1. req \in Requests
              BY <1>1, <5>2
            <6>2. req.count \in 1 .. MaxLen
              BY <6>1, Asked
            <6>3. MaxLen \in Nat
              BY ReadAssumption
            <6> QED
              BY <1>1, <5>2, <6>2, <6>3
          <5> QED
            BY <5>1, <5>2 DEF Stages
        <4> QED
          BY <1>1, <3>2, <4>1, ReadAssumption DEF Places
      <3>4. CASE p <= pos
        BY <1>1, <2>1, <2>3, <3>1, <3>2, <3>3, <3>4 DEF Contents
      <3>5. CASE p > pos
        <4>1. memory'[p] = at + p - pos - 1
          BY <1>1, <2>1, <3>2, <3>3, <3>5
        <4>2. at + p - pos - 1 = Want(p)
          <5>1. CASE stage = "first"
            BY <1>1, <3>2, <3>5, <5>1 DEF Want
          <5>2. CASE stage = "second"
            BY <1>1, <3>2, <3>5, <5>2 DEF Want
          <5> QED
            BY <5>1, <5>2 DEF Stages
        <4> QED
          BY <3>1, <4>1, <4>2
      <3> QED
        BY <1>1, <3>2, <3>4, <3>5
    <2> QED
      BY <2>1, <2>2, <2>3 DEF Contents
  <1>3. CASE dsk_wrflag
    <2>1. /\ disk' = [s \in Sectors |-> IF s - at \in 0 .. n - 1 THEN pos + 1 + s - at ELSE disk[s]]
          /\ memory' = memory /\ req.op = "write"
      BY <1>1, <1>3 DEF Exchange
    <2>2. stage = "second"
      BY <1>3 DEF Stages, FirstStage
    <2>3. \A s \in Sectors : s \in Int /\ pos + 1 + s - at = s - req.at + 1
      BY <1>1, <2>2, SectorsAreNumbers
    <2>4. memory' \in [Places -> Int] /\ disk' \in [Sectors -> Int]
      BY <1>1, <2>1, <2>2, <2>3 DEF Contents
    <2>5. \A s \in Sectors : disk'[s] = Nothing \/ disk'[s] = s - req.at + 1
      BY <2>1, <2>3 DEF Contents
    <2>6. ASSUME NEW p \in 1 .. pos'
          PROVE  disk'[req.at + p - 1] = p
      <3>1. p \in Nat /\ p >= 1 /\ (p <= pos \/ p <= pos + n)
        BY <1>1
      <3>2. req.at + p - 1 \in Sectors
        <4>1. req \in Requests /\ p \in 1 .. req.count
          BY <1>1, <2>2, <3>1
        <4> QED
          BY <4>1, Asked
      <3>3. CASE p <= pos
        BY <1>1, <2>1, <2>2, <3>1, <3>2, <3>3 DEF Contents
      <3>4. CASE p > pos
        BY <1>1, <2>1, <2>2, <3>1, <3>2, <3>4
      <3> QED
        BY <1>1, <3>1, <3>3, <3>4
    <2> QED
      BY <2>1, <2>4, <2>5, <2>6 DEF Contents
  <1> QED
    BY <1>2, <1>3

\* Each step keeps all of it.
LEMMA NextInv == ReadInv /\ [Next]_vars => ReadInv'
  <1> SUFFICES ASSUME ReadInv, [Next]_vars
               PROVE  ReadInv'
    OBVIOUS
  <1> USE DEF ReadInv
  <1>1. ASSUME NEW r \in Requests, Call(r)
        PROVE  ReadInv'
    <2>1. /\ pc = "idle" /\ req' = r /\ pos' = 0 /\ UNCHANGED input
          /\ dsk_wrflag' = (dsk_wrflag \/ r.op = "write") /\ calls' = calls + 1
          /\ Addressable(r.form, r.at, r.count) /\ Dispatch(r.form, r.at, r.count)
          /\ memory' = [p \in Places |-> Nothing] /\ disk' = [s \in Sectors |-> Nothing]
      BY <1>1 DEF Call
    <2>2. stage = "second" /\ dsk_wrflag = FALSE
      BY <2>1 DEF Stages, FirstStage, SecondStage, Busy
    <2>3. Form' = r.form
      BY <2>1, <2>2 DEF Form, input
    <2>4. /\ r.form \in Forms /\ r.at \in Sectors
          /\ r.count \in Nat \ {0} /\ r.at + r.count - 1 \in Sectors
      BY ReadAssumption
    <2>5. /\ CallInv' /\ pc' \in {"geometry", "move"} /\ at' = r.at /\ left' = r.count
      BY <2>1, <2>2, <2>3, <2>4, DispatchFits
    <2>6. Busy'
      BY <2>5 DEF Busy
    <2>7. dsk_wrflag' = (Busy' /\ req'.op = "write")
      <3>1. (FALSE \/ r.op = "write") = (r.op = "write")
        OBVIOUS
      <3>2. dsk_wrflag' = (r.op = "write")
        BY <2>1, <2>2, <3>1
      <3> QED
        BY <2>1, <2>6, <3>2
    <2>8. pos' \in 0 .. req'.count /\ left' = req'.count - pos' /\ left' # 0 /\ at' = req'.at + pos'
      <3>0. r.at \in Nat /\ r.count \in Nat \ {0}
        BY <2>4, SectorsAreNumbers
      <3>1. 0 \in 0 .. r.count /\ r.count - 0 = r.count /\ r.count # 0
        BY <3>0
      <3>2. r.at + 0 = r.at
        BY <3>0
      <3> QED
        BY <2>1, <2>5, <3>1, <3>2
    <2>9. SecondStage'
      BY <2>1, <2>2, <2>5, <2>6, <2>7, <2>8 DEF Stages, SecondStage, input
    <2>10. Stages'
      BY <2>1, <2>2, <2>9 DEF Stages, input
    <2>11. Contents'
      BY <2>1 DEF Contents, Nothing
    <2> QED
      BY <2>5, <2>10, <2>11
  <1>2. CASE NextEntry
    <2>1. /\ pc = "entry" /\ UNCHANGED <<input, entry, req, dsk_wrflag, pos, memory, disk, calls>>
      BY <1>2 DEF NextEntry, registers
    <2>2. /\ stage = "first" /\ list \in Lists /\ entry \in 1 .. Len(list.at) + 1
      BY <2>1 DEF Stages, FirstStage, SecondStage
    <2>3. Contents'
      BY <2>1, ContentsStay
    <2>4. CASE entry > Len(list.at)
      <3>1. pc' = "started"
        BY <1>2, <2>4 DEF NextEntry
      <3>2. entry = Len(list.at) + 1
        BY <2>2, <2>4, Listed
      <3> QED
        BY <2>1, <2>2, <2>3, <3>1, <3>2 DEF Stages, FirstStage, CallInv, Busy, input, Addressable,
                                            Possible, Chs
    <2>5. CASE ~(entry > Len(list.at))
      <3> DEFINE s == list.at[entry]
      <3>1. Dispatch(list.form, s, 1)
        BY <1>2, <2>5 DEF NextEntry
      <3>2. entry \in 1 .. Len(list.at)
        BY <2>2, <2>5, Listed
      <3>3. s \in Sectors /\ list.form \in Forms
        BY <2>2, <3>2, Listed
      <3>4. Addressable(list.form, s, 1)
        BY <2>2, <3>2 DEF Stages, FirstStage
      <3>5. Form' = list.form /\ s + 1 - 1 \in Sectors
        <4>1. s \in Nat
          BY <3>3, SectorsAreNumbers
        <4>2. s + 1 - 1 = s
          BY <4>1
        <4> QED
          BY <2>1, <2>2, <3>3, <4>2 DEF Form, input
      <3>6. CallInv' /\ pc' \in {"geometry", "move"} /\ at' = s /\ left' = 1
        BY <2>1, <3>1, <3>3, <3>4, <3>5, DispatchFits
      <3>7. \A i \in 1 .. Len(list.at) : Addressable(list.form, list.at[i], 1)'
        BY <2>1, <2>2 DEF Stages, FirstStage, Addressable, Possible, Chs, input
      <3>8. entry <= Len(list.at)
        BY <2>2, <2>5, Listed
      <3>9. FirstStage'
        BY <2>1, <2>2, <3>6, <3>7, <3>8 DEF Stages, FirstStage, Busy, input
      <3>10. Stages'
        BY <2>1, <2>2, <3>9 DEF Stages, input
      <3> QED
        BY <2>3, <3>6, <3>10
    <2> QED
      BY <2>4, <2>5
  <1>3. CASE Geometry
    <2>1. pc = "geometry" /\ UNCHANGED <<input, req, at, left, resetting, calls, memory, disk>>
      BY <1>3 DEF Geometry
    <2>2. CASE PerCylinder = 0 \/ OutOfReach(at)
      <3>1. Return(FALSE, pos)
        BY <1>3, <2>2 DEF Geometry
      <3>2. Stages' /\ ~Busy' /\ pos' \in {pos, 0}
        BY <2>1, <3>1, ReturnsWithout DEF Busy
      <3>3. Contents'
        BY <2>1, <3>2, ContentsStay
      <3> QED
        BY <3>2, <3>3 DEF CallInv, Busy
    <2>3. CASE ~(PerCylinder = 0 \/ OutOfReach(at))
      <3>1. /\ call' = Piece(at) /\ pc' = "move" /\ UNCHANGED <<carry, pos, dsk_wrflag, entry>>
        BY <1>3, <2>3 DEF Geometry
      <3>2. at \in Nat /\ left \in Nat \ {0} /\ (stage = "first" => left = 1) /\ bios \in Bioses
        BY <2>1, WhereItStands DEF Busy, Stages
      <3>3. /\ Start(Piece(at)) = at /\ Possible(Piece(at))
            /\ Piece(at).count \in 1 .. left /\ Piece(at).edd = FALSE
        BY <2>3, <3>2, PieceFits
      <3>4. Start(call)' = at /\ Possible(call)'
        BY <2>1, <3>1, <3>3 DEF Start, Possible, input
      <3>5. Form' = Form /\ Form # "chs"
        BY <2>1 DEF Form, input, CallInv
      <3>6. CallInv'
        BY <2>1, <3>1, <3>3, <3>4, <3>5 DEF CallInv
      <3>7. Contents'
        BY <2>1, <3>1, ContentsStay
      <3>8. Stages'
        BY <2>1, <3>1 DEF Stages, FirstStage, SecondStage, Busy, input, Addressable, Possible, Chs
      <3> QED
        BY <3>6, <3>7, <3>8
    <2> QED
      BY <2>2, <2>3
  <1>4. CASE GeometryFails
    <2>1. /\ pc = "geometry" /\ Failed
          /\ UNCHANGED <<input, req, at, left, call, calls, memory, disk>>
      BY <1>4 DEF GeometryFails
    <2>2. Stages' /\ (pc' = pc \/ ~Busy') /\ pos' \in {pos, 0}
      BY <2>1, FailedKeeps DEF Busy
    <2>3. Contents'
      BY <2>1, <2>2, ContentsStay
    <2>4. CallInv'
      BY <2>1, <2>2 DEF CallInv, Busy, Form, input
    <2> QED
      BY <2>2, <2>3, <2>4
  <1>5. CASE Reset
    BY <1>5 DEF Reset, Stages, FirstStage, SecondStage, CallInv, Contents, Busy, Form, Want, Start,
                Possible, Addressable, Chs, input, registers
  <1>6. CASE Moved
    <2>1. /\ pc = "move" /\ Exchange(call.count)
          /\ at' = at + call.count /\ left' = left - call.count
          /\ UNCHANGED <<input, req, call, resetting, calls>>
      BY <1>6 DEF Moved
    <2>2. /\ call.count \in 1 .. left /\ (Form = "chs" => call.count = left)
          /\ call.count \in 0 .. call.count /\ Form' = Form
      <3>1. call.count \in 1 .. left /\ (Form = "chs" => call.count = left)
        BY <2>1 DEF CallInv
      <3>2. call.count \in 0 .. call.count
        BY <3>1
      <3> QED
        BY <2>1, <3>1, <3>2 DEF Form, input
    <2>3. CASE left' = 0
      <3>1. call.count = left
        BY <2>1, <2>2, <2>3, WhereItStands DEF Busy
      <3>2. Return(TRUE, pos + call.count)
        BY <1>6, <2>3 DEF Moved
      <3>3. Stages' /\ ~Busy' /\ pos' = pos + call.count
        BY <2>1, <3>1, <3>2, ReturnsAll DEF Busy
      <3>4. Contents'
        BY <2>1, <2>2, <3>3, ExchangeFits
      <3> QED
        BY <3>3, <3>4 DEF CallInv, Busy
    <2>4. CASE left' # 0
      <3>1. /\ pc' = "geometry" /\ pos' = pos + call.count
            /\ UNCHANGED <<carry, dsk_wrflag, entry>>
        BY <1>6, <2>4 DEF Moved
      <3>2. CallInv'
        BY <2>1, <2>2, <2>4, <3>1, WhereItStands DEF CallInv, Busy
      <3>3. Contents'
        BY <2>1, <2>2, <3>1, ExchangeFits
      <3>4. stage = "second" /\ stage' = stage
        BY <2>1, <2>2, <2>4, WhereItStands DEF Busy, Stages, input
      <3>5. /\ pos' \in 0 .. req.count /\ left' = req.count - pos' /\ at' = req.at + pos'
        <4>1. /\ req \in Requests /\ at = req.at + pos /\ left = req.count - pos /\ pos \in Nat
          BY <2>1, <3>4, WhereItStands DEF Busy
        <4>2. req.count \in Nat /\ req.at \in Nat
          BY <4>1, Asked
        <4> QED
          BY <2>1, <2>2, <2>4, <3>1, <4>1, <4>2
      <3>6. SecondStage'
        BY <2>1, <2>4, <3>1, <3>4, <3>5 DEF Stages, SecondStage, Busy, input
      <3> QED
        BY <2>1, <3>2, <3>3, <3>4, <3>6 DEF Stages, input
    <2> QED
      BY <2>3, <2>4
  <1>7. CASE MoveFails
    <2>1. PICK n \in 0 .. call.count : Exchange(n)
      BY <1>7 DEF MoveFails
    <2>2. pc = "move" /\ Failed /\ UNCHANGED <<input, req, at, left, call, calls>>
      BY <1>7 DEF MoveFails
    <2>3. Stages' /\ (pc' = pc \/ ~Busy') /\ pos' \in {pos, 0}
      BY <2>2, FailedKeeps DEF Busy
    <2>4. Contents'
      BY <2>1, <2>2, <2>3, ExchangeFits
    <2>5. CallInv'
      BY <2>2, <2>3 DEF CallInv, Busy, Form, input, Start, Possible
    <2> QED
      BY <2>3, <2>4, <2>5
  <1>8. CASE UNCHANGED vars
    BY <1>8 DEF vars, Stages, FirstStage, SecondStage, CallInv, Contents, Busy, Form, Want, Start,
                Possible, Addressable, Chs, input, registers
  <1> QED
    BY <1>1, <1>2, <1>3, <1>4, <1>5, <1>6, <1>7, <1>8 DEF Next

\* The stages, the calls and the contents fit each other.
THEOREM ReadInvariance == Spec => []ReadInv
  BY InitInv, NextInv, PTL DEF Spec

\* No conversion yields a cylinder, a head or a sector that the disk has not, or a
\* call that reaches over the end of a track; the extended calls stay within LBA32
\* and their limit (geo_comp_addr, lba_read, lba_small of read.S).
THEOREM CallsAlwaysFit == Spec => []CallsFit
  <1>1. ReadInv => CallsFit
    BY DEF ReadInv, CallInv, CallsFit
  <1> QED
    BY <1>1, ReadInvariance, PTL

-----------------------------------------------------------------------------
(* The promise: Transfer.                                                  *)

\* The sectors of a request, in the order of their places.
LEMMA WantedSectors ==
    ASSUME ReadInv
    PROVE  /\ Wanted \in Seq(Sectors) /\ pos \in 0 .. Len(Wanted)
           /\ \A p \in 1 .. Len(Wanted) : Wanted[p] = Want(p)
           /\ Busy => left <= Len(Wanted) - pos
  <1>1. CASE stage = "first"
    <2>1. /\ list \in Lists /\ entry \in 1 .. Len(list.at) + 1 /\ pos = entry - 1
          /\ Wanted = list.at
      BY <1>1 DEF ReadInv, Stages, FirstStage, Wanted
    <2>2. list.at \in Seq(Sectors) /\ Len(list.at) \in Nat
      BY <2>1, Listed
    <2>3. Busy => left = 1 /\ entry \in 1 .. Len(list.at)
      BY <1>1, WhereItStands DEF ReadInv
    <2> QED
      BY <1>1, <2>1, <2>2, <2>3 DEF Want
  <1>2. CASE stage = "second" /\ calls = 0
    <2>1. Wanted = <<>> /\ pos = 0 /\ ~Busy
      BY <1>2 DEF ReadInv, Stages, SecondStage, Wanted, NoRequest, Busy
    <2> QED
      BY <2>1
  <1>3. CASE stage = "second" /\ calls # 0
    <2>1. /\ req \in Requests /\ pos \in 0 .. req.count
          /\ Wanted = [i \in 1 .. req.count |-> req.at + i - 1]
      BY <1>3 DEF ReadInv, Stages, SecondStage, Wanted
    <2>2. req.count \in Nat /\ \A p \in 1 .. req.count : req.at + p - 1 \in Sectors
      BY <2>1, Asked
    <2>3. Wanted \in Seq(Sectors) /\ Len(Wanted) = req.count
      BY <2>1, <2>2
    <2>4. Busy => left = req.count - pos
      BY <1>3, WhereItStands DEF ReadInv
    <2> QED
      BY <1>3, <2>1, <2>2, <2>3, <2>4 DEF Want
  <1> QED
    BY <1>1, <1>2, <1>3 DEF ReadInv, Stages

\* What was moved is the beginning of what was asked for.
LEMMA GotSectors ==
    ASSUME ReadInv
    PROVE  [p \in 1 .. pos |-> Partner(p)] = SubSeq(Wanted, 1, pos)
  <1>1. /\ Wanted \in Seq(Sectors) /\ pos \in 0 .. Len(Wanted)
        /\ \A p \in 1 .. Len(Wanted) : Wanted[p] = Want(p)
    BY WantedSectors
  <1>2. ASSUME NEW p \in 1 .. pos
        PROVE  Partner(p) = Wanted[p]
    <2>1. p \in 1 .. Len(Wanted) /\ Wanted[p] = Want(p) /\ p \in Nat
      BY <1>1
    <2>2. CASE req.op = "read"
      BY <2>1, <2>2 DEF ReadInv, Contents, Partner
    <2>3. CASE req.op # "read"
      <3>1. stage = "second" /\ req \in Requests
        BY <2>3 DEF ReadInv, Stages, FirstStage, SecondStage, NoRequest
      <3>2. req.op = "write" /\ req.at \in Nat
        BY <2>3, <3>1, Asked
      <3>3. /\ \A s \in Sectors : disk[s] = Nothing \/ disk[s] = s - req.at + 1
            /\ disk[req.at + p - 1] = p /\ disk \in [Sectors -> Int]
        BY <3>2 DEF ReadInv, Contents
      <3>4. req.at + p - 1 \in Sectors
        <4>1. pos \in 0 .. req.count
          BY <3>1 DEF ReadInv, Stages, SecondStage
        <4>2. p \in 1 .. req.count
          BY <3>1, <4>1, Asked
        <4> QED
          BY <3>1, <4>2, Asked
      <3>5. \A s \in Sectors : disk[s] = p => s = req.at + p - 1
        BY <2>1, <3>2, <3>3, SectorsAreNumbers DEF Nothing
      <3>6. p \in Range(disk)
        BY <3>3, <3>4 DEF Range
      <3>7. Partner(p) = CHOOSE s \in Sectors : disk[s] = p
        BY <2>3, <3>6 DEF Partner
      <3>8. Partner(p) = req.at + p - 1
        BY <3>3, <3>4, <3>5, <3>7
      <3> QED
        BY <2>1, <3>1, <3>8 DEF Want
    <2> QED
      BY <2>2, <2>3
  <1>3. SubSeq(Wanted, 1, pos) = [p \in 1 .. pos |-> Wanted[p]]
    BY <1>1
  <1> QED
    BY <1>2, <1>3

\* What has been moved is the beginning of what was asked for.
LEMMA GotAfter ==
    ReadInv' => (/\ [p \in 1 .. pos |-> Partner(p)] = SubSeq(Wanted, 1, pos)
                 /\ Wanted \in Seq(Sectors) /\ pos \in 0 .. Len(Wanted))'
  <1>1. ReadInv => /\ [p \in 1 .. pos |-> Partner(p)] = SubSeq(Wanted, 1, pos)
                   /\ Wanted \in Seq(Sectors) /\ pos \in 0 .. Len(Wanted)
    BY GotSectors, WantedSectors
  <1> QED
    BY <1>1, PTL

\* At first nothing is promised.
LEMMA InitPromise == Init => Promise!Init
  <1> SUFFICES ASSUME Init
               PROVE  Promise!Init
    OBVIOUS
  <1>1. ReadInv
    BY InitInv
  <1>2. pos = 0
    BY DEF Init
  <1>3. Status \in {"none", "moving"}
    BY DEF Init, Status
  <1>4. [p \in 1 .. pos |-> Partner(p)] = <<>>
    BY <1>2
  <1> QED
    BY <1>1, <1>3, <1>4, WantedSectors DEF Promise!Init

\* A step that changes none of them stutters.
LEMMA Stutters ==
    ASSUME ReadInv, ReadInv', Wanted' = Wanted, pos' = pos, Status' = Status
    PROVE  UNCHANGED Promise!vars
  <1>1. /\ [p \in 1 .. pos |-> Partner(p)] = SubSeq(Wanted, 1, pos)
        /\ [p \in 1 .. pos |-> Partner(p)]' = SubSeq(Wanted, 1, pos)'
    BY GotSectors, GotAfter
  <1> QED
    BY <1>1 DEF Promise!vars

\* Each step moves a piece, reports, starts over, fails or changes nothing of it.
LEMMA PromiseStep == ReadInv /\ ReadInv' /\ [Next]_vars => [Promise!Next]_(Promise!vars)
  <1> SUFFICES ASSUME ReadInv, ReadInv', [Next]_vars
               PROVE  [Promise!Next]_(Promise!vars)
    OBVIOUS
  <1> DEFINE Got == [p \in 1 .. pos |-> Partner(p)]
  <1>g. /\ Got = SubSeq(Wanted, 1, pos) /\ Wanted \in Seq(Sectors) /\ pos \in 0 .. Len(Wanted)
        /\ Got' = SubSeq(Wanted', 1, pos') /\ Wanted' \in Seq(Sectors) /\ pos' \in 0 .. Len(Wanted')
    BY GotSectors, GotAfter, WantedSectors
  <1>l. Len(Got) = pos /\ Len(Got') = pos'
    BY <1>g
  <1> HIDE DEF Got
  <1>a. Promise!Next <=>
            \/ Promise!Ask \/ Promise!Move \/ Promise!Report
            \/ Promise!StartOver \/ Promise!Fail
    BY DEF Promise!Next
  <1>1. ASSUME NEW r \in Requests, Call(r)
        PROVE  Promise!Ask
    <2>1. pc = "idle" /\ pos' = 0 /\ pc' \in {"move", "geometry"}
      BY <1>1 DEF Call, Dispatch
    <2>2. Status # "moving" /\ Status' = "moving"
      BY <2>1 DEF Status
    <2>3. Got' = <<>>
      BY <1>g, <2>1
    <2> QED
      BY <1>g, <2>2, <2>3 DEF Promise!Ask, Got
  <1>2. CASE NextEntry
    <2>1. pc = "entry" /\ stage = "first" /\ UNCHANGED <<input, pos>>
      BY <1>2 DEF NextEntry, registers, ReadInv, Stages, SecondStage
    <2>2. Wanted' = Wanted /\ Wanted = list.at /\ Status = "moving"
      BY <2>1 DEF Wanted, input, Status
    <2>3. CASE entry > Len(list.at)
      <3>1. pc' = "started"
        BY <1>2, <2>3 DEF NextEntry
      <3>2. pos = Len(Wanted)
        BY <2>1, <2>2, <2>3, Listed DEF ReadInv, Stages, FirstStage
      <3>3. Got = Wanted /\ Got' = Got
        BY <1>g, <2>1, <2>2, <3>2
      <3>4. Status' = "ok"
        BY <3>1 DEF Status
      <3> QED
        BY <2>2, <3>3, <3>4, <1>a DEF Promise!Report, Got
    <2>4. CASE ~(entry > Len(list.at))
      <3>1. pc' \in {"move", "geometry"}
        BY <1>2, <2>4 DEF NextEntry, Dispatch
      <3>2. Status' = Status
        BY <2>2, <3>1 DEF Status
      <3> QED
        BY <2>1, <2>2, <3>2, Stutters
    <2> QED
      BY <2>3, <2>4
  <1>3. ASSUME Busy, Failed, UNCHANGED <<input, req, at, left, calls>>
        PROVE  [Promise!Next]_(Promise!vars)
    <2>1. Status = "moving" /\ Wanted' = Wanted
      BY <1>3 DEF Busy, Status, Wanted, input
    <2>2. CASE UNCHANGED <<pc, pos>>
      <3>1. Status' = Status
        BY <1>3, <2>2 DEF Busy, Status
      <3> QED
        BY <2>1, <2>2, <3>1, Stutters
    <2>3. CASE stage = "second" /\ pos' = pos /\ pc' = "idle" /\ carry' = TRUE
      <3>1. Status' = "failed"
        BY <1>3, <2>3 DEF ReadInv, Stages, SecondStage, Status
      <3>2. Got' = Got
        BY <1>g, <2>1, <2>3
      <3> QED
        BY <1>a, <2>1, <3>1, <3>2 DEF Promise!Fail, Got
    <2>4. CASE pc' = "entry" /\ pos' = 0
      <3>1. Status' = "moving" /\ Got' = <<>>
        BY <1>g, <2>4 DEF Status
      <3> QED
        BY <1>a, <2>1, <3>1 DEF Promise!StartOver, Got
    <2> QED
      BY <1>3, <2>2, <2>3, <2>4, FailedLeads DEF ReadInv
  <1>4. CASE Geometry
    <2>1. pc = "geometry" /\ UNCHANGED <<input, req, at, left, resetting, calls, memory, disk>>
      BY <1>4 DEF Geometry
    <2>2. Status = "moving" /\ Wanted' = Wanted
      BY <2>1 DEF Status, Wanted, input
    <2>3. CASE PerCylinder = 0 \/ OutOfReach(at)
      <3>1. Return(FALSE, pos)
        BY <1>4, <2>3 DEF Geometry
      <3>2. CASE stage = "second"
        <4>1. Status' = "failed" /\ pos' = pos
          BY <2>1, <3>1, <3>2 DEF Return, Status, ReadInv, Stages, SecondStage, Busy
        <4>2. Got' = Got
          BY <1>g, <2>2, <4>1
        <4> QED
          BY <1>a, <2>2, <4>1, <4>2 DEF Promise!Fail, Got
      <3>3. CASE stage = "first"
        <4>1. Status' = "moving" /\ pos' = 0
          BY <3>1, <3>3 DEF Return, Status
        <4>2. Got' = <<>>
          BY <1>g, <4>1
        <4> QED
          BY <1>a, <2>2, <4>1, <4>2 DEF Promise!StartOver, Got
      <3> QED
        BY <3>2, <3>3 DEF ReadInv, Stages
    <2>4. CASE ~(PerCylinder = 0 \/ OutOfReach(at))
      <3>1. pc' = "move" /\ pos' = pos
        BY <1>4, <2>4 DEF Geometry
      <3>2. Status' = Status
        BY <2>2, <3>1 DEF Status
      <3> QED
        BY <2>2, <3>1, <3>2, Stutters
    <2> QED
      BY <2>3, <2>4
  <1>5. CASE GeometryFails
    BY <1>3, <1>5 DEF GeometryFails, Busy
  <1>6. CASE MoveFails
    BY <1>3, <1>6 DEF MoveFails, Busy
  <1>7. CASE Reset
    <2>1. Wanted' = Wanted /\ pos' = pos /\ Status' = Status
      BY <1>7 DEF Reset, input, registers, Wanted, Status
    <2> QED
      BY <2>1, Stutters
  <1>8. CASE Moved
    <2>1. /\ pc = "move" /\ left' = left - call.count /\ call.count \in 1 .. left
          /\ UNCHANGED <<input, req, calls>>
      BY <1>8 DEF Moved, ReadInv, CallInv
    <2>2. Status = "moving" /\ Wanted' = Wanted
      BY <2>1 DEF Status, Wanted, input
    <2>3. /\ left \in Nat /\ left <= Len(Wanted) - pos
      BY <2>1, WantedSectors, WhereItStands DEF Busy, ReadInv
    <2>4. pos' = pos + call.count
      BY <1>8 DEF Moved, Return
    <2>5. pos' \in Len(Got) + 1 .. Len(Wanted)
      BY <1>g, <1>l, <2>1, <2>3, <2>4, SMTT(30)
    <2>6. Got' = SubSeq(Wanted, 1, pos')
      BY <1>g, <2>2
    <2>7. Status' \in {"moving", "ok"}
      <3>1. CASE left' = 0 /\ stage = "second"
        <4>1. pc' = "idle" /\ carry' = FALSE /\ calls # 0
          BY <1>8, <2>1, <3>1 DEF Moved, Return, ReadInv, Stages, SecondStage, Busy
        <4> QED
          BY <2>1, <4>1 DEF Status
      <3>2. CASE left' = 0 /\ stage = "first"
        BY <1>8, <3>2 DEF Moved, Return, Status
      <3>3. CASE left' # 0
        BY <1>8, <3>3 DEF Moved, Status
      <3> QED
        BY <3>1, <3>2, <3>3 DEF ReadInv, Stages
    <2>8. ASSUME Status' = "ok"
          PROVE  Got' = Wanted
      <3>1. stage = "second" /\ pc' = "idle" /\ left' = 0
        BY <1>8, <2>8 DEF Moved, Return, Status, ReadInv, Stages
      <3>2. Len(Wanted) = req.count /\ left = req.count - pos /\ req.count \in Nat
        <4>1. calls # 0 /\ req \in Requests /\ left = req.count - pos
          BY <2>1, <3>1 DEF ReadInv, Stages, SecondStage, Busy
        <4>2. Wanted = [i \in 1 .. req.count |-> req.at + i - 1] /\ req.count \in Nat
          BY <3>1, <4>1, Asked DEF Wanted
        <4> QED
          BY <4>1, <4>2
      <3>3. pos' = Len(Wanted)
        BY <1>g, <2>1, <2>4, <3>1, <3>2
      <3> QED
        BY <1>g, <2>6, <3>3
    <2>9. Promise!Move
      BY <2>2, <2>5, <2>6, <2>7, <2>8 DEF Promise!Move, Got
    <2> QED
      BY <1>a, <2>9
  <1>9. CASE UNCHANGED vars
    <2>1. Wanted' = Wanted /\ pos' = pos /\ Status' = Status
      BY <1>9 DEF vars, input, registers, Wanted, Status
    <2> QED
      BY <2>1, Stutters
  <1> QED
    BY <1>1, <1>2, <1>4, <1>5, <1>6, <1>7, <1>8, <1>9, <1>a DEF Next

\* However it is cut into pieces, retried and begun again, a request moves the
\* sectors it names in their order, and success means that all were moved: the
\* routines implement Transfer.
THEOREM RequestsMoveAsAsked == Spec => MovesAsAsked
  <1>1. ReadInv /\ ReadInv' /\ [Next]_vars => [Promise!Next]_(Promise!vars)
    BY PromiseStep
  <1> QED
    BY <1>1, InitPromise, ReadInvariance, PTL DEF Spec, MovesAsAsked, Promise!Spec
=============================================================================
