-------------------------- MODULE MapSectionsProofs --------------------------
(***************************************************************************)
(* Theorems about the map sections, for any files, disks, high parts, page *)
(* sizes and segments.                                                     *)
(*                                                                         *)
(* The argument: there is a list of addresses, of which the first are in   *)
(* the pages and the others still in `map`, and each of them stands for a  *)
(* run of sectors of the file that begins where the run of the one before  *)
(* it ends.  What the installer counts while it merges is where the run    *)
(* begins, and so is where the loader stands in memory.                    *)
(***************************************************************************)
EXTENDS MapSections, SequenceTheorems, TLAPS

Addresses == [dev : Devices, nocount : BOOLEAN, track : Nat, lo : Nat, num : Nat]

High(s) == s.at \div Base

\* The address is that of the sector, or has given up its high part for a count.
Stands(a, s) ==
    /\ a.dev = s.dev /\ a.track = Address(s).track /\ a.lo = Address(s).lo
    /\ IF a.nocount THEN a = Address(s) ELSE a.num \in Nat \ {0}

\* The n sectors from the p-th one on are adjacent on their disk.
Adjacent(p, n) ==
    \A i \in 0 .. n - 1 : file[p + i] = [dev |-> file[p].dev, at |-> file[p].at + i]

\* The e-th address stands for the run of sectors that begins with the pos[e]-th.
Covers(list, pos) ==
    /\ list \in Seq(Addresses) /\ pos \in [Nat -> Nat]
    /\ pos[1] = 1 /\ pos[Len(list) + 1] = Len(file) + 1
    /\ \A e \in 1 .. Len(list) :
        /\ pos[e] \in 1 .. Len(file)
        /\ pos[e + 1] = pos[e] + Count(list[e]) /\ pos[e + 1] <= Len(file) + 1
        /\ Stands(list[e], file[pos[e]])
        /\ Adjacent(pos[e], Count(list[e]))

\* An address with a count has its high part from the one before it.
Inherits(list, pos) ==
    \A e \in 1 .. Len(list) :
        Lba(list[e].dev) /\ ~list[e].nocount =>
            /\ e > 1 /\ list[e - 1].dev = list[e].dev
            /\ High(file[pos[e - 1]]) = High(file[pos[e]])

\* Where a run begins and ends, counted from the first sector that may be merged.
From(p) == p - Alone(kind) - 1

\* The first addresses have one sector each, the others a run within 64 kB.
Aligned(list, pos) ==
    \A e \in 1 .. Len(list) :
        /\ e <= Alone(kind) => pos[e] = e /\ Count(list[e]) = 1
        /\ e > Alone(kind) =>
            /\ pos[e] > Alone(kind)
            /\ From(pos[e]) \div Segment = From(pos[e] + Count(list[e]) - 1) \div Segment

\* Where map_compact is: the addresses behind are untouched, and offset and noffset
\* are the first and the last sector of the present run.
Merging(list, pos) ==
    /\ pc = "add" =>
        /\ Len(list) = Len(file) /\ offset = 0 /\ noffset = 0
        /\ \A e \in Nat : pos[e] = e
        /\ \A e \in 1 .. Len(list) : list[e] = Address(file[e])
    /\ pc = "compact" =>
        /\ walk > Alone(kind)
        /\ \A e \in walk + 1 .. Len(list) : list[e] = Address(file[pos[e]])
        /\ walk <= Len(list) =>
            /\ From(pos[walk]) = offset
            /\ From(pos[walk] + Count(list[walk]) - 1) = noffset
            /\ Lba(list[walk].dev) /\ ~list[walk].nocount => hinib = High(file[pos[walk]])

\* How many addresses are in the pages.
Written == IF pages = <<>> THEN 0 ELSE (Len(pages) - 1) * PageEntries + Len(pages[Len(pages)])

\* The pages and the rest of the map are the list.
Paged(list) ==
    /\ pc \in {"add", "compact"} => pages = <<>>
    /\ pc \in {"compact", "emit"} => file # <<>>
    /\ pc \in {"read", "loaded"} => pages # <<>> /\ map = <<>>
    /\ Written + Len(map) = Len(list)
    /\ \A m \in 1 .. Len(map) : map[m] = list[Written + m]
    /\ \A p \in 1 .. Len(pages) :
        /\ Len(pages[p]) \in 1 .. PageEntries
        /\ p < Len(pages) => Len(pages[p]) = PageEntries
        /\ \A k \in 1 .. Len(pages[p]) : pages[p][k] = list[(p - 1) * PageEntries + k]

\* The loader has read what is before its entry, and stands behind it.
Loading(list, pos) ==
    /\ pc \notin {"read", "loaded"} => slot.page = 1 /\ slot.entry = 1
    /\ pc \in {"read", "loaded"} =>
        /\ slot.page \in 1 .. Len(pages) /\ slot.entry \in 1 .. Len(pages[slot.page]) + 1
    /\ pc = "loaded" => slot.page = Len(pages) /\ slot.entry = Len(pages[slot.page]) + 1
    /\ DOMAIN memory = {Belongs(i) : i \in 1 .. pos[Entry] - 1}
    /\ \A i \in 1 .. pos[Entry] - 1 : memory[Belongs(i)] = file[i]
    /\ Entry > 1 =>
        /\ dest.area = Belongs(pos[Entry] - 1).area /\ dest.bx < Segment
        /\ dest.es * Segment + dest.bx = Belongs(pos[Entry] - 1).at + 1
        /\ Lba(list[Entry - 1].dev) => loaderHi = High(file[pos[Entry - 1]])

TypeInv ==
    /\ mode \in Modes /\ compact \in BOOLEAN /\ kind \in {"none", "low", "high", "ramdisk"}
    /\ pc \in {"add", "compact", "emit", "read", "loaded", "died"}
    /\ file \in Seq(Sectors) /\ map \in Seq(Addresses) /\ pages \in Seq(Seq(Addresses))
    /\ walk \in Nat \ {0} /\ hinib \in Int /\ offset \in Nat /\ noffset \in Nat
    /\ sectors \in Nat /\ slot \in [page : Nat, entry : Nat] /\ loaderHi \in Nat
    /\ dest \in [area : {"init", "setup", "system", "high"}, es : Nat, bx : Nat]

\* All that is said of one list and its runs.
Runs(list, pos) ==
    /\ Covers(list, pos) /\ Inherits(list, pos) /\ Aligned(list, pos)
    /\ Merging(list, pos) /\ Paged(list) /\ Loading(list, pos)

\* The inductive invariant.
MapInv == TypeInv /\ \E list, pos : Runs(list, pos)

-----------------------------------------------------------------------------
(* Numbers and addresses.                                                  *)

\* A dividend is made up of its quotient and its remainder.
LEMMA Division ==
    ASSUME NEW s \in Nat, NEW b \in Nat \ {0}
    PROVE  /\ s \div b \in Nat /\ s % b \in 0 .. b - 1
           /\ s = (s \div b) * b + (s % b)
  OBVIOUS

\* Both together.
LEMMA Divided ==
    ASSUME NEW s \in Nat, NEW b \in Nat \ {0}
    PROVE  \E d \in Nat, r \in 0 .. b - 1 : s = d * b + r /\ s \div b = d
  BY Division

\* And of no others.
LEMMA Quotient ==
    ASSUME NEW b \in Nat \ {0}, NEW q \in Nat, NEW r \in 0 .. b - 1
    PROVE  (q * b + r) \div b = q /\ (q * b + r) % b = r
  OBVIOUS

\* What a sequence is made of.
LEMMA Element ==
    ASSUME NEW T, NEW q \in Seq(T), NEW i \in 1 .. Len(q)
    PROVE  q[i] \in T /\ i \in Nat
  OBVIOUS

\* The high and the low part of a sector's number.
LEMMA SectorType ==
    ASSUME NEW s \in Sectors
    PROVE  /\ s.dev \in Devices /\ s.at \in Nat /\ s = [dev |-> s.dev, at |-> s.at]
           /\ High(s) \in Nat /\ s.at % Base \in 0 .. Base - 1
           /\ s.at = High(s) * Base + (s.at % Base)
  <1>1. s.dev \in Devices /\ s.at \in Nat /\ s = [dev |-> s.dev, at |-> s.at]
    BY MapAssumption
  <1>2. Base \in Nat \ {0}
    BY MapAssumption
  <1> QED
    BY <1>1, <1>2, Division DEF High

\* A fresh address stands for its one sector.
LEMMA AddressType ==
    ASSUME NEW s \in Sectors
    PROVE  /\ Address(s) \in Addresses /\ Count(Address(s)) = 1
           /\ Stands(Address(s), s) /\ Address(s).dev = s.dev
           /\ Address(s).nocount = Lba(s.dev)
  <1>1. s.dev \in Devices /\ s.at \in Nat /\ High(s) \in Nat /\ s.at % Base \in Nat
    BY SectorType, MapAssumption
  <1>2. Lba(s.dev) \in BOOLEAN
    BY DEF Lba
  <1>3. /\ Address(s).dev = s.dev /\ Address(s).nocount = Lba(s.dev)
        /\ Address(s).track \in Nat /\ Address(s).lo \in Nat /\ Address(s).num \in Nat
        /\ ~Lba(s.dev) => Address(s).num = 1
    BY <1>1 DEF Address, High
  <1>4. Address(s) \in Addresses
    BY <1>1, <1>2 DEF Address, Addresses, High
  <1> QED
    BY <1>3, <1>4 DEF Count, Stands

\* What cread makes of an address is where its run begins, if the high part it has
\* to add is that of the run.
LEMMA NumberOfRun ==
    ASSUME NEW s \in Sectors, NEW a \in Addresses, Stands(a, s), loaderHi \in Nat,
           Lba(a.dev) /\ ~a.nocount => loaderHi = High(s)
    PROVE  /\ Number(a) = s.at /\ a.dev = s.dev
           /\ Lba(a.dev) => HighOf(a) = High(s)
  <1>1. /\ s.at \in Nat /\ High(s) \in Nat /\ s.at % Base \in Nat
        /\ s.at = High(s) * Base + (s.at % Base)
    BY SectorType, MapAssumption
  <1>2. a.dev = s.dev
    BY DEF Stands
  <1>3. CASE Lba(s.dev)
    <2>1. a.lo = s.at % Base
      BY <1>3 DEF Stands, Address, Lba, Linear
    <2>2. HighOf(a) = High(s)
      <3>1. a.nocount => a.num = High(s)
        BY <1>3 DEF Stands, Address, High
      <3> QED
        BY <1>2, <1>3, <3>1 DEF HighOf
    <2> QED
      BY <1>1, <1>2, <1>3, <2>1, <2>2 DEF Number
  <1>4. CASE ~Lba(s.dev) /\ Linear(s.dev)
    BY <1>1, <1>2, <1>4 DEF Stands, Address, Number
  <1>5. CASE ~Lba(s.dev) /\ ~Linear(s.dev)
    <2>1. a.lo = s.at % Base /\ a.track = High(s)
      BY <1>5 DEF Stands, Address, High
    <2> QED
      BY <1>1, <1>2, <1>5, <2>1 DEF Number
  <1> QED
    BY <1>3, <1>4, <1>5

\* A sector that continues a run comes next on the disk.
LEMMA NextOnDisk ==
    ASSUME NEW s \in Sectors, NEW t \in Sectors, NEW a \in Addresses,
           Stands(a, s), Continues(a, Address(t)),
           Lba(a.dev) /\ ~a.nocount => hinib = High(s)
    PROVE  ~a.nocount /\ t = [dev |-> s.dev, at |-> s.at + a.num]
  <1> DEFINE b == Address(t)
  <1>1. /\ s.at \in Nat /\ High(s) \in Nat /\ s.at % Base \in Nat
        /\ s.at = High(s) * Base + (s.at % Base)
        /\ t.at \in Nat /\ High(t) \in Nat /\ t.at % Base \in Nat
        /\ t.at = High(t) * Base + (t.at % Base)
        /\ t = [dev |-> t.dev, at |-> t.at]
    BY SectorType, MapAssumption
  <1>2. a.dev = s.dev /\ b.dev = t.dev /\ a.dev = b.dev
    BY AddressType DEF Stands, Continues
  <1>3. a.track = b.track /\ a.lo + a.num = b.lo /\ a.num \in Nat /\ a.lo \in Nat
    BY DEF Continues, Addresses
  <1>4. ~a.nocount
    <2>1. CASE Lba(s.dev)
      BY <1>2, <2>1 DEF Continues
    <2>2. CASE ~Lba(s.dev)
      BY <2>2, AddressType DEF Stands
    <2> QED
      BY <2>1, <2>2
  <1>5. CASE Linear(s.dev) /\ ~Lba(s.dev)
    <2>1. a.lo = s.at
      BY <1>5 DEF Address, Stands
    <2>2. b.lo = t.at
      BY <1>2, <1>5 DEF Address
    <2> HIDE DEF b
    <2> QED
      BY <1>1, <1>2, <1>3, <1>4, <2>1, <2>2
  <1>6. CASE ~Linear(s.dev) \/ Lba(s.dev)
    <2>1. a.lo = s.at % Base
      BY <1>6 DEF Address, Stands, Lba, Linear
    <2>2. b.lo = t.at % Base
      BY <1>2, <1>6 DEF Address, Lba, Linear
    <2>3. High(t) = High(s)
      <3>1. CASE Lba(s.dev)
        <4>1. hinib = b.num /\ hinib = High(s)
          BY <1>2, <1>4, <3>1 DEF Continues
        <4>2. b.num = High(t)
          BY <1>2, <3>1 DEF Address, High
        <4> QED
          BY <4>1, <4>2
      <3>2. CASE ~Lba(s.dev)
        <4>1. a.track = High(s)
          BY <1>6, <3>2 DEF Address, Stands, High
        <4>2. b.track = High(t)
          BY <1>2, <1>6, <3>2 DEF Address, High
        <4> QED
          BY <1>3, <4>1, <4>2
      <3> QED
        BY <3>1, <3>2
    <2> HIDE DEF b
    <2>4. High(t) * Base = High(s) * Base /\ High(s) * Base \in Nat
      BY <1>1, <2>3, MapAssumption
    <2>5. t.at = s.at + a.num
      <3> DEFINE x == High(s) * Base
                 y == s.at % Base
                 z == t.at % Base
      <3>1. t.at = x + z /\ s.at = x + y /\ x \in Nat /\ y \in Nat /\ z \in Nat
        BY <1>1, <2>4
      <3>2. y + a.num = z
        BY <1>3, <2>1, <2>2
      <3> HIDE DEF x, y, z
      <3> QED
        BY <1>1, <1>3, <3>1, <3>2
    <2> QED
      BY <1>1, <1>2, <1>4, <2>5
  <1> QED
    BY <1>5, <1>6

\* Nothing that was mapped changes while the installer and the loader go on.
LEMMA KeepRuns ==
    ASSUME NEW list, NEW pos, Covers(list, pos), Inherits(list, pos), UNCHANGED <<mode, file>>
    PROVE  /\ Covers(list, pos)' /\ Inherits(list, pos)'
           /\ kind' = kind /\ Aligned(list, pos) => Aligned(list, pos)'
  <1>1. \A d : Lba(d)' = Lba(d)
    BY DEF Lba
  <1>2. \A s : Address(s)' = Address(s)
    BY DEF Address, Lba, Linear
  <1>3. \A a, s : Stands(a, s)' = Stands(a, s)
    BY <1>2 DEF Stands
  <1>4. \A p, n : Adjacent(p, n)' = Adjacent(p, n)
    BY DEF Adjacent
  <1>5. \A s : High(s)' = High(s)
    BY DEF High
  <1>6. \A a : Count(a)' = Count(a)
    BY DEF Count
  <1>7. Covers(list, pos)'
    BY <1>3, <1>4, <1>6 DEF Covers
  <1>8. Inherits(list, pos)'
    BY <1>1, <1>5 DEF Inherits
  <1>9. kind' = kind /\ Aligned(list, pos) => Aligned(list, pos)'
    BY <1>6 DEF Aligned, Alone, From
  <1> QED
    BY <1>7, <1>8, <1>9

\* Neither does what is in memory while the loader does not read.
LEMMA KeepLoading ==
    ASSUME NEW list, NEW pos, Loading(list, pos),
           pc' = pc \/ (pc' \notin {"read", "loaded"} /\ pc \notin {"read", "loaded"}),
           UNCHANGED <<mode, kind, file, slot, loaderHi, dest, memory>>,
           pages' = pages \/ pc \notin {"read", "loaded"}
    PROVE  Loading(list, pos)'
  <1>1. \A i : Belongs(i)' = Belongs(i)
    BY DEF Belongs
  <1>2. \A d : Lba(d)' = Lba(d)
    BY DEF Lba
  <1>3. Entry' = Entry
    BY DEF Entry
  <1>4. \A s : High(s)' = High(s)
    BY DEF High
  <1> QED
    BY <1>1, <1>2, <1>3, <1>4 DEF Loading

-----------------------------------------------------------------------------
(* The map installer.                                                      *)

\* The beginning: no sector, no address, nothing loaded.
LEMMA InitMap == Init => MapInv
  <1> SUFFICES ASSUME Init
               PROVE  MapInv
    OBVIOUS
  <1> DEFINE pos == [e \in Nat |-> e]
  <1>1. TypeInv
    BY DEF Init, TypeInv
  <1>2. Covers(<<>>, pos)
    BY DEF Init, Covers
  <1>3. Inherits(<<>>, pos) /\ Aligned(<<>>, pos)
    BY DEF Inherits, Aligned
  <1>4. Merging(<<>>, pos)
    BY DEF Merging, Init
  <1>5. Paged(<<>>)
    BY DEF Paged, Init, Written
  <1>6. Loading(<<>>, pos)
    <2>1. Entry = 1 /\ pos[Entry] = 1
      BY MapAssumption DEF Init, Entry
    <2>2. DOMAIN memory = {}
      BY DEF Init
    <2> HIDE DEF pos
    <2> QED
      BY <2>1, <2>2 DEF Loading, Init
  <1> HIDE DEF pos
  <1> QED
    BY <1>1, <1>2, <1>3, <1>4, <1>5, <1>6 DEF MapInv, Runs

\* map_end_section.
LEMMA EndSectionMap ==
    ASSUME TypeInv, NEW list, NEW pos, Runs(list, pos), NEW k \in Kinds, EndSection(k)
    PROVE  TypeInv' /\ Runs(list, pos)'
  <1>1. /\ pc = "add" /\ kind' = k /\ walk' = Alone(k) + 1
        /\ pc' = IF file = <<>> THEN "died" ELSE IF compact THEN "compact" ELSE "emit"
        /\ UNCHANGED <<mode, compact, file, map, hinib, offset, noffset, pages, sectors, loader>>
    BY DEF EndSection
  <1>a. Alone(k) \in Nat \ {0} /\ Alone(kind)' = Alone(k)
    BY <1>1, MapAssumption DEF Alone, Header
  <1>2. TypeInv'
    <2>1. kind' \in {"low", "high", "ramdisk"} /\ walk' \in Nat \ {0}
      BY <1>1, <1>a, MapAssumption
    <2>2. pc' \in {"died", "compact", "emit"}
      BY <1>1
    <2>3. UNCHANGED <<mode, compact, file, map, hinib, offset, noffset, pages, sectors,
                      slot, loaderHi, dest>>
      BY <1>1 DEF loader
    <2> QED
      BY <2>1, <2>2, <2>3 DEF TypeInv
  <1>3. Covers(list, pos)' /\ Inherits(list, pos)'
    BY <1>1, KeepRuns DEF Runs
  <1>4. /\ Len(list) = Len(file) /\ Len(list) \in Nat /\ \A e \in Nat : pos[e] = e
        /\ \A e \in 1 .. Len(list) : list[e] = Address(file[e]) /\ Count(list[e]) = 1
    <2>1. /\ Len(list) = Len(file) /\ \A e \in Nat : pos[e] = e
          /\ \A e \in 1 .. Len(list) : list[e] = Address(file[e])
      BY <1>1 DEF Runs, Merging
    <2>2. Len(list) \in Nat /\ \A e \in 1 .. Len(list) : file[e] \in Sectors
      BY <2>1 DEF TypeInv
    <2> QED
      BY <2>1, <2>2, AddressType
  <1>5. Aligned(list, pos)'
    <2> SUFFICES ASSUME NEW e \in 1 .. Len(list)
                 PROVE  /\ e <= Alone(k) => pos[e] = e /\ Count(list[e]) = 1
                        /\ e > Alone(k) =>
                            /\ pos[e] > Alone(k)
                            /\ From(pos[e])' \div Segment
                                 = From(pos[e] + Count(list[e]) - 1)' \div Segment
      BY <1>a DEF Aligned, Count
    <2>1. pos[e] = e /\ Count(list[e]) = 1 /\ e \in Nat
      BY <1>4
    <2>2. pos[e] + Count(list[e]) - 1 = pos[e]
      BY <2>1
    <2>3. From(pos[e])' \div Segment = From(pos[e] + Count(list[e]) - 1)' \div Segment
      BY <2>2 DEF From
    <2> QED
      BY <2>1, <2>3
  <1>6. Merging(list, pos)'
    <2>1. \A e \in (walk + 1)' .. Len(list) : list[e] = Address(file[pos[e]])'
      <3> TAKE e \in (walk + 1)' .. Len(list)
      <3>1. e \in 1 .. Len(list)
        BY <1>1, <1>a, <1>4
      <3> QED
        BY <1>1, <1>4, <3>1 DEF Address, Lba, Linear
    <2>2. walk' > Alone(kind)' /\ pc' # "add"
      BY <1>1, <1>a
    <2>3. ASSUME walk' <= Len(list)
          PROVE  /\ From(pos[walk])' = offset'
                 /\ From(pos[walk] + Count(list[walk]) - 1)' = noffset'
                 /\ ~(Lba(list[walk].dev) /\ ~list[walk].nocount)'
      <3>1. walk' \in 1 .. Len(list) /\ walk' = Alone(k) + 1
        BY <1>1, <1>a, <1>4, <2>3
      <3> DEFINE w == Alone(k) + 1
      <3>2. file[w] \in Sectors /\ list[w] = Address(file[w]) /\ pos[w] = w /\ Count(list[w]) = 1
        BY <1>4, <1>a, <3>1 DEF TypeInv
      <3>3. list[w].dev = file[w].dev /\ list[w].nocount = Lba(file[w].dev)
        BY <3>2, AddressType
      <3>4. offset' = 0 /\ noffset' = 0
        BY <1>1 DEF Runs, Merging
      <3>5. walk' = w
        BY <3>1
      <3> HIDE DEF w
      <3>6. ~(Lba(list[walk].dev) /\ ~list[walk].nocount)'
        BY <1>1, <3>3, <3>5 DEF Lba
      <3>7. w = Alone(k) + 1 /\ w \in Nat
        BY <1>a DEF w
      <3>8. From(w)' = 0 /\ From(w + 1 - 1)' = 0
        BY <1>a, <3>7 DEF From
      <3> QED
        BY <3>2, <3>4, <3>5, <3>6, <3>8 DEF From, Count
    <2> QED
      BY <2>1, <2>2, <2>3 DEF Merging
  <1>7. Paged(list)'
    BY <1>1 DEF Runs, Paged, Written, loader
  <1>8. Loading(list, pos)'
    <2>1. Entry = 1 /\ Entry' = 1
      BY <1>1, MapAssumption DEF Runs, Loading, Entry, loader
    <2>2. pos[Entry] = 1
      BY <2>1 DEF Runs, Covers
    <2>3. DOMAIN memory = {} /\ memory' = memory
      BY <1>1, <2>1, <2>2 DEF Runs, Loading, loader
    <2> QED
      BY <1>1, <2>1, <2>2, <2>3 DEF Runs, Loading, loader
  <1> QED
    BY <1>2, <1>3, <1>5, <1>6, <1>7, <1>8 DEF Runs

\* map_add: the list gets the address of the sector that the file gets.
LEMMA AddSectorMap ==
    ASSUME TypeInv, NEW list, NEW pos, Runs(list, pos), NEW s \in Sectors, AddSector(s)
    PROVE  TypeInv' /\ \E new : Runs(new, pos)'
  <1> DEFINE n == Len(list)
  <1>1. /\ pc = "add" /\ file' = Append(file, s) /\ map' = Append(map, Address(s))
        /\ UNCHANGED <<mode, compact, kind, pc, compaction, pages, sectors, loader>>
    BY DEF AddSector
  <1>2. /\ Len(list) = Len(file) /\ offset = 0 /\ noffset = 0 /\ pages = <<>>
        /\ \A e \in Nat : pos[e] = e
        /\ \A e \in 1 .. Len(list) : list[e] = Address(file[e])
        /\ list \in Seq(Addresses) /\ file \in Seq(Sectors) /\ map \in Seq(Addresses)
        /\ pos \in [Nat -> Nat]
    BY <1>1 DEF Runs, Merging, Covers, Paged, TypeInv
  <1>3. Address(s) \in Addresses /\ Count(Address(s)) = 1
    BY AddressType
  <1>4. TypeInv'
    BY <1>1, <1>2, <1>3 DEF TypeInv, compaction, loader
  <1>5. PICK new \in Seq(Addresses) :
            /\ Len(new) = n + 1 /\ n \in Nat
            /\ \A e \in 1 .. n : new[e] = list[e]
            /\ new[n + 1] = Address(s)
    <2>1. /\ Append(list, Address(s)) \in Seq(Addresses) /\ Len(Append(list, Address(s))) = n + 1
          /\ n \in Nat /\ \A e \in 1 .. n : Append(list, Address(s))[e] = list[e]
          /\ Append(list, Address(s))[n + 1] = Address(s)
      BY <1>2, <1>3, AppendProperties
    <2> QED
      BY <2>1
  <1>6. /\ file' \in Seq(Sectors) /\ Len(file') = n + 1
        /\ \A e \in 1 .. n : file'[e] = file[e]
        /\ file'[n + 1] = s
    BY <1>1, <1>2, AppendProperties
  <1>7. \A t : Address(t)' = Address(t)
    BY <1>1 DEF Address, Lba, Linear
  <1>8. \A e \in 1 .. n + 1 : file'[e] \in Sectors /\ new[e] = Address(file'[e])
    <2> TAKE e \in 1 .. n + 1
    <2>1. file'[e] \in Sectors
      BY <1>6
    <2>2. CASE e = n + 1
      BY <1>5, <1>6, <2>1, <2>2
    <2>3. CASE e # n + 1
      <3>1. e \in 1 .. n
        BY <1>5, <2>3
      <3> QED
        BY <1>2, <1>5, <1>6, <2>1, <3>1
    <2> QED
      BY <2>2, <2>3
  <1> HIDE DEF n
  <1>9. \A e \in 1 .. n + 1 : /\ Count(new[e]) = 1 /\ Stands(new[e], file'[e])
                              /\ new[e].dev = file'[e].dev /\ new[e].nocount = Lba(file'[e].dev)
                              /\ file'[e] = [dev |-> file'[e].dev, at |-> file'[e].at]
                              /\ file'[e].at \in Nat
    BY <1>8, AddressType, SectorType
  <1>0. \A e \in 1 .. n + 1 : e \in Nat /\ pos[e] = e /\ pos[e + 1] = e + 1 /\ Count(new[e]) = 1
    <2> TAKE e \in 1 .. n + 1
    <2>1. e \in Nat /\ e + 1 \in Nat
      BY <1>5
    <2> QED
      BY <1>2, <1>9, <2>1
  <1>10. Covers(new, pos)'
    <2>1. pos[1] = 1 /\ pos[Len(new) + 1] = Len(file') + 1
      BY <1>2, <1>5, <1>6
    <2>2. \A e \in 1 .. Len(new) :
            /\ pos[e] \in 1 .. Len(file')
            /\ pos[e + 1] = pos[e] + Count(new[e]) /\ pos[e + 1] <= Len(file') + 1
      BY <1>0, <1>5, <1>6
    <2>3. \A e \in 1 .. Len(new) : Stands(new[e], file[pos[e]])'
      <3> TAKE e \in 1 .. Len(new)
      <3>1. pos[e] = e /\ Stands(new[e], file'[e])
        BY <1>0, <1>5, <1>9
      <3> QED
        BY <1>7, <3>1 DEF Stands
    <2>4. \A e \in 1 .. Len(new) : Adjacent(pos[e], Count(new[e]))'
      <3> TAKE e \in 1 .. Len(new)
      <3>1. pos[e] = e /\ Count(new[e]) = 1 /\ e \in Nat
        BY <1>0, <1>5, <1>9
      <3>2. file'[e + 0] = [dev |-> file'[e].dev, at |-> file'[e].at + 0]
        <4>1. e \in 1 .. n + 1
          BY <1>5
        <4>2. /\ file'[e] = [dev |-> file'[e].dev, at |-> file'[e].at]
              /\ file'[e].at \in Nat
          BY <1>9, <4>1
        <4>3. e + 0 = e /\ file'[e].at + 0 = file'[e].at
          BY <3>1, <4>2
        <4> QED
          BY <4>2, <4>3
      <3>3. \A i \in 0 .. 1 - 1 : i = 0
        OBVIOUS
      <3>4. Adjacent(e, 1)'
        BY <3>2, <3>3 DEF Adjacent
      <3> QED
        BY <3>1, <3>4 DEF Count
    <2> QED
      BY <1>2, <1>5, <2>1, <2>2, <2>3, <2>4 DEF Covers, Count
  <1>11. Inherits(new, pos)'
    BY <1>1, <1>5, <1>9 DEF Inherits, Lba
  <1>12. Aligned(new, pos)'
    <2>0. Alone(kind) \in Nat /\ Alone(kind)' = Alone(kind)
      BY <1>1, MapAssumption DEF Alone, Header
    <2> SUFFICES ASSUME NEW e \in 1 .. Len(new)
                 PROVE  /\ e <= Alone(kind) => pos[e] = e /\ Count(new[e]) = 1
                        /\ e > Alone(kind) =>
                            /\ pos[e] > Alone(kind)
                            /\ From(pos[e]) \div Segment
                                 = From(pos[e] + Count(new[e]) - 1) \div Segment
      BY <1>1, <2>0 DEF Aligned, Count, From
    <2>1. pos[e] = e /\ Count(new[e]) = 1 /\ e \in Nat
      BY <1>0, <1>5
    <2>2. pos[e] + Count(new[e]) - 1 = pos[e]
      BY <2>1
    <2> QED
      BY <2>1, <2>2
  <1>13. Merging(new, pos)'
    <2>1. Len(new) = Len(file') /\ pc' = "add" /\ offset' = 0 /\ noffset' = 0
      BY <1>1, <1>2, <1>5, <1>6 DEF compaction
    <2>2. \A e \in 1 .. Len(new) : new[e] = Address(file[e])'
      <3> TAKE e \in 1 .. Len(new)
      <3>1. new[e] = Address(file'[e])
        BY <1>5, <1>8
      <3> QED
        BY <1>1, <3>1 DEF Address, Lba, Linear
    <2> QED
      BY <1>2, <2>1, <2>2 DEF Merging
  <1>14. Paged(new)'
    <2>1. Written = 0 /\ Written' = 0 /\ pages' = <<>>
      BY <1>1, <1>2 DEF Written
    <2>2. Len(map) = n /\ \A m \in 1 .. n : map[m] = list[m]
      <3>1. Len(map) \in Nat /\ n = Len(list) /\ n \in Nat
        BY <1>2 DEF n
      <3>2. 0 + Len(map) = Len(list) /\ \A m \in 1 .. Len(map) : map[m] = list[0 + m]
        BY <2>1 DEF Runs, Paged
      <3> QED
        BY <3>1, <3>2
    <2>3. /\ Len(map') = n + 1 /\ map'[n + 1] = Address(s)
          /\ \A m \in 1 .. n : map'[m] = map[m]
      BY <1>1, <1>2, <1>3, <2>2, AppendProperties
    <2>4. \A m \in 1 .. n + 1 : map'[m] = new[0 + m]
      BY <1>5, <2>2, <2>3
    <2> QED
      BY <1>1, <1>5, <2>1, <2>3, <2>4 DEF Paged
  <1>15. Loading(new, pos)'
    <2>1. Entry = 1 /\ Entry' = 1 /\ slot'.page = 1 /\ slot'.entry = 1
      BY <1>1, MapAssumption DEF Runs, Loading, Entry, loader
    <2>2. pos[Entry] = 1
      BY <2>1 DEF Runs, Covers
    <2>3. DOMAIN memory = {} /\ memory' = memory
      BY <1>1, <2>1, <2>2 DEF Runs, Loading, loader
    <2>4. DOMAIN memory' = {Belongs(i)' : i \in 1 .. 0}
      BY <2>3
    <2> QED
      BY <1>1, <2>1, <2>2, <2>4 DEF Loading
  <1> QED
    BY <1>4, <1>10, <1>11, <1>12, <1>13, <1>14, <1>15 DEF Runs

\* The end of map_compact.
LEMMA CompactedMap ==
    ASSUME TypeInv, NEW list, NEW pos, Runs(list, pos), Compacted
    PROVE  TypeInv' /\ Runs(list, pos)'
  <1>1. /\ pc = "compact" /\ pc' = "emit"
        /\ UNCHANGED <<input, map, compaction, pages, sectors, loader>>
    BY DEF Compacted
  <1>2. TypeInv'
    BY <1>1 DEF TypeInv, input, compaction, loader
  <1>3. Covers(list, pos)' /\ Inherits(list, pos)' /\ Aligned(list, pos)'
    BY <1>1, KeepRuns DEF Runs, input
  <1>4. Merging(list, pos)'
    BY <1>1 DEF Merging
  <1>5. Paged(list)'
    BY <1>1 DEF Runs, Paged, Written, input
  <1>6. Loading(list, pos)'
    BY <1>1, KeepLoading DEF Runs, input, loader
  <1> QED
    BY <1>2, <1>3, <1>4, <1>5, <1>6 DEF Runs

\* Quotients by Base that the sectors have.
LEMMA HighsAreNumbers == Highs \subseteq Nat
  BY SectorType DEF Highs, High

\* check_size, and the beginning of the load.
LEMMA CheckSizeMap ==
    ASSUME TypeInv, NEW list, NEW pos, Runs(list, pos), CheckSize
    PROVE  TypeInv' /\ Runs(list, pos)'
  <1>1. /\ pc = "emit" /\ map = <<>> /\ pc' \in {"died", "read"}
        /\ loaderHi' \in Nat
        /\ UNCHANGED <<input, map, compaction, pages, sectors, slot, dest, memory>>
    BY HighsAreNumbers DEF CheckSize
  <1>2. TypeInv'
    BY <1>1 DEF TypeInv, input, compaction
  <1>3. Covers(list, pos)' /\ Inherits(list, pos)' /\ Aligned(list, pos)'
    BY <1>1, KeepRuns DEF Runs, input
  <1>4. Merging(list, pos)'
    BY <1>1 DEF Merging
  <1>5. pages # <<>>
    <2>1. Len(file) \in Nat \ {0}
      BY <1>1 DEF Runs, Paged, TypeInv
    <2>2. pos[1] = 1 /\ pos[Len(list) + 1] = Len(file) + 1 /\ Len(list) \in Nat
      BY DEF Runs, Covers
    <2>3. Len(list) # 0
      BY <2>1, <2>2
    <2>4. pages = <<>> => Len(list) = 0
      BY <1>1 DEF Runs, Paged, Written
    <2> QED
      BY <2>3, <2>4
  <1>6. Paged(list)'
    BY <1>1, <1>5 DEF Runs, Paged, Written, input
  <1>7. Loading(list, pos)'
    <2>1. slot'.page = 1 /\ slot'.entry = 1 /\ Entry = 1 /\ Entry' = 1
      BY <1>1, MapAssumption DEF Runs, Loading, Entry
    <2>2. 1 \in 1 .. Len(pages) /\ 1 \in 1 .. Len(pages[1]) + 1
      <3>1. Len(pages) \in Nat \ {0}
        BY <1>5 DEF TypeInv
      <3>2. Len(pages[1]) \in Nat
        BY <3>1 DEF TypeInv
      <3> QED
        BY <3>1, <3>2
    <2>3. pos[Entry] = 1
      BY <2>1 DEF Runs, Covers
    <2>4. DOMAIN memory = {} /\ memory' = memory /\ pages' = pages
      BY <1>1, <2>1, <2>3 DEF Runs, Loading
    <2>5. DOMAIN memory' = {Belongs(i)' : i \in 1 .. 0}
      BY <2>4
    <2> QED
      BY <1>1, <2>1, <2>2, <2>3, <2>4, <2>5 DEF Loading
  <1> QED
    BY <1>2, <1>3, <1>4, <1>6, <1>7 DEF Runs

\* The addresses go to the pages, one by one.
LEMMA EmitMap ==
    ASSUME TypeInv, NEW list, NEW pos, Runs(list, pos), Emit
    PROVE  TypeInv' /\ Runs(list, pos)'
  <1> DEFINE x == Head(map)
             L == Len(pages)
             last == pages[L]
             N == Len(last)
  <1>1. /\ pc = "emit" /\ map # <<>> /\ map' = Tail(map)
        /\ pages' = IF pages = <<>> \/ PageFull(Len(Last(pages)))
                    THEN Append(pages, <<x>>) ELSE Front(pages) \o <<Append(Last(pages), x)>>
        /\ sectors' = sectors + x.num
        /\ UNCHANGED <<input, pc, compaction, loader>>
    BY DEF Emit
  <1>2. /\ map \in Seq(Addresses) /\ pages \in Seq(Seq(Addresses)) /\ x \in Addresses
        /\ x.num \in Nat /\ Len(map) \in Nat \ {0} /\ L \in Nat /\ x = map[1]
    <2>1. map \in Seq(Addresses) /\ pages \in Seq(Seq(Addresses)) /\ L \in Nat
      BY DEF TypeInv
    <2>2. Len(map) \in Nat \ {0} /\ x = map[1]
      BY <1>1, <2>1
    <2>3. x \in Addresses
      BY <2>1, <2>2
    <2> HIDE DEF x
    <2>4. x.num \in Nat
      BY <2>3 DEF Addresses
    <2> QED
      BY <2>1, <2>2, <2>3, <2>4
  <1>3. /\ map' \in Seq(Addresses) /\ Len(map') = Len(map) - 1
        /\ \A m \in 1 .. Len(map) - 1 : map'[m] = map[m + 1]
    BY <1>1, <1>2, HeadTailProperties
  <1>4. <<x>> \in Seq(Addresses) /\ Len(<<x>>) = 1 /\ <<x>>[1] = x
    BY <1>2
  <1>5. /\ Written + Len(map) = Len(list)
        /\ \A m \in 1 .. Len(map) : map[m] = list[Written + m]
        /\ \A p \in 1 .. L :
            /\ Len(pages[p]) \in 1 .. PageEntries
            /\ p < L => Len(pages[p]) = PageEntries
            /\ \A k \in 1 .. Len(pages[p]) : pages[p][k] = list[(p - 1) * PageEntries + k]
        /\ file # <<>>
    BY <1>1 DEF Runs, Paged
  <1>p. PageEntries \in Nat \ {0}
    BY MapAssumption
  \* The pages become one more, or the last of them one longer.
  <1> DEFINE Grown(m, n) ==
                /\ pages' \in Seq(Seq(Addresses)) /\ Len(pages') = m
                /\ Written = (m - 1) * PageEntries + n - 1
                /\ Len(pages'[m]) = n /\ pages'[m][n] = x
                /\ \A p \in 1 .. m - 1 : p \in 1 .. L /\ pages'[p] = pages[p]
                                         /\ Len(pages[p]) = PageEntries
                /\ \A k \in 1 .. n - 1 : m \in 1 .. L /\ pages'[m][k] = pages[m][k]
                                         /\ k \in 1 .. Len(pages[m])
  <1>6. PICK M \in Nat \ {0}, K \in 1 .. PageEntries : Grown(M, K)
    <2>1. CASE pages = <<>>
      <3>1. pages' = <<>> \o <<<<x>>>> /\ Written = 0
        BY <1>1, <1>4, <2>1 DEF Written
      <3>2. pages' = <<<<x>>>>
        BY <1>4, <3>1
      <3>3. /\ pages' \in Seq(Seq(Addresses)) /\ Len(pages') = 1 /\ pages'[1] = <<x>>
        BY <1>4, <3>2
      <3>4. (1 - 1) * PageEntries + 1 - 1 = 0 /\ 1 \in 1 .. PageEntries
        BY <1>p
      <3>5. Grown(1, 1)
        BY <1>4, <3>1, <3>3, <3>4
      <3> HIDE DEF Grown
      <3> QED
        BY <3>4, <3>5
    <2>2. ASSUME pages # <<>>, N = PageEntries
          PROVE  /\ pages' \in Seq(Seq(Addresses)) /\ Len(pages') = L + 1
                 /\ Written = (L + 1 - 1) * PageEntries + 1 - 1
                 /\ pages'[L + 1] = <<x>>
                 /\ \A p \in 1 .. L : pages'[p] = pages[p] /\ Len(pages[p]) = PageEntries
      <3>1. pages' = Append(pages, <<x>>) /\ Written = (L - 1) * PageEntries + PageEntries
        BY <1>1, <2>2 DEF PageFull, Last, Written
      <3>2. /\ pages' \in Seq(Seq(Addresses)) /\ Len(pages') = L + 1
            /\ \A p \in 1 .. L : pages'[p] = pages[p]
            /\ pages'[L + 1] = <<x>>
        BY <1>2, <1>4, <3>1, AppendProperties
      <3>3. (L - 1) * PageEntries + PageEntries = (L + 1 - 1) * PageEntries + 1 - 1
        BY <1>2, <1>p
      <3>4. \A p \in 1 .. L : Len(pages[p]) = PageEntries
        <4> TAKE p \in 1 .. L
        <4>1. CASE p = L
          BY <2>2, <4>1
        <4>2. CASE p # L
          BY <1>2, <1>5, <4>2
        <4> QED
          BY <4>1, <4>2
      <3> QED
        BY <3>1, <3>2, <3>3, <3>4
    <2>3. ASSUME pages # <<>>, N # PageEntries
          PROVE  /\ pages' \in Seq(Seq(Addresses)) /\ Len(pages') = L /\ L \in Nat \ {0}
                 /\ Written = (L - 1) * PageEntries + (N + 1) - 1 /\ N + 1 \in 1 .. PageEntries
                 /\ Len(pages'[L]) = N + 1 /\ pages'[L][N + 1] = x
                 /\ \A p \in 1 .. L - 1 : pages'[p] = pages[p] /\ Len(pages[p]) = PageEntries
                 /\ \A k \in 1 .. N : pages'[L][k] = pages[L][k]
      <3>1. L \in Nat \ {0} /\ L \in 1 .. L /\ last \in Seq(Addresses)
        BY <1>2, <2>3
      <3>2. N \in 1 .. PageEntries /\ Written = (L - 1) * PageEntries + N
        BY <1>5, <2>3, <3>1 DEF Written
      <3> DEFINE longer == Append(last, x)
                 before == SubSeq(pages, 1, L - 1)
      <3>3. /\ longer \in Seq(Addresses) /\ Len(longer) = N + 1 /\ longer[N + 1] = x
            /\ \A k \in 1 .. N : longer[k] = last[k]
        BY <1>2, <3>1, AppendProperties
      <3>4. pages' = before \o <<longer>>
        BY <1>1, <2>3 DEF PageFull, Last, Front
      <3>5. /\ before \in Seq(Seq(Addresses)) /\ Len(before) = L - 1
            /\ \A p \in 1 .. L - 1 : before[p] = pages[p]
        <4>1. \A p \in 1 .. L - 1 : pages[p] \in Seq(Addresses)
          BY <1>2, <3>1
        <4> HIDE DEF L
        <4>2. /\ before \in Seq(Seq(Addresses))
              /\ Len(before) = IF 1 <= L - 1 THEN (L - 1) - 1 + 1 ELSE 0
              /\ \A p \in 1 .. (L - 1) - 1 + 1 : before[p] = pages[1 + p - 1]
          BY <1>2, <3>1, <4>1, SubSeqProperties
        <4> QED
          BY <3>1, <4>2
      <3> HIDE DEF longer, before
      <3>6. <<longer>> \in Seq(Seq(Addresses)) /\ Len(<<longer>>) = 1 /\ <<longer>>[1] = longer
        BY <3>3
      <3>7. /\ pages' \in Seq(Seq(Addresses)) /\ Len(pages') = (L - 1) + 1
            /\ \A p \in 1 .. (L - 1) + 1 :
                    pages'[p] = IF p <= L - 1 THEN before[p] ELSE <<longer>>[p - (L - 1)]
        <4>1. /\ before \o <<longer>> \in Seq(Seq(Addresses))
              /\ Len(before \o <<longer>>) = Len(before) + Len(<<longer>>)
              /\ \A p \in 1 .. Len(before) + Len(<<longer>>) :
                    (before \o <<longer>>)[p] = IF p <= Len(before) THEN before[p]
                                                ELSE <<longer>>[p - Len(before)]
          BY <3>5, <3>6, ConcatProperties
        <4> QED
          BY <3>4, <3>5, <3>6, <4>1
      <3>8. Len(pages') = L /\ pages'[L] = longer
        BY <3>1, <3>6, <3>7
      <3>9. \A p \in 1 .. L - 1 : pages'[p] = pages[p] /\ Len(pages[p]) = PageEntries
        <4> TAKE p \in 1 .. L - 1
        <4>1. p \in 1 .. L /\ p < L /\ p \in 1 .. (L - 1) + 1 /\ p <= L - 1
          BY <3>1
        <4>2. Len(pages[p]) = PageEntries
          BY <1>5, <4>1
        <4>3. pages'[p] = before[p] /\ before[p] = pages[p]
          BY <3>5, <3>7, <4>1
        <4> QED
          BY <4>2, <4>3
      <3> QED
        BY <1>p, <2>3, <3>1, <3>2, <3>3, <3>7, <3>8, <3>9
    <2>4. CASE pages # <<>> /\ N = PageEntries
      <3> HIDE DEF N, L
      <3>1. \A p \in 1 .. (L + 1) - 1 : p \in 1 .. L
        BY <1>2
      <3>2. 1 \in 1 .. PageEntries /\ L + 1 \in Nat \ {0} /\ (L + 1) - 1 = L
        BY <1>2, <1>p
      <3>3. \A k \in 1 .. 1 - 1 : FALSE
        OBVIOUS
      <3>4. Len(<<x>>) = 1 /\ <<x>>[1] = x
        BY <1>4
      <3> HIDE DEF x
      <3>5. Len(pages'[L + 1]) = 1 /\ pages'[L + 1][1] = x
        BY <2>2, <2>4, <3>4
      <3>6. /\ pages' \in Seq(Seq(Addresses)) /\ Len(pages') = L + 1
            /\ Written = ((L + 1) - 1) * PageEntries + 1 - 1
            /\ \A p \in 1 .. (L + 1) - 1 : p \in 1 .. L /\ pages'[p] = pages[p]
                                          /\ Len(pages[p]) = PageEntries
        BY <2>2, <2>4, <3>1, <3>2
      <3>7. Grown(L + 1, 1)
        BY <3>3, <3>5, <3>6
      <3> HIDE DEF Grown
      <3> QED
        BY <3>2, <3>7
    <2>5. CASE pages # <<>> /\ N # PageEntries
      <3>1. \A p \in 1 .. L - 1 : p \in 1 .. L
        BY <1>2
      <3>2. N \in Nat /\ Len(pages[L]) = N /\ (N + 1) - 1 = N
        BY <2>3, <2>5, <1>2, <1>5
      <3> HIDE DEF N, L
      <3>3. L \in 1 .. L /\ \A k \in 1 .. (N + 1) - 1 : k \in 1 .. Len(pages[L])
        BY <2>3, <2>5, <3>2
      <3>4. Grown(L, N + 1)
        BY <2>3, <2>5, <3>1, <3>2, <3>3
      <3> HIDE DEF Grown
      <3> QED
        BY <2>3, <2>5, <3>4
    <2> QED
      BY <2>1, <2>4, <2>5
  <1>7. pages' # <<>>
    BY <1>6
  <1>8. Written' = (M - 1) * PageEntries + K
    BY <1>6, <1>7 DEF Written
  <1>9. (M - 1) * PageEntries \in Nat
    BY <1>6, <1>p
  <1>10. Written' = Written + 1 /\ Written \in Nat
    BY <1>6, <1>8, <1>9
  <1>11. TypeInv'
    <2>1. pages' \in Seq(Seq(Addresses))
      BY <1>6
    <2> HIDE DEF x, Grown
    <2>2. sectors' \in Nat
      <3>1. sectors' = sectors + x.num
        BY <1>1
      <3>2. sectors \in Nat /\ x.num \in Nat
        BY <1>2 DEF TypeInv
      <3> QED
        BY <3>1, <3>2
    <2> QED
      BY <1>1, <1>3, <2>1, <2>2 DEF TypeInv, input, compaction, loader
  <1>12. Covers(list, pos)' /\ Inherits(list, pos)' /\ Aligned(list, pos)'
    BY <1>1, KeepRuns DEF Runs, input
  <1>13. Merging(list, pos)'
    BY <1>1 DEF Merging
  <1>14. Paged(list)'
    <2>1. (Written + Len(map))' = Len(list)
      <3>1. Written' = Written + 1 /\ Written \in Int
        BY <1>10
      <3>2. Len(map') = Len(map) - 1 /\ Len(map) \in Nat
        BY <1>2, <1>3
      <3>3. PICK u \in Int, v \in Nat : u = Written /\ v = Len(map)
        BY <3>1, <3>2
      <3> QED
        BY <1>5, <3>1, <3>2, <3>3
    <2>2. \A m \in 1 .. Len(map') : map'[m] = list[Written' + m]
      <3> TAKE m \in 1 .. Len(map')
      <3>1. m \in 1 .. Len(map) - 1 /\ m + 1 \in 1 .. Len(map)
        BY <1>2, <1>3
      <3>2. map'[m] = map[m + 1] /\ map[m + 1] = list[Written + (m + 1)]
        BY <1>3, <1>5, <3>1
      <3>3. Written + (m + 1) = Written' + m
        BY <1>10, <3>1
      <3> QED
        BY <3>2, <3>3
    <2>3. ASSUME NEW p \in 1 .. Len(pages')
          PROVE  /\ Len(pages'[p]) \in 1 .. PageEntries
                 /\ p < Len(pages') => Len(pages'[p]) = PageEntries
                 /\ \A k \in 1 .. Len(pages'[p]) : pages'[p][k] = list[(p - 1) * PageEntries + k]
      <3>1. CASE p # M
        <4>1. p \in 1 .. M - 1
          BY <1>6, <2>3, <3>1
        <4>2. p \in 1 .. L /\ pages'[p] = pages[p] /\ Len(pages[p]) = PageEntries
          BY <1>6, <4>1
        <4> HIDE DEF L
        <4> QED
          BY <1>5, <1>p, <4>2
      <3>2. CASE p = M
        <4>1. Len(pages'[p]) = K /\ ~(p < Len(pages'))
          BY <1>6, <3>2
        <4>2. ASSUME NEW k \in 1 .. K - 1
              PROVE  pages'[M][k] = list[(M - 1) * PageEntries + k]
          <5>1. M \in 1 .. L /\ pages'[M][k] = pages[M][k] /\ k \in 1 .. Len(pages[M])
            BY <1>6, <4>2
          <5> HIDE DEF L
          <5> QED
            BY <1>5, <5>1
        <4>3. pages'[M][K] = list[(M - 1) * PageEntries + K]
          <5>1. pages'[M][K] = map[1] /\ map[1] = list[Written + 1]
            BY <1>2, <1>5, <1>6
          <5>2. Written + 1 = (M - 1) * PageEntries + K
            BY <1>8, <1>10
          <5> QED
            BY <5>1, <5>2
        <4>4. \A k \in 1 .. K : k = K \/ k \in 1 .. K - 1
          BY <1>6
        <4> QED
          BY <1>6, <3>2, <4>1, <4>2, <4>3, <4>4
      <3> QED
        BY <3>1, <3>2
    <2> QED
      BY <1>1, <1>5, <1>7, <2>1, <2>2, <2>3 DEF Paged, input
  <1>15. Loading(list, pos)'
    BY <1>1, KeepLoading DEF Runs, input, loader
  <1> QED
    BY <1>11, <1>12, <1>13, <1>14, <1>15 DEF Runs

-----------------------------------------------------------------------------
(* Merging.                                                                *)

\* A sequence without one of its elements.
LEMMA Removed ==
    ASSUME NEW T, NEW s \in Seq(T), NEW i \in 1 .. Len(s)
    PROVE  /\ RemoveAt(s, i) \in Seq(T) /\ Len(RemoveAt(s, i)) = Len(s) - 1
           /\ \A e \in 1 .. Len(s) - 1 : RemoveAt(s, i)[e] = IF e < i THEN s[e] ELSE s[e + 1]
  <1> DEFINE before == SubSeq(s, 1, i - 1)
             after == SubSeq(s, i + 1, Len(s))
             n == Len(s)
  <1>0. n \in Nat /\ i \in 1 .. n
    OBVIOUS
  <1>1. /\ before \in Seq(T) /\ Len(before) = i - 1
        /\ \A e \in 1 .. i - 1 : before[e] = s[e]
    <2>1. \A e \in 1 .. i - 1 : s[e] \in T
      BY <1>0
    <2>2. /\ before \in Seq(T) /\ Len(before) = IF 1 <= i - 1 THEN (i - 1) - 1 + 1 ELSE 0
          /\ \A e \in 1 .. (i - 1) - 1 + 1 : before[e] = s[1 + e - 1]
      BY <2>1, SubSeqProperties
    <2> QED
      BY <2>2
  <1>2. /\ after \in Seq(T) /\ Len(after) = n - i
        /\ \A e \in 1 .. n - i : after[e] = s[e + i]
    <2>1. \A e \in i + 1 .. n : s[e] \in T
      BY <1>0
    <2>2. /\ after \in Seq(T) /\ Len(after) = IF i + 1 <= n THEN n - (i + 1) + 1 ELSE 0
          /\ \A e \in 1 .. n - (i + 1) + 1 : after[e] = s[(i + 1) + e - 1]
      BY <1>0, <2>1, SubSeqProperties
    <2>3. \A e \in 1 .. n - i : (i + 1) + e - 1 = e + i
      BY <1>0
    <2> HIDE DEF after, n
    <2> QED
      BY <1>0, <2>2, <2>3
  <1>3. RemoveAt(s, i) = before \o after
    BY DEF RemoveAt
  <1> HIDE DEF before, after, n
  <1>4. /\ before \o after \in Seq(T) /\ Len(before \o after) = (i - 1) + (n - i)
        /\ \A e \in 1 .. (i - 1) + (n - i) :
                (before \o after)[e] = IF e <= i - 1 THEN before[e] ELSE after[e - (i - 1)]
    <2>1. /\ before \o after \in Seq(T) /\ Len(before \o after) = Len(before) + Len(after)
          /\ \A e \in 1 .. Len(before) + Len(after) :
                (before \o after)[e] = IF e <= Len(before) THEN before[e]
                                       ELSE after[e - Len(before)]
      BY <1>1, <1>2, ConcatProperties
    <2> QED
      BY <1>1, <1>2, <2>1
  <1>5. (i - 1) + (n - i) = n - 1
    BY <1>0
  <1>6. ASSUME NEW e \in 1 .. n - 1
        PROVE  (before \o after)[e] = IF e < i THEN s[e] ELSE s[e + 1]
    <2>1. CASE e < i
      <3>1. e <= i - 1 /\ e \in 1 .. i - 1
        BY <2>1
      <3> QED
        BY <1>1, <1>4, <1>5, <2>1, <3>1
    <2>2. CASE ~(e < i)
      <3>1. ~(e <= i - 1) /\ e - (i - 1) \in 1 .. n - i /\ (e - (i - 1)) + i = e + 1
        BY <1>0, <2>2
      <3>2. (before \o after)[e] = after[e - (i - 1)]
        BY <1>4, <1>5, <3>1
      <3>3. after[e - (i - 1)] = s[(e - (i - 1)) + i]
        BY <1>2, <3>1
      <3> QED
        BY <2>2, <3>1, <3>2, <3>3
    <2> QED
      BY <2>1, <2>2
  <1> QED
    BY <1>3, <1>4, <1>5, <1>6 DEF n

\* The current high part is that of the present run.
LEMMA CurrentHigh ==
    ASSUME NEW s \in Sectors, NEW a \in Addresses, Stands(a, s), Lba(a.dev),
           ~a.nocount => hinib = High(s)
    PROVE  CurrentHi(a) = High(s)
  <1>1. CASE a.nocount
    <2>1. a = Address(s) /\ a.dev = s.dev
      BY <1>1 DEF Stands
    <2>2. a.num = High(s)
      BY <2>1 DEF Address, High
    <2> QED
      BY <1>1, <2>2 DEF CurrentHi
  <1>2. CASE ~a.nocount
    BY <1>2 DEF CurrentHi
  <1> QED
    BY <1>1, <1>2

\* The next address, whether it gives up its high part or keeps it.
Following(a, b) == IF Countable(a, b) THEN [b EXCEPT !.nocount = FALSE, !.num = 1] ELSE b

\* It stands for its one sector, and what it inherits is there.
LEMMA NextAddress ==
    ASSUME NEW s \in Sectors, NEW t \in Sectors, NEW a \in Addresses, NEW b \in Addresses,
           NEW next, Stands(a, s), Lba(a.dev) /\ ~a.nocount => hinib = High(s), b = Address(t),
           next = Following(a, b)
    PROVE  /\ next \in Addresses /\ Count(next) = 1 /\ Stands(next, t) /\ next.dev = t.dev
           /\ Lba(next.dev) /\ ~next.nocount =>
                /\ a.dev = t.dev /\ High(s) = High(t) /\ CurrentHi(a) = High(t)
  <1>1. /\ b.dev = t.dev /\ b.nocount = Lba(t.dev) /\ Count(b) = 1 /\ Stands(b, t)
    BY AddressType
  <1>2. CASE Countable(a, b)
    <2>1. a.dev = b.dev /\ Lba(a.dev) /\ b.nocount /\ b.num = CurrentHi(a)
      BY <1>2 DEF Countable
    <2>2. CurrentHi(a) = High(s)
      BY <2>1, CurrentHigh
    <2>3. b.num = High(t)
      BY <1>1, <2>1 DEF Address, High
    <2>4. /\ next \in Addresses /\ next.dev = b.dev /\ next.nocount = FALSE /\ next.num = 1
          /\ next.track = b.track /\ next.lo = b.lo
      BY <1>2 DEF Addresses, Following
    <2>5. Count(next) = 1 /\ Stands(next, t)
      BY <1>1, <2>4 DEF Count, Stands
    <2> QED
      BY <1>1, <2>1, <2>2, <2>3, <2>4, <2>5
  <1>3. CASE ~Countable(a, b)
    BY <1>1, <1>3 DEF Following
  <1> QED
    BY <1>2, <1>3

\* One round of map_compact: the run grows by the next sector, or the next one begins.
LEMMA CompactMap ==
    ASSUME TypeInv, NEW list, NEW pos, Runs(list, pos), Compact
    PROVE  TypeInv' /\ \E l, p : Runs(l, p)'
  <1>0. PICK w, n, s, t, a, b, A :
            /\ w = walk /\ n = Len(list) /\ s = file[pos[w]] /\ t = file[pos[w + 1]]
            /\ a = list[w] /\ b = list[w + 1] /\ A = Alone(kind)
    OBVIOUS
  <1>00. PICK next : next = Following(a, b)
    OBVIOUS
  <1> DEFINE merge == Continues(a, b) /\ SameSegment(offset, noffset + 1) /\ Room(a)
  <1>1. /\ list \in Seq(Addresses) /\ map \in Seq(Addresses) /\ pos \in [Nat -> Nat]
        /\ file \in Seq(Sectors) /\ pc = "compact" /\ pages = <<>> /\ Written = 0
    BY DEF Compact, Runs, Paged, Covers, TypeInv, Written
  <1>2. map = list
    <2>1. Len(map) \in Nat /\ Len(list) \in Nat /\ 0 + Len(map) = Len(list)
      BY <1>1 DEF Runs, Paged
    <2>2. \A m \in 1 .. Len(map) : map[m] = list[0 + m]
      BY <1>1 DEF Runs, Paged
    <2>3. \A m \in 1 .. Len(map) : map[m] = list[m]
      BY <2>2
    <2> QED
      BY <1>1, <2>1, <2>3, SeqEqual
  <1>3. /\ w < n /\ w \in Nat \ {0} /\ n \in Nat /\ w \in 1 .. n /\ w + 1 \in 1 .. n
        /\ A \in Nat /\ w > A
    <2>1. w < n /\ w \in Nat \ {0} /\ n \in Nat
      BY <1>0, <1>1, <1>2 DEF Compact, TypeInv
    <2>2. A \in Nat
      BY <1>0, MapAssumption DEF Alone, Header
    <2>3. w > A
      BY <1>0, <1>1 DEF Runs, Merging
    <2> QED
      BY <2>1, <2>2, <2>3
  <1>4. /\ hinib' = IF a.dev = b.dev /\ Lba(a.dev) THEN CurrentHi(a) ELSE hinib
        /\ noffset' = noffset + 1
        /\ merge => /\ map' = RemoveAt([list EXCEPT ![w].num = @ + 1], w + 1)
                    /\ walk' = w /\ offset' = offset
        /\ ~merge => /\ map' = [list EXCEPT ![w + 1] = next]
                     /\ walk' = w + 1 /\ offset' = noffset + 1
        /\ UNCHANGED <<input, pc, pages, sectors, loader>>
    BY <1>0, <1>00, <1>2 DEF Compact, Following
  <1> HIDE DEF merge
  <1>5. /\ a \in Addresses /\ b \in Addresses /\ s \in Sectors /\ t \in Sectors
        /\ Stands(a, s) /\ b = Address(t) /\ Count(b) = 1 /\ Count(a) \in Nat
        /\ pos[w] \in Nat /\ pos[w + 1] \in Nat /\ pos[w + 1] = pos[w] + Count(a)
        /\ Lba(a.dev) /\ ~a.nocount => hinib = High(s)
    <2>1. a \in Addresses /\ b \in Addresses
      BY <1>0, <1>1, <1>3
    <2>2. /\ pos[w] \in 1 .. Len(file) /\ pos[w + 1] \in 1 .. Len(file) /\ Stands(a, s)
          /\ pos[w + 1] = pos[w] + Count(a)
      BY <1>0, <1>3 DEF Runs, Covers
    <2>3. s \in Sectors /\ t \in Sectors
      BY <1>0, <1>1, <2>2, Element
    <2>4. w + 1 \in w + 1 .. n
      BY <1>3
    <2>5. b = Address(t)
      BY <1>0, <1>1, <2>4 DEF Runs, Merging
    <2>6. Lba(a.dev) /\ ~a.nocount => hinib = High(s)
      BY <1>0, <1>1, <1>3 DEF Runs, Merging
    <2>7. Count(a) \in Nat
      BY <2>1 DEF Count, Addresses
    <2>8. Count(b) = 1
      BY <2>3, <2>5, AddressType
    <2>9. pos[w] \in Nat /\ pos[w + 1] \in Nat
      BY <1>0, <1>1, <1>3
    <2> QED
      BY <2>1, <2>2, <2>3, <2>5, <2>6, <2>7, <2>8, <2>9
  <1>6. /\ From(pos[w]) = offset /\ From(pos[w] + Count(a) - 1) = noffset
        /\ offset \in Nat /\ noffset \in Nat
    BY <1>0, <1>1, <1>3 DEF Runs, Merging, TypeInv
  <1>7. \A e \in w + 1 .. n : /\ list[e] = Address(file[pos[e]]) /\ file[pos[e]] \in Sectors
                              /\ list[e].nocount = Lba(list[e].dev) /\ pos[e] \in Nat
    <2> TAKE e \in w + 1 .. n
    <2>1. e \in 1 .. n
      BY <1>3
    <2>2. pos[e] \in 1 .. Len(file)
      BY <1>0, <2>1 DEF Runs, Covers
    <2>3. list[e] = Address(file[pos[e]])
      BY <1>0, <1>1 DEF Runs, Merging
    <2>4. file[pos[e]] \in Sectors /\ pos[e] \in Nat
      BY <1>1, <2>2, Element
    <2>5. list[e].nocount = Lba(list[e].dev)
      BY <2>3, <2>4, AddressType
    <2> QED
      BY <2>3, <2>4, <2>5
  <1>8. /\ hinib' \in Int
        /\ Lba(a.dev) /\ a.dev = b.dev => hinib' = High(s)
    <2>1. Lba(a.dev) => CurrentHi(a) = High(s)
      BY <1>5, CurrentHigh
    <2>2. High(s) \in Nat
      BY <1>5, SectorType
    <2> QED
      BY <1>4, <2>1, <2>2 DEF TypeInv
  \* What does not depend on how the round ends.
  <1>9. ASSUME NEW l \in Seq(Addresses), NEW p, map' = l, walk' \in Nat \ {0}, offset' \in Nat,
               p[1] = 1
        PROVE  TypeInv' /\ Paged(l)' /\ Loading(l, p)'
    <2>1. noffset' \in Nat
      BY <1>4, <1>6
    <2>2. TypeInv'
      <3>1. map' \in Seq(Addresses) /\ hinib' \in Int
        BY <1>8, <1>9
      <3>2. UNCHANGED <<mode, compact, kind, file, pc, pages, sectors, slot, loaderHi, dest>>
        BY <1>4 DEF input, loader
      <3> QED
        BY <1>9, <2>1, <3>1, <3>2 DEF TypeInv
    <2>3. Paged(l)'
      <3>1. pages' = <<>> /\ Written' = 0 /\ file' # <<>> /\ pc' = "compact"
        BY <1>1, <1>4 DEF Runs, Paged, Written, input
      <3>2. Len(l) \in Nat /\ \A m \in 1 .. Len(l) : 0 + m = m
        BY <1>9
      <3> QED
        BY <1>9, <3>1, <3>2 DEF Paged
    <2>4. Loading(l, p)'
      <3>1. Entry = 1 /\ Entry' = 1
        <4>1. slot.page = 1 /\ slot.entry = 1 /\ slot' = slot
          BY <1>1, <1>4 DEF Runs, Loading, loader
        <4>2. (1 - 1) * PageEntries + 1 = 1
          BY MapAssumption
        <4> QED
          BY <4>1, <4>2 DEF Entry
      <3>2. pos[Entry] = 1
        BY <3>1 DEF Runs, Covers
      <3>3. DOMAIN memory = {} /\ memory' = memory
        BY <1>4, <3>1, <3>2 DEF Runs, Loading, loader
      <3>4. DOMAIN memory' = {Belongs(i)' : i \in 1 .. 0}
        BY <3>3
      <3>5. slot'.page = 1 /\ slot'.entry = 1 /\ pc' = "compact"
        BY <1>1, <1>4 DEF Runs, Loading, loader
      <3> QED
        BY <1>9, <3>1, <3>4, <3>5 DEF Loading
    <2> QED
      BY <2>2, <2>3, <2>4
  <1>10. /\ \A x : Address(x)' = Address(x)
         /\ \A x, y : Stands(x, y)' = Stands(x, y)
         /\ \A x, y : Adjacent(x, y)' = Adjacent(x, y)
         /\ \A d : Lba(d)' = Lba(d)
         /\ \A x : High(x)' = High(x)
         /\ \A x : Count(x)' = Count(x)
         /\ \A x : From(x)' = From(x)
         /\ Alone(kind)' = Alone(kind) /\ file' = file
    BY <1>4 DEF input, Address, Lba, Linear, Stands, Adjacent, High, Count, From, Alone
  <1>11. CASE ~merge
    <2> PICK l : l = [list EXCEPT ![w + 1] = next]
      OBVIOUS
    <2>1. /\ next \in Addresses /\ Count(next) = 1 /\ Stands(next, t) /\ next.dev = t.dev /\ b.dev = t.dev
          /\ Lba(next.dev) /\ ~next.nocount =>
                /\ a.dev = t.dev /\ High(s) = High(t) /\ CurrentHi(a) = High(t)
      <3>1. b.dev = t.dev
        BY <1>5, AddressType
      <3> QED
        <4>1. Lba(a.dev) /\ ~a.nocount => hinib = High(s)
          BY <1>5
        <4>2. /\ a \in Addresses /\ b \in Addresses /\ s \in Sectors /\ t \in Sectors
              /\ Stands(a, s) /\ b = Address(t)
          BY <1>5
        <4> QED
          BY <1>00, <3>1, <4>1, <4>2, NextAddress
    <2>2. /\ l \in Seq(Addresses) /\ Len(l) = n /\ l[w + 1] = next
          /\ \A e \in 1 .. n : e # w + 1 => l[e] = list[e]
      BY <1>0, <1>1, <1>3, <2>1
    <2>3. \A e \in 1 .. n : Count(l[e]) = Count(list[e]) /\ l[e].dev = list[e].dev
      BY <1>0, <1>5, <2>1, <2>2
    <2>4. w \in Nat \ {0} /\ w + 1 \in 1 .. n /\ w \in 1 .. n /\ walk' = w + 1
      BY <1>3, <1>4, <1>11
    <2>5. Covers(l, pos)'
      <3>1. \A e \in 1 .. n : Stands(l[e], file[pos[e]])
        BY <1>0, <2>1, <2>2 DEF Runs, Covers
      <3>2. Covers(l, pos)
        BY <1>0, <2>2, <2>3, <3>1 DEF Runs, Covers
      <3> QED
        BY <1>10, <3>2 DEF Covers
    <2>6. Inherits(l, pos)
      <3> SUFFICES ASSUME NEW e \in 1 .. n, Lba(l[e].dev), ~l[e].nocount
                   PROVE  /\ e > 1 /\ l[e - 1].dev = l[e].dev
                          /\ High(file[pos[e - 1]]) = High(file[pos[e]])
        BY <2>2 DEF Inherits
      <3>1. CASE e = w + 1
        <4>1. (w + 1) - 1 = w /\ w + 1 > 1 /\ l[w].dev = a.dev
          BY <1>0, <2>2, <2>4
        <4> QED
          BY <1>0, <2>1, <2>2, <3>1, <4>1
      <3>2. CASE e # w + 1
        <4>1. l[e] = list[e]
          BY <2>2, <3>2
        <4>2. /\ e > 1 /\ list[e - 1].dev = list[e].dev
              /\ High(file[pos[e - 1]]) = High(file[pos[e]])
          BY <1>0, <4>1 DEF Runs, Inherits
        <4>3. e - 1 \in 1 .. n
          BY <1>3, <4>2
        <4> QED
          BY <2>3, <4>1, <4>2, <4>3
      <3> QED
        BY <3>1, <3>2
    <2>7. Inherits(l, pos)'
      BY <1>10, <2>6 DEF Inherits
    <2>8. Aligned(l, pos)
      BY <2>2, <2>3 DEF Runs, Aligned
    <2>9. Aligned(l, pos)'
      BY <1>10, <2>8 DEF Aligned
    <2>10. Merging(l, pos)'
      <3>1. pc' = "compact" /\ (walk > Alone(kind))'
        BY <1>0, <1>1, <1>3, <1>4, <1>10, <2>4
      <3>2. \A e \in walk' + 1 .. Len(l) : l[e] = Address(file[pos[e]])'
        <4> TAKE e \in walk' + 1 .. Len(l)
        <4>1. e \in w + 1 .. n /\ e # w + 1 /\ e \in 1 .. n
          BY <1>3, <2>2, <2>4
        <4> QED
          BY <1>7, <1>10, <2>2, <4>1
      <3>3. From(pos[w + 1])' = offset'
        <4>1. From(pos[w + 1]) = From(pos[w] + Count(a) - 1) + 1
          BY <1>0, <1>3, <1>5 DEF From
        <4> QED
          BY <1>4, <1>6, <1>10, <1>11, <4>1
      <3>4. From(pos[w + 1] + Count(l[w + 1]) - 1)' = noffset'
        <4>1. Count(l[w + 1])' = 1
          BY <1>10, <2>1, <2>2
        <4>2. pos[w + 1] + 1 - 1 = pos[w + 1]
          BY <1>5
        <4> QED
          BY <1>4, <1>11, <3>3, <4>1, <4>2 DEF From
      <3>5. (Lba(l[w + 1].dev) /\ ~l[w + 1].nocount)' => hinib' = High(file[pos[w + 1]])'
        <4>1. l[w + 1] = next /\ t = file[pos[w + 1]]
          BY <1>0, <2>2
        <4>2. ASSUME Lba(next.dev), ~next.nocount
              PROVE  hinib' = High(t)
          <5>1. a.dev = b.dev /\ Lba(a.dev) /\ High(s) = High(t)
            BY <2>1, <4>2
          <5> QED
            BY <1>8, <5>1
        <4> QED
          BY <1>10, <4>1, <4>2
      <3> QED
        BY <2>2, <2>4, <3>1, <3>2, <3>3, <3>4, <3>5 DEF Merging
    <2>11. TypeInv' /\ Paged(l)' /\ Loading(l, pos)'
      <3>1. map' = l /\ offset' \in Nat /\ walk' \in Nat \ {0}
        BY <1>4, <1>6, <1>11, <2>4
      <3>2. pos[1] = 1
        BY DEF Runs, Covers
      <3> QED
        BY <1>9, <2>2, <3>1, <3>2
    <2> QED
      BY <2>5, <2>7, <2>9, <2>10, <2>11 DEF Runs
  <1>12. CASE merge
    <2> PICK c : c = [a EXCEPT !.num = @ + 1]
      OBVIOUS
    <2> DEFINE grown == [list EXCEPT ![w] = c]
    <2> PICK l : l = RemoveAt(grown, w + 1)
      OBVIOUS
    <2> PICK p : p = [e \in Nat |-> IF e <= w THEN pos[e] ELSE pos[e + 1]]
      OBVIOUS
    <2>1. /\ w \in Nat \ {0} /\ w + 1 \in 1 .. n /\ w \in 1 .. n /\ w < n /\ n \in Nat
          /\ walk' = w /\ offset' = offset /\ w > A /\ A \in Nat
      BY <1>3, <1>4, <1>12
    <2>2. /\ ~a.nocount /\ t = [dev |-> s.dev, at |-> s.at + a.num]
          /\ Continues(a, b) /\ SameSegment(offset, noffset + 1)
      <3>1. Continues(a, b) /\ SameSegment(offset, noffset + 1)
        BY <1>12 DEF merge
      <3> QED
        BY <1>5, <3>1, NextOnDisk
    <2>3. Count(a) = a.num /\ a.num \in Nat \ {0}
      BY <1>5, <2>2 DEF Count, Stands
    <2>4. /\ c \in Addresses /\ Count(c) = Count(a) + 1 /\ Stands(c, s)
          /\ c.dev = a.dev /\ c.nocount = a.nocount
      <3>1. /\ c \in Addresses /\ c.dev = a.dev /\ c.nocount = a.nocount
            /\ c.track = a.track /\ c.lo = a.lo /\ c.num = a.num + 1
        BY <1>5, <2>3 DEF Addresses
      <3> QED
        BY <1>5, <2>2, <2>3, <3>1 DEF Count, Stands
    <2>5. /\ grown \in Seq(Addresses) /\ Len(grown) = n /\ grown[w] = c
          /\ \A e \in 1 .. n : e # w => grown[e] = list[e]
      <3>1. n = Len(list) /\ list \in Seq(Addresses) /\ w \in 1 .. n /\ c \in Addresses
        BY <1>0, <1>1, <2>1, <2>4
      <3> QED
        BY <3>1
    <2>6. map' = l
      BY <1>0, <1>4, <1>12
    <2>7. /\ l \in Seq(Addresses) /\ Len(l) = n - 1
          /\ \A e \in 1 .. n - 1 :
                l[e] = IF e < w THEN list[e] ELSE IF e = w THEN c ELSE list[e + 1]
      <3> HIDE DEF grown
      <3>1. /\ l \in Seq(Addresses) /\ Len(l) = n - 1
            /\ \A e \in 1 .. n - 1 : l[e] = IF e < w + 1 THEN grown[e] ELSE grown[e + 1]
        <4>1. grown \in Seq(Addresses) /\ Len(grown) = n /\ w + 1 \in 1 .. Len(grown)
          BY <2>1, <2>5
        <4>2. /\ l \in Seq(Addresses) /\ Len(l) = Len(grown) - 1
              /\ \A e \in 1 .. Len(grown) - 1 : l[e] = IF e < w + 1 THEN grown[e] ELSE grown[e + 1]
          BY <4>1, Removed
        <4> QED
          BY <4>1, <4>2
      <3>2. ASSUME NEW e \in 1 .. n - 1
            PROVE  l[e] = IF e < w THEN list[e] ELSE IF e = w THEN c ELSE list[e + 1]
        <4>1. e \in 1 .. n /\ e + 1 \in 1 .. n
          BY <2>1
        <4>2. CASE e < w
          BY <2>1, <2>5, <3>1, <4>1, <4>2
        <4>3. CASE e = w
          BY <1>0, <2>1, <2>5, <3>1, <4>3
        <4>4. CASE e > w
          <5>1. ~(e < w + 1) /\ e + 1 # w /\ ~(e < w) /\ e # w
            BY <2>1, <4>4
          <5> QED
            BY <2>5, <3>1, <4>1, <5>1
        <4> QED
          BY <2>1, <4>2, <4>3, <4>4
      <3> QED
        BY <3>1, <3>2
    <2> HIDE DEF grown
    <2>8. /\ p \in [Nat -> Nat]
          /\ \A e \in Nat : p[e] = IF e <= w THEN pos[e] ELSE pos[e + 1]
      <3>1. \A e \in Nat : e + 1 \in Nat
        OBVIOUS
      <3>2. \A e \in Nat : pos[e] \in Nat /\ pos[e + 1] \in Nat
        BY <1>1, <3>1
      <3> QED
        BY <3>2
    <2>9. \A e \in 1 .. n : /\ pos[e] \in 1 .. Len(file) /\ pos[e] \in Nat
                            /\ pos[e + 1] = pos[e] + Count(list[e])
                            /\ pos[e + 1] <= Len(file) + 1
                            /\ Stands(list[e], file[pos[e]])
                            /\ Adjacent(pos[e], Count(list[e]))
      <3>1. \A e \in 1 .. n : pos[e] \in 1 .. Len(file) => pos[e] \in Nat
        BY <1>1
      <3> QED
        BY <1>0, <3>1 DEF Runs, Covers
    <2>10. pos[1] = 1 /\ pos[n + 1] = Len(file) + 1
      BY <1>0 DEF Runs, Covers
    <2>11. p[1] = 1 /\ p[Len(l) + 1] = Len(file) + 1
      <3>1. 1 <= w /\ Len(l) + 1 = n /\ ~(n <= w)
        BY <1>0, <2>1, <2>7
      <3> QED
        BY <2>1, <2>8, <2>10, <3>1
    <2>12. p[w] = pos[w] /\ p[w + 1] = pos[w + 2] /\ pos[w + 2] = pos[w] + Count(c)
      <3>1. w <= w /\ ~(w + 1 <= w) /\ (w + 1) + 1 = w + 2 /\ w + 1 \in Nat
        BY <2>1
      <3>2. pos[w + 2] = pos[w + 1] + Count(b)
        BY <1>0, <2>1, <2>9, <3>1
      <3>3. p[w] = pos[w] /\ p[w + 1] = pos[w + 2]
        BY <2>1, <2>8, <3>1
      <3>4. pos[w + 2] = pos[w] + Count(c)
        BY <1>5, <2>4, <3>2
      <3> QED
        BY <3>3, <3>4
    <2>13. Adjacent(pos[w], Count(c))
      <3>1. Adjacent(pos[w], a.num) /\ Count(c) = a.num + 1 /\ pos[w + 1] = pos[w] + a.num
        BY <1>0, <1>5, <2>1, <2>3, <2>4, <2>9
      <3>2. file[pos[w] + a.num] = [dev |-> file[pos[w]].dev, at |-> file[pos[w]].at + a.num]
        BY <1>0, <2>2, <3>1
      <3>3. \A i \in 0 .. (a.num + 1) - 1 : i = a.num \/ i \in 0 .. a.num - 1
        BY <2>3
      <3> QED
        BY <3>1, <3>2, <3>3 DEF Adjacent
    <2>14. Covers(l, p)
      <3> SUFFICES ASSUME NEW e \in 1 .. n - 1
                   PROVE  /\ p[e] \in 1 .. Len(file)
                          /\ p[e + 1] = p[e] + Count(l[e]) /\ p[e + 1] <= Len(file) + 1
                          /\ Stands(l[e], file[p[e]])
                          /\ Adjacent(p[e], Count(l[e]))
        BY <2>7, <2>8, <2>11 DEF Covers
      <3>1. e \in 1 .. n /\ e + 1 \in 1 .. n /\ e \in Nat /\ e + 1 \in Nat
        BY <2>1
      <3>2. CASE e < w
        <4>1. e <= w /\ e + 1 <= w
          BY <2>1, <3>2
        <4> QED
          BY <2>7, <2>8, <2>9, <3>1, <3>2, <4>1
      <3>3. CASE e = w
        <4>1. l[e] = c
          BY <2>7, <3>3, <2>1
        <4>2. pos[w] \in 1 .. Len(file) /\ p[e] = pos[w]
          BY <2>1, <2>9, <2>12, <3>3
        <4>3. pos[w + 2] <= Len(file) + 1
          <5>1. (w + 1) + 1 = w + 2
            BY <2>1
          <5> QED
            BY <2>1, <2>9, <5>1
        <4>4. Stands(l[e], file[p[e]])
          BY <1>0, <2>4, <4>1, <4>2
        <4> QED
          BY <2>12, <2>13, <3>3, <4>1, <4>2, <4>3, <4>4
      <3>4. CASE e > w
        <4>1. ~(e <= w) /\ ~(e + 1 <= w) /\ ~(e < w) /\ e # w
          BY <2>1, <3>4
        <4> QED
          BY <2>7, <2>8, <2>9, <3>1, <4>1
      <3> QED
        BY <2>1, <3>2, <3>3, <3>4
    <2>15. Covers(l, p)'
      BY <1>10, <2>14 DEF Covers
    <2>16. \A e \in 1 .. n - 1 : e > w => /\ l[e] = list[e + 1] /\ p[e] = pos[e + 1]
                                         /\ e + 1 \in w + 1 .. n
      <3> TAKE e \in 1 .. n - 1
      <3>1. e > w => ~(e < w) /\ e # w /\ ~(e <= w) /\ e \in Nat /\ e + 1 \in w + 1 .. n
        BY <2>1
      <3> QED
        BY <2>7, <2>8, <3>1
    <2>17. Inherits(l, p)
      <3> SUFFICES ASSUME NEW e \in 1 .. n - 1, Lba(l[e].dev), ~l[e].nocount
                   PROVE  /\ e > 1 /\ l[e - 1].dev = l[e].dev
                          /\ High(file[p[e - 1]]) = High(file[p[e]])
        BY <2>7 DEF Inherits
      <3>1. e \in 1 .. n /\ e \in Nat
        BY <2>1
      <3>2. e <= w
        <4>1. e > w => l[e].nocount = Lba(l[e].dev)
          BY <1>7, <2>16
        <4>2. ~(e > w)
          BY <3>1, <4>1
        <4> QED
          BY <2>1, <3>1, <4>2
      <3>3. l[e].dev = list[e].dev /\ l[e].nocount = list[e].nocount /\ p[e] = pos[e]
        <4>1. p[e] = pos[e]
          BY <2>8, <3>1, <3>2
        <4>2. CASE e = w
          BY <1>0, <2>4, <2>7, <4>1, <4>2
        <4>3. CASE e < w
          BY <2>7, <4>1, <4>3
        <4> QED
          BY <2>1, <3>1, <3>2, <4>2, <4>3
      <3>4. /\ e > 1 /\ list[e - 1].dev = list[e].dev
            /\ High(file[pos[e - 1]]) = High(file[pos[e]])
        BY <1>0, <3>1, <3>3 DEF Runs, Inherits
      <3>5. e - 1 \in 1 .. n - 1 /\ e - 1 < w /\ e - 1 <= w /\ e - 1 \in Nat
        BY <2>1, <3>1, <3>2, <3>4
      <3>6. l[e - 1] = list[e - 1] /\ p[e - 1] = pos[e - 1]
        BY <2>7, <2>8, <3>5
      <3> QED
        BY <3>3, <3>4, <3>6
    <2>18. Inherits(l, p)'
      BY <1>10, <2>17 DEF Inherits
    <2>a. From(pos[w] + Count(c) - 1) = From(pos[w] + Count(a) - 1) + 1
      <3>1. PICK x \in Nat, y \in Nat, z \in Nat : x = pos[w] /\ y = Count(a) /\ z = A
        BY <1>5, <2>1
      <3>2. /\ From(pos[w] + Count(c) - 1) = (x + ((y + 1) - 1)) - z - 1
            /\ From(pos[w] + Count(a) - 1) = (x + (y - 1)) - z - 1
        BY <1>0, <2>4, <3>1 DEF From
      <3>3. (x + ((y + 1) - 1)) - z - 1 = ((x + (y - 1)) - z - 1) + 1
        OBVIOUS
      <3> QED
        BY <3>2, <3>3
    <2>19. Aligned(l, p)
      <3> SUFFICES ASSUME NEW e \in 1 .. n - 1
                   PROVE  /\ e <= A => p[e] = e /\ Count(l[e]) = 1
                          /\ e > A =>
                                /\ p[e] > A
                                /\ From(p[e]) \div Segment = From(p[e] + Count(l[e]) - 1) \div Segment
        BY <1>0, <2>7 DEF Aligned
      <3>1. e \in 1 .. n /\ e + 1 \in 1 .. n /\ e \in Nat
        BY <2>1
      <3>2. \A i \in 1 .. n :
                /\ i <= A => pos[i] = i /\ Count(list[i]) = 1
                /\ i > A =>
                    /\ pos[i] > A
                    /\ From(pos[i]) \div Segment = From(pos[i] + Count(list[i]) - 1) \div Segment
        BY <1>0 DEF Runs, Aligned
      <3>3. CASE e < w
        <4>1. l[e] = list[e] /\ p[e] = pos[e]
          BY <1>0, <2>1, <2>7, <2>8, <3>1, <3>3
        <4> QED
          BY <3>1, <3>2, <4>1
      <3>4. CASE e = w
        <4>1. l[e] = c /\ p[e] = pos[w] /\ e > A /\ ~(e <= A)
          BY <2>1, <2>7, <2>12, <3>4
        <4>2. pos[w] > A
          BY <2>1, <3>2
        <4>3. offset \div Segment = (noffset + 1) \div Segment
          BY <2>2 DEF SameSegment
        <4>4. From(pos[w]) \div Segment = From(pos[w] + Count(c) - 1) \div Segment
          BY <1>6, <2>a, <4>3
        <4> QED
          BY <4>1, <4>2, <4>4
      <3>5. CASE e > w
        <4>1. l[e] = list[e + 1] /\ p[e] = pos[e + 1] /\ ~(e <= A) /\ e + 1 > A
          BY <2>1, <2>16, <3>1, <3>5
        <4> QED
          BY <3>1, <3>2, <4>1
      <3> QED
        BY <2>1, <3>3, <3>4, <3>5
    <2>20. Aligned(l, p)'
      BY <1>10, <2>19 DEF Aligned
    <2>21. Merging(l, p)'
      <3>1. pc' = "compact" /\ (walk > Alone(kind))'
        BY <1>0, <1>1, <1>4, <1>10, <2>1
      <3>2. \A e \in walk' + 1 .. Len(l) : l[e] = Address(file[p[e]])'
        <4> TAKE e \in walk' + 1 .. Len(l)
        <4>1. e \in 1 .. n - 1 /\ e > w
          BY <2>1, <2>7
        <4> QED
          BY <1>7, <1>10, <2>16, <4>1
      <3>3. From(p[w])' = offset'
        <4>1. From(p[w]) = offset
          BY <1>6, <2>12
        <4>2. From(p[w])' = From(p[w])
          BY <1>10
        <4> QED
          <5>1. offset' = offset
            BY <2>1
          <5> QED
            BY <4>1, <4>2, <5>1
      <3>4. l[w] = c
        <4>1. w \in 1 .. n - 1 /\ ~(w < w)
          BY <2>1
        <4> QED
          BY <2>7, <4>1
      <3>5. From(p[w] + Count(l[w]) - 1)' = noffset'
        BY <1>4, <1>6, <1>10, <2>12, <2>a, <3>4
      <3>6. (Lba(l[w].dev) /\ ~l[w].nocount)' => hinib' = High(file[p[w]])'
        <4>1. a.dev = b.dev
          BY <2>2 DEF Continues
        <4> QED
          <5>1. Lba(a.dev) => hinib' = High(s)
            BY <1>8, <4>1
          <5>2. l[w].dev = a.dev /\ s = file[p[w]]
            BY <1>0, <2>4, <2>12, <3>4
          <5>3. Lba(l[w].dev)' => hinib' = High(file[p[w]])
            BY <1>10, <5>1, <5>2
          <5>4. High(file[p[w]])' = High(file[p[w]])
            BY <1>10
          <5> QED
            BY <5>3, <5>4
      <3> QED
        BY <2>1, <3>1, <3>2, <3>3, <3>5, <3>6 DEF Merging
    <2>22. TypeInv' /\ Paged(l)' /\ Loading(l, p)'
      BY <1>6, <1>9, <2>1, <2>6, <2>7, <2>11
    <2> QED
      BY <2>15, <2>18, <2>20, <2>21, <2>22 DEF Runs
  <1> QED
    BY <1>11, <1>12

-----------------------------------------------------------------------------
(* The second stage loader.                                                *)

\* The end of the section leaves everything as it is.
LEMMA EofMap ==
    ASSUME TypeInv, NEW list, NEW pos, Runs(list, pos), Eof
    PROVE  TypeInv' /\ Runs(list, pos)'
  <1>1. /\ pc = "read" /\ pc' = "loaded" /\ slot.page = Len(pages) /\ slot.entry > Len(pages[slot.page])
        /\ UNCHANGED <<input, map, compaction, pages, sectors, loader>>
    BY DEF Eof, Page
  <1>2. TypeInv'
    BY <1>1 DEF TypeInv, input, compaction, loader
  <1>3. Covers(list, pos)' /\ Inherits(list, pos)' /\ Aligned(list, pos)'
    BY <1>1, KeepRuns DEF Runs, input
  <1>4. Merging(list, pos)'
    BY <1>1 DEF Merging
  <1>5. Paged(list)'
    BY <1>1 DEF Runs, Paged, Written, input
  <1>6. slot.page \in 1 .. Len(pages) /\ slot.entry = Len(pages[slot.page]) + 1
    <2>1. slot.page \in 1 .. Len(pages) /\ slot.entry \in 1 .. Len(pages[slot.page]) + 1
      BY <1>1 DEF Runs, Loading
    <2>2. Len(pages[slot.page]) \in Nat
      BY <2>1 DEF TypeInv
    <2> QED
      BY <1>1, <2>1, <2>2
  <1>7. Loading(list, pos)'
    <2>1. /\ \A i : Belongs(i)' = Belongs(i)
          /\ \A d : Lba(d)' = Lba(d)
          /\ \A s : High(s)' = High(s)
          /\ Entry' = Entry
      BY <1>1 DEF input, loader, Belongs, Lba, High, Entry
    <2> QED
      BY <1>1, <1>6, <2>1 DEF Runs, Loading, input, loader
  <1> QED
    BY <1>2, <1>3, <1>4, <1>5, <1>7 DEF Runs

\* Behind the last entry of a page the next page begins: the place in the list is
\* the same.
LEMMA NextPageMap ==
    ASSUME TypeInv, NEW list, NEW pos, Runs(list, pos), NextPage
    PROVE  TypeInv' /\ Runs(list, pos)'
  <1>1. /\ pc = "read" /\ slot.entry = PageEntries + 1 /\ slot.page < Len(pages)
        /\ slot' = [page |-> slot.page + 1, entry |-> 1] /\ loaderHi' = loaderHi
        /\ UNCHANGED <<input, map, pc, compaction, pages, sectors, dest, memory>>
    BY DEF NextPage, AfterPage
  <1>2. slot.page \in Nat /\ slot.page \in 1 .. Len(pages) /\ Len(pages) \in Nat
    BY <1>1 DEF Runs, Loading, TypeInv
  <1>3. TypeInv'
    <2>1. slot' \in [page : Nat, entry : Nat]
      BY <1>1, <1>2
    <2> QED
      BY <1>1, <2>1 DEF TypeInv, input, compaction
  <1>4. Covers(list, pos)' /\ Inherits(list, pos)' /\ Aligned(list, pos)'
    BY <1>1, KeepRuns DEF Runs, input
  <1>5. Merging(list, pos)'
    BY <1>1 DEF Merging
  <1>6. Paged(list)'
    BY <1>1 DEF Runs, Paged, Written, input
  <1>7. Loading(list, pos)'
    <2>1. /\ \A i : Belongs(i)' = Belongs(i)
          /\ \A d : Lba(d)' = Lba(d)
          /\ \A s : High(s)' = High(s)
      BY <1>1 DEF input, Belongs, Lba, High
    <2>2. Entry' = Entry
      <3>1. slot'.page = slot.page + 1 /\ slot'.entry = 1
        BY <1>1
      <3>2. ((slot.page + 1) - 1) * PageEntries + 1 = (slot.page - 1) * PageEntries + (PageEntries + 1)
        BY <1>2, MapAssumption
      <3> QED
        BY <1>1, <3>1, <3>2 DEF Entry
    <2>3. slot'.page \in 1 .. Len(pages) /\ slot'.entry \in 1 .. Len(pages[slot'.page]) + 1
      <3>1. slot'.page \in 1 .. Len(pages) /\ slot'.entry = 1
        BY <1>1, <1>2
      <3>2. Len(pages[slot'.page]) \in Nat
        BY <3>1 DEF TypeInv
      <3> QED
        BY <3>1, <3>2
    <2> QED
      BY <1>1, <2>1, <2>2, <2>3 DEF Runs, Loading, input
  <1> QED
    BY <1>3, <1>4, <1>5, <1>6, <1>7 DEF Runs

\* The places in the pages are the places in the list.
LEMMA PlaceInPages ==
    ASSUME NEW K \in Nat \ {0}, NEW L \in Nat \ {0}, NEW P \in 1 .. L,
           NEW e \in 1 .. K, NEW m \in 1 .. K, P = L => e <= m
    PROVE  (P - 1) * K + e \in 1 .. (L - 1) * K + m
  <1>1. (P - 1) * K \in Nat /\ (L - 1) * K \in Nat
    OBVIOUS
  <1>2. CASE P = L
    <2>1. (P - 1) * K = (L - 1) * K
      BY <1>2
    <2>2. e <= m
      BY <1>2
    <2> QED
      BY <1>1, <2>1, <2>2
  <1>3. CASE P < L
    <2>1. (P - 1) * K + K = P * K
      OBVIOUS
    <2>2. P * K <= (L - 1) * K
      <3>1. PICK d \in Nat : L - 1 = P + d
        <4>1. (L - 1) - P \in Nat /\ L - 1 = P + ((L - 1) - P)
          BY <1>3
        <4> QED
          BY <4>1
      <3>2. (P + d) * K = P * K + d * K /\ d * K \in Nat /\ P * K \in Nat
        OBVIOUS
      <3> QED
        BY <3>1, <3>2
    <2> QED
      BY <1>1, <2>1, <2>2
  <1> QED
    BY <1>2, <1>3

\* What is read next is the next address of the list.
LEMMA EntryOfList ==
    ASSUME TypeInv, NEW list, NEW pos, Runs(list, pos), Reads
    PROVE  /\ Entry \in 1 .. Len(list) /\ Len(list) \in Nat /\ Page[slot.entry] = list[Entry]
           /\ slot.page \in 1 .. Len(pages) /\ slot.entry \in 1 .. Len(pages[slot.page])
  <1>0. PICK P, L, K, e, m :
            /\ P = slot.page /\ L = Len(pages) /\ K = PageEntries /\ e = slot.entry
            /\ m = Len(pages[L])
    OBVIOUS
  <1>1. pc = "read" /\ pages # <<>> /\ map = <<>>
    BY DEF Reads, Runs, Paged
  <1>2. L \in Nat \ {0} /\ Len(list) \in Nat /\ K \in Nat \ {0}
    <2>1. pages \in Seq(Seq(Addresses)) /\ list \in Seq(Addresses)
      BY DEF TypeInv, Runs, Covers
    <2> QED
      BY <1>0, <1>1, <2>1, MapAssumption
  <1>3. P \in 1 .. L
    BY <1>0, <1>1 DEF Runs, Loading
  <1>4. \A q \in 1 .. L : /\ Len(pages[q]) \in 1 .. K
                          /\ \A k \in 1 .. Len(pages[q]) : pages[q][k] = list[(q - 1) * K + k]
    BY <1>0 DEF Runs, Paged
  <1>5. e \in 1 .. Len(pages[P])
    <2>1. pages[P] \in Seq(Addresses)
      BY <1>0, <1>3, Element DEF TypeInv
    <2> QED
      BY <1>0, <2>1 DEF Reads, Page
  <1>6. e \in 1 .. K /\ m \in 1 .. K /\ (P = L => e <= m)
    <2>1. Len(pages[P]) \in 1 .. K /\ m \in 1 .. K
      BY <1>0, <1>2, <1>3, <1>4
    <2>2. P = L => m = Len(pages[P])
      BY <1>0
    <2> QED
      BY <1>2, <1>5, <2>1, <2>2
  <1>7. pages[P][e] = list[(P - 1) * K + e]
    BY <1>3, <1>4, <1>5
  <1>8. Len(list) = (L - 1) * K + m
    <2>1. Written + 0 = Len(list)
      BY <1>1 DEF Runs, Paged
    <2>2. Written = (L - 1) * K + m
      BY <1>0, <1>1 DEF Written
    <2>3. (L - 1) * K + m \in Nat
      BY <1>2, <1>6
    <2> QED
      BY <2>1, <2>2, <2>3
  <1>9. (P - 1) * K + e \in 1 .. (L - 1) * K + m
    BY <1>2, <1>3, <1>6, PlaceInPages
  <1>10. Entry = (P - 1) * K + e /\ Page[slot.entry] = pages[P][e]
    BY <1>0 DEF Entry, Page
  <1> QED
    BY <1>0, <1>2, <1>3, <1>5, <1>7, <1>8, <1>9, <1>10

\* Every run has a sector at least, and an address that stands alone has no other.
LEMMA CountOfRun ==
    ASSUME TypeInv, NEW list, NEW pos, Runs(list, pos), NEW e \in 1 .. Len(list)
    PROVE  /\ list[e] \in Addresses /\ Count(list[e]) \in Nat \ {0}
           /\ pos[e] \in 1 .. Len(file) /\ pos[e] \in Nat \ {0} /\ file[pos[e]] \in Sectors
           /\ pos[e + 1] = pos[e] + Count(list[e])
           /\ Stands(list[e], file[pos[e]]) /\ Adjacent(pos[e], Count(list[e]))
  <1>1. list[e] \in Addresses
    BY Element DEF Runs, Covers
  <1>2. /\ pos[e] \in 1 .. Len(file) /\ pos[e + 1] = pos[e] + Count(list[e])
        /\ Stands(list[e], file[pos[e]]) /\ Adjacent(pos[e], Count(list[e]))
    BY DEF Runs, Covers
  <1>3. file \in Seq(Sectors)
    BY DEF TypeInv
  <1>4. file[pos[e]] \in Sectors /\ pos[e] \in Nat
    BY <1>2, <1>3, Element
  <1>5. pos[e] # 0
    <2>1. Len(file) \in Nat
      BY <1>3
    <2> QED
      BY <1>2, <2>1
  <1>6. Count(list[e]) \in Nat \ {0}
    BY <1>2 DEF Count, Stands
  <1> QED
    BY <1>1, <1>2, <1>4, <1>5, <1>6

\* Where a sector belongs, and that no other does.
LEMMA BelongsApart ==
    ASSUME NEW i \in Nat \ {0}, NEW j \in Nat \ {0}, Belongs(i) = Belongs(j)
    PROVE  i = j
  <1>1. Belongs(i).area = Belongs(j).area /\ Belongs(i).at = Belongs(j).at
    OBVIOUS
  <1>2. Header \in Nat /\ Header >= 2
    BY MapAssumption DEF Header
  <1> QED
    BY <1>1, <1>2 DEF Belongs

\* The sectors behind the setup, and those of a RAM disk, follow one another.
LEMMA BelongsNext ==
    ASSUME NEW i \in Nat \ {0}, NEW k \in Nat, k = 0 \/ i > Alone(kind) \/ kind = "ramdisk"
    PROVE  Belongs(i + k) = [area |-> Belongs(i).area, at |-> Belongs(i).at + k]
  <1>1. Header \in Nat /\ Header >= 2
    BY MapAssumption DEF Header
  <1>2. CASE kind = "ramdisk"
    <2>1. /\ Belongs(i + k) = [area |-> "high", at |-> i + k - 1]
          /\ Belongs(i) = [area |-> "high", at |-> i - 1]
      BY <1>2 DEF Belongs
    <2>2. i - 1 + k = i + k - 1
      OBVIOUS
    <2> QED
      BY <2>1, <2>2
  <1>3. CASE k = 0
    <2>1. i + k = i
      BY <1>3
    <2>2. Belongs(i) = [area |-> Belongs(i).area, at |-> Belongs(i).at]
      BY DEF Belongs
    <2>3. Belongs(i).at \in Int
      BY <1>1 DEF Belongs
    <2> QED
      BY <1>3, <2>1, <2>2, <2>3
  <1>4. CASE i > Alone(kind) /\ kind # "ramdisk"
    <2>1. i > Header
      BY <1>4 DEF Alone
    <2>2. i # 1 /\ ~(i <= Header) /\ i + k # 1 /\ ~(i + k <= Header)
      BY <1>1, <2>1
    <2>3. PICK x : \A j \in Nat : j # 1 /\ ~(j <= Header) =>
                        Belongs(j) = [area |-> x, at |-> j - Header - 1]
      <3>1. \A j \in Nat : j # 1 /\ ~(j <= Header) =>
                Belongs(j) = [area |-> IF kind = "high" THEN "high" ELSE "system", at |-> j - Header - 1]
        BY <1>4 DEF Belongs
      <3> QED
        BY <3>1
    <2>4. i - Header - 1 + k = (i + k) - Header - 1
      BY <1>1
    <2>5. /\ Belongs(i + k) = [area |-> x, at |-> (i + k) - Header - 1]
          /\ Belongs(i) = [area |-> x, at |-> i - Header - 1]
      <3>1. i + k \in Nat
        OBVIOUS
      <3>2. Belongs(i + k) = [area |-> x, at |-> (i + k) - Header - 1]
        BY <2>2, <2>3, <3>1, Zenon
      <3>3. Belongs(i) = [area |-> x, at |-> i - Header - 1]
        BY <2>2, <2>3, Zenon
      <3> QED
        BY <3>2, <3>3
    <2> QED
      BY <2>4, <2>5
  <1> QED
    BY <1>2, <1>3, <1>4

\* Before a read the loader stands where the run belongs that it reads.
LEMMA AtBelongs ==
    ASSUME TypeInv, NEW list, NEW pos, Runs(list, pos), Reads
    PROVE  /\ At \in [area : {"init", "setup", "system", "high"}, es : Nat, bx : Nat]
           /\ At.area = Belongs(pos[Entry]).area /\ At.bx < Segment
           /\ At.es * Segment + At.bx = Belongs(pos[Entry]).at
  <1>0. PICK E : E = Entry
    OBVIOUS
  <1>1. /\ E \in 1 .. Len(list) /\ Len(list) \in Nat /\ E \in Nat \ {0}
    BY <1>0, EntryOfList
  <1>2. Header \in Nat /\ Header >= 2 /\ Segment \in Nat \ {0} /\ 0 * Segment + 0 = 0
    BY MapAssumption DEF Header
  <1>3. /\ pos[1] = 1
        /\ \A e \in 1 .. Len(list) : e <= Alone(kind) => pos[e] = e /\ Count(list[e]) = 1
        /\ \A e \in 1 .. Len(list) : e > Alone(kind) => pos[e] > Alone(kind)
    BY DEF Runs, Covers, Aligned
  <1>4. \A area \in {"init", "setup", "system", "high"} :
            /\ Begin(area) \in [area : {"init", "setup", "system", "high"}, es : Nat, bx : Nat]
            /\ Begin(area).area = area /\ Begin(area).bx < Segment
            /\ Begin(area).es * Segment + Begin(area).bx = 0
    BY <1>2 DEF Begin
  \* Where the read before has left it.
  <1>5. ASSUME E > 1
        PROVE  /\ E - 1 \in 1 .. Len(list) /\ pos[E - 1] \in Nat \ {0}
               /\ pos[E] = pos[E - 1] + Count(list[E - 1]) /\ Count(list[E - 1]) \in Nat \ {0}
               /\ dest \in [area : {"init", "setup", "system", "high"}, es : Nat, bx : Nat]
               /\ dest.area = Belongs(pos[E] - 1).area /\ dest.bx < Segment
               /\ dest.es * Segment + dest.bx = Belongs(pos[E] - 1).at + 1
    <2>1. E - 1 \in 1 .. Len(list) /\ (E - 1) + 1 = E
      BY <1>1, <1>5
    <2>2. /\ pos[E - 1] \in Nat \ {0} /\ Count(list[E - 1]) \in Nat \ {0}
          /\ pos[E] = pos[E - 1] + Count(list[E - 1])
      BY <2>1, CountOfRun
    <2>3. /\ dest.area = Belongs(pos[E] - 1).area /\ dest.bx < Segment
          /\ dest.es * Segment + dest.bx = Belongs(pos[E] - 1).at + 1
      BY <1>0, <1>5 DEF Runs, Loading
    <2>4. dest \in [area : {"init", "setup", "system", "high"}, es : Nat, bx : Nat]
      BY DEF TypeInv
    <2> QED
      BY <2>1, <2>2, <2>3, <2>4
  \* The run continues the one before it.
  <1>6. ASSUME E > 1, pos[E] - 1 > Alone(kind) \/ kind = "ramdisk" \/ (2 < E /\ E <= Alone(kind)),
               At = dest
        PROVE  /\ Belongs(pos[E]).area = Belongs(pos[E] - 1).area
               /\ Belongs(pos[E]).at = Belongs(pos[E] - 1).at + 1
    <2>1. pos[E] - 1 \in Nat \ {0} /\ (pos[E] - 1) + 1 = pos[E]
      BY <1>5, <1>6
    <2>2. CASE pos[E] - 1 > Alone(kind) \/ kind = "ramdisk"
      <3>1. Belongs((pos[E] - 1) + 1) = [area |-> Belongs(pos[E] - 1).area, at |-> Belongs(pos[E] - 1).at + 1]
        BY <2>1, <2>2, BelongsNext
      <3> QED
        BY <2>1, <3>1
    <2>3. CASE 2 < E /\ E <= Alone(kind) /\ kind # "ramdisk"
      <3>1. pos[E] = E /\ E <= Header /\ 2 < E
        BY <1>1, <1>3, <2>3 DEF Alone
      <3>2. E # 1 /\ E - 1 # 1 /\ E - 1 <= Header
        BY <1>1, <1>2, <3>1
      <3>3. Belongs(E) = [area |-> "setup", at |-> E - 2] /\ Belongs(E - 1) = [area |-> "setup", at |-> (E - 1) - 2]
        BY <2>3, <3>1, <3>2 DEF Belongs
      <3>4. ((E - 1) - 2) + 1 = E - 2
        BY <1>1
      <3> QED
        BY <3>1, <3>3, <3>4
    <2> QED
      BY <1>6, <2>2, <2>3
  <1>7. CASE kind = "ramdisk"
    <2>1. CASE E = 1
      <3>1. At = Begin("high") /\ Belongs(1) = [area |-> "high", at |-> 0]
        BY <1>0, <1>7, <2>1 DEF At, Belongs
      <3> QED
        BY <1>0, <1>3, <1>4, <2>1, <3>1
    <2>2. CASE E # 1
      <3>1. At = dest /\ E > 1
        BY <1>0, <1>1, <1>7, <2>2 DEF At
      <3> QED
        BY <1>0, <1>5, <1>6, <1>7, <3>1
    <2> QED
      BY <2>1, <2>2
  <1>8. CASE kind # "ramdisk"
    <2>0. Alone(kind) = Header
      BY <1>8 DEF Alone
    <2>1. CASE E = 1
      <3>1. At = Begin("init") /\ Belongs(1) = [area |-> "init", at |-> 0]
        BY <1>0, <1>8, <2>1 DEF At, Belongs
      <3> QED
        BY <1>0, <1>3, <1>4, <2>1, <3>1
    <2>2. CASE E = 2
      <3>1. At = Begin("setup") /\ Belongs(2) = [area |-> "setup", at |-> 0]
        BY <1>0, <1>2, <1>8, <2>2 DEF At, Belongs
      <3>2. pos[2] = 2
        BY <1>1, <1>2, <1>3, <2>0, <2>2
      <3> QED
        BY <1>0, <1>4, <2>2, <3>1, <3>2
    <2>3. CASE E = Header + 1
      <3>1. At = Begin(IF kind = "high" THEN "high" ELSE "system") /\ E > 1
        BY <1>0, <1>2, <1>8, <2>3 DEF At
      <3>2. pos[E] = Header + 1
        <4>1. E - 1 = Header /\ Header \in 1 .. Len(list)
          BY <1>1, <1>2, <2>3
        <4>2. pos[Header] = Header /\ Count(list[Header]) = 1
          BY <1>2, <1>3, <2>0, <4>1
        <4> QED
          BY <1>5, <3>1, <4>1, <4>2
      <3>3. Belongs(Header + 1) = [area |-> IF kind = "high" THEN "high" ELSE "system",
                                   at |-> (Header + 1) - Header - 1]
        <4>1. Header + 1 # 1 /\ ~(Header + 1 <= Header)
          BY <1>2
        <4> QED
          BY <1>8, <4>1 DEF Belongs
      <3>4. (Header + 1) - Header - 1 = 0
        BY <1>2
      <3> QED
        BY <1>0, <1>4, <3>1, <3>2, <3>3, <3>4
    <2>4. CASE E # 1 /\ E # 2 /\ E # Header + 1
      <3>1. At = dest /\ E > 1
        BY <1>0, <1>1, <1>8, <2>4 DEF At
      <3>2. pos[E] - 1 > Alone(kind) \/ (2 < E /\ E <= Alone(kind))
        <4>1. CASE E <= Header
          BY <1>1, <2>0, <2>4, <4>1
        <4>2. CASE E > Header
          <5>1. E - 1 \in 1 .. Len(list) /\ E - 1 > Header
            BY <1>1, <1>2, <2>4, <4>2
          <5>2. pos[E - 1] > Header
            BY <1>3, <2>0, <5>1
          <5> QED
            BY <1>2, <1>5, <2>0, <3>1, <5>2
        <4> QED
          BY <1>1, <1>2, <4>1, <4>2
      <3> QED
        BY <1>0, <1>5, <1>6, <3>1, <3>2
    <2> QED
      BY <2>1, <2>2, <2>3, <2>4
  <1> QED
    BY <1>7, <1>8

\* What is read are the sectors of the run, at the places where they belong.
LEMMA ReadOfRun ==
    ASSUME TypeInv, NEW list, NEW pos, Runs(list, pos), Reads
    PROVE  /\ Transfer(list[Entry]) = [i \in 1 .. Count(list[Entry]) |-> file[pos[Entry] + i - 1]]
           /\ \A i \in 1 .. Count(list[Entry]) : Place(At, i - 1) = Belongs(pos[Entry] + (i - 1))
           /\ Lba(list[Entry].dev) => HighOf(list[Entry]) = High(file[pos[Entry]])
  <1>0. PICK E, a, s, n, q : E = Entry /\ a = list[E] /\ s = file[pos[E]] /\ n = Count(a) /\ q = pos[E]
    OBVIOUS
  <1>1. /\ E \in 1 .. Len(list) /\ E \in Nat /\ a \in Addresses /\ s \in Sectors /\ n \in Nat \ {0}
        /\ q \in Nat \ {0} /\ Stands(a, s) /\ Adjacent(q, n)
    BY <1>0, EntryOfList, CountOfRun
  <1>2. Number(a) = s.at /\ a.dev = s.dev /\ (Lba(a.dev) => HighOf(a) = High(s))
    <2>1. ASSUME Lba(a.dev), ~a.nocount
          PROVE  loaderHi = High(s)
      <3>1. /\ E > 1 /\ list[E - 1].dev = a.dev /\ High(file[pos[E - 1]]) = High(s)
        BY <1>0, <1>1, <2>1 DEF Runs, Inherits
      <3>2. Lba(list[E - 1].dev) => loaderHi = High(file[pos[E - 1]])
        BY <1>0, <3>1 DEF Runs, Loading
      <3> QED
        BY <2>1, <3>1, <3>2
    <2>2. loaderHi \in Nat
      BY DEF TypeInv
    <2> QED
      BY <1>1, <2>1, <2>2, NumberOfRun
  <1>3. Transfer(a) = [i \in 1 .. n |-> file[q + i - 1]]
    <2>1. ASSUME NEW i \in 1 .. n
          PROVE  [dev |-> a.dev, at |-> Number(a) + i - 1] = file[q + i - 1]
      <3>1. i - 1 \in 0 .. n - 1 /\ i \in Nat
        BY <1>1
      <3>2. file[q + (i - 1)] = [dev |-> s.dev, at |-> s.at + (i - 1)]
        BY <1>0, <1>1, <3>1 DEF Adjacent
      <3> QED
        BY <1>2, <3>2
    <2> QED
      BY <1>0, <2>1 DEF Transfer
  <1>4. ASSUME NEW i \in 1 .. n
        PROVE  Place(At, i - 1) = Belongs(q + (i - 1))
    <2>1. i - 1 \in Nat /\ (n = 1 => i - 1 = 0)
      BY <1>1
    <2>2. n = 1 \/ q > Alone(kind)
      <3>1. Alone(kind) \in Nat
        BY MapAssumption DEF Alone, Header
      <3>2. E <= Alone(kind) => n = 1
        BY <1>0, <1>1 DEF Runs, Aligned
      <3>3. E > Alone(kind) => q > Alone(kind)
        BY <1>0, <1>1 DEF Runs, Aligned
      <3> QED
        BY <1>1, <3>1, <3>2, <3>3
    <2>3. Belongs(q + (i - 1)) = [area |-> Belongs(q).area, at |-> Belongs(q).at + (i - 1)]
      BY <1>1, <2>1, <2>2, BelongsNext
    <2>4. At.area = Belongs(q).area /\ At.es * Segment + At.bx = Belongs(q).at
      BY <1>0, AtBelongs
    <2> QED
      BY <2>3, <2>4 DEF Place
  <1> QED
    BY <1>0, <1>2, <1>3, <1>4

\* ES:BX move by as many sectors as were read.
LEMMA Advanced ==
    ASSUME NEW to \in [area : {"init", "setup", "system", "high"}, es : Nat, bx : Nat],
           NEW n \in Nat, to.bx < Segment
    PROVE  /\ Advance(to, n) \in [area : {"init", "setup", "system", "high"}, es : Nat, bx : Nat]
           /\ Advance(to, n).area = to.area /\ Advance(to, n).bx < Segment
           /\ Advance(to, n).es * Segment + Advance(to, n).bx = to.es * Segment + to.bx + n
  <1>1. Segment \in Nat \ {0} /\ to.es \in Nat /\ to.bx \in Nat
    BY MapAssumption
  <1>2. CASE n = Segment
    <2>1. /\ Advance(to, n).area = to.area /\ Advance(to, n).es = to.es + 1
          /\ Advance(to, n).bx = to.bx
          /\ Advance(to, n) \in [area : {"init", "setup", "system", "high"}, es : Nat, bx : Nat]
      BY <1>1, <1>2 DEF Advance
    <2>2. (to.es + 1) * Segment + to.bx = to.es * Segment + to.bx + n
      BY <1>1, <1>2
    <2> QED
      BY <2>1, <2>2
  <1>3. CASE n # Segment
    <2>1. PICK x, d, m : x = to.bx + n /\ d = x \div Segment /\ m = x % Segment
      OBVIOUS
    <2>2. x \in Nat /\ d \in Nat /\ m \in 0 .. Segment - 1 /\ x = d * Segment + m
      <3>1. x \in Nat
        BY <1>1, <2>1
      <3> QED
        BY <1>1, <2>1, <3>1, Division
    <2>3. /\ Advance(to, n).area = to.area /\ Advance(to, n).es = to.es + d
          /\ Advance(to, n).bx = m
          /\ Advance(to, n) \in [area : {"init", "setup", "system", "high"}, es : Nat, bx : Nat]
      <3>1. Advance(to, n) = [to EXCEPT !.es = to.es + d, !.bx = m]
        BY <1>3, <2>1 DEF Advance
      <3>2. to.es + d \in Nat /\ m \in Nat
        BY <1>1, <2>2
      <3> QED
        BY <3>1, <3>2
    <2>4. (to.es + d) * Segment + m = to.es * Segment + to.bx + n
      <3>1. (to.es + d) * Segment = to.es * Segment + d * Segment
        BY <1>1, <2>2
      <3>2. PICK u, v : u = to.es * Segment /\ v = d * Segment
        OBVIOUS
      <3>3. u \in Nat /\ v \in Nat
        BY <1>1, <2>2, <3>2
      <3>4. (to.es + d) * Segment = u + v /\ to.bx + n = v + m
        BY <2>1, <2>2, <3>1, <3>2
      <3>5. (u + v) + m = u + to.bx + n
        <4>1. m \in Nat
          BY <1>1, <2>2
        <4>2. PICK y \in Nat : y = to.bx
          BY <1>1
        <4>3. (u + v) + m = u + y + n
          BY <3>3, <3>4, <4>1, <4>2
        <4> QED
          BY <4>2, <4>3
      <3> QED
        BY <3>2, <3>4, <3>5
    <2>5. m < Segment
      BY <1>1, <2>2
    <2> QED
      BY <2>3, <2>4, <2>5
  <1> QED
    BY <1>2, <1>3

\* What memory holds when these are put in these places.
Put(places, read) ==
    [p \in DOMAIN memory \cup Range(places) |->
        IF p \in Range(places) THEN read[CHOOSE i \in DOMAIN read : places[i] = p]
        ELSE memory[p]]

\* The first m sectors, each where it belongs, and the places of the run that
\* begins with the q-th.
Holds(mem, m) ==
    /\ DOMAIN mem = {Belongs(i) : i \in 1 .. m}
    /\ \A i \in 1 .. m : mem[Belongs(i)] = file[i]

Meets(to, q, n) == \A i \in 1 .. n : Place(to, i - 1) = Belongs(q + (i - 1))

\* Memory holds what it held and the run, in its places.
LEMMA StoredRun ==
    ASSUME NEW q \in Nat \ {0}, NEW n \in Nat \ {0}, NEW to,
           Meets(to, q, n), Holds(memory, q - 1),
           NEW read, read = [i \in 1 .. n |-> file[q + i - 1]],
           NEW new, new = Stored(to, read)
    PROVE  Holds(new, (q + n) - 1)
  <1>0. /\ \A i \in 1 .. n : Place(to, i - 1) = Belongs(q + (i - 1))
        /\ DOMAIN memory = {Belongs(i) : i \in 1 .. q - 1}
        /\ \A i \in 1 .. q - 1 : memory[Belongs(i)] = file[i]
    BY DEF Meets, Holds
  <1>1. read = [i \in 1 .. n |-> file[q + i - 1]]
    OBVIOUS
  <1>2. PICK places : places = [i \in 1 .. n |-> Belongs(q + (i - 1))]
    OBVIOUS
  <1>3. [i \in DOMAIN read |-> Place(to, i - 1)] = places
    BY <1>0, <1>1, <1>2
  <1>4. DOMAIN read = 1 .. n /\ DOMAIN places = 1 .. n
    BY <1>1, <1>2
  <1>5. Range(places) = {Belongs(j) : j \in q .. (q + n) - 1}
    <2>1. \A i \in 1 .. n : q + (i - 1) \in q .. (q + n) - 1
      OBVIOUS
    <2>2. \A j \in q .. (q + n) - 1 : (j - q) + 1 \in 1 .. n /\ q + (((j - q) + 1) - 1) = j
      OBVIOUS
    <2>3. \A i \in 1 .. n : places[i] = Belongs(q + (i - 1))
      BY <1>2
    <2>4. Range(places) = {places[i] : i \in 1 .. n}
      BY <1>4 DEF Range
    <2>5. \A x \in Range(places) : x \in {Belongs(j) : j \in q .. (q + n) - 1}
      BY <2>1, <2>3, <2>4
    <2>6. ASSUME NEW j \in q .. (q + n) - 1
          PROVE  Belongs(j) \in Range(places)
      <3>1. (j - q) + 1 \in 1 .. n /\ places[(j - q) + 1] = Belongs(j)
        BY <2>2, <2>3
      <3> QED
        BY <2>4, <3>1
    <2> QED
      BY <2>5, <2>6
  <1>6. new = [p \in DOMAIN memory \cup Range(places) |->
                IF p \in Range(places) THEN read[CHOOSE i \in DOMAIN read : places[i] = p]
                ELSE memory[p]]
    <2>1. new = Stored(to, read)
      OBVIOUS
    <2>2. Stored(to, read) = Put([i \in DOMAIN read |-> Place(to, i - 1)], read)
      BY DEF Stored, Put
    <2>3. new = Put(places, read)
      BY <1>3, <2>1, <2>2
    <2> QED
      BY <2>3 DEF Put
  <1>7. DOMAIN new = {Belongs(i) : i \in 1 .. (q + n) - 1}
    <2>1. \A i \in 1 .. (q + n) - 1 : i \in 1 .. q - 1 \/ i \in q .. (q + n) - 1
      OBVIOUS
    <2>2. (\A i \in 1 .. q - 1 : i \in 1 .. (q + n) - 1) /\ (\A i \in q .. (q + n) - 1 : i \in 1 .. (q + n) - 1)
      OBVIOUS
    <2>3. DOMAIN new = {Belongs(i) : i \in 1 .. q - 1} \cup {Belongs(j) : j \in q .. (q + n) - 1}
      BY <1>0, <1>5, <1>6
    <2> QED
      BY <2>1, <2>2, <2>3
  <1>8. ASSUME NEW i \in 1 .. (q + n) - 1
        PROVE  new[Belongs(i)] = file[i]
    <2>1. i \in Nat \ {0} /\ Belongs(i) \in DOMAIN new
      BY <1>7
    <2>2. CASE i \in 1 .. q - 1
      <3>1. ASSUME NEW j \in q .. (q + n) - 1, Belongs(i) = Belongs(j)
            PROVE  FALSE
        <4>1. j \in Nat \ {0} /\ i # j
          BY <2>2
        <4> QED
          BY <2>1, <3>1, <4>1, BelongsApart
      <3>2. Belongs(i) \notin Range(places)
        BY <1>5, <3>1
      <3>3. new[Belongs(i)] = memory[Belongs(i)]
        BY <1>6, <2>1, <3>2
      <3> QED
        BY <1>0, <2>2, <3>3
    <2>3. CASE i \in q .. (q + n) - 1
      <3>1. PICK k : k = CHOOSE j \in DOMAIN read : places[j] = Belongs(i)
        OBVIOUS
      <3>2. Belongs(i) \in Range(places)
        BY <1>5, <2>3
      <3>3. \E j \in DOMAIN read : places[j] = Belongs(i)
        BY <1>4, <3>2 DEF Range
      <3>4. k \in 1 .. n /\ places[k] = Belongs(i)
        BY <1>4, <3>1, <3>3
      <3>5. Belongs(q + (k - 1)) = Belongs(i)
        BY <1>2, <3>4
      <3>6. q + (k - 1) \in Nat \ {0}
        BY <3>4
      <3>7. q + (k - 1) = i
        BY <2>1, <3>5, <3>6, BelongsApart
      <3>8. read[k] = file[i]
        BY <1>1, <3>4, <3>7
      <3>9. new[Belongs(i)] = read[k]
        BY <1>6, <2>1, <3>1, <3>2
      <3> QED
        BY <3>8, <3>9
    <2> QED
      BY <2>2, <2>3
  <1> QED
    BY <1>7, <1>8 DEF Holds

\* The loader reads a run to where it belongs.
LEMMA ReadEntryMap ==
    ASSUME TypeInv, NEW list, NEW pos, Runs(list, pos), ReadEntry
    PROVE  TypeInv' /\ Runs(list, pos)'
  <1>0. PICK E, a, n, q : E = Entry /\ a = list[E] /\ n = Count(a) /\ q = pos[E]
    OBVIOUS
  <1>1. /\ Reads /\ memory' = Stored(At, Transfer(a)) /\ dest' = Advance(At, n)
        /\ loaderHi' = (IF Lba(a.dev) THEN HighOf(a) ELSE loaderHi)
        /\ slot' = [slot EXCEPT !.entry = @ + 1]
        /\ UNCHANGED <<input, map, pc, compaction, pages, sectors>>
    <2>1. Reads
      BY DEF ReadEntry
    <2>2. Page[slot.entry] = a
      BY <1>0, <2>1, EntryOfList
    <2> QED
      BY <1>0, <2>2 DEF ReadEntry
  <1>2. /\ E \in 1 .. Len(list) /\ E \in Nat \ {0} /\ a \in Addresses /\ n \in Nat \ {0}
        /\ q \in Nat \ {0} /\ pos[E + 1] = q + n /\ file[q] \in Sectors
    <2>1. E \in 1 .. Len(list) /\ Len(list) \in Nat
      BY <1>0, <1>1, EntryOfList
    <2>2. /\ a \in Addresses /\ n \in Nat \ {0} /\ q \in Nat \ {0} /\ pos[E + 1] = q + n
          /\ file[q] \in Sectors
      BY <1>0, <2>1, CountOfRun
    <2> QED
      BY <2>1, <2>2
  <1>3. /\ dest' \in [area : {"init", "setup", "system", "high"}, es : Nat, bx : Nat]
        /\ dest'.area = Belongs(q).area /\ dest'.bx < Segment
        /\ dest'.es * Segment + dest'.bx = Belongs(q).at + n
    <2>1. /\ At \in [area : {"init", "setup", "system", "high"}, es : Nat, bx : Nat]
          /\ At.area = Belongs(q).area /\ At.bx < Segment
          /\ At.es * Segment + At.bx = Belongs(q).at
      BY <1>0, <1>1, AtBelongs
    <2>2. n \in Nat
      BY <1>2
    <2>3. /\ Advance(At, n) \in [area : {"init", "setup", "system", "high"}, es : Nat, bx : Nat]
          /\ Advance(At, n).area = At.area /\ Advance(At, n).bx < Segment
          /\ Advance(At, n).es * Segment + Advance(At, n).bx = At.es * Segment + At.bx + n
      BY <2>1, <2>2, Advanced
    <2> QED
      BY <1>1, <2>1, <2>3
  <1>4. Lba(a.dev) => loaderHi' = High(file[q]) /\ High(file[q]) \in Nat
    <2>1. Lba(a.dev) => HighOf(a) = High(file[q])
      BY <1>0, <1>1, ReadOfRun
    <2>2. High(file[q]) \in Nat
      BY <1>2, SectorType
    <2> QED
      BY <1>1, <2>1, <2>2
  <1>5. /\ slot'.page = slot.page /\ slot'.entry = slot.entry + 1 /\ slot' \in [page : Nat, entry : Nat]
        /\ slot.page \in Nat /\ slot.entry \in Nat
    <2>1. slot \in [page : Nat, entry : Nat] /\ slot' = [slot EXCEPT !.entry = @ + 1]
      BY <1>1 DEF TypeInv
    <2> QED
      BY <2>1
  <1>6. Entry' = E + 1
    <2>1. Entry' = (slot.page - 1) * PageEntries + (slot.entry + 1)
      BY <1>5 DEF Entry
    <2>2. (slot.page - 1) * PageEntries \in Int
      BY <1>5, MapAssumption
    <2>3. PICK x \in Int : x = (slot.page - 1) * PageEntries
      BY <2>2
    <2> QED
      BY <1>0, <1>5, <2>1, <2>3 DEF Entry
  <1>7. TypeInv'
    <2>1. loaderHi' \in Nat
      BY <1>1, <1>4 DEF TypeInv
    <2>2. UNCHANGED <<mode, compact, kind, file, map, pc, walk, hinib, offset, noffset, pages, sectors>>
      BY <1>1 DEF input, compaction
    <2> QED
      BY <1>3, <1>5, <2>1, <2>2 DEF TypeInv
  <1>8. Covers(list, pos)' /\ Inherits(list, pos)' /\ Aligned(list, pos)'
    BY <1>1, KeepRuns DEF Runs, input
  <1>9. Merging(list, pos)'
    BY <1>1 DEF Merging, Reads
  <1>10. Paged(list)'
    BY <1>1 DEF Runs, Paged, Written, input
  <1>11. /\ \A i : Belongs(i)' = Belongs(i)
         /\ \A d : Lba(d)' = Lba(d)
         /\ \A s : High(s)' = High(s)
         /\ UNCHANGED <<file, pages, pc>> /\ pc = "read"
    BY <1>1 DEF input, Belongs, Lba, High, Reads
  <1>12. /\ DOMAIN memory' = {Belongs(i) : i \in 1 .. (q + n) - 1}
         /\ \A i \in 1 .. (q + n) - 1 : memory'[Belongs(i)] = file[i]
    <2>1. /\ Transfer(a) = [i \in 1 .. n |-> file[q + i - 1]]
          /\ \A i \in 1 .. n : Place(At, i - 1) = Belongs(q + (i - 1))
      BY <1>0, <1>1, ReadOfRun
    <2>2. Holds(memory, q - 1)
      BY <1>0 DEF Runs, Loading, Holds
    <2>3. PICK to : to = At
      OBVIOUS
    <2>4. PICK read, new : read = [i \in 1 .. n |-> file[q + i - 1]] /\ new = Stored(to, read)
      OBVIOUS
    <2>5. Meets(to, q, n)
      BY <2>1, <2>3 DEF Meets
    <2>6. Holds(new, (q + n) - 1)
      <3>1. q \in Nat \ {0} /\ n \in Nat \ {0}
        BY <1>2
      <3> QED
        BY <2>2, <2>4, <2>5, <3>1, StoredRun
    <2>7. memory' = new
      BY <1>1, <2>1, <2>3, <2>4
    <2> QED
      BY <2>6, <2>7 DEF Holds
  <1>13. Loading(list, pos)'
    <2>1. pos[E + 1] - 1 = (q + n) - 1 /\ (E + 1) - 1 = E /\ E + 1 > 1
      BY <1>2
    <2>2. slot'.page \in 1 .. Len(pages) /\ slot'.entry \in 1 .. Len(pages[slot'.page]) + 1
      <3>1. slot.page \in 1 .. Len(pages) /\ slot.entry \in 1 .. Len(pages[slot.page])
        BY <1>1, EntryOfList
      <3>2. Len(pages[slot.page]) \in Nat
        BY <3>1 DEF TypeInv
      <3> QED
        BY <1>5, <3>1, <3>2
    <2>3. /\ dest'.area = Belongs((q + n) - 1).area
          /\ dest'.es * Segment + dest'.bx = Belongs((q + n) - 1).at + 1
      <3>1. n = 1 \/ q > Alone(kind)
        <4>1. Alone(kind) \in Nat
          BY MapAssumption DEF Alone, Header
        <4>2. E <= Alone(kind) => n = 1
          BY <1>0, <1>2 DEF Runs, Aligned
        <4>3. E > Alone(kind) => q > Alone(kind)
          BY <1>0, <1>2 DEF Runs, Aligned
        <4> QED
          BY <1>2, <4>1, <4>2, <4>3
      <3>2. n - 1 \in Nat /\ (n = 1 => n - 1 = 0) /\ q + (n - 1) = (q + n) - 1
        BY <1>2
      <3>3. Belongs(q + (n - 1)) = [area |-> Belongs(q).area, at |-> Belongs(q).at + (n - 1)]
        BY <1>2, <3>1, <3>2, BelongsNext
      <3>4. Belongs((q + n) - 1) = [area |-> Belongs(q).area, at |-> Belongs(q).at + (n - 1)]
        BY <3>2, <3>3
      <3>5. Belongs(q).at \in Int
        <4>1. Header \in Nat
          BY MapAssumption DEF Header
        <4> QED
          BY <1>2, <4>1 DEF Belongs
      <3>6. (Belongs(q).at + (n - 1)) + 1 = Belongs(q).at + n
        BY <1>2, <3>5
      <3> QED
        BY <1>3, <3>4, <3>6
    <2>4. /\ DOMAIN memory' = {Belongs(i)' : i \in 1 .. pos[Entry'] - 1}
          /\ \A i \in 1 .. pos[Entry'] - 1 : memory'[Belongs(i)'] = file'[i]
      <3>1. pos[Entry'] - 1 = (q + n) - 1
        BY <1>2, <1>6
      <3> QED
        BY <1>11, <1>12, <3>1
    <2>5. (/\ dest.area = Belongs(pos[Entry] - 1).area /\ dest.bx < Segment
           /\ dest.es * Segment + dest.bx = Belongs(pos[Entry] - 1).at + 1)'
      <3>1. pos[Entry'] - 1 = (q + n) - 1
        BY <1>2, <1>6
      <3>2. Belongs(pos[Entry] - 1)' = Belongs((q + n) - 1)
        BY <1>11, <3>1
      <3> QED
        BY <1>3, <2>3, <3>2
    <2>6. (Lba(list[Entry - 1].dev) => loaderHi = High(file[pos[Entry - 1]]))'
      <3>1. list[Entry' - 1] = a /\ pos[Entry' - 1] = q
        BY <1>0, <1>6, <2>1
      <3>2. Lba(list[Entry - 1].dev)' = Lba(a.dev)
        BY <1>11, <3>1
      <3>3. High(file[pos[Entry - 1]])' = High(file[q])
        BY <1>11, <3>1
      <3> QED
        BY <1>4, <3>2, <3>3
    <2> QED
      BY <1>11, <2>2, <2>4, <2>5, <2>6 DEF Loading
  <1> QED
    BY <1>7, <1>8, <1>9, <1>10, <1>13 DEF Runs

-----------------------------------------------------------------------------
(* The theorems.                                                           *)

\* No step leaves the invariant.
LEMMA NextMap == MapInv /\ [Next]_vars => MapInv'
  <1> SUFFICES ASSUME MapInv, [Next]_vars
               PROVE  MapInv'
    OBVIOUS
  <1>1. TypeInv
    BY DEF MapInv
  <1>2. PICK list, pos : Runs(list, pos)
    BY DEF MapInv
  <1>3. ASSUME NEW s \in Sectors, AddSector(s)
        PROVE  MapInv'
    <2>1. TypeInv' /\ \E new : Runs(new, pos)'
      BY <1>1, <1>2, <1>3, AddSectorMap
    <2> QED
      BY <2>1 DEF MapInv
  <1>4. ASSUME NEW k \in Kinds, EndSection(k)
        PROVE  MapInv'
    <2>1. TypeInv' /\ Runs(list, pos)'
      BY <1>1, <1>2, <1>4, EndSectionMap
    <2> QED
      BY <2>1 DEF MapInv
  <1>5. CASE Compact
    <2>1. TypeInv' /\ \E l, p : Runs(l, p)'
      BY <1>1, <1>2, <1>5, CompactMap
    <2> QED
      BY <2>1 DEF MapInv
  <1>6. CASE Compacted \/ Emit \/ CheckSize \/ ReadEntry \/ NextPage \/ Eof
    <2>1. TypeInv' /\ Runs(list, pos)'
      BY <1>1, <1>2, <1>6, CompactedMap, EmitMap, CheckSizeMap, ReadEntryMap, NextPageMap, EofMap
    <2> QED
      BY <2>1 DEF MapInv
  <1>7. CASE UNCHANGED vars
    <2>1. TypeInv'
      BY <1>1, <1>7 DEF TypeInv, vars, input, compaction, loader
    <2>2. Covers(list, pos)' /\ Inherits(list, pos)' /\ Aligned(list, pos)'
      BY <1>2, <1>7, KeepRuns DEF Runs, vars, input
    <2>3. Loading(list, pos)'
      <3>1. /\ Loading(list, pos)
            /\ pc' = pc \/ (pc' \notin {"read", "loaded"} /\ pc \notin {"read", "loaded"})
            /\ pages' = pages \/ pc \notin {"read", "loaded"}
        BY <1>2, <1>7 DEF Runs, vars
      <3>2. UNCHANGED <<mode, kind, file, slot, loaderHi, dest, memory>>
        BY <1>7 DEF vars, input, loader
      <3> QED
        BY <3>1, <3>2, KeepLoading
    <2>4. Paged(list)'
      BY <1>2, <1>7 DEF Runs, Paged, Written, vars, input
    <2>5. Merging(list, pos)'
      <3>1. /\ \A s : Address(s)' = Address(s)
            /\ \A p : From(p)' = From(p)
            /\ \A a : Count(a)' = Count(a)
            /\ \A d : Lba(d)' = Lba(d)
            /\ \A s : High(s)' = High(s)
            /\ Alone(kind)' = Alone(kind)
        BY <1>7 DEF vars, input, Address, From, Alone, Count, Lba, Linear, High
      <3>2. UNCHANGED <<pc, offset, noffset, walk, hinib, file, kind>>
        BY <1>7 DEF vars, input, compaction
      <3> QED
        BY <1>2, <3>1, <3>2 DEF Runs, Merging
    <2>6. Runs(list, pos)'
      BY <2>2, <2>3, <2>4, <2>5 DEF Runs
    <2> QED
      BY <2>1, <2>6 DEF MapInv
  <1> QED
    BY <1>3, <1>4, <1>5, <1>6, <1>7 DEF Next

\* The loader is nowhere behind the end of the list, and there when it has loaded it.
LEMMA EntryInList ==
    ASSUME TypeInv, NEW list, NEW pos, Runs(list, pos)
    PROVE  /\ Entry \in 1 .. Len(list) + 1 /\ Len(list) \in Nat
           /\ pc = "loaded" => Entry = Len(list) + 1
  <1>0. PICK P, L, K, e, m :
            /\ P = slot.page /\ L = Len(pages) /\ K = PageEntries /\ e = slot.entry
            /\ m = Len(pages[L])
    OBVIOUS
  <1>1. Len(list) \in Nat /\ K \in Nat \ {0} /\ Entry = (P - 1) * K + e
    BY <1>0, MapAssumption DEF Runs, Covers, Entry
  <1>2. CASE pc \notin {"read", "loaded"}
    <2>1. P = 1 /\ e = 1
      BY <1>0, <1>2 DEF Runs, Loading
    <2>2. (1 - 1) * K + 1 = 1
      BY <1>1
    <2> QED
      BY <1>1, <1>2, <2>1, <2>2
  <1>3. CASE pc \in {"read", "loaded"}
    <2>1. pages # <<>> /\ map = <<>>
      BY <1>3 DEF Runs, Paged
    <2>2. L \in Nat \ {0} /\ P \in 1 .. L
      <3>1. pages \in Seq(Seq(Addresses))
        BY DEF TypeInv
      <3>2. P \in 1 .. L
        BY <1>0, <1>3 DEF Runs, Loading
      <3> QED
        BY <1>0, <2>1, <3>1, <3>2
    <2>3. Len(pages[P]) \in 1 .. K /\ m \in 1 .. K
      BY <1>0, <2>2 DEF Runs, Paged
    <2>4. e \in 1 .. Len(pages[P]) + 1
      BY <1>0, <1>3 DEF Runs, Loading
    <2>5. Len(list) = (L - 1) * K + m
      <3>1. Written + 0 = Len(list)
        BY <2>1 DEF Runs, Paged
      <3>2. Written = (L - 1) * K + m
        BY <1>0, <2>1 DEF Written
      <3>3. (L - 1) * K + m \in Nat
        BY <1>1, <2>2, <2>3
      <3> QED
        BY <3>1, <3>2, <3>3
    <2>6. P = L => m = Len(pages[P])
      BY <1>0
    <2>7. CASE e = 1
      <3>1. 1 \in 1 .. K /\ (P = L => 1 <= m)
        BY <1>1, <2>3
      <3>2. (P - 1) * K + 1 \in 1 .. Len(list)
        BY <1>1, <2>2, <2>3, <2>5, <3>1, PlaceInPages
      <3>3. Entry \in 1 .. Len(list) + 1
        BY <1>1, <2>7, <3>2
      <3>4. pc # "loaded"
        <4>1. pc = "loaded" => e = Len(pages[P]) + 1
          BY <1>0 DEF Runs, Loading
        <4> QED
          BY <1>1, <2>3, <2>7, <4>1
      <3> QED
        BY <1>1, <3>3, <3>4
    <2>8. CASE e # 1
      <3>1. e - 1 \in 1 .. K /\ (P = L => e - 1 <= m)
        BY <1>1, <2>3, <2>4, <2>6, <2>8
      <3>2. (P - 1) * K + (e - 1) \in 1 .. Len(list)
        BY <1>1, <2>2, <2>3, <2>5, <3>1, PlaceInPages
      <3>3. (P - 1) * K \in Int /\ e \in Nat
        BY <1>1, <2>2, <2>3, <2>4
      <3>4. PICK x \in Int : x = (P - 1) * K
        BY <3>3
      <3>5. Entry \in 1 .. Len(list) + 1
        BY <1>1, <3>2, <3>3, <3>4
      <3>6. ASSUME pc = "loaded"
            PROVE  Entry = Len(list) + 1
        <4>1. P = L /\ e = m + 1
          BY <1>0, <3>6 DEF Runs, Loading
        <4> QED
          BY <1>1, <2>3, <2>5, <3>4, <4>1
      <3> QED
        BY <1>1, <3>5, <3>6
    <2> QED
      BY <2>7, <2>8
  <1> QED
    BY <1>2, <1>3

\* What memory holds are sectors of the file, each where it belongs; at the end all.
LEMMA MapLoads == MapInv => LoadsTheFile
  <1> SUFFICES ASSUME MapInv
               PROVE  LoadsTheFile
    OBVIOUS
  <1>1. TypeInv
    BY DEF MapInv
  <1>2. PICK list, pos : Runs(list, pos)
    BY DEF MapInv
  <1>3. /\ Entry \in 1 .. Len(list) + 1 /\ Len(list) \in Nat
        /\ pc = "loaded" => Entry = Len(list) + 1
    BY <1>1, <1>2, EntryInList
  <1>4. Len(file) \in Nat /\ DOMAIN file = 1 .. Len(file)
    BY <1>1 DEF TypeInv
  <1>5. pos[Len(list) + 1] = Len(file) + 1
    BY <1>2 DEF Runs, Covers
  <1>6. pos[Entry] \in Nat /\ pos[Entry] - 1 <= Len(file)
    <2>1. CASE Entry = Len(list) + 1
      BY <1>4, <1>5, <2>1
    <2>2. CASE Entry # Len(list) + 1
      <3>1. Entry \in 1 .. Len(list)
        BY <1>3, <2>2
      <3>2. pos[Entry] \in 1 .. Len(file)
        BY <1>2, <3>1 DEF Runs, Covers
      <3> QED
        BY <1>4, <3>2
    <2> QED
      BY <2>1, <2>2
  <1>7. /\ DOMAIN memory = {Belongs(i) : i \in 1 .. pos[Entry] - 1}
        /\ \A i \in 1 .. pos[Entry] - 1 : memory[Belongs(i)] = file[i]
    BY <1>2 DEF Runs, Loading
  <1>8. ASSUME NEW p \in DOMAIN memory
        PROVE  \E i \in DOMAIN file : p = Belongs(i) /\ memory[p] = file[i]
    <2>1. PICK i \in 1 .. pos[Entry] - 1 : p = Belongs(i)
      BY <1>7
    <2>2. i \in DOMAIN file
      BY <1>4, <1>6
    <2>3. memory[p] = file[i]
      BY <1>7, <2>1
    <2> QED
      BY <2>1, <2>2, <2>3
  <1>9. ASSUME pc = "loaded"
        PROVE  DOMAIN memory = {Belongs(i) : i \in DOMAIN file}
    <2>1. pos[Entry] - 1 = Len(file)
      BY <1>3, <1>4, <1>5, <1>9
    <2> QED
      BY <1>4, <1>7, <2>1
  <1> QED
    BY <1>8, <1>9 DEF LoadsTheFile

\* A run within a segment, counted from where its area begins, is read within one.
LEMMA MapStays == MapInv => StaysInSegment
  <1> SUFFICES ASSUME MapInv, Reads
               PROVE  (IF At.area = "high" THEN 0 ELSE At.bx) + Count(Page[slot.entry]) <= Segment
    BY DEF StaysInSegment
  <1>1. TypeInv
    BY DEF MapInv
  <1>2. PICK list, pos : Runs(list, pos)
    BY DEF MapInv
  <1>3. PICK E, n, q, S : E = Entry /\ n = Count(list[E]) /\ q = pos[E] /\ S = Segment
    OBVIOUS
  <1>4. /\ E \in 1 .. Len(list) /\ E \in Nat /\ Page[slot.entry] = list[E]
        /\ n \in Nat \ {0} /\ q \in Nat \ {0}
    BY <1>1, <1>2, <1>3, EntryOfList, CountOfRun
  <1>5. S \in Nat \ {0} /\ Header \in Nat /\ Alone(kind) \in Nat
    BY <1>3, MapAssumption DEF Header, Alone
  <1>6. /\ At.area = Belongs(q).area /\ At.bx < S /\ At.bx \in Nat /\ At.es \in Nat
        /\ At.es * S + At.bx = Belongs(q).at
    BY <1>1, <1>2, <1>3, AtBelongs
  <1>7. CASE E <= Alone(kind)
    <2>1. n = 1
      BY <1>2, <1>3, <1>4, <1>7 DEF Runs, Aligned
    <2> QED
      BY <1>3, <1>4, <1>5, <1>6, <2>1
  <1>8. CASE E > Alone(kind)
    <2>1. q > Alone(kind) /\ From(q) \div S = From(q + n - 1) \div S
      BY <1>2, <1>3, <1>4, <1>8 DEF Runs, Aligned
    <2>2. PICK f, g, A : f = From(q) /\ g = From(q + n - 1) /\ A = Alone(kind)
      OBVIOUS
    <2>3. f \in Nat /\ g \in Nat /\ g = f + n - 1
      <3>1. f = q - A - 1 /\ g = (q + (n - 1)) - A - 1
        BY <2>2 DEF From
      <3>2. A \in Nat /\ q > A
        BY <1>5, <2>1, <2>2
      <3> QED
        BY <1>4, <3>1, <3>2
    <2>4. PICK d, r, t : /\ d \in Nat /\ r \in 0 .. S - 1 /\ t \in 0 .. S - 1
                         /\ f = d * S + r /\ g = d * S + t
      <3>1. PICK d \in Nat, r \in 0 .. S - 1 : f = d * S + r /\ f \div S = d
        BY <1>5, <2>3, Divided
      <3>2. PICK c \in Nat, t \in 0 .. S - 1 : g = c * S + t /\ g \div S = c
        BY <1>5, <2>3, Divided
      <3>3. c = d
        BY <2>1, <2>2, <3>1, <3>2
      <3> QED
        BY <3>1, <3>2, <3>3
    <2>5. r + n <= S
      <3>1. PICK x \in Nat : x = d * S
        BY <1>5, <2>4
      <3> QED
        BY <1>4, <1>5, <2>3, <2>4, <3>1
    <2>6. CASE At.area = "high"
      BY <1>3, <1>4, <1>5, <2>4, <2>5, <2>6
    <2>7. CASE At.area # "high"
      <3>1. kind # "ramdisk"
        BY <1>6, <2>7 DEF Belongs
      <3>2. Alone(kind) = Header /\ q # 1 /\ ~(q <= Header)
        BY <1>4, <1>5, <2>1, <3>1, MapAssumption DEF Alone, Header
      <3>3. Belongs(q).at = q - Header - 1
        BY <3>1, <3>2 DEF Belongs
      <3>4. From(q) = q - Header - 1
        BY <3>2 DEF From
      <3>5. At.es * S + At.bx = d * S + r
        BY <1>6, <2>2, <2>4, <3>3, <3>4
      <3>6. At.bx = r
        <4>1. At.bx \in 0 .. S - 1
          BY <1>5, <1>6
        <4>2. (At.es * S + At.bx) % S = At.bx
          BY <1>5, <1>6, <4>1, Quotient
        <4>3. (d * S + r) % S = r
          BY <1>5, <2>4, Quotient
        <4> QED
          BY <3>5, <4>2, <4>3
      <3> QED
        BY <1>3, <1>4, <2>5, <2>7, <3>6
    <2> QED
      BY <2>6, <2>7
  <1> QED
    BY <1>4, <1>5, <1>7, <1>8

\* The invariant holds.
THEOREM MapInvariance == Spec => []MapInv
  BY InitMap, NextMap, PTL DEF Spec

\* Every file is loaded: whatever was merged, over whatever disks, high parts and
\* pages it spreads, each sector arrives where it belongs, and at the end all have.
THEOREM LoadsEveryFile == Spec => []LoadsTheFile
  BY MapInvariance, MapLoads, PTL

\* No read of the loader crosses a 64 kB boundary of memory.
THEOREM ReadsStayInSegment == Spec => []StaysInSegment
  BY MapInvariance, MapStays, PTL
=============================================================================
