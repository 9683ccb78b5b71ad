--------------------------- MODULE ChainLoadProofs ---------------------------
(***************************************************************************)
(* Theorems about partition rules, drive maps and the chain loader, for    *)
(* any disks, tables, rules and number of starts, with BIOS calls that     *)
(* fail and power that goes at any step.                                   *)
(***************************************************************************)
EXTENDS ChainLoad, SequenceTheorems, WellFoundedInduction, TLAPS

Rules == [at : Places, expect : Bytes, set : Bytes]

\* The byte at a place of a partition table.
Value(table, p) == table[p.part][p.field]

Passing == pc \in {"rules", "load"}

\* The disks as they will be once the sector in the cache is written.
Present == IF pc = "rules" /\ dirty THEN [tables EXCEPT ![cache] = Buffer] ELSE tables

\* The tables and lists are of the kind the code gives them.
DisksTyped == tables \in [Disks -> Table] /\ before \in [Disks -> Table]
ListsTyped ==
    /\ \A t \in change_rules : t.normal \in Bytes /\ t.hidden \in Bytes
    /\ prt_map \in Seq(Rules) /\ drv_map \in Seq(Maps)
SectionsTyped ==
    /\ opts \in Options /\ bsect \in Table /\ preload \in Table
    /\ other \in Devices /\ (other.part # 0 => other.disk \in Disks)
MemoryTyped ==
    /\ low \in Table /\ scratch \in Table /\ cache \in Disks \cup {0} /\ dirty \in BOOLEAN
    /\ ip \in Nat \ {0} /\ torn \in BOOLEAN /\ changes \in Seq(Places)

TypeInv == DisksTyped /\ ListsTyped /\ SectionsTyped /\ MemoryTyped

-----------------------------------------------------------------------------
(* Entries, places and rules.                                              *)

\* One byte of an entry is changed, the other stays.
LEMMA EntryFields ==
    ASSUME NEW e \in Entry, NEW f \in {"act", "type"}, NEW v \in Bytes
    PROVE  /\ [e EXCEPT ![f] = v] \in Entry
           /\ [e EXCEPT ![f] = v][f] = v
           /\ [e EXCEPT ![f] = v].skewed = e.skewed
           /\ \A g \in {"act", "type"} : g # f => [e EXCEPT ![f] = v][g] = e[g]
  <1>1. CASE f = "act"
    BY <1>1 DEF Entry
  <1>2. CASE f = "type"
    BY <1>2 DEF Entry
  <1> QED
    BY <1>1, <1>2

\* A rule changes the byte it names if it finds what it expects, and nothing else.
LEMMA ChangedValue ==
    ASSUME NEW table \in Table, NEW r \in Rules
    PROVE  /\ Changed(table, r) \in Table
           /\ \A q \in Parts : Changed(table, r)[q].skewed = table[q].skewed
           /\ \A p \in Places : Value(Changed(table, r), p) =
                IF p.part = r.at.part /\ p.field = r.at.field /\ Value(table, p) = r.expect
                THEN r.set ELSE Value(table, p)
  <1>1. /\ r.at \in Places /\ r.set \in Bytes
        /\ r.at.part \in Parts /\ r.at.field \in {"act", "type"}
    BY DEF Rules, Places
  <1>2. table[r.at.part] \in Entry
    BY <1>1 DEF Table
  <1> DEFINE e == [table[r.at.part] EXCEPT ![r.at.field] = r.set]
  <1>3. /\ e \in Entry /\ e[r.at.field] = r.set /\ e.skewed = table[r.at.part].skewed
        /\ \A g \in {"act", "type"} : g # r.at.field => e[g] = table[r.at.part][g]
    BY <1>1, <1>2, EntryFields
  <1>4. [table EXCEPT ![r.at.part][r.at.field] = r.set] = [table EXCEPT ![r.at.part] = e]
    OBVIOUS
  <1> HIDE DEF e
  <1>5. CASE table[r.at.part][r.at.field] = r.expect
    <2>1. Changed(table, r) = [table EXCEPT ![r.at.part] = e]
      BY <1>4, <1>5 DEF Changed
    <2> QED
      BY <1>1, <1>2, <1>3, <1>5, <2>1 DEF Table, Value, Places
  <1>6. CASE table[r.at.part][r.at.field] # r.expect
    BY <1>6 DEF Changed, Value
  <1> QED
    BY <1>5, <1>6

\* Without the value the rule expects the table stays.
LEMMA ChangedNot ==
    ASSUME NEW table, NEW r, table[r.at.part][r.at.field] # r.expect
    PROVE  Changed(table, r) = table
  BY DEF Changed

\* The same, of the disks.
LEMMA AppliedValue ==
    ASSUME NEW disks \in [Disks -> Table], NEW r \in Rules
    PROVE  /\ Applied(disks, r) \in [Disks -> Table]
           /\ \A d \in Disks, q \in Parts : Applied(disks, r)[d][q].skewed = disks[d][q].skewed
           /\ \A p \in Places : Value(Applied(disks, r)[p.disk], p) =
                IF p = r.at /\ Value(disks[p.disk], p) = r.expect
                THEN r.set ELSE Value(disks[p.disk], p)
  <1>1. r.at \in Places /\ r.at.disk \in Disks
    BY DEF Rules, Places
  <1> DEFINE new == Changed(disks[r.at.disk], r)
  <1>2. disks[r.at.disk] \in Table
    BY <1>1
  <1>3. /\ new \in Table
        /\ \A q \in Parts : new[q].skewed = disks[r.at.disk][q].skewed
        /\ \A p \in Places : Value(new, p) =
             IF p.part = r.at.part /\ p.field = r.at.field
                /\ Value(disks[r.at.disk], p) = r.expect
             THEN r.set ELSE Value(disks[r.at.disk], p)
    BY <1>2, ChangedValue
  <1>4. Applied(disks, r) = [disks EXCEPT ![r.at.disk] = new]
    BY DEF Applied
  <1> HIDE DEF new
  <1>5. \A p \in Places : (p = r.at) = (p.disk = r.at.disk /\ p.part = r.at.part
                                        /\ p.field = r.at.field)
    BY <1>1 DEF Places
  <1>6. \A p \in Places : Value(Applied(disks, r)[p.disk], p) =
          IF p = r.at /\ Value(disks[p.disk], p) = r.expect
          THEN r.set ELSE Value(disks[p.disk], p)
    <2> TAKE p \in Places
    <2>1. CASE p.disk = r.at.disk
      BY <1>1, <1>3, <1>4, <1>5, <2>1
    <2>2. CASE p.disk # r.at.disk
      <3>1. p.disk \in Disks
        BY DEF Places
      <3>2. Applied(disks, r)[p.disk] = disks[p.disk] /\ p # r.at
        BY <1>4, <2>2, <3>1
      <3> QED
        BY <3>2
    <2> QED
      BY <2>1, <2>2
  <1> QED
    BY <1>1, <1>3, <1>4, <1>6

\* A table is known by its bytes and addresses.
LEMMA SameDisks ==
    ASSUME NEW s \in [Disks -> Table], NEW t \in [Disks -> Table],
           \A p \in Places : Value(s[p.disk], p) = Value(t[p.disk], p),
           \A d \in Disks, q \in Parts : s[d][q].skewed = t[d][q].skewed
    PROVE  s = t
  <1>1. ASSUME NEW d \in Disks, NEW q \in Parts
        PROVE  s[d][q] = t[d][q]
    <2> DEFINE p(f) == [disk |-> d, part |-> q, field |-> f]
    <2>1. p("act") \in Places /\ p("type") \in Places
      BY DEF Places
    <2>2. s[d][q].act = t[d][q].act /\ s[d][q].type = t[d][q].type
      BY <2>1 DEF Value
    <2>3. s[d][q] \in Entry /\ t[d][q] \in Entry
      BY DEF Table
    <2> QED
      BY <2>2, <2>3 DEF Entry
  <1>2. \A d \in Disks : s[d] \in Table /\ t[d] \in Table
    OBVIOUS
  <1>3. \A d \in Disks : s[d] = t[d]
    BY <1>1, <1>2 DEF Table
  <1> QED
    BY <1>3

-----------------------------------------------------------------------------
(* Every step keeps tables, lists and buffers in kind.                     *)

\* part_verify on a device that the run may name.
LEMMA VerifyKeeps ==
    ASSUME DisksTyped, NEW dev, NEW next, dev.part # 0 => dev.disk \in Disks /\ dev.part \in Parts,
           Verify(dev, next)
    PROVE  /\ tables' \in [Disks -> Table]
           /\ ~Adjusts => UNCHANGED tables
           /\ pc' \in {next, "died"}
  <1> DEFINE table == [tables[dev.disk] EXCEPT ![dev.part].skewed = FALSE]
  <1>1. CASE UNCHANGED tables /\ pc' \in {next, "died"}
    BY <1>1 DEF DisksTyped
  <1>2. CASE /\ dev.part # 0 /\ Adjusts /\ pc' = next
             /\ tables' = [tables EXCEPT ![dev.disk] = table]
    <2>1. tables[dev.disk] \in Table
      BY <1>2 DEF DisksTyped
    <2>2. [tables[dev.disk][dev.part] EXCEPT !.skewed = FALSE] \in Entry
      BY <1>2, <2>1 DEF Table, Entry
    <2>3. table = [tables[dev.disk] EXCEPT ![dev.part] =
                     [tables[dev.disk][dev.part] EXCEPT !.skewed = FALSE]]
      OBVIOUS
    <2>4. table \in Table
      BY <1>2, <2>1, <2>2, <2>3 DEF Table
    <2> QED
      BY <1>2, <2>4 DEF DisksTyped
  <1> QED
    BY <1>1, <1>2 DEF Verify, Die

\* The two devices that are verified.
LEMMA BootIsThere ==
    ASSUME TypeInv
    PROVE  opts.boot.disk \in Disks /\ opts.boot.part \in Parts \cup {0}
  BY ChainAssumption DEF TypeInv, SectionsTyped, Devices

\* OTHER is a device that there is.
LEMMA OtherIsThere ==
    ASSUME NEW o \in Others
    PROVE  /\ o.dev \in Devices
           /\ o.dev.part # 0 => o.dev.disk \in Disks /\ o.dev.part \in Parts
  BY ChainAssumption DEF Devices

\* value ^ HIDDEN_OFF stays a byte.
LEMMA FlipStays ==
    ASSUME NEW b \in Bytes
    PROVE  Flip(b) \in Bytes
  <1>1. \A k \in 0 .. 255 :
          IF (k \div 16) % 2 = 1 THEN k - 16 \in 0 .. 255 ELSE k + 16 \in 0 .. 255
    OBVIOUS
  <1> QED
    BY <1>1 DEF Flip, Bytes

\* A type line fills in what it leaves out.
LEMMA TypeStays ==
    ASSUME NEW l \in TypeLines, l.normal # Absent \/ l.hidden # Absent
    PROVE  TypeOf(l).normal \in Bytes /\ TypeOf(l).hidden \in Bytes
  <1> DEFINE first == IF l.normal = Absent THEN l.hidden ELSE l.normal
             second == IF l.normal = Absent \/ l.hidden = Absent THEN Flip(first) ELSE l.hidden
  <1>1. l.normal \in Bytes \cup {Absent} /\ l.hidden \in Bytes \cup {Absent}
    BY ChainAssumption
  <1>2. first \in Bytes
    BY <1>1
  <1>3. second \in Bytes
    BY <1>1, <1>2, FlipStays
  <1>4. TypeOf(l) = [name |-> l.name, normal |-> first, hidden |-> second]
    BY DEF TypeOf
  <1> HIDE DEF first, second
  <1> QED
    BY <1>2, <1>3, <1>4

\* SET, ACTIVATE and DEACTIVATE become rules on the bytes of one entry.
LEMMA RulesFit ==
    ASSUME ListsTyped, NEW c \in Changes, Accepted(c)
    PROVE  RulesOf(c) \in Seq(Rules)
  <1> DEFINE at(f) == [disk |-> c.dev.disk, part |-> c.dev.part, field |-> f]
             t == CHOOSE t \in change_rules : t.name = c.type
             hide == [at |-> at("type"), expect |-> t.normal, set |-> t.hidden]
             show == [at |-> at("type"), expect |-> t.hidden, set |-> t.normal]
             act == [at |-> at("act"), expect |-> 0, set |-> 128]
             deact == [at |-> at("act"), expect |-> 128, set |-> 0]
             set == IF c.type = "" THEN <<>> ELSE IF c.hide THEN <<hide>> ELSE <<show>>
             on == IF c.activate THEN <<act>> ELSE <<>>
             off == IF c.deactivate THEN <<deact>> ELSE <<>>
  <1>1. at("type") \in Places /\ at("act") \in Places
    BY ChainAssumption DEF Places
  <1>2. c.type # "" => t.normal \in Bytes /\ t.hidden \in Bytes
    BY DEF Accepted, ListsTyped
  <1>3. act \in Rules /\ deact \in Rules
    BY <1>1 DEF Rules, Bytes
  <1>4. c.type # "" => hide \in Rules /\ show \in Rules
    BY <1>1, <1>2 DEF Rules
  <1>5. RulesOf(c) = set \o on \o off
    BY DEF RulesOf
  <1> HIDE DEF hide, show, act, deact
  <1>6. set \in Seq(Rules)
    <2>1. set \in {<<>>, <<hide>>, <<show>>} /\ (c.type = "" => set = <<>>)
      OBVIOUS
    <2> HIDE DEF set
    <2>2. <<>> \in Seq(Rules)
      OBVIOUS
    <2> DEFINE named == c.type # ""
    <2>3. named => hide \in Rules /\ show \in Rules
      BY <1>4
    <2>4. ~named => set = <<>>
      BY <2>1
    <2> HIDE DEF named
    <2>5. named => <<hide>> \in Seq(Rules) /\ <<show>> \in Seq(Rules)
      BY <2>3
    <2>6. set \in {<<>>, <<hide>>, <<show>>}
      BY <2>1
    <2> QED
      BY <2>2, <2>4, <2>5, <2>6
  <1>7. on \in Seq(Rules) /\ off \in Seq(Rules)
    BY <1>3
  <1> HIDE DEF set, on, off
  <1> QED
    BY <1>5, <1>6, <1>7, ConcatProperties

\* The table that goes with the chain loader.
LEMMA MergedFits ==
    ASSUME TypeInv
    PROVE  Merged \in Table
  <1>1. other.disk \in Bytes /\ NoEntry \in Entry /\ 1 \in Parts
    <2>1. Disks \subseteq 1 .. 255 /\ 1 \in Parts
      BY ChainAssumption
    <2>2. other.disk \in Disks \cup {0}
      BY DEF TypeInv, SectionsTyped, Devices
    <2>3. NoEntry \in Entry
      BY DEF NoEntry, Entry, Bytes
    <2>4. other.disk \in 1 .. 255 \/ other.disk = 0
      BY <2>1, <2>2
    <2> QED
      BY <2>1, <2>3, <2>4 DEF Bytes
  <1>2. CASE other.part = 0
    <2> DEFINE e == [NoEntry EXCEPT !.act = other.disk]
    <2>1. e \in Entry
      BY <1>1 DEF Entry, NoEntry
    <2>2. [NoTable EXCEPT ![1].act = other.disk] = [p \in Parts |-> IF p = 1 THEN e ELSE NoEntry]
      BY <1>1 DEF NoTable
    <2> HIDE DEF e
    <2> QED
      BY <1>1, <1>2, <2>1, <2>2 DEF Merged, Table
  <1>3. CASE other.part # 0
    <2>1. tables[other.disk] \in Table
      BY <1>3 DEF TypeInv, SectionsTyped, DisksTyped
    <2> DEFINE e(p) == tables[other.disk][p]
               merged(p) == IF p = other.part THEN [e(p) EXCEPT !.act = 128]
                            ELSE IF e(p).type \in {1, 4, 6} THEN e(p)
                            ELSE [e(p) EXCEPT !.type = 98]
    <2>2. \A p \in Parts : merged(p) \in Entry
      <3> SUFFICES ASSUME NEW p \in Parts
                   PROVE  merged(p) \in Entry
        OBVIOUS
      <3>1. e(p) \in Entry
        BY <2>1 DEF Table
      <3>2. ASSUME NEW f \in Entry
            PROVE  [f EXCEPT !.act = 128] \in Entry /\ [f EXCEPT !.type = 98] \in Entry
        BY <3>2, SMTT(30) DEF Entry, Bytes
      <3> HIDE DEF e
      <3> QED
        BY <3>1, <3>2
    <2>3. Merged = [p \in Parts |-> merged(p)]
      BY <1>3 DEF Merged
    <2> HIDE DEF merged
    <2> QED
      BY <2>2, <2>3 DEF Table
  <1> QED
    BY <1>2, <1>3

\* What the loader has read is a table.
LEMMA BufferFits ==
    ASSUME TypeInv
    PROVE  Buffer \in Table
  BY DEF TypeInv, MemoryTyped, Buffer

\* While rules are applied, a drive is loaded before its sector is dirty, a clean
\* buffer is what the disk holds, and there is a rule to load a sector for.
CacheInv ==
    Passing =>
        /\ dirty => cache # 0
        /\ pc = "rules" /\ cache # 0 /\ ~dirty => Buffer = tables[cache]
        /\ ip <= Len(prt_map) + 1
        /\ pc = "load" => ip <= Len(prt_map)

\* So are the tables as they are after what is unwritten.
LEMMA PresentFits ==
    ASSUME TypeInv, CacheInv
    PROVE  Present \in [Disks -> Table]
  <1>1. CASE pc = "rules" /\ dirty
    <2>1. cache \in Disks
      BY <1>1 DEF CacheInv, Passing, TypeInv, MemoryTyped
    <2> QED
      BY <1>1, <2>1, BufferFits DEF Present, TypeInv, DisksTyped
  <1>2. CASE ~(pc = "rules" /\ dirty)
    BY <1>2 DEF Present, TypeInv, DisksTyped
  <1> QED
    BY <1>1, <1>2

\* A flush makes the disks what they are with the cached sector, or fails.
Fails == tables' \in {tables, Present} /\ pc' = "installed" /\ torn' = TRUE

\* Writing the buffer back makes the disks what the loader takes them to be.
LEMMA FlushWrites ==
    ASSUME CacheInv, pc = "rules", NEW next, Flush(next)
    PROVE  \/ tables' = Present /\ pc' = next /\ UNCHANGED torn
           \/ Fails
  <1>1. dirty => cache # 0
    BY DEF CacheInv, Passing
  <1>2. CASE dirty
    <2>1. Flushes /\ Present = [tables EXCEPT ![cache] = Buffer]
      BY <1>1, <1>2 DEF Flushes, Present
    <2> QED
      BY <2>1 DEF Flush, Fails, GiveUp
  <1>3. CASE ~dirty
    <2>1. ~Flushes /\ Present = tables
      BY <1>3 DEF Flushes, Present
    <2> QED
      BY <2>1 DEF Flush
  <1> QED
    BY <1>2, <1>3

\* Every step of the installer leaves memory and the history alone.
LEMMA InstallerTypes ==
    ASSUME TypeInv, Installer
    PROVE  TypeInv'
  <1> USE DEF TypeInv
  <1>1. ASSUME NEW l \in TypeLines, DoType(l)
        PROVE  TypeInv'
    <2>1. \A t \in change_rules' : t.normal \in Bytes /\ t.hidden \in Bytes
      BY <1>1, TypeStays DEF DoType, ListsTyped
    <2> QED
      BY <1>1, <2>1
      DEF DoType, memory, history, DisksTyped, ListsTyped, SectionsTyped, MemoryTyped
  <1>2. CASE DoReset
    BY <1>2 DEF DoReset, memory, history, DisksTyped, ListsTyped, SectionsTyped, MemoryTyped
  <1>3. CASE OpenBoot
    <2>1. tables' \in [Disks -> Table]
      <3>1. opts.boot.disk \in Disks /\ opts.boot.part \in Parts \cup {0}
        BY BootIsThere
      <3>2. Verify(opts.boot, "other")
        BY <1>3 DEF OpenBoot
      <3> QED
        BY <3>1, <3>2, VerifyKeeps
    <2>2. bsect' \in Table
      <3>1. tables[opts.boot.disk] \in Table
        BY BootIsThere DEF DisksTyped
      <3>2. NoTable \in Table
        BY DEF NoTable, NoEntry, Table, Entry, Bytes
      <3> QED
        BY <1>3, <3>1, <3>2 DEF OpenBoot
    <2> QED
      BY <1>3, <2>1, <2>2
      DEF OpenBoot, lists, memory, history, DisksTyped, ListsTyped, SectionsTyped, MemoryTyped
  <1>4. ASSUME NEW m \in MapLines, DoMapDrive(m)
        PROVE  TypeInv'
    <2>1. m \in Maps
      BY ChainAssumption
    <2>2. drv_map' \in Seq(Maps)
      BY <1>4, <2>1, AppendProperties DEF DoMapDrive, ListsTyped
    <2> QED
      BY <1>4, <2>2
      DEF DoMapDrive, memory, history, DisksTyped, ListsTyped, SectionsTyped, MemoryTyped
  <1>5. ASSUME NEW c \in Changes, DoPart(c)
        PROVE  TypeInv'
    <2>1. prt_map' \in Seq(Rules)
      BY <1>5, RulesFit, ConcatProperties DEF DoPart, ListsTyped
    <2> QED
      BY <1>5, <2>1
      DEF DoPart, memory, history, DisksTyped, ListsTyped, SectionsTyped, MemoryTyped
  <1>6. ASSUME NEW o \in Others, BootOther(o)
        PROVE  TypeInv'
    <2>1. o.dev \in Devices /\ (o.dev.part # 0 => o.dev.disk \in Disks /\ o.dev.part \in Parts)
      BY OtherIsThere
    <2>2. tables' \in [Disks -> Table]
      <3>1. CASE o.unsafe
        BY <1>6, <3>1 DEF BootOther, DisksTyped
      <3>2. CASE ~o.unsafe
        <4>1. Verify(o.dev, "merge")
          BY <1>6, <3>2 DEF BootOther
        <4> QED
          BY <2>1, <4>1, VerifyKeeps
      <3> QED
        BY <3>1, <3>2
    <2> QED
      BY <1>6, <2>1, <2>2
      DEF BootOther, lists, memory, history, DisksTyped, ListsTyped, SectionsTyped, MemoryTyped
  <1>7. CASE Merge
    <2>1. preload' \in Table
      BY <1>7, MergedFits DEF Merge, Die, SectionsTyped
    <2> QED
      BY <1>7, <2>1
      DEF Merge, lists, memory, history, DisksTyped, ListsTyped, SectionsTyped, MemoryTyped
  <1>8. CASE Update
    BY <1>8, BootIsThere
    DEF Update, installer, lists, memory, history, DisksTyped, ListsTyped, SectionsTyped,
        MemoryTyped
  <1> QED
    BY <1>1, <1>2, <1>3, <1>4, <1>5, <1>6, <1>7, <1>8 DEF Installer

\* The next rule, while there is one.
LEMMA RuleIs ==
    ASSUME TypeInv, ip <= Len(prt_map)
    PROVE  /\ ip \in 1 .. Len(prt_map) /\ Rule = prt_map[ip] /\ Rule \in Rules
           /\ Rule.at \in Places /\ Rule.at.disk \in Disks /\ Rule.at.disk # 0
  <1>1. ip \in 1 .. Len(prt_map) /\ Rule = prt_map[ip] /\ Rule \in Rules
    BY DEF TypeInv, MemoryTyped, ListsTyped, Rule
  <1>2. Rule.at \in Places /\ Rule.at.disk \in Disks
    BY <1>1 DEF Rules, Places
  <1>3. Disks \subseteq 1 .. 255
    BY ChainAssumption
  <1>4. 0 \notin Disks
    BY <1>3
  <1> QED
    BY <1>1, <1>2, <1>4

\* The loader keeps to the types.
LEMMA LoaderTypes ==
    ASSUME TypeInv, CacheInv, Loader
    PROVE  TypeInv'
  <1> USE DEF TypeInv
  <1>1. CASE Start
    <2>1. NoTable \in Table
      BY DEF NoTable, NoEntry, Table, Entry, Bytes
    <2>2. DisksTyped' /\ ListsTyped' /\ SectionsTyped'
      BY <1>1 DEF Start, installer, lists, DisksTyped, ListsTyped, SectionsTyped
    <2>3. low' \in Table /\ scratch' \in Table
      BY <1>1, <2>1 DEF Start, SectionsTyped
    <2>4. changes' \in Seq(Places) /\ cache' \in Disks \cup {0} /\ ip' \in Nat \ {0}
      BY <1>1 DEF Start
    <2>5. dirty' \in BOOLEAN /\ torn' \in BOOLEAN
      BY <1>1 DEF Start, MemoryTyped
    <2> QED
      BY <2>2, <2>3, <2>4, <2>5 DEF MemoryTyped
  <1>2. ASSUME NEW next, pc = "rules", Flush(next), UNCHANGED <<installer, memory, before, changes>>
        PROVE  TypeInv'
    <2>1. tables' \in [Disks -> Table] /\ torn' \in BOOLEAN
      BY <1>2, FlushWrites, PresentFits DEF Fails, DisksTyped, MemoryTyped
    <2> QED
      BY <1>2, <2>1
      DEF installer, memory, lists, DisksTyped, ListsTyped, SectionsTyped, MemoryTyped
  <1>3. CASE Miss
    BY <1>2, <1>3 DEF Miss
  <1>4. CASE Load
    <2>1. Rule.at.disk \in Disks /\ tables[Rule.at.disk] \in Table
      BY <1>4, RuleIs DEF Load, CacheInv, Passing, DisksTyped
    <2>2. /\ low' \in Table /\ scratch' \in Table /\ cache' \in Disks \cup {0}
          /\ torn' \in BOOLEAN
      BY <1>4, <2>1 DEF Load, GiveUp, MemoryTyped
    <2> QED
      BY <1>4, <2>2
      DEF Load, installer, lists, DisksTyped, ListsTyped, SectionsTyped, MemoryTyped
  <1>5. CASE Hit
    <2>1. Rule \in Rules /\ Rule.at \in Places
      BY <1>5, RuleIs DEF Hit
    <2>2. Changed(Buffer, Rule) \in Table
      BY <2>1, BufferFits, ChangedValue
    <2>3. low' \in Table /\ scratch' \in Table
      BY <1>5, <2>2 DEF Hit, MemoryTyped
    <2>4. changes' \in Seq(Places)
      BY <1>5, <2>1, AppendProperties DEF Hit, MemoryTyped
    <2>5. dirty' \in BOOLEAN
      BY <1>5 DEF Hit, MemoryTyped
    <2> QED
      BY <1>5, <2>3, <2>4, <2>5
      DEF Hit, installer, lists, DisksTyped, ListsTyped, SectionsTyped, MemoryTyped
  <1>6. CASE EndOfRules
    BY <1>2, <1>6 DEF EndOfRules
  <1>7. CASE Jump
    <2>1. BootEntry \in Parts
      BY ChainAssumption DEF BootEntry, SectionsTyped, Devices
    <2>2. other.disk \in Bytes
      <3>1. Disks \subseteq 1 .. 255
        BY ChainAssumption
      <3>2. other.disk \in 1 .. 255 \/ other.disk = 0
        BY <3>1 DEF SectionsTyped, Devices
      <3> QED
        BY <3>2 DEF Bytes
    <2> DEFINE e == [low[BootEntry] EXCEPT !.act = other.disk]
    <2>3. e \in Entry
      BY <2>1, <2>2 DEF MemoryTyped, Table, Entry
    <2>4. low' = [low EXCEPT ![BootEntry] = e]
      BY <1>7 DEF Jump
    <2> HIDE DEF e
    <2>5. low' \in Table
      BY <2>1, <2>3, <2>4 DEF MemoryTyped, Table
    <2> QED
      BY <1>7, <2>5
      DEF Jump, installer, lists, history, DisksTyped, ListsTyped, SectionsTyped, MemoryTyped
  <1>8. CASE PowerOff
    BY <1>8
    DEF PowerOff, installer, lists, memory, DisksTyped, ListsTyped, SectionsTyped, MemoryTyped
  <1> QED
    BY <1>1, <1>3, <1>4, <1>5, <1>6, <1>7, <1>8 DEF Loader

-----------------------------------------------------------------------------
(* The cache is invisible: only a rule changes the disks as they will be.  *)

\* A sector is loaded into the buffer that is used for its drive.
LEMMA LoadReads ==
    ASSUME TypeInv, CacheInv, Load
    PROVE  \/ pc' = "rules" /\ Buffer' = tables[cache'] /\ cache' = Rule.at.disk /\ cache' # 0
              /\ UNCHANGED torn
           \/ Fails
  <1>1. Rule.at.disk # 0
    BY RuleIs DEF Load, CacheInv, Passing
  <1>2. CASE /\ cache' = Rule.at.disk /\ pc' = "rules" /\ UNCHANGED torn
             /\ IF LoadsLow(Rule.at.disk)
                THEN low' = tables[Rule.at.disk] ELSE scratch' = tables[Rule.at.disk]
    <2>1. other' = other
      BY DEF Load, installer
    <2>2. Buffer' = tables[cache']
      BY <1>2, <2>1 DEF Buffer, InLow, LoadsLow
    <2> QED
      BY <1>1, <1>2, <2>2
  <1>3. CASE GiveUp
    BY <1>3 DEF GiveUp, Fails, Load
  <1> QED
    BY <1>2, <1>3 DEF Load

\* A rule is applied to the disks as they will be.
LEMMA HitApplies ==
    ASSUME TypeInv, CacheInv, Hit
    PROVE  /\ Present' = Applied(Present, Rule)
           /\ dirty' = (dirty \/ Value(Present[Rule.at.disk], Rule.at) = Rule.expect)
           /\ changes' = IF Value(Present[Rule.at.disk], Rule.at) = Rule.expect
                         THEN Append(changes, Rule.at) ELSE changes
           /\ cache # 0 /\ Buffer' = Changed(Buffer, Rule) /\ Present[cache] = Buffer
           /\ ~dirty' => Buffer' = tables[cache]
  <1>1. /\ cache = Rule.at.disk /\ cache # 0 /\ cache \in Disks /\ pc = "rules"
        /\ tables \in [Disks -> Table] /\ dirty \in BOOLEAN
    BY RuleIs DEF Hit, TypeInv, DisksTyped, MemoryTyped
  <1> DEFINE match == Buffer[Rule.at.part][Rule.at.field] = Rule.expect
  <1>2. Present[cache] = Buffer
    BY <1>1 DEF Present, CacheInv, Passing
  <1>3. match = (Value(Present[Rule.at.disk], Rule.at) = Rule.expect)
    BY <1>1, <1>2 DEF Value
  <1>4. /\ dirty' = (dirty \/ match)
        /\ changes' = IF match THEN Append(changes, Rule.at) ELSE changes
        /\ pc' = "rules" /\ tables' = tables /\ cache' = cache /\ other' = other
    BY <1>1 DEF Hit, installer
  <1>5. Buffer' = Changed(Buffer, Rule)
    BY <1>1, <1>4 DEF Hit, Buffer, InLow
  <1>6. ~match => Changed(Buffer, Rule) = Buffer
    BY ChangedNot
  <1>7. Applied(Present, Rule) = [Present EXCEPT ![cache] = Changed(Buffer, Rule)]
    BY <1>1, <1>2 DEF Applied
  <1> HIDE DEF match
  <1>8. CASE dirty
    <2>1. Present = [tables EXCEPT ![cache] = Buffer]
      BY <1>1, <1>8 DEF Present
    <2>2. dirty' /\ Present' = [tables EXCEPT ![cache] = Buffer']
      BY <1>4, <1>8 DEF Present
    <2> QED
      BY <1>1, <1>2, <1>3, <1>4, <1>5, <1>7, <1>8, <2>1, <2>2
  <1>9. CASE ~dirty
    <2>1. Present = tables /\ Buffer = tables[cache]
      BY <1>1, <1>2, <1>9 DEF Present
    <2>2. CASE match
      <3>1. dirty' /\ Present' = [tables EXCEPT ![cache] = Buffer']
        BY <1>4, <2>2 DEF Present
      <3> QED
        BY <1>1, <1>2, <1>3, <1>4, <1>5, <1>7, <2>1, <3>1
    <2>3. CASE ~match
      <3>1. ~dirty' /\ Present' = tables
        BY <1>4, <1>9, <2>3 DEF Present
      <3>2. Applied(Present, Rule) = tables
        BY <1>1, <1>6, <1>7, <2>1, <2>3
      <3> QED
        BY <1>1, <1>2, <1>3, <1>4, <1>5, <1>6, <2>1, <2>3, <3>1, <3>2
    <2> QED
      BY <2>2, <2>3
  <1> QED
    BY <1>8, <1>9

\* The installer works before any pass, and touches nothing of one.
LEMMA InstallerAway ==
    ASSUME Installer
    PROVE  /\ pc \in {"options", "other", "merge", "update"}
           /\ pc' \in {"options", "other", "merge", "update", "died", "tested", "installed"}
           /\ UNCHANGED <<memory, history>>
  BY DEF Installer, DoType, DoReset, OpenBoot, DoMapDrive, DoPart, BootOther, Merge, Update,
         Verify, Die

\* Flushing and loading change nothing but what is still to be written, or fail.
Silent ==
    /\ Present' = Present /\ tables' \in {tables, Present}
    /\ pc' \in {"rules", "load", "go"} /\ UNCHANGED torn

\* Reading and writing tables changes no disk as the loader sees it.
LEMMA CacheSteps ==
    ASSUME TypeInv, CacheInv, Miss \/ Load \/ EndOfRules
    PROVE  /\ Silent \/ Fails
           /\ UNCHANGED <<prt_map, drv_map, other, ip, before, changes, dirty>>
  <1>1. UNCHANGED <<prt_map, drv_map, other, ip, before, changes, dirty>>
    BY DEF Miss, Load, EndOfRules, installer, lists, memory
  <1>2. ASSUME NEW next \in {"load", "go"}, pc = "rules", Flush(next)
        PROVE  Silent \/ Fails
    <2>1. CASE tables' = Present /\ pc' = next /\ UNCHANGED torn
      <3>1. Present' = tables'
        BY <2>1 DEF Present
      <3> QED
        BY <2>1, <3>1 DEF Silent
    <2> QED
      BY <1>1, <1>2, <2>1, FlushWrites
  <1>3. CASE Miss
    <2>1. pc = "rules" /\ Flush("load")
      BY <1>3 DEF Miss
    <2> QED
      BY <1>1, <1>2, <2>1
  <1>4. CASE EndOfRules
    <2>1. pc = "rules" /\ Flush("go")
      BY <1>4 DEF EndOfRules
    <2> QED
      BY <1>1, <1>2, <2>1
  <1>5. CASE Load
    <2>1. CASE pc' = "rules" /\ Buffer' = tables[cache'] /\ cache' = Rule.at.disk /\ UNCHANGED torn
      <3>1. Present = tables /\ tables' = tables
        BY <1>5 DEF Load, Present
      <3>2. [tables EXCEPT ![cache'] = Buffer'] = tables
        BY <2>1 DEF TypeInv, DisksTyped
      <3>3. Present' = tables
        BY <3>1, <3>2 DEF Present
      <3>4. Present' = Present
        BY <3>1, <3>3
      <3> QED
        BY <1>1, <2>1, <3>1, <3>4 DEF Silent
    <2> QED
      BY <1>1, <1>5, <2>1, LoadReads
  <1> QED
    BY <1>1, <1>3, <1>4, <1>5

\* Each step keeps what is said of the buffer.
LEMMA NextCache ==
    ASSUME TypeInv, CacheInv, Next
    PROVE  CacheInv'
  <1> USE DEF Passing
  <1>1. CASE Installer
    BY <1>1, InstallerAway DEF CacheInv
  <1>2. CASE Start
    <2>1. /\ pc' = "rules" /\ dirty' = FALSE /\ cache' = 0 /\ ip' = 1
          /\ prt_map' \in Seq(Rules)
      BY <1>2 DEF Start, TypeInv, ListsTyped, installer, lists
    <2>2. Len(prt_map)' \in Nat
      BY <2>1
    <2>3. ip' <= Len(prt_map)' + 1
      BY <2>1, <2>2
    <2> QED
      BY <2>1, <2>3 DEF CacheInv
  <1>3. CASE Miss
    <2>1. /\ ip' = ip /\ prt_map' = prt_map /\ dirty' = dirty /\ cache' = cache
          /\ pc' \in {"load", "installed"} /\ ip <= Len(prt_map) /\ pc = "rules"
      BY <1>3, FlushWrites DEF Miss, installer, lists, memory, Fails
    <2>2. Passing /\ ip <= Len(prt_map) + 1
      BY <2>1 DEF CacheInv
    <2> QED
      BY <2>1, <2>2 DEF CacheInv
  <1>4. CASE Load
    <2>1. Rule.at.disk # 0 /\ ip <= Len(prt_map) /\ ip <= Len(prt_map) + 1
      BY <1>4, RuleIs DEF Load, CacheInv
    <2>2. CASE pc' = "rules" /\ Buffer' = tables[cache'] /\ cache' = Rule.at.disk
      BY <1>4, <2>1, <2>2 DEF CacheInv, Load, installer, lists
    <2>3. CASE Fails
      BY <2>3 DEF Fails, CacheInv
    <2> QED
      BY <1>4, <2>2, <2>3, LoadReads
  <1>5. CASE Hit
    <2>1. /\ ip' = ip + 1 /\ ip <= Len(prt_map) /\ prt_map' = prt_map /\ pc' = "rules"
          /\ cache' = cache /\ tables' = tables
      BY <1>5 DEF Hit, installer, lists
    <2>2. cache # 0 /\ (~dirty' => Buffer' = tables[cache])
      BY <1>5, HitApplies
    <2>3. ip' <= Len(prt_map)' + 1
      <3>1. ip \in Nat /\ Len(prt_map) \in Nat
        BY DEF TypeInv, ListsTyped, MemoryTyped
      <3> QED
        BY <2>1, <3>1
    <2> QED
      BY <2>1, <2>2, <2>3 DEF CacheInv
  <1>6. CASE EndOfRules
    <2>1. pc' \in {"go", "installed"}
      BY <1>6, FlushWrites DEF EndOfRules, Fails
    <2> QED
      BY <2>1 DEF CacheInv
  <1>7. CASE Jump
    BY <1>7 DEF Jump, CacheInv
  <1>8. CASE PowerOff
    BY <1>8 DEF PowerOff, CacheInv
  <1> QED
    BY <1>1, <1>2, <1>3, <1>4, <1>5, <1>6, <1>7, <1>8 DEF Next, Loader

\* The disks, lists and buffers are in kind, the cache is coherent.
ChainInv == TypeInv /\ CacheInv

\* At first the buffer holds nothing.
LEMMA InitChain ==
    ASSUME Init
    PROVE  ChainInv
  <1>1. NoTable \in Table
    BY DEF NoTable, NoEntry, Table, Entry, Bytes
  <1>2. DisksTyped
    BY ChainAssumption DEF Init, DisksTyped
  <1>3. ListsTyped
    <2>1. \A t \in PreloadedTypes : t.normal \in Bytes /\ t.hidden \in Bytes
      BY DEF PreloadedTypes, Bytes
    <2> QED
      BY <2>1 DEF Init, ListsTyped
  <1>4. SectionsTyped
    BY <1>1 DEF Init, SectionsTyped, Devices
  <1>5. MemoryTyped
    <2>1. low \in Table /\ scratch \in Table /\ dirty \in BOOLEAN /\ torn \in BOOLEAN
      BY <1>1 DEF Init
    <2>2. cache \in Disks \cup {0} /\ ip \in Nat \ {0} /\ changes \in Seq(Places)
      BY DEF Init
    <2> QED
      BY <2>1, <2>2 DEF MemoryTyped
  <1>6. CacheInv
    BY DEF Init, CacheInv, Passing
  <1> QED
    BY <1>2, <1>3, <1>4, <1>5, <1>6 DEF ChainInv, TypeInv

\* Each step keeps types and buffer as described.
LEMMA NextChain ==
    ASSUME ChainInv, [Next]_vars
    PROVE  ChainInv'
  <1>1. CASE Next
    BY <1>1, InstallerTypes, LoaderTypes, NextCache DEF ChainInv, Next
  <1>2. CASE UNCHANGED vars
    BY <1>2
    DEF vars, installer, lists, memory, history, ChainInv, TypeInv, DisksTyped, ListsTyped,
        SectionsTyped, MemoryTyped, CacheInv, Passing, Buffer, InLow
  <1> QED
    BY <1>1, <1>2

\* The chain loader's one sector of cache holds what is on its disk until a rule
\* changes it, and every table stays one.
THEOREM CacheInvariance == Spec => []ChainInv
  BY InitChain, NextChain, PTL DEF Spec

-----------------------------------------------------------------------------
(* A run of the installer leaves the tables as they are.                   *)

\* The boot sector in memory is what the disk holds.
SectorAsRead ==
    pc \in {"other", "merge", "update"} /\ ~Adjusts /\ opts.boot.part = 0 =>
        bsect = tables[opts.boot.disk]

\* Whether the options adjust depends on them only.
LEMMA AdjustsStays ==
    ASSUME UNCHANGED opts
    PROVE  Adjusts' = Adjusts
  BY DEF Adjusts

\* No step of the installer changes a table unless it is to repair them.
LEMMA InstallerSector ==
    ASSUME TypeInv, SectorAsRead, Installer
    PROVE  SectorAsRead' /\ (~Adjusts => UNCHANGED tables)
  <1>1. ASSUME UNCHANGED <<opts, bsect>>, ~Adjusts => UNCHANGED tables,
               pc \in {"other", "merge", "update"}
        PROVE  SectorAsRead'
    BY <1>1, AdjustsStays DEF SectorAsRead
  <1>2. ASSUME NEW l \in TypeLines, DoType(l)
        PROVE  SectorAsRead' /\ (~Adjusts => UNCHANGED tables)
    BY <1>2 DEF DoType, Die, SectorAsRead
  <1>3. CASE DoReset
    BY <1>3 DEF DoReset, SectorAsRead
  <1>4. CASE OpenBoot
    <2>1. ~Adjusts => UNCHANGED tables
      <3>1. opts.boot.part # 0 => opts.boot.disk \in Disks /\ opts.boot.part \in Parts
        BY BootIsThere
      <3>2. Verify(opts.boot, "other") /\ DisksTyped
        BY <1>4 DEF OpenBoot, TypeInv
      <3> QED
        BY <3>1, <3>2, VerifyKeeps
    <2>2. opts' = opts /\ (opts.boot.part = 0 => bsect' = tables[opts.boot.disk])
      BY <1>4 DEF OpenBoot
    <2> QED
      BY <2>1, <2>2, AdjustsStays DEF SectorAsRead
  <1>5. ASSUME NEW m \in MapLines, DoMapDrive(m)
        PROVE  SectorAsRead' /\ (~Adjusts => UNCHANGED tables)
    BY <1>1, <1>5 DEF DoMapDrive
  <1>6. ASSUME NEW c \in Changes, DoPart(c)
        PROVE  SectorAsRead' /\ (~Adjusts => UNCHANGED tables)
    BY <1>1, <1>6 DEF DoPart
  <1>7. ASSUME NEW o \in Others, BootOther(o)
        PROVE  SectorAsRead' /\ (~Adjusts => UNCHANGED tables)
    <2>1. ~Adjusts => UNCHANGED tables
      <3>1. CASE o.unsafe
        BY <1>7, <3>1 DEF BootOther
      <3>2. CASE ~o.unsafe
        <4>1. Verify(o.dev, "merge") /\ DisksTyped
          BY <1>7, <3>2 DEF BootOther, TypeInv
        <4> QED
          BY <4>1, OtherIsThere, VerifyKeeps
      <3> QED
        BY <3>1, <3>2
    <2> QED
      BY <1>1, <1>7, <2>1 DEF BootOther
  <1>8. CASE Merge
    BY <1>1, <1>8 DEF Merge
  <1>9. CASE Update
    <2>1. SectorAsRead'
      BY <1>9 DEF Update, SectorAsRead
    <2>2. ASSUME ~Adjusts
          PROVE  UNCHANGED tables
      <3>1. CASE opts.test \/ opts.boot.part # 0
        BY <1>9, <3>1 DEF Update
      <3>2. CASE opts.boot.part = 0 /\ ~opts.test
        <4>1. tables' = [tables EXCEPT ![opts.boot.disk] = tables[opts.boot.disk]]
          BY <1>9, <2>2, <3>2 DEF Update, SectorAsRead
        <4> QED
          BY <4>1 DEF TypeInv, DisksTyped
      <3> QED
        BY <3>1, <3>2
    <2> QED
      BY <2>1, <2>2
  <1> QED
    BY <1>2, <1>3, <1>4, <1>5, <1>6, <1>7, <1>8, <1>9 DEF Installer

\* Before the installation the tables are as they were.
LEMMA InitSector ==
    ASSUME Init
    PROVE  SectorAsRead
  BY DEF Init, SectorAsRead

\* The chain loader starts when the installer is gone.
LEMMA LoaderAway ==
    ASSUME Loader
    PROVE  /\ pc \in {"installed", "rules", "load", "go", "started"}
           /\ pc' \in {"installed", "rules", "load", "go", "started"}
  BY DEF Loader, Start, Miss, Load, Hit, EndOfRules, Jump, PowerOff, Flush, GiveUp

\* No step of an installation that adjusts nothing changes a table.
LEMMA NextSector ==
    ASSUME TypeInv, SectorAsRead, [Next]_vars
    PROVE  SectorAsRead' /\ (Installing /\ ~Adjusts => UNCHANGED tables)
  <1>1. CASE Installer
    BY <1>1, InstallerSector
  <1>2. CASE Loader
    BY <1>2, LoaderAway DEF SectorAsRead, Installing
  <1>3. CASE UNCHANGED vars
    BY <1>3, AdjustsStays DEF vars, installer, SectorAsRead
  <1> QED
    BY <1>1, <1>2, <1>3 DEF Next

\* In a test run, with IGNORE-TABLE or without FIX-TABLE no partition table ever
\* changes while the installer runs, whatever boot sector it writes.
THEOREM TablesStay == Spec => TablesUntouched
  <1>1. TypeInv /\ SectorAsRead /\ [Next]_vars =>
          [Installing /\ (opts.test \/ opts.ignore \/ ~opts.fix) => UNCHANGED tables]_vars
    BY NextSector DEF Adjusts
  <1>2. Spec => []TypeInv
    <2>1. ChainInv => TypeInv
      BY DEF ChainInv
    <2> QED
      BY <2>1, CacheInvariance, PTL
  <1>3. TypeInv /\ SectorAsRead /\ [Next]_vars => SectorAsRead'
    BY NextSector
  <1>4. Init => SectorAsRead
    BY InitSector
  <1> QED
    BY <1>1, <1>2, <1>3, <1>4, PTL DEF Spec, TablesUntouched

-----------------------------------------------------------------------------
(* A pass changes a byte once.                                             *)

\* No rule expects what one before it stores.
Irredundant ==
    \A i, j \in DOMAIN prt_map :
        i < j /\ prt_map[i].at = prt_map[j].at => prt_map[i].set # prt_map[j].expect

\* Every place that has been changed holds what a rule stored there.
Stored ==
    {p \in Places :
        \E i \in DOMAIN prt_map :
            i < ip /\ prt_map[i].at = p /\ prt_map[i].set = Value(Present[p.disk], p)}
ChangesInv ==
    Passing =>
        /\ changes # <<>> => dirty
        /\ \A k \in DOMAIN changes : changes[k] \in Stored

OnceInv == Irredundant /\ ChangesInv /\ ChangedOnce

\* The rules of a CHANGE section follow those that are there.
LEMMA AcceptedAdds ==
    ASSUME TypeInv, Irredundant, NEW c \in Changes, Accepted(c),
           prt_map' = prt_map \o RulesOf(c)
    PROVE  Irredundant'
  <1> DEFINE new == RulesOf(c)
             map(k) == prt_map \o SubSeq(new, 1, k - 1)
  <1>1. prt_map \in Seq(Rules) /\ new \in Seq(Rules)
    BY RulesFit DEF TypeInv, ListsTyped
  <1>2. \A k \in DOMAIN new : ~Redundant(map(k), new[k])
    BY DEF Accepted
  <1> HIDE DEF new
  <1>3. /\ prt_map' \in Seq(Rules) /\ Len(prt_map') = Len(prt_map) + Len(new)
        /\ \A i \in 1 .. Len(prt_map) : prt_map'[i] = prt_map[i]
        /\ \A i \in 1 .. Len(new) : prt_map'[Len(prt_map) + i] = new[i]
    <2>1. prt_map' = prt_map \o new
      BY DEF new
    <2> QED
      BY <1>1, <2>1, ConcatProperties
  <1> SUFFICES ASSUME NEW i \in DOMAIN prt_map', NEW j \in DOMAIN prt_map', i < j,
                      prt_map'[i].at = prt_map'[j].at
               PROVE  prt_map'[i].set # prt_map'[j].expect
    BY DEF Irredundant
  <1>4. /\ i \in 1 .. Len(prt_map') /\ j \in 1 .. Len(prt_map')
        /\ Len(prt_map) \in Nat /\ Len(new) \in Nat
    BY <1>1, <1>3
  <1>5. CASE j <= Len(prt_map)
    <2>1. i \in DOMAIN prt_map /\ j \in DOMAIN prt_map
      BY <1>1, <1>4, <1>5
    <2>2. prt_map'[i] = prt_map[i] /\ prt_map'[j] = prt_map[j]
      BY <1>1, <1>3, <2>1
    <2> QED
      BY <2>1, <2>2 DEF Irredundant
  <1>6. CASE j > Len(prt_map)
    <2> DEFINE k == j - Len(prt_map)
    <2>1. k \in 1 .. Len(new) /\ j = Len(prt_map) + k /\ k \in DOMAIN new
      BY <1>1, <1>3, <1>4, <1>6
    <2>2. prt_map'[j] = new[k]
      BY <1>3, <2>1
    <2> HIDE DEF k
    <2> DEFINE part == SubSeq(new, 1, k - 1)
    <2>3. /\ part \in Seq(Rules) /\ Len(part) = k - 1
          /\ \A n \in 1 .. (k - 1) : part[n] = new[n]
      BY <1>1, <2>1, SubSeqProperties, SMTT(30)
    <2> DEFINE m == prt_map \o part
    <2>4. ~Redundant(m, new[k])
      BY <1>2, <2>1
    <2> HIDE DEF part
    <2>5. /\ m \in Seq(Rules) /\ Len(m) = Len(prt_map) + (k - 1)
          /\ \A n \in 1 .. Len(prt_map) : m[n] = prt_map[n]
          /\ \A n \in 1 .. (k - 1) : m[Len(prt_map) + n] = part[n]
      <3>1. /\ m \in Seq(Rules) /\ Len(m) = Len(prt_map) + Len(part)
            /\ \A n \in 1 .. Len(prt_map) : m[n] = prt_map[n]
            /\ \A n \in 1 .. Len(part) : m[Len(prt_map) + n] = part[n]
        <4>1. prt_map \in Seq(Rules) /\ part \in Seq(Rules)
          BY <1>1, <2>3
        <4> QED
          BY <4>1, ConcatProperties
      <3> QED
        BY <2>3, <3>1
    <2> HIDE DEF m
    <2>6. i \in DOMAIN m /\ m[i] = prt_map'[i]
      <3>1. CASE i <= Len(prt_map)
        BY <1>3, <1>4, <2>1, <2>5, <3>1, SMTT(30)
      <3>2. CASE i > Len(prt_map)
        <4>1. i - Len(prt_map) \in 1 .. (k - 1) /\ i = Len(prt_map) + (i - Len(prt_map))
          BY <1>4, <2>1, <3>2
        <4>2. m[i] = new[i - Len(prt_map)]
          <5> DEFINE n == i - Len(prt_map)
          <5>1. n \in 1 .. (k - 1) /\ i = Len(prt_map) + n
            BY <4>1
          <5> HIDE DEF n
          <5>2. m[i] = new[n]
            BY <2>3, <2>5, <5>1
          <5> QED
            BY <5>2 DEF n
        <4>3. prt_map'[i] = new[i - Len(prt_map)]
          <5> DEFINE n == i - Len(prt_map)
          <5>1. n \in 1 .. Len(new) /\ i = Len(prt_map) + n
            BY <2>1, <4>1, <1>4
          <5> HIDE DEF n
          <5>2. prt_map'[i] = new[n]
            BY <1>3, <5>1
          <5> QED
            BY <5>2 DEF n
        <4>4. i \in 1 .. Len(m)
          BY <1>4, <2>1, <2>5
        <4> QED
          BY <2>5, <4>2, <4>3, <4>4
      <3> QED
        BY <1>4, <3>1, <3>2
    <2> QED
      BY <2>2, <2>4, <2>6 DEF Redundant
  <1> QED
    BY <1>4, <1>5, <1>6

\* A section adds only rules for bytes that have none from the same value.
LEMMA InstallerOnce ==
    ASSUME TypeInv, OnceInv, Installer
    PROVE  OnceInv'
  <1>1. UNCHANGED changes /\ ~Passing'
    BY InstallerAway DEF history, Passing
  <1>2. Irredundant'
    <2>1. CASE \E c \in Changes : DoPart(c)
      BY <2>1, AcceptedAdds DEF DoPart, OnceInv, Irredundant
    <2>2. CASE UNCHANGED prt_map
      BY <2>2 DEF OnceInv, Irredundant
    <2> QED
      BY <2>1, <2>2
      DEF Installer, DoType, DoReset, OpenBoot, DoMapDrive, BootOther, Merge, Update, lists,
          installer
  <1> QED
    BY <1>1, <1>2 DEF OnceInv, ChangesInv, ChangedOnce

\* What a rule changes it has not been changed before.
LEMMA HitOnce ==
    ASSUME ChainInv, OnceInv, Hit
    PROVE  OnceInv'
  <1> USE DEF ChainInv
  <1> DEFINE match == Value(Present[Rule.at.disk], Rule.at) = Rule.expect
  <1>1. /\ ip \in 1 .. Len(prt_map) /\ Rule = prt_map[ip] /\ Rule \in Rules
        /\ Rule.at \in Places /\ ip \in DOMAIN prt_map
    BY RuleIs DEF Hit, TypeInv, ListsTyped
  <1>2. /\ Present' = Applied(Present, Rule)
        /\ dirty' = (dirty \/ match)
        /\ changes' = IF match THEN Append(changes, Rule.at) ELSE changes
    BY HitApplies
  <1>3. prt_map' = prt_map /\ ip' = ip + 1 /\ pc = "rules" /\ pc' = "rules"
    BY DEF Hit, installer, lists
  <1>4. /\ changes # <<>> => dirty
        /\ \A k \in DOMAIN changes : changes[k] \in Stored
        /\ changes \in Seq(Places) /\ dirty \in BOOLEAN
    BY <1>3 DEF OnceInv, ChangesInv, Passing, TypeInv, MemoryTyped
  <1>5. \A p \in Places : Value(Present'[p.disk], p) =
          IF p = Rule.at /\ Value(Present[p.disk], p) = Rule.expect
          THEN Rule.set ELSE Value(Present[p.disk], p)
    BY <1>1, <1>2, PresentFits, AppliedValue
  <1> HIDE DEF match
  <1>6. ip \in Nat /\ \A i \in DOMAIN prt_map : i \in Nat
    BY <1>1 DEF TypeInv, ListsTyped
  <1>7. ASSUME NEW p \in Places, p \in Stored
        PROVE  p \in Stored' /\ (p = Rule.at => ~match)
    <2>1. PICK i \in DOMAIN prt_map :
            i < ip /\ prt_map[i].at = p /\ prt_map[i].set = Value(Present[p.disk], p)
      BY <1>7 DEF Stored
    <2>2. p = Rule.at => Value(Present[p.disk], p) # Rule.expect
      BY <1>1, <2>1 DEF OnceInv, Irredundant
    <2>3. Value(Present'[p.disk], p) = Value(Present[p.disk], p)
      BY <1>5, <2>2
    <2>4. i < ip'
      BY <1>3, <1>6, <2>1
    <2>5. p \in Stored'
      BY <1>3, <2>1, <2>3, <2>4 DEF Stored
    <2> QED
      BY <2>2, <2>5 DEF match
  <1>8. match => Rule.at \in Stored'
    <2>1. match => Value(Present'[Rule.at.disk], Rule.at) = prt_map[ip].set
      BY <1>1, <1>5 DEF match
    <2>2. ip < ip'
      BY <1>3, <1>6
    <2> QED
      BY <1>1, <1>3, <2>1, <2>2 DEF Stored
  <1>9. \A k \in DOMAIN changes : changes[k] \in Stored' /\ (changes[k] = Rule.at => ~match)
    <2> TAKE k \in DOMAIN changes
    <2>1. changes[k] \in Places
      BY <1>4
    <2> QED
      BY <1>4, <1>7, <2>1
  <1>10. CASE match
    <2>1. /\ changes' \in Seq(Places) /\ Len(changes') = Len(changes) + 1
          /\ \A k \in 1 .. Len(changes) : changes'[k] = changes[k]
          /\ changes'[Len(changes) + 1] = Rule.at /\ Len(changes) \in Nat
      BY <1>1, <1>2, <1>4, <1>10, AppendProperties
    <2>2. \A k \in DOMAIN changes' : k \in DOMAIN changes \/ k = Len(changes) + 1
      BY <1>4, <2>1
    <2>3. \A k \in DOMAIN changes : changes'[k] = changes[k]
      BY <1>4, <2>1
    <2>4. \A k \in DOMAIN changes' : changes'[k] \in Stored'
      BY <1>8, <1>9, <1>10, <2>1, <2>2, <2>3
    <2>5. dirty'
      BY <1>2, <1>10
    <2>6. ChangedOnce'
      BY <1>9, <1>10, <2>1, <2>2, <2>3 DEF OnceInv, ChangedOnce, IsInjective
    <2> QED
      BY <1>3, <2>4, <2>5, <2>6 DEF OnceInv, Irredundant, ChangesInv
  <1>11. CASE ~match
    <2>1. changes' = changes /\ (dirty => dirty')
      BY <1>2, <1>11
    <2> QED
      BY <1>3, <1>4, <1>9, <2>1 DEF OnceInv, Irredundant, ChangesInv, ChangedOnce
  <1> QED
    BY <1>10, <1>11

\* Each step keeps the rules apart.
LEMMA NextOnce ==
    ASSUME ChainInv, OnceInv, [Next]_vars
    PROVE  OnceInv'
  <1> USE DEF ChainInv
  <1>1. CASE Installer
    BY <1>1, InstallerOnce
  <1>2. CASE Start
    <2>1. changes' = <<>> /\ prt_map' = prt_map
      BY <1>2 DEF Start, installer, lists
    <2> QED
      BY <2>1 DEF OnceInv, Irredundant, ChangesInv, ChangedOnce, IsInjective
  <1>3. CASE Miss \/ Load \/ EndOfRules
    <2>1. /\ UNCHANGED <<prt_map, ip, changes, dirty>> /\ Passing
          /\ Silent \/ Fails
      BY <1>3, CacheSteps DEF Miss, Load, EndOfRules, Passing
    <2>2. CASE Silent
      <3>1. Present' = Present
        BY <2>2 DEF Silent
      <3>2. \A p : p \in Stored' <=> p \in Stored
        BY <2>1, <3>1 DEF Stored
      <3> QED
        BY <2>1, <3>2 DEF OnceInv, Irredundant, ChangesInv, ChangedOnce
    <2>3. CASE Fails
      BY <2>1, <2>3 DEF Fails, Passing, OnceInv, Irredundant, ChangesInv, ChangedOnce
    <2> QED
      BY <2>1, <2>2, <2>3
  <1>4. CASE Hit
    BY <1>4, HitOnce
  <1>5. CASE Jump
    BY <1>5
    DEF Jump, installer, lists, history, Passing, OnceInv, Irredundant, ChangesInv, ChangedOnce
  <1>6. CASE PowerOff
    BY <1>6
    DEF PowerOff, installer, lists, Passing, OnceInv, Irredundant, ChangesInv, ChangedOnce
  <1>7. CASE UNCHANGED vars
    <2>1. UNCHANGED <<prt_map, ip, changes, dirty, pc, tables, cache, low, scratch, other>>
      BY <1>7 DEF vars, installer, lists, memory, history
    <2>2. Present' = Present
      BY <2>1 DEF Present, Buffer, InLow
    <2>3. \A p : p \in Stored' <=> p \in Stored
      BY <2>1, <2>2 DEF Stored
    <2> QED
      BY <2>1, <2>3 DEF Passing, OnceInv, Irredundant, ChangesInv, ChangedOnce
  <1> QED
    BY <1>1, <1>2, <1>3, <1>4, <1>5, <1>6, <1>7 DEF Next, Loader

\* There are no rules at first.
LEMMA InitOnce ==
    ASSUME Init
    PROVE  OnceInv
  BY DEF Init, OnceInv, Irredundant, ChangesInv, ChangedOnce, IsInjective, Passing

\* One pass of the chain loader never changes a byte twice, whatever the rules
\* that CHANGE sections may add and wherever they send the cache.
THEOREM BytesChangeOnce == Spec => []ChangedOnce
  <1>1. ChainInv /\ OnceInv /\ [Next]_vars => OnceInv'
    BY NextOnce
  <1>2. Init => OnceInv
    BY InitOnce
  <1>3. OnceInv => ChangedOnce
    BY DEF OnceInv
  <1> QED
    BY <1>1, <1>2, <1>3, CacheInvariance, PTL DEF Spec

-----------------------------------------------------------------------------
(* The table that is handed over.                                          *)

\* A rule for the boot drive has been applied.
Loaded == \E i \in DOMAIN prt_map : i < ip /\ prt_map[i].at.disk = other.disk

\* From then on, and while its sector is cached, memory holds the table that the
\* boot drive has, or will have once the cache is written.
HandedInv ==
    pc \in {"rules", "load", "go"} =>
        /\ Loaded \/ (pc = "rules" /\ cache = other.disk /\ cache # 0) =>
             low = Present[other.disk]
        /\ pc = "go" => ip > Len(prt_map)

HandInv == HandedInv /\ HandedTable

\* A rule that applies changes one byte of the table that is handed over.
LEMMA HitHands ==
    ASSUME ChainInv, HandInv, Hit
    PROVE  HandInv'
  <1>1. /\ ip \in 1 .. Len(prt_map) /\ Rule = prt_map[ip] /\ Rule \in Rules
        /\ Rule.at.disk \in Disks
    BY RuleIs DEF Hit, ChainInv
  <1>2. /\ Present' = Applied(Present, Rule) /\ Present[cache] = Buffer
        /\ cache # 0 /\ Buffer' = Changed(Buffer, Rule) /\ Present \in [Disks -> Table]
    BY HitApplies, PresentFits DEF ChainInv
  <1>3. /\ prt_map' = prt_map /\ ip' = ip + 1 /\ pc = "rules" /\ pc' = "rules"
        /\ cache' = cache /\ other' = other /\ cache = Rule.at.disk
    BY DEF Hit, installer, lists
  <1>4. CASE cache = other.disk
    <2>1. low' = Buffer' /\ Present'[cache] = Changed(Present[cache], Rule)
      <3>1. low' = Changed(Buffer, Rule)
        BY <1>4 DEF Hit, InLow
      <3>2. Applied(Present, Rule)[cache] = Changed(Present[cache], Rule)
        BY <1>1, <1>2, <1>3 DEF Applied
      <3> QED
        BY <1>2, <3>1, <3>2
    <2>2. low' = Present'[other.disk]
      BY <1>2, <1>4, <2>1
    <2> QED
      BY <1>3, <2>2 DEF HandInv, HandedInv, HandedTable
  <1>5. CASE cache # other.disk
    <2>1. low' = low /\ Present'[other.disk] = Present[other.disk]
      <3>1. low' = low
        BY <1>5 DEF Hit, InLow
      <3>2. Applied(Present, Rule)[other.disk] = Present[other.disk]
        BY <1>2, <1>3, <1>5 DEF Applied
      <3> QED
        BY <1>2, <3>1, <3>2
    <2>2. Loaded' => Loaded
      <3>1. ip \in Nat /\ \A i \in DOMAIN prt_map : i \in Nat
        BY <1>1 DEF ChainInv, TypeInv, ListsTyped
      <3>2. \A i \in DOMAIN prt_map : i < ip + 1 => i < ip \/ i = ip
        BY <3>1
      <3> QED
        BY <1>1, <1>3, <1>5, <3>2 DEF Loaded
    <2> QED
      BY <1>3, <1>5, <2>1, <2>2 DEF HandInv, HandedInv, HandedTable
  <1> QED
    BY <1>4, <1>5

\* The table to hand over is read with all that was changed before.
LEMMA LoadHands ==
    ASSUME ChainInv, HandInv, Load
    PROVE  HandInv'
  <1>1. CASE Fails
    BY <1>1 DEF Fails, HandInv, HandedInv, HandedTable
  <1>2. CASE Silent
    <2>1. /\ UNCHANGED <<prt_map, other, ip>> /\ Present' = Present /\ Present = tables
          /\ pc = "load" /\ pc' = "rules" /\ cache' = Rule.at.disk
          /\ IF Rule.at.disk = other.disk THEN low' = tables[Rule.at.disk] ELSE low' = low
      BY <1>2 DEF Load, installer, lists, Silent, Present, GiveUp, LoadsLow, InLow
    <2>2. Loaded' = Loaded
      BY <2>1 DEF Loaded
    <2>3. CASE Rule.at.disk = other.disk
      BY <2>1, <2>3 DEF HandInv, HandedInv, HandedTable
    <2>4. CASE Rule.at.disk # other.disk
      BY <2>1, <2>2, <2>4 DEF HandInv, HandedInv, HandedTable
    <2> QED
      BY <2>3, <2>4
  <1> QED
    BY <1>1, <1>2, CacheSteps DEF ChainInv

\* A flush leaves low memory as it is.
LEMMA FlushHands ==
    ASSUME ChainInv, HandInv, Miss \/ EndOfRules
    PROVE  HandInv'
  <1>1. CASE Fails
    BY <1>1 DEF Fails, HandInv, HandedInv, HandedTable
  <1>2. CASE Silent
    <2>1. /\ UNCHANGED <<prt_map, other, ip, low>> /\ Present' = Present /\ pc = "rules"
          /\ pc' \in {"load", "go"}
      BY <1>2, FlushWrites
      DEF Miss, EndOfRules, installer, lists, memory, Silent, ChainInv, Fails
    <2>2. Loaded' = Loaded
      BY <2>1 DEF Loaded
    <2>3. pc' = "go" => ip > Len(prt_map)
      BY <1>2, FlushWrites DEF Miss, EndOfRules, ChainInv, Fails
    <2> QED
      BY <2>1, <2>2, <2>3 DEF HandInv, HandedInv, HandedTable
  <1> QED
    BY <1>1, <1>2, CacheSteps DEF ChainInv

\* The other system starts with the table that its disk has.
LEMMA JumpHands ==
    ASSUME ChainInv, HandInv, Jump
    PROVE  HandInv'
  <1>1. /\ UNCHANGED <<tables, prt_map, other, ip>> /\ pc = "go" /\ pc' = "started"
        /\ low' = [low EXCEPT ![BootEntry].act = other.disk]
    BY DEF Jump, installer, lists, memory
  <1>2. BootEntry' = BootEntry
    BY <1>1 DEF BootEntry
  <1>3. ASSUME NEW i \in DOMAIN prt_map, prt_map[i].at.disk = other.disk
        PROVE  low = tables[other.disk]
    <2>1. i < ip
      <3>1. ip > Len(prt_map) /\ ip \in Nat /\ Len(prt_map) \in Nat /\ i \in 1 .. Len(prt_map)
        BY <1>1 DEF HandInv, HandedInv, ChainInv, TypeInv, ListsTyped, MemoryTyped
      <3> QED
        BY <3>1
    <2>2. Loaded
      BY <1>3, <2>1 DEF Loaded
    <2> QED
      BY <1>1, <2>2 DEF HandInv, HandedInv, Present
  <1> QED
    BY <1>1, <1>2, <1>3 DEF HandInv, HandedInv, HandedTable

\* Each step keeps the entry to hand over as it is on the disk.
LEMMA NextHands ==
    ASSUME ChainInv, HandInv, [Next]_vars
    PROVE  HandInv'
  <1>1. CASE Installer
    BY <1>1, InstallerAway DEF HandInv, HandedInv, HandedTable
  <1>2. CASE Start
    <2>1. pc' = "rules" /\ cache' = 0 /\ ip' = 1 /\ prt_map' = prt_map
      BY <1>2 DEF Start, installer, lists
    <2>2. ~Loaded'
      <3>1. \A i \in DOMAIN prt_map : ~(i < 1)
        BY DEF ChainInv, TypeInv, ListsTyped
      <3> QED
        BY <2>1, <3>1 DEF Loaded
    <2> QED
      BY <2>1, <2>2 DEF HandInv, HandedInv, HandedTable
  <1>3. CASE PowerOff
    BY <1>3 DEF PowerOff, HandInv, HandedInv, HandedTable
  <1>4. CASE UNCHANGED vars
    <2>1. UNCHANGED <<prt_map, ip, dirty, pc, tables, cache, low, scratch, other>>
      BY <1>4 DEF vars, installer, lists, memory, history
    <2>2. Present' = Present /\ Loaded' = Loaded /\ BootEntry' = BootEntry
      BY <2>1 DEF Present, Buffer, InLow, Loaded, BootEntry
    <2> QED
      BY <2>1, <2>2 DEF HandInv, HandedInv, HandedTable
  <1> QED
    BY <1>1, <1>2, <1>3, <1>4, HitHands, LoadHands, FlushHands, JumpHands DEF Next, Loader

\* At first there is nothing to hand over.
LEMMA InitHands ==
    ASSUME Init
    PROVE  HandInv
  BY DEF Init, HandInv, HandedInv, HandedTable

\* A system booted from a disk that a rule names finds in memory the table that is
\* on that disk.
THEOREM TableIsHanded == Spec => []HandedTable
  <1>1. ChainInv /\ HandInv /\ [Next]_vars => HandInv'
    BY NextHands
  <1>2. Init => HandInv
    BY InitHands
  <1>3. HandInv => HandedTable
    BY DEF HandInv
  <1> QED
    BY <1>1, <1>2, <1>3, CacheInvariance, PTL DEF Spec

-----------------------------------------------------------------------------
(* MAP-DRIVE.                                                              *)

\* No drive is mapped twice.
MappedOnce ==
    \A i, j \in DOMAIN drv_map : drv_map[i].from = drv_map[j].from => i = j

\* One more MAP-DRIVE line is for another drive.
LEMMA MapAdds ==
    ASSUME TypeInv, MappedOnce, NEW m \in MapLines, DoMapDrive(m)
    PROVE  MappedOnce'
  <1>1. m \in Maps /\ drv_map \in Seq(Maps)
    BY ChainAssumption DEF TypeInv, ListsTyped
  <1>2. CASE drv_map' = drv_map
    BY <1>2 DEF MappedOnce
  <1>3. CASE ~Ambiguous(m) /\ drv_map' = Append(drv_map, m)
    <2>1. /\ drv_map' \in Seq(Maps) /\ Len(drv_map') = Len(drv_map) + 1
          /\ \A i \in 1 .. Len(drv_map) : drv_map'[i] = drv_map[i]
          /\ drv_map'[Len(drv_map) + 1] = m /\ Len(drv_map) \in Nat
      BY <1>1, <1>3, AppendProperties
    <2>2. \A i \in DOMAIN drv_map' : i \in DOMAIN drv_map \/ i = Len(drv_map) + 1
      BY <1>1, <2>1
    <2>3. \A i \in DOMAIN drv_map : drv_map'[i] = drv_map[i] /\ drv_map[i].from # m.from
      BY <1>1, <1>3, <2>1 DEF Ambiguous
    <2> QED
      BY <2>1, <2>2, <2>3 DEF MappedOnce
  <1> QED
    BY <1>2, <1>3 DEF DoMapDrive

\* The mapper finds the one entry of a drive.
LEMMA MappedIs ==
    ASSUME TypeInv, MappedOnce, NEW d
    PROVE  /\ \A i \in DOMAIN drv_map : drv_map[i].from = d => Mapped(d) = drv_map[i].to
           /\ (\A i \in DOMAIN drv_map : drv_map[i].from # d) => Mapped(d) = d
  <1> DEFINE from == {i \in DOMAIN drv_map : drv_map[i].from = d}
  <1>1. Mapped(d) = IF from = {} THEN d ELSE drv_map[Min(from)].to
    BY DEF Mapped
  <1>2. ASSUME NEW i \in DOMAIN drv_map, drv_map[i].from = d
        PROVE  Mapped(d) = drv_map[i].to
    <2>1. from = {i} /\ i \in Nat
      BY <1>2 DEF MappedOnce, TypeInv, ListsTyped
    <2>2. Min({i}) = i
      BY <2>1 DEF Min
    <2> QED
      BY <1>1, <2>1, <2>2
  <1>3. (\A i \in DOMAIN drv_map : drv_map[i].from # d) => from = {}
    OBVIOUS
  <1> QED
    BY <1>1, <1>2, <1>3

\* Drives that are mapped once are mapped as they were configured.
LEMMA MappedAsConfigured ==
    ASSUME TypeInv, MappedOnce
    PROVE  DrivesAsConfigured
  <1>1. drv_map \in Seq(Maps)
    BY DEF TypeInv, ListsTyped
  <1>2. \A m \in Range(drv_map) : \E i \in DOMAIN drv_map : m = drv_map[i] /\ m \in Maps
    BY <1>1 DEF Range
  <1>3. \A m \in Range(drv_map) : Mapped(m.from) = m.to
    BY <1>2, MappedIs
  <1>4. ASSUME {m.from : m \in Range(drv_map)} = {m.to : m \in Range(drv_map)},
               NEW d \in Disks
        PROVE  \E e \in Bytes : Mapped(e) = d
    <2>1. CASE d \in {m.from : m \in Range(drv_map)}
      <3>1. PICK m \in Range(drv_map) : m.to = d
        BY <1>4, <2>1
      <3>2. m.from \in Bytes /\ Mapped(m.from) = d
        BY <1>2, <1>3, <3>1 DEF Maps
      <3> QED
        BY <3>2
    <2>2. CASE d \notin {m.from : m \in Range(drv_map)}
      <3>1. \A i \in DOMAIN drv_map : drv_map[i].from # d
        BY <2>2 DEF Range
      <3>2. d \in Bytes
        <4>1. Disks \subseteq 1 .. 255
          BY ChainAssumption
        <4> QED
          BY <4>1 DEF Bytes
      <3> QED
        BY <3>1, <3>2, MappedIs
    <2> QED
      BY <2>1, <2>2
  <1> QED
    BY <1>3, <1>4 DEF DrivesAsConfigured

\* Each step keeps the drives apart.
LEMMA NextMapped ==
    ASSUME TypeInv, MappedOnce, [Next]_vars
    PROVE  MappedOnce'
  <1>1. CASE \E m \in MapLines : DoMapDrive(m)
    BY <1>1, MapAdds
  <1>2. CASE UNCHANGED drv_map
    BY <1>2 DEF MappedOnce
  <1> QED
    BY <1>1, <1>2
    DEF Next, Installer, Loader, DoType, DoReset, OpenBoot, DoPart, BootOther, Merge, Update,
        Start, Miss, Load, Hit, EndOfRules, Jump, PowerOff, lists, installer, vars

\* Every MAP-DRIVE line that was accepted takes effect, and lines that only
\* exchange drives leave every drive within reach.
THEOREM DrivesAreMapped == Spec => []DrivesAsConfigured
  <1>1. TypeInv /\ MappedOnce /\ [Next]_vars => MappedOnce'
    BY NextMapped
  <1>2. Init => MappedOnce
    BY DEF Init, MappedOnce
  <1>3. ChainInv => TypeInv
    BY DEF ChainInv
  <1>4. TypeInv /\ MappedOnce => DrivesAsConfigured
    BY MappedAsConfigured
  <1> QED
    BY <1>1, <1>2, <1>3, <1>4, CacheInvariance, PTL DEF Spec

-----------------------------------------------------------------------------
(* What the rules make of the disks, one after the other.                  *)

\* A set of numbers that is not empty has a least one.
LEMMA NatSetHasLeast ==
    ASSUME NEW S \in SUBSET Nat, S # {}
    PROVE  \E i \in S : \A j \in S : i <= j
  <1> DEFINE R == {ss \in Nat \X Nat : ss[1] < ss[2]}
  <1>1. IsWellFoundedOn(R, Nat)
    BY NatLessThanWellFounded DEF OpToRel
  <1> HIDE DEF R
  <1>2. PICK i \in S : \A j \in S : <<j, i>> \notin R
    BY <1>1, WFMin
  <1>3. \A j \in S : ~(j < i)
    BY <1>2 DEF R
  <1> QED
    BY <1>3

\* Induction up to a number, over a set that 0 is in and that goes on.
LEMMA EveryNumberUpTo ==
    ASSUME NEW n \in Nat, NEW S, 0 \in S, \A k \in S : k \in 0 .. (n - 1) => k + 1 \in S
    PROVE  \A k \in 0 .. n : k \in S
  <1> SUFFICES ASSUME NEW m \in 0 .. n, m \notin S
               PROVE  FALSE
    OBVIOUS
  <1>1. PICK k \in (0 .. n) \ S : \A j \in (0 .. n) \ S : k <= j
    <2>1. (0 .. n) \ S \in SUBSET Nat /\ (0 .. n) \ S # {}
      OBVIOUS
    <2> QED
      BY <2>1, NatSetHasLeast
  <1>2. k # 0 /\ k - 1 \in 0 .. (n - 1) /\ k - 1 \in S
    BY <1>1
  <1>3. (k - 1) + 1 \in S
    BY <1>2
  <1> QED
    BY <1>1, <1>3

\* The recursive definition has a solution, built rule by rule.
LEMMA AfterDefined ==
    ASSUME Len(prt_map) \in Nat
    PROVE  After = [n \in 0 .. Len(prt_map) |->
                      IF n = 0 THEN before ELSE Applied(After[n - 1], prt_map[n])]
  <1> DEFINE Step(f, n) == IF n = 0 THEN before ELSE Applied(f[n - 1], prt_map[n])
             Upto(n) == \E f : f = [k \in 0 .. n |-> Step(f, k)]
             S == {n \in 0 .. Len(prt_map) : Upto(n)}
  <1>1. 0 \in S
    <2> DEFINE f == [k \in 0 .. 0 |-> before]
    <2>1. f = [k \in 0 .. 0 |-> Step(f, k)]
      OBVIOUS
    <2>2. Upto(0)
      <3> HIDE DEF f, Step
      <3> QED
        BY <2>1
    <2> QED
      BY <2>2
  <1>2. \A n \in S : n \in 0 .. (Len(prt_map) - 1) => n + 1 \in S
    <2> SUFFICES ASSUME NEW n \in S, n \in 0 .. (Len(prt_map) - 1)
                 PROVE  Upto(n + 1)
      <3> HIDE DEF Upto
      <3> QED
        OBVIOUS
    <2>1. PICK f : f = [k \in 0 .. n |-> Step(f, k)]
      OBVIOUS
    <2> DEFINE g == [k \in 0 .. (n + 1) |-> IF k <= n THEN f[k] ELSE Step(f, n + 1)]
    <2>2. \A k \in 0 .. (n + 1) : g[k] = Step(g, k)
      <3> TAKE k \in 0 .. (n + 1)
      <3>1. CASE k = 0
        BY <2>1, <3>1
      <3>2. CASE k # 0
        <4>1. g[k - 1] = f[k - 1]
          BY <3>2
        <4>2. g[k] = Step(f, k)
          BY <2>1
        <4> QED
          BY <3>2, <4>1, <4>2
      <3> QED
        BY <3>1, <3>2
    <2>3. g = [k \in 0 .. (n + 1) |-> Step(g, k)]
      BY <2>2
    <2> QED
      BY <2>3
  <1>3. Upto(Len(prt_map))
    <2> HIDE DEF S
    <2>1. \A k \in 0 .. Len(prt_map) : k \in S
      BY <1>1, <1>2, EveryNumberUpTo
    <2> QED
      BY <2>1 DEF S
  <1>4. After = CHOOSE f : f = [k \in 0 .. Len(prt_map) |-> Step(f, k)]
    BY DEF After
  <1> QED
    BY <1>3, <1>4

\* Rule by rule, the disks stay tables and their addresses stay.
LEMMA AfterSteps ==
    ASSUME TypeInv
    PROVE  /\ Len(prt_map) \in Nat /\ After[0] = before
           /\ \A n \in 1 .. Len(prt_map) : After[n] = Applied(After[n - 1], prt_map[n])
           /\ \A n \in 0 .. Len(prt_map) :
                /\ After[n] \in [Disks -> Table]
                /\ \A d \in Disks, q \in Parts : After[n][d][q].skewed = before[d][q].skewed
  <1>1. Len(prt_map) \in Nat /\ prt_map \in Seq(Rules)
    BY DEF TypeInv, ListsTyped
  <1>2. /\ After[0] = before
        /\ \A n \in 1 .. Len(prt_map) : After[n] = Applied(After[n - 1], prt_map[n])
    BY <1>1, AfterDefined
  <1> DEFINE Fits(n) ==
               /\ After[n] \in [Disks -> Table]
               /\ \A d \in Disks, q \in Parts : After[n][d][q].skewed = before[d][q].skewed
             S == {n \in 0 .. Len(prt_map) : Fits(n)}
  <1>3. Fits(0)
    BY <1>2 DEF TypeInv, DisksTyped
  <1>4. ASSUME NEW n \in 0 .. (Len(prt_map) - 1), Fits(n)
        PROVE  Fits(n + 1)
    <2>1. After[n + 1] = Applied(After[n], prt_map[n + 1]) /\ prt_map[n + 1] \in Rules
      BY <1>1, <1>2
    <2>2. /\ Applied(After[n], prt_map[n + 1]) \in [Disks -> Table]
          /\ \A d \in Disks, q \in Parts :
               Applied(After[n], prt_map[n + 1])[d][q].skewed = After[n][d][q].skewed
      BY <1>4, <2>1, AppliedValue
    <2> QED
      BY <1>4, <2>1, <2>2
  <1> HIDE DEF Fits
  <1>5. 0 \in S /\ \A n \in S : n \in 0 .. (Len(prt_map) - 1) => n + 1 \in S
    BY <1>1, <1>3, <1>4
  <1> HIDE DEF S
  <1>6. \A n \in 0 .. Len(prt_map) : n \in S
    BY <1>1, <1>5, EveryNumberUpTo
  <1>7. \A n \in 0 .. Len(prt_map) : Fits(n)
    BY <1>6 DEF S
  <1> QED
    BY <1>1, <1>2, <1>7 DEF Fits

\* The value that a place had before the passes, and the one it is to have.
Old(p) == Value(before[p.disk], p)
Meant(p) == Value(InSequence[p.disk], p)

\* One of the first n rules finds that value at the place.
Due(p, n) == \E i \in 1 .. n : prt_map[i].at = p /\ prt_map[i].expect = Old(p)

\* A rule changes the value it expects at its place, if it is there.
LEMMA AfterRule ==
    ASSUME TypeInv, NEW p \in Places, NEW n \in 1 .. Len(prt_map)
    PROVE  Value(After[n][p.disk], p) =
             IF prt_map[n].at = p /\ Value(After[n - 1][p.disk], p) = prt_map[n].expect
             THEN prt_map[n].set ELSE Value(After[n - 1][p.disk], p)
  <1>1. /\ prt_map[n] \in Rules /\ After[n] = Applied(After[n - 1], prt_map[n])
        /\ n - 1 \in 0 .. Len(prt_map) /\ After[n - 1] \in [Disks -> Table]
    BY AfterSteps DEF TypeInv, ListsTyped
  <1> QED
    BY <1>1, AppliedValue

\* A place that no rule finds in its old state keeps it.
LEMMA NotDueStays ==
    ASSUME TypeInv, NEW p \in Places
    PROVE  \A n \in 0 .. Len(prt_map) : ~Due(p, n) => Value(After[n][p.disk], p) = Old(p)
  <1> DEFINE Kept(n) == ~Due(p, n) => Value(After[n][p.disk], p) = Old(p)
             S == {n \in 0 .. Len(prt_map) : Kept(n)}
  <1>1. Len(prt_map) \in Nat /\ After[0] = before
    BY AfterSteps
  <1>2. Kept(0)
    BY <1>1 DEF Old
  <1>3. ASSUME NEW n \in 0 .. (Len(prt_map) - 1), Kept(n)
        PROVE  Kept(n + 1)
    <2> SUFFICES ASSUME ~Due(p, n + 1)
                 PROVE  Value(After[n + 1][p.disk], p) = Old(p)
      OBVIOUS
    <2>1. ~Due(p, n) /\ n + 1 \in 1 .. Len(prt_map) /\ (n + 1) - 1 = n
      BY <1>1 DEF Due
    <2>2. ~(prt_map[n + 1].at = p /\ prt_map[n + 1].expect = Old(p))
      BY DEF Due
    <2> QED
      BY <1>3, <2>1, <2>2, AfterRule
  <1> HIDE DEF Kept
  <1>4. 0 \in S /\ \A n \in S : n \in 0 .. (Len(prt_map) - 1) => n + 1 \in S
    BY <1>1, <1>2, <1>3
  <1> HIDE DEF S
  <1>5. \A n \in 0 .. Len(prt_map) : n \in S
    BY <1>1, <1>4, EveryNumberUpTo
  <1> QED
    BY <1>5 DEF S, Kept

\* Unless rules are chained, what one of them stores at a place stays there.
LEMMA StoredStays ==
    ASSUME TypeInv, ~Chained, NEW p \in Places, NEW i \in 1 .. Len(prt_map),
           prt_map[i].at = p, Value(After[i][p.disk], p) = prt_map[i].set
    PROVE  Meant(p) = prt_map[i].set
  <1> DEFINE Stays(n) == n >= i => Value(After[n][p.disk], p) = prt_map[i].set
             S == {n \in 0 .. Len(prt_map) : Stays(n)}
  <1>1. Len(prt_map) \in Nat /\ i \in DOMAIN prt_map /\ DOMAIN prt_map = 1 .. Len(prt_map)
    BY AfterSteps DEF TypeInv, ListsTyped
  <1>2. Stays(0)
    OBVIOUS
  <1>3. ASSUME NEW n \in 0 .. (Len(prt_map) - 1), Stays(n)
        PROVE  Stays(n + 1)
    <2>1. CASE n + 1 > i
      <3>1. n >= i /\ n + 1 \in 1 .. Len(prt_map) /\ (n + 1) - 1 = n
        BY <1>1, <2>1
      <3>2. ~(prt_map[n + 1].at = p /\ prt_map[n + 1].expect = prt_map[i].set)
        BY <1>1, <3>1 DEF Chained
      <3> QED
        BY <1>3, <3>1, <3>2, AfterRule
    <2>2. CASE n + 1 <= i
      BY <1>1, <2>2
    <2> QED
      BY <1>1, <2>1, <2>2
  <1> HIDE DEF Stays
  <1>4. 0 \in S /\ \A n \in S : n \in 0 .. (Len(prt_map) - 1) => n + 1 \in S
    BY <1>1, <1>2, <1>3
  <1> HIDE DEF S
  <1>5. Stays(Len(prt_map))
    <2>1. \A n \in 0 .. Len(prt_map) : n \in S
      BY <1>1, <1>4, EveryNumberUpTo
    <2> QED
      BY <1>1, <2>1 DEF S
  <1> QED
    BY <1>1, <1>5 DEF Stays, Meant, InSequence

\* The first rule that finds a place in its old state makes it what it is to be.
LEMMA FirstDecides ==
    ASSUME TypeInv, ~Chained, NEW p \in Places, NEW i \in 1 .. Len(prt_map),
           prt_map[i].at = p, prt_map[i].expect = Old(p), ~Due(p, i - 1)
    PROVE  Meant(p) = prt_map[i].set
  <1>1. i - 1 \in 0 .. Len(prt_map)
    BY AfterSteps
  <1>2. Value(After[i - 1][p.disk], p) = Old(p)
    BY <1>1, NotDueStays
  <1>3. Value(After[i][p.disk], p) = prt_map[i].set
    BY <1>2, AfterRule
  <1> QED
    BY <1>3, StoredStays

\* So what a place that is due is to have was stored by a rule, and no rule
\* expects it there.
LEMMA DueIsStored ==
    ASSUME TypeInv, ~Chained, NEW p \in Places, NEW m \in 0 .. Len(prt_map), Due(p, m)
    PROVE  \A j \in 1 .. Len(prt_map) : prt_map[j].at = p => prt_map[j].expect # Meant(p)
  <1> DEFINE S == {n \in 0 .. Len(prt_map) : Due(p, n)}
  <1>1. Len(prt_map) \in Nat /\ DOMAIN prt_map = 1 .. Len(prt_map)
    BY AfterSteps DEF TypeInv, ListsTyped
  <1>2. PICK i \in S : \A n \in S : i <= n
    <2>1. S \in SUBSET Nat /\ S # {}
      BY <1>1
    <2> HIDE DEF S
    <2> QED
      BY <2>1, NatSetHasLeast
  <1>3. i # 0 /\ i \in 1 .. Len(prt_map) /\ ~Due(p, i - 1)
    <2>1. i # 0
      BY <1>2 DEF Due
    <2>2. i - 1 \in 0 .. Len(prt_map) /\ ~(i <= i - 1)
      BY <1>1, <1>2, <2>1
    <2> QED
      BY <1>1, <1>2, <2>1, <2>2
  <1>4. prt_map[i].at = p /\ prt_map[i].expect = Old(p)
    BY <1>2, <1>3 DEF Due
  <1>5. Meant(p) = prt_map[i].set
    BY <1>3, <1>4, FirstDecides
  <1> QED
    BY <1>1, <1>3, <1>4, <1>5 DEF Chained

\* A place that is never due is to stay as it is.
LEMMA NotDueIsOld ==
    ASSUME TypeInv, NEW p \in Places, ~Due(p, Len(prt_map))
    PROVE  Meant(p) = Old(p)
  <1>1. Len(prt_map) \in 0 .. Len(prt_map)
    BY AfterSteps
  <1> QED
    BY <1>1, NotDueStays DEF Meant, InSequence

-----------------------------------------------------------------------------
(* The disks on the way, when passes may be torn.                          *)

\* Every place is as it was before or as it is to be, every address as before.
Midway ==
    {t \in [Disks -> Table] :
        /\ \A p \in Places : Value(t[p.disk], p) \in {Old(p), Meant(p)}
        /\ \A d \in Disks, q \in Parts : t[d][q].skewed = before[d][q].skewed}

\* The places that the first n rules find in their old state are as they are to be.
Through ==
    [n \in Nat |-> {t \in Midway :
        \A p \in Places : Due(p, n) => Value(t[p.disk], p) = Meant(p)}]

\* In a pass that follows a complete one the disks are what the rules so far make
\* of them; after torn ones they are midway, and past these rules.
PassInv ==
    pc \in {"rules", "load", "go"} =>
        /\ ip - 1 \in 0 .. Len(prt_map)
        /\ pc = "go" => ip - 1 = Len(prt_map)
        /\ ~torn => Present = After[ip - 1]
        /\ ~Chained => tables \in Midway /\ Present \in Through[ip - 1]
TornInv == pc = "installed" /\ torn /\ ~Chained => tables \in Midway

SequenceInv == PassInv /\ TornInv /\ RulesInSequence

\* What the rules mean depends on them and on the disks before.
LEMMA SameMeaning ==
    ASSUME UNCHANGED <<prt_map, before>>
    PROVE  /\ After' = After /\ Midway' = Midway /\ Through' = Through
           /\ Chained' = Chained /\ InSequence' = InSequence
  <1>1. After' = After
    BY DEF After
  <1>2. InSequence' = InSequence
    BY <1>1 DEF InSequence
  <1>3. Midway' = Midway
    BY <1>2 DEF Midway, Old, Meant
  <1>4. Through' = Through
    BY <1>2, <1>3 DEF Through, Due, Old, Meant
  <1>5. Chained' = Chained
    BY DEF Chained
  <1> QED
    BY <1>1, <1>2, <1>3, <1>4, <1>5

\* A rule that was gone through, written or not, is on the way.
LEMMA ThroughIsMidway ==
    ASSUME NEW n \in Nat
    PROVE  Through[n] \subseteq Midway
  BY DEF Through

\* Before the first rule everything is midway that was, and the disks themselves
\* when no pass was torn.
LEMMA FirstIsMidway == ip = 1 => Through[ip - 1] = Midway
  <1>1. \A p : ~Due(p, 0)
    BY DEF Due
  <1> QED
    BY <1>1 DEF Through

\* So are the tables before the first rule.
LEMMA BeforeIsMidway ==
    TypeInv /\ before = tables => tables \in Midway /\ tables = After[0]
  <1> SUFFICES ASSUME TypeInv, before = tables
               PROVE  tables \in Midway /\ tables = After[0]
    OBVIOUS
  <1>1. tables \in [Disks -> Table] /\ tables = After[0]
    BY AfterSteps DEF TypeInv, DisksTyped
  <1> QED
    BY <1>1 DEF Midway, Old

\* A rule takes the disks one step further on their way.
LEMMA RuleGoesThrough ==
    ASSUME TypeInv, ~Chained, NEW n \in 1 .. Len(prt_map), NEW t \in Through[n - 1]
    PROVE  Applied(t, prt_map[n]) \in Through[n]
  <1> DEFINE r == prt_map[n]
             u == Applied(t, r)
  <1>1. Len(prt_map) \in Nat /\ n - 1 \in Nat /\ n \in Nat /\ r \in Rules
    BY AfterSteps DEF TypeInv, ListsTyped
  <1>2. t \in Midway /\ t \in [Disks -> Table]
    BY <1>1, ThroughIsMidway DEF Midway
  <1>3. /\ u \in [Disks -> Table]
        /\ \A d \in Disks, q \in Parts : u[d][q].skewed = t[d][q].skewed
        /\ \A p \in Places : Value(u[p.disk], p) =
             IF p = r.at /\ Value(t[p.disk], p) = r.expect THEN r.set ELSE Value(t[p.disk], p)
    BY <1>1, <1>2, AppliedValue
  <1> HIDE DEF u
  <1>4. ASSUME NEW p \in Places
        PROVE  /\ Value(u[p.disk], p) \in {Old(p), Meant(p)}
               /\ Due(p, n) => Value(u[p.disk], p) = Meant(p)
    <2>1. /\ Value(t[p.disk], p) \in {Old(p), Meant(p)}
          /\ Due(p, n - 1) => Value(t[p.disk], p) = Meant(p)
      BY <1>1, <1>2 DEF Midway, Through
    <2>2. Due(p, n) => Due(p, n - 1) \/ (r.at = p /\ r.expect = Old(p))
      BY <1>1 DEF Due
    <2>3. ASSUME p = r.at, Value(t[p.disk], p) = r.expect
          PROVE  Value(u[p.disk], p) = Meant(p)
      <3>1. ~Due(p, n - 1)
        <4>1. SUFFICES ASSUME Due(p, n - 1)
                       PROVE  FALSE
          OBVIOUS
        <4>2. n - 1 \in 0 .. Len(prt_map)
          BY <1>1
        <4>3. r.expect # Meant(p)
          BY <2>3, <4>1, <4>2, DueIsStored
        <4> QED
          BY <2>1, <2>3, <4>1, <4>3
      <3>2. r.expect = Old(p)
        <4>1. CASE Value(t[p.disk], p) = Old(p)
          BY <2>3, <4>1
        <4>2. CASE Value(t[p.disk], p) = Meant(p) /\ Meant(p) # Old(p)
          <5>1. Due(p, Len(prt_map)) /\ Len(prt_map) \in 0 .. Len(prt_map)
            BY <1>1, <4>2, NotDueIsOld
          <5>2. r.expect # Meant(p)
            BY <2>3, <5>1, DueIsStored
          <5> QED
            BY <2>3, <4>2, <5>2
        <4> QED
          BY <2>1, <4>1, <4>2
      <3>3. Meant(p) = r.set
        BY <2>3, <3>1, <3>2, FirstDecides
      <3> QED
        BY <1>3, <2>3, <3>3
    <2>4. ASSUME ~(p = r.at /\ Value(t[p.disk], p) = r.expect)
          PROVE  /\ Value(u[p.disk], p) = Value(t[p.disk], p)
                 /\ Due(p, n) => Value(u[p.disk], p) = Meant(p)
      <3>1. Value(u[p.disk], p) = Value(t[p.disk], p)
        BY <1>3, <2>4
      <3>2. CASE Due(p, n - 1)
        BY <2>1, <3>1, <3>2
      <3>3. CASE r.at = p /\ r.expect = Old(p)
        BY <2>1, <2>4, <3>1, <3>3
      <3> QED
        BY <2>2, <3>1, <3>2, <3>3
    <2> QED
      BY <2>1, <2>3, <2>4
  <1>5. u \in Midway
    BY <1>2, <1>3, <1>4 DEF Midway
  <1>6. u \in Through[n]
    BY <1>1, <1>4, <1>5 DEF Through
  <1> QED
    BY <1>6 DEF u

\* Past all rules the disks are what the rules make of them.
LEMMA ThroughAll ==
    ASSUME TypeInv, NEW t \in Through[Len(prt_map)]
    PROVE  t = InSequence
  <1>1. Len(prt_map) \in Nat /\ Len(prt_map) \in 0 .. Len(prt_map)
    BY AfterSteps
  <1>2. t \in Midway
    BY <1>1, ThroughIsMidway
  <1>3. InSequence \in [Disks -> Table]
        /\ \A d \in Disks, q \in Parts : InSequence[d][q].skewed = before[d][q].skewed
    BY <1>1, AfterSteps DEF InSequence
  <1>4. ASSUME NEW p \in Places
        PROVE  Value(t[p.disk], p) = Value(InSequence[p.disk], p)
    <2>1. CASE Due(p, Len(prt_map))
      BY <1>1, <2>1 DEF Through, Meant
    <2>2. CASE ~Due(p, Len(prt_map))
      BY <1>2, <2>2, NotDueIsOld DEF Midway, Meant
    <2> QED
      BY <2>1, <2>2
  <1> QED
    BY <1>2, <1>3, <1>4, SameDisks DEF Midway

\* The loader starts with the first rule.
LEMMA StartSequence ==
    ASSUME TypeInv, TypeInv', SequenceInv, Start
    PROVE  SequenceInv'
  <1>1. /\ pc' = "rules" /\ ip' = 1 /\ dirty' = FALSE /\ tables' = tables /\ torn' = torn
        /\ prt_map' = prt_map /\ before' = (IF torn THEN before ELSE tables)
    BY DEF Start, installer, lists
  <1>2. Present' = tables'
    BY <1>1 DEF Present
  <1>3. ip' - 1 \in 0 .. Len(prt_map')
    <2>1. Len(prt_map) \in Nat
      BY AfterSteps
    <2> QED
      BY <1>1, <2>1
  <1>4. (ip = 1 => Through[ip - 1] = Midway)'
    BY FirstIsMidway, PTL
  <1>5. (TypeInv /\ before = tables => tables \in Midway /\ tables = After[0])'
    BY BeforeIsMidway, PTL
  <1>6. ip' - 1 = 0
    BY <1>1
  <1>7. CASE torn
    <2>1. before' = before
      BY <1>1, <1>7
    <2>2. Midway' = Midway /\ Chained' = Chained
      BY <1>1, <2>1, SameMeaning
    <2>3. ~Chained => tables' \in Midway'
      BY <1>1, <1>7, <2>2 DEF SequenceInv, TornInv, Start
    <2>4. torn'
      BY <1>1, <1>7
    <2> QED
      BY <1>1, <1>2, <1>3, <1>4, <2>2, <2>3, <2>4
      DEF SequenceInv, PassInv, TornInv, RulesInSequence
  <1>8. CASE ~torn
    <2>1. tables' \in Midway' /\ tables' = After'[0]
      BY <1>1, <1>5, <1>8
    <2> QED
      BY <1>1, <1>2, <1>3, <1>4, <1>6, <2>1
      DEF SequenceInv, PassInv, TornInv, RulesInSequence
  <1> QED
    BY <1>7, <1>8

\* A failed call, or the power, leaves the disks on their way.
LEMMA TornSequence ==
    ASSUME SequenceInv, pc \in {"rules", "load", "go"}, pc' = "installed",
           UNCHANGED <<prt_map, before>>, tables' \in {tables, Present}, ip - 1 \in Nat
    PROVE  SequenceInv'
  <1>1. Midway' = Midway /\ Chained' = Chained
    BY SameMeaning
  <1>2. ~Chained => tables' \in Midway
    BY ThroughIsMidway DEF SequenceInv, PassInv
  <1> QED
    BY <1>1, <1>2 DEF SequenceInv, PassInv, TornInv, RulesInSequence

\* Reading and writing tables goes through no rule.
LEMMA SilentSequence ==
    ASSUME ChainInv, SequenceInv, Miss \/ Load \/ EndOfRules
    PROVE  SequenceInv'
  <1>1. /\ Silent \/ Fails
        /\ UNCHANGED <<prt_map, ip, before>> /\ pc \in {"rules", "load"}
    BY CacheSteps DEF ChainInv, Miss, Load, EndOfRules
  <1>2. ip - 1 \in Nat
    BY DEF ChainInv, TypeInv, MemoryTyped
  <1>3. CASE Fails
    BY <1>1, <1>2, <1>3, TornSequence DEF Fails
  <1>4. CASE Silent
    <2>1. /\ After' = After /\ Midway' = Midway /\ Through' = Through
          /\ Chained' = Chained
      BY <1>1, SameMeaning
    <2>2. /\ Present' = Present /\ tables' \in {tables, Present} /\ torn' = torn
          /\ pc' \in {"rules", "load", "go"}
      BY <1>4 DEF Silent
    <2>3. pc' = "go" => ip - 1 = Len(prt_map)
      <3>1. pc' = "go" => pc = "rules" /\ ip > Len(prt_map)
        BY <2>2, FlushWrites DEF ChainInv, Miss, Load, EndOfRules, Fails, GiveUp
      <3>2. pc = "rules" => ip <= Len(prt_map) + 1
        BY DEF ChainInv, CacheInv, Passing
      <3>3. Len(prt_map) \in Nat /\ ip \in Nat
        BY AfterSteps DEF ChainInv, TypeInv, MemoryTyped
      <3> QED
        BY <3>1, <3>2, <3>3
    <2>4. ip - 1 \in 0 .. Len(prt_map) /\ (~torn => Present = After[ip - 1])
      BY <1>1 DEF SequenceInv, PassInv
    <2>5. ~Chained => tables' \in Midway /\ Present \in Through[ip - 1]
      BY <1>1, <1>2, <2>2, ThroughIsMidway DEF SequenceInv, PassInv
    <2> QED
      BY <1>1, <2>1, <2>2, <2>3, <2>4, <2>5
      DEF SequenceInv, PassInv, TornInv, RulesInSequence
  <1> QED
    BY <1>1, <1>3, <1>4

\* A rule that applies is gone through, and changes what the next one finds.
LEMMA HitSequence ==
    ASSUME ChainInv, SequenceInv, Hit
    PROVE  SequenceInv'
  <1>1. /\ UNCHANGED <<prt_map, before, tables, torn>> /\ ip' = ip + 1
        /\ pc = "rules" /\ pc' = "rules" /\ ip <= Len(prt_map)
    BY DEF Hit, installer, lists
  <1>2. ip \in 1 .. Len(prt_map) /\ Rule = prt_map[ip] /\ ip \in Nat /\ Len(prt_map) \in Nat
    BY <1>1, RuleIs, AfterSteps DEF ChainInv
  <1>3. /\ After' = After /\ Midway' = Midway /\ Through' = Through
        /\ Chained' = Chained
    BY <1>1, SameMeaning
  <1>4. Present' = Applied(Present, prt_map[ip])
    BY <1>2, HitApplies DEF ChainInv
  <1>5. ~torn => Present' = After[ip]
    BY <1>1, <1>2, <1>4, AfterSteps DEF ChainInv, SequenceInv, PassInv
  <1>6. ~Chained => tables \in Midway /\ Present' \in Through[ip]
    BY <1>1, <1>2, <1>4, RuleGoesThrough DEF ChainInv, SequenceInv, PassInv
  <1>7. ip' - 1 = ip /\ ip \in 0 .. Len(prt_map)
    BY <1>1, <1>2
  <1> QED
    BY <1>1, <1>3, <1>5, <1>6, <1>7 DEF SequenceInv, PassInv, TornInv, RulesInSequence

\* The rules end with the jump.
LEMMA JumpSequence ==
    ASSUME ChainInv, SequenceInv, Jump
    PROVE  SequenceInv'
  <1>1. UNCHANGED <<prt_map, before, tables, torn>> /\ pc = "go" /\ pc' = "started"
    BY DEF Jump, installer, lists, history
  <1>2. InSequence' = InSequence /\ Chained' = Chained
    BY <1>1, SameMeaning
  <1>3. Present = tables /\ ip - 1 = Len(prt_map)
    BY <1>1 DEF Present, SequenceInv, PassInv
  <1>4. ~torn => tables = InSequence
    BY <1>1, <1>3 DEF SequenceInv, PassInv, InSequence
  <1>5. ~Chained => tables = InSequence
    BY <1>1, <1>3, ThroughAll DEF ChainInv, SequenceInv, PassInv
  <1> QED
    BY <1>1, <1>2, <1>4, <1>5 DEF SequenceInv, PassInv, TornInv, RulesInSequence

\* Without power the unwritten table is lost.
LEMMA PowerSequence ==
    ASSUME ChainInv, SequenceInv, PowerOff
    PROVE  SequenceInv'
  <1>1. UNCHANGED <<prt_map, before, tables>> /\ pc' = "installed" /\ torn' = (pc # "started")
    BY DEF PowerOff, installer, lists
  <1>2. CASE pc = "started"
    <2>1. ~torn'
      BY <1>1, <1>2
    <2> QED
      BY <1>1, <2>1 DEF SequenceInv, PassInv, TornInv, RulesInSequence
  <1>3. CASE pc # "started"
    <2>1. pc \in {"rules", "load", "go"}
      BY <1>3 DEF PowerOff
    <2>2. ip - 1 \in Nat
      BY DEF ChainInv, TypeInv, MemoryTyped
    <2> QED
      BY <1>1, <2>1, <2>2, TornSequence
  <1> QED
    BY <1>2, <1>3

\* The installer ends before a pass was torn.
NotTorn == pc \in {"options", "other", "merge", "update"} => ~torn

\* No step leaves a pass torn behind while the installer runs.
LEMMA NextNotTorn ==
    ASSUME NotTorn, [Next]_vars
    PROVE  NotTorn'
  <1>1. CASE Installer
    BY <1>1, InstallerAway DEF history, NotTorn
  <1>2. CASE Loader
    BY <1>2, LoaderAway DEF NotTorn
  <1>3. CASE UNCHANGED vars
    BY <1>3 DEF vars, history, NotTorn
  <1> QED
    BY <1>1, <1>2, <1>3 DEF Next

\* Each step keeps the rules in their sequence.
LEMMA NextSequence ==
    ASSUME ChainInv, ChainInv', NotTorn, SequenceInv, [Next]_vars
    PROVE  SequenceInv'
  <1>1. CASE Installer
    <2>1. ~torn'
      BY <1>1, InstallerAway DEF history, NotTorn
    <2> QED
      BY <1>1, <2>1, InstallerAway DEF SequenceInv, PassInv, TornInv, RulesInSequence
  <1>2. CASE Start
    BY <1>2, StartSequence DEF ChainInv
  <1>3. CASE UNCHANGED vars
    <2>1. UNCHANGED <<prt_map, before, ip, dirty, pc, tables, cache, low, scratch, other, torn>>
      BY <1>3 DEF vars, installer, lists, memory, history
    <2>2. Present' = Present
      BY <2>1 DEF Present, Buffer, InLow
    <2>3. /\ After' = After /\ Midway' = Midway /\ Through' = Through
          /\ Chained' = Chained /\ InSequence' = InSequence
      BY <2>1, SameMeaning
    <2> QED
      BY <2>1, <2>2, <2>3 DEF SequenceInv, PassInv, TornInv, RulesInSequence
  <1> QED
    BY <1>1, <1>2, <1>3, SilentSequence, HitSequence, JumpSequence, PowerSequence
    DEF Next, Loader

\* No rule was gone through at first.
LEMMA InitSequence ==
    ASSUME Init
    PROVE  SequenceInv /\ NotTorn
  BY DEF Init, SequenceInv, PassInv, TornInv, RulesInSequence, NotTorn

\* When the other system starts, every table on every disk is what the rules make
\* of it in their order, through whatever cache; also after passes that were cut
\* short, for rules that do not undo each other.
THEOREM RulesTakeEffect == Spec => []RulesInSequence
  <1>1. ChainInv /\ ChainInv' /\ NotTorn /\ SequenceInv /\ [Next]_vars => SequenceInv'
    BY NextSequence
  <1>2. NotTorn /\ [Next]_vars => NotTorn'
    BY NextNotTorn
  <1>3. Init => SequenceInv /\ NotTorn
    BY InitSequence
  <1>4. SequenceInv => RulesInSequence
    BY DEF SequenceInv
  <1> QED
    BY <1>1, <1>2, <1>3, <1>4, CacheInvariance, PTL DEF Spec
=============================================================================
