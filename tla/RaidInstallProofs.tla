-------------------------- MODULE RaidInstallProofs --------------------------
(***************************************************************************)
(* Theorems about the table of image names and about installations on the  *)
(* disks of an array, for any names, sections, arrays and runs, with runs  *)
(* that end at any call.                                                   *)
(***************************************************************************)
EXTENDS RaidInstall, SequenceTheorems, FiniteSetTheorems, WellFoundedInduction, TLAPS

-----------------------------------------------------------------------------
(* Tables.                                                                 *)

SlotTypes == [name : Names \cup {NoName}, single : BOOLEAN, section : Nat]
TableTypes == [descr : [Slots -> SlotTypes], image : 0 .. MaxImages, image_base : {0, 1}]

Named(d, s) == d[s].name # NoName

\* No two slots have the same name, and no single key begins another name.
Distinct(d) ==
    \A s, u \in Slots : s # u /\ Named(d, s) /\ Named(d, u) =>
        /\ d[s].name # d[u].name
        /\ ~(d[s].single /\ Short(d[s].name) /\ d[s].name.letter = d[u].name.letter)

\* Slots from the next one on are empty; slot 0 is DEFAULT's, if there is one.
Filled(t, def) ==
    /\ \A s \in Slots : s >= t.image => ~Named(t.descr, s)
    /\ def = NoName => t.image_base = 0
    /\ def # NoName =>
        /\ t.image >= 1
        /\ t.image_base = 1 => ~Named(t.descr, 0)
        /\ t.image_base = 0 => t.descr[0].name = def

GoodTable(t, def) == t \in TableTypes /\ Filled(t, def) /\ Distinct(t.descr)

\* A name and its section are put into an empty slot: slot 0 for DEFAULT, or the
\* next one.
AddedAt(t, u, q, new) ==
    /\ q \in Slots \ {MaxImages} /\ ~Named(t.descr, q)
    /\ u.descr = [t.descr EXCEPT ![q] = new]
    /\ \/ q = 0 /\ t.image_base = 1 /\ u.image_base = 0 /\ u.image = t.image
       \/ q = t.image /\ u.image_base = t.image_base /\ u.image = t.image + 1
Added(t, u, new) == \E q \in Slots : AddedAt(t, u, q, new)

\* A name is none that is no name.
LEMMA NameIsOne ==
    ASSUME NEW n \in Names
    PROVE  n # NoName /\ n.letter # NoName.letter
  <1>1. NoName.letter = ""
    BY DEF NoName
  <1>2. n.letter \in Letters
    BY DEF Names
  <1>3. "" \notin Letters
    BY TableAssumption
  <1> QED
    BY <1>1, <1>2, <1>3

\* What get_image compares a new name with is every name in the table.
LEMMA ComparedAll ==
    ASSUME NEW t, GoodTable(t, default), NEW s \in Slots, Named(t.descr, s)
    PROVE  s \in Compared(t)
  <1>1. s \in 0 .. MaxImages /\ t.image \in 0 .. MaxImages /\ t.image_base \in {0, 1}
    BY DEF GoodTable, TableTypes, Slots
  <1>3. ~(s >= t.image)
    BY DEF GoodTable, Filled
  <1>4. MaxImages \in Nat
    BY TableAssumption
  <1>2. t.image_base = 1 => s # 0
    BY DEF GoodTable, Filled
  <1> QED
    BY <1>1, <1>2, <1>3, <1>4 DEF Compared

\* A name that fits goes to an empty slot, and the table stays good.
LEMMA PutAdds ==
    ASSUME default \in Names \cup {NoName}, NEW t, GoodTable(t, default),
           NEW n \in Names, NEW single \in BOOLEAN, NEW section \in Nat, Fits(t, n, single)
    PROVE  /\ GoodTable(Put(t, n, single, section), default)
           /\ Added(t, Put(t, n, single, section),
                    [name |-> n, single |-> single, section |-> section])
  <1> DEFINE u == Put(t, n, single, section)
             new == [name |-> n, single |-> single, section |-> section]
             q == IF TakesDefault(t, n) THEN 0 ELSE t.image
  <1>1. /\ t.descr \in [Slots -> SlotTypes] /\ t.image \in 0 .. MaxImages
        /\ t.image_base \in {0, 1} /\ MaxImages \in Nat \ {0}
    BY TableAssumption DEF GoodTable, TableTypes
  <1>2. n # NoName /\ new \in SlotTypes /\ new.name = n /\ new.single = single
    BY NameIsOne DEF SlotTypes
  <1>3. /\ u.descr = [t.descr EXCEPT ![q] = new]
        /\ u.image = IF TakesDefault(t, n) THEN t.image ELSE t.image + 1
        /\ u.image_base = IF TakesDefault(t, n) THEN 0 ELSE t.image_base
        /\ u = [descr |-> u.descr, image |-> u.image, image_base |-> u.image_base]
    BY DEF Put
  <1>4. TakesDefault(t, n) => t.image_base = 1 /\ default = n /\ default # NoName
    BY <1>2 DEF TakesDefault
  <1>5. ~TakesDefault(t, n) => t.image < MaxImages
    BY <1>1 DEF Fits, Full
  <1>6. q \in Slots /\ q # MaxImages
    BY <1>1, <1>5 DEF Slots
  <1>7. ~Named(t.descr, q)
    <2>1. CASE TakesDefault(t, n)
      BY <1>4, <2>1 DEF GoodTable, Filled
    <2>2. CASE ~TakesDefault(t, n)
      BY <1>1, <1>6, <2>2 DEF GoodTable, Filled
    <2> QED
      BY <2>1, <2>2
  <1> HIDE DEF u, new
  <1>8. AddedAt(t, u, q, new)
    BY <1>3, <1>4, <1>6, <1>7 DEF AddedAt
  <1>9. u \in TableTypes
    <2>1. u.descr \in [Slots -> SlotTypes]
      BY <1>1, <1>2, <1>3, <1>6
    <2>2. u.image \in 0 .. MaxImages /\ u.image_base \in {0, 1}
      BY <1>1, <1>3, <1>5
    <2> QED
      BY <1>3, <2>1, <2>2 DEF TableTypes
  <1> HIDE DEF q
  <1>10. \A s \in Slots : u.descr[s] = IF s = q THEN new ELSE t.descr[s]
    BY <1>1, <1>3
  <1>11. Filled(u, default)
    <2>1. 0 \in Slots /\ \A s \in Slots : s \in Int
      BY <1>1 DEF Slots
    <2>2. CASE TakesDefault(t, n)
      <3>1. q = 0 /\ u.image = t.image /\ u.image_base = 0 /\ u.descr[0] = new
        <4>1. q = 0
          BY <2>2 DEF q
        <4> QED
          BY <1>3, <1>10, <2>1, <2>2, <4>1
      <3>2. t.image >= 1 /\ default = n
        BY <1>4, <2>2 DEF GoodTable, Filled
      <3>3. \A s \in Slots : s >= u.image => ~Named(u.descr, s)
        <4> TAKE s \in Slots
        <4> HAVE s >= u.image
        <4>1. s # 0 /\ s >= t.image
          BY <1>1, <2>1, <3>1, <3>2
        <4>2. ~Named(t.descr, s)
          BY <4>1 DEF GoodTable, Filled
        <4> QED
          BY <1>10, <3>1, <4>1, <4>2 DEF Named
      <3> QED
        BY <1>2, <3>1, <3>2, <3>3 DEF Filled
    <2>3. CASE ~TakesDefault(t, n)
      <3>1. q = t.image /\ u.image = t.image + 1 /\ u.image_base = t.image_base
        BY <1>3, <2>3 DEF q
      <3>2. \A s \in Slots : s >= u.image => ~Named(u.descr, s)
        <4> TAKE s \in Slots
        <4> HAVE s >= u.image
        <4>1. s # q /\ s >= t.image
          BY <1>1, <2>1, <3>1
        <4>2. ~Named(t.descr, s)
          BY <4>1 DEF GoodTable, Filled
        <4> QED
          BY <1>10, <4>1, <4>2 DEF Named
      <3>3. default # NoName => u.image >= 1 /\ u.descr[0] = t.descr[0]
        <4>1. default # NoName => t.image >= 1
          BY DEF GoodTable, Filled
        <4>2. t.image \in Int
          BY <1>1
        <4>3. default # NoName => 0 # q
          BY <3>1, <4>1, <4>2
        <4>4. default # NoName => u.image >= 1
          BY <3>1, <4>1, <4>2
        <4> QED
          BY <1>10, <2>1, <4>3, <4>4
      <3> QED
        BY <3>1, <3>2, <3>3 DEF GoodTable, Filled, Named
    <2> QED
      BY <2>2, <2>3
  <1>12. Distinct(u.descr)
    <2>1. ASSUME NEW s \in Slots, s # q, Named(t.descr, s)
          PROVE  /\ n # t.descr[s].name
                 /\ ~(single /\ Short(n) /\ n.letter = t.descr[s].name.letter)
                 /\ ~(t.descr[s].single /\ Short(t.descr[s].name)
                        /\ t.descr[s].name.letter = n.letter)
      <3>1. s \in Compared(t)
        BY <2>1, ComparedAll
      <3> QED
        BY <3>1 DEF Fits, Taken, Clash
    <2>2. ASSUME NEW s \in Slots, NEW r \in Slots, s # r, Named(u.descr, s), Named(u.descr, r)
          PROVE  /\ u.descr[s].name # u.descr[r].name
                 /\ ~(u.descr[s].single /\ Short(u.descr[s].name)
                        /\ u.descr[s].name.letter = u.descr[r].name.letter)
      <3>1. CASE s = q
        <4>1. u.descr[s] = new /\ u.descr[r] = t.descr[r] /\ Named(t.descr, r) /\ r # q
          BY <1>10, <2>2, <3>1 DEF Named
        <4> QED
          BY <1>2, <2>1, <4>1
      <3>2. CASE r = q
        <4>1. u.descr[r] = new /\ u.descr[s] = t.descr[s] /\ Named(t.descr, s) /\ s # q
          BY <1>10, <2>2, <3>2 DEF Named
        <4> QED
          BY <1>2, <2>1, <4>1
      <3>3. CASE s # q /\ r # q
        <4>1. /\ u.descr[s] = t.descr[s] /\ u.descr[r] = t.descr[r]
              /\ Named(t.descr, s) /\ Named(t.descr, r)
          BY <1>10, <2>2, <3>3 DEF Named
        <4> QED
          BY <2>2, <4>1 DEF GoodTable, Distinct
      <3> QED
        BY <3>1, <3>2, <3>3
    <2> QED
      BY <2>2 DEF Distinct
  <1> QED
    BY <1>6, <1>8, <1>9, <1>11, <1>12 DEF GoodTable, Added, u, new

\* The names of section i in a list of sections, and a slot that has a name for it.
NamesIn(c, i) == {c[i].label, c[i].alias} \ {NoName}
Has(d, n, i) == \E s \in Slots \ {MaxImages} : d[s].name = n /\ d[s].section = i

\* Each name is one of the section it is for, among the first m - 1.
OwnedIn(d, c, m) ==
    \A s \in Slots : Named(d, s) =>
        d[s].section \in 1 .. (m - 1) /\ d[s].name \in NamesIn(c, d[s].section)

\* All names of the first m - 1 sections are there.
CoveredIn(d, c, m) == \A i \in 1 .. (m - 1) : \A n \in NamesIn(c, i) : Has(d, n, i)

TogetherIn(t) == \A s \in t.image_base .. (t.image - 1) : Named(t.descr, s)

\* What putting names of section k, of those in c, into table t to get u comes to.
Grown(t, u, c, k) ==
    /\ \A s \in Slots : Named(u.descr, s) =>
        \/ u.descr[s].section = k /\ u.descr[s].name \in NamesIn(c, k)
        \/ Named(t.descr, s) /\ u.descr[s] = t.descr[s]
    /\ \A s \in Slots : Named(t.descr, s) => u.descr[s] = t.descr[s]
    /\ TogetherIn(t) => TogetherIn(u)
    /\ t.image_base = 0 =>
        /\ u.image_base = 0 /\ u.image >= t.image
        /\ t.image = 0 /\ u.image > 0 => u.descr[0].section = k
        /\ t.image > 0 => u.descr[0] = t.descr[0]

\* One name more is such a step.
LEMMA AddedGrows ==
    ASSUME NEW t, NEW u, GoodTable(t, default), GoodTable(u, default), NEW new \in SlotTypes,
           Added(t, u, new), NEW c, NEW k, new.section = k, new.name \in NamesIn(c, k)
    PROVE  Grown(t, u, c, k) /\ Has(u.descr, new.name, k)
  <1>1. PICK q \in Slots : AddedAt(t, u, q, new)
    BY DEF Added
  <1>2. /\ t.descr \in [Slots -> SlotTypes] /\ t.image \in 0 .. MaxImages
        /\ t.image_base \in {0, 1} /\ MaxImages \in Nat \ {0}
        /\ u.image \in 0 .. MaxImages
    BY TableAssumption DEF GoodTable, TableTypes
  <1>3. /\ q \in Slots \ {MaxImages} /\ ~Named(t.descr, q)
        /\ \/ q = 0 /\ t.image_base = 1 /\ u.image_base = 0 /\ u.image = t.image
           \/ q = t.image /\ u.image_base = t.image_base /\ u.image = t.image + 1
    BY <1>1 DEF AddedAt
  <1>4. \A s \in Slots : u.descr[s] = IF s = q THEN new ELSE t.descr[s]
    BY <1>1, <1>2 DEF AddedAt
  <1>5. 0 \in Slots /\ q \in Slots /\ q \in Int
    BY <1>2, <1>3 DEF Slots
  <1>6. new.name # NoName
    BY DEF NamesIn
  <1>7. Has(u.descr, new.name, k)
    BY <1>3, <1>4, <1>5 DEF Has
  <1>8. \A s \in Slots : Named(u.descr, s) =>
            \/ u.descr[s].section = k /\ u.descr[s].name \in NamesIn(c, k)
            \/ Named(t.descr, s) /\ u.descr[s] = t.descr[s]
    BY <1>4 DEF Named
  <1>9. \A s \in Slots : Named(t.descr, s) => u.descr[s] = t.descr[s]
    BY <1>3, <1>4
  <1>10. ASSUME TogetherIn(t)
         PROVE  TogetherIn(u)
    <2> SUFFICES ASSUME NEW s \in u.image_base .. (u.image - 1)
                 PROVE  Named(u.descr, s)
      BY DEF TogetherIn
    <2>1. s \in Slots
      BY <1>2, <1>3 DEF Slots
    <2>2. CASE s = q
      BY <1>4, <1>6, <2>1, <2>2 DEF Named
    <2>3. CASE s # q
      <3>1. s \in t.image_base .. (t.image - 1)
        BY <1>2, <1>3, <2>3
      <3>2. Named(t.descr, s)
        BY <1>10, <3>1 DEF TogetherIn
      <3> QED
        BY <1>4, <2>1, <2>3, <3>2 DEF Named
    <2> QED
      BY <2>2, <2>3
  <1>11. ASSUME t.image_base = 0
         PROVE  /\ u.image_base = 0 /\ u.image >= t.image
                /\ t.image = 0 /\ u.image > 0 => u.descr[0].section = k
                /\ t.image > 0 => u.descr[0] = t.descr[0]
    <2>1. q = t.image /\ u.image_base = 0 /\ u.image = t.image + 1
      BY <1>3, <1>11
    <2>2. u.image >= t.image
      BY <1>2, <2>1
    <2>3. t.image > 0 => 0 # q
      BY <1>2, <2>1
    <2>4. t.image = 0 => 0 = q
      BY <2>1
    <2> QED
      BY <1>4, <1>5, <2>1, <2>2, <2>3, <2>4
  <1> QED
    BY <1>7, <1>8, <1>9, <1>10, <1>11 DEF Grown

\* Names that are there stay.
LEMMA GrownHas ==
    ASSUME NEW t, NEW u, NEW c, NEW k, Grown(t, u, c, k),
           NEW n, n # NoName, NEW i, Has(t.descr, n, i)
    PROVE  Has(u.descr, n, i)
  <1>1. PICK s \in Slots \ {MaxImages} : t.descr[s].name = n /\ t.descr[s].section = i
    BY DEF Has
  <1>2. u.descr[s] = t.descr[s]
    BY <1>1 DEF Grown, Named
  <1> QED
    BY <1>1, <1>2 DEF Has

\* The next slot is a number.
LEMMA ImageIsNumber ==
    ASSUME NEW t \in TableTypes
    PROVE  t.image \in Nat
  <1>1. MaxImages \in Nat
    BY TableAssumption
  <1>2. t.image \in 0 .. MaxImages
    BY DEF TableTypes
  <1> QED
    BY <1>1, <1>2

\* Two such steps are one.
LEMMA GrownTwice ==
    ASSUME NEW t, NEW u, NEW v, NEW c, NEW k, t \in TableTypes, u \in TableTypes, v \in TableTypes,
           Grown(t, u, c, k), Grown(u, v, c, k)
    PROVE  Grown(t, v, c, k)
  <1>1. t.image \in Nat /\ u.image \in Nat /\ v.image \in Nat
    BY ImageIsNumber
  <1>2. \A s \in Slots : Named(v.descr, s) =>
            \/ v.descr[s].section = k /\ v.descr[s].name \in NamesIn(c, k)
            \/ Named(t.descr, s) /\ v.descr[s] = t.descr[s]
    <2> TAKE s \in Slots
    <2> HAVE Named(v.descr, s)
    <2>1. CASE v.descr[s].section = k /\ v.descr[s].name \in NamesIn(c, k)
      BY <2>1
    <2>2. CASE Named(u.descr, s) /\ v.descr[s] = u.descr[s]
      <3>1. \/ u.descr[s].section = k /\ u.descr[s].name \in NamesIn(c, k)
            \/ Named(t.descr, s) /\ u.descr[s] = t.descr[s]
        BY <2>2 DEF Grown
      <3> QED
        BY <2>2, <3>1
    <2> QED
      BY <2>1, <2>2 DEF Grown
  <1>3. \A s \in Slots : Named(t.descr, s) => v.descr[s] = t.descr[s]
    BY DEF Grown, Named
  <1>4. TogetherIn(t) => TogetherIn(v)
    BY DEF Grown
  <1>5. ASSUME t.image_base = 0
        PROVE  /\ v.image_base = 0 /\ v.image >= t.image
               /\ t.image = 0 /\ v.image > 0 => v.descr[0].section = k
               /\ t.image > 0 => v.descr[0] = t.descr[0]
    <2>1. /\ u.image_base = 0 /\ u.image >= t.image
          /\ t.image = 0 /\ u.image > 0 => u.descr[0].section = k
          /\ t.image > 0 => u.descr[0] = t.descr[0]
      BY <1>5 DEF Grown
    <2>2. /\ v.image_base = 0 /\ v.image >= u.image
          /\ u.image = 0 /\ v.image > 0 => v.descr[0].section = k
          /\ u.image > 0 => v.descr[0] = u.descr[0]
      BY <2>1 DEF Grown
    <2> QED
      BY <1>1, <2>1, <2>2
  <1> QED
    BY <1>2, <1>3, <1>4, <1>5 DEF Grown

\* A step with no name.
LEMMA GrownNot ==
    ASSUME NEW t, NEW c, NEW k, t \in TableTypes
    PROVE  Grown(t, t, c, k)
  <1>1. t.image \in Nat
    BY ImageIsNumber
  <1> QED
    BY <1>1 DEF Grown

-----------------------------------------------------------------------------
(* A section.                                                              *)

\* get_image for the alias and for the label.
Aliased(t, sec, k) == IF sec.alias = NoName THEN t ELSE Put(t, sec.alias, sec.single, k)
Labelled(t, sec, k) == Put(Aliased(t, sec, k), sec.label, sec.single, k)
BothFit(t, sec, k) ==
    /\ sec.alias # NoName => Fits(t, sec.alias, sec.single)
    /\ Fits(Aliased(t, sec, k), sec.label, sec.single)

\* The names of a section that fits are added to the table.
LEMMA SectionGrows ==
    ASSUME default \in Names \cup {NoName}, NEW t, GoodTable(t, default), NEW sec \in Sections,
           NEW k \in Nat, NEW c, c[k] = sec, BothFit(t, sec, k)
    PROVE  /\ GoodTable(Labelled(t, sec, k), default)
           /\ Grown(t, Labelled(t, sec, k), c, k)
           /\ \A n \in NamesIn(c, k) : Has(Labelled(t, sec, k).descr, n, k)
  <1> DEFINE a == Aliased(t, sec, k)
             b == Labelled(t, sec, k)
             first == [name |-> sec.alias, single |-> sec.single, section |-> k]
             second == [name |-> sec.label, single |-> sec.single, section |-> k]
  <1>1. sec.label \in Names /\ sec.alias \in Names \cup {NoName} /\ sec.single \in BOOLEAN
    BY DEF Sections
  <1>2. NamesIn(c, k) = {sec.label, sec.alias} \ {NoName} /\ sec.label # NoName
    BY <1>1, NameIsOne DEF NamesIn
  <1>3. GoodTable(a, default) /\ Grown(t, a, c, k)
        /\ (sec.alias # NoName => Has(a.descr, sec.alias, k))
    <2>1. CASE sec.alias = NoName
      <3>1. a = t
        BY <2>1 DEF Aliased
      <3>2. t \in TableTypes
        BY DEF GoodTable
      <3> QED
        BY <2>1, <3>1, <3>2, GrownNot
    <2>2. CASE sec.alias # NoName
      <3>1. a = Put(t, sec.alias, sec.single, k) /\ Fits(t, sec.alias, sec.single)
            /\ sec.alias \in Names
        BY <1>1, <2>2 DEF Aliased, BothFit
      <3>2. GoodTable(a, default) /\ Added(t, a, first)
        BY <1>1, <3>1, PutAdds
      <3>3. first \in SlotTypes /\ first.section = k /\ first.name = sec.alias
        BY <1>1, <3>1 DEF SlotTypes
      <3>4. first.name \in NamesIn(c, k)
        BY <1>2, <2>2, <3>3
      <3> HIDE DEF a, first
      <3>5. Grown(t, a, c, k) /\ Has(a.descr, first.name, k)
        BY <3>2, <3>3, <3>4, AddedGrows
      <3> QED
        BY <3>2, <3>3, <3>5
    <2> QED
      BY <2>1, <2>2
  <1>4. b = Put(a, sec.label, sec.single, k) /\ Fits(a, sec.label, sec.single)
    BY DEF Labelled, BothFit
  <1> HIDE DEF a
  <1>5. GoodTable(b, default) /\ Added(a, b, second)
    BY <1>1, <1>3, <1>4, PutAdds
  <1>6. second \in SlotTypes /\ second.section = k /\ second.name = sec.label
    BY <1>1 DEF SlotTypes
  <1>7. second.name \in NamesIn(c, k)
    BY <1>2, <1>6
  <1> HIDE DEF b, second
  <1>8. Grown(a, b, c, k) /\ Has(b.descr, sec.label, k)
    BY <1>3, <1>5, <1>6, <1>7, AddedGrows
  <1>9. Grown(t, b, c, k)
    BY <1>3, <1>5, <1>8, GrownTwice DEF GoodTable
  <1>10. \A n \in NamesIn(c, k) : Has(b.descr, n, k)
    <2>1. sec.alias # NoName => Has(b.descr, sec.alias, k)
      BY <1>3, <1>8, GrownHas
    <2> QED
      BY <1>2, <1>8, <2>1
  <1> QED
    BY <1>5, <1>9, <1>10 DEF b

-----------------------------------------------------------------------------
(* The invariant of the table.                                             *)

Now == [descr |-> descr, image |-> image, image_base |-> image_base]
Making == pc \in {"sections", "mapped"}

\* What holds at any time; the counters are reset by DEFAULT only.
TableTyped ==
    /\ config \in Seq(Sections) /\ default \in Names \cup {NoName}
    /\ Now \in TableTypes
    /\ default = NoName => image_base = 0
    /\ tables = 0 => image = 0 /\ image_base = 0
    /\ next \in Nat \ {0} /\ next <= Len(config) + 1 /\ tables \in Nat

\* The names of the sections that were read, and no others, are in the table.
Held ==
    Making =>
        /\ tables >= 1
        /\ GoodTable(Now, default)
        /\ OwnedIn(descr, config, next)
        /\ CoveredIn(descr, config, next)

\* They lie together, those of the first section first without DEFAULT.
InOrder ==
    Making /\ (default # NoName \/ tables = 1) =>
        /\ TogetherIn(Now)
        /\ default = NoName => (image = 0 => next = 1) /\ (image > 0 => descr[0].section = 1)

\* A table that is done has all sections, and DEFAULT's.
Finished == pc = "mapped" => next > Len(config) /\ image_base = 0 /\ image > 0

TableInv == TableTyped /\ Held /\ InOrder /\ Finished

\* The parts of the table as it is now.
LEMMA NowIs ==
    Now.descr = descr /\ Now.image = image /\ Now.image_base = image_base
  BY DEF Now

\* An empty table is good.
LEMMA EmptyIsGood ==
    /\ NewDescr \in [Slots -> SlotTypes]
    /\ \A s \in Slots : ~Named(NewDescr, s)
  <1>1. EmptySlot \in SlotTypes /\ EmptySlot.name = NoName
    BY DEF EmptySlot, SlotTypes
  <1> QED
    BY <1>1 DEF NewDescr, Named

\* Before the first table.
LEMMA StartTable ==
    ASSUME TableInit, pc = "start"
    PROVE  TableInv
  <1>1. MaxImages \in Nat
    BY TableAssumption
  <1>2. Now \in TableTypes
    BY <1>1, EmptyIsGood DEF TableInit, Now, TableTypes
  <1>3. <<>> \in Seq(Sections) /\ Len(<<>>) = 0
    OBVIOUS
  <1>4. TableTyped
    BY <1>2, <1>3 DEF TableInit, TableTyped
  <1>5. ~Making /\ pc # "mapped"
    BY DEF Making
  <1> QED
    BY <1>4, <1>5 DEF TableInv, Held, InOrder, Finished

\* The process ends.
LEMMA GoneTable ==
    ASSUME TableInv, descr' = NewDescr, image' = 0, image_base' = 0, next' = 1, tables' = 0,
           UNCHANGED file, ~Making', pc' # "mapped"
    PROVE  TableInv'
  <1>1. MaxImages \in Nat
    BY TableAssumption
  <1>2. Now' \in TableTypes
    BY <1>1, EmptyIsGood DEF Now, TableTypes
  <1>3. config' = config /\ default' = default /\ config \in Seq(Sections)
        /\ default \in Names \cup {NoName}
    BY DEF file, TableInv, TableTyped
  <1>4. Len(config) \in Nat
    BY <1>3
  <1>5. TableTyped'
    BY <1>2, <1>3, <1>4 DEF TableTyped
  <1> QED
    BY <1>5 DEF TableInv, Held, InOrder, Finished

\* The table is left alone.
LEMMA SameTable ==
    ASSUME TableInv, UNCHANGED tableVars, pc' = pc \/ (~Making' /\ pc' # "mapped")
    PROVE  TableInv'
  <1>1. /\ config' = config /\ default' = default /\ descr' = descr /\ image' = image
        /\ image_base' = image_base /\ next' = next /\ tables' = tables
    BY DEF tableVars, file, table
  <1>2. Now' = Now
    BY <1>1 DEF Now
  <1>3. TableTyped'
    BY <1>1, <1>2 DEF TableInv, TableTyped
  <1>4. CASE ~Making' /\ pc' # "mapped"
    BY <1>3, <1>4 DEF TableInv, Held, InOrder, Finished
  <1>5. CASE pc' = pc
    <2>1. Making' = Making
      BY <1>5 DEF Making
    <2>2. Held' /\ InOrder' /\ Finished'
      BY <1>1, <1>2, <1>5, <2>1 DEF TableInv, Held, InOrder, Finished
    <2> QED
      BY <1>3, <2>2 DEF TableInv
  <1> QED
    BY <1>4, <1>5

\* The slots are emptied; the counters may stay from the table before.
LEMMA OpenKeepsTable ==
    ASSUME TableInv, OpenTable
    PROVE  TableInv'
  <1>1. /\ config' = config /\ default' = default /\ descr' = NewDescr /\ next' = 1
        /\ tables' = tables + 1 /\ pc' = "sections"
        /\ \/ default # NoName /\ image' = 1 /\ image_base' = 1
           \/ default = NoName /\ image' = image /\ image_base' = image_base
    BY DEF OpenTable, file, FreeSlot
  <1>2. /\ config \in Seq(Sections) /\ default \in Names \cup {NoName}
        /\ tables \in Nat /\ (default = NoName => image_base = 0)
        /\ (tables = 0 => image = 0)
    BY DEF TableInv, TableTyped
  <1>3. image \in 0 .. MaxImages /\ image_base \in {0, 1}
    BY NowIs DEF TableInv, TableTyped, TableTypes
  <1>4. MaxImages \in Nat \ {0}
    BY TableAssumption
  <1>5. image' \in 0 .. MaxImages /\ image_base' \in {0, 1}
    BY <1>1, <1>3, <1>4
  <1>6. Now' \in TableTypes /\ Now'.descr = NewDescr /\ Now'.image = image'
        /\ Now'.image_base = image_base'
    BY <1>1, <1>5, EmptyIsGood DEF Now, TableTypes
  <1>7. Len(config) \in Nat
    BY <1>2
  <1>8. TableTyped'
    BY <1>1, <1>2, <1>6, <1>7 DEF TableTyped
  <1>9. 0 \in Slots
    BY <1>4 DEF Slots
  <1>10. GoodTable(Now', default')
    <2>1. Filled(Now', default')
      BY <1>1, <1>2, <1>6, <1>9, EmptyIsGood DEF Filled
    <2>2. Distinct(Now'.descr)
      BY <1>6, EmptyIsGood DEF Distinct
    <2> QED
      BY <1>6, <2>1, <2>2 DEF GoodTable
  <1>11. Held'
    <2>1. OwnedIn(descr', config', next')
      BY <1>1, EmptyIsGood DEF OwnedIn
    <2>2. CoveredIn(descr', config', next')
      BY <1>1 DEF CoveredIn
    <2> QED
      BY <1>1, <1>2, <1>10, <2>1, <2>2 DEF Held
  <1>12. InOrder'
    <2>1. CASE default # NoName
      BY <1>1, <1>6, <2>1 DEF InOrder, TogetherIn
    <2>2. CASE default = NoName /\ tables = 0
      <3>1. image' = 0 /\ image_base' = 0
        BY <1>1, <1>2, <2>2
      <3>2. TogetherIn(Now')
        BY <1>6, <3>1 DEF TogetherIn
      <3> QED
        BY <1>1, <3>1, <3>2 DEF InOrder
    <2>3. CASE default = NoName /\ tables # 0
      <3>1. tables' # 1 /\ default' = NoName
        BY <1>1, <1>2, <2>3
      <3> QED
        BY <3>1 DEF InOrder
    <2> QED
      BY <2>1, <2>2, <2>3
  <1>13. Finished'
    BY <1>1 DEF Finished
  <1> QED
    BY <1>8, <1>11, <1>12, <1>13 DEF TableInv

\* A section is the one that was read before, or a new one at the end of the list.
LEMMA SectionRead ==
    ASSUME TableInv, NEW sec \in Sections, SectionAt(sec)
    PROVE  /\ config' \in Seq(Sections) /\ Len(config') >= next
           /\ config'[next] = sec
           /\ \A i \in 1 .. (next - 1) : config'[i] = config[i]
           /\ Len(config') >= Len(config)
  <1>1. config \in Seq(Sections) /\ next \in Nat \ {0} /\ next <= Len(config) + 1
        /\ Len(config) \in Nat
    BY DEF TableInv, TableTyped
  <1>2. CASE next <= Len(config)
    BY <1>1, <1>2 DEF SectionAt
  <1>3. CASE ~(next <= Len(config))
    <2>1. next = Len(config) + 1
      BY <1>1, <1>3
    <2>2. config' = Append(config, sec)
      BY <1>3 DEF SectionAt
    <2> QED
      BY <1>1, <2>1, <2>2
  <1> QED
    BY <1>2, <1>3

\* A section that fits adds its names, and any other ends the table.
LEMMA AddKeepsTable ==
    ASSUME TableInv, NEW sec \in Sections, AddImage(sec)
    PROVE  TableInv'
  <1> DEFINE k == next
             u == Labelled(Now, sec, next)
  <1>1. pc = "sections" /\ default' = default /\ tables' = tables /\ SectionAt(sec)
    BY DEF AddImage
  <1>2. /\ config' \in Seq(Sections) /\ Len(config') >= next /\ config'[next] = sec
        /\ \A i \in 1 .. (next - 1) : config'[i] = config[i]
        /\ Len(config') >= Len(config)
    BY <1>1, SectionRead
  <1>3. /\ config \in Seq(Sections) /\ default \in Names \cup {NoName}
        /\ next \in Nat \ {0} /\ next <= Len(config) + 1 /\ tables \in Nat
        /\ Now \in TableTypes
        /\ (default = NoName => image_base = 0)
        /\ (tables = 0 => image = 0 /\ image_base = 0)
    BY DEF TableInv, TableTyped
  <1>4. Making
    BY <1>1 DEF Making
  <1>5. /\ tables >= 1 /\ GoodTable(Now, default) /\ OwnedIn(descr, config, next)
        /\ CoveredIn(descr, config, next)
    BY <1>4 DEF TableInv, Held
  <1>6. CASE pc' = "refused" /\ UNCHANGED <<table, next>>
    <2>1. ~Making' /\ pc' # "mapped"
      BY <1>6 DEF Making
    <2>2. Now' = Now /\ next' = next /\ image' = image /\ image_base' = image_base
      BY <1>6 DEF table, Now
    <2>3. Len(config) \in Nat /\ Len(config') \in Nat
      BY <1>2, <1>3
    <2>4. TableTyped'
      BY <1>1, <1>2, <1>3, <2>2, <2>3 DEF TableTyped
    <2> QED
      BY <2>1, <2>4 DEF TableInv, Held, InOrder, Finished
  <1>7. CASE ~(pc' = "refused" /\ UNCHANGED <<table, next>>)
    <2>1. /\ BothFit(Now, sec, next) /\ descr' = u.descr /\ image' = u.image
          /\ image_base' = u.image_base /\ next' = next + 1 /\ pc' = pc
      <3>1. Aliased(Now, sec, next) =
                IF sec.alias = NoName THEN Now ELSE Put(Now, sec.alias, sec.single, next)
        BY DEF Aliased
      <3>2. u = Put(Aliased(Now, sec, next), sec.label, sec.single, next)
        BY DEF Labelled
      <3> QED
        BY <1>7, <3>1, <3>2 DEF AddImage, BothFit, Now
    <2>2. /\ GoodTable(u, default) /\ Grown(Now, u, config', next)
          /\ \A n \in NamesIn(config', next) : Has(u.descr, n, next)
      BY <1>2, <1>3, <1>5, <2>1, SectionGrows
    <2>3. Now' = u
      <3>1. u = [descr |-> u.descr, image |-> u.image, image_base |-> u.image_base]
        BY <2>2 DEF GoodTable, TableTypes
      <3> QED
        BY <2>1, <3>1 DEF Now
    <2> HIDE DEF u
    <2>4. Making' = TRUE /\ pc' # "mapped"
      BY <1>1, <2>1 DEF Making
    <2>5. Len(config) \in Nat /\ Len(config') \in Nat
      BY <1>2, <1>3
    <2>6. \A i \in 1 .. (next - 1) : NamesIn(config', i) = NamesIn(config, i)
      BY <1>2 DEF NamesIn
    <2>7. OwnedIn(u.descr, config', next + 1)
      <3> SUFFICES ASSUME NEW s \in Slots, Named(u.descr, s)
                   PROVE  /\ u.descr[s].section \in 1 .. next
                          /\ u.descr[s].name \in NamesIn(config', u.descr[s].section)
        BY <1>3 DEF OwnedIn
      <3>1. CASE u.descr[s].section = next /\ u.descr[s].name \in NamesIn(config', next)
        BY <1>3, <3>1
      <3>2. CASE Named(Now.descr, s) /\ u.descr[s] = Now.descr[s]
        <4>1. /\ descr[s].section \in 1 .. (next - 1)
              /\ descr[s].name \in NamesIn(config, descr[s].section)
          BY <1>5, <3>2, NowIs DEF OwnedIn
        <4>2. descr[s].section \in 1 .. next
          BY <1>3, <4>1
        <4> QED
          BY <2>6, <3>2, <4>1, <4>2, NowIs
      <3> QED
        BY <2>2, <3>1, <3>2 DEF Grown
    <2>8. CoveredIn(u.descr, config', next + 1)
      <3> SUFFICES ASSUME NEW i \in 1 .. next, NEW n \in NamesIn(config', i)
                   PROVE  Has(u.descr, n, i)
        BY <1>3 DEF CoveredIn
      <3>1. CASE i = next
        BY <2>2, <3>1
      <3>2. CASE i # next
        <4>1. i \in 1 .. (next - 1)
          BY <1>3, <3>2
        <4>2. Has(Now.descr, n, i)
          BY <1>5, <2>6, <4>1, NowIs DEF CoveredIn
        <4>3. n # NoName
          BY DEF NamesIn
        <4> QED
          BY <2>2, <4>2, <4>3, GrownHas
      <3> QED
        BY <3>1, <3>2
    <2>9. u.image \in Nat /\ image \in Nat /\ u \in TableTypes
      <3>1. u \in TableTypes
        BY <2>2 DEF GoodTable
      <3> QED
        BY <1>3, <3>1, ImageIsNumber, NowIs
    <2>10. default = NoName => u.image_base = 0
      BY <2>2 DEF GoodTable, Filled
    <2>11. TableTyped'
      <3>1. next + 1 \in Nat \ {0} /\ next + 1 <= Len(config') + 1
        BY <1>2, <1>3, <2>5
      <3>2. tables # 0
        BY <1>5
      <3> QED
        BY <1>1, <1>2, <1>3, <2>1, <2>3, <2>9, <2>10, <3>1, <3>2 DEF TableTyped
    <2>12. Held'
      BY <1>1, <1>5, <2>1, <2>2, <2>3, <2>7, <2>8 DEF Held
    <2>13. InOrder'
      <3> SUFFICES ASSUME default # NoName \/ tables = 1
                   PROVE  /\ TogetherIn(u)
                          /\ default = NoName => /\ u.image = 0 => next + 1 = 1
                                                 /\ u.image > 0 => u.descr[0].section = 1
        BY <1>1, <2>1, <2>3 DEF InOrder
      <3>1. /\ TogetherIn(Now)
            /\ default = NoName => (image = 0 => next = 1) /\ (image > 0 => descr[0].section = 1)
        BY <1>4 DEF TableInv, InOrder
      <3>2. TogetherIn(u)
        BY <2>2, <3>1 DEF Grown
      <3>3. ASSUME default = NoName
            PROVE  (u.image = 0 => next + 1 = 1) /\ (u.image > 0 => u.descr[0].section = 1)
        <4>1. /\ u.image >= image
              /\ image = 0 /\ u.image > 0 => u.descr[0].section = next
              /\ image > 0 => u.descr[0] = descr[0]
          BY <1>3, <2>2, <3>3, NowIs DEF Grown
        <4>2. u.image > 0
          <5>1. PICK s \in Slots \ {MaxImages} : u.descr[s].name = sec.label
            <6>1. sec.label \in NamesIn(config', next)
              <7>1. sec.label \in Names
                BY DEF Sections
              <7> QED
                BY <1>2, <7>1, NameIsOne DEF NamesIn
            <6> QED
              BY <2>2, <6>1 DEF Has
          <5>2. sec.label # NoName
            BY NameIsOne DEF Sections
          <5>3. Named(u.descr, s)
            BY <5>1, <5>2 DEF Named
          <5>4. ~(s >= u.image)
            BY <2>2, <5>3 DEF GoodTable, Filled
          <5>5. s \in Nat
            BY DEF Slots
          <5> QED
            BY <2>9, <5>4, <5>5
        <4>3. CASE image = 0
          BY <3>1, <3>3, <4>1, <4>2, <4>3
        <4>4. CASE image > 0
          BY <3>1, <3>3, <4>1, <4>2, <4>4
        <4> QED
          BY <2>9, <4>3, <4>4
      <3> QED
        BY <3>2, <3>3
    <2> QED
      BY <2>4, <2>11, <2>12, <2>13 DEF TableInv, Finished
  <1> QED
    BY <1>6, <1>7

\* The end of the file: the table has all sections.
LEMMA FinishKeepsTable ==
    ASSUME TableInv, Finish
    PROVE  TableInv'
  <1>1. /\ pc = "sections" /\ next > Len(config) /\ config' = config /\ default' = default
        /\ descr' = descr /\ image' = image /\ image_base' = image_base /\ next' = next
        /\ tables' = tables /\ pc' \in {"refused", "mapped"}
        /\ pc' = "mapped" => NumberOfImages # 0
    BY DEF Finish, table
  <1>2. Now' = Now /\ Making
    BY <1>1 DEF Now, Making
  <1>3. TableTyped'
    BY <1>1, <1>2 DEF TableInv, TableTyped
  <1>4. Held' /\ InOrder'
    BY <1>1, <1>2 DEF TableInv, Held, InOrder
  <1>5. Finished'
    <2>1. image \in Nat /\ image_base \in {0, 1}
      BY ImageIsNumber, NowIs DEF TableInv, TableTyped, TableTypes
    <2> QED
      BY <1>1, <2>1 DEF Finished, NumberOfImages
  <1> QED
    BY <1>3, <1>4, <1>5 DEF TableInv

-----------------------------------------------------------------------------
(* What the loader finds.                                                  *)

\* A set of numbers that is not empty has a least element.
LEMMA NatSetHasLeast ==
    ASSUME NEW S \in SUBSET Nat, S # {}
    PROVE  \E i \in S : \A j \in S : i <= j
  <1> DEFINE R == {ss \in Nat \X Nat : ss[1] < ss[2]}
  <1>1. IsWellFoundedOn(R, Nat)
    BY NatLessThanWellFounded DEF OpToRel
  <1> HIDE DEF R
  <1>2. PICK i \in S : \A j \in S : <<j, i>> \notin R
    BY <1>1, WFMin
  <1>3. \A j \in S : ~(j < i)
    BY <1>2 DEF R
  <1> QED
    BY <1>3

\* So Min is one of its elements, and at most each.
LEMMA MinIs ==
    ASSUME NEW S \in SUBSET Nat, S # {}
    PROVE  Min(S) \in S /\ \A j \in S : Min(S) <= j
  BY NatSetHasLeast DEF Min

\* The only hit, if there is one.
LEMMA FirstOfOne ==
    ASSUME NEW s \in Slots, NEW hits \in SUBSET {s}
    PROVE  First(hits) = IF hits = {} THEN MaxImages ELSE s
  <1>1. s \in Nat
    BY DEF Slots
  <1>2. ASSUME hits # {}
        PROVE  Min(hits) = s
    <2>1. Min(hits) \in hits
      BY <1>1, <1>2, MinIs
    <2> QED
      BY <2>1
  <1> QED
    BY <1>2 DEF First

\* The names that the hits are of.
KeyHits(letter) ==
    {s \in Slots \ {MaxImages} :
        descr[s].single /\ Short(descr[s].name) /\ descr[s].name.letter = letter}
NameHits(n) == {s \in Slots \ {MaxImages} : descr[s].name = n}

\* No other slot than its own is hit by a name or by the key it begins with.
LEMMA HitsItsOwn ==
    ASSUME Held, Making, NEW s \in Slots \ {MaxImages}, NEW n \in Names, descr[s].name = n
    PROVE  KeyHits(n.letter) \subseteq {s} /\ NameHits(n) = {s}
  <1>1. Distinct(descr)
    BY NowIs DEF Held, GoodTable
  <1>2. n # NoName /\ n.letter # NoName.letter
    BY NameIsOne
  <1>3. Named(descr, s)
    BY <1>2 DEF Named
  <1>4. ASSUME NEW k \in KeyHits(n.letter), k # s
        PROVE  FALSE
    <2>1. /\ k \in Slots /\ descr[k].single /\ Short(descr[k].name)
          /\ descr[k].name.letter = n.letter
      BY <1>4 DEF KeyHits
    <2>2. Named(descr, k)
      BY <1>2, <2>1 DEF Named
    <2> QED
      BY <1>1, <1>3, <1>4, <2>1, <2>2 DEF Distinct
  <1>5. ASSUME NEW k \in NameHits(n), k # s
        PROVE  FALSE
    <2>1. k \in Slots /\ descr[k].name = n
      BY <1>5 DEF NameHits
    <2>2. Named(descr, k)
      BY <1>2, <2>1 DEF Named
    <2> QED
      BY <1>1, <1>3, <1>5, <2>1, <2>2 DEF Distinct
  <1>6. s \in NameHits(n)
    BY DEF NameHits
  <1> QED
    BY <1>4, <1>5, <1>6

\* The slot that a name starts, by its key or whole, is its own.
LEMMA TableFinds ==
    ASSUME TableInv
    PROVE  FindsTheImage
  <1> SUFFICES ASSUME pc = "mapped", NEW n \in Names
               PROVE  /\ \A i \in DOMAIN config : n \in NamesOf(i) => descr[Started(n)].section = i
                      /\ (\A i \in DOMAIN config : n \notin NamesOf(i))
                            /\ KeyHit(n.letter) = MaxImages => Started(n) = MaxImages
    BY DEF FindsTheImage
  <1>1. /\ Making /\ Held /\ OwnedIn(descr, config, next) /\ CoveredIn(descr, config, next)
        /\ next > Len(config) /\ next <= Len(config) + 1 /\ next \in Nat
        /\ config \in Seq(Sections)
    BY DEF TableInv, TableTyped, Held, Finished, Making
  <1>2. next - 1 = Len(config) /\ DOMAIN config = 1 .. Len(config) /\ Len(config) \in Nat
    BY <1>1
  <1>3. KeyHit(n.letter) = First(KeyHits(n.letter)) /\ NameHit(n) = First(NameHits(n))
    BY DEF KeyHit, NameHit, KeyHits, NameHits
  <1>4. ASSUME NEW i \in DOMAIN config, n \in NamesOf(i)
        PROVE  descr[Started(n)].section = i
    <2>1. Has(descr, n, i)
      BY <1>1, <1>2, <1>4 DEF CoveredIn, NamesIn, NamesOf
    <2>2. PICK s \in Slots \ {MaxImages} : descr[s].name = n /\ descr[s].section = i
      BY <2>1 DEF Has
    <2>3. KeyHits(n.letter) \subseteq {s} /\ NameHits(n) = {s}
      BY <1>1, <2>2, HitsItsOwn
    <2>4. KeyHit(n.letter) \in {s, MaxImages} /\ NameHit(n) = s
      BY <1>3, <2>3, FirstOfOne
    <2>5. Started(n) = s
      BY <2>4 DEF Started
    <2> QED
      BY <2>2, <2>5
  <1>5. ASSUME \A i \in DOMAIN config : n \notin NamesOf(i), KeyHit(n.letter) = MaxImages
        PROVE  Started(n) = MaxImages
    <2>1. ASSUME NEW s \in NameHits(n)
          PROVE  FALSE
      <3>1. s \in Slots /\ descr[s].name = n /\ Named(descr, s)
        BY NameIsOne DEF NameHits, Named
      <3>2. descr[s].section \in 1 .. (next - 1) /\ n \in NamesIn(config, descr[s].section)
        BY <1>1, <3>1 DEF OwnedIn
      <3> QED
        BY <1>2, <1>5, <3>2 DEF NamesIn, NamesOf
    <2>2. NameHit(n) = MaxImages
      BY <1>3, <2>1 DEF First
    <2> QED
      BY <1>5, <2>2 DEF Started
  <1> QED
    BY <1>4, <1>5

\* The slots in use are those below the counter.
LEMMA TableOrders ==
    ASSUME TableInv
    PROVE  DefaultImageIsFirst
  <1> SUFFICES ASSUME pc = "mapped", default # NoName \/ tables = 1
               PROVE  /\ {s \in Slots : descr[s].name # NoName} = 0 .. image - 1
                      /\ IF default # NoName THEN descr[0].name = default
                         ELSE descr[0].section = 1
    BY DEF DefaultImageIsFirst
  <1>1. /\ GoodTable(Now, default) /\ image_base = 0 /\ image > 0 /\ TogetherIn(Now)
        /\ default = NoName => descr[0].section = 1
    BY DEF TableInv, Held, InOrder, Finished, Making
  <1>2. /\ \A s \in Slots : s >= image => ~Named(descr, s)
        /\ default # NoName => descr[0].name = default
    BY <1>1, NowIs DEF GoodTable, Filled
  <1>3. \A s \in 0 .. (image - 1) : Named(descr, s)
    BY <1>1, NowIs DEF TogetherIn
  <1>4. image \in 0 .. MaxImages
    BY <1>1, NowIs DEF GoodTable, TableTypes
  <1>5. MaxImages \in Nat
    BY TableAssumption
  <1>6. {s \in Slots : Named(descr, s)} = 0 .. image - 1
    BY <1>2, <1>3, <1>4, <1>5 DEF Slots
  <1> QED
    BY <1>1, <1>2, <1>6 DEF Named

-----------------------------------------------------------------------------
(* Installations.                                                          *)

\* A slot of an array, and whether there is a disk in it.
SlotIn(a, i) == IF i <= Len(a.slots) THEN a.slots[i] ELSE [device |-> NoDevice, faulty |-> FALSE]
UsableIn(a, i) == Usable(SlotIn(a, i))

InPass == pc \in {"pass", "slot", "options", "open", "sections", "refused", "mapped"}
Writing == pc \in {"open", "sections", "refused", "mapped"}

Typed ==
    /\ setup \in DOMAIN Setups /\ array \in Setups[setup].arrays
    /\ pass \in Nat /\ runs \in Nat
    /\ pc = "start" => pass = 0
    /\ pc \in {"start", "done", "died"} => boot = NoDevice /\ map = NoDevice /\ ~old_disktab

\* BOOT and MAP are those of the slot that this pass is for.
Places ==
    /\ ~IsArray => boot = NoDevice /\ map = NoDevice
    /\ pc = "slot" => IsArray /\ pass < array.nr_disks
    /\ pc = "options" /\ IsArray =>
        /\ pass < array.nr_disks /\ UsableIn(array, pass + 1)
        /\ map = SlotIn(array, pass + 1).device /\ boot = NodeNames[map]
    /\ Writing => pass >= 1
    /\ Writing /\ IsArray =>
        /\ pass <= array.nr_disks /\ UsableIn(array, pass)
        /\ map = SlotIn(array, pass).device /\ boot = Whole(map)
    /\ Making \/ pc = "refused" => ~Unnamed

\* What the list of disks is made of when BOOT is an array: no partition is on it.
MemberEntries == {MemberEntry(m) : m \in Members}
GivenSections == UNION {Range(g.sections) : g \in Range(Setups)}
ListEntries == {MdEntry} \cup MemberEntries \cup {Entry(s) : s \in GivenSections}

DiskList == InPass /\ IsArray => disktab \in Seq(ListEntries) /\ disktab # <<>> /\ ~old_disktab

\* The disks taken so far are in front of all that the file says.
TakenSlots == IF pc = "options" THEN pass + 1 ELSE pass
Listed(dt, device) ==
    \E i \in 1 .. Len(dt) :
        dt[i].device = Whole(device) /\ \A j \in 1 .. i : dt[j] \in MemberEntries
AllListed ==
    InPass /\ IsArray =>
        \A k \in 1 .. TakenSlots : UsableIn(array, k) => Listed(disktab, SlotIn(array, k).device)

\* The disk that a map file is for; a boot sector names the map file of its disk, by
\* the sectors that it has now.
Home(name) == IF name = NoDevice THEN NoDevice ELSE Whole(name)
Leads(s, d, ms) == s.name \in MapNames /\ d = Home(s.name) /\ ms[s.name] = s.map
Booting ==
    /\ DOMAIN sectors = Disks /\ DOMAIN maps = MapNames
    /\ \A d \in Disks : sectors[d] # NoSector =>
        Leads(sectors[d], d, maps) /\ OwnAddresses(sectors[d])

\* The slots that are done in this run.
Done == IF Writing THEN pass - 1 ELSE pass
WrittenIn(ss, a, k, r) == UsableIn(a, k) => ss[Whole(SlotIn(a, k).device)].map[1] = r
Reached == InPass /\ job = "install" => \A k \in 1 .. Done : WrittenIn(sectors, array, k, runs)
Ended ==
    pc = "done" /\ job = "install" =>
        \A k \in 1 .. array.nr_disks : WrittenIn(sectors, array, k, runs)

RaidInv ==
    /\ Typed /\ Places /\ DiskList /\ AllListed
    /\ Booting /\ Reached /\ Ended

-----------------------------------------------------------------------------
(* Arrays and disks.                                                       *)

\* The slots of the present array.
LEMMA SlotOfIs ==
    \A i : SlotOf(i) = SlotIn(array, i)
  BY DEF SlotOf, SlotIn

\* The members are partitions of disks.
LEMMA MemberIs ==
    ASSUME NEW m \in Members
    PROVE  /\ m.major \in {"hd", "ide2", "sd"} /\ m.part # 0
           /\ Whole(m).part = 0 /\ m # NoDevice
           /\ Whole(m) \in Disks /\ m \in MapNames
           /\ NodeNames[m] \in {Whole(m), NoDevice}
  <1>1. m \in [major : {"hd", "ide2", "sd"}, disk : Nat, part : Nat \ {0}]
        /\ NodeNames[m] \in {Whole(m), NoDevice}
    BY RaidAssumption
  <1>2. m.major \in {"hd", "ide2", "sd"} /\ m.part # 0
    BY <1>1
  <1>3. Whole(m).part = 0
    BY <1>1 DEF Whole
  <1>4. m # NoDevice
    BY <1>2 DEF NoDevice
  <1> QED
    BY <1>1, <1>2, <1>3, <1>4 DEF Disks, MapNames

\* An array of the setup.
LEMMA ArrayIs ==
    ASSUME NEW x \in DOMAIN Setups, NEW a \in Setups[x].arrays
    PROVE  /\ a.slots \in Seq(EmptySlots \cup [device : Members, faulty : BOOLEAN])
           /\ a.nr_disks \in Nat /\ (a # NoArray => a.nr_disks # 0)
           /\ (\A i \in DOMAIN a.slots : a.slots[i].device # NoDevice)
                => a.nr_disks = Len(a.slots)
  <1>1. Setups[x] \in Range(Setups)
    BY DEF Range
  <1> DEFINE disks == {i \in DOMAIN a.slots : a.slots[i].device # NoDevice}
  <1>2. /\ a.slots \in Seq(EmptySlots \cup [device : Members, faulty : BOOLEAN])
        /\ a.nr_disks = Cardinality(disks) /\ (a.nr_disks = 0 => a = NoArray)
    BY <1>1, RaidAssumption
  <1>3. Len(a.slots) \in Nat /\ DOMAIN a.slots = 1 .. Len(a.slots)
    BY <1>2
  <1>4. IsFiniteSet(1 .. Len(a.slots)) /\ Cardinality(1 .. Len(a.slots)) = Len(a.slots)
    BY <1>3, FS_Interval
  <1>5. disks \in SUBSET (1 .. Len(a.slots))
    BY <1>3
  <1> HIDE DEF disks
  <1>6. Cardinality(disks) \in Nat
    BY <1>4, <1>5, FS_Subset, FS_CardinalityType
  <1>7. ASSUME \A i \in DOMAIN a.slots : a.slots[i].device # NoDevice
        PROVE  disks = 1 .. Len(a.slots)
    BY <1>3, <1>7 DEF disks
  <1> QED
    BY <1>2, <1>4, <1>6, <1>7

\* A disk in a slot is a member.
LEMMA SlotIs ==
    ASSUME NEW x \in DOMAIN Setups, NEW a \in Setups[x].arrays, NEW i \in Nat \ {0},
           UsableIn(a, i)
    PROVE  SlotIn(a, i).device \in Members /\ a # NoArray
  <1> DEFINE S == EmptySlots \cup [device : Members, faulty : BOOLEAN]
             s == SlotIn(a, i)
  <1>1. a.slots \in Seq(S)
    BY ArrayIs
  <1>2. s.device # NoDevice
    BY DEF UsableIn, Usable
  <1>3. i <= Len(a.slots)
    BY <1>2 DEF SlotIn
  <1>4. s \in S
    <2> HIDE DEF S
    <2> QED
      BY <1>1, <1>3 DEF SlotIn
  <1>5. s \notin EmptySlots
    BY <1>2 DEF EmptySlots
  <1>6. a # NoArray
    <2>1. NoArray.slots = <<>> /\ Len(<<>>) = 0
      BY DEF NoArray
    <2> QED
      BY <1>3, <2>1
  <1> QED
    BY <1>4, <1>5, <1>6

\* What is said of the array stays true with it.
LEMMA ArrayStays ==
    ASSUME array' = array
    PROVE  IsArray' = IsArray /\ FirstMember' = FirstMember /\ Unnamed' = Unnamed
  <1>1. IsArray' = IsArray
    BY DEF IsArray
  <1>2. Asked' = Asked
    BY DEF Asked, SlotOf
  <1>3. FirstMember' = FirstMember
    BY <1>2 DEF FirstMember, SlotOf
  <1> QED
    BY <1>1, <1>3 DEF Unnamed

\* No entry of the list is for a partition of a hard disk.
LEMMA NoPartitionListed ==
    ASSUME NEW e \in ListEntries
    PROVE  e.device.part = 0 \/ e.device.major = "fd"
  <1>1. CASE e = MdEntry
    BY <1>1 DEF MdEntry, Md, NoEntry
  <1>2. CASE e \in MemberEntries
    BY <1>2, MemberIs DEF MemberEntries, MemberEntry
  <1>3. ASSUME NEW s \in GivenSections, e = Entry(s)
        PROVE  e.device.part = 0 \/ e.device.major = "fd"
    <2>1. e.device = s.device
      BY <1>3 DEF Entry
    <2> QED
      BY <2>1, RaidAssumption DEF GivenSections
  <1> QED
    BY <1>1, <1>2, <1>3 DEF ListEntries

\* The first disk of an array is one of those taken when its own sector is written.
LEMMA FirstIsTaken ==
    ASSUME Typed, Places, Writing, IsArray, ~Unnamed
    PROVE  \E k \in 1 .. pass : UsableIn(array, k) /\ FirstMember = SlotIn(array, k).device
  <1>1. /\ pass \in Nat /\ pass >= 1 /\ pass <= array.nr_disks /\ UsableIn(array, pass)
        /\ array.nr_disks \in Nat
    BY ArrayIs DEF Typed, Places
  <1>2. pass \in Asked /\ Asked \in SUBSET Nat
    BY <1>1, SlotOfIs DEF Asked, UsableIn, Usable
  <1>3. Min(Asked) \in Asked /\ Min(Asked) <= pass
    BY <1>2, MinIs
  <1>4. FirstMember = SlotIn(array, Min(Asked)).device /\ ~SlotIn(array, Min(Asked)).faulty
    BY <1>3, SlotOfIs DEF FirstMember, Asked
  <1>5. FirstMember # NoDevice
    BY DEF Unnamed
  <1>6. UsableIn(array, Min(Asked))
    BY <1>4, <1>5 DEF UsableIn, Usable
  <1>7. Min(Asked) \in 1 .. pass
    BY <1>1, <1>2, <1>3 DEF Asked
  <1> QED
    BY <1>4, <1>6, <1>7

\* geo_get answers with the layout of the first disk, as the first of the BIOS.
LEMMA AddressOfFirst ==
    ASSUME Typed, Places, DiskList, AllListed, Writing, IsArray, ~Unnamed
    PROVE  /\ Address.bios = 128
           /\ <<Address.heads, Address.sectors, Address.start>> = Layout(FirstMember)
  <1> DEFINE f == FirstMember
             reported == [bios |-> 128 + f.disk, heads |-> Kernel[f].heads,
                          sectors |-> Kernel[f].sectors, cylinders |-> Kernel[f].cylinders,
                          start |-> Kernel[f].start]
  <1>1. InPass /\ TakenSlots = pass
    BY DEF Writing, InPass, TakenSlots
  <1>2. disktab \in Seq(ListEntries) /\ ~old_disktab
    BY <1>1 DEF DiskList
  <1>3. PICK k \in 1 .. pass : UsableIn(array, k) /\ f = SlotIn(array, k).device
    BY FirstIsTaken
  <1>4. f \in Members
    <2>1. k \in Nat \ {0}
      BY DEF Typed
    <2> QED
      BY <1>3, <2>1, SlotIs DEF Typed
  <1>5. PICK i \in 1 .. Len(disktab) :
            disktab[i].device = Whole(f) /\ \A j \in 1 .. i : disktab[j] \in MemberEntries
    BY <1>1, <1>3 DEF AllListed, Listed
  <1>6. ~Known(f)
    <2> SUFFICES ASSUME NEW j \in DOMAIN disktab, disktab[j].device = f
                 PROVE  FALSE
      BY DEF Known
    <2>1. disktab[j] \in ListEntries
      BY <1>2
    <2> QED
      BY <1>4, <2>1, NoPartitionListed, MemberIs
  <1>7. Found(f) = {j \in DOMAIN disktab : disktab[j].device = Whole(f)}
    BY <1>2, <1>6 DEF Found, Known
  <1>8. i \in Found(f) /\ Found(f) \in SUBSET Nat
    BY <1>2, <1>5, <1>7
  <1>9. PICK m \in Members : Walk(f) = MemberEntry(m) /\ Whole(m) = Whole(f)
    <2>1. Min(Found(f)) \in Found(f) /\ Min(Found(f)) <= i
      BY <1>8, MinIs
    <2>2. Min(Found(f)) \in 1 .. i /\ disktab[Min(Found(f))].device = Whole(f)
      BY <1>2, <1>7, <1>8, <2>1
    <2>3. Walk(f) = disktab[Min(Found(f))]
      BY <1>8 DEF Walk
    <2>4. PICK m \in Members : Walk(f) = MemberEntry(m)
      BY <1>5, <2>2, <2>3 DEF MemberEntries
    <2>5. MemberEntry(m).device = Whole(m)
      BY DEF MemberEntry
    <2> QED
      BY <2>2, <2>3, <2>4, <2>5
  <1>10. Kernel[m].heads = Kernel[f].heads /\ Kernel[m].sectors = Kernel[f].sectors
    BY <1>4, <1>9, RaidAssumption
  <1>11. /\ Walk(f).bios = 128 /\ Walk(f).heads = Kernel[f].heads
         /\ Walk(f).sectors = Kernel[f].sectors
    BY <1>9, <1>10 DEF MemberEntry
  <1>12. Inherited(f)
    BY <1>2, <1>6 DEF Inherited
  <1>13. Address = Merged(f, reported)
    BY DEF Address
  <1>14. reported.heads = Kernel[f].heads /\ reported.sectors = Kernel[f].sectors
         /\ reported.start = Kernel[f].start
    OBVIOUS
  <1> HIDE DEF f, reported
  <1>15. StartOf(f, reported) = Kernel[f].start
    BY <1>12, <1>14 DEF StartOf
  <1>16. Merged(f, reported).start = StartOf(f, reported)
         /\ Merged(f, reported).bios = Given(Walk(f).bios, reported.bios)
         /\ Merged(f, reported).heads = Given(Walk(f).heads, reported.heads)
         /\ Merged(f, reported).sectors = Given(Walk(f).sectors, reported.sectors)
    BY DEF Merged
  <1>17. 128 # Unset
    BY DEF Unset
  <1>18. Address.bios = 128 /\ Address.heads = Kernel[f].heads
         /\ Address.sectors = Kernel[f].sectors /\ Address.start = Kernel[f].start
    BY <1>11, <1>13, <1>14, <1>15, <1>16, <1>17 DEF Given
  <1> QED
    BY <1>18 DEF Layout, f

-----------------------------------------------------------------------------
(* The actions.                                                            *)

\* Boot sectors and map files are left alone.
LEMMA SameBoots ==
    ASSUME Booting, UNCHANGED boots
    PROVE  Booting'
  BY DEF Booting, boots

\* The process ends in a state that has nothing left to show but, if it is done, the
\* sectors of all disks.
LEMMA Gone ==
    ASSUME RaidInv, NEW how \in {"done", "died"}, Leave(how), Booting', Ended'
    PROVE  RaidInv'
  <1>1. /\ pc' = how /\ boot' = NoDevice /\ map' = NoDevice /\ setup' = setup
        /\ array' = array /\ pass' = pass /\ runs' = runs /\ old_disktab' = FALSE
    BY DEF Leave, md
  <1>2. ~InPass' /\ ~Writing' /\ ~Making' /\ pc' # "start" /\ pc' # "slot"
        /\ pc' # "options" /\ pc' # "refused"
    BY <1>1 DEF InPass, Writing, Making
  <1>3. Typed'
    BY <1>1, <1>2 DEF RaidInv, Typed
  <1>4. Places'
    BY <1>1, <1>2 DEF Places
  <1>5. DiskList' /\ AllListed' /\ Reached'
    BY <1>2 DEF DiskList, AllListed, Reached
  <1> QED
    BY <1>3, <1>4, <1>5 DEF RaidInv

\* A call fails.
LEMMA DieKeeps ==
    ASSUME RaidInv, Die
    PROVE  RaidInv'
  <1>1. Leave("died") /\ UNCHANGED boots /\ pc' = "died"
    BY DEF Die, Leave
  <1>2. Booting'
    BY <1>1, SameBoots DEF RaidInv
  <1>3. Ended'
    BY <1>1 DEF Ended
  <1> QED
    BY <1>1, <1>2, <1>3, Gone

\* DISK sections in the order of the list.
LEMMA SectionsListed ==
    ASSUME Typed
    PROVE  Reverse([i \in DOMAIN given.sections |-> Entry(given.sections[i])]) \in Seq(ListEntries)
  <1> DEFINE g == given.sections
             e == [i \in DOMAIN g |-> Entry(g[i])]
  <1>1. given \in Range(Setups)
    BY DEF Typed, given, Range
  <1>2. g \in Seq(Range(g))
    BY <1>1, RaidAssumption
  <1>3. \A i \in DOMAIN g : g[i] \in GivenSections
    BY <1>1 DEF GivenSections, Range
  <1>4. \A i \in DOMAIN g : Entry(g[i]) \in ListEntries
    BY <1>3 DEF ListEntries
  <1>5. DOMAIN g = 1 .. Len(g) /\ Len(g) \in Nat
    <2> DEFINE R == Range(g)
    <2>1. g \in Seq(R)
      BY <1>2
    <2> HIDE DEF R, g
    <2> QED
      BY <2>1
  <1> HIDE DEF g
  <1>6. e \in Seq(ListEntries) /\ Len(e) = Len(g)
    BY <1>4, <1>5, IsASeq
  <1> HIDE DEF e
  <1>7. Reverse(e) = [i \in 1 .. Len(e) |-> e[(Len(e) - i) + 1]]
    BY DEF Reverse
  <1>8. \A i \in 1 .. Len(e) : e[(Len(e) - i) + 1] \in ListEntries
    BY <1>5, <1>6
  <1>9. Reverse(e) \in Seq(ListEntries)
    BY <1>5, <1>6, <1>7, <1>8, IsASeq
  <1> QED
    BY <1>9 DEF e, g

\* The options are read: an array is first on the list, behind it the DISK sections.
LEMMA ReadKeeps ==
    ASSUME RaidInv, ReadOptions
    PROVE  RaidInv'
  <1>1. CASE Die
    BY <1>1, DieKeeps
  <1>2. CASE ~Die
    <2> DEFINE rest == Reverse([i \in DOMAIN given.sections |-> Entry(given.sections[i])])
    <2>1. /\ pc = "start" /\ pc' = "pass" /\ setup' = setup /\ array' = array /\ job' = job
          /\ pass' = pass /\ boot' = boot /\ map' = map /\ runs' = runs
          /\ old_disktab' = old_disktab /\ UNCHANGED boots
          /\ disktab' = (IF IsArray THEN <<MdEntry>> ELSE <<>>) \o rest
      BY <1>2 DEF ReadOptions, md, place
    <2>2. Typed /\ Places /\ Booting /\ pass = 0
      BY <2>1 DEF RaidInv, Typed
    <2>3. rest \in Seq(ListEntries)
      BY <2>2, SectionsListed
    <2> HIDE DEF rest
    <2>4. Typed'
      BY <2>1, <2>2 DEF Typed
    <2>5. IsArray' = IsArray
      BY <2>1, ArrayStays
    <2>6. ~Writing' /\ ~Making' /\ pc' # "refused"
      BY <2>1 DEF Writing, Making
    <2>7. Places'
      BY <2>1, <2>2, <2>5, <2>6 DEF Places
    <2>8. ASSUME IsArray
          PROVE  disktab' \in Seq(ListEntries) /\ disktab' # <<>>
      <3>1. disktab' = <<MdEntry>> \o rest
        BY <2>1, <2>8
      <3>2. <<MdEntry>> \in Seq(ListEntries) /\ Len(<<MdEntry>>) = 1
        <4>1. MdEntry \in ListEntries
          BY DEF ListEntries
        <4> QED
          BY <4>1
      <3>3. /\ <<MdEntry>> \o rest \in Seq(ListEntries)
            /\ Len(<<MdEntry>> \o rest) = 1 + Len(rest)
        BY <2>3, <3>2, ConcatProperties
      <3>4. Len(rest) \in Nat
        BY <2>3
      <3> HIDE DEF ListEntries
      <3> QED
        BY <3>1, <3>3, <3>4
    <2>9. DiskList'
      BY <2>1, <2>2, <2>5, <2>8 DEF DiskList, Typed
    <2>10. TakenSlots' = 0 /\ Done' = 0
      BY <2>1, <2>2, <2>6 DEF TakenSlots, Done
    <2>11. AllListed' /\ Reached'
      BY <2>10 DEF AllListed, Reached
    <2>12. Ended'
      BY <2>1 DEF Ended
    <2>13. Booting'
      BY <2>1, <2>2, SameBoots
    <2> QED
      BY <2>4, <2>7, <2>9, <2>11, <2>12, <2>13 DEF RaidInv
  <1> QED
    BY <1>1, <1>2

\* The end of the loop: all slots were gone through.
LEMMA LeaveKeeps ==
    ASSUME RaidInv, LeaveLoop
    PROVE  RaidInv'
  <1>1. /\ pc = "pass" /\ ~Continues /\ Leave("done") /\ UNCHANGED boots
        /\ pc' = "done" /\ sectors' = sectors /\ array' = array /\ job' = job /\ runs' = runs
    BY DEF LeaveLoop, Leave, md, boots
  <1>2. Booting'
    BY <1>1, SameBoots DEF RaidInv
  <1>3. Ended'
    <2>1. InPass /\ Done = pass
      BY <1>1 DEF InPass, Writing, Done
    <2>2. array.nr_disks \in Nat /\ pass \in Nat
      BY ArrayIs DEF RaidInv, Typed
    <2>3. array.nr_disks <= pass
      <3>1. CASE IsArray
        BY <1>1, <2>2, <3>1 DEF Continues
      <3>2. CASE ~IsArray
        <4>1. array.nr_disks = 0
          BY <3>2 DEF IsArray, NoArray
        <4> QED
          BY <2>2, <4>1
      <3> QED
        BY <3>1, <3>2
    <2>4. job = "install" => \A k \in 1 .. array.nr_disks : WrittenIn(sectors, array, k, runs)
      BY <2>1, <2>2, <2>3 DEF RaidInv, Reached
    <2> QED
      BY <1>1, <2>4 DEF Ended
  <1> QED
    BY <1>1, <1>2, <1>3, Gone

\* The file is read again for the next disk.
LEMMA RereadKeeps ==
    ASSUME RaidInv, Reread
    PROVE  RaidInv'
  <1>1. CASE Die
    BY <1>1, DieKeeps
  <1>2. CASE ~Die
    <2>1. /\ pc = "pass" /\ Continues /\ pc' = (IF IsArray THEN "slot" ELSE "options")
          /\ setup' = setup /\ array' = array /\ job' = job /\ pass' = pass
          /\ boot' = boot /\ map' = map /\ runs' = runs /\ sectors' = sectors
          /\ disktab' = disktab /\ old_disktab' = old_disktab /\ UNCHANGED boots
      BY <1>2 DEF Reread, md, place, diskTab, boots
    <2>2. Typed /\ Places /\ DiskList /\ AllListed /\ Booting /\ Reached
      BY DEF RaidInv
    <2>3. ~Writing' /\ ~Making' /\ pc' # "refused" /\ InPass' /\ InPass /\ ~Writing
      BY <2>1 DEF Writing, Making, InPass
    <2>4. Typed'
      BY <2>1, <2>2 DEF Typed
    <2>5. IsArray' = IsArray
      BY <2>1, ArrayStays
    <2>6. IsArray => pass < array.nr_disks
      BY <2>1, <2>2, ArrayIs DEF Typed, Continues, IsArray
    <2>7. Places'
      BY <2>1, <2>2, <2>3, <2>5, <2>6 DEF Places
    <2>8. DiskList'
      BY <2>1, <2>2, <2>3, <2>5 DEF DiskList
    <2>9. AllListed'
      <3>1. IsArray => TakenSlots' = TakenSlots
        BY <2>1 DEF TakenSlots
      <3> QED
        BY <2>1, <2>2, <2>3, <2>5, <3>1 DEF AllListed
    <2>10. Reached'
      <3>1. Done' = Done
        BY <2>1, <2>3 DEF Done
      <3> QED
        BY <2>1, <2>2, <2>3, <3>1 DEF Reached
    <2>11. Ended' /\ Booting'
      BY <2>1, <2>2, SameBoots DEF Ended
    <2> QED
      BY <2>4, <2>7, <2>8, <2>9, <2>10, <2>11 DEF RaidInv
  <1> QED
    BY <1>1, <1>2

\* A slot without a disk is counted and passed over.
LEMMA SkipKeeps ==
    ASSUME RaidInv, SkipSlot
    PROVE  RaidInv'
  <1>1. /\ pc = "slot" /\ ~Usable(SlotOf(pass + 1)) /\ pc' = "pass" /\ pass' = pass + 1
        /\ setup' = setup /\ array' = array /\ job' = job /\ boot' = boot /\ map' = map
        /\ runs' = runs /\ sectors' = sectors /\ disktab' = disktab
        /\ old_disktab' = old_disktab /\ UNCHANGED boots
    BY DEF SkipSlot, Slot, PassAfterSkip, place, diskTab, boots
  <1>2. Typed /\ Places /\ DiskList /\ AllListed /\ Booting /\ Reached /\ pass \in Nat
    BY DEF RaidInv, Typed
  <1>3. ~Writing' /\ ~Making' /\ pc' # "refused" /\ InPass' /\ InPass /\ ~Writing
    BY <1>1 DEF Writing, Making, InPass
  <1>4. ~UsableIn(array, pass + 1)
    BY <1>1, SlotOfIs DEF UsableIn
  <1>5. Typed'
    BY <1>1, <1>2 DEF Typed
  <1>6. IsArray' = IsArray
    BY <1>1, ArrayStays
  <1>7. Places'
    BY <1>1, <1>2, <1>3, <1>6 DEF Places
  <1>8. DiskList'
    BY <1>1, <1>2, <1>3, <1>6 DEF DiskList
  <1>9. AllListed'
    <2>1. TakenSlots = pass /\ TakenSlots' = pass + 1
      BY <1>1 DEF TakenSlots
    <2>2. \A k \in 1 .. (pass + 1) : k = pass + 1 \/ k \in 1 .. pass
      BY <1>2
    <2> QED
      BY <1>1, <1>2, <1>3, <1>4, <1>6, <2>1, <2>2 DEF AllListed
  <1>10. Reached'
    <2>1. Done = pass /\ Done' = pass + 1
      BY <1>1, <1>3 DEF Done
    <2>2. \A k \in 1 .. (pass + 1) : k = pass + 1 \/ k \in 1 .. pass
      BY <1>2
    <2>3. WrittenIn(sectors, array, pass + 1, runs)
      BY <1>4 DEF WrittenIn
    <2> QED
      BY <1>1, <1>2, <1>3, <2>1, <2>2, <2>3 DEF Reached
  <1>11. Ended' /\ Booting'
    BY <1>1, <1>2, SameBoots DEF Ended
  <1> QED
    BY <1>5, <1>7, <1>8, <1>9, <1>10, <1>11 DEF RaidInv

\* A disk that is put in front of the list is on it, and those behind it stay.
LEMMA FrontListed ==
    ASSUME NEW dt \in Seq(ListEntries), NEW m \in Members
    PROVE  /\ <<MemberEntry(m)>> \o dt \in Seq(ListEntries)
           /\ <<MemberEntry(m)>> \o dt # <<>>
           /\ Listed(<<MemberEntry(m)>> \o dt, m)
           /\ \A n : Listed(dt, n) => Listed(<<MemberEntry(m)>> \o dt, n)
  <1> DEFINE one == <<MemberEntry(m)>>
             all == one \o dt
  <1>1. MemberEntry(m) \in MemberEntries /\ MemberEntry(m).device = Whole(m)
    BY DEF MemberEntries, MemberEntry
  <1>2. one \in Seq(ListEntries) /\ Len(one) = 1 /\ one[1] = MemberEntry(m)
    BY <1>1 DEF ListEntries
  <1> HIDE DEF one
  <1>3. /\ all \in Seq(ListEntries) /\ Len(all) = 1 + Len(dt)
        /\ \A i \in 1 .. Len(one) + Len(dt) :
                all[i] = IF i <= Len(one) THEN one[i] ELSE dt[i - Len(one)]
    BY <1>2, ConcatProperties, ZenonT(30)
  <1>4. Len(dt) \in Nat
    OBVIOUS
  <1> HIDE DEF all
  <1>5. all[1] = MemberEntry(m) /\ \A i \in 1 .. Len(dt) : all[i + 1] = dt[i]
    BY <1>2, <1>3, <1>4
  <1>6. Listed(all, m)
    <2>1. 1 \in 1 .. Len(all) /\ \A j \in 1 .. 1 : all[j] \in MemberEntries
      BY <1>1, <1>3, <1>4, <1>5
    <2> QED
      BY <1>1, <1>5, <2>1 DEF Listed
  <1>7. ASSUME NEW n, Listed(dt, n)
        PROVE  Listed(all, n)
    <2>1. PICK i \in 1 .. Len(dt) :
              dt[i].device = Whole(n) /\ \A j \in 1 .. i : dt[j] \in MemberEntries
      BY <1>7 DEF Listed
    <2>2. i + 1 \in 1 .. Len(all) /\ all[i + 1].device = Whole(n)
      BY <1>3, <1>4, <1>5, <2>1
    <2>3. ASSUME NEW j \in 1 .. (i + 1)
          PROVE  all[j] \in MemberEntries
      <3>1. CASE j = 1
        BY <1>1, <1>5, <3>1
      <3>2. CASE j # 1
        <4> DEFINE p == j - 1
        <4>1. p \in 1 .. i /\ p \in 1 .. Len(dt) /\ j = p + 1
          BY <1>4, <3>2
        <4> HIDE DEF p
        <4> QED
          BY <1>5, <2>1, <4>1
      <3> QED
        BY <3>1, <3>2
    <2> QED
      BY <2>2, <2>3 DEF Listed
  <1>8. all # <<>>
    <2>1. Len(<<>>) = 0
      OBVIOUS
    <2> QED
      BY <1>3, <1>4, <2>1
  <1> QED
    BY <1>3, <1>6, <1>7, <1>8 DEF all, one

\* The disk of a slot is put in front of the list, and BOOT and MAP are its own.
LEMMA TakeKeeps ==
    ASSUME RaidInv, TakeSlot
    PROVE  RaidInv'
  <1> DEFINE d == SlotIn(array, pass + 1).device
  <1>1. /\ pc = "slot" /\ UsableIn(array, pass + 1) /\ pc' = "options" /\ pass' = pass
        /\ setup' = setup /\ array' = array /\ job' = job /\ runs' = runs
        /\ sectors' = sectors /\ old_disktab' = old_disktab /\ UNCHANGED boots
        /\ disktab' = <<MemberEntry(d)>> \o disktab /\ boot' = NodeNames[d] /\ map' = d
    BY SlotOfIs DEF TakeSlot, Slot, MapName, UsableIn, md, boots
  <1>2. Typed /\ Places /\ DiskList /\ AllListed /\ Booting /\ Reached /\ pass \in Nat
    BY DEF RaidInv, Typed
  <1>3. ~Writing' /\ ~Making' /\ pc' # "refused" /\ InPass' /\ InPass /\ ~Writing
    BY <1>1 DEF Writing, Making, InPass
  <1>4. IsArray /\ pass < array.nr_disks
    BY <1>1, <1>2 DEF Places
  <1>5. IsArray' = IsArray
    BY <1>1, ArrayStays
  <1>6. d \in Members
    <2>1. pass + 1 \in Nat \ {0}
      BY <1>2
    <2> QED
      BY <1>1, <1>2, <2>1, SlotIs DEF Typed
  <1>7. Typed'
    BY <1>1, <1>2 DEF Typed
  <1>8. Places'
    BY <1>1, <1>3, <1>4, <1>5 DEF Places
  <1> HIDE DEF d
  <1>9. disktab \in Seq(ListEntries) /\ ~old_disktab
    BY <1>2, <1>3, <1>4 DEF DiskList
  <1>10. /\ disktab' \in Seq(ListEntries) /\ disktab' # <<>> /\ Listed(disktab', d)
         /\ \A n : Listed(disktab, n) => Listed(disktab', n)
    BY <1>1, <1>6, <1>9, FrontListed
  <1>11. DiskList'
    BY <1>1, <1>9, <1>10 DEF DiskList
  <1>12. AllListed'
    <2>1. TakenSlots = pass /\ TakenSlots' = pass + 1
      BY <1>1 DEF TakenSlots
    <2>2. \A k \in 1 .. (pass + 1) : k = pass + 1 \/ k \in 1 .. pass
      BY <1>2
    <2>3. \A k \in 1 .. pass : UsableIn(array, k) => Listed(disktab, SlotIn(array, k).device)
      BY <1>2, <1>3, <1>4, <2>1 DEF AllListed
    <2>4. \A k \in 1 .. (pass + 1) :
              UsableIn(array, k) => Listed(disktab', SlotIn(array, k).device)
      BY <1>10, <2>2, <2>3 DEF d
    <2> QED
      BY <1>1, <2>1, <2>4 DEF AllListed
  <1>13. Reached'
    <2>1. Done' = Done
      BY <1>1, <1>3 DEF Done
    <2> QED
      BY <1>1, <1>2, <1>3, <2>1 DEF Reached
  <1>14. Ended' /\ Booting'
    BY <1>1, <1>2, SameBoots DEF Ended
  <1> QED
    BY <1>7, <1>8, <1>11, <1>12, <1>13, <1>14 DEF RaidInv

\* A sector that is restored is no longer LILO's.
LEMMA RestoredBoots ==
    ASSUME Booting, sectors' \in {sectors, [sectors EXCEPT ![boot] = NoSector]}, UNCHANGED maps
    PROVE  Booting'
  <1>1. DOMAIN sectors' = Disks /\ maps' = maps
    BY DEF Booting
  <1>2. \A d \in Disks : sectors'[d] \in {sectors[d], NoSector}
    BY DEF Booting
  <1> QED
    BY <1>1, <1>2 DEF Booting

\* An array has no disktab file.
LEMMA NoLines ==
    ASSUME disktab \in Seq(ListEntries), disktab # <<>>, ~RefusedLines(given.lines),
           LoadLines(given.lines)
    PROVE  disktab' = disktab /\ (~old_disktab => ~old_disktab')
  <1>1. given.lines = <<>>
    BY DEF RefusedLines
  <1>2. disktab' = Reverse(<<>>) \o disktab /\ old_disktab' = (old_disktab \/ <<>> # <<>>)
    BY <1>1 DEF LoadLines
  <1>3. Reverse(<<>>) = <<>>
    BY DEF Reverse
  <1>4. <<>> \o disktab = disktab
    BY ConcatEmptySeq
  <1> QED
    BY <1>2, <1>3, <1>4

\* BOOT is opened, or lilo has done what it was called for.
LEMMA PrepareKeeps ==
    ASSUME RaidInv, Prepare
    PROVE  RaidInv'
  <1>1. CASE Die
    BY <1>1, DieKeeps
  <1>2. CASE /\ job = "once" /\ Leave("done") /\ UNCHANGED maps
             /\ sectors' \in {sectors, [sectors EXCEPT ![boot] = NoSector]}
    <2>1. Booting'
      BY <1>2, RestoredBoots DEF RaidInv
    <2>2. job' = "once"
      BY <1>2 DEF Leave, md
    <2>3. Ended'
      BY <2>2 DEF Ended
    <2> QED
      BY <1>2, <2>1, <2>3, Gone
  <1>3. CASE /\ job # "once" /\ ~RefusedLines(given.lines) /\ ~(IsArray /\ boot = NoDevice)
             /\ LoadLines(given.lines) /\ pass' = pass + 1 /\ pc' = "open"
             /\ UNCHANGED <<tableVars, setup, array, job, place, boots, runs>>
    <2>1. /\ pc = "options" /\ pc' = "open" /\ pass' = pass + 1 /\ setup' = setup
          /\ array' = array /\ job' = job /\ boot' = boot /\ map' = map /\ runs' = runs
          /\ sectors' = sectors /\ UNCHANGED boots
      BY <1>3 DEF Prepare, place, boots
    <2>2. Typed /\ Places /\ DiskList /\ AllListed /\ Booting /\ Reached /\ pass \in Nat
      BY DEF RaidInv, Typed
    <2>3. Writing' /\ ~Making' /\ pc' # "refused" /\ InPass' /\ InPass /\ ~Writing
      BY <2>1 DEF Writing, Making, InPass
    <2>4. IsArray' = IsArray
      BY <2>1, ArrayStays
    <2>5. Typed'
      BY <2>1, <2>2 DEF Typed
    <2>6. Places'
      <3>1. ASSUME IsArray
            PROVE  /\ pass + 1 <= array.nr_disks /\ UsableIn(array, pass + 1)
                   /\ map = SlotIn(array, pass + 1).device /\ boot = Whole(map)
        <4>1. /\ pass < array.nr_disks /\ UsableIn(array, pass + 1)
              /\ map = SlotIn(array, pass + 1).device /\ boot = NodeNames[map]
          BY <2>1, <2>2, <3>1 DEF Places
        <4>2. map \in Members
          <5>1. pass + 1 \in Nat \ {0}
            BY <2>2
          <5> QED
            BY <2>2, <4>1, <5>1, SlotIs DEF Typed
        <4>3. boot = Whole(map)
          BY <1>3, <3>1, <4>1, <4>2, MemberIs
        <4>4. array.nr_disks \in Nat
          BY <2>2, ArrayIs DEF Typed
        <4> QED
          BY <2>2, <4>1, <4>3, <4>4
      <3>2. ~IsArray => boot = NoDevice /\ map = NoDevice
        BY <2>2 DEF Places
      <3>3. pass + 1 >= 1
        BY <2>2
      <3> QED
        BY <2>1, <2>3, <2>4, <3>1, <3>2, <3>3 DEF Places
    <2>7. ASSUME IsArray
          PROVE  /\ disktab \in Seq(ListEntries) /\ disktab # <<>> /\ disktab' = disktab
                 /\ ~old_disktab'
      BY <1>3, <2>2, <2>3, <2>7, NoLines DEF DiskList
    <2>8. DiskList'
      BY <2>4, <2>7 DEF DiskList
    <2>9. AllListed'
      <3>1. TakenSlots = pass + 1 /\ TakenSlots' = pass + 1
        BY <2>1 DEF TakenSlots
      <3> QED
        BY <2>1, <2>2, <2>3, <2>4, <2>7, <3>1 DEF AllListed
    <2>10. Reached'
      <3>1. Done = pass /\ Done' = pass
        BY <2>1, <2>2, <2>3 DEF Done
      <3> QED
        BY <2>1, <2>2, <2>3, <3>1 DEF Reached
    <2>11. Ended' /\ Booting'
      BY <2>1, <2>2, SameBoots DEF Ended
    <2> QED
      BY <2>5, <2>6, <2>8, <2>9, <2>10, <2>11 DEF RaidInv
  <1> QED
    BY <1>1, <1>2, <1>3 DEF Prepare

\* The table is made in a pass.
LEMMA MapKeeps ==
    ASSUME RaidInv, MapImages
    PROVE  RaidInv'
  <1>1. /\ pc \in {"open", "sections"} /\ pc' \in {"sections", "refused", "mapped"}
        /\ ~(pc = "open" /\ Unnamed) /\ pass' = pass /\ setup' = setup
        /\ array' = array /\ job' = job /\ boot' = boot /\ map' = map /\ runs' = runs
        /\ sectors' = sectors /\ disktab' = disktab /\ old_disktab' = old_disktab
        /\ UNCHANGED boots
    BY DEF MapImages, MakeTable, OpenTable, AddImage, Finish, md, place, diskTab, boots
  <1>2. Typed /\ Places /\ DiskList /\ AllListed /\ Booting /\ Reached
    BY DEF RaidInv
  <1>3. Writing' /\ Writing /\ InPass' /\ InPass
    BY <1>1 DEF Writing, InPass
  <1>4. IsArray' = IsArray /\ Unnamed' = Unnamed
    BY <1>1, ArrayStays
  <1>5. ~Unnamed
    BY <1>1, <1>2 DEF Places, Making
  <1>6. Typed'
    BY <1>1, <1>2 DEF Typed
  <1>7. Places'
    BY <1>1, <1>2, <1>3, <1>4, <1>5 DEF Places
  <1>8. DiskList'
    BY <1>1, <1>2, <1>3, <1>4 DEF DiskList
  <1>9. TakenSlots' = pass /\ TakenSlots = pass
    BY <1>1 DEF TakenSlots
  <1>10. AllListed'
    BY <1>1, <1>2, <1>3, <1>4, <1>9 DEF AllListed
  <1>11. Done' = Done
    BY <1>1, <1>3 DEF Done
  <1>12. Reached'
    BY <1>1, <1>2, <1>3, <1>11 DEF Reached
  <1>13. Ended' /\ Booting'
    BY <1>1, <1>2, SameBoots DEF Ended
  <1> QED
    BY <1>6, <1>7, <1>8, <1>10, <1>12, <1>13 DEF RaidInv

\* The boot sector of a disk and the map file it names are written for the disk that
\* this pass is for; no other sector names that map file.
LEMMA WriteBoots ==
    ASSUME RaidInv, WriteDisk, job # "test"
    PROVE  /\ Booting'
           /\ boot \in Disks /\ sectors'[boot].map[1] = runs
           /\ \A d \in Disks : d # boot => sectors'[d] = sectors[d]
  <1> DEFINE now == <<runs, pass>>
             s == [map |-> now, name |-> map, address |-> Address,
                   member |-> SlotIn(array, pass).device,
                   first |-> IF IsArray THEN FirstMember ELSE NoDevice]
  <1>1. /\ pc = "mapped" /\ sectors' = [sectors EXCEPT ![boot] = s]
        /\ maps' = [maps EXCEPT ![map] = now]
    BY SlotOfIs DEF WriteDisk
  <1>2. Typed /\ Places /\ DiskList /\ AllListed /\ Booting /\ Writing /\ Making
    BY <1>1 DEF RaidInv, Writing, Making
  <1>3. DOMAIN sectors = Disks /\ DOMAIN maps = MapNames
    BY <1>2 DEF Booting
  <1>4. pass \in Nat /\ pass >= 1 /\ ~Unnamed
    BY <1>2 DEF Typed, Places
  <1>5. IsArray => map = SlotIn(array, pass).device /\ map \in Members /\ boot = Whole(map)
    <2>1. IsArray => UsableIn(array, pass) /\ map = SlotIn(array, pass).device /\ boot = Whole(map)
      BY <1>2 DEF Places
    <2>2. pass \in Nat \ {0}
      BY <1>4
    <2> QED
      BY <1>2, <2>1, <2>2, SlotIs DEF Typed
  <1>6. boot \in Disks /\ map \in MapNames /\ boot = Home(map)
    <2>1. CASE IsArray
      BY <1>5, <2>1, MemberIs DEF Home
    <2>2. CASE ~IsArray
      BY <1>2, <2>2 DEF Places, Home, Disks, MapNames
    <2> QED
      BY <2>1, <2>2
  <1>7. s.map = now /\ s.name = map /\ s.address = Address
        /\ s.member = SlotIn(array, pass).device
        /\ s.first = IF IsArray THEN FirstMember ELSE NoDevice
    OBVIOUS
  <1>8. OwnAddresses(s)
    <2> HIDE DEF s
    <2>1. CASE IsArray
      <3>1. /\ Address.bios = 128
            /\ <<Address.heads, Address.sectors, Address.start>> = Layout(FirstMember)
        BY <1>2, <1>4, <2>1, AddressOfFirst
      <3> QED
        BY <1>7, <2>1, <3>1 DEF OwnAddresses
    <2>2. CASE ~IsArray
      <3>1. NoArray.slots = <<>> /\ Len(<<>>) = 0
        BY DEF NoArray
      <3>2. SlotIn(array, pass).device = NoDevice
        BY <1>4, <2>2, <3>1 DEF IsArray, SlotIn
      <3> QED
        BY <1>7, <3>2 DEF OwnAddresses
    <2> QED
      BY <2>1, <2>2
  <1> HIDE DEF s
  <1>9. /\ DOMAIN sectors' = Disks /\ DOMAIN maps' = MapNames
        /\ sectors'[boot] = s /\ maps'[map] = now
        /\ \A d \in Disks : d # boot => sectors'[d] = sectors[d]
        /\ \A n \in MapNames : n # map => maps'[n] = maps[n]
    BY <1>1, <1>3, <1>6
  <1>10. ASSUME NEW d \in Disks, sectors'[d] # NoSector
         PROVE  Leads(sectors'[d], d, maps') /\ OwnAddresses(sectors'[d])
    <2>1. CASE d = boot
      BY <1>6, <1>7, <1>8, <1>9, <2>1 DEF Leads
    <2>2. CASE d # boot
      <3>1. sectors'[d] = sectors[d]
        BY <1>9, <2>2
      <3>2. Leads(sectors[d], d, maps) /\ OwnAddresses(sectors[d])
        BY <1>2, <1>10, <3>1 DEF Booting
      <3>3. sectors[d].name # map
        BY <1>6, <2>2, <3>2 DEF Leads
      <3>4. Leads(sectors[d], d, maps')
        BY <1>9, <3>2, <3>3 DEF Leads
      <3> QED
        BY <3>1, <3>2, <3>4
    <2> QED
      BY <2>1, <2>2
  <1>11. Booting'
    BY <1>9, <1>10 DEF Booting
  <1>12. now[1] = runs
    OBVIOUS
  <1> QED
    BY <1>6, <1>7, <1>9, <1>11, <1>12

\* The disk of this pass is done.
LEMMA WriteKeeps ==
    ASSUME RaidInv, WriteDisk
    PROVE  RaidInv'
  <1>1. /\ pc = "mapped" /\ pc' = "pass" /\ pass' = pass /\ setup' = setup
        /\ array' = array /\ job' = job /\ boot' = boot /\ map' = map /\ runs' = runs
        /\ disktab' = disktab /\ old_disktab' = old_disktab
        /\ job = "test" => UNCHANGED boots
    BY DEF WriteDisk, md, place, diskTab
  <1>2. Typed /\ Places /\ DiskList /\ AllListed /\ Booting /\ Reached /\ pass \in Nat
    BY DEF RaidInv, Typed
  <1>3. ~Writing' /\ ~Making' /\ pc' # "refused" /\ Writing /\ InPass' /\ InPass
    BY <1>1 DEF Writing, Making, InPass
  <1>4. IsArray' = IsArray
    BY <1>1, ArrayStays
  <1>5. Typed'
    BY <1>1, <1>2 DEF Typed
  <1>6. Places'
    BY <1>1, <1>2, <1>3, <1>4 DEF Places
  <1>7. DiskList'
    BY <1>1, <1>2, <1>3, <1>4 DEF DiskList
  <1>8. AllListed'
    <2>1. TakenSlots' = pass /\ TakenSlots = pass
      BY <1>1 DEF TakenSlots
    <2> QED
      BY <1>1, <1>2, <1>3, <1>4, <2>1 DEF AllListed
  <1>9. Ended'
    BY <1>1 DEF Ended
  <1>10. Booting'
    <2>1. CASE job = "test"
      BY <1>1, <1>2, <2>1, SameBoots
    <2>2. CASE job # "test"
      BY <2>2, WriteBoots
    <2> QED
      BY <2>1, <2>2
  <1>11. Reached'
    <2> SUFFICES ASSUME job = "install", NEW k \in 1 .. pass, UsableIn(array, k)
                 PROVE  sectors'[Whole(SlotIn(array, k).device)].map[1] = runs
      <3>1. Done' = pass
        BY <1>1, <1>3 DEF Done
      <3> QED
        BY <1>1, <3>1 DEF Reached, WrittenIn
    <2> DEFINE d == Whole(SlotIn(array, k).device)
    <2>1. /\ sectors'[boot].map[1] = runs
          /\ \A e \in Disks : e # boot => sectors'[e] = sectors[e]
      BY WriteBoots
    <2>2. SlotIn(array, k).device \in Members /\ array # NoArray
      <3>1. k \in Nat \ {0}
        BY <1>2
      <3> QED
        BY <1>2, <3>1, SlotIs DEF Typed
    <2>3. d \in Disks
      BY <2>2, MemberIs
    <2>4. CASE k = pass
      <3>1. d = boot
        BY <1>2, <1>3, <2>2, <2>4 DEF Places, IsArray
      <3> QED
        BY <2>1, <3>1
    <2>5. CASE k # pass
      <3>1. k \in 1 .. Done
        BY <1>2, <1>3, <2>5 DEF Done
      <3>2. sectors[d].map[1] = runs
        BY <1>2, <1>3, <3>1 DEF Reached, WrittenIn
      <3> QED
        BY <2>1, <2>3, <3>2
    <2> QED
      BY <2>4, <2>5
  <1> QED
    BY <1>5, <1>6, <1>7, <1>8, <1>9, <1>10, <1>11 DEF RaidInv

\* The next run finds the sectors and map files of those before it.
LEMMA AnotherKeeps ==
    ASSUME RaidInv, NEW a \in given.arrays, NEW j \in given.jobs, AnotherRun(a, j)
    PROVE  RaidInv'
  <1>1. /\ pc \in {"done", "died"} /\ pc' = "start" /\ array' = a /\ setup' = setup
        /\ pass' = 0 /\ runs' = runs + 1 /\ boot' = boot /\ map' = map
        /\ old_disktab' = old_disktab /\ UNCHANGED boots
    BY DEF AnotherRun, place, diskTab
  <1>2. Typed /\ Booting
    BY DEF RaidInv
  <1>3. ~Writing' /\ ~Making' /\ pc' # "refused" /\ ~InPass'
    BY <1>1 DEF Writing, Making, InPass
  <1>4. Typed'
    BY <1>1, <1>2 DEF Typed, given
  <1>5. boot' = NoDevice /\ map' = NoDevice
    BY <1>1, <1>2 DEF Typed
  <1>6. Places'
    BY <1>1, <1>3, <1>5 DEF Places
  <1>7. DiskList' /\ AllListed' /\ Reached' /\ Ended'
    BY <1>1, <1>3 DEF DiskList, AllListed, Reached, Ended
  <1> QED
    BY <1>1, <1>2, <1>4, <1>6, <1>7, SameBoots DEF RaidInv

-----------------------------------------------------------------------------
(* The whole.                                                              *)

Inv == TableInv /\ RaidInv

\* Nothing is written yet.
LEMMA InitInv ==
    ASSUME Init
    PROVE  Inv
  <1>1. TableInv
    BY StartTable DEF Init
  <1>2. /\ pc = "start" /\ ~InPass /\ ~Writing /\ ~Making /\ pass = 0 /\ runs = 1
        /\ boot = NoDevice /\ map = NoDevice /\ ~old_disktab
    BY DEF Init, InPass, Writing, Making
  <1>3. Typed
    BY <1>2 DEF Init, Typed
  <1>4. Places /\ DiskList /\ AllListed /\ Reached /\ Ended
    BY <1>2 DEF Places, DiskList, AllListed, Reached, Ended
  <1>5. Booting
    BY DEF Init, Booting
  <1> QED
    BY <1>1, <1>3, <1>4, <1>5 DEF Inv, RaidInv

\* The sections of a setup are sections.
LEMMA ImagesAreSections ==
    ASSUME Typed
    PROVE  given.images \subseteq Sections
  <1>1. given \in Range(Setups)
    BY DEF Typed, given, Range
  <1> QED
    BY <1>1, RaidAssumption

\* Each step keeps the table as described.
LEMMA NextTable ==
    ASSUME Inv, Next
    PROVE  TableInv'
  <1>1. ASSUME NEW how, how \notin {"sections", "mapped"}, Leave(how)
        PROVE  TableInv'
    <2>1. /\ descr' = NewDescr /\ image' = 0 /\ image_base' = 0 /\ next' = 1 /\ tables' = 0
          /\ UNCHANGED file /\ pc' = how
      BY <1>1 DEF Leave
    <2>2. ~Making' /\ pc' # "mapped"
      BY <1>1, <2>1 DEF Making
    <2> QED
      BY <2>1, <2>2, GoneTable DEF Inv
  <1>2. CASE Die
    BY <1>1, <1>2 DEF Die
  <1>3. CASE Leave("done")
    BY <1>1, <1>3
  <1>4. CASE UNCHANGED tableVars /\ pc' \in {"pass", "slot", "options", "open", "start"}
    <2>1. ~Making' /\ pc' # "mapped"
      BY <1>4 DEF Making
    <2> QED
      BY <1>4, <2>1, SameTable DEF Inv
  <1>5. CASE MapImages
    <2>1. OpenTable => TableInv'
      BY OpenKeepsTable DEF Inv
    <2>2. Finish => TableInv'
      BY FinishKeepsTable DEF Inv
    <2>3. ASSUME NEW sec \in given.images, AddImage(sec)
          PROVE  TableInv'
      <3>1. sec \in Sections
        BY ImagesAreSections DEF Inv, RaidInv
      <3> QED
        BY <2>3, <3>1, AddKeepsTable DEF Inv
    <2> QED
      BY <1>5, <2>1, <2>2, <2>3 DEF MapImages, MakeTable
  <1>6. ReadOptions => Die \/ (UNCHANGED tableVars /\ pc' = "pass")
    BY DEF ReadOptions
  <1>7. Reread => Die \/ (UNCHANGED tableVars /\ pc' \in {"slot", "options"})
    BY DEF Reread
  <1>8. SkipSlot => UNCHANGED tableVars /\ pc' = "pass"
    BY DEF SkipSlot
  <1>9. TakeSlot => UNCHANGED tableVars /\ pc' = "options"
    BY DEF TakeSlot
  <1>10. Prepare => Die \/ Leave("done") \/ (UNCHANGED tableVars /\ pc' = "open")
    BY DEF Prepare
  <1>11. WriteDisk => UNCHANGED tableVars /\ pc' = "pass"
    BY DEF WriteDisk
  <1>12. \A a, j : AnotherRun(a, j) => UNCHANGED tableVars /\ pc' = "start"
    BY DEF AnotherRun
  <1> QED
    BY <1>2, <1>3, <1>4, <1>5, <1>6, <1>7, <1>8, <1>9, <1>10, <1>11, <1>12
    DEF Next, main, LeaveLoop, Fail

\* Each step keeps the installations as described.
LEMMA NextRaid ==
    ASSUME Inv, Next
    PROVE  RaidInv'
  <1>1. RaidInv
    BY DEF Inv
  <1>2. main => RaidInv'
    BY <1>1, ReadKeeps, LeaveKeeps, RereadKeeps, SkipKeeps, TakeKeeps, PrepareKeeps, MapKeeps,
       WriteKeeps, DieKeeps DEF main, Fail
  <1> QED
    BY <1>1, <1>2, AnotherKeeps DEF Next

\* Nor does a step of nothing change what is said of either.
LEMMA StutterInv ==
    ASSUME Inv, UNCHANGED vars
    PROVE  Inv'
  <1>1. UNCHANGED tableVars /\ pc' = pc
    BY DEF vars
  <1>2. TableInv'
    BY <1>1, SameTable DEF Inv
  <1>3. /\ setup' = setup /\ array' = array /\ job' = job /\ pass' = pass /\ boot' = boot
        /\ map' = map /\ runs' = runs /\ sectors' = sectors /\ UNCHANGED boots
        /\ disktab' = disktab /\ old_disktab' = old_disktab
    BY DEF vars, md, place, boots, diskTab
  <1>4. IsArray' = IsArray /\ Unnamed' = Unnamed
    BY <1>3, ArrayStays
  <1>5. InPass' = InPass /\ Writing' = Writing /\ Making' = Making
    BY <1>1 DEF InPass, Writing, Making
  <1>6. Done' = Done /\ TakenSlots' = TakenSlots
    BY <1>1, <1>3, <1>5 DEF Done, TakenSlots
  <1>7. Typed' /\ Places'
    BY <1>1, <1>3, <1>4, <1>5 DEF Inv, RaidInv, Typed, Places
  <1>8. DiskList' /\ AllListed'
    BY <1>1, <1>3, <1>4, <1>5, <1>6 DEF Inv, RaidInv, DiskList, AllListed
  <1>9. Reached' /\ Ended'
    BY <1>1, <1>3, <1>5, <1>6 DEF Inv, RaidInv, Reached, Ended
  <1> QED
    BY <1>2, <1>3, <1>7, <1>8, <1>9, SameBoots DEF Inv, RaidInv

\* The table and the installations stay as described, whatever happens to the arrays.
THEOREM RaidInvariance == Spec => []Inv
  <1>1. Init => Inv
    BY InitInv
  <1>2. Inv /\ [Next]_vars => Inv'
    BY NextTable, NextRaid, StutterInv DEF Inv
  <1> QED
    BY <1>1, <1>2, PTL DEF Spec

\* Typing a name of an image starts this image, in every table (get_image's
\* comparisons, the loader's search by key and by name).
THEOREM NamesStartTheirImage == Spec => []FindsTheImage
  <1>1. Inv => FindsTheImage
    BY TableFinds DEF Inv
  <1> QED
    BY <1>1, RaidInvariance, PTL

\* Slot 0 is DEFAULT's, or that of the first image, and no slot between is empty.
THEOREM FirstSlotIsDefault == Spec => []DefaultImageIsFirst
  <1>1. Inv => DefaultImageIsFirst
    BY TableOrders DEF Inv
  <1> QED
    BY <1>1, RaidInvariance, PTL

\* Each disk that has a boot sector of LILO's can take the place of the first one,
\* after any runs; and all disks of an array without empty slots get one.
THEOREM ArrayDisksBoot == Spec => []EachDiskBoots
  <1>1. ASSUME Inv
        PROVE  EachDiskBoots
    <2>1. \A d \in Disks : sectors[d] # NoSector =>
              LeadsToItsMap(sectors[d]) /\ OwnAddresses(sectors[d])
      BY <1>1 DEF Inv, RaidInv, Booting, Leads, LeadsToItsMap
    <2>2. ASSUME NoGaps, pc = "done", job = "install", NEW i \in DOMAIN array.slots,
                 Usable(array.slots[i])
          PROVE  sectors[Whole(array.slots[i].device)].map[1] = runs
      <3>1. setup \in DOMAIN Setups /\ array \in Setups[setup].arrays
        BY <1>1 DEF Inv, RaidInv, Typed
      <3>2. i \in 1 .. array.nr_disks
        BY <2>2, <3>1, ArrayIs DEF NoGaps
      <3>3. SlotIn(array, i) = array.slots[i]
        BY <2>2, <3>1, ArrayIs DEF SlotIn
      <3>4. WrittenIn(sectors, array, i, runs)
        BY <1>1, <2>2, <3>2 DEF Inv, RaidInv, Ended
      <3> QED
        BY <2>2, <3>3, <3>4 DEF WrittenIn, UsableIn
    <2> QED
      BY <2>1, <2>2 DEF EachDiskBoots, AllReached
  <1> QED
    BY <1>1, RaidInvariance, PTL
=============================================================================
