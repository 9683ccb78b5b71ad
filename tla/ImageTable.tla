----------------------------- MODULE ImageTable -----------------------------
(***************************************************************************)
(* The table of image names that the map installer builds from the         *)
(* configuration file (bsect.c: bsect_common, bsect_done, get_image,       *)
(* check_fallback), and how the second stage loader finds an image in it:  *)
(* by a name typed, by a single key, or at slot 0.  main makes the table   *)
(* once or, for an array, once for each disk: module RaidInstall.          *)
(*                                                                         *)
(* A name is its first letter, which single-key entries are told apart by, *)
(* and the rest of it, "" for a name of one character.                     *)
(***************************************************************************)
EXTENDS Integers, SequencesExt, FiniteSetsExt

CONSTANTS
    Letters, Rests,     \* parts of names
    Fallbacks,          \* what FALLBACK may start with: names, or NoName
    MaxImages,          \* MAX_IMAGES
    MaxSections         \* bound: image sections in the configuration file

NoName == [letter |-> "", rest |-> ""]
Names == [letter : Letters, rest : Rests]

\* An image section: ALIAS (or NoName), LABEL, SINGLE-KEY, LOCK, FALLBACK.
Sections ==
    [alias : Names \cup {NoName}, label : Names, single : BOOLEAN,
     lock : BOOLEAN, fallback : Fallbacks]

ASSUME TableAssumption ==
    /\ "" \in Rests /\ "" \notin Letters
    /\ Fallbacks \subseteq Names \cup {NoName} /\ NoName \in Fallbacks
    /\ MaxImages \in Nat \ {0} /\ MaxSections \in Nat

VARIABLES
    config,     \* the sections read so far; later tables are made of the same
    whole,      \* history: the file has been read to its end
    default,    \* DEFAULT, or NoName
    descr,      \* descrs.d.descr: [name, single, section] of each slot
    image, image_base,  \* the next slot; 1 while DEFAULT's slot 0 is free
    fallback,   \* the names that FALLBACK lines start with
    next,       \* the section to read next
    tables,     \* history: how many tables this run has begun
    pc          \* "open", "sections", "mapped", "refused" here

file == <<config, whole, default>>
table == <<descr, image, image_base, fallback>>
tableVars == <<file, table, next, tables>>

\* One slot past the end: get_image compares with the slot it would use.
Slots == 0 .. MaxImages
EmptySlot == [name |-> NoName, single |-> FALSE, section |-> 0]

\* LCF_IGNORECASE only widens what is equal.
Short(n) == n.rest = ""

NewDescr == [s \in Slots |-> EmptySlot]

\* The statics of bsect.c when lilo starts.
TableInit ==
    /\ config = <<>> /\ whole = FALSE
    /\ default \in Names \cup {NoName}
    /\ descr = NewDescr /\ image = 0 /\ image_base = 0 /\ fallback = <<>>
    /\ next = 1 /\ tables = 0

-----------------------------------------------------------------------------
\* The first slot of the images when slot 0 is kept for DEFAULT.
FreeSlot == 1

\* The end of bsect_open: only a DEFAULT resets the slot counters.
OpenTable ==
    /\ pc = "open"
    /\ pc' = "sections" /\ next' = 1 /\ tables' = tables + 1
    /\ descr' = NewDescr
    /\ IF default # NoName THEN image' = FreeSlot /\ image_base' = 1
       ELSE UNCHANGED <<image, image_base>>
    /\ UNCHANGED <<file, fallback>>

\* Mutant of Clash: only the keys of the new name are compared.
ClashNew(n, single, other) ==
    n.letter = other.name.letter /\ single /\ Short(n)

\* A single-key name and another name that begins with the key.
Clash(n, single, other) ==
    /\ n.letter = other.name.letter
    /\ (single /\ Short(n)) \/ (other.single /\ Short(other.name))

\* The slots that a new name is compared with, the next free one included.
Compared(t) == t.image_base .. t.image

Taken(t, n, single) ==
    \E other \in Compared(t) : n = t.descr[other].name \/ Clash(n, single, t.descr[other])

TakesDefault(t, n) == t.image_base = 1 /\ default = n

Full(t) == t.image = MaxImages

\* get_image fails for a name that is taken and when the table is full.
Fits(t, n, single) == ~Taken(t, n, single) /\ (TakesDefault(t, n) \/ ~Full(t))

\* Mutant of Put: DEFAULT is put behind the others.
PutLast(t, n, single, section) ==
    [descr |-> [t.descr EXCEPT ![t.image] = [name |-> n, single |-> single, section |-> section]],
     image |-> t.image + 1,
     image_base |-> IF TakesDefault(t, n) THEN 0 ELSE t.image_base]

\* get_image: DEFAULT goes to slot 0, any other name to the next one.
Put(t, n, single, section) ==
    LET slot == IF TakesDefault(t, n) THEN 0 ELSE t.image
    IN  [descr |-> [t.descr EXCEPT ![slot] = [name |-> n, single |-> single, section |-> section]],
         image |-> IF TakesDefault(t, n) THEN t.image ELSE t.image + 1,
         image_base |-> IF TakesDefault(t, n) THEN 0 ELSE t.image_base]

\* Errors of bsect_common and of bsect_done.
BadSection(sec) ==
    \/ sec.lock /\ sec.fallback # NoName
    \/ sec.single /\ ~Short(sec.label) /\ (sec.alias = NoName \/ ~Short(sec.alias))

\* A section in the file: the one read before, or one more.
SectionAt(sec) ==
    IF next <= Len(config) THEN sec = config[next] /\ UNCHANGED config
    ELSE ~whole /\ next <= MaxSections /\ config' = Append(config, sec)

AddImage(sec) ==
    /\ pc = "sections" /\ SectionAt(sec)
    /\ LET t0 == [descr |-> descr, image |-> image, image_base |-> image_base]
           t1 == IF sec.alias = NoName THEN t0 ELSE Put(t0, sec.alias, sec.single, next)
           fits == /\ ~BadSection(sec)
                   /\ sec.alias # NoName => Fits(t0, sec.alias, sec.single)
                   /\ Fits(t1, sec.label, sec.single)
           t2 == Put(t1, sec.label, sec.single, next)
       IN  IF fits
           THEN /\ descr' = t2.descr /\ image' = t2.image /\ image_base' = t2.image_base
                /\ fallback' = IF sec.fallback = NoName THEN fallback
                               ELSE Append(fallback, sec.fallback)
                /\ next' = next + 1
                /\ UNCHANGED pc
           ELSE pc' = "refused" /\ UNCHANGED <<table, next>>
    /\ UNCHANGED <<whole, default, tables>>

InTable(n) == \E s \in Slots \ {MaxImages} : descr[s].name = n

\* bsect_number: none while slot 0 waits for DEFAULT.
NumberOfImages == IF image_base = 1 THEN 0 ELSE image

\* check_fallback: a name no image has.
Missing(i) == ~InTable(fallback[i])

\* The end of the file and the checks of main.
Finish ==
    /\ pc = "sections" /\ next > Len(config)
    /\ whole' = TRUE
    /\ pc' = IF NumberOfImages = 0 \/ \E i \in DOMAIN fallback : Missing(i)
             THEN "refused" ELSE "mapped"
    /\ UNCHANGED <<config, default, table, next, tables>>

\* All of it, for a file of some sections.
MakeTable(sections) == OpenTable \/ (\E sec \in sections : AddImage(sec)) \/ Finish

-----------------------------------------------------------------------------
(* What the loader finds; it goes through all slots in their order.        *)

First(hits) == IF hits = {} THEN MaxImages ELSE Min(hits)

\* The first key typed at the prompt.
KeyHit(letter) ==
    First({s \in Slots \ {MaxImages} : /\ descr[s].single /\ Short(descr[s].name)
                                        /\ descr[s].name.letter = letter})

\* bcmd: the whole name.
NameHit(n) == First({s \in Slots \ {MaxImages} : descr[s].name = n})

\* The slot started by typing a name; MaxImages if there is none.
Started(n) == IF KeyHit(n.letter) # MaxImages THEN KeyHit(n.letter) ELSE NameHit(n)

-----------------------------------------------------------------------------
NamesOf(i) == {config[i].label, config[i].alias} \ {NoName}

\* Typing a label or an alias of an image starts this image: no name is lost or
\* found twice, and no single key keeps a name of another image from being typed
\* ("no other image label or alias may start with that character").  Other names
\* start no image unless they begin with a key.
FindsTheImage ==
    pc = "mapped" =>
        \A n \in Names :
            LET owners == {i \in DOMAIN config : n \in NamesOf(i)}
            IN  /\ \A i \in owners : descr[Started(n)].section = i
                /\ owners = {} /\ KeyHit(n.letter) = MaxImages => Started(n) = MaxImages

\* Slot 0 is the default image: DEFAULT, or the image that appears first, and the
\* names lie together, as the loader lists them up to the first empty slot.  The
\* later disks of an array keep the image counter of the first when there is no
\* DEFAULT (bsect.c:213): there slot 0 stays empty.
DefaultImageIsFirst ==
    pc = "mapped" /\ (default # NoName \/ tables = 1) =>
        /\ {s \in Slots : descr[s].name # NoName} = 0 .. image - 1
        /\ IF default # NoName THEN descr[0].name = default ELSE descr[0].section = 1
=============================================================================
