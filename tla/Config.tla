-------------------------------- MODULE Config --------------------------------
(***************************************************************************)
(* The parser of /etc/lilo.conf, cfg.c, with the way its callbacks use it: *)
(* a section ends at the first item that its table does not know; that     *)
(* item is given back and taken by the parser of the enclosing section.    *)
(* The characters are read by cfg_get_token, module Tokens, as far as      *)
(* cfg_next asks for tokens.                                               *)
(*                                                                         *)
(* There is one table of each shape and a keyword of each kind; the checks *)
(* of the callbacks on the values they read are left out.                  *)
(***************************************************************************)
EXTENDS Tokens

CONSTANTS
    Vocabularies,   \* by name, what a file is made of: lines, and bound: how many
    CommandLines,   \* sets of options, as names and values
    Questions       \* lilo -I: <<>>, or a label and whether its options, if any, hold an "i"

None == "none"
Malformed == [name |-> "?", value |-> <<>>]

Own ==
    [options |-> {"boot", "compact", "lock", "disk", "change-rules"},
     top |-> {"image", "other"},
     image |-> {"range"}, kernel |-> {"root"}, all |-> {"label", "alias", "lock"},
     other |-> {"map-drive", "change"}, disk |-> {"bios"}, partitions |-> {"partition"},
     partition |-> {"start"}, map_drive |-> {"to"}, change |-> {"partition"},
     change_dsc |-> {"activate"}, change_rules |-> {"type", "reset"},
     change_rule |-> {"normal", "hidden"}]
Tables == DOMAIN Own

\* cft_link continues with another table.
Linked(t) ==
    CASE t = "image" -> {"image", "kernel", "all"}
      [] t = "kernel" -> {"kernel", "all"}
      [] t = "other" -> {"other", "all"}
      [] OTHER -> {t}

Flags == {"compact", "lock", "change", "activate", "change-rules", "reset"}
Keywords == UNION {Own[t] : t \in Tables}

\* The tables that main and the callbacks parse, one after the other.
Stages ==
    [main |-> <<"options", "top">>, disk |-> <<"disk", "partitions">>,
     partition |-> <<"partition">>, image |-> <<"image">>, other |-> <<"other">>,
     map_drive |-> <<"map_drive">>, change |-> <<"change">>, change_dsc |-> <<"change_dsc">>,
     change_rules |-> <<"change_rules">>, cr_type |-> <<"change_rule">>]

\* The callback of an entry, None if it has none that parses.
Action(t, name) ==
    CASE t = "options" /\ name = "disk" -> "disk"
      [] t = "options" /\ name = "change-rules" -> "change_rules"
      [] t = "partitions" -> "partition"
      [] t = "top" -> name
      [] t = "other" /\ name = "map-drive" -> "map_drive"
      [] t = "other" /\ name = "change" -> "change"
      [] t = "change" -> "change_dsc"
      [] t = "change_rules" /\ name = "type" -> "cr_type"
      [] OTHER -> None

\* A line of the file: the characters, whether the file ends with them, and what the
\* README ("The following syntax rules apply") says they mean.
ASSUME ConfigAssumption ==
    /\ \A v \in Range(Vocabularies) : v.max \in Nat /\ \A l \in v.lines :
        /\ l.item.name \in Keywords \cup {"=", Malformed.name}
        /\ l.text # <<>> /\ EOF \notin Range(l.text) /\ l.last \in BOOLEAN
    /\ \A line \in CommandLines : \A o \in line : o.name \in Own.options \ {"disk"}
    /\ \A q \in Questions : q = <<>> \/ q[1].images \in BOOLEAN

VARIABLES
    vocabulary, ended,      \* where lines come from; whether the file ends here
    items,                  \* history: the items of the lines so far
    cmdline, question,      \* options of the command line, lilo -I
    last_item,              \* what cfg_return gave back, if anything
    data,                   \* the entries that are set
    stack,                  \* cfg_parse within callbacks: section, stage and its item
    item,                   \* the item read, and
    count,                  \* history: how many there were
    sections,               \* history: what the callbacks have found
    answer,                 \* what lilo -I printed
    pc

source == <<vocabulary, ended, items>>
run == <<cmdline, question>>
parser == <<last_item, data, stack, item, count, sections, answer, pc>>
vars == <<lexer, source, run, parser>>

Set(t, name, value, context) == [table |-> t, name |-> name, value |-> value, context |-> context]

\* cfg_set for the command line, whose context is no table.
Init ==
    /\ LexInit /\ file = <<>>
    /\ vocabulary \in DOMAIN Vocabularies /\ ended = FALSE /\ items = <<>>
    /\ cmdline \in CommandLines /\ question \in Questions
    /\ last_item = <<>>
    /\ data = {Set("options", o.name, o.value, None) : o \in cmdline}
    /\ stack = <<[section |-> "main", stage |-> 1, at |-> 0]>>
    /\ item = Malformed /\ count = 0 /\ sections = {} /\ answer = {} /\ pc = "next"

Frame == stack[Len(stack)]
Table == Stages[Frame.section][Frame.stage]

\* cfg_error.
Error ==
    /\ pc' = "error"
    /\ UNCHANGED <<lexer, source, run, last_item, data, stack, item, count, sections, answer>>

-----------------------------------------------------------------------------
(* Reading.                                                                *)

\* cfg_next needs one more token: a name, what is behind it, a value.
Wants ==
    /\ pc = "next" /\ last_item = <<>> /\ Lexing
    /\ \/ got = <<>>
       \/ Len(got) = 1 /\ got[1] \notin {Null, Equals}
       \/ Len(got) = 2 /\ got[2] = Equals

\* The next line of the file, when all before it is read, or its end.
NextLine ==
    /\ Wants /\ InFile /\ file = <<>> /\ ~ended
    /\ \/ /\ Len(items) < Vocabularies[vocabulary].max
          /\ \E l \in Vocabularies[vocabulary].lines :
                file' = l.text /\ ended' = l.last /\ items' = Append(items, l.item)
       \/ ended' = TRUE /\ UNCHANGED <<file, items>>
    /\ UNCHANGED <<back, var, mode, buf, got, vocabulary, run, parser>>

GetToken ==
    /\ Wants /\ (~InFile \/ file # <<>> \/ ended)
    /\ cfg_get_token
    /\ UNCHANGED <<source, run, parser>>

NameOf(token) == IF Len(token) = 1 THEN token[1] ELSE Malformed.name

Read(name, value, pushed) ==
    /\ item' = [name |-> NameOf(name), value |-> value]
    /\ got' = pushed
    /\ count' = count + 1 /\ pc' = "set"
    /\ UNCHANGED <<file, back, var, mode, buf, source, run, last_item, data, stack, sections,
                   answer>>

\* An item that was given back, or a new one: the token behind it may be the next
\* item's, and is given back.
cfg_next ==
    /\ pc = "next" /\ ~Wants
    /\ \/ /\ last_item # <<>>
          /\ item' = last_item[1] /\ last_item' = <<>> /\ pc' = "set"
          /\ UNCHANGED <<lexer, source, run, data, stack, count, sections, answer>>
       \/ /\ last_item = <<>> /\ Lexing /\ got[1] = Null
          /\ pc' = "return" /\ got' = <<>>
          /\ UNCHANGED <<file, back, var, mode, buf, source, run, last_item, data, stack, item,
                         count, sections, answer>>
       \/ last_item = <<>> /\ (~Lexing \/ got[1] = Equals) /\ Error
       \/ /\ last_item = <<>> /\ Lexing /\ got[1] \notin {Null, Equals}
          /\ \/ got[2] = Null /\ Read(got[1], <<>>, <<>>)
             \/ got[2] \notin {Null, Equals} /\ Read(got[1], <<>>, <<got[2]>>)
             \/ /\ got[2] = Equals
                /\ IF got[3] \in {Null, Equals} THEN Error ELSE Read(got[1], <<got[3]>>, <<>>)

-----------------------------------------------------------------------------
(* Setting, and the sections.                                              *)

Reset(tables, set) == {d \in set : d.table \notin tables}
Forget(t, name, set) == {d \in set : d.table # t \/ d.name # name}

\* Mutant of Cleared: the names of the image before stay.
ClearedNames(section, stage) == {Stages[section][stage]}

\* The tables that are initialized before they are parsed.
Cleared(section, stage) ==
    IF section = "main" THEN {"top"}
    ELSE IF section = "other" THEN Linked("other") \cup Linked("kernel")
    ELSE Linked(Stages[section][stage])

\* What is forgotten when the callback is done; CHANGE and CHANGE-RULES stay set.
CleanedUp(section, set) ==
    CASE section = "disk" -> Forget("options", "disk", set)
      [] section = "partition" -> Reset({"partitions"}, set)
      [] section \in {"image", "other"} -> Reset({"top"}, set)
      [] section = "map_drive" -> Forget("other", "map-drive", set)
      [] section = "change_dsc" -> Forget("change", "partition", set)
      [] section = "cr_type" -> Forget("change_rules", "type", set)
      [] OTHER -> set

\* Mutant of Duplicate: an entry that is set is never set again.
DuplicateAnywhere(d, t) == TRUE

\* An entry set by the same parser is an error, one of the command line stays.
Duplicate(d, t) == d.context = t

cfg_do_set ==
    /\ pc = "set"
    /\ LET known == {t \in Linked(Table) : item.name \in Own[t]}
       IN  IF known = {}
           THEN \* cfg_return
                /\ last_item' = <<item>> /\ pc' = "return"
                /\ UNCHANGED <<lexer, source, run, data, stack, item, count, sections, answer>>
           ELSE \E t \in known :
                LET set == {d \in data : d.table = t /\ d.name = item.name}
                    section == Action(t, item.name)
                IN  IF (item.value = <<>>) # (item.name \in Flags) THEN Error
                    ELSE IF \E d \in set : Duplicate(d, Table) THEN Error
                    ELSE /\ data' = LET now == IF set # {} THEN data
                                          ELSE data \cup {Set(t, item.name, item.value, Table)}
                                    IN  IF set = {} /\ section # None
                                        THEN Reset(Cleared(section, 1), now) ELSE now
                         /\ stack' = IF set # {} \/ section = None THEN stack
                                     ELSE Append(stack, [section |-> section, stage |-> 1,
                                                         at |-> count])
                         /\ pc' = "next"
                         /\ UNCHANGED <<lexer, source, run, last_item, item, count, sections,
                                        answer>>

\* What a callback reads from its tables, other than the items it was called for.
Visible(section) ==
    CASE section = "main" -> {"options"}
      [] section = "image" -> Linked("image")
      [] section = "other" -> Linked("other") \cup Linked("kernel")
      [] OTHER -> Linked(Stages[section][1])
Found(section) ==
    {[name |-> d.name, value |-> d.value] :
        d \in {e \in data : e.table \in Visible(section) /\ Action(e.table, e.name) = None}}

\* cfg_get_strg.
Given(name) == {d.value[1] : d \in {e \in data : e.name = name}}

\* The name behind the last slash.
Basename(path) == From(path, Max({0} \cup {i \in DOMAIN path : path[i] = "/"}) + 1)

\* do_identify, at the end of an IMAGE section: LABEL or else the name of the file,
\* or ALIAS, is the label in question.
Identified ==
    /\ question # <<>> /\ question[1].images
    /\ LET path == CHOOSE p \in Given("image") : TRUE
           label == IF Given("label") # {} THEN Given("label") ELSE {Basename(path)}
       IN  question[1].label \in label \cup Given("alias")

\* cfg_parse comes back: the next stage of the callback, or its end.  In main, no
\* more stages follow the end of the file, and an item that is left is an error.
Return ==
    /\ pc = "return"
    /\ LET section == Frame.section
           last == Frame.stage = Len(Stages[section])
           found == [at |-> Frame.at, settings |-> Found(section)]
       IN  IF section = "main" /\ last /\ last_item # <<>> THEN Error
           ELSE /\ sections' = IF Frame.stage = 1 THEN sections \cup {found} ELSE sections
                /\ IF section = "main" /\ (last \/ last_item = <<>>)
                   THEN pc' = "done" /\ UNCHANGED <<stack, data, answer>>
                   ELSE IF section = "image" /\ Identified
                   THEN pc' = "printed" /\ answer' = Given("image") /\ UNCHANGED <<stack, data>>
                   ELSE /\ pc' = "next"
                        /\ IF last
                           THEN stack' = Front(stack) /\ data' = CleanedUp(section, data)
                           ELSE /\ stack' = [stack EXCEPT ![Len(stack)].stage = @ + 1]
                                /\ data' = Reset(Cleared(section, Frame.stage + 1), data)
                        /\ UNCHANGED answer
                /\ UNCHANGED <<lexer, source, run, last_item, item, count>>

Next == NextLine \/ GetToken \/ cfg_next \/ cfg_do_set \/ Return

\* lilo runs, and the file has an end.
Spec == Init /\ [][Next]_vars /\ WF_vars(Next)

-----------------------------------------------------------------------------
(* Reading a configuration without a parser.                               *)

\* The stages of a section in which an item of this name is known.
StagesFor(section, name) ==
    {k \in DOMAIN Stages[section] : \E t \in Linked(Stages[section][k]) : name \in Own[t]}

\* An item belongs to the last section before it that knows its name, and may begin
\* a section itself.
Placed(read, name) ==
    LET owner == Max({h \in DOMAIN read : /\ read[h].section # None
                                          /\ StagesFor(read[h].section, name) # {}} \cup {0})
        within == read[owner].section
        stage == Min(StagesFor(within, name))
        table == CHOOSE t \in Linked(Stages[within][stage]) : name \in Own[t]
    IN  IF owner = 0 THEN [section |-> None, owner |-> 0, stage |-> 0]
        ELSE [section |-> Action(table, name), owner |-> owner, stage |-> stage]

\* The file is section 1, line i of it stands at i + 1.
Readings ==
    FoldLeft(LAMBDA read, i : Append(read, Placed(read, i.name)),
             <<[section |-> "main", owner |-> 0, stage |-> 0]>>, items)

Plain(r, i) == r[i + 1].section = None
OnCommandLine(r, i) == r[i + 1].owner = 1 /\ \E o \in cmdline : o.name = items[i].name
Once(r, i) ==
    (Plain(r, i) \/ items[i].name \in {"change", "change-rules"}) /\ ~OnCommandLine(r, i)

WellFormed ==
    LET r == Readings
    IN  \A i \in DOMAIN items :
            /\ items[i].value # <<Equals>>
            /\ (items[i].value = <<>>) = (items[i].name \in Flags)
            /\ r[i + 1].owner > 0
            /\ \A k \in r[i + 1].owner .. i - 1 :
                /\ r[k + 1].owner >= r[i + 1].owner
                /\ r[k + 1].owner = r[i + 1].owner =>
                    /\ r[k + 1].stage <= r[i + 1].stage
                    /\ Once(r, i) => items[k].name # items[i].name

\* What is written in section h, 0 for the file.
Settings(r, h) ==
    {items[i] : i \in {j \in DOMAIN items : /\ r[j + 1].owner = h + 1 /\ Plain(r, j)
                                            /\ ~OnCommandLine(r, j)}}

AsWritten ==
    LET r == Readings
    IN  {[at |-> 0, settings |-> Settings(r, 0) \cup cmdline]} \cup
        {[at |-> h, settings |-> Settings(r, h)] : h \in {i \in DOMAIN items : ~Plain(r, i)}}

\* A configuration that is accepted is understood as it is written: each callback
\* finds the items of its own section, all of them and none of another section's,
\* whichever parsers gave them back, and each section is found once; names and
\* values are those that the README gives for blanks, quotes, escapes, continued
\* lines, variables and comments.  do_image and do_other share the tables of the
\* kernel's parameters.  Options of the command line replace those of the file.
SectionsAsWritten == pc = "done" => sections = AsWritten

\* What is accepted is what is well formed: each item has a value as its entry wants
\* and is known to a section that has not been left, the parts of a section come in
\* order, and an entry is set once in its section and as often as there are sections.
AcceptsTheWellFormed == pc \in {"done", "error"} => (pc = "done") = WellFormed

\* Whatever is given back to whom, character, token or item, the parser comes to an
\* end with every file.
ParsingEnds == <>(pc \in {"done", "error", "printed"})

\* The labels that an IMAGE section answers to.
LabelsOf(h) ==
    LET values(name) == {s.value[1] : s \in {t \in Settings(Readings, h) : t.name = name /\ t.value # <<>>}}
    IN  values("alias") \cup
        (IF values("label") # {} THEN values("label") ELSE {Basename(items[h].value[1])})

\* The path of the first image that has the label or the alias in question, nothing
\* if there is none.
RightAnswer ==
    LET hits == {h \in DOMAIN items : /\ items[h].name = "image" /\ items[h].value # <<>>
                                      /\ question[1].label \in LabelsOf(h)}
    IN  IF hits = {} THEN {} ELSE {items[Min(hits)].value[1]}

AnswerGiven == question # <<>> /\ pc \in {"printed", "done"}

\* lilo -I prints the path of the first image that has the label or the alias, with
\* no name of another section's, and nothing only if there is no such image; this
\* is without options to -I, or with the option "i" that asks for images; with "v"
\* alone, do_identify passes over every image.
IdentifiesTheImage == AnswerGiven /\ question[1].images => answer = RightAnswer
=============================================================================
