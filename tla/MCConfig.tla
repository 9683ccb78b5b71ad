------------------------------- MODULE MCConfig -------------------------------
(***************************************************************************)
(* Configurations of a few lines: of words for the options and disks, for  *)
(* the images, for the drives and partitions that another system is given, *)
(* and for the partition types, each with one kind of mistake and one way  *)
(* to lay out each of its items; and of options whose values are written   *)
(* in every way that the syntax rules of the README name.                  *)
(***************************************************************************)
EXTENDS Config

CONSTANTS MaxItems, MaxLayouts

Line(meant, text) == [item |-> meant, text |-> text, last |-> FALSE]
LastLine(meant, text) == [item |-> meant, text |-> text, last |-> TRUE]

Flag(name) == [name |-> name, value |-> <<>>]
Strg(name, token) == [name |-> name, value |-> <<token>>]

\* Two ways to write an item down.
FlagLine(name) == Line(Flag(name), <<" ", name, "nl">>)
StrgLine(name, word) == Line(Strg(name, <<word>>), <<name, "=", word, "nl">>)
Spaced(name, word) ==
    Line(Strg(name, <<word>>), <<name, "tab", "=", " ", "quote", word, "quote", "#", "=", "nl">>)

DiskWords ==
    {StrgLine("boot", "sda"), FlagLine("compact"), StrgLine("compact", "yes"),
     Spaced("disk", "sda"), StrgLine("bios", "80"), Spaced("partition", "sda1"),
     StrgLine("start", "63")}
ImageWords ==
    {Line(Strg("image", <<"/", "old">>), <<"image", "=", "/", "old", "nl">>),
     Spaced("image", "new"), StrgLine("other", "dos"), StrgLine("root", "sda1"),
     StrgLine("label", "a"), StrgLine("alias", "old"), FlagLine("label"), FlagLine("lock")}
OtherWords ==
    {StrgLine("other", "dos"), StrgLine("map-drive", "80"), Spaced("to", "81"),
     FlagLine("change"), StrgLine("partition", "sda1"), FlagLine("activate"),
     Line(Flag("="), <<"=", "nl">>)}
TypeWords ==
    {FlagLine("change-rules"), StrgLine("type", "os2"), Spaced("normal", "7"),
     StrgLine("hidden", "17"), FlagLine("reset"), StrgLine("boot", "sda")}

\* "a b" quoted, with an escaped blank or tab, and over two lines; special characters
\* in quotes and behind backslashes; variables, with and without braces, in quotes,
\* of an item's name, and of a whole line; empty values; the end of the file.
Blanked == Strg("boot", <<"a", " ", "b">>)
Layouts ==
    {Line(Blanked, <<"boot", "=", "quote", "a", " ", "b", "quote", " ">>),
     Line(Blanked, <<"boot", "=", "a", "\\", "tab", "b", "#", "\\", "nl">>),
     Line(Blanked, <<"boot", "=", "quote", "a", "\\", "nl", "tab", " ", "b", "quote", "nl">>),
     Line(Strg("boot", <<"a", "#", "b">>), <<"quote", "boot", "quote", "=", "a", "\\", "nl", "\\", "#", "b", "nl">>),
     Line(Strg("boot", <<"quote", "\\">>),
          <<"boot", "=", "quote", "\\", "quote", "\\", "\\", "quote", "nl">>),
     Line(Strg("boot", <<"\\", "=">>), <<"boot", "=", "\\", "\\", "\\", "=", "nl">>),
     Line(Strg("boot", <<"$", "DISK">>), <<"boot", "=", "quote", "\\", "$", "DISK", "quote", "nl">>),
     Line(Strg("boot", <<"/", "sda", "/">>), <<"boot", "=", "$", "DISK", "/", "nl">>),
     Line(Strg("boot", <<"/", "sda", "1">>), <<"boot", "=", "quote", "$", "{", "DISK", "}", "1", "quote", "nl">>),
     Line(Flag("compact"), <<"$", "{", "EMPTY", "}", "$", "{", "FLAG", "}", "nl">>),
     Line(Strg("boot", <<"sdb">>), <<"#", "$", "quote", "nl", "$", "{", "LINE", "}", "nl">>),
     Line(Strg("boot", <<>>), <<"boot", "=", "quote", "quote", "nl">>),
     LastLine(Flag("compact"), <<"compact", "#">>),
     LastLine(Strg("boot", <<"a">>), <<"boot", "=", "a">>),
     \* what the rules exclude
     Line(Malformed, <<"boot", "=", "quote", "a", "nl">>),
     Line(Malformed, <<"boot", "=", "quote", "\\", "a", "quote", "nl">>),
     Line(Malformed, <<"boot", "=", "$", "{", "OTHER", "}", "nl">>),
     Line(Malformed, <<"boot", "=", "a", "b", "c", "d", "e", "f", "nl">>),
     LastLine(Malformed, <<"boot", "=", "quote", "a">>),
     LastLine(Malformed, <<"boot", "=", "a", "\\">>),
     LastLine(Malformed, <<"boot", "=">>)}

Words(name) ==
    CASE name = "disks" -> DiskWords [] name = "images" -> ImageWords
      [] name = "others" -> OtherWords [] name = "types" -> TypeWords [] name = "layouts" -> Layouts
MCVocabularies ==
    [name \in {"disks", "images", "others", "types", "layouts"} |->
        [lines |-> Words(name), max |-> IF name = "layouts" THEN MaxLayouts ELSE MaxItems]]

Variables == {<<"DISK">>, <<"EMPTY">>, <<"FLAG">>, <<"LINE">>}
MCEnvironment ==
    [name \in Variables |->
        CASE name = <<"DISK">> -> <<"/", "sda">>
          [] name = <<"EMPTY">> -> <<>>
          [] name = <<"FLAG">> -> <<"compact">>
          [] name = <<"LINE">> -> <<"boot", " ", "=", "sdb">>]

MCCommandLines == {{}, {Strg("boot", <<"sdb">>)}}
MCQuestions == {<<>>, <<[label |-> <<"a">>, images |-> TRUE]>>,
                <<[label |-> <<"old">>, images |-> TRUE]>>,
                <<[label |-> <<"a">>, images |-> FALSE]>>}
=============================================================================
