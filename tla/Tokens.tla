-------------------------------- MODULE Tokens --------------------------------
(***************************************************************************)
(* The characters of the configuration file: cfg_get_token of cfg.c with   *)
(* next, next_raw and again.  Three sources are read one before the other, *)
(* the character given back, the rest of a variable's value and the file;  *)
(* quotes, escapes, continued lines and comments decide what a token is.   *)
(*                                                                         *)
(* A run of letters and digits is one symbol, and so is each special       *)
(* character.  A token is the sequence of the symbols in it.               *)
(***************************************************************************)
EXTENDS Integers, SequencesExt

CONSTANTS
    Environment,    \* the environment: names, as sequences, and their values
    MaxToken        \* MAX_TOKEN, in symbols

EOF == "eof"
Blank == {" ", "tab", "nl"}
Special == Blank \cup {"=", "#", "quote", "\\", "$", "{", "}", "/", EOF}
Null == <<EOF>>
Equals == <<"=">>

ASSUME TokenAssumption ==
    /\ \A name \in DOMAIN Environment : EOF \notin Range(Environment[name])
    /\ MaxToken \in Nat \ {0}

VARIABLES
    file,       \* what is not read of the file
    back,       \* at most one character, of again()
    var,        \* the rest of the value of a variable (next)
    mode,       \* where in cfg_get_token
    buf,        \* the token so far
    got         \* the tokens that cfg_next holds, the one given back first

lexer == <<file, back, var, mode, buf, got>>

LexInit ==
    /\ back = <<>> /\ var = <<>> /\ mode = "blank" /\ buf = <<>> /\ got = <<>>

-----------------------------------------------------------------------------
(* Characters.                                                             *)

Peek(s) == IF s = <<>> THEN EOF ELSE Head(s)
From(s, i) == SubSeq(s, i, Len(s))

InFile == back = <<>> /\ var = <<>>
AtVariable == mode # "comment" /\ InFile /\ Peek(file) = "$"
EscapedDollar == mode # "comment" /\ InFile /\ Peek(file) = "\\" /\ Peek(From(file, 2)) = "$"

\* next(), or next_raw() in a comment, where a variable's value is passed over.
Char ==
    IF back # <<>> THEN back[1]
    ELSE IF var # <<>> /\ mode # "comment" THEN Head(var)
    ELSE IF EscapedDollar THEN "$"
    ELSE Peek(file)

\* Mutant of Take: what was given back is not forgotten.
TakeStays(again) ==
    /\ back' = IF again = <<>> THEN back ELSE again
    /\ var' = IF back = <<>> /\ var # <<>> /\ mode # "comment" THEN Tail(var) ELSE var
    /\ file' = IF back # <<>> \/ var # <<>> THEN file ELSE From(file, 2)

\* The character is taken, and given back if again is not empty.
Take(again) ==
    /\ back' = again
    /\ var' = IF back = <<>> /\ var # <<>> /\ mode # "comment" THEN Tail(var) ELSE var
    /\ file' = IF back # <<>> \/ (var # <<>> /\ mode # "comment") THEN file
               ELSE IF EscapedDollar THEN From(file, 3)
               ELSE From(file, 2)

\* Where the name of a variable ends: a closing brace, or what is no letter.
NameEnd(braced, from) ==
    SelectInSeq(from, LAMBDA c : IF braced THEN c = "}" ELSE c \in Special)

\* $name or ${name}: the first character belongs to the name without braces in
\* any case; the end of the file or of the line behind it is an error.
Variable ==
    LET braced == Peek(From(file, 2)) = "{"
        from == From(file, 3)
        end == NameEnd(braced, from)
        name == (IF braced THEN <<>> ELSE <<Peek(From(file, 2))>>) \o SubSeq(from, 1, end - 1)
    IN  [known |-> /\ end # 0 /\ Len(name) <= MaxToken /\ name \in DOMAIN Environment
                   /\ {from[i] : i \in 1 .. end} \cap {"nl", "tab"} = {},
         name |-> name,
         rest |-> From(from, IF braced THEN end + 1 ELSE end)]

-----------------------------------------------------------------------------
(* cfg_get_token, one character at a time.                                 *)

Lexing == mode # "failed"
Goes(m, b) == mode' = m /\ buf' = b /\ UNCHANGED got
LexError == mode' = "failed" /\ UNCHANGED <<file, back, var, buf, got>>
Give(token) == got' = Append(got, token) /\ mode' = "blank" /\ buf' = <<>>

\* One more character, unless that fills the buffer.
Keep(m, c, again) ==
    IF Len(buf) + 1 = MaxToken THEN LexError
    ELSE Take(again) /\ Goes(m, Append(buf, c))

\* next() goes on with the value of the variable.
Expand ==
    /\ Lexing /\ AtVariable
    /\ IF Variable.known
       THEN /\ var' = Environment[Variable.name] /\ file' = Variable.rest
            /\ UNCHANGED <<back, mode, buf, got>>
       ELSE LexError

Reads(m) == Lexing /\ mode = m /\ ~AtVariable

\* Between tokens.
ReadBlank ==
    /\ Reads("blank")
    /\ CASE Char \in Blank -> Take(<<>>) /\ Goes("blank", <<>>)
         [] Char = EOF -> Take(<<>>) /\ Give(Null)
         [] Char = "#" -> Take(<<>>) /\ Goes("comment", <<>>)
         [] Char = "=" -> Take(<<>>) /\ Give(Equals)
         [] Char = "quote" -> Take(<<>>) /\ Goes("quoted", <<>>)
         [] Char = "\\" -> Take(<<>>) /\ Goes("escaped", <<>>)
         [] OTHER -> Keep("word", Char, <<>>)

ReadComment ==
    /\ Reads("comment")
    /\ CASE Char = EOF -> Take(<<>>) /\ Give(Null)
         [] Char = "nl" -> Take(<<>>) /\ Goes("blank", <<>>)
         [] OTHER -> Take(<<>>) /\ Goes("comment", <<>>)

\* Mutant of Ends: a word goes on over a number sign.
EndsBlank == Blank \cup {"=", EOF}

Ends == Blank \cup {"#", "=", EOF}

\* A word ends before the first of Ends, which is given back.
ReadWord ==
    /\ Reads("word")
    /\ CASE Char \in Ends -> Take(<<Char>>) /\ Give(buf)
         [] Char = "\\" -> Take(<<>>) /\ Goes("escaped", buf)
         [] OTHER -> Keep("word", Char, <<>>)

\* Behind a backslash: a newline is dropped, a tab becomes a blank.
ReadEscaped ==
    /\ Reads("escaped")
    /\ CASE Char = EOF -> LexError
         [] Char = "nl" -> Take(<<>>) /\ Goes("word", buf)
         [] Char = "tab" -> Keep("word", " ", <<>>)
         [] OTHER -> Keep("word", Char, <<>>)

ReadQuoted ==
    /\ Reads("quoted")
    /\ CASE Char = "quote" -> Take(<<>>) /\ Give(buf)
         [] Char = "\\" -> Take(<<>>) /\ Goes("quoted escape", buf)
         [] Char \in {EOF, "nl", "tab"} -> LexError
         [] OTHER -> Keep("quoted", Char, <<>>)

ReadQuotedEscape ==
    /\ Reads("quoted escape")
    /\ CASE Char = "nl" -> Take(<<>>) /\ Goes("joining", buf)
         [] Char \in {"quote", "\\"} -> Keep("quoted", Char, <<>>)
         [] OTHER -> LexError

\* A line that ends in a backslash: it and the blanks that begin the next one are
\* a single blank.
ReadJoining ==
    /\ Reads("joining")
    /\ IF Char \in {" ", "tab"} THEN Take(<<>>) /\ Goes("joining", buf)
       ELSE Keep("quoted", " ", <<Char>>)

cfg_get_token ==
    \/ Expand
    \/ ReadBlank \/ ReadComment
    \/ ReadWord \/ ReadEscaped
    \/ ReadQuoted \/ ReadQuotedEscape \/ ReadJoining
=============================================================================
