----------------------------- MODULE CommandLine -----------------------------
(***************************************************************************)
(* What the second stage loader of LILO (second.S) makes of the characters *)
(* of a command line: how they go into its buffer, how "lock" is taken out *)
(* of it, and which image the line names.                                  *)
(*                                                                         *)
(* A line is a sequence of characters.  A byte is a character of Chars or  *)
(* one that the loader ignores; upper and lower case (LCF_IGNORECASE) are  *)
(* the same character.  Of the words that the loader looks for, "lock" and *)
(* a "vga=" that setvga refuses are covered, "mem=" and "kbd=" are not.    *)
(***************************************************************************)
EXTENDS Integers, SequencesExt

CONSTANTS
    Chars,          \* the printable characters, Blank among them
    Blank,          \* the space
    Table,          \* the names in the descriptor table, in its order
    Singles,        \* those with FLAG_SINGLE and a name of one character
    MaxChars        \* CL_LENGTH, the size of cmdline

Lock == <<"l", "o", "c", "k">>
Vga == <<"v", "g", "a", "=">>

Images == Range(Table)
First == Head(Table)

\* The labels have no spaces in them.
ASSUME LineAssumption ==
    /\ Blank \in Chars
    /\ Table \in Seq(Seq(Chars \ {Blank}) \ {<<>>}) /\ Table # <<>>
    /\ Singles \subseteq Images /\ \A i \in Singles : Len(i) = 1
    /\ MaxChars \in Nat \ {0}

-----------------------------------------------------------------------------
(* Input.                                                                  *)

\* gotinp: a character goes to the end of what the buffer holds.  It is ignored
\* when there is no room, a blank also behind a blank and at the beginning.
Take(line, c) ==
    IF Len(line) = MaxChars \/ (c = Blank /\ (line = <<>> \/ Last(line) = Blank))
    THEN line ELSE Append(line, c)

\* The buffer when all these characters have come in.
Glue(old, new) ==
    LET taken[n \in 0 .. Len(new)] ==
            IF n = 0 THEN old ELSE Take(taken[n - 1], new[n])
    IN  taken[Len(new)]

\* sklp: the first character of an empty buffer may be a single key: that line is
\* run at once.
KeyLine(new) == <<Head(Glue(<<>>, new))>>
SingleKey(old, new) == old = <<>> /\ Glue(old, new) # <<>> /\ KeyLine(new) \in Singles

-----------------------------------------------------------------------------
(* The scan for options.                                                   *)

\* crnul: a trailing space is removed.
Trimmed(l) == IF l # <<>> /\ Last(l) = Blank THEN Front(l) ELSE l

\* The places (the number of characters before) where the scan finds this word.
\* Only the beginning of a token is compared with it, not its end.
Begins(l, word) ==
    {k \in 0 .. Len(l) - Len(word) :
        (k = 0 \/ l[k] = Blank) /\ SubSeq(l, k + 1, k + Len(word)) = word}

\* A mode that setvga refuses ends the scan.
Refused(l) == Begins(l, Vga) # {}
Scanned(l) == SubSeq(l, 1, CHOOSE k \in Begins(l, Vga) : \A j \in Begins(l, Vga) : k <= j)

\* vsktl: "lock" is skipped and the copy goes back over the character before it, a
\* space, or prechr at the beginning of the line.  What is copied, from prechr on.
Copied(l) ==
    LET from == <<Blank>> \o l
        copy[n \in 0 .. Len(from)] ==
            IF n = 0 THEN <<>>
            ELSE IF \E k \in Begins(l, Lock) : n \in k + 1 .. k + 5 THEN copy[n - 1]
            ELSE Append(copy[n - 1], from[n])
    IN  copy[Len(from)]

\* The line after the scan.  When all of it is skipped, the mark of its end goes to
\* prechr and the buffer is as before.
Unlocked(l) ==
    IF Begins(l, Lock) = {} \/ Copied(l) = <<>> THEN l ELSE Tail(Copied(l))

\* The buffer when the scan was ended by a refused mode: no end was marked.
Abandoned(l) ==
    LET front == Tail(Copied(Scanned(l)))
    IN  front \o SubSeq(l, Len(front) + 1, Len(l))

-----------------------------------------------------------------------------
(* The name and the options.                                               *)

\* bcmd: the images whose name is the first token.
Named(l) == {i \in Images : l = i \/ IsPrefix(Append(i, Blank), l)}

\* locopt: something follows the first space.
WithOptions(l) == \E k \in 1 .. Len(l) - 1 : l[k] = Blank
=============================================================================
