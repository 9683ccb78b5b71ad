---------------------------- MODULE MCBootPrompt ----------------------------
(* Two images and a single-key one; a line with an option, one with a mode *)
(* that setvga refuses, and one with a word that only begins with lock.    *)
EXTENDS BootPrompt

MCChars == {" ", "A", "B", "s", "x", "l", "o", "c", "k", "v", "g", "a", "=", "z"}
A == <<"A">>
B == <<"B">>
MCTable == <<A, B, <<"s">>>>
MCSingles == {<<"s">>}

Ax == <<"A", " ", "x">>
AVga == A \o <<" ">> \o Vga
LockAB == Lock \o A \o B
MCLines == {AVga, LockAB}
MCExternals == {Absent, <<>>, Ax}
MCLeftovers == {<<" ", "x">>}
MCStrays == {<<>>}

ForB(x, others) == [i \in Images |-> IF i = B THEN x ELSE others]

\* PROMPT, passwords and FALLBACK; FALLBACK and LOCK; LOCK on the other image.
MCConfigs ==
    {[prompt |-> TRUE, timeout |-> TRUE, message |-> FALSE, fallback |-> ForB(LockAB, <<>>),
      lock |-> {}, password |-> ForB("always", "options")],
     [prompt |-> FALSE, timeout |-> FALSE, message |-> FALSE, fallback |-> ForB(LockAB, <<>>),
      lock |-> {A}, password |-> ForB("none", "none")],
     [prompt |-> FALSE, timeout |-> TRUE, message |-> TRUE, fallback |-> ForB(<<>>, <<>>),
      lock |-> {B}, password |-> ForB("none", "none")]}

-----------------------------------------------------------------------------
\* A line of these tokens.
Spelled(tokens) ==
    IF tokens = <<>> THEN <<>> ELSE Tail(FlattenSeq([n \in DOMAIN tokens |-> <<" ">> \o tokens[n]]))

\* For lines whose tokens begin with "lock" only where they are that word, the scan
\* drops that word, except from a line of nothing else.
ASSUME UnlockedDropsWords ==
    \A tokens \in BoundedSeq({A, Lock, <<"x", "l", "o", "c", "k">>}, 4) :
        LET kept == SelectSeq(tokens, LAMBDA t : t # Lock)
        IN  Unlocked(Spelled(tokens)) = IF kept = <<>> THEN Spelled(tokens) ELSE Spelled(kept)

\* A token that only begins with "lock" goes on as a part of the token before it.
ASSUME UnlockedGlues ==
    /\ Unlocked(A \o <<" ">> \o Lock \o B) = A \o B
    /\ Unlocked(Lock \o A \o B) = B /\ Unlocked(Lock \o A) = <<>>
    /\ Unlocked(Lock \o <<" ">> \o A) = A
=============================================================================
