--------------------------- MODULE BootPromptProofs ---------------------------
(***************************************************************************)
(* Theorems about the second stage loader, for every descriptor table,     *)
(* every configuration and any command lines, through any number of        *)
(* restarts and power cycles.                                              *)
(***************************************************************************)
EXTENDS BootPrompt, SequenceTheorems, TLAPS

\* The labels from the choice of an image to the running system.
Starting == {"load", "fallback", "options", "lock", "kernel", "running"}

\* The labels at which a line has been taken, or asked for, in this power cycle.
Taken == {"delay", "message", "input", "stray", "password", "lost"} \cup Starting

\* The labels that a line that is accepted may lead to.
Accepting == {"message", "input", "password", "load"}

\* A line that can still be booted by itself was armed by whoever stored it; a
\* line that is about to be used was erased, or the erasure is known to have failed.
LineArmed ==
    /\ sector.magic = "on" /\ sector.line # <<>> => armed
    /\ pc = "start" /\ sector.magic = "on" => unwritten
    /\ pc \in {"erase", "start"} /\ stored # <<>> => armed

\* The installer and -R know three magic numbers.
KnownMagic == sector.magic \in {"on", "off", "none"}

-----------------------------------------------------------------------------
\* Where the parts of the loader lead.
LEMMA FindLeads ==
    ASSUME NEW l, NEW a, Find(l, a)
    PROVE  /\ pc' \in Accepting \cup {"stray", "lost"}
           /\ es' = "own" => pc' \in Accepting
  BY DEF Find, Boot, Prompt, Loading, Accepting

LEMMA BootFirstLeads ==
    ASSUME NEW a, BootFirst(a)
    PROVE  /\ pc' \in {"password", "load", "lost"}
           /\ es' = "own" => pc' # "lost"
  BY DEF BootFirst, Boot, Loading

\* Where a line that is accepted leads.
LEMMA AcceptLeads ==
    ASSUME NEW l, NEW a, Accept(l, a)
    PROVE  pc' \in Accepting
  <1>1. es' = "own"
    BY DEF Accept
  <1>2. \/ \E k : Prompt(k)
        \/ \E k : Find(k, a)
        \/ BootFirst(a)
    BY DEF Accept
  <1> QED
    BY <1>1, <1>2, FindLeads, BootFirstLeads DEF Prompt, Accepting

\* Where a line that is fed to the prompt leads.
LEMMA FeedLeads ==
    ASSUME NEW l, NEW source, NEW segment, Feed(l, source, segment)
    PROVE  pc' \in Accepting \cup {"delay"}
  <1>1. CASE Accept(KeyLine(l), FALSE)
    BY <1>1, AcceptLeads
  <1> QED
    BY <1>1 DEF Feed

\* Where a prompt leads.
LEMMA PromptLeads ==
    ASSUME NEW l, Prompt(l)
    PROVE  /\ pc' \in {"message", "input", "stray"}
           /\ es' = "own" => pc' # "stray"
  BY DEF Prompt

\* The steps that leave the sector and what is known of it alone.
QuietStep ==
    \/ ShiftKey \/ Interrupt \/ TouchKey \/ ListImages \/ PasswordGood \/ PasswordWrong
    \/ (\E s \in Strays : StrayInput(s)) \/ ShowMessage
    \/ (\E l \in Lines \cup {<<>>} : TypeLine(l))
    \/ UseExternal \/ FallThrough \/ DelayPasses \/ InputTimeout \/ PasswordTimeout
    \/ LoadMap \/ LoadOptions \/ LoadKernel \/ Restart \/ PowerOn \/ PowerOff

\* Steps that leave the stored line, the sector and what is armed alone.
LEMMA QuietSteps ==
    ASSUME QuietStep
    PROVE  /\ UNCHANGED <<conf, sector, unwritten, armed>>
           /\ pc' \notin {"erase", "start"}
           /\ pc' \in {"options", "lock", "kernel"} => LoadOptions
  <1> USE DEF Machine, memory, history
  <1> DEFINE Quiet == /\ UNCHANGED <<conf, sector, unwritten, armed>>
                     /\ pc' \in Taken \ {"fallback", "options", "lock", "kernel", "running"}
  <1>1. CASE ShiftKey \/ Interrupt \/ ListImages \/ PasswordWrong \/ PasswordTimeout
    <2>1. \E l : Prompt(l)
      BY <1>1 DEF ShiftKey, Interrupt, ListImages, PasswordWrong, PasswordTimeout
    <2>2. UNCHANGED <<conf, sector, unwritten, armed>>
      BY <1>1 DEF ShiftKey, Interrupt, ListImages, PasswordWrong, PasswordTimeout
    <2> QED
      BY <2>1, <2>2, PromptLeads
  <1>2. CASE TouchKey \/ ShowMessage
    BY <1>2 DEF TouchKey, ShowMessage
  <1>3. CASE PasswordGood
    BY <1>3 DEF PasswordGood, Loading
  <1>4. ASSUME NEW l \in Lines \cup {<<>>}, TypeLine(l)
        PROVE  Quiet
    <2>1. \E line : Accept(line, FALSE)
      BY <1>4 DEF TypeLine
    <2> QED
      BY <1>4, <2>1, AcceptLeads DEF TypeLine, Accepting, Taken, Starting
  <1>5. CASE UseExternal
    <2>1. Prompt(cmdline) \/ Feed(external, "external", "other")
      BY <1>5 DEF UseExternal
    <2> QED
      BY <1>5, <2>1, FeedLeads, PromptLeads DEF UseExternal, Accepting
  <1>6. CASE FallThrough
    <2>1. Prompt(cmdline) \/ BootFirst(auto) \/ Find(cmdline, auto)
      BY <1>6 DEF FallThrough, Bfirst
    <2> QED
      BY <1>6, <2>1, FindLeads, PromptLeads, BootFirstLeads DEF FallThrough, Accepting
  <1>7. CASE DelayPasses
    BY <1>7, AcceptLeads DEF DelayPasses, Accepting
  <1>8. CASE InputTimeout
    BY <1>8, BootFirstLeads DEF InputTimeout, Brto
  <1>9. CASE LoadMap \/ LoadOptions \/ LoadKernel \/ Restart \/ PowerOn \/ PowerOff
    BY <1>9 DEF LoadMap, LoadOptions, LoadKernel, Restart, PowerOn, PowerOff
  <1>10. ASSUME NEW s \in Strays, StrayInput(s)
         PROVE  Quiet
    <2>1. pc' \in {"input", "stray", "delay"} \/ \E l : Accept(l, FALSE)
      BY <1>10 DEF StrayInput
    <2>2. UNCHANGED <<conf, sector, unwritten, armed>>
      BY <1>10 DEF StrayInput
    <2> QED
      BY <2>1, <2>2, AcceptLeads DEF Accepting, Taken, Starting
  <1> QED
    BY <1>1, <1>2, <1>3, <1>4, <1>5, <1>6, <1>7, <1>8, <1>9, <1>10
    DEF QuietStep, Taken, Starting

\* All other steps, one by one.
LEMMA Steps ==
    ASSUME [Next]_vars
    PROVE  \/ QuietStep \/ ReadStored \/ EraseStored \/ UseStored \/ StoreFallback \/ StoreLocked
           \/ (\E l \in Lines \cup {<<>>} : PatchFirst(l)) \/ UNCHANGED vars
  BY DEF Next, Console, Loader, World, QuietStep

\* A written line bears the magic number that was asked for.
LEMMA Written ==
    ASSUME NEW magic, NEW l, Write(magic, l)
    PROVE  \/ unwritten' = TRUE /\ sector' = sector
           \/ unwritten' = FALSE /\ sector'.magic = magic /\ sector'.line = l
                /\ sector' = [magic |-> magic, line |-> l]
  BY DEF Write

\* Nothing is armed at first.
LEMMA InitArmed == Init => LineArmed /\ KnownMagic
  <1> SUFFICES ASSUME Init
               PROVE  LineArmed /\ KnownMagic
    OBVIOUS
  <1>1. sector.magic = "off" /\ pc = "off"
    BY DEF Init
  <1> QED
    BY <1>1 DEF LineArmed, KnownMagic

\* Each step keeps the magic number one of the three.
LEMMA NextKnownMagic == KnownMagic /\ [Next]_vars => KnownMagic'
  <1> SUFFICES ASSUME KnownMagic, [Next]_vars
               PROVE  KnownMagic'
    OBVIOUS
  <1> USE DEF KnownMagic
  <1>1. CASE QuietStep
    BY <1>1, QuietSteps
  <1>2. CASE ReadStored
    BY <1>2 DEF ReadStored
  <1>3. CASE EraseStored
    BY <1>3, Written DEF EraseStored
  <1>4. CASE UseStored
    BY <1>4 DEF UseStored
  <1>5. CASE StoreFallback
    BY <1>5, Written DEF StoreFallback, Store
  <1>6. CASE StoreLocked
    BY <1>6, Written DEF StoreLocked, Store
  <1>7. ASSUME NEW l \in Lines \cup {<<>>}, PatchFirst(l)
        PROVE  KnownMagic'
    <2>1. sector'.magic = IF l = <<>> THEN "none" ELSE "on"
      BY <1>7 DEF PatchFirst
    <2> QED
      BY <2>1
  <1>8. CASE UNCHANGED vars
    BY <1>8 DEF vars
  <1> QED
    BY <1>1, <1>2, <1>3, <1>4, <1>5, <1>6, <1>7, <1>8, Steps

\* Each step keeps the line armed as described.
LEMMA NextLineArmed == LineArmed /\ [Next]_vars => LineArmed'
  <1> SUFFICES ASSUME LineArmed, [Next]_vars
               PROVE  LineArmed'
    OBVIOUS
  <1> USE DEF LineArmed
  <1>1. CASE QuietStep
    BY <1>1, QuietSteps
  <1>2. CASE ReadStored
    <2>1. UNCHANGED <<sector, armed>>
      BY <1>2 DEF ReadStored, history
    <2>2. CASE sector.magic = "on"
      <3>1. stored' = sector.line /\ pc' = "erase"
        BY <1>2, <2>2 DEF ReadStored, AfterRead
      <3> QED
        BY <2>1, <2>2, <3>1
    <2>3. CASE sector.magic # "on"
      <3>1. stored' = <<>>
        BY <1>2, <2>3 DEF ReadStored
      <3> QED
        BY <2>1, <2>3, <3>1
    <2> QED
      BY <2>2, <2>3
  <1>3. CASE EraseStored
    <2>1. pc = "erase" /\ stored' = stored /\ armed' = armed /\ Write("off", sector.line)
      BY <1>3 DEF EraseStored, memory
    <2>2. CASE unwritten' = TRUE /\ sector' = sector
      BY <2>1, <2>2
    <2>3. CASE sector'.magic = "off"
      BY <2>1, <2>3
    <2> QED
      BY <2>1, <2>2, <2>3, Written
  <1>4. CASE UseStored
    <2>1. pc' \notin {"erase", "start"}
      BY <1>4, FeedLeads DEF UseStored, Accepting
    <2>2. pc = "start" /\ sector' = sector /\ armed' = unwritten
      BY <1>4 DEF UseStored
    <2> QED
      BY <2>1, <2>2
  <1>5. ASSUME NEW l, Store(l), pc' \notin {"erase", "start"}
        PROVE  LineArmed'
    BY <1>5, Written DEF Store
  <1>6. CASE StoreFallback
    BY <1>5, <1>6 DEF StoreFallback
  <1>7. CASE StoreLocked
    BY <1>5, <1>7 DEF StoreLocked
  <1>8. ASSUME NEW l \in Lines \cup {<<>>}, PatchFirst(l)
        PROVE  LineArmed'
    <2>1. sector'.line = l /\ armed' = (l # <<>>) /\ pc' = "running"
      BY <1>8 DEF PatchFirst
    <2> QED
      BY <2>1
  <1>9. CASE UNCHANGED vars
    BY <1>9 DEF vars, memory, history
  <1> QED
    BY <1>1, <1>2, <1>3, <1>4, <1>6, <1>7, <1>8, <1>9, Steps

\* A stored line is used in one boot only, unless it could not be erased.
THEOREM StoredLineIsUsedOnce == Spec => OneShotOnce
  <1>1. LineArmed => [UseStored => armed]_vars
    BY DEF LineArmed, UseStored
  <1> QED
    BY <1>1, InitArmed, NextLineArmed, PTL DEF Spec, OneShotOnce

-----------------------------------------------------------------------------
\* What StoreFallback writes stays until the kernel runs.
LEMMA NextFallbackArmed == FallbackArmed /\ KnownMagic /\ [Next]_vars => FallbackArmed'
  <1> SUFFICES ASSUME FallbackArmed, KnownMagic, [Next]_vars,
                      pc' \in {"options", "lock", "kernel"}, conf'.fallback[image'] # <<>>,
                      ~unwritten', ~dolock', image' \notin conf'.lock, sector'.magic # "none"
               PROVE  sector' = [magic |-> "on", line |-> conf'.fallback[image']]
    BY DEF FallbackArmed
  <1> USE DEF Machine, memory, history
  <1>1. CASE QuietStep
    <2>1. LoadOptions
      BY <1>1, QuietSteps
    <2> QED
      BY <2>1 DEF LoadOptions, FallbackArmed
  <1>2. ~ReadStored /\ ~EraseStored
    BY DEF ReadStored, AfterRead, EraseStored
  <1>3. ~UseStored
    BY FeedLeads DEF UseStored, Accepting
  <1>4. CASE StoreFallback
    <2>1. UNCHANGED <<conf, image>>
      BY <1>4 DEF StoreFallback
    <2>2. sector.magic # "none"
      <3>1. CASE sector' = sector
        BY <3>1
      <3>2. CASE sector' # sector
        BY <1>4, <3>2 DEF StoreFallback, MayStore
      <3> QED
        BY <3>1, <3>2
    <2>3. MayStore(sector.magic)
      BY <2>2 DEF KnownMagic, MayStore
    <2>4. Write("on", conf.fallback[image])
      BY <1>4, <2>1, <2>3 DEF StoreFallback, Store
    <2> QED
      BY <2>1, <2>4, Written
  <1>5. CASE StoreLocked
    <2>1. UNCHANGED <<conf, image, dolock>> /\ pc = "lock"
      BY <1>5 DEF StoreLocked
    <2>2. UNCHANGED <<sector, unwritten>>
      BY <1>5, <2>1 DEF StoreLocked
    <2> QED
      BY <2>1, <2>2 DEF FallbackArmed
  <1>6. \A l \in Lines \cup {<<>>} : ~PatchFirst(l)
    BY DEF PatchFirst
  <1>7. CASE UNCHANGED vars
    BY <1>7 DEF vars, FallbackArmed
  <1> QED
    BY <1>1, <1>2, <1>3, <1>4, <1>5, <1>6, <1>7, Steps

\* From the write of FALLBACK to the start of the kernel the sector holds it.
THEOREM FallbackIsArmed == Spec => []FallbackArmed
  <1>1. Init => FallbackArmed
    BY DEF Init, FallbackArmed
  <1> QED
    BY <1>1, InitArmed, NextKnownMagic, NextFallbackArmed, PTL DEF Spec

-----------------------------------------------------------------------------
\* What a user typed is in the save buffer, unless that boot failed; before the
\* prompt is reached, nobody has typed anything.
TypedSaved ==
    choice.by = "user" /\ failed = "none" =>
        /\ lkcbuf = choice.line \/ (choice.line # <<>> /\ Words(choice.line) = <<>>)
        /\ pc \in {"message", "input", "stray", "password", "lost"} \cup Starting

\* A line is saved when it is accepted, unless bfirst clears it.
LEMMA Accepted ==
    ASSUME NEW l, NEW a, Accept(l, a)
    PROVE  lkcbuf' = l \/ (l # <<>> /\ Words(l) = <<>>)
  BY DEF Accept, Words

\* What is fed is not typed.
LEMMA FeedChooses ==
    ASSUME NEW l, NEW source, NEW segment, Feed(l, source, segment)
    PROVE  choice'.by = source
  <1>1. \/ choice' = [by |-> source, line |-> KeyLine(l)]
        \/ choice' = [by |-> source, line |-> Glue(<<>>, l)]
    BY DEF Feed
  <1> QED
    BY <1>1

\* Each step keeps what was typed in the save buffer.
LEMMA NextTypedSaved == TypedSaved /\ [Next]_vars => TypedSaved'
  <1> SUFFICES ASSUME TypedSaved, [Next]_vars
               PROVE  TypedSaved'
    OBVIOUS
  <1> USE DEF TypedSaved, Starting, Machine, memory, history
  <1>1. ASSUME NEW l, Prompt(l), UNCHANGED <<lkcbuf, choice, failed>>
        PROVE  TypedSaved'
    BY <1>1, PromptLeads DEF Words
  <1>2. CASE ShiftKey \/ Interrupt \/ ListImages \/ PasswordWrong \/ PasswordTimeout
    BY <1>1, <1>2 DEF ShiftKey, Interrupt, ListImages, PasswordWrong, PasswordTimeout
  <1>3. CASE TouchKey \/ ShowMessage \/ PasswordGood
    BY <1>3 DEF TouchKey, ShowMessage, PasswordGood, Loading, Words
  <1>4. ASSUME NEW l \in Lines \cup {<<>>}, TypeLine(l)
        PROVE  TypedSaved'
    <2>1. PICK line : Accept(line, FALSE) /\ choice' = [by |-> "user", line |-> line]
      BY <1>4 DEF TypeLine
    <2>2. choice'.line = line
      BY <2>1
    <2> QED
      BY <2>1, <2>2, Accepted, AcceptLeads DEF Accepting, Words
  <1>5. ASSUME NEW s \in Strays, StrayInput(s)
        PROVE  TypedSaved'
    <2>1. CASE Strayed
      <3>1. choice'.by = "stray"
        BY <2>1 DEF Strayed
      <3> QED
        BY <3>1
    <2>2. CASE pc' \in {"input", "stray"} /\ UNCHANGED <<lkcbuf, choice>>
      BY <1>5, <2>2 DEF StrayInput, Words
    <2> QED
      BY <1>5, <2>1, <2>2 DEF StrayInput
  <1>6. CASE UseExternal \/ UseStored
    <2>1. choice' = choice \/ choice'.by # "user"
      BY <1>6, FeedChooses DEF UseExternal, UseStored
    <2>2. pc = "start" /\ failed' = failed
      BY <1>6 DEF UseExternal, UseStored
    <2> QED
      BY <2>1, <2>2
  <1>7. CASE FallThrough
    BY <1>7 DEF FallThrough
  <1>8. CASE DelayPasses
    BY <1>8 DEF DelayPasses
  <1>9. CASE InputTimeout \/ PowerOff
    <2>1. choice'.by = "default"
      BY <1>9 DEF InputTimeout, PowerOff
    <2> QED
      BY <2>1
  <1>10. CASE Restart
    BY <1>10 DEF Restart
  <1>11. CASE LoadMap \/ LoadOptions \/ LoadKernel \/ PowerOn
    BY <1>11 DEF LoadMap, LoadOptions, LoadKernel, PowerOn, Words
  <1>12. CASE ReadStored \/ EraseStored
    BY <1>12 DEF ReadStored, EraseStored
  <1>13. CASE StoreFallback \/ StoreLocked
    BY <1>13 DEF StoreFallback, StoreLocked, Words
  <1>14. ASSUME NEW l \in Lines \cup {<<>>}, PatchFirst(l)
         PROVE  TypedSaved'
    BY <1>14 DEF PatchFirst, Words
  <1>15. CASE UNCHANGED vars
    BY <1>15 DEF vars, Words
  <1> QED
    BY <1>2, <1>3, <1>4, <1>5, <1>6, <1>7, <1>8, <1>9, <1>10, <1>11, <1>12, <1>13, <1>14, <1>15,
       Steps DEF QuietStep

\* So LOCK stores what was typed.
LEMMA NextLockKeeps ==
    TypedSaved /\ LockKeepsTypedChoice /\ [Next]_vars => LockKeepsTypedChoice'
  <1> SUFFICES ASSUME TypedSaved, [Next]_vars,
                      pc' = "kernel", dolock' \/ image' \in conf'.lock,
                      choice'.by = "user", failed' = "none", ~unwritten',
                      choice'.line = <<>> \/ Words(choice'.line) # <<>>,
                      LockKeepsTypedChoice
               PROVE  sector'.line = choice'.line
    BY DEF LockKeepsTypedChoice, Words
  <1> USE DEF Machine, memory, history
  <1>1. CASE StoreLocked
    <2>1. UNCHANGED <<conf, dolock, image, lkcbuf, choice, failed>>
      BY <1>1 DEF StoreLocked
    <2>2. Write("on", lkcbuf)
      BY <1>1, <2>1 DEF StoreLocked, Store, SavedLine
    <2>3. lkcbuf = choice.line
      BY <2>1 DEF TypedSaved
    <2> QED
      BY <2>1, <2>2, <2>3, Written
  <1>2. CASE UNCHANGED vars
    BY <1>2 DEF vars, LockKeepsTypedChoice
  <1>3. ~QuietStep
    BY QuietSteps DEF LoadOptions
  <1>4. ~ReadStored /\ ~EraseStored /\ ~StoreFallback /\ ~UseStored
    BY FeedLeads DEF ReadStored, AfterRead, EraseStored, StoreFallback, UseStored, Accepting
  <1>5. \A l \in Lines \cup {<<>>} : ~PatchFirst(l)
    BY DEF PatchFirst
  <1> QED
    BY <1>1, <1>2, <1>3, <1>4, <1>5, Steps

\* With "lock", the line that a user typed and that boots is what is stored.
THEOREM LockKeepsTheTyped == Spec => []LockKeepsTypedChoice
  <1>1. Init => TypedSaved /\ LockKeepsTypedChoice
    <2>1. Init => pc = "off" /\ choice.by # "user"
      BY DEF Init
    <2> QED
      BY <2>1 DEF TypedSaved, LockKeepsTypedChoice
  <1> QED
    BY <1>1, NextTypedSaved, NextLockKeeps, PTL DEF Spec

-----------------------------------------------------------------------------
\* What a loader with nobody at its console may rely on when it was restarted:
\* the external line is used up, the line in the buffer names the image that
\* failed, which asks for no password, and with nothing stored it does not stop.
Unattended ==
    /\ pc = "off" => failed = "none"
    /\ ~attended /\ (failed # "none" \/ pc \in Taken) => external = Absent
    /\ ~attended /\ (pc \in Starting \/ (failed = "load" /\ pc \in {"restart", "erase", "start"}))
         => image \in Named(cmdline) /\ ~AsksPassword(image, cmdline)
    /\ ~attended /\ failed = "load" /\ ~conf.prompt /\ stored = <<>>
         => pc \notin Taken \ Starting

\* The first image is an image.
LEMMA FirstImage == First \in Images
  BY LineAssumption DEF First, Images, Range

\* A name has characters, none of them a blank.
LEMMA Label ==
    ASSUME NEW i \in Images
    PROVE  i \in Seq(Chars \ {Blank}) /\ i # <<>> /\ Len(i) \in Nat \ {0}
  BY LineAssumption DEF Images, Range

\* So a name alone is a line without options.
LEMMA NoOptions ==
    ASSUME NEW i \in Images
    PROVE  ~WithOptions(i)
  BY Label DEF WithOptions

\* A prefix has the elements of the sequence.
LEMMA PrefixElements ==
    ASSUME NEW S, NEW s \in Seq(S), NEW l, IsPrefix(s, l), NEW k \in 1 .. Len(s)
    PROVE  Len(s) <= Len(l) /\ l[k] = s[k]
  BY DEF IsPrefix

\* A name in front of a blank is the token up to the first blank.
LEMMA FirstToken ==
    ASSUME NEW l, NEW i \in Images, IsPrefix(Append(i, Blank), l)
    PROVE  /\ Len(i) + 1 <= Len(l) /\ l[Len(i) + 1] = Blank
           /\ \A k \in 1 .. Len(i) : l[k] = i[k] /\ i[k] # Blank
  <1> DEFINE s == Append(i, Blank)
  <1>1. s \in Seq((Chars \ {Blank}) \cup {Blank})
    <2>1. i \in Seq((Chars \ {Blank}) \cup {Blank})
      BY Label
    <2> QED
      BY <2>1, AppendProperties
  <1>2. /\ Len(s) = Len(i) + 1 /\ s[Len(i) + 1] = Blank
        /\ \A k \in 1 .. Len(i) : s[k] = i[k] /\ i[k] # Blank
    BY Label, AppendProperties
  <1> HIDE DEF s
  <1>3. Len(s) <= Len(l) /\ \A k \in 1 .. Len(s) : l[k] = s[k]
    <2>1. IsPrefix(s, l)
      BY DEF s
    <2> QED
      BY <1>1, <1>2, <2>1, Label, PrefixElements
  <1> QED
    BY <1>2, <1>3, Label

\* A line names one image at most.
LEMMA OneName ==
    ASSUME NEW l, NEW i \in Named(l), NEW j \in Named(l)
    PROVE  i = j
  <1>1. i \in Images /\ j \in Images
    BY DEF Named
  <1>2. ASSUME NEW n \in Named(l), l \in Images
        PROVE  n = l
    <2>1. CASE IsPrefix(Append(n, Blank), l)
      <3>1. n \in Images
        BY DEF Named
      <3>2. Len(n) + 1 <= Len(l) /\ l[Len(n) + 1] = Blank
        BY <2>1, <3>1, FirstToken
      <3>3. Len(n) + 1 \in 1 .. Len(l)
        BY <1>2, <3>1, <3>2, Label
      <3>4. l[Len(n) + 1] # Blank
        BY <1>2, <3>3, Label
      <3> QED
        BY <3>2, <3>4
    <2> QED
      BY <2>1 DEF Named
  <1>3. CASE l \in Images
    BY <1>2, <1>3
  <1>4. CASE l \notin Images
    <2>1. IsPrefix(Append(i, Blank), l) /\ IsPrefix(Append(j, Blank), l)
      BY <1>1, <1>4 DEF Named
    <2>2. ASSUME NEW m \in Images, NEW n \in Images, Len(m) < Len(n),
                 IsPrefix(Append(m, Blank), l), IsPrefix(Append(n, Blank), l)
          PROVE  FALSE
      <3>1. l[Len(m) + 1] = Blank
        BY <2>2, FirstToken
      <3>2. Len(m) + 1 \in 1 .. Len(n)
        BY <2>2, Label
      <3>3. l[Len(m) + 1] # Blank
        BY <2>2, <3>2, FirstToken
      <3> QED
        BY <3>1, <3>3
    <2>3. Len(i) = Len(j)
      BY <1>1, <2>1, <2>2, Label
    <2>4. \A k \in 1 .. Len(i) : i[k] = j[k]
      <3>1. \A k \in 1 .. Len(i) : l[k] = i[k]
        BY <1>1, <2>1, FirstToken
      <3>2. \A k \in 1 .. Len(j) : l[k] = j[k]
        BY <1>1, <2>1, FirstToken
      <3> QED
        BY <2>3, <3>1, <3>2
    <2> QED
      BY <1>1, <2>3, <2>4, Label, SeqEqual
  <1> QED
    BY <1>3, <1>4

\* An image is booted by a line that names it.
LEMMA BootNames ==
    ASSUME NEW l, NEW a, Find(l, a) \/ BootFirst(a) \/ Accept(l, a) \/ Bfirst(a), pc' = "load",
           conf' = conf
    PROVE  image' \in Named(cmdline') /\ ~AsksPassword(image, cmdline)'
  <1>1. ASSUME NEW k, NEW i \in Named(k), Boot(i, k, a)
        PROVE  image' \in Named(cmdline') /\ ~AsksPassword(image, cmdline)'
    <2>1. image' = i /\ i \in Images /\ i \in Named(i) /\ ~WithOptions(i)
      BY <1>1, NoOptions DEF Boot, Named
    <2>2. ~AsksPassword(i, k)
      BY <1>1 DEF Boot
    <2>3. CASE WithOptions(k)
      BY <1>1, <2>1, <2>2, <2>3 DEF Boot, AsksPassword
    <2>4. CASE ~WithOptions(k)
      BY <1>1, <2>1, <2>2, <2>4 DEF Boot, AsksPassword
    <2> QED
      BY <2>3, <2>4
  <1>2. CASE BootFirst(a)
    <2>1. First \in Named(First)
      BY FirstImage DEF Named
    <2> QED
      BY <1>1, <1>2, <2>1 DEF BootFirst
  <1>3. ASSUME NEW k, Find(k, a)
        PROVE  image' \in Named(cmdline') /\ ~AsksPassword(image, cmdline)'
    BY <1>1, <1>3, PromptLeads DEF Find
  <1>4. CASE Accept(l, a)
    BY <1>2, <1>3, <1>4, PromptLeads DEF Accept
  <1>5. CASE Bfirst(a)
    BY <1>2, <1>3, <1>5 DEF Bfirst
  <1> QED
    BY <1>2, <1>3, <1>4, <1>5

\* After an unsuccessful attempt, without PROMPT, the line left in the buffer
\* boots the image that failed.
LEMMA TriesAgain ==
    ASSUME Unattended, pc = "start", failed = "load", ~attended, ~conf.prompt, stored = <<>>,
           FallThrough
    PROVE  pc' = "load" /\ image' = image
  <1>1. image \in Named(cmdline) /\ ~AsksPassword(image, cmdline)
    BY DEF Unattended
  <1>2. cmdline # <<>>
    <2>1. image \in Images /\ ~IsPrefix(Append(image, Blank), <<>>)
      <3>1. image \in Images
        BY <1>1 DEF Named
      <3>2. ASSUME IsPrefix(Append(image, Blank), <<>>)
            PROVE  FALSE
        <4>1. Len(image) + 1 <= Len(<<>>)
          BY <3>1, <3>2, FirstToken
        <4> QED
          BY <3>1, <4>1, Label
      <3> QED
        BY <3>1, <3>2
    <2> QED
      BY <1>1, <2>1, Label DEF Named
  <1>3. Find(cmdline, auto) /\ es' = "own"
    BY <1>2 DEF FallThrough, Bfirst
  <1>4. PICK i \in Named(cmdline) : Boot(i, cmdline, auto)
    BY <1>1, <1>3 DEF Find
  <1>5. i = image
    BY <1>1, OneName
  <1> QED
    BY <1>1, <1>3, <1>4, <1>5 DEF Boot, Loading

\* Each step keeps an unattended start unattended.
LEMMA NextUnattended == Unattended /\ [Next]_vars => Unattended'
  <1> SUFFICES ASSUME Unattended, [Next]_vars
               PROVE  Unattended'
    OBVIOUS
  <1> USE DEF Unattended, Taken, Starting, Machine, memory, history
  <1>1. ASSUME attended, UNCHANGED attended, pc' # "off"
        PROVE  Unattended'
    BY <1>1
  <1>2. CASE ShiftKey \/ Interrupt \/ ListImages \/ PasswordWrong
    <2>1. attended /\ attended' = attended /\ \E l : Prompt(l)
      BY <1>2 DEF ShiftKey, Interrupt, ListImages, PasswordWrong
    <2> QED
      BY <1>1, <2>1, PromptLeads
  <1>3. CASE TouchKey \/ PasswordGood
    <2>1. attended /\ attended' = attended /\ pc' # "off"
      BY <1>3 DEF TouchKey, PasswordGood, Loading
    <2> QED
      BY <1>1, <2>1
  <1>4. ASSUME NEW l \in Lines \cup {<<>>}, TypeLine(l)
        PROVE  Unattended'
    <2>1. attended /\ attended' = attended /\ \E line : Accept(line, FALSE)
      BY <1>4 DEF TypeLine
    <2> QED
      BY <1>1, <2>1, AcceptLeads DEF Accepting
  <1>5. ASSUME NEW l, Prompt(l), pc \in Taken \/ external' = Absent,
               UNCHANGED <<conf, attended, failed, stored>>,
               external' = external \/ external' = Absent,
               ~attended /\ failed = "load" /\ ~conf.prompt => stored # <<>>
        PROVE  Unattended'
    BY <1>5, PromptLeads
  <1>6. CASE PasswordTimeout
    <2>1. /\ pc = "password" /\ Prompt(cmdline)
          /\ UNCHANGED <<conf, attended, external, stored, failed>>
      BY <1>6 DEF PasswordTimeout
    <2> QED
      BY <1>5, <2>1
  <1>7. CASE ShowMessage
    <2>1. /\ pc = "message" /\ pc' = "input"
          /\ UNCHANGED <<conf, attended, external, stored, failed>>
      BY <1>7 DEF ShowMessage
    <2> QED
      BY <2>1
  <1>8. ASSUME NEW l, NEW a, Find(l, a) \/ BootFirst(a) \/ Accept(l, a) \/ Bfirst(a),
               UNCHANGED <<conf, attended, failed, stored>>,
               external' = Absent,
               ~attended /\ failed = "load" /\ ~conf.prompt /\ stored = <<>> => pc' = "load"
        PROVE  Unattended'
    <2>1. pc' \in Accepting \cup {"stray", "lost"}
      <3>1. CASE Bfirst(a)
        BY <3>1, FindLeads, BootFirstLeads DEF Bfirst, Accepting
      <3> QED
        BY <1>8, <3>1, FindLeads, AcceptLeads, BootFirstLeads DEF Accepting
    <2>2. pc' = "load" => image' \in Named(cmdline') /\ ~AsksPassword(image, cmdline)'
      BY <1>8, BootNames
    <2> QED
      BY <1>8, <2>1, <2>2 DEF Accepting
  <1>9. ASSUME NEW l, NEW source, NEW segment, Feed(l, source, segment),
               UNCHANGED <<conf, attended, failed, stored>>, external' = Absent,
               ~attended /\ failed = "load" /\ ~conf.prompt => stored # <<>>
        PROVE  Unattended'
    <2>1. CASE Accept(KeyLine(l), FALSE)
      BY <1>8, <1>9, <2>1
    <2>2. CASE pc' = "delay"
      BY <1>9, <2>2
    <2> QED
      BY <1>9, <2>1, <2>2 DEF Feed
  <1>10. CASE UseExternal
    <2>1. ~attended => failed = "none"
      BY <1>10 DEF UseExternal
    <2>2. UNCHANGED <<conf, attended, failed, stored>> /\ external' = Absent
      BY <1>10 DEF UseExternal
    <2>3. CASE Prompt(cmdline)
      BY <1>5, <2>1, <2>2, <2>3
    <2>4. CASE Feed(external, "external", "other")
      BY <1>9, <2>1, <2>2, <2>4
    <2> QED
      BY <1>10, <2>3, <2>4 DEF UseExternal
  <1>11. CASE UseStored
    <2>1. /\ UNCHANGED <<conf, attended, failed, stored>> /\ external' = Absent
          /\ stored # <<>> /\ Feed(stored, "stored", "own")
      BY <1>11 DEF UseStored
    <2> QED
      BY <1>9, <2>1
  <1>12. CASE FallThrough
    <2>1. UNCHANGED <<conf, attended, failed, stored>> /\ external' = Absent
      BY <1>12 DEF FallThrough
    <2>2. CASE conf.prompt
      <3>1. Prompt(cmdline)
        BY <1>12, <2>2 DEF FallThrough
      <3> QED
        BY <1>5, <2>1, <2>2, <3>1
    <2>3. CASE ~conf.prompt
      <3>1. Bfirst(auto)
        BY <1>12, <2>3 DEF FallThrough
      <3>2. ~attended /\ failed = "load" /\ stored = <<>> => pc' = "load"
        BY <1>12, <2>3, TriesAgain DEF FallThrough
      <3> QED
        BY <1>8, <2>1, <3>1, <3>2
    <2> QED
      BY <2>2, <2>3
  <1>13. CASE DelayPasses
    <2>1. /\ UNCHANGED <<conf, attended, failed, stored>> /\ external' = external
          /\ pc = "delay" /\ Accept(cmdline, auto)
      BY <1>13 DEF DelayPasses
    <2>2. CASE attended
      BY <1>1, <2>1, <2>2, AcceptLeads DEF Accepting
    <2>3. CASE ~attended
      BY <1>8, <2>1, <2>3
    <2> QED
      BY <2>2, <2>3
  <1>14. CASE InputTimeout
    <2>1. /\ UNCHANGED <<conf, attended, failed, stored>> /\ external' = external
          /\ pc = "input" /\ BootFirst(auto)
      BY <1>14 DEF InputTimeout, Brto
    <2>2. CASE attended
      BY <1>1, <2>1, <2>2, BootFirstLeads
    <2>3. CASE ~attended
      BY <1>8, <2>1, <2>3
    <2> QED
      BY <2>2, <2>3
  <1>15. ASSUME NEW s \in Strays, StrayInput(s)
         PROVE  Unattended'
    <2>1. /\ UNCHANGED <<conf, attended, failed, stored>> /\ external' = external
          /\ pc = "stray"
      BY <1>15 DEF StrayInput
    <2>2. CASE pc' \in {"input", "stray", "delay"}
      BY <2>1, <2>2
    <2>3. ASSUME NEW l, Accept(l, FALSE)
          PROVE  Unattended'
      <3>1. CASE attended
        BY <1>1, <2>1, <2>3, <3>1, AcceptLeads DEF Accepting
      <3>2. CASE ~attended
        BY <1>8, <2>1, <2>3, <3>2
      <3> QED
        BY <3>1, <3>2
    <2> QED
      BY <1>15, <2>2, <2>3 DEF StrayInput
  <1>16. CASE Restart
    <2>1. CASE pc = "message"
      BY <1>16, <2>1 DEF Restart
    <2>2. CASE pc \in Starting
      BY <1>16, <2>2 DEF Restart, AsksPassword
    <2> QED
      BY <1>16, <2>1, <2>2 DEF Restart
  <1>17. CASE LoadMap \/ LoadOptions \/ LoadKernel
    <2>1. /\ pc \in Starting /\ pc' \in Starting
          /\ UNCHANGED <<conf, attended, external, stored, image, cmdline, failed>>
      BY <1>17 DEF LoadMap, LoadOptions, LoadKernel
    <2> QED
      BY <2>1 DEF AsksPassword
  <1>18. CASE StoreFallback \/ StoreLocked
    <2>1. /\ pc \in Starting /\ pc' \in Starting
          /\ UNCHANGED <<conf, attended, external, stored, image, cmdline, failed>>
      BY <1>18 DEF StoreFallback, StoreLocked
    <2> QED
      BY <2>1 DEF AsksPassword
  <1>19. CASE PowerOn
    <2>1. failed' = "none" /\ pc' = "restart"
      BY <1>19 DEF PowerOn
    <2> QED
      BY <2>1
  <1>20. CASE PowerOff
    <2>1. failed' = "none" /\ pc' = "off" /\ external' = Absent
      BY <1>20 DEF PowerOff
    <2> QED
      BY <2>1
  <1>21. CASE ReadStored \/ EraseStored
    <2>1. /\ pc \in {"restart", "erase"} /\ pc' \in {"erase", "start"}
          /\ UNCHANGED <<conf, attended, external, image, cmdline, failed>>
      BY <1>21 DEF ReadStored, AfterRead, EraseStored
    <2> QED
      BY <2>1 DEF AsksPassword
  <1>22. ASSUME NEW l \in Lines \cup {<<>>}, PatchFirst(l)
         PROVE  Unattended'
    <2>1. /\ pc = "running"
          /\ UNCHANGED <<pc, conf, attended, external, stored, image, cmdline, failed>>
      BY <1>22 DEF PatchFirst
    <2> QED
      BY <2>1 DEF AsksPassword
  <1>23. CASE UNCHANGED vars
    <2>1. UNCHANGED <<pc, conf, attended, external, stored, image, cmdline, failed>>
      BY <1>23 DEF vars
    <2> QED
      BY <2>1 DEF AsksPassword
  <1> QED
    BY <1>2, <1>3, <1>4, <1>6, <1>7, <1>10, <1>11, <1>12, <1>13, <1>14, <1>15, <1>16, <1>17,
       <1>18, <1>19, <1>20, <1>21, <1>22, <1>23, Steps DEF QuietStep

\* Only a restarted loader that nobody interrupts goes on to an image by itself.
LEMMA RetryStep ==
    ASSUME Unattended, [Next]_vars,
           Booting', ~Booting, failed = "load", ~attended, ~conf.prompt, stored = <<>>
    PROVE  image' = image
  <1> USE DEF Booting, Machine, memory, history
  <1>1. pc # "off" /\ pc \notin Taken \ Starting
    BY DEF Unattended
  <1>2. external = Absent
    BY DEF Unattended
  <1>3. CASE FallThrough
    BY <1>3, TriesAgain DEF FallThrough
  <1>4. ~ShiftKey /\ ~Interrupt /\ ~TouchKey /\ ~ListImages /\ ~PasswordGood /\ ~PasswordWrong
    BY DEF ShiftKey, Interrupt, TouchKey, ListImages, PasswordGood, PasswordWrong
  <1>5. \A l \in Lines \cup {<<>>} : ~TypeLine(l)
    BY DEF TypeLine
  <1>6. ~UseExternal /\ ~UseStored
    BY <1>2 DEF UseExternal, UseStored
  <1>7. /\ ~DelayPasses /\ ~InputTimeout /\ ~PasswordTimeout /\ ~ShowMessage
        /\ \A s \in Strays : ~StrayInput(s)
    BY <1>1 DEF DelayPasses, InputTimeout, PasswordTimeout, ShowMessage, StrayInput, Taken, Starting
  <1>8. ~LoadMap /\ ~LoadOptions /\ ~LoadKernel /\ ~Restart /\ ~StoreFallback /\ ~StoreLocked
    BY DEF LoadMap, LoadOptions, LoadKernel, Restart, StoreFallback, StoreLocked
  <1>9. ~PowerOn /\ ~PowerOff /\ ~ReadStored /\ ~EraseStored
    BY DEF PowerOn, PowerOff, ReadStored, AfterRead, EraseStored
  <1>10. \A l \in Lines \cup {<<>>} : ~PatchFirst(l)
    BY DEF PatchFirst
  <1>11. ~UNCHANGED vars
    BY DEF vars
  <1> QED
    BY <1>3, <1>4, <1>5, <1>6, <1>7, <1>8, <1>9, <1>10, <1>11 DEF Next, Console, Loader, World

\* Without PROMPT and with nobody there, an image that could not be loaded is
\* the one that is tried again.
THEOREM FailedImageIsTriedAgain == Spec => FailedImageIsDefault
  <1>1. Init => Unattended
    BY DEF Init, Unattended, Taken, Starting
  <1>2. Unattended /\ [Next]_vars
          => [Booting' /\ ~Booting /\ failed = "load" /\ ~attended /\ ~conf.prompt
                /\ stored = <<>> => image' = image]_vars
    BY RetryStep
  <1> QED
    BY <1>1, <1>2, NextUnattended, PTL DEF Spec, FailedImageIsDefault

-----------------------------------------------------------------------------
\* What was chosen, until a load fails or the line comes from nowhere.
Selected ==
    failed = "none" =>
        /\ pc \in {"off", "restart", "erase", "start"} =>
             /\ cmdline = <<>> /\ auto = TRUE
             /\ choice.by = "default" /\ choice.line = <<>>
        /\ pc \in {"message", "input", "stray"} => auto = TRUE
        /\ pc = "delay" /\ choice.by # "stray" => choice.line = cmdline /\ auto = (choice.by # "user")
        /\ pc \in {"password"} \cup Starting /\ choice.by # "stray" =>
             /\ image \in Chosen(choice.line)
             /\ auto = (choice.by # "user") \/ image \in Singles

\* Where a line leads, the image is the one that it names.
LEMMA FindSelects ==
    ASSUME NEW l, NEW a, Find(l, a)
    PROVE  \/ pc' \in {"message", "input", "stray"} /\ auto' = TRUE
           \/ pc' \in {"password", "load", "lost"} /\ auto' = a /\ image' \in Named(l)
  BY DEF Find, Boot, Prompt, Loading

LEMMA AcceptSelects ==
    ASSUME NEW l, NEW a, Accept(l, a)
    PROVE  \/ pc' \in {"message", "input"} /\ auto' = TRUE
           \/ pc' \in {"password", "load"} /\ auto' = a /\ image' \in Chosen(l)
  <1>1. CASE \E k : Prompt(k)
    BY <1>1, AcceptLeads DEF Prompt, Accepting
  <1>2. CASE Words(l) # <<>> /\ Find(Words(l), a)
    <2>1. pc' \in Accepting
      BY AcceptLeads
    <2>2. \/ pc' \in {"message", "input", "stray"} /\ auto' = TRUE
          \/ pc' \in {"password", "load", "lost"} /\ auto' = a /\ image' \in Named(Words(l))
      BY <1>2, FindSelects
    <2>3. Chosen(l) = Named(Words(l))
      BY <1>2 DEF Chosen
    <2> QED
      BY <2>1, <2>2, <2>3 DEF Accepting
  <1>3. CASE Words(l) = <<>> /\ BootFirst(a)
    <2>1. pc' \in Accepting
      BY AcceptLeads
    <2>2. pc' \in {"password", "load", "lost"} /\ auto' = a /\ image' = First
      BY <1>3, BootFirstLeads DEF BootFirst, Boot
    <2>3. Chosen(l) = {First}
      BY <1>3 DEF Chosen
    <2> QED
      BY <2>1, <2>2, <2>3 DEF Accepting
  <1> QED
    BY <1>1, <1>2, <1>3 DEF Accept, Words

\* A single key selects the image of that key.
LEMMA KeySelects ==
    ASSUME NEW k \in Singles, NEW i \in Chosen(k)
    PROVE  i = k
  <1>1. k \in Images /\ Len(k) = 1 /\ k[1] # Blank /\ k # <<>>
    BY Label, LineAssumption
  <1>2. Trimmed(k) = k
    <2>1. Last(k) # Blank
      BY <1>1 DEF Last
    <2> QED
      BY <2>1 DEF Trimmed
  <1>3. Begins(k, Lock) = {}
    BY <1>1 DEF Begins, Lock
  <1>4. Words(k) = k
    BY <1>2, <1>3 DEF Words, Unlocked
  <1>5. i \in Named(k) /\ k \in Named(k)
    BY <1>1, <1>4 DEF Chosen, Named
  <1> QED
    BY <1>5, OneName

\* Each step keeps what was chosen.
LEMMA NextSelected == Selected /\ [Next]_vars => Selected'
  <1> SUFFICES ASSUME Selected, [Next]_vars, failed' = "none"
               PROVE  Selected'
    BY DEF Selected
  <1> USE DEF Selected, Starting, Machine, memory, history
  <1>1. ASSUME NEW l, Prompt(l)
        PROVE  Selected'
    BY <1>1, PromptLeads DEF Prompt
  <1>2. CASE ShiftKey \/ Interrupt \/ ListImages \/ PasswordWrong \/ PasswordTimeout
    BY <1>1, <1>2 DEF ShiftKey, Interrupt, ListImages, PasswordWrong, PasswordTimeout
  <1>3. ASSUME pc = "password" \/ pc \in Starting, pc' \in {"password", "lost"} \cup Starting,
               UNCHANGED <<auto, image, choice, failed>>
        PROVE  Selected'
    BY <1>3 DEF Chosen, Named, Words
  <1>4. CASE TouchKey
    BY <1>4 DEF TouchKey, Chosen, Named, Words
  <1>5. CASE PasswordGood
    BY <1>3, <1>5 DEF PasswordGood, Loading
  <1>6. CASE ShowMessage
    BY <1>6 DEF ShowMessage
  <1>7. ASSUME NEW line, NEW a, Accept(line, a),
               choice'.by # "stray" => choice'.line = line /\ a = (choice'.by # "user")
        PROVE  Selected'
    <2>1. pc' \in {"password", "load"} => image' \in Chosen(line) /\ auto' = a
      BY <1>7, AcceptSelects
    <2>2. /\ pc' \in {"message", "input", "password", "load"}
          /\ pc' \in {"message", "input"} => auto' = TRUE
      BY <1>7, AcceptSelects
    <2> QED
      BY <1>7, <2>1, <2>2 DEF Chosen, Named, Words
  <1>8. ASSUME NEW l \in Lines \cup {<<>>}, TypeLine(l)
        PROVE  Selected'
    <2>1. PICK line : Accept(line, FALSE) /\ choice' = [by |-> "user", line |-> line]
      BY <1>8 DEF TypeLine
    <2>2. choice'.line = line /\ choice'.by = "user"
      BY <2>1
    <2> QED
      BY <1>7, <2>1, <2>2
  <1>9. ASSUME NEW l, NEW source \in {"external", "stored"}, NEW segment,
               Feed(l, source, segment), pc = "start", failed = "none"
        PROVE  Selected'
    <2>1. cmdline = <<>> /\ auto = TRUE
      BY <1>9
    <2>2. ASSUME SingleKey(cmdline, l), choice' = [by |-> source, line |-> KeyLine(l)],
                 Accept(KeyLine(l), FALSE)
          PROVE  Selected'
      <3>1. choice'.line = KeyLine(l) /\ KeyLine(l) \in Singles
        BY <2>2 DEF SingleKey
      <3>2. \/ pc' \in {"message", "input"} /\ auto' = TRUE
            \/ pc' \in {"password", "load"} /\ image' \in Chosen(KeyLine(l))
        BY <2>2, AcceptSelects
      <3>3. image' \in Chosen(KeyLine(l)) => image' \in Singles
        BY <3>1, KeySelects
      <3> QED
        BY <3>1, <3>2, <3>3 DEF Chosen, Named, Words
    <2>3. ASSUME choice' = [by |-> source, line |-> Glue(<<>>, l)], pc' = "delay",
                 cmdline' = Glue(cmdline, l), auto' = auto
          PROVE  Selected'
      <3>1. choice'.line = cmdline' /\ choice'.by # "user"
        BY <1>9, <2>1, <2>3
      <3> QED
        BY <2>1, <2>3, <3>1
    <2> QED
      BY <1>9, <2>2, <2>3 DEF Feed
  <1>10. CASE UseExternal
    <2>1. pc = "start" /\ failed' = failed
      BY <1>10 DEF UseExternal
    <2> QED
      BY <1>1, <1>9, <1>10, <2>1 DEF UseExternal
  <1>11. CASE UseStored
    <2>1. pc = "start" /\ failed' = failed /\ Feed(stored, "stored", "own")
      BY <1>11 DEF UseStored
    <2> QED
      BY <1>9, <2>1
  <1>12. ASSUME BootFirst(TRUE), choice'.line = <<>>, choice'.by = "default"
         PROVE  Selected'
    <2>1. pc' \in {"password", "load", "lost"} /\ image' = First /\ auto' = TRUE
      BY <1>12, BootFirstLeads DEF BootFirst, Boot
    <2>2. First \in Chosen(<<>>)
      BY DEF Chosen, Words, Trimmed, Unlocked, Begins, Lock
    <2> QED
      BY <1>12, <2>1, <2>2 DEF Chosen, Named, Words
  <1>13. CASE FallThrough
    <2>1. /\ pc = "start" /\ failed' = failed /\ choice' = choice
          /\ cmdline = <<>> /\ auto = TRUE /\ choice.line = <<>> /\ choice.by = "default"
      BY <1>13 DEF FallThrough
    <2>2. CASE Prompt(cmdline)
      BY <1>1, <2>2
    <2>3. CASE Bfirst(auto)
      BY <1>12, <2>1, <2>3 DEF Bfirst
    <2> QED
      BY <1>13, <2>2, <2>3 DEF FallThrough
  <1>14. CASE DelayPasses
    <2>1. /\ pc = "delay" /\ failed' = failed /\ choice' = choice
          /\ Accept(cmdline, auto)
      BY <1>14 DEF DelayPasses
    <2>2. choice'.by # "stray" => choice'.line = cmdline /\ auto = (choice'.by # "user")
      BY <2>1
    <2> QED
      BY <1>7, <2>1, <2>2
  <1>15. CASE InputTimeout
    <2>1. /\ pc = "input" /\ failed' = failed /\ BootFirst(auto)
          /\ choice'.line = <<>> /\ choice'.by = "default"
      BY <1>15 DEF InputTimeout, Brto
    <2> QED
      BY <1>12, <2>1
  <1>16. ASSUME NEW s \in Strays, StrayInput(s)
         PROVE  Selected'
    <2>1. pc = "stray" /\ failed' = failed
      BY <1>16 DEF StrayInput
    <2>2. CASE Strayed
      <3>1. choice'.by = "stray"
        BY <2>2 DEF Strayed
      <3>2. CASE pc' = "delay"
        BY <3>1, <3>2
      <3>3. ASSUME NEW l, Accept(l, FALSE)
            PROVE  Selected'
        BY <1>7, <3>1, <3>3
      <3>4. CASE pc' \in {"input", "stray"} /\ auto' = auto
        BY <2>1, <3>4
      <3> QED
        BY <1>16, <3>2, <3>3, <3>4 DEF StrayInput
    <2>3. CASE pc' \in {"input", "stray"} /\ auto' = auto
      BY <2>1, <2>3
    <2> QED
      BY <1>16, <2>2, <2>3 DEF StrayInput
  <1>17. CASE LoadMap \/ LoadOptions \/ LoadKernel \/ StoreFallback \/ StoreLocked
    <2>1. /\ pc \in Starting /\ pc' \in Starting
          /\ UNCHANGED <<auto, image, choice, failed>>
      BY <1>17 DEF LoadMap, LoadOptions, LoadKernel, StoreFallback, StoreLocked
    <2> QED
      BY <1>3, <2>1
  <1>18. ~Restart
    BY DEF Restart
  <1>19. CASE PowerOn
    BY <1>19 DEF PowerOn
  <1>20. CASE PowerOff
    <2>1. /\ pc' = "off" /\ cmdline' = <<>> /\ auto' = TRUE
          /\ choice'.by = "default" /\ choice'.line = <<>>
      BY <1>20 DEF PowerOff
    <2> QED
      BY <2>1
  <1>21. CASE ReadStored
    <2>1. /\ pc = "restart" /\ pc' \in {"erase", "start"} /\ auto' = TRUE
          /\ UNCHANGED <<cmdline, choice, failed>>
      BY <1>21 DEF ReadStored, AfterRead
    <2> QED
      BY <2>1
  <1>22. CASE EraseStored
    <2>1. pc = "erase" /\ pc' = "start" /\ UNCHANGED <<auto, cmdline, choice, failed>>
      BY <1>22 DEF EraseStored
    <2> QED
      BY <2>1
  <1>23. ASSUME NEW l \in Lines \cup {<<>>}, PatchFirst(l)
         PROVE  Selected'
    <2>1. pc = "running" /\ UNCHANGED <<pc, auto, image, choice, failed>>
      BY <1>23 DEF PatchFirst
    <2> QED
      BY <1>3, <2>1
  <1>24. CASE UNCHANGED vars
    BY <1>24 DEF vars, Chosen, Named, Words
  <1> QED
    BY <1>2, <1>4, <1>5, <1>6, <1>8, <1>10, <1>11, <1>13, <1>14, <1>15, <1>16, <1>17, <1>18,
       <1>19, <1>20, <1>21, <1>22, <1>23, <1>24, Steps DEF QuietStep

\* The image loaded is the one that the README's tables give for the line that
\* the user, the other loader, the stored line or nobody chose it by.
THEOREM TablesSelect == Spec => []SelectionTable
  <1>1. Init => Selected
    <2> SUFFICES ASSUME Init
                 PROVE  Selected
      OBVIOUS
    <2>1. pc = "off" /\ choice.by = "default" /\ choice.line = <<>>
      BY DEF Init
    <2>2. cmdline = <<>> /\ auto = TRUE
      BY DEF Init
    <2> QED
      BY <2>1, <2>2 DEF Selected, Starting
  <1>2. Selected => SelectionTable
    BY DEF Selected, SelectionTable, Booting, Starting
  <1> QED
    BY <1>1, <1>2, NextSelected, PTL DEF Spec
====
