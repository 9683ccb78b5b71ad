----------------------------- MODULE BootPrompt -----------------------------
(***************************************************************************)
(* The second stage loader of LILO (second.S): from the load of the        *)
(* descriptor table over the boot prompt to the start of a kernel, through *)
(* any number of power cycles, with `lilo -R` (map_patch_first) changing   *)
(* the default command line sector of the map file from the running        *)
(* system.                                                                 *)
(*                                                                         *)
(* Only that sector survives a power cycle.  A restart after a read error  *)
(* or for lack of memory (restrt) keeps the loader's memory: the command   *)
(* line buffer, the save buffer lkcbuf and the flag dolock.                *)
(*                                                                         *)
(* cmdline is what the buffer of that name holds up to the NUL.            *)
(***************************************************************************)
EXTENDS CommandLine

CONSTANTS
    Lines,          \* command lines that users and -R give
    Externals,      \* what other loaders may pass: Absent, <<>> or lines
    Leftovers,      \* what the buffer may hold behind a line without a NUL
    Strays,         \* what another segment may hold where usrinpm should be
    Configs,        \* configurations written by the map installer
    MaxPowerOns     \* bound: power cycles

Absent == <<"absent">>  \* no external command line, which is not an empty one

\* prompt, timeout, message: PROMPT, a finite TIMEOUT, MESSAGE.  fallback: FALLBACK
\* of each image, <<>> if none.  lock: images with LOCK.  password: "none",
\* "options" (with RESTRICTED) or "always".
ConfigSet ==
    [prompt : BOOLEAN, timeout : BOOLEAN, message : BOOLEAN,
     fallback : [Images -> Lines \cup {<<>>}],
     lock : SUBSET Images, password : [Images -> {"none", "options", "always"}]]

ASSUME PromptAssumption ==
    /\ "absent" \notin Chars
    /\ \A l \in Lines \cup (Externals \ {Absent}) \cup Leftovers \cup Strays : l \in Seq(Chars)
    /\ Configs \subseteq ConfigSet
    /\ MaxPowerOns \in Nat

VARIABLES
    conf,       \* what the installer wrote; never changes
    sector,     \* default command line sector: its magic number and its line
    pc,         \* where the loader is
    external,   \* the external command line (ext_bx with ext_dl), or Absent
    stored,     \* DFLCMD: the default line as read at (re)start
    cmdline, lkcbuf, dolock, \* the buffers and the flag of those names
    es,         \* the segment where input looks for usrinpm: "own", or "other"
    message,    \* the message file is still to be shown
    auto,       \* cmdbeg points to "auto "
    image,      \* what BX points to from boot on
    timer,      \* the input timeout is finite
    attended,   \* somebody is at the console in this power cycle
    powerOns,   \* power cycles so far
    choice,     \* history: who chose what is being booted, and the line
    failed,     \* history: why it was restarted last: "none", "message" or "load"
    unwritten,  \* history: the last write to the sector failed
    armed       \* history: a line was stored that no boot has used yet, or the
                \* one that was used could not be erased

memory == <<external, stored, cmdline, lkcbuf, dolock, es, message, auto, image, timer>>
history == <<choice, failed, unwritten, armed>>
vars == <<conf, sector, pc, memory, attended, powerOns, history>>

Init ==
    /\ conf \in Configs
    /\ sector = [magic |-> "off", line |-> <<>>]
    /\ pc = "off"
    /\ external = Absent /\ stored = <<>>
    /\ cmdline = <<>> /\ lkcbuf = <<>> /\ dolock = FALSE
    /\ es = "own" /\ message = conf.message
    /\ auto = TRUE /\ image = First /\ timer = conf.timeout
    /\ attended = FALSE /\ powerOns = 0
    /\ choice = [by |-> "default", line |-> <<>>]
    /\ failed = "none" /\ unwritten = FALSE /\ armed = FALSE

-----------------------------------------------------------------------------
(* Parts of several actions.                                               *)

\* iloop: the message comes first; then the prompt shows the line, and input comes
\* from the keyboard if ES:usrinpm says so.
Prompt(l) ==
    /\ pc' = IF message THEN "message" ELSE IF es' = "own" THEN "input" ELSE "stray"
    /\ cmdline' = l /\ auto' = TRUE
    /\ UNCHANGED image

\* doboot reads through ES: with another segment nobody knows what follows.
Loading == IF es' = "own" THEN "load" ELSE "lost"

\* boot: the password comes first if the image, or its options, ask for one.  A
\* space behind the name is discarded.
AsksPassword(i, l) ==
    \/ conf.password[i] = "always"
    \/ conf.password[i] = "options" /\ WithOptions(l)

Boot(i, l, a) ==
    /\ pc' = IF AsksPassword(i, l) THEN "password" ELSE Loading
    /\ image' = i /\ auto' = a
    /\ cmdline' = IF WithOptions(l) THEN l ELSE i

\* bcmd: the first token must be a name of the table.
Find(l, a) ==
    \/ \E i \in Named(l) : Boot(i, l, a)
    \/ Named(l) = {} /\ Prompt(l)

\* brfrst copies the name of the first image to the command line.
BootFirst(a) == Boot(First, First, a)

\* Mutant of Bfirst: the line left in the buffer is forgotten.
BfirstEmpty(a) == BootFirst(a)

\* bfirst: the line in the buffer, if any, or the first image.
Bfirst(a) == IF cmdline = <<>> THEN BootFirst(a) ELSE Find(cmdline, a)

\* Mutant of Brto: after a timeout the line at the prompt is booted.
BrtoLine(a) == Bfirst(a)

\* brto: after a timeout the first image is booted, whatever the line is.
Brto(a) == BootFirst(a)

\* crnul: save the line, take "lock" out of it, boot what is left; bfirst clears
\* the saved line.  ES is this segment again.
Accept(l, a) ==
    LET t == Trimmed(l) IN
    /\ es' = "own"
    /\ \/ /\ Refused(t)
          /\ lkcbuf' = l /\ dolock' = (Begins(Scanned(t), Lock) # {})
          /\ Prompt(Abandoned(t))
       \/ /\ ~Refused(t)
          /\ dolock' = (Begins(t, Lock) # {})
          /\ \/ Unlocked(t) # <<>> /\ lkcbuf' = l /\ Find(Unlocked(t), a)
             \/ Unlocked(t) = <<>> /\ lkcbuf' = <<>> /\ BootFirst(a)

\* niloop: the line, in this segment, is fed to the input loop as if it were typed.
Feed(l, source, segment) ==
    \/ /\ SingleKey(cmdline, l)
       /\ choice' = [by |-> source, line |-> KeyLine(l)]
       /\ Accept(KeyLine(l), FALSE)
    \/ /\ ~SingleKey(cmdline, l)
       /\ choice' = [by |-> source, line |-> Glue(<<>>, l)]
       /\ pc' = "delay" /\ cmdline' = Glue(cmdline, l) /\ es' = segment
       /\ UNCHANGED <<lkcbuf, dolock, auto, image>>

\* cwrite may fail; it says so on the screen and the loader goes on.
Write(magic, l) ==
    \/ sector' = [magic |-> magic, line |-> l] /\ unwritten' = FALSE
    \/ unwritten' = TRUE /\ UNCHANGED sector

Store(l) == Write("on", l) /\ armed' = IF unwritten' THEN armed ELSE l # <<>>

Machine == <<conf, attended, powerOns>>

-----------------------------------------------------------------------------
(* The second stage loader.                                                *)

\* Mutant of AfterRead: the line is not erased.
AfterReadStart(magic) == "start"

AfterRead(magic) == IF magic = "on" THEN "erase" ELSE "start"

\* restrt, ldsc (a read error there just repeats it): an invalid magic number
\* disables the line.
ReadStored ==
    /\ pc = "restart"
    /\ stored' = IF sector.magic = "on" THEN sector.line ELSE <<>>
    /\ pc' = AfterRead(sector.magic)
    /\ auto' = TRUE
    /\ UNCHANGED <<Machine, sector, external, cmdline, lkcbuf, dolock, es, message, image, timer,
                   history>>

\* "erase the magic number".
EraseStored ==
    /\ pc = "erase"
    /\ Write("off", sector.line)
    /\ pc' = "start"
    /\ UNCHANGED <<Machine, memory, choice, failed, armed>>

\* dokay: without PROMPT a shift key brings up the prompt.
ShiftKey ==
    /\ pc = "start" /\ ~conf.prompt /\ attended
    /\ UNCHANGED es /\ Prompt(cmdline)
    /\ UNCHANGED <<Machine, sector, external, stored, lkcbuf, dolock, message, timer, history>>

\* extp: an external command line is used once; an empty one means interactive.
\* Either way ES is left pointing to the segment that it came from.
UseExternal ==
    /\ pc = "start" /\ external # Absent
    /\ external' = Absent
    /\ \/ /\ external = <<>>
          /\ es' = "other" /\ Prompt(cmdline)
          /\ UNCHANGED <<lkcbuf, dolock, choice>>
       \/ external # <<>> /\ Feed(external, "external", "other")
    /\ UNCHANGED <<Machine, sector, stored, message, timer, failed, unwritten, armed>>

\* noex restores ES.
UseStored ==
    /\ pc = "start" /\ external = Absent /\ stored # <<>>
    /\ Feed(stored, "stored", "own")
    /\ armed' = unwritten
    /\ UNCHANGED <<Machine, sector, external, stored, message, timer, failed, unwritten>>

\* noex with nothing to use: the prompt, or (bfirst) the line left from a boot
\* that failed, or the first image.
FallThrough ==
    /\ pc = "start" /\ external = Absent /\ stored = <<>>
    /\ es' = "own"
    /\ IF conf.prompt THEN Prompt(cmdline) /\ UNCHANGED lkcbuf
       ELSE lkcbuf' = <<>> /\ Bfirst(auto)
    /\ UNCHANGED <<Machine, sector, external, stored, dolock, message, timer, history>>

\* The message file is read and shown, once; after it ES is this segment.
ShowMessage ==
    /\ pc = "message"
    /\ pc' = "input" /\ message' = FALSE /\ es' = "own"
    /\ UNCHANGED <<Machine, sector, external, stored, cmdline, lkcbuf, dolock, auto, image, timer,
                   history>>

\* nul: the end of a fed line; the delay passes, or a shift key interrupts it.  No
\* NUL was put behind the line then.
DelayPasses ==
    /\ pc = "delay"
    /\ Accept(cmdline, auto)
    /\ UNCHANGED <<Machine, sector, external, stored, message, timer, history>>

Interrupt ==
    /\ pc = "delay" /\ attended
    /\ UNCHANGED es
    /\ \E rest \in Leftovers \cup {<<>>} :
         Len(cmdline \o rest) <= MaxChars /\ Prompt(cmdline \o rest)
    /\ UNCHANGED <<Machine, sector, external, stored, lkcbuf, dolock, message, timer, history>>

Strayed == choice' = [by |-> "stray", line |-> <<>>]

\* Input comes from other memory.  It goes on as keyboard input, ends like a fed or
\* a typed line, or with TAB or "?", which ends in iloop again.
StrayInput(s) ==
    /\ pc = "stray"
    /\ IF SingleKey(cmdline, s)
       THEN /\ Accept(KeyLine(s), FALSE)
            /\ Strayed
       ELSE LET l == Glue(cmdline, s) IN
            \/ /\ pc' \in {"input", "stray"} /\ cmdline' = l
               /\ UNCHANGED <<lkcbuf, dolock, es, auto, image, choice>>
            \/ /\ pc' = "delay" /\ cmdline' = l
               /\ Strayed
               /\ UNCHANGED <<lkcbuf, dolock, es, auto, image>>
            \/ /\ Accept(l, FALSE)
               /\ Strayed
    /\ UNCHANGED <<Machine, sector, external, stored, message, timer, failed, unwritten, armed>>

\* getkey: with PROMPT (and ONE_SHOT) the first key ends the timeout for good.
KeyStopsTimer == timer' = (timer /\ ~conf.prompt)

\* A key that is taken back, and TAB or "?", which lists the images.
TouchKey ==
    /\ pc \in {"input", "password"} /\ attended
    /\ KeyStopsTimer
    /\ UNCHANGED <<Machine, sector, pc, external, stored, cmdline, lkcbuf, dolock, es, message, auto,
                   image, history>>

ListImages ==
    /\ pc = "input" /\ attended
    /\ KeyStopsTimer
    /\ UNCHANGED es /\ Prompt(cmdline)
    /\ UNCHANGED <<Machine, sector, external, stored, lkcbuf, dolock, message, history>>

\* A line is typed behind, or (^U) instead of, what is shown, up to Enter.
TypeLine(l) ==
    /\ pc = "input" /\ attended
    /\ KeyStopsTimer
    /\ \E old \in {cmdline, <<>>} :
         LET line == IF SingleKey(old, l) THEN KeyLine(l) ELSE Glue(old, l) IN
         /\ Accept(line, FALSE)
         /\ choice' = [by |-> "user", line |-> line]
    /\ UNCHANGED <<Machine, sector, external, stored, message, failed, unwritten, armed>>

\* The keyboard is silent; lkcbuf and dolock stay as they are, and ES.
InputTimeout ==
    /\ pc = "input" /\ timer
    /\ UNCHANGED es /\ Brto(auto)
    /\ choice' = [by |-> "default", line |-> <<>>]
    /\ UNCHANGED <<Machine, sector, external, stored, lkcbuf, dolock, message, timer, failed,
                   unwritten, armed>>

PasswordGood ==
    /\ pc = "password" /\ attended
    /\ KeyStopsTimer
    /\ UNCHANGED es /\ pc' = Loading
    /\ UNCHANGED <<Machine, sector, external, stored, cmdline, lkcbuf, dolock, message, auto, image,
                   history>>

PasswordWrong ==
    /\ pc = "password" /\ attended
    /\ KeyStopsTimer
    /\ UNCHANGED es /\ Prompt(cmdline)
    /\ UNCHANGED <<Machine, sector, external, stored, lkcbuf, dolock, message, history>>

\* pwtime: no answer in time is a wrong one.
PasswordTimeout ==
    /\ pc = "password" /\ timer
    /\ UNCHANGED es /\ Prompt(cmdline)
    /\ UNCHANGED <<Machine, sector, external, stored, lkcbuf, dolock, message, timer, history>>

\* doboot: RAM disk and first map sector, then the sectors of the image in their
\* order: fallback, options, boot sector, setup, kernel.
LoadMap ==
    /\ pc = "load"
    /\ pc' = "fallback"
    /\ UNCHANGED <<Machine, sector, memory, history>>

\* Mutant of MayStore: an erased magic number does not count as valid.
MayStoreOn(magic) == magic = "on"

\* The sector is overwritten only if its magic number was valid.
MayStore(magic) == magic \in {"on", "off"}

StoreFallback ==
    /\ pc = "fallback"
    /\ pc' = "options"
    /\ IF MayStore(sector.magic) /\ conf.fallback[image] # <<>>
       THEN Store(conf.fallback[image])
       ELSE UNCHANGED <<sector, unwritten, armed>>
    /\ UNCHANGED <<Machine, memory, choice, failed>>

LoadOptions ==
    /\ pc = "options"
    /\ pc' = "lock"
    /\ UNCHANGED <<Machine, sector, memory, history>>

\* Mutant of SavedLine: the line without its options "lock" is saved.
SavedLineStripped == cmdline

SavedLine == lkcbuf

StoreLocked ==
    /\ pc = "lock"
    /\ pc' = "kernel"
    /\ IF dolock \/ image \in conf.lock
       THEN Store(SavedLine)
       ELSE UNCHANGED <<sector, unwritten, armed>>
    /\ UNCHANGED <<Machine, memory, choice, failed>>

LoadKernel ==
    /\ pc = "kernel"
    /\ pc' = "running"
    /\ UNCHANGED <<Machine, sector, memory, history>>

\* rerror, msg_eof, msg_rd: a read error, a short map or too little memory; restrt
\* sets ES.
Restart ==
    /\ pc \in {"message", "load", "fallback", "options", "kernel"}
    /\ pc' = "restart" /\ es' = "own"
    /\ failed' = IF pc = "message" THEN "message" ELSE "load"
    /\ UNCHANGED <<Machine, sector, external, stored, cmdline, lkcbuf, dolock, message, auto, image,
                   timer, choice, unwritten, armed>>

-----------------------------------------------------------------------------
(* The machine and the running system.                                     *)

PowerOn ==
    /\ pc = "off" /\ powerOns < MaxPowerOns
    /\ powerOns' = powerOns + 1
    /\ pc' = "restart"
    /\ attended' \in BOOLEAN
    /\ external' \in Externals
    /\ UNCHANGED <<conf, sector, stored, cmdline, lkcbuf, dolock, es, message, auto, image, timer,
                   history>>

\* Reset, reboot or power failure: the memory of the loader is as in Init.
PowerOff ==
    /\ pc # "off"
    /\ pc' = "off" /\ attended' = FALSE
    /\ external' = Absent /\ stored' = <<>>
    /\ cmdline' = <<>> /\ lkcbuf' = <<>> /\ dolock' = FALSE
    /\ es' = "own" /\ message' = conf.message
    /\ auto' = TRUE /\ image' = First /\ timer' = conf.timeout
    /\ choice' = [by |-> "default", line |-> <<>>] /\ failed' = "none"
    /\ UNCHANGED <<conf, sector, powerOns, unwritten, armed>>

\* lilo -R: the first word must be in the table; no words clear the magic number.
PatchFirst(l) ==
    /\ pc = "running"
    /\ l = <<>> \/ Named(l) # {}
    /\ sector' = [magic |-> IF l = <<>> THEN "none" ELSE "on", line |-> l]
    /\ unwritten' = FALSE /\ armed' = (l # <<>>)
    /\ UNCHANGED <<Machine, pc, memory, choice, failed>>

Console ==
    \/ ShiftKey \/ Interrupt \/ TouchKey \/ ListImages \/ PasswordGood \/ PasswordWrong
    \/ \E l \in Lines \cup {<<>>} : TypeLine(l)

Loader ==
    \/ ReadStored \/ EraseStored \/ UseExternal \/ UseStored \/ FallThrough
    \/ (\E s \in Strays : StrayInput(s))
    \/ ShowMessage \/ DelayPasses \/ InputTimeout \/ PasswordTimeout
    \/ LoadMap \/ StoreFallback \/ LoadOptions \/ StoreLocked \/ LoadKernel
World == PowerOn \/ PowerOff \/ (\E l \in Lines \cup {<<>>} : PatchFirst(l))

Next == Console \/ Loader \/ Restart \/ World

Spec == Init /\ [][Next]_vars

\* The processor runs and the timer ticks; a disk that is read over and over is
\* read without an error some time.
Fairness ==
    /\ WF_vars(ReadStored \/ EraseStored \/ UseExternal \/ UseStored \/ FallThrough)
    /\ WF_vars(DelayPasses \/ InputTimeout \/ PasswordTimeout)
    /\ SF_vars(ShowMessage) /\ SF_vars(LoadMap) /\ SF_vars(StoreFallback) /\ SF_vars(LoadOptions)
    /\ WF_vars(StoreLocked) /\ SF_vars(LoadKernel)

FairSpec == Spec /\ Fairness
-----------------------------------------------------------------------------
\* The image that the tables of README, "Boot image selection", give a line; "lock"
\* is taken out of it as Unlocked does, which README does not say.
Words(line) == Unlocked(Trimmed(line))
Chosen(line) == IF Words(line) = <<>> THEN {First} ELSE Named(Words(line))

Booting == pc \in {"load", "fallback", "options", "lock", "kernel", "running"}

\* README, "Boot image selection": a boot that did not fail before loads the
\* image that the user, the external line, the stored line or the default
\* chooses, whatever went wrong at the prompt first, and the word "auto" is
\* passed unless a user chose.  (A single-key name in a stored line counts as
\* typed.)  What the loader reads from another segment (StrayInput) nobody chose.
SelectionTable ==
    Booting /\ failed = "none" /\ choice.by # "stray" =>
        /\ image \in Chosen(choice.line)
        /\ auto = (choice.by # "user") \/ image \in Singles

\* "That command line is removed from the map file": unless the write that
\* erases it failed, a stored line is used in one boot only, however often the
\* power fails or the load is restarted.
OneShotOnce == [][UseStored => armed]_vars

\* Without PROMPT and with nobody there, an image that could not be loaded is
\* tried again ("after an unsuccessful boot attempt, the respective image
\* becomes the default image"), unless a line was stored on the way.
FailedImageIsDefault ==
    [][Booting' /\ ~Booting /\ failed = "load" /\ ~attended /\ ~conf.prompt /\ stored = <<>>
         => image' = image]_vars

\* Once the line of an image with FALLBACK was written, a reset at any time
\* until the system runs finds it in the map file, so that it decides the next
\* boot.  Exempt are images that are locked too, and a sector that -R without
\* words has put out of use.
FallbackArmed ==
    /\ pc \in {"options", "lock", "kernel"} /\ conf.fallback[image] # <<>>
    /\ ~unwritten /\ ~dolock /\ image \notin conf.lock /\ sector.magic # "none"
    => sector = [magic |-> "on", line |-> conf.fallback[image]]

\* "lock stores the current command-line as the default command-line, so that
\* LILO boots the same image with the same options (including lock) when invoked
\* the next time": so it does for a line that a user typed and that did not
\* have to be restarted.  Exempt is a line of which nothing is left without its
\* "lock" (as "lockA"): bfirst clears the save buffer.
LockKeepsTypedChoice ==
    /\ pc = "kernel" /\ (dolock \/ image \in conf.lock)
    /\ choice.by = "user" /\ failed = "none" /\ ~unwritten
    /\ (choice.line = <<>> \/ Words(choice.line) # <<>>)
    => sector.line = choice.line

\* With nobody there, a finite TIMEOUT and a first image that asks for no
\* password, the machine always comes up, whatever line was stored.  Exempt is an
\* empty external line when there is no message to show: input does not come from
\* the keyboard then (OnlyPeopleChoose).
UnattendedBoots ==
    (/\ pc = "restart" /\ ~attended /\ conf.timeout /\ conf.password[First] # "always"
     /\ (external # <<>> \/ message))
        ~> pc \in {"running", "off"}

-----------------------------------------------------------------------------
(* What the manual promises, and the code does not keep.                   *)

\* doc/tech.tex: an empty external line "is interpreted as a request to enter the
\* boot prompt and to accept keyboard input", so that no line is accepted there
\* that nobody typed, passed or stored.
OnlyPeopleChoose == choice.by # "stray"
=============================================================================
