---------------------------- MODULE KernelProofs ----------------------------
(***************************************************************************)
(* Theorems about the kernel threads and about the memory that             *)
(* createProcess hands out, for every memory size, every width of int,     *)
(* every set of requests and every running time of the process threads.    *)
(*                                                                         *)
(* The threads: the vector shrinks only in case 7, between the erase and   *)
(* the reset of the index; everywhere else the index is 0 or in range, and *)
(* so is the copy pokazMenu works with.  schedulerMutex is held exactly    *)
(* inside the three critical sections, so nobody else changes the index    *)
(* between the lock of case 7 and its end.                                 *)
(*                                                                         *)
(* The memory: the constructor pushes one block, nothing splits it or adds *)
(* one, and nothing marks it free again, so that at most one process ever  *)
(* gets it.                                                                *)
(***************************************************************************)
EXTENDS Kernel, TLAPS

LOCAL INSTANCE SequencesExt

\* The inductive invariant.
Inv ==
    /\ TypeOK
    /\ LockHeldInside
    /\ ActiveInRange
    /\ ShownInRange

\* What a label of each thread may be (the type of pc).
MenuLabels == {"top", "input", "join", "create", "lock7", "join7", "erase7", "reset7"}
Labels == [menu : MenuLabels, scheduler : {"sleep", "lock", "switch"},
           sysCall : {"sleep", "lock", "relock"}]

-----------------------------------------------------------------------------
\* Moving the menu thread changes its label only.
LEMMA GotoMenu ==
    ASSUME pc \in Labels, NEW l \in MenuLabels, Goto("menu", l)
    PROVE  /\ pc' \in Labels
           /\ pc'.menu = l
           /\ pc'.scheduler = pc.scheduler /\ pc'.sysCall = pc.sysCall
  BY DEF Goto, Labels

\* Moving the scheduler thread changes its label only.
LEMMA GotoScheduler ==
    ASSUME pc \in Labels, NEW l \in {"sleep", "lock", "switch"}, Goto("scheduler", l)
    PROVE  /\ pc' \in Labels
           /\ pc'.scheduler = l
           /\ pc'.menu = pc.menu /\ pc'.sysCall = pc.sysCall
  BY DEF Goto, Labels

\* Moving the system call thread changes its label only.
LEMMA GotoSysCall ==
    ASSUME pc \in Labels, NEW l \in {"sleep", "lock", "relock"}, Goto("sysCall", l)
    PROVE  /\ pc' \in Labels
           /\ pc'.sysCall = l
           /\ pc'.menu = pc.menu /\ pc'.scheduler = pc.scheduler
  BY DEF Goto, Labels

\* Erasing one element of a vector leaves a vector, and an index that is in
\* range or 0 (of an empty vector) is enough for it.
LEMMA EraseType ==
    ASSUME NEW S, NEW s \in Seq(S), NEW i \in Nat, i = 0 \/ i < Len(s)
    PROVE  RemoveAt(s, i + 1) \in Seq(S)
  <1>1. SubSeq(s, 1, (i + 1) - 1) \in Seq(S)
    OBVIOUS
  <1>2. SubSeq(s, (i + 1) + 1, Len(s)) \in Seq(S)
    OBVIOUS
  <1> QED
    BY <1>1, <1>2 DEF RemoveAt

\* The round-robin successor is in range.
LEMMA NextIndexInRange ==
    ASSUME TypeOK, processes # <<>>
    PROVE  NextIndex \in Nat /\ NextIndex < Len(processes)
  <1>1. Len(processes) \in Nat \ {0} /\ activeProcessIndex \in Nat
    BY DEF TypeOK
  <1> QED
    BY <1>1 DEF NextIndex

\* Allocation keeps the types of the memory manager, and an address that is
\* not the failure value is a natural number.
LEMMA AllocateType ==
    ASSUME TypeOK, NEW size \in Int, NEW address \in Addresses,
           allocateMemory(size, address)
    PROVE  /\ remainingMemory' \in Int
           /\ memoryBlocks' \in Seq(Block)
           /\ address # Failed => address \in Nat
  <1>1. memoryBlocks \in Seq(Block) /\ remainingMemory \in Int
    BY DEF TypeOK
  <1>a. \A i \in DOMAIN memoryBlocks : memoryBlocks[i] \in Block
    BY <1>1
  <1>2. address # Failed => address \in Nat
    BY <1>a DEF Addresses, Block
  <1>3. CASE ~Allocatable(size)
    BY <1>1, <1>2, <1>3 DEF allocateMemory, memVars
  <1>4. CASE Allocatable(size)
    <2>1. PICK i \in Fitting(size) :
            memoryBlocks' = [memoryBlocks EXCEPT ![i] = Take(@)]
      BY <1>4 DEF allocateMemory
    <2>2. i \in DOMAIN memoryBlocks /\ Take(memoryBlocks[i]) \in Block
      <3>1. i \in DOMAIN memoryBlocks
        BY <2>1 DEF Fitting
      <3>2. PICK b \in Block : memoryBlocks[i] = b
        BY <1>a, <3>1
      <3> QED
        BY <3>1, <3>2 DEF Take, Block
    <2>3. memoryBlocks' \in Seq(Block)
      BY <1>1, <2>1, <2>2
    <2>4. remainingMemory' \in Int
      BY <1>1, <1>4, MemoryAssumption DEF allocateMemory, Wrap
    <2> QED
      BY <1>2, <2>3, <2>4
  <1> QED
    BY <1>3, <1>4

-----------------------------------------------------------------------------
\* The initial state satisfies the inductive invariant.
LEMMA InitInv == Init => Inv
  <1> SUFFICES ASSUME Init
               PROVE  Inv
    OBVIOUS
  <1>1. \A i \in Threads : [thread |-> i, addr |-> NoMemory, mem |-> 0] \in Process
    BY DEF Process, NoMemory, NoThread
  <1>2. processes = <<[thread |-> 1, addr |-> NoMemory, mem |-> 0],
                      [thread |-> 2, addr |-> NoMemory, mem |-> 0]>>
    BY DEF Init, Threads
  <1>3. processes \in Seq(Process) /\ Len(processes) = 2
    BY <1>1, <1>2 DEF Threads
  <1>4. memoryBlocks \in Seq(Block) /\ remainingMemory \in Int
    BY MemoryAssumption DEF Init, MemInit, Block
  <1>5. pc \in Labels /\ pc.menu = "top" /\ pc.scheduler = "sleep" /\ pc.sysCall = "sleep"
    BY DEF Init, Labels, MenuLabels
  <1>6. TypeOK
    BY <1>3, <1>4, <1>5, KernelAssumption
    DEF Init, TypeOK, Labels, MenuLabels, Threads, Nobody
  <1> QED
    BY <1>3, <1>5, <1>6 DEF Init, Inv, LockHeldInside, ActiveInRange, ShownInRange, Nobody

\* Every step keeps the types.  It needs the range of the active index, for the
\* element that case 7 erases.
LEMMA NextType == Inv /\ [Next]_vars => TypeOK'
  <1> SUFFICES ASSUME Inv, [Next]_vars
               PROVE  TypeOK'
    OBVIOUS
  <1>pc. TypeOK /\ pc \in Labels
    BY DEF Inv, TypeOK, Labels, MenuLabels
  <1> USE DEF vectorVars, threadVars, memVars
  <1>1. CASE SchedulerWake
    BY <1>pc, <1>1, GotoScheduler DEF SchedulerWake, TypeOK, Labels, MenuLabels
  <1>2. CASE SchedulerLock
    BY <1>pc, <1>2, GotoScheduler DEF SchedulerLock, TypeOK, Labels, MenuLabels
  <1>3. CASE SchedulerSwitch
    <2>1. CASE processes # <<>>
      BY <1>pc, <1>3, <2>1, GotoScheduler, NextIndexInRange
      DEF SchedulerSwitch, TypeOK, Labels, MenuLabels, Unlocked
    <2>2. CASE processes = <<>>
      BY <1>pc, <1>3, <2>2 DEF SchedulerSwitch, TypeOK, Crash
    <2> QED
      BY <2>1, <2>2
  <1>4. CASE SysCallWake
    BY <1>pc, <1>4, GotoSysCall DEF SysCallWake, TypeOK, Labels, MenuLabels
  <1>5. CASE SysCallLock
    BY <1>pc, <1>5, GotoSysCall DEF SysCallLock, TypeOK, Labels, MenuLabels
  <1>6. CASE ShowMenu
    BY <1>pc, <1>6, GotoMenu DEF ShowMenu, MenuIndex, TypeOK, Labels, MenuLabels
  <1>7. CASE JoinNext
    <2>1. joining' \in 0 .. 2
      BY <1>pc, <1>7 DEF JoinNext, TypeOK
    <2>2. joinable' \in [Threads -> BOOLEAN] /\ status' \in {"up", "crashed"}
      BY <1>pc, <1>7 DEF JoinNext, Join, Crash, TypeOK
    <2> QED
      BY <1>pc, <1>7, <2>1, <2>2 DEF JoinNext, TypeOK
  <1>8. CASE JoinEnd
    BY <1>pc, <1>8, GotoMenu DEF JoinEnd, TypeOK, Labels, MenuLabels
  <1>9. CASE TerminateLock
    BY <1>pc, <1>9, GotoMenu DEF TerminateLock, TypeOK, Labels, MenuLabels
  <1>10. CASE TerminateJoin
    <2>1. joinable' \in [Threads -> BOOLEAN] /\ status' \in {"up", "crashed"}
      BY <1>pc, <1>10 DEF TerminateJoin, Join, Crash, TypeOK
    <2>2. pc' \in Labels
      BY <1>pc, <1>10, GotoMenu DEF TerminateJoin, MenuLabels
    <2> QED
      BY <1>pc, <1>10, <2>1, <2>2 DEF TerminateJoin, TypeOK, Labels, MenuLabels
  <1>11. CASE TerminateErase /\ status = "up"
    <2>1. activeProcessIndex = 0 \/ activeProcessIndex < Len(processes)
      BY <1>11 DEF Inv, ActiveInRange, TerminateErase
    <2>2. processes' \in Seq(Process)
      BY <1>pc, <1>11, <2>1, EraseType DEF TerminateErase, TypeOK
    <2>3. pc' \in Labels
      BY <1>pc, <1>11, GotoMenu DEF TerminateErase, MenuLabels
    <2> QED
      BY <1>pc, <1>11, <2>2, <2>3 DEF TerminateErase, TypeOK, Labels, MenuLabels
  <1>12. CASE TerminateReset
    BY <1>pc, <1>12, GotoMenu
    DEF TerminateReset, ResetIndex, Unlocked, TypeOK, Labels, MenuLabels
  <1>13. CASE ChooseRun
    BY <1>pc, <1>13, GotoMenu DEF ChooseRun, TypeOK, Labels, MenuLabels
  <1>14. CASE ChooseBrowser
    BY <1>pc, <1>14, GotoMenu DEF ChooseBrowser, Crash, TypeOK, Labels, MenuLabels
  <1>15. CASE ChooseList
    BY <1>pc, <1>15 DEF ChooseList, Crash, TypeOK
  <1>16. CASE ChooseOther
    BY <1>pc, <1>16, GotoMenu DEF ChooseOther, TypeOK, Labels, MenuLabels
  <1>17. CASE ChooseExit
    BY <1>pc, <1>17 DEF ChooseExit, Crash, TypeOK
  <1>18. CASE ChooseCreate
    BY <1>pc, <1>18, GotoMenu DEF ChooseCreate, TypeOK, Labels, MenuLabels
  <1>19. CASE ChooseTerminate
    BY <1>pc, <1>19, GotoMenu DEF ChooseTerminate, TypeOK, Labels, MenuLabels
  <1>20. ASSUME NEW size \in Requests, CreateProcess(size)
         PROVE  TypeOK'
    <2>1. PICK address \in Addresses :
            /\ allocateMemory(size, address)
            /\ \/ /\ address # Failed
                  /\ processes' = Append(processes, [thread |-> NoThread, addr |-> address,
                                                     mem |-> size])
                  /\ dangling' = IF Reallocates THEN Threads ELSE dangling
               \/ /\ address = Failed
                  /\ UNCHANGED vectorVars
      BY <1>20 DEF CreateProcess
    <2>2. size \in Int
      BY MemoryAssumption
    <2>3. /\ remainingMemory' \in Int
          /\ memoryBlocks' \in Seq(Block)
          /\ address # Failed => address \in Nat
      BY <1>pc, <2>1, <2>2, AllocateType
    <2>4. processes' \in Seq(Process) /\ dangling' \subseteq Threads
      <3>1. address # Failed =>
              [thread |-> NoThread, addr |-> address, mem |-> size] \in Process
        BY <2>2, <2>3 DEF Process
      <3>2. processes \in Seq(Process)
        BY <1>pc DEF TypeOK
      <3>3. processes' = processes \/ \E p \in Process : processes' = Append(processes, p)
        BY <2>1, <3>1
      <3>4. processes' \in Seq(Process)
        BY <3>2, <3>3
      <3> QED
        BY <1>pc, <2>1, <3>4 DEF TypeOK
    <2>5. pc' \in Labels
      BY <1>pc, <1>20, GotoMenu DEF CreateProcess, MenuLabels
    <2> QED
      BY <1>pc, <1>20, <2>3, <2>4, <2>5 DEF CreateProcess, TypeOK, Labels, MenuLabels
  <1>21. CASE BrowserDone
    BY <1>pc, <1>21 DEF BrowserDone, TypeOK
  <1>22. ASSUME NEW i \in Threads, ExecuteStep(i)
         PROVE  TypeOK'
    <2>1. left' \in [Threads -> Nat]
      BY <1>pc, <1>22 DEF ExecuteStep, Iterate, TypeOK
    <2> QED
      BY <1>pc, <1>22, <2>1 DEF ExecuteStep, TypeOK
  <1>23. ASSUME NEW i \in Threads, ExecuteDangling(i)
         PROVE  TypeOK'
    BY <1>pc, <1>23 DEF ExecuteDangling, Crash, TypeOK
  <1>24. CASE UNCHANGED vars
    BY <1>pc, <1>24 DEF vars, TypeOK
  <1> QED
    BY <1>1, <1>2, <1>3, <1>4, <1>5, <1>6, <1>7, <1>8, <1>9, <1>10, <1>11, <1>12, <1>13,
       <1>14, <1>15, <1>16, <1>17, <1>18, <1>19, <1>20, <1>21, <1>22, <1>23, <1>24
    DEF Next, Scheduler, SysCall, MenuStep, MenuInput

\* The mutex is owned by the thread inside its critical section, and by nobody
\* when none is.
LEMMA NextLock == Inv /\ [Next]_vars => LockHeldInside'
  <1> SUFFICES ASSUME Inv, [Next]_vars
               PROVE  LockHeldInside'
    OBVIOUS
  <1>pc. LockHeldInside /\ pc \in Labels
    BY DEF Inv, TypeOK, Labels, MenuLabels
  <1> USE DEF vectorVars, threadVars, memVars
  <1>1. CASE SchedulerWake
    BY <1>pc, <1>1, GotoScheduler
    DEF SchedulerWake, LockHeldInside, Nobody, MenuLabels
  <1>2. CASE SchedulerLock
    BY <1>pc, <1>2, GotoScheduler
    DEF SchedulerLock, MayLock, LockHeldInside, Nobody, MenuLabels
  <1>3. CASE SchedulerSwitch
    BY <1>pc, <1>3, GotoScheduler
    DEF SchedulerSwitch, Unlocked, Crash, LockHeldInside, Nobody, MenuLabels
  <1>4. CASE SysCallWake
    BY <1>pc, <1>4, GotoSysCall
    DEF SysCallWake, LockHeldInside, Nobody, MenuLabels
  <1>5. CASE SysCallLock
    BY <1>pc, <1>5, GotoSysCall
    DEF SysCallLock, MayLock, LockHeldInside, Nobody, MenuLabels
  <1>6. CASE ShowMenu
    BY <1>pc, <1>6, GotoMenu
    DEF ShowMenu, LockHeldInside, Nobody, MenuLabels
  <1>7. CASE JoinNext
    BY <1>pc, <1>7
    DEF JoinNext, LockHeldInside, Nobody, MenuLabels
  <1>8. CASE JoinEnd
    BY <1>pc, <1>8, GotoMenu
    DEF JoinEnd, LockHeldInside, Nobody, MenuLabels
  <1>9. CASE TerminateLock
    BY <1>pc, <1>9, GotoMenu
    DEF TerminateLock, MayLock, LockHeldInside, Nobody, MenuLabels
  <1>10. CASE TerminateJoin
    BY <1>pc, <1>10, GotoMenu
    DEF TerminateJoin, LockHeldInside, Nobody, MenuLabels
  <1>11. CASE TerminateErase
    BY <1>pc, <1>11, GotoMenu
    DEF TerminateErase, LockHeldInside, Nobody, MenuLabels
  <1>12. CASE TerminateReset
    BY <1>pc, <1>12, GotoMenu
    DEF TerminateReset, Unlocked, LockHeldInside, Nobody, MenuLabels
  <1>13. CASE ChooseRun
    BY <1>pc, <1>13, GotoMenu
    DEF ChooseRun, LockHeldInside, Nobody, MenuLabels
  <1>14. CASE ChooseBrowser
    BY <1>pc, <1>14, GotoMenu
    DEF ChooseBrowser, LockHeldInside, Nobody, MenuLabels
  <1>15. CASE ChooseList
    BY <1>pc, <1>15
    DEF ChooseList, LockHeldInside, Nobody, MenuLabels
  <1>16. CASE ChooseOther
    BY <1>pc, <1>16, GotoMenu
    DEF ChooseOther, LockHeldInside, Nobody, MenuLabels
  <1>17. CASE ChooseExit
    BY <1>pc, <1>17
    DEF ChooseExit, LockHeldInside, Nobody, MenuLabels
  <1>18. CASE ChooseCreate
    BY <1>pc, <1>18, GotoMenu
    DEF ChooseCreate, LockHeldInside, Nobody, MenuLabels
  <1>19. CASE ChooseTerminate
    BY <1>pc, <1>19, GotoMenu
    DEF ChooseTerminate, LockHeldInside, Nobody, MenuLabels
  <1>20. ASSUME NEW size \in Requests, CreateProcess(size)
         PROVE  LockHeldInside'
    BY <1>pc, <1>20, GotoMenu DEF CreateProcess, LockHeldInside, MenuLabels
  <1>21. CASE BrowserDone
    BY <1>pc, <1>21 DEF BrowserDone, LockHeldInside
  <1>22. ASSUME NEW i \in Threads, ExecuteStep(i) \/ ExecuteDangling(i)
         PROVE  LockHeldInside'
    BY <1>pc, <1>22 DEF ExecuteStep, ExecuteDangling, LockHeldInside
  <1>23. CASE UNCHANGED vars
    BY <1>pc, <1>23 DEF vars, LockHeldInside
  <1> QED
    BY <1>1, <1>2, <1>3, <1>4, <1>5, <1>6, <1>7, <1>8, <1>9, <1>10, <1>11, <1>12, <1>13,
       <1>14, <1>15, <1>16, <1>17, <1>18, <1>19, <1>20, <1>21, <1>22, <1>23
    DEF Next, Scheduler, SysCall, MenuStep, MenuInput

\* The indices stay good over a step that leaves them and the vector alone, or
\* copies the active index for pokazMenu.
LEMMA FrameRange ==
    ASSUME Inv, UNCHANGED <<processes, activeProcessIndex>>,
           status' = status \/ status' # "up",
           pc'.menu # "reset7" => pc.menu # "reset7",
           pc'.menu = "input" => \/ shown' = activeProcessIndex
                                 \/ shown' = shown /\ pc.menu = "input"
    PROVE  ActiveInRange' /\ ShownInRange'
  BY DEF Inv, ActiveInRange, ShownInRange

\* Every step keeps the indices in range.
LEMMA NextRange == Inv /\ [Next]_vars => ActiveInRange' /\ ShownInRange'
  <1> SUFFICES ASSUME Inv, [Next]_vars
               PROVE  ActiveInRange' /\ ShownInRange'
    OBVIOUS
  <1>pc. TypeOK /\ pc \in Labels
    BY DEF Inv, TypeOK, Labels, MenuLabels
  <1> USE DEF vectorVars, threadVars, memVars
  <1>1. CASE SchedulerWake
    BY <1>pc, <1>1, GotoScheduler, FrameRange
    DEF SchedulerWake
  <1>2. CASE SchedulerLock
    BY <1>pc, <1>2, GotoScheduler, FrameRange
    DEF SchedulerLock
  <1>3. CASE SchedulerSwitch
    <2>1. CASE processes = <<>>
      BY <1>3, <2>1, FrameRange DEF SchedulerSwitch, Crash
    <2>2. CASE processes # <<>>
      <3>1. activeProcessIndex' < Len(processes')
        BY <1>pc, <1>3, <2>2, NextIndexInRange DEF SchedulerSwitch
      <3>2. pc'.menu = pc.menu /\ status' = status /\ shown' = shown
        BY <1>pc, <1>3, <2>2, GotoScheduler DEF SchedulerSwitch
      <3> QED
        BY <1>3, <3>1, <3>2 DEF SchedulerSwitch, Inv, ActiveInRange, ShownInRange
    <2> QED
      BY <2>1, <2>2
  <1>4. CASE SysCallWake
    BY <1>pc, <1>4, GotoSysCall, FrameRange
    DEF SysCallWake
  <1>5. CASE SysCallLock
    BY <1>pc, <1>5, GotoSysCall, FrameRange
    DEF SysCallLock
  <1>6. CASE ShowMenu
    BY <1>pc, <1>6, GotoMenu, FrameRange
    DEF ShowMenu, MenuIndex, MenuLabels
  <1>7. CASE JoinNext
    BY <1>pc, <1>7, FrameRange
    DEF JoinNext, Join, Crash
  <1>8. CASE JoinEnd
    BY <1>pc, <1>8, GotoMenu, FrameRange
    DEF JoinEnd, MenuLabels
  <1>9. CASE TerminateLock
    BY <1>pc, <1>9, GotoMenu, FrameRange
    DEF TerminateLock, MenuLabels
  <1>10. CASE TerminateJoin
    BY <1>pc, <1>10, GotoMenu, FrameRange
    DEF TerminateJoin, Join, Crash, MenuLabels
  <1>11. CASE TerminateErase
    <2>1. pc'.menu = "reset7"
      BY <1>pc, <1>11, GotoMenu DEF TerminateErase, MenuLabels
    <2> QED
      BY <2>1 DEF ActiveInRange, ShownInRange
  <1>12. CASE TerminateReset
    <2>1. pc'.menu = "top" /\ activeProcessIndex' = 0
      BY <1>pc, <1>12, GotoMenu DEF TerminateReset, ResetIndex, MenuLabels
    <2> QED
      BY <2>1 DEF ActiveInRange, ShownInRange
  <1>13. CASE ChooseRun
    BY <1>pc, <1>13, GotoMenu, FrameRange
    DEF ChooseRun, MenuLabels
  <1>14. CASE ChooseBrowser
    BY <1>pc, <1>14, GotoMenu, FrameRange
    DEF ChooseBrowser, Crash, MenuLabels
  <1>15. CASE ChooseList
    BY <1>pc, <1>15, FrameRange
    DEF ChooseList, Crash
  <1>16. CASE ChooseOther
    BY <1>pc, <1>16, GotoMenu, FrameRange
    DEF ChooseOther, MenuLabels
  <1>17. CASE ChooseExit
    BY <1>pc, <1>17, FrameRange
    DEF ChooseExit, Crash
  <1>18. CASE ChooseCreate
    BY <1>pc, <1>18, GotoMenu, FrameRange
    DEF ChooseCreate, MenuLabels
  <1>19. CASE ChooseTerminate
    BY <1>pc, <1>19, GotoMenu, FrameRange
    DEF ChooseTerminate, MenuLabels
  <1>20. ASSUME NEW size \in Requests, CreateProcess(size)
         PROVE  ActiveInRange' /\ ShownInRange'
    <2>1. pc.menu = "create" /\ pc'.menu = "top" /\ status' = status
      BY <1>pc, <1>20, GotoMenu DEF CreateProcess, MenuLabels
    <2>2. processes' = processes \/ \E p : processes' = Append(processes, p)
      BY <1>20 DEF CreateProcess
    <2>3. Len(processes) \in Nat /\ Len(processes') \in {Len(processes), Len(processes) + 1}
      BY <1>pc, <2>2 DEF TypeOK
    <2> QED
      BY <1>pc, <1>20, <2>1, <2>3
      DEF CreateProcess, Inv, TypeOK, ActiveInRange, ShownInRange
  <1>21. CASE BrowserDone
    BY <1>21 DEF BrowserDone, Inv, ActiveInRange, ShownInRange
  <1>22. ASSUME NEW i \in Threads, ExecuteStep(i)
         PROVE  ActiveInRange' /\ ShownInRange'
    BY <1>22 DEF ExecuteStep, Inv, ActiveInRange, ShownInRange
  <1>23. ASSUME NEW i \in Threads, ExecuteDangling(i)
         PROVE  ActiveInRange' /\ ShownInRange'
    BY <1>23 DEF ExecuteDangling, Crash, Inv, ActiveInRange, ShownInRange
  <1>24. CASE UNCHANGED vars
    BY <1>24 DEF vars, Inv, ActiveInRange, ShownInRange
  <1> QED
    BY <1>1, <1>2, <1>3, <1>4, <1>5, <1>6, <1>7, <1>8, <1>9, <1>10, <1>11, <1>12, <1>13,
       <1>14, <1>15, <1>16, <1>17, <1>18, <1>19, <1>20, <1>21, <1>22, <1>23, <1>24
    DEF Next, Scheduler, SysCall, MenuStep, MenuInput

\* Under the mutex of case 7 only the menu thread moves the index, and it does
\* so in the last step.
LEMMA FrozenStep ==
    ASSUME Inv, [Next]_vars, pc.menu \in {"join7", "erase7"}
    PROVE  activeProcessIndex' = activeProcessIndex
  <1>1. pc.scheduler # "switch"
    BY DEF Inv, LockHeldInside
  <1>2. CASE UNCHANGED vars
    BY <1>2 DEF vars
  <1>3. CASE Next
    BY <1>1, <1>3
    DEF Next, Scheduler, SysCall, MenuStep, MenuInput, SchedulerWake, SchedulerLock,
        SchedulerSwitch, SysCallWake, SysCallLock, ShowMenu, JoinNext, JoinEnd,
        TerminateLock, TerminateJoin, TerminateErase, TerminateReset, ChooseRun,
        ChooseBrowser, ChooseList, ChooseOther, ChooseExit, ChooseCreate,
        ChooseTerminate, CreateProcess, BrowserDone, ExecuteStep, ExecuteDangling
  <1> QED
    BY <1>2, <1>3

-----------------------------------------------------------------------------
\* The inductive invariant holds in every reachable state of kernel_main.
THEOREM Invariance == Spec => []Inv
  <1>1. Inv /\ [Next]_vars => Inv'
    BY NextType, NextLock, NextRange DEF Inv
  <1> QED
    BY InitInv, <1>1, PTL DEF Spec

\* Type correctness of the threads, the vector and the memory manager's blocks.
THEOREM TypeCorrect == Spec => []TypeOK
  <1>1. Inv => TypeOK
    BY DEF Inv
  <1> QED
    BY <1>1, Invariance, PTL

\* scheduler() and pokazMenu() index `processes` without a bounds check; outside
\* case 7 the index is always one they may use.
THEOREM IndexInRange == Spec => []IndicesInRange
  <1>1. Inv => IndicesInRange
    BY DEF Inv, IndicesInRange
  <1> QED
    BY <1>1, Invariance, PTL

\* schedulerMutex is owned exactly by the thread inside its critical section.
THEOREM MutexProtects == Spec => []LockHeldInside
  <1>1. Inv => LockHeldInside
    BY DEF Inv
  <1> QED
    BY <1>1, Invariance, PTL

\* Case 7 erases the process that was active when it took the mutex.
THEOREM ErasesTheActive == Spec => ActiveFrozenDuringTerminate
  <1>1. Inv /\ [Next]_vars
          => [pc.menu \in {"join7", "erase7"}
                => activeProcessIndex' = activeProcessIndex]_vars
    BY FrozenStep
  <1> QED
    BY <1>1, Invariance, PTL DEF Spec, ActiveFrozenDuringTerminate

-----------------------------------------------------------------------------
(* The memory that createProcess hands out.                                *)

\* The only block list there can be, free or taken.
OneBlock(isFree) ==
    <<[startAddress |-> 0, size |-> TotalMemory, free |-> isFree]>>

\* The process at place i of the vector has memory.
HasMemory(i) == processes[i].addr # NoMemory

\* The inductive invariant: there is one block, and at most one process has it.
GrantedOnce ==
    /\ \E b \in BOOLEAN :
         /\ memoryBlocks = OneBlock(b)
         /\ b => \A i \in DOMAIN processes : ~HasMemory(i)
    /\ \A i \in DOMAIN processes : HasMemory(i) =>
         processes[i].addr + processes[i].mem <= TotalMemory
    /\ \A i, j \in DOMAIN processes : HasMemory(i) /\ HasMemory(j) => i = j

\* Updating the flag of a block record gives the record with the other flag.
LEMMA MarkRecord ==
    ASSUME NEW b, NEW c,
           NEW block, block = [startAddress |-> 0, size |-> TotalMemory, free |-> b]
    PROVE  [block EXCEPT !.free = c]
             = [startAddress |-> 0, size |-> TotalMemory, free |-> c]
  <1> DEFINE new == [block EXCEPT !.free = c]
  <1>1. DOMAIN block = {"startAddress", "size", "free"}
    OBVIOUS
  <1>2. new = [f \in DOMAIN block |-> IF f = "free" THEN c ELSE block[f]]
    BY <1>1
  <1> QED
    BY <1>1, <1>2

\* Marking the only block free or taken gives the other block list.
LEMMA MarkBlock ==
    ASSUME NEW b, NEW c,
           NEW block, block = [startAddress |-> 0, size |-> TotalMemory, free |-> c]
    PROVE  [OneBlock(b) EXCEPT ![1] = block] = OneBlock(c)
  <1> DEFINE new == [OneBlock(b) EXCEPT ![1] = block]
  <1>1. new = [i \in {1} |-> block]
    BY DEF OneBlock
  <1>2. OneBlock(c) = [i \in {1} |-> block]
    BY DEF OneBlock
  <1> QED
    BY <1>1, <1>2

\* Two sequences one after the other: how long the result is, what it holds.
LEMMA ConcatElements ==
    ASSUME NEW S, NEW f \in Seq(S), NEW g \in Seq(S)
    PROVE  /\ DOMAIN (f \o g) = 1 .. Len(f) + Len(g)
           /\ \A n \in 1 .. Len(f) : (f \o g)[n] = f[n]
           /\ \A n \in Len(f) + 1 .. Len(f) + Len(g) : (f \o g)[n] = g[n - Len(f)]
  OBVIOUS

\* Erasing one element leaves the others, in their order.
LEMMA EraseElements ==
    ASSUME NEW S, NEW s \in Seq(S), NEW i \in Nat, i = 0 \/ i < Len(s)
    PROVE  \A m, n \in DOMAIN RemoveAt(s, i + 1) :
              \E k, l \in DOMAIN s :
                 /\ RemoveAt(s, i + 1)[m] = s[k]
                 /\ RemoveAt(s, i + 1)[n] = s[l]
                 /\ (k = l => m = n)
  <1>1. PICK front : front = SubSeq(s, 1, i)
    OBVIOUS
  <1>2. PICK back : back = SubSeq(s, i + 2, Len(s))
    OBVIOUS
  <1>3. PICK rest : rest = front \o back
    OBVIOUS
  <1>4. RemoveAt(s, i + 1) = rest
    <2>1. (i + 1) - 1 = i /\ (i + 1) + 1 = i + 2
      OBVIOUS
    <2> QED
      BY <1>1, <1>2, <1>3, <2>1 DEF RemoveAt
  <1>5. front \in Seq(S) /\ back \in Seq(S)
    BY <1>1, <1>2
  <1>6. /\ DOMAIN rest = 1 .. Len(front) + Len(back)
        /\ \A n \in 1 .. Len(front) : rest[n] = front[n]
        /\ \A n \in Len(front) + 1 .. Len(front) + Len(back) :
             rest[n] = back[n - Len(front)]
    BY <1>3, <1>5, ConcatElements
  <1>7. DOMAIN s = 1 .. Len(s) /\ Len(s) \in Nat
    OBVIOUS
  <1> SUFFICES ASSUME NEW m \in DOMAIN rest, NEW n \in DOMAIN rest
               PROVE  \E k, l \in DOMAIN s :
                         rest[m] = s[k] /\ rest[n] = s[l] /\ (k = l => m = n)
    BY <1>4
  <1>8. CASE i < Len(s)
    <2>1. Len(front) = i /\ \A h \in 1 .. i : front[h] = s[h]
      BY <1>1, <1>8
    <2>2. /\ Len(back) = Len(s) - (i + 1)
          /\ \A h \in 1 .. Len(s) - (i + 1) : back[h] = s[h + (i + 1)]
      BY <1>2, <1>8
    <2>3. DOMAIN rest = 1 .. Len(s) - 1 /\ m \in 1 .. Len(s) - 1 /\ n \in 1 .. Len(s) - 1
      <3>1. Len(front) + Len(back) = Len(s) - 1
        BY <1>7, <2>1, <2>2
      <3> QED
        BY <1>6, <3>1
    <2>4. ASSUME NEW p \in 1 .. i
          PROVE  p \in DOMAIN s /\ rest[p] = s[p]
      BY <1>6, <1>7, <1>8, <2>1
    <2>5. ASSUME NEW p \in i + 1 .. Len(s) - 1
          PROVE  p + 1 \in DOMAIN s /\ rest[p] = s[p + 1]
      <3>1. p \in Len(front) + 1 .. Len(front) + Len(back)
        BY <1>7, <2>1, <2>2
      <3>2. rest[p] = back[p - i]
        BY <1>6, <2>1, <3>1, Zenon
      <3>3. back[p - i] = s[(p - i) + (i + 1)]
        BY <1>7, <1>8, <2>2
      <3>4. (p - i) + (i + 1) = p + 1
        BY <1>7
      <3> QED
        BY <1>7, <3>2, <3>3, <3>4
    <2>6. PICK k \in DOMAIN s :
            /\ rest[m] = s[k]
            /\ (m <= i /\ k = m) \/ (m > i /\ k = m + 1)
      <3>1. m \in 1 .. i \/ m \in i + 1 .. Len(s) - 1
        BY <1>7, <2>3
      <3> QED
        BY <2>4, <2>5, <3>1
    <2>7. PICK l \in DOMAIN s :
            /\ rest[n] = s[l]
            /\ (n <= i /\ l = n) \/ (n > i /\ l = n + 1)
      <3>1. n \in 1 .. i \/ n \in i + 1 .. Len(s) - 1
        BY <1>7, <2>3
      <3> QED
        BY <2>4, <2>5, <3>1
    <2>8. k = l => m = n
      BY <1>7, <2>3, <2>6, <2>7
    <2> QED
      BY <2>6, <2>7, <2>8
  <1>9. CASE ~(i < Len(s))
    <2>0. i = 0 /\ Len(s) = 0
      BY <1>7, <1>9
    <2>1. Len(front) = 0 /\ Len(back) = 0
      BY <1>1, <1>2, <2>0
    <2> QED
      BY <1>4, <1>6, <2>1
  <1> QED
    BY <1>8, <1>9

\* Nobody has memory at first.
LEMMA InitGranted == Init => GrantedOnce
  <1> SUFFICES ASSUME Init
               PROVE  GrantedOnce
    OBVIOUS
  <1>1. memoryBlocks = OneBlock(TRUE)
    BY DEF Init, MemInit, OneBlock
  <1>2. \A i \in DOMAIN processes : ~HasMemory(i)
    BY DEF Init, HasMemory
  <1> QED
    BY <1>1, <1>2 DEF GrantedOnce

\* What the vector and the blocks are decides the invariant.
LEMMA SameGrants ==
    GrantedOnce /\ UNCHANGED <<processes, memoryBlocks>> => GrantedOnce'
  BY DEF GrantedOnce, HasMemory, OneBlock

\* Erasing a process keeps it: the block stays taken.
LEMMA EraseGranted ==
    ASSUME Inv, GrantedOnce, status = "up", TerminateErase
    PROVE  GrantedOnce'
  <1>1. activeProcessIndex \in Nat /\ processes \in Seq(Process)
    BY DEF Inv, TypeOK
  <1>2. activeProcessIndex = 0 \/ activeProcessIndex < Len(processes)
    BY DEF Inv, ActiveInRange, TerminateErase
  <1>3. processes' = RemoveAt(processes, activeProcessIndex + 1)
    BY DEF TerminateErase
  <1>4. \A m, n \in DOMAIN processes' :
          \E k, l \in DOMAIN processes :
             /\ processes'[m] = processes[k] /\ processes'[n] = processes[l]
             /\ k = l => m = n
    BY <1>1, <1>2, <1>3, EraseElements
  <1>5. memoryBlocks' = memoryBlocks
    BY DEF TerminateErase, memVars
  <1> QED
    BY <1>4, <1>5 DEF GrantedOnce, HasMemory, OneBlock

\* createProcess keeps it: the block is handed out only while it is free.
LEMMA CreateGranted ==
    ASSUME Inv, GrantedOnce, NEW size \in Requests, CreateProcess(size)
    PROVE  GrantedOnce'
  <1>1. PICK address \in Addresses :
          /\ allocateMemory(size, address)
          /\ \/ /\ address # Failed
                /\ processes' = Append(processes, [thread |-> NoThread, addr |-> address,
                                                   mem |-> size])
             \/ /\ address = Failed
                /\ UNCHANGED processes
    BY DEF CreateProcess, vectorVars
  <1>2. processes \in Seq(Process)
    BY DEF Inv, TypeOK
  <1>3. PICK b \in BOOLEAN :
          /\ memoryBlocks = OneBlock(b)
          /\ b => \A i \in DOMAIN processes : ~HasMemory(i)
    BY DEF GrantedOnce
  <1>4. CASE ~Allocatable(size)
    <2>1. address = Failed /\ UNCHANGED memoryBlocks
      BY <1>1, <1>4 DEF allocateMemory, memVars
    <2> QED
      BY <1>1, <2>1, SameGrants
  <1>5. CASE Allocatable(size)
    <2>1. PICK i \in Fitting(size) :
            /\ address = memoryBlocks[i].startAddress
            /\ memoryBlocks' = [memoryBlocks EXCEPT ![i] = Take(@)]
      BY <1>1, <1>5 DEF allocateMemory
    <2>2. i = 1 /\ b = TRUE /\ size \in Int /\ size <= TotalMemory /\ address = 0
      BY <1>3, <2>1, MemoryAssumption DEF Fitting, OneBlock
    <2>3. memoryBlocks' = OneBlock(FALSE)
      <3>1. memoryBlocks' = [OneBlock(TRUE) EXCEPT ![1] = Take(OneBlock(TRUE)[1])]
        BY <1>3, <2>1, <2>2
      <3>2. Take(OneBlock(TRUE)[1])
              = [startAddress |-> 0, size |-> TotalMemory, free |-> FALSE]
        <4>1. OneBlock(TRUE)[1] = [startAddress |-> 0, size |-> TotalMemory, free |-> TRUE]
          BY DEF OneBlock
        <4>2. Take(OneBlock(TRUE)[1]) = [OneBlock(TRUE)[1] EXCEPT !.free = FALSE]
          BY DEF Take
        <4>3. ASSUME NEW r, r = [startAddress |-> 0, size |-> TotalMemory, free |-> TRUE]
              PROVE  [r EXCEPT !.free = FALSE]
                       = [startAddress |-> 0, size |-> TotalMemory, free |-> FALSE]
          BY <4>3, MarkRecord
        <4> QED
          BY <4>1, <4>2, <4>3
      <3> QED
        BY <3>1, <3>2, MarkBlock
    <2>4. PICK new : /\ new = [thread |-> NoThread, addr |-> 0, mem |-> size]
                     /\ processes' = Append(processes, new)
      BY <1>1, <2>2 DEF Failed
    <2>5. new.addr = 0 /\ new.mem = size
      BY <2>4
    <2>6. /\ DOMAIN processes' = 1 .. Len(processes) + 1
          /\ \A n \in DOMAIN processes : processes'[n] = processes[n]
          /\ processes'[Len(processes) + 1] = new
          /\ DOMAIN processes = 1 .. Len(processes) /\ Len(processes) \in Nat
      BY <1>2, <2>4
    <2>7. \A n \in DOMAIN processes' : processes'[n].addr # NoMemory =>
            n = Len(processes) + 1
      BY <1>3, <2>2, <2>6 DEF HasMemory
    <2>8. \A n \in DOMAIN processes' : HasMemory(n)' =>
            processes'[n].addr + processes'[n].mem <= TotalMemory
      BY <2>2, <2>5, <2>6, <2>7 DEF HasMemory
    <2>9. \A m, n \in DOMAIN processes' : HasMemory(m)' /\ HasMemory(n)' => m = n
      BY <2>7 DEF HasMemory
    <2> QED
      BY <2>3, <2>8, <2>9 DEF GrantedOnce, HasMemory, OneBlock
  <1> QED
    BY <1>4, <1>5

\* Every step keeps it; the other actions touch neither vector nor blocks.
LEMMA NextGranted == Inv /\ GrantedOnce /\ [Next]_vars => GrantedOnce'
  <1> SUFFICES ASSUME Inv, GrantedOnce, [Next]_vars
               PROVE  GrantedOnce'
    OBVIOUS
  <1>1. CASE Next /\ TerminateErase
    BY <1>1, EraseGranted DEF Next
  <1>2. ASSUME NEW size \in Requests, CreateProcess(size)
        PROVE  GrantedOnce'
    BY <1>2, CreateGranted
  <1>3. CASE UNCHANGED vars
    BY <1>3, SameGrants DEF vars
  <1>4. CASE Scheduler \/ SysCall \/ BrowserDone
    <2>1. UNCHANGED <<processes, memoryBlocks>>
      BY <1>4 DEF Scheduler, SchedulerWake, SchedulerLock, SchedulerSwitch, SysCall,
             SysCallWake, SysCallLock, BrowserDone, vectorVars, memVars
    <2> QED
      BY <2>1, SameGrants
  <1>5. CASE ShowMenu \/ JoinNext \/ JoinEnd \/ TerminateLock \/ TerminateJoin \/ TerminateReset
    <2>1. UNCHANGED <<processes, memoryBlocks>>
      BY <1>5 DEF ShowMenu, JoinNext, JoinEnd, TerminateLock, TerminateJoin, TerminateReset,
             vectorVars, memVars
    <2> QED
      BY <2>1, SameGrants
  <1>6. CASE ChooseRun \/ ChooseBrowser \/ ChooseList \/ ChooseOther \/ ChooseExit
               \/ ChooseCreate \/ ChooseTerminate
    <2>1. UNCHANGED <<processes, memoryBlocks>>
      BY <1>6 DEF ChooseRun, ChooseBrowser, ChooseList, ChooseOther, ChooseExit,
             ChooseCreate, ChooseTerminate, vectorVars, memVars
    <2> QED
      BY <2>1, SameGrants
  <1>7. ASSUME NEW i \in Threads, ExecuteStep(i) \/ ExecuteDangling(i)
        PROVE  GrantedOnce'
    <2>1. UNCHANGED <<processes, memoryBlocks>>
      BY <1>7 DEF ExecuteStep, ExecuteDangling, vectorVars, memVars
    <2> QED
      BY <2>1, SameGrants
  <1> QED
    BY <1>1, <1>2, <1>3, <1>4, <1>5, <1>6, <1>7 DEF Next, MenuStep, MenuInput

\* In every reachable state of kernel_main there is one block of memory, and at
\* most one process was given it.
THEOREM MemoryInvariance == Spec => []GrantedOnce
  <1>1. Inv /\ GrantedOnce /\ [Next]_vars => GrantedOnce'
    BY NextGranted
  <1> QED
    BY <1>1, InitGranted, Invariance, PTL DEF Spec

\* No two processes are ever given the same bytes, nor bytes the kernel does
\* not own.
THEOREM DisjointGrants == Spec => []GrantsDisjoint
  <1>1. GrantedOnce => GrantsDisjoint
    BY DEF GrantedOnce, HasMemory, GrantsDisjoint
  <1> QED
    BY <1>1, MemoryInvariance, PTL
=============================================================================
