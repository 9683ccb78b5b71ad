------------------------------- MODULE Kernel -------------------------------
(***************************************************************************)
(* The threads of kernel_main (OS/kernel.cpp): the menu loop on the main   *)
(* thread, scheduler(), schedulerBySystemCalls(), one thread per process   *)
(* built at start and the browser thread.  They share activeProcessIndex,  *)
(* the vector `processes` and schedulerMutex; createProcess draws on the   *)
(* memory manager, whose allocation is that of MemoryManager.              *)
(*                                                                         *)
(* hardwareInterruptHandler and the int 0x20 it raises are not actions:    *)
(* the assembly handler behind it calls `scheduler: ret`, which changes    *)
(* nothing of this state.                                                  *)
(***************************************************************************)
EXTENDS MemoryManager

LOCAL INSTANCE SequencesExt     \* RemoveAt

CONSTANT
    ExecutionTime       \* iterations of execute(), by thread

ASSUME KernelAssumption == ExecutionTime \in [1 .. 2 -> Nat]

VARIABLES
    processes,          \* std::vector<Process>, with the thread that runs each
    activeProcessIndex, \* counted from 0, as in the code
    schedulerMutex,     \* its owner, or Nobody
    left,               \* iterations each process thread still has to do
    joinable,           \* the std::thread objects of `threads`
    dangling,           \* threads whose `this` no longer points to their Process
    browser,            \* the browser thread: "running", "done" or "joined"
    pc,                 \* where the menu, scheduler and syscall threads are
    shown,              \* the index pokazMenu was called with
    joining,            \* how many threads case 1 has joined so far
    status              \* "up", or "crashed" after std::terminate or a fault

vars == <<processes, activeProcessIndex, schedulerMutex, left, joinable, dangling,
          browser, pc, shown, joining, status, remainingMemory, memoryBlocks>>
vectorVars == <<processes, dangling>>
threadVars == <<left, joinable, browser>>

Nobody == "nobody"
NoThread == 0
NoMemory == -1
Threads == 1 .. 2

\* Processes 1 and 2 are built without memory; a created one carries its grant.
Process == [thread : {NoThread} \cup Threads, addr : Nat \cup {NoMemory}, mem : Int]

Init ==
    /\ processes = [i \in Threads |-> [thread |-> i, addr |-> NoMemory, mem |-> 0]]
    /\ activeProcessIndex = 0
    /\ schedulerMutex = Nobody
    /\ left = ExecutionTime
    /\ joinable = [i \in Threads |-> TRUE]
    /\ dangling = {}
    /\ browser = "running"
    /\ pc = [menu |-> "top", scheduler |-> "sleep", sysCall |-> "sleep"]
    /\ shown = 0
    /\ joining = 0
    /\ status = "up"
    /\ MemInit

Crash == status' = "crashed"
Goto(thread, label) == pc' = [pc EXCEPT ![thread] = label]

-----------------------------------------------------------------------------
(* Process::execute on its own thread.                                     *)

\* Mutant of Iterate: the loop counter is not advanced.
IterateStuck(n) == n

Iterate(n) == n - 1

\* One iteration; through a live `this` the loop counts down to its end.
ExecuteStep(i) ==
    /\ left[i] > 0
    /\ i \notin dangling
    /\ left' = [left EXCEPT ![i] = Iterate(@)]
    /\ UNCHANGED <<vectorVars, activeProcessIndex, schedulerMutex, joinable, browser,
                   pc, shown, joining, status, memVars>>

\* Through a dangling `this` the bound read is arbitrary: the loop goes on or
\* ends, or the access faults.
ExecuteDangling(i) ==
    /\ left[i] > 0
    /\ i \in dangling
    /\ \/ /\ left' = [left EXCEPT ![i] = 0]
          /\ UNCHANGED status
       \/ /\ Crash
          /\ UNCHANGED left
    /\ UNCHANGED <<vectorVars, activeProcessIndex, schedulerMutex, joinable, browser,
                   pc, shown, joining, memVars>>

\* browserThreadFunction runs once and returns.
BrowserDone ==
    /\ browser = "running"
    /\ browser' = "done"
    /\ UNCHANGED <<vectorVars, activeProcessIndex, schedulerMutex, left, joinable, pc,
                   shown, joining, status, memVars>>

-----------------------------------------------------------------------------
(* The scheduler thread.                                                   *)

SchedulerWake ==
    /\ pc.scheduler = "sleep"
    /\ Goto("scheduler", "lock")
    /\ UNCHANGED <<vectorVars, activeProcessIndex, schedulerMutex, threadVars, shown,
                   joining, status, memVars>>

\* Mutant of MayLock: the lock_guard is missing.
MayLockAnyway(thread) == TRUE

\* std::mutex::lock returns only while nobody owns the mutex.
MayLock(thread) == schedulerMutex = Nobody

SchedulerLock ==
    /\ pc.scheduler = "lock"
    /\ MayLock("scheduler")
    /\ schedulerMutex' = "scheduler"
    /\ Goto("scheduler", "switch")
    /\ UNCHANGED <<vectorVars, activeProcessIndex, threadVars, shown, joining, status,
                   memVars>>

NextIndex == (activeProcessIndex + 1) % Len(processes)

\* The mutex after a lock_guard went out of scope.
Unlocked == Nobody

\* Move to the next process and release the mutex at the end of the scope;
\* `% processes.size()` faults once the vector is empty.
SchedulerSwitch ==
    /\ pc.scheduler = "switch"
    /\ \/ /\ processes # <<>>
          /\ activeProcessIndex' = NextIndex
          /\ schedulerMutex' = Unlocked
          /\ Goto("scheduler", "sleep")
          /\ UNCHANGED status
       \/ /\ processes = <<>>
          /\ Crash
          /\ UNCHANGED <<activeProcessIndex, schedulerMutex, pc>>
    /\ UNCHANGED <<vectorVars, threadVars, shown, joining, memVars>>

-----------------------------------------------------------------------------
(* The thread of schedulerBySystemCalls.                                   *)

SysCallWake ==
    /\ pc.sysCall = "sleep"
    /\ Goto("sysCall", "lock")
    /\ UNCHANGED <<vectorVars, activeProcessIndex, schedulerMutex, threadVars, shown,
                   joining, status, memVars>>

\* It locks the mutex, then calls systemCallHandler, which locks it again.  The
\* second lock by the owner never returns ("relock" has no action), so the
\* handler's int 0x20 is never reached and the mutex never released.
SysCallLock ==
    /\ pc.sysCall = "lock"
    /\ MayLock("sysCall")
    /\ schedulerMutex' = "sysCall"
    /\ Goto("sysCall", "relock")
    /\ UNCHANGED <<vectorVars, activeProcessIndex, threadVars, shown, joining, status,
                   memVars>>

-----------------------------------------------------------------------------
(* The menu loop of kernel_main.                                           *)

\* pokazMenu takes the index by value when it is called.
MenuIndex == activeProcessIndex

ShowMenu ==
    /\ pc.menu = "top"
    /\ shown' = MenuIndex
    /\ Goto("menu", "input")
    /\ UNCHANGED <<vectorVars, activeProcessIndex, schedulerMutex, threadVars, joining,
                   status, memVars>>

\* Choice 6: pokazMenu reads processes[shown] and calls itself with the same
\* index; the read is out of bounds once the vector is empty.
ChooseList ==
    /\ pc.menu = "input"
    /\ \/ UNCHANGED status
       \/ processes = <<>> /\ Crash
    /\ UNCHANGED <<vectorVars, activeProcessIndex, schedulerMutex, threadVars, pc, shown,
                   joining, memVars>>

\* Choice 8 and every invalid number: no effect but a new call of pokazMenu.
ChooseOther ==
    /\ pc.menu = "input"
    /\ Goto("menu", "top")
    /\ UNCHANGED <<vectorVars, activeProcessIndex, schedulerMutex, threadVars, shown,
                   joining, status, memVars>>

\* Choice 4: kernel_main returns while schedulerThread is joinable, and the
\* destructor of a joinable std::thread calls std::terminate.
ChooseExit ==
    /\ pc.menu = "input"
    /\ Crash
    /\ UNCHANGED <<vectorVars, activeProcessIndex, schedulerMutex, threadVars, pc, shown,
                   joining, memVars>>

\* Choice 1: join every process thread in turn.
ChooseRun ==
    /\ pc.menu = "input"
    /\ joining' = 0
    /\ Goto("menu", "join")
    /\ UNCHANGED <<vectorVars, activeProcessIndex, schedulerMutex, threadVars, shown,
                   status, memVars>>

\* thread.join(): waits for the end of the thread, and throws std::system_error
\* on one that was joined before.
Join(i) ==
    \/ /\ joinable[i]
       /\ left[i] = 0
       /\ joinable' = [joinable EXCEPT ![i] = FALSE]
       /\ UNCHANGED status
    \/ /\ ~joinable[i]
       /\ Crash
       /\ UNCHANGED joinable

JoinNext ==
    /\ pc.menu = "join"
    /\ joining < 2
    /\ Join(joining + 1)
    /\ joining' = joining + 1
    /\ UNCHANGED <<vectorVars, activeProcessIndex, schedulerMutex, left, browser, pc,
                   shown, memVars>>

JoinEnd ==
    /\ pc.menu = "join"
    /\ joining = 2
    /\ Goto("menu", "top")
    /\ UNCHANGED <<vectorVars, activeProcessIndex, schedulerMutex, threadVars, shown,
                   joining, status, memVars>>

\* Choices 2 and 3: join the browser thread, once.
ChooseBrowser ==
    /\ pc.menu = "input"
    /\ \/ /\ browser = "done"
          /\ browser' = "joined"
          /\ Goto("menu", "top")
          /\ UNCHANGED status
       \/ /\ browser = "joined"
          /\ Crash
          /\ UNCHANGED <<browser, pc>>
    /\ UNCHANGED <<vectorVars, activeProcessIndex, schedulerMutex, left, joinable, shown,
                   joining, memVars>>

\* Choice 5: the prompts of createProcess come before the allocation.
ChooseCreate ==
    /\ pc.menu = "input"
    /\ Goto("menu", "create")
    /\ UNCHANGED <<vectorVars, activeProcessIndex, schedulerMutex, threadVars, shown,
                   joining, status, memVars>>

\* The vector has room for two processes; a third makes emplace_back move them
\* to a new buffer, and the pointers the running threads were given dangle.
Capacity == 2
Reallocates == Len(processes) = Capacity

\* createProcess: allocate, then emplace_back, without taking the mutex.
CreateProcess(size) ==
    /\ pc.menu = "create"
    /\ \E address \in Addresses :
         /\ allocateMemory(size, address)
         /\ \/ /\ address # Failed
               /\ processes' = Append(processes, [thread |-> NoThread, addr |-> address,
                                                  mem |-> size])
               /\ dangling' = IF Reallocates THEN Threads ELSE dangling
            \/ /\ address = Failed
               /\ UNCHANGED vectorVars
    /\ Goto("menu", "top")
    /\ UNCHANGED <<activeProcessIndex, schedulerMutex, threadVars, shown, joining, status>>

\* Choice 7: take the mutex for the rest of the case.
ChooseTerminate ==
    /\ pc.menu = "input"
    /\ Goto("menu", "lock7")
    /\ UNCHANGED <<vectorVars, activeProcessIndex, schedulerMutex, threadVars, shown,
                   joining, status, memVars>>

TerminateLock ==
    /\ pc.menu = "lock7"
    /\ MayLock("menu")
    /\ schedulerMutex' = "menu"
    /\ Goto("menu", "join7")
    /\ UNCHANGED <<vectorVars, activeProcessIndex, threadVars, shown, joining, status,
                   memVars>>

\* threads[activeProcessIndex].join(): `threads` holds the two threads of the
\* processes built at start; an index beyond them is out of bounds.
TerminateJoin ==
    /\ pc.menu = "join7"
    /\ \/ /\ activeProcessIndex + 1 \in Threads
          /\ Join(activeProcessIndex + 1)
       \/ /\ activeProcessIndex + 1 \notin Threads
          /\ Crash
          /\ UNCHANGED joinable
    /\ Goto("menu", "erase7")
    /\ UNCHANGED <<vectorVars, activeProcessIndex, schedulerMutex, left, browser, shown,
                   joining, memVars>>

\* processes.erase(begin() + activeProcessIndex): what follows moves down one
\* place, under the pointers of the threads that run it.  The memory of the
\* process is not given back.
TerminateErase ==
    /\ pc.menu = "erase7"
    /\ processes' = RemoveAt(processes, activeProcessIndex + 1)
    /\ dangling' = dangling \cup {i \in Threads : i > activeProcessIndex}
    /\ Goto("menu", "reset7")
    /\ UNCHANGED <<activeProcessIndex, schedulerMutex, threadVars, shown, joining, status,
                   memVars>>

\* Mutant of ResetIndex: the index keeps pointing where the process was.
ResetIndexForgotten == activeProcessIndex

\* Mutant of ResetIndex: -1 for "no active process".
ResetIndexNone == -1

ResetIndex == 0

TerminateReset ==
    /\ pc.menu = "reset7"
    /\ activeProcessIndex' = ResetIndex
    /\ schedulerMutex' = Unlocked
    /\ Goto("menu", "top")
    /\ UNCHANGED <<vectorVars, threadVars, shown, joining, status, memVars>>

-----------------------------------------------------------------------------
Scheduler == SchedulerWake \/ SchedulerLock \/ SchedulerSwitch
SysCall == SysCallWake \/ SysCallLock
\* What kernel_main does on its own, and what it does when the user types.
MenuStep ==
    \/ ShowMenu \/ JoinNext \/ JoinEnd
    \/ TerminateLock \/ TerminateJoin \/ TerminateErase \/ TerminateReset
MenuInput ==
    \/ ChooseRun \/ ChooseBrowser \/ ChooseList \/ ChooseOther \/ ChooseExit
    \/ ChooseCreate \/ ChooseTerminate
    \/ \E size \in Requests : CreateProcess(size)

Next ==
    /\ status = "up"
    /\ \/ Scheduler \/ SysCall \/ MenuStep \/ MenuInput \/ BrowserDone
       \/ \E i \in Threads : ExecuteStep(i) \/ ExecuteDangling(i)

Up(A) == status = "up" /\ A

\* Every thread is a thread of the host: it runs when it can.  A wait for a
\* mutex that is free again and again is granted (strong fairness of the two
\* lock operations); nothing is assumed about the user's input.
Fairness ==
    /\ WF_vars(Up(SchedulerWake \/ SchedulerSwitch)) /\ SF_vars(Up(SchedulerLock))
    /\ WF_vars(Up(SysCallWake)) /\ SF_vars(Up(SysCallLock))
    /\ WF_vars(Up(MenuStep))
    /\ WF_vars(Up(BrowserDone))
    /\ \A i \in Threads : WF_vars(Up(ExecuteStep(i)))

Spec == Init /\ [][Next]_vars
FairSpec == Spec /\ Fairness

-----------------------------------------------------------------------------
TypeOK ==
    /\ processes \in Seq(Process)
    /\ activeProcessIndex \in Nat
    /\ schedulerMutex \in {Nobody, "menu", "scheduler", "sysCall"}
    /\ left \in [Threads -> Nat]
    /\ joinable \in [Threads -> BOOLEAN]
    /\ dangling \subseteq Threads
    /\ browser \in {"running", "done", "joined"}
    /\ pc \in [menu : {"top", "input", "join", "create", "lock7", "join7", "erase7",
                       "reset7"},
               scheduler : {"sleep", "lock", "switch"},
               sysCall : {"sleep", "lock", "relock"}]
    /\ shown \in Nat
    /\ joining \in 0 .. 2
    /\ status \in {"up", "crashed"}
    /\ remainingMemory \in Int
    /\ memoryBlocks \in Seq(Block)

\* While the menu is not inside case 7, the active index points at a process,
\* or at slot 0 of an empty vector: scheduler() and pokazMenu read
\* processes[activeProcessIndex] without a bounds check.
ActiveInRange ==
    status = "up" /\ pc.menu # "reset7" =>
        activeProcessIndex = 0 \/ activeProcessIndex < Len(processes)

\* The index pokazMenu was handed is still good when the user answers, however
\* often the scheduler switched in between.
ShownInRange ==
    status = "up" /\ pc.menu = "input" => shown = 0 \/ shown < Len(processes)

\* Both indices into the vector of processes stay good under all threads.
IndicesInRange == ActiveInRange /\ ShownInRange

\* The mutex is owned exactly by the thread that is inside its critical section.
LockHeldInside ==
    /\ schedulerMutex = "scheduler" <=> pc.scheduler = "switch"
    /\ schedulerMutex = "sysCall" <=> pc.sysCall = "relock"
    /\ schedulerMutex = "menu" <=> pc.menu \in {"join7", "erase7", "reset7"}

\* Case 7 erases the process that was active when it took the mutex, however
\* long the join in between takes.
ActiveFrozenDuringTerminate ==
    [][pc.menu \in {"join7", "erase7"} => activeProcessIndex' = activeProcessIndex]_vars

\* Choice 1 comes back to the menu (or brings the program down) as long as the
\* process threads run on live objects.
JoinReturns ==
    (status = "up" /\ pc.menu = "join" /\ dangling = {})
        ~> (status # "up" \/ pc.menu # "join")

\* Two processes are never given the same bytes, and none is given bytes
\* outside the memory that the kernel owns (memoryManager(64 * 1024)), whatever
\* sizes are asked for and in whatever order processes come and go.
GrantsDisjoint ==
    \A i \in DOMAIN processes : processes[i].addr # NoMemory =>
        /\ processes[i].addr + processes[i].mem <= TotalMemory
        /\ \A j \in DOMAIN processes \ {i} : processes[j].addr # NoMemory =>
             \/ processes[i].addr + processes[i].mem <= processes[j].addr
             \/ processes[j].addr + processes[j].mem <= processes[i].addr

-----------------------------------------------------------------------------
(* What the comments of kernel.cpp say, and the code does not do.          *)

\* "Funkcja obslugujaca harmonogramowanie procesow": as long as the program is
\* up and has two processes or more, the active process keeps changing.
SchedulingGoesOn ==
    [](status = "up" /\ Len(processes) > 1
        => <>(status # "up" \/ Len(processes) < 2 \/ pc.scheduler = "switch"))
=============================================================================
