---------------------------- MODULE MemoryManager ----------------------------
(***************************************************************************)
(* The memory manager of the MultiOS kernel (class MemoryManager of        *)
(* OS/kernel.cpp) as far as the running kernel uses it: createProcess in   *)
(* module Kernel allocates.  deallocateMemory is called only by            *)
(* deallocateProcessMemory, that only by processTermination, and that by   *)
(* nobody, so nothing is ever given back.                                  *)
(*                                                                         *)
(* Memory is one list of blocks that is never split or extended after the  *)
(* constructor.  `int` arithmetic is bounded by IntMax and wraps, the      *)
(* outcome of signed overflow on the x86 build.                            *)
(***************************************************************************)
EXTENDS Integers, Sequences, FiniteSets

CONSTANTS
    TotalMemory,    \* the constructor's initialMemorySize (64 * 1024)
    IntMax,         \* the largest value of an int
    Requests        \* the sizes a user may type at the createProcess prompt

ASSUME MemoryAssumption ==
    /\ TotalMemory \in Nat \ {0}
    /\ IntMax \in Nat
    /\ TotalMemory <= IntMax
    /\ Requests \subseteq (-IntMax - 1) .. IntMax

VARIABLES
    remainingMemory,    \* the running total of free bytes, an int
    memoryBlocks        \* std::vector<MemoryBlock>

memVars == <<remainingMemory, memoryBlocks>>

Failed == -1            \* allocateMemory's "Memory allocation failed"

\* Two's complement wrap-around of the difference of two ints.
Wrap(n) == IF n > IntMax THEN n - 2 * (IntMax + 1)
           ELSE IF n < -IntMax - 1 THEN n + 2 * (IntMax + 1)
           ELSE n

Block == [startAddress : Nat, size : Nat, free : BOOLEAN]

MemInit ==
    /\ remainingMemory = TotalMemory
    /\ memoryBlocks = <<[startAddress |-> 0, size |-> TotalMemory, free |-> TRUE]>>

-----------------------------------------------------------------------------
\* The blocks the first-fit loop of allocateMemory would accept.
Fitting(size) ==
    {i \in DOMAIN memoryBlocks : memoryBlocks[i].free /\ memoryBlocks[i].size >= size}

\* The whole check of allocateMemory: the running total first, then the list.
Allocatable(size) == size <= remainingMemory /\ Fitting(size) # {}

\* Mutant of Take: the block stays on the free list.
TakeForgotten(block) == block

Take(block) == [block EXCEPT !.free = FALSE]

\* allocateMemory(size), returning `address`: the first fitting block is taken
\* whole, only the requested size is subtracted from the running total.
allocateMemory(size, address) ==
    \/ /\ Allocatable(size)
       /\ \E i \in Fitting(size) :
            /\ \A j \in Fitting(size) : i <= j
            /\ address = memoryBlocks[i].startAddress
            /\ memoryBlocks' = [memoryBlocks EXCEPT ![i] = Take(@)]
       /\ remainingMemory' = Wrap(remainingMemory - size)
    \/ /\ ~Allocatable(size)
       /\ address = Failed
       /\ UNCHANGED memVars

\* What allocateMemory may return.
Addresses == {Failed} \cup {memoryBlocks[i].startAddress : i \in DOMAIN memoryBlocks}
=============================================================================
