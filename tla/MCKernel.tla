------------------------------ MODULE MCKernel ------------------------------
(* The kernel with a 2-byte memory, three requests (one negative, one too    *)
(* large: `std::cin >> requiredMemory` is passed on unchecked) and the two    *)
(* processes of kernel_main taking one and two steps.                        *)
EXTENDS Kernel

MCRequests == {-1, 1, 3}
MCExecutionTime == <<1, 2>>
=============================================================================
