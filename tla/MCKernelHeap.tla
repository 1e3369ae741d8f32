--------------------------- MODULE MCKernelHeap ---------------------------
(***************************************************************************)
(* The instance of KernelHeap for TLC: three blocks of one or two pages,   *)
(* and room for five pages of them in the page tables.                     *)
(***************************************************************************)
EXTENDS KernelHeap, TLC

CONSTANTS b1, b2, b3

Symmetry == Permutations({b1, b2, b3})
=============================================================================
