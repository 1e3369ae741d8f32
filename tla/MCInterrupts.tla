--------------------------- MODULE MCInterrupts -----------------------------
(***************************************************************************)
(* A board with two PCI devices on a line of the first 8259 (5) and on one *)
(* of the second (9), together or apart.                                   *)
(***************************************************************************)
EXTENDS Interrupts

MCPciLines == {5, 9}
=============================================================================
