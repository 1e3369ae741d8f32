----------------------------- MODULE CopyWindow -----------------------------
(* memcpy() takes 16 bytes at a time, through xmm0, while canUseSSEmemcpy   *)
(* is set.  Each code that draws sets the flag around its own copies; the   *)
(* flag is one for all, and an interrupt handler may copy, or draw, while   *)
(* it is set.  Handlers run with interrupts open and nest; nothing saves    *)
(* xmm0 for the code they interrupt.  scroll_up() draws with interrupts     *)
(* closed: one of the behaviours, in which no handler starts.               *)
EXTENDS Naturals, FiniteSets

CONSTANTS Lengths,      \* of copies, in bytes
          LineLength,   \* of a copy to the screen: rows of four-byte pixels
          MaxHandlers   \* bound: handlers on top of each other

(* Lines and the screen begin at a multiple of 16, as malloc() and the      *)
(* frame buffer do.                                                         *)
ASSUME ScreenAssumption ==
  /\ LineLength \in Nat /\ LineLength % 16 = 0 /\ Lengths \subseteq Nat
  /\ MaxHandlers \in Nat

VARIABLES canUseSSEmemcpy,
          depth,        \* handlers on top of the thread, which is 0
          drawing,      \* the levels between the two assignments
          xmm0,         \* whose and which block it holds, 0 for other data
          copies,       \* the last copy of each depth
          fault         \* a copy has ended the kernel

copyVars == <<canUseSSEmemcpy, depth, drawing, xmm0, copies, fault>>

Levels == 0 .. MaxHandlers
copying == copies[depth]
With16(b) == 16 * (b - 1) .. 16 * b - 1
Blocks(n) == n \div 16

(* No copy.  Of one, bytes are those at their place, crossed those that     *)
(* were in xmm0 when a handler started; within says that a level below was  *)
(* drawing when it began.                                                   *)
NoCopy == [at |-> "none", length |-> 0, aligned |-> TRUE, next |-> 1, bytes |-> {},
           crossed |-> {}, within |-> FALSE]

CopyInit ==
  /\ canUseSSEmemcpy = FALSE
  /\ depth = 0 /\ drawing = {} /\ xmm0 = [by |-> 0, block |-> 0]
  /\ copies = [l \in Levels |-> NoCopy] /\ fault = FALSE

HandlerStarts ==
  /\ depth < MaxHandlers /\ depth' = depth + 1
  /\ copies' = [copies EXCEPT
                  ![depth].crossed = IF copying.at = "store" THEN @ \cup With16(copying.next)
                                     ELSE @]
  /\ UNCHANGED <<canUseSSEmemcpy, drawing, xmm0, fault>>

Resting == copying.at \in {"none", "done"}

HandlerEnds ==
  /\ depth > 0 /\ depth \notin drawing /\ Resting
  /\ depth' = depth - 1 /\ copies' = [copies EXCEPT ![depth] = NoCopy]
  /\ UNCHANGED <<canUseSSEmemcpy, drawing, xmm0, fault>>

StartDrawing ==
  /\ Resting /\ depth \notin drawing
  /\ canUseSSEmemcpy' = TRUE /\ drawing' = drawing \cup {depth}
  /\ UNCHANGED <<depth, xmm0, copies, fault>>
EndDrawing ==
  /\ Resting /\ depth \in drawing
  /\ canUseSSEmemcpy' = FALSE /\ drawing' = drawing \ {depth}
  /\ UNCHANGED <<depth, xmm0, copies, fault>>

(* Compiled code uses the register, for numbers and for moves of its own.   *)
Computes ==
  /\ Resting /\ xmm0' = [by |-> depth, block |-> 0]
  /\ UNCHANGED <<canUseSSEmemcpy, depth, drawing, copies, fault>>

----------------------------------------------------------------------------
CopyOf(n, aligned, at, bytes) ==
  [at |-> at, length |-> n, aligned |-> aligned, next |-> 1, bytes |-> bytes, crossed |-> {},
   within |-> \E l \in drawing : l < depth]

(* memcpy() reads the flag once.  Without it memcpy_() moves every byte.    *)
(* While it draws, a level copies lines of the screen and nothing else.     *)
Begin(n, aligned) ==
  /\ Resting
  /\ depth \in drawing => n = LineLength /\ aligned
  /\ copies' = [copies EXCEPT ![depth] =
                  IF ~canUseSSEmemcpy THEN CopyOf(n, aligned, "done", 0 .. n - 1)
                  ELSE CopyOf(n, aligned, IF Blocks(n) = 0 THEN "rest" ELSE "load", {})]
  /\ UNCHANGED <<canUseSSEmemcpy, depth, drawing, xmm0, fault>>

(* movups                                                                   *)
LoadBlock ==
  /\ copying.at = "load"
  /\ xmm0' = [by |-> depth, block |-> copying.next]
  /\ copies' = [copies EXCEPT ![depth].at = "store"]
  /\ UNCHANGED <<canUseSSEmemcpy, depth, drawing, fault>>

(* movntdq, which faults unless its place is a multiple of 16.              *)
StoreBlock ==
  /\ copying.at = "store"
  /\ IF copying.aligned
     THEN /\ copies' = [copies EXCEPT ![depth] =
               [copying EXCEPT
                  !.at = IF copying.next = Blocks(copying.length) THEN "rest" ELSE "load",
                  !.next = copying.next + 1,
                  !.bytes = IF xmm0 = [by |-> depth, block |-> copying.next]
                            THEN copying.bytes \cup With16(copying.next) ELSE copying.bytes]]
          /\ UNCHANGED fault
     ELSE fault' = TRUE /\ UNCHANGED copies
  /\ UNCHANGED <<canUseSSEmemcpy, depth, drawing, xmm0>>

(* MUTANT: the rest of the last block is left.                              *)
RestForgotten(n) == {}

(* What is left of the last block of 16 is taken for the rest of a division *)
(* by 8.                                                                    *)
Rest(n) == 16 * Blocks(n) .. 16 * Blocks(n) + (n % 8) - 1

MoveRest ==
  /\ copying.at = "rest"
  /\ copies' = [copies EXCEPT ![depth].at = "done",
                              ![depth].bytes = @ \cup Rest(copying.length)]
  /\ UNCHANGED <<canUseSSEmemcpy, depth, drawing, xmm0, fault>>

CopyNext ==
  /\ ~fault
  /\ \/ HandlerStarts \/ HandlerEnds \/ StartDrawing \/ EndDrawing \/ Computes
     \/ \E n \in Lengths \cup {LineLength}, aligned \in BOOLEAN : Begin(n, aligned)
     \/ LoadBlock \/ StoreBlock \/ MoveRest

CopySpec == CopyInit /\ [][CopyNext]_copyVars

----------------------------------------------------------------------------
(* However handlers interrupt copies and copy themselves: a copy moves      *)
(* every byte but those of a block that was in xmm0 when a handler started, *)
(* and, if the flag it read was that of a level below, eight more at its    *)
(* end if more than seven are left of its last block; and the kernel ends   *)
(* only over a copy to an odd place that read the flag of a level below     *)
(* (mem.cpp 25-56, VESA.swift 41-43, renderer.cpp 211-227, View.swift       *)
(* 27-29).                                                                  *)
CopyWhole ==
  /\ \A l \in 0 .. depth :
       copies[l].at = "done" =>
         LET c == copies[l]
             lost == (0 .. c.length - 1) \ (c.bytes \cup c.crossed)
         IN \/ lost = {}
            \/ c.within /\ c.length % 16 >= 8 /\ lost \subseteq c.length - 8 .. c.length - 1
  /\ fault => copying.within /\ ~copying.aligned
=============================================================================
