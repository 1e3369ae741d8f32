---------------------------- MODULE HeapContract ----------------------------
(***************************************************************************)
(* What the kernel's heap promises its callers: malloc() and io_map()      *)
(* return memory nobody else holds, as long as no interrupt handler has    *)
(* allocated while the thread it interrupted had read a pointer of the     *)
(* heap and not yet advanced it.  The heap has no lock, so it makes no     *)
(* promise after that.                                                     *)
(***************************************************************************)
EXTENDS Integers

CONSTANTS Blocks     \* the names of the blocks handed out

VARIABLES
  holds,    \* the pages each block holds: virtual pages and pages of memory
  trusted   \* no allocation has been nested in another

Nothing == [virt |-> {}, phys |-> {}]

Overlap(h, k) == h.virt \cap k.virt # {} \/ h.phys \cap k.phys # {}

Init == holds = [b \in Blocks |-> Nothing] /\ trusted = TRUE

Allocate(b) ==
  /\ holds[b] = Nothing /\ holds'[b] # Nothing
  /\ \A c \in Blocks \ {b} : holds'[c] = holds[c]
  /\ trusted => \A c \in Blocks \ {b} : ~Overlap(holds'[b], holds[c])
  /\ UNCHANGED trusted

Release(b) ==
  /\ holds[b] # Nothing
  /\ holds' = [holds EXCEPT ![b] = Nothing]
  /\ UNCHANGED trusted

Nest == trusted' = FALSE /\ UNCHANGED holds

Next == (\E b \in Blocks : Allocate(b) \/ Release(b)) \/ Nest

Spec == Init /\ [][Next]_<<holds, trusted>>
=============================================================================
