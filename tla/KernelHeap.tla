----------------------------- MODULE KernelHeap -----------------------------
(***************************************************************************)
(* The kernel's heap: malloc() and free() (Libc++/Libc++/OSRuntime.cpp),   *)
(* kalloc_() and free_() (Kernel/kernel/kalloc.c), io_map() (i386/io_map.c) *)
(* and pmap_map_bd() (x86_64/pmap.c).                                      *)
(*                                                                         *)
(* Both avail pointers are plain globals, advanced without a lock.  A      *)
(* thread may be interrupted between any two of the steps below, and a     *)
(* handler ends its own call before the thread goes on (handlers that      *)
(* allocate: kprintf.c:61, XHCIController.cpp:361).  One handler stands    *)
(* for all of them: one that interrupts another is not modelled.  All      *)
(* addresses are page numbers; virtual ones are relative to                *)
(* VM_MIN_KERNEL_ADDRESS.  A request for 0 bytes, which malloc() answers   *)
(* with NULL, changes nothing and is left out.                             *)
(***************************************************************************)
EXTENDS Integers

CONSTANTS
  Blocks,       \* the allocations and mappings of one run
  Sizes,        \* the page counts a request may have, header included
  FirstAvail,   \* first_avail when the heap starts
  KptPages,     \* the pages NKPT page tables can map
  PoisonPages,  \* round_page(0xbbbbbbbb)
  Devices       \* the physical pages of devices that io_map() is asked for

(* NKPT is 500 and a table maps 512 pages, 0xbbbbbbbb bytes are 768956     *)
(* pages.  Mapping more than KptPages pages ends in a panic in any case.   *)
ASSUME HeapAssumption ==
  /\ FirstAvail \in Nat /\ KptPages \in Nat /\ FirstAvail <= KptPages
  /\ Sizes \subseteq 1 .. KptPages /\ Devices \subseteq Nat
  /\ PoisonPages \in Nat /\ 3 * KptPages < PoisonPages

VARIABLES
  firstAvail,    \* first_avail
  virtualAvail,  \* virtual_avail
  pte,           \* the kernel's page table entries
  block,         \* what the allocations returned, as long as they are held
  pc, call,      \* where each context is in kalloc_ or io_map, its locals
  freed,         \* the blocks that were freed
  nested,        \* a handler has allocated while the thread was exposed
  panicked

vars == <<firstAvail, virtualAvail, pte, block, pc, call, freed, nested,
          panicked>>

Contexts == {"thread", "handler"}
NoPte    == -1
NoBlock  == [kind |-> "none", virt |-> 0, phys |-> 0, pages |-> 0]
NoCall   == [kind |-> "none", pages |-> 0, phys |-> 0, start |-> 0, done |-> 0,
             old |-> 0]

VirtPages(b) == b.virt .. b.virt + b.pages - 1
PhysPages(b) == IF b.kind = "heap" THEN b.phys .. b.phys + b.pages - 1 ELSE {}

Init ==
  /\ firstAvail = FirstAvail /\ virtualAvail = FirstAvail
  /\ pte = [v \in 0 .. KptPages - 1 |-> IF v < FirstAvail THEN v ELSE NoPte]
  /\ block = [b \in Blocks |-> NoBlock]
  /\ pc = [c \in Contexts |-> "idle"] /\ call = [c \in Contexts |-> NoCall]
  /\ freed = {} /\ nested = FALSE /\ panicked = FALSE

----------------------------------------------------------------------------
(* A handler runs to its end before the thread it interrupted goes on.     *)
Runs(c) == ~panicked /\ (c = "thread" => pc["handler"] = "idle")

At(c, label) == Runs(c) /\ pc[c] = label

Goto(c, label, locals) ==
  /\ pc' = [pc EXCEPT ![c] = label]
  /\ call' = [call EXCEPT ![c] = locals]

(* The thread has read a pointer it has not advanced yet: first_avail      *)
(* throughout an allocation, virtual_avail within io_map().                *)
Exposed == \/ pc["thread"] # "idle" /\ call["thread"].kind = "heap"
           \/ pc["thread"] = "started"

(* io_map(phys, ...) is called, by kalloc_ with first_avail, by a driver   *)
(* with the address of its device.  Handlers allocate, but map no devices. *)
Enter(c, kind, n, phys) ==
  /\ At(c, "idle")
  /\ Goto(c, "called", [NoCall EXCEPT !.kind = kind, !.pages = n, !.phys = phys])
  /\ nested' = (nested \/ (c = "handler" /\ Exposed))
  /\ UNCHANGED <<firstAvail, virtualAvail, pte, block, freed, panicked>>

Malloc(c, n) == Enter(c, "heap", n, firstAvail)
MapDevice(n, phys) == Enter("thread", "device", n, phys)

(* start = virtual_avail                                                   *)
ReadVirtual(c) ==
  /\ At(c, "called")
  /\ Goto(c, "started", [call[c] EXCEPT !.start = virtualAvail])
  /\ UNCHANGED <<firstAvail, virtualAvail, pte, block, freed, nested, panicked>>

(* MUTANT: the range mapped is one page longer than the range reserved.    *)
ReservedOneLess(c) == call[c].pages - 1

(* The pages by which io_map advances virtual_avail.                       *)
Reserved(c) == call[c].pages

(* virtual_avail += size, of the value loaded before or loaded again.      *)
BumpVirtual(c) ==
  /\ At(c, "started")
  /\ \E v \in {call[c].start, virtualAvail} : virtualAvail' = v + Reserved(c)
  /\ Goto(c, "mapping", call[c])
  /\ UNCHANGED <<firstAvail, pte, block, freed, nested, panicked>>

(* pmap_pte() finds an entry.                                              *)
Mappable(v) == v < KptPages

(* MUTANT: the template's page is not incremented.                         *)
TargetNotIncremented(c) == call[c].phys

(* pte_increment_pa(template)                                              *)
Target(c) == call[c].phys + call[c].done

(* One round of pmap_map_bd's loop.                                        *)
MapPage(c) ==
  /\ At(c, "mapping") /\ call[c].done < call[c].pages
  /\ LET v == call[c].start + call[c].done
     IN IF Mappable(v)
        THEN /\ pte' = [pte EXCEPT ![v] = Target(c)]
             /\ call' = [call EXCEPT ![c].done = @ + 1]
             /\ UNCHANGED panicked
        ELSE panicked' = TRUE /\ UNCHANGED <<pte, call>>
  /\ UNCHANGED <<firstAvail, virtualAvail, block, pc, freed, nested>>

(* The call returns block b to its caller.                                 *)
Return(c, b) ==
  /\ block[b] = NoBlock /\ b \notin freed
  /\ block' = [block EXCEPT ![b] = [kind  |-> call[c].kind,
                                    virt  |-> call[c].start,
                                    phys  |-> call[c].phys,
                                    pages |-> call[c].pages]]
  /\ Goto(c, "idle", NoCall)
  /\ UNCHANGED <<virtualAvail, pte, freed, nested, panicked>>

Mapped(c) == At(c, "mapping") /\ call[c].done = call[c].pages

ReturnMapping(c, b) ==
  /\ Mapped(c) /\ call[c].kind = "device"
  /\ Return(c, b)
  /\ UNCHANGED firstAvail

(* first_avail += size takes a load and a store.                           *)
LoadFirst(c) ==
  /\ Mapped(c) /\ call[c].kind = "heap"
  /\ Goto(c, "loaded", [call[c] EXCEPT !.old = firstAvail])
  /\ UNCHANGED <<firstAvail, virtualAvail, pte, block, freed, nested, panicked>>

(* MUTANT: first_avail advances by one page, whatever the size.            *)
AdvancedByOne(c) == call[c].old + 1

Advanced(c) == call[c].old + call[c].pages

ReturnBlock(c, b) ==
  /\ At(c, "loaded")
  /\ firstAvail' = Advanced(c)
  /\ Return(c, b)

(* OSFree poisons the header before it reads the length from it.           *)
LengthFreed(b) == PoisonPages

(* free_ takes the block back if it ends where virtual_avail points.       *)
Free(c, b) ==
  /\ At(c, "idle") /\ block[b].kind = "heap"
  /\ IF block[b].virt + LengthFreed(b) = virtualAvail
     THEN /\ firstAvail' = firstAvail - LengthFreed(b)
          /\ virtualAvail' = virtualAvail - LengthFreed(b)
     ELSE UNCHANGED <<firstAvail, virtualAvail>>
  /\ block' = [block EXCEPT ![b] = NoBlock]
  /\ freed' = freed \cup {b}
  /\ UNCHANGED <<pte, pc, call, nested, panicked>>

Next ==
  \/ \E n \in Sizes, phys \in Devices : MapDevice(n, phys)
  \/ \E c \in Contexts :
       \/ \E n \in Sizes : Malloc(c, n)
       \/ ReadVirtual(c) \/ BumpVirtual(c) \/ MapPage(c) \/ LoadFirst(c)
       \/ \E b \in Blocks : ReturnMapping(c, b) \/ ReturnBlock(c, b) \/ Free(c, b)

Spec == Init /\ [][Next]_vars

----------------------------------------------------------------------------
Block == [kind : {"heap", "device", "none"}, virt : Nat, phys : Nat, pages : Nat]
Call  == [kind : {"heap", "device", "none"}, pages : Nat, phys : Nat,
          start : Nat, done : Nat, old : Nat]

TypeOK ==
  /\ firstAvail \in Nat /\ virtualAvail \in Nat
  /\ pte \in [0 .. KptPages - 1 -> Nat \cup {NoPte}]
  /\ block \in [Blocks -> Block]
  /\ pc \in [Contexts -> {"idle", "called", "started", "mapping", "loaded"}]
  /\ call \in [Contexts -> Call]
  /\ freed \subseteq Blocks /\ nested \in BOOLEAN /\ panicked \in BOOLEAN
  /\ \A c \in Contexts : /\ call[c].done <= call[c].pages
                         /\ pc[c] \in {"mapping", "loaded"} /\ call[c].done > 0
                              => call[c].start + call[c].done <= KptPages

Held == {b \in Blocks : block[b] # NoBlock}

(* Unless a handler allocated within an exposed call, two blocks share no  *)
(* virtual page and no page of memory, and none lies in what the kernel    *)
(* occupies: what malloc, kalloc_ and io_map promise their callers.        *)
BlocksApart ==
  ~nested =>
    /\ \A b, d \in Held : b # d =>
         /\ VirtPages(block[b]) \cap VirtPages(block[d]) = {}
         /\ PhysPages(block[b]) \cap PhysPages(block[d]) = {}
    /\ \A b \in Held : \A p \in PhysPages(block[b]) : p >= FirstAvail

(* Every block in use is mapped, page by page, to consecutive pages of     *)
(* memory: drivers hand kvtophys() of a block's first byte to their device *)
(* for the whole of it (pmap.c 126-174, 418-427).                          *)
MappedContiguously ==
  ~nested =>
    \A b \in Held : \A k \in 0 .. block[b].pages - 1 :
      /\ block[b].virt + k < KptPages
      /\ pte[block[b].virt + k] = block[b].phys + k

(* Memory that was freed is never handed out again: with the poisoned      *)
(* length the test in free_ (kalloc.c:50) never succeeds.                  *)
NeverReused ==
  [][~nested' => firstAvail' >= firstAvail /\ virtualAvail' >= virtualAvail]_vars

(* The heap as its contract sees it.                                       *)
Contract ==
  INSTANCE HeapContract WITH
    Blocks  <- Blocks,
    holds   <- [b \in Blocks |-> [virt |-> VirtPages(block[b]),
                                  phys |-> PhysPages(block[b])]],
    trusted <- ~nested

(* Every return of malloc and io_map hands out pages nobody holds, every   *)
(* free gives back the block's own, until a handler allocated in an        *)
(* exposed call (OSRuntime.cpp, io_map.c, kalloc.c).                       *)
ImplementsContract == Contract!Spec
=============================================================================
