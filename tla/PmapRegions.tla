---------------------------- MODULE PmapRegions ----------------------------
(***************************************************************************)
(* The construction of pmap_memory_regions, the kernel's table of physical *)
(* memory, by i386_vm_init() (src/Kernel/Kernel/i386/i386_vm_init.c).      *)
(*                                                                         *)
(* The firmware hands over a memory map, a sequence of descriptors in no   *)
(* particular order.  One action per kind of descriptor is one iteration   *)
(* of the scan loop; LeaveScan decides whether the memory must be capped   *)
(* at KERNEL_MAXMEM and CapRegion is one iteration of the capping loop.    *)
(*                                                                         *)
(* All quantities are page numbers and numbers of pages.  prev_pmptr is    *)
(* the index of the entry it points to, and pmptr needs no variable: it    *)
(* always points to the entry with index count.  pmap_type of an entry is  *)
(* always kEfiConventionalMemory, so entries do not carry it, and maxpg is *)
(* the constant 0, so its test never cuts the scan.                        *)
(***************************************************************************)
EXTENDS Integers, Sequences

CONSTANTS
  MaxPpn,          \* the largest ppnum_t, (ppnum_t) -1
  TableSize,       \* PMAP_MEMORY_REGIONS_SIZE
  LowMemReserved,  \* I386_LOWMEM_RESERVED
  MaxReserved,     \* PMAP_MAX_RESERVED_RANGES
  KernelMaxMem,    \* KERNEL_MAXMEM, in pages
  BootArgs         \* the boot arguments the booter may pass

UsableTypes == {"LoaderCode", "LoaderData", "BootServicesCode",
                "BootServicesData", "Conventional"}
EfiTypes == UsableTypes \cup {"RuntimeServices", "ACPI", "Reserved", "MMIO"}
EfiFlags == {"RUNTIME", "KERN_RESERVED", "WB"}

Descriptor == [start : 0 .. MaxPpn, pages : Nat \ {0},
               type : EfiTypes, attribute : SUBSET EfiFlags]

LastPage(d)  == d.start + d.pages - 1
DescPages(d) == d.start .. LastPage(d)

(* What the booter passes: a memory map of pairwise disjoint descriptors,  *)
(* the first page after the kernel and its page tables, the page the       *)
(* kernel image starts at, and the amount of memory SMBIOS reports.        *)
ValidBoot(b) ==
  /\ b \in [map : Seq(Descriptor), fap : Nat, kernelBase : Nat, physPages : Nat]
  /\ b.fap > LowMemReserved
  /\ \A k \in 1 .. Len(b.map) : LastPage(b.map[k]) <= MaxPpn
  /\ \A k, l \in 1 .. Len(b.map) :
       k # l => \/ LastPage(b.map[k]) < b.map[l].start
                \/ LastPage(b.map[l]) < b.map[k].start

ASSUME ConstantsAssumption ==
  /\ MaxPpn \in Nat \ {0} /\ KernelMaxMem \in Nat /\ MaxReserved \in Nat
  /\ TableSize \in Nat \ {0}
  /\ LowMemReserved \in Nat \ {0}

ASSUME BootArgsAssumption == \A b \in BootArgs : ValidBoot(b)

VARIABLES
  boot,            \* the arguments of this boot
  phase,           \* "scan", "cap", "done" or "panic"
  i,               \* the descriptor the scan looks at next
  table,           \* pmap_memory_regions, with the slot just past its end
  count,           \* pmap_memory_region_count
  prev,            \* the index of *prev_pmptr, or NoPrev
  reserved,        \* pmap_reserved_ranges
  reservedIndices, \* pmap_reserved_range_indices, as long as it is filled
  availEnd,        \* avail_end, as a page number
  availRemaining,  \* avail_remaining
  curRegion,       \* cur_region of the capping loop
  pagesToUse,      \* pages_to_use of the capping loop
  highestPn        \* highest_pn of the capping loop

scanVars == <<table, count, prev, reservedIndices, availEnd, availRemaining>>
capVars  == <<curRegion, pagesToUse, highestPn>>
vars     == <<boot, phase, i, reserved, scanVars, capVars>>

NoPrev   == -1
Ppn      == 0 .. MaxPpn
Region   == [base : Ppn, allocUp : Ppn, allocDown : Ppn, end : 0 .. MaxPpn - 1,
             attribute : SUBSET EfiFlags]
NoRegion == [base |-> 0, allocUp |-> 0, allocDown |-> 0, end |-> 0,
             attribute |-> {}]

RegionPages(r)    == r.base .. r.end
AvailablePages(r) == r.allocUp .. r.allocDown

----------------------------------------------------------------------------
(* The scan of the memory map.                                             *)

(* Page 0 and the last page are never used: both would roll over.          *)
Base(d) == IF d.start = 0 THEN 1 ELSE d.start
Top(d)  == IF LastPage(d) = MaxPpn THEN MaxPpn - 1 ELSE LastPage(d)

Empty(d)      == Top(d) < Base(d)
NotForUse(d)  == \/ "RUNTIME" \in d.attribute
                 \/ d.type \notin UsableTypes
                 \/ Top(d) < LowMemReserved
IsReserved(d) == "KERN_RESERVED" \in d.attribute

Init ==
  /\ boot \in BootArgs
  /\ phase = "scan" /\ i = 1
  /\ table = [k \in 0 .. TableSize |-> NoRegion]
  /\ count = 0 /\ prev = NoPrev
  /\ reserved = 0 /\ reservedIndices = <<>>
  /\ availEnd = 0 /\ availRemaining = 0
  /\ curRegion = 0 /\ pagesToUse = 0 /\ highestPn = 0

(* MUTANT: the room in the table is tested with an off-by-one.             *)
RoomOffByOne == count <= TableSize

Room == count < TableSize

(* The loop looks at descriptor d; the table must still have room.         *)
Scanning(d) ==
  /\ phase = "scan"
  /\ i <= Len(boot.map) /\ d = boot.map[i]
  /\ Room
  /\ i' = i + 1
  /\ UNCHANGED <<boot, capVars>>

SkipEmpty(d) ==
  /\ Scanning(d) /\ Empty(d)
  /\ UNCHANGED <<phase, reserved, scanVars>>

SkipUnusable(d) ==
  /\ Scanning(d) /\ ~Empty(d) /\ NotForUse(d)
  /\ prev' = NoPrev
  /\ UNCHANGED <<phase, reserved, table, count, reservedIndices, availEnd,
                 availRemaining>>

Usable(d) == Scanning(d) /\ ~Empty(d) /\ ~NotForUse(d)

(* MUTANT: one reserved range more than there is room for is accepted.     *)
ReservedFullTooLate == reserved > MaxReserved

ReservedFull == reserved >= MaxReserved

TooManyReserved(d) ==
  /\ Usable(d) /\ IsReserved(d) /\ ReservedFull
  /\ reserved' = reserved + 1
  /\ phase' = "panic"
  /\ UNCHANGED scanVars

(* The guards and the accounting every usable descriptor goes through.     *)
Accepted(d) ==
  /\ Usable(d)
  /\ IsReserved(d) => ~ReservedFull
  /\ reserved' = IF IsReserved(d) THEN reserved + 1 ELSE reserved
  /\ UNCHANGED phase

(* MUTANT: entries are merged without a look at the gap between them.      *)
CoalescesAcrossHoles(t, r) ==
  /\ prev # NoPrev
  /\ r.attribute = t[prev].attribute
  /\ "KERN_RESERVED" \notin r.attribute
  /\ r.base = r.allocUp
  /\ t[prev].end = t[prev].allocDown

(* May r be merged into the previous entry of t?                           *)
Coalesces(t, r) ==
  /\ prev # NoPrev
  /\ r.attribute = t[prev].attribute
  /\ "KERN_RESERVED" \notin r.attribute
  /\ r.base = r.allocUp
  /\ t[prev].end = t[prev].allocDown
  /\ r.base = t[prev].end + 1

(* What a region contributes to avail_remaining: one page too few.         *)
Size(r) == r.end - r.base

(* The code after the three cases: r has been stored in slot p of t.       *)
Account(t, p, r) ==
  /\ availEnd' = IF r.end > availEnd THEN r.end ELSE availEnd
  /\ availRemaining' = availRemaining + Size(r)
  /\ \/ /\ Coalesces(t, r)
        /\ table' = [t EXCEPT ![prev] = [@ EXCEPT !.end = r.end,
                                                  !.allocDown = r.allocDown]]
        /\ count' = p /\ prev' = prev
     \/ /\ ~Coalesces(t, r)
        /\ table' = t
        /\ count' = p + 1 /\ prev' = p

WholeRegion(lo, hi, attr) ==
  [base |-> lo, allocUp |-> lo, allocDown |-> hi, end |-> hi, attribute |-> attr]
TakenRegion(lo, hi, attr) ==
  [base |-> lo, allocUp |-> hi + 1, allocDown |-> hi, end |-> hi,
   attribute |-> attr]

Clamp(ppn) == IF ppn >= LowMemReserved THEN ppn ELSE LowMemReserved

(* MUTANT: reserved memory is kept wherever it lies below first_avail.     *)
KeptReservedAnywhere(d) == IsReserved(d)

KeptReserved(d) == IsReserved(d) /\ Top(d) < boot.kernelBase

(* The range lies below first_avail: it is entered as already allocated,   *)
(* unless it is reserved memory below the kernel image.                    *)
AddBelow(d) ==
  /\ Accepted(d) /\ Top(d) < boot.fap
  /\ LET keep == KeptReserved(d)
         lo   == Clamp(Base(d))
         r    == IF keep THEN WholeRegion(lo, Top(d), d.attribute)
                         ELSE TakenRegion(lo, Top(d), d.attribute)
     IN /\ Account([table EXCEPT ![count] = r], count, r)
        /\ reservedIndices' = IF keep THEN Append(reservedIndices, count)
                                      ELSE reservedIndices

Spans(d) == Base(d) < boot.fap /\ boot.fap < Top(d)

(* MUTANT: the entry below first_avail includes the page first_avail.      *)
LowerPartWithFap(d) == TakenRegion(Base(d), boot.fap, d.attribute)

LowerPart(d) == TakenRegion(Base(d), boot.fap - 1, d.attribute)

(* MUTANT: the entry above first_avail leaves the page first_avail out.    *)
UpperPartAfterFap(d) == WholeRegion(boot.fap + 1, Top(d), d.attribute)

UpperPart(d) == WholeRegion(boot.fap, Top(d), d.attribute)

(* The index of an entry of reserved memory is recorded.                   *)
Recorded(d, p) == IF IsReserved(d) THEN Append(reservedIndices, p)
                                   ELSE reservedIndices

(* The range spans first_avail: two entries, the lower one allocated.      *)
AddSpanning(d) ==
  /\ Accepted(d) /\ Spans(d)
  /\ LET t == [table EXCEPT ![count] = LowerPart(d), ![count + 1] = UpperPart(d)]
     IN Account(t, count + 1, UpperPart(d))
  /\ reservedIndices' = Recorded(d, count + 1)

(* Everything else is entered as usable.                                   *)
AddWhole(d) ==
  /\ Accepted(d) /\ Top(d) >= boot.fap /\ ~Spans(d)
  /\ LET r == WholeRegion(Base(d), Top(d), d.attribute)
     IN Account([table EXCEPT ![count] = r], count, r)
  /\ reservedIndices' = Recorded(d, count)

----------------------------------------------------------------------------
(* The cap at KERNEL_MAXMEM.                                               *)

MaxMem == IF boot.physPages > KernelMaxMem THEN KernelMaxMem ELSE 0
Capped == boot.fap < MaxMem /\ MaxMem < boot.physPages

(* The scan ends with the map, or when the table is full.                  *)
LeaveScan ==
  /\ phase = "scan"
  /\ i > Len(boot.map) \/ count >= TableSize
  /\ IF Capped
     THEN LET discarded == boot.physPages - MaxMem
              left      == IF availRemaining > discarded
                           THEN availRemaining - discarded ELSE 0
          IN /\ phase' = "cap"
             /\ availRemaining' = left
             /\ pagesToUse' = left
     ELSE /\ phase' = "done"
          /\ UNCHANGED <<availRemaining, pagesToUse>>
  /\ UNCHANGED <<boot, i, table, count, prev, reserved, reservedIndices,
                 availEnd, curRegion, highestPn>>

PagesUsed(r) == IF r.end - r.base < pagesToUse THEN r.end - r.base ELSE pagesToUse

(* MUTANT: the entry is cut at the last page counted, not behind it.       *)
StopAtLast(r) == r.base + PagesUsed(r) - 1

(* cur_end after the inner loop.                                           *)
Stop(r) == r.base + PagesUsed(r)

(* One region of the capping loop: the inner loop counts pages from base   *)
(* until it reaches end or has used up pages_to_use.                       *)
CapRegion ==
  /\ phase = "cap"
  /\ curRegion < count /\ pagesToUse > 0
  /\ LET r    == table[curRegion]
         used == PagesUsed(r)
         stop == Stop(r)
     IN /\ highestPn' = IF used > 0 /\ stop - 1 > highestPn THEN stop - 1
                                                            ELSE highestPn
        /\ pagesToUse' = pagesToUse - used
        /\ table' = IF pagesToUse' = 0
                    THEN [table EXCEPT ![curRegion] =
                            [@ EXCEPT !.end = stop, !.allocDown = stop]]
                    ELSE table
        /\ curRegion' = curRegion + 1
  /\ UNCHANGED <<boot, phase, i, count, prev, reserved, reservedIndices,
                 availEnd, availRemaining>>

CappedEnd == highestPn + 1

LeaveCap ==
  /\ phase = "cap"
  /\ curRegion >= count \/ pagesToUse = 0
  /\ count' = curRegion
  /\ availEnd' = CappedEnd
  /\ phase' = "done"
  /\ UNCHANGED <<boot, i, table, prev, reserved, reservedIndices,
                 availRemaining, capVars>>

----------------------------------------------------------------------------
ScanStep(d) ==
  \/ SkipEmpty(d) \/ SkipUnusable(d) \/ TooManyReserved(d)
  \/ AddBelow(d) \/ AddSpanning(d) \/ AddWhole(d)

Next ==
  \/ \E k \in 1 .. Len(boot.map) : k = i /\ ScanStep(boot.map[k])
  \/ LeaveScan
  \/ CapRegion
  \/ LeaveCap

Spec == Init /\ [][Next]_vars

----------------------------------------------------------------------------
TypeOK ==
  /\ ValidBoot(boot)
  /\ phase \in {"scan", "cap", "done", "panic"}
  /\ i \in 1 .. Len(boot.map) + 1
  /\ table \in [0 .. TableSize -> Region]
  /\ count \in 0 .. TableSize + 1
  /\ prev \in -1 .. TableSize
  /\ reserved \in 0 .. MaxReserved + 1
  /\ reservedIndices \in Seq(0 .. TableSize)
  /\ availEnd \in Nat /\ availRemaining \in Nat
  /\ curRegion \in Nat /\ pagesToUse \in Nat /\ highestPn \in Nat

Regions == 0 .. count - 1
Scanned == 1 .. i - 1
Usables == {k \in Scanned : ~Empty(boot.map[k]) /\ ~NotForUse(boot.map[k])}

(* No page is in two entries of the table: an allocator working from two   *)
(* entries would hand the same page out twice.  The scan builds entries    *)
(* from clamped, split and merged descriptors (i386_vm_init.c 474-564).    *)
RegionsDisjoint ==
  \A j, k \in Regions :
    j # k => table[j].end < table[k].base \/ table[k].end < table[j].base

(* Every page of every entry is a page of a usable descriptor: memory the  *)
(* firmware still owns never gets into the table, not even through the     *)
(* merging of entries (i386_vm_init.c 449-460, 551-560).                   *)
RegionsUsable ==
  \A j \in Regions : \A p \in RegionPages(table[j]) :
    \E k \in Usables : p \in DescPages(boot.map[k])

(* No usable page above the reserved low memory is lost by splitting,      *)
(* clamping and merging, and each at or above first_avail is available.    *)
UsablePagesKept ==
  phase = "scan" =>
    \A k \in Usables : \A p \in Clamp(Base(boot.map[k])) .. Top(boot.map[k]) :
      \E j \in Regions : /\ p \in RegionPages(table[j])
                         /\ p >= boot.fap => p \in AvailablePages(table[j])

(* A page below first_avail (kernel image, page tables, early allocations) *)
(* is available only when it is reserved memory below the kernel image, or *)
(* lies in a range whose last page is first_avail itself (lines 505-541).  *)
AllocatedBelowFirstAvail ==
  \A j \in Regions : \A p \in AvailablePages(table[j]) :
    p < boot.fap =>
      \/ /\ "KERN_RESERVED" \in table[j].attribute
         /\ table[j].end < boot.kernelBase
      \/ \E k \in Usables : /\ Top(boot.map[k]) = boot.fap
                            /\ p \in DescPages(boot.map[k])

(* The comment at i386_vm_init.c:507: memory below first_avail is put in   *)
(* the table but marked already allocated.                                 *)
BelowFirstAvailMarked ==
  \A j \in Regions : \A p \in AvailablePages(table[j]) :
    p < boot.fap => "KERN_RESERVED" \in table[j].attribute

(* Every recorded index names an entry of reserved memory: entries are     *)
(* appended, merged and, in the spanning case, doubled, and the indices    *)
(* recorded before must still be right.  Never more than fit.              *)
ReservedIndicesValid ==
  /\ Len(reservedIndices) <= MaxReserved
  /\ phase = "scan" =>
       \A k \in 1 .. Len(reservedIndices) :
         /\ reservedIndices[k] \in Regions
         /\ "KERN_RESERVED" \in table[reservedIndices[k]].attribute
         /\ AvailablePages(table[reservedIndices[k]]) # {}

(* The table is overrun by one entry at most, and only when the last       *)
(* descriptor entered spans first_avail: the entry behind the table starts *)
(* there, and the last one in it ends before, unless the capping loop has  *)
(* just cut it short; then LeaveCap gives up the entry behind it.          *)
OverrunOnlyBySpanning ==
  count > TableSize =>
    /\ table[TableSize].base = boot.fap
    /\ \/ table[TableSize - 1].end = boot.fap - 1
       \/ phase = "cap" /\ curRegion = TableSize /\ pagesToUse = 0

(* While the table is built, avail_end is at least the last page of every  *)
(* entry; after the cap it still is, for every entry of more than one page *)
(* (i386_vm_init.c 543-544, 644-661).                                      *)
AvailEndCovers ==
  phase # "cap" =>
    \A j \in Regions : \/ table[j].end <= availEnd
                       \/ table[j].base = table[j].end /\ Capped

(* s[k] is the number of pages of the first k entries of t, as the capping *)
(* loop counts them.                                                       *)
PageSums(s, t, n) ==
  /\ s[0] = 0
  /\ \A k \in 1 .. n : s[k] = s[k - 1] + Size(t[k - 1])

(* The cap gives up exactly what it was told to: the entries that are kept *)
(* hold avail_remaining pages by the loop's own count, so the loop never   *)
(* runs out of entries before it has used them (i386_vm_init.c 637-659).   *)
CapExact ==
  phase = "done" /\ Capped =>
    \E s \in [0 .. count -> 0 .. availRemaining] :
      PageSums(s, table, count) /\ s[count] = availRemaining

(* avail_end and the pages kept agree: both hold (i386_vm_init.c 543-661). *)
AvailEndRight == AvailEndCovers /\ CapExact
=============================================================================
