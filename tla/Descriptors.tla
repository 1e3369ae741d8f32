---------------------------- MODULE Descriptors ----------------------------
(***************************************************************************)
(* The descriptor tables of the boot processor: built in a form of their    *)
(* own, shuffled once into that of the processor (fix_desc64), and loaded   *)
(* (cpu_desc_init64, cpu_desc_load64).  Memory is bytes, the lowest first.  *)
(***************************************************************************)
EXTENDS Integers, Sequences, SequencesExt

(* The form of the tables in the source: an address of eight bytes, a       *)
(* selector or limit of twenty bits, four bits of size or stack, an access  *)
(* byte (struct fake_descriptor64).                                         *)
Fake(e) ==
  e.offset \o <<e.seg[1], e.seg[2], e.seg[3] + 16 * e.size, e.access>> \o <<0, 0, 0, 0>>

ACC_TYPE(access) == 2 * ((access % 32) \div 2)
ACC_CALL_GATE == 12
ACC_INTR_GATE == 14
ACC_TRAP_GATE == 15
Gates == {ACC_CALL_GATE, ACC_INTR_GATE, ACC_TRAP_GATE}
ACC_LDT == 2
ACC_TSS == 9
ACC_P == 128

Zeroes == [i \in 1 .. 16 |-> 0]
RealGate(f) ==
  <<f[1], f[2], f[9], f[10], (f[11] \div 16) % 8, f[12], f[3], f[4]>>
    \o SubSeq(f, 5, 8) \o <<0, 0, 0, 0>>
RealSegment(f) ==
  <<f[9], f[10], f[1], f[2], f[3], f[12], (f[11] % 16) + 16 * (f[11] \div 16), f[4]>>
    \o SubSeq(f, 5, 8) \o <<0, 0, 0, 0>>
fix_desc64(f) ==
  IF ACC_TYPE(f[12]) = 0 THEN Zeroes
  ELSE IF ACC_TYPE(f[12]) \in Gates THEN RealGate(f)
  ELSE RealSegment(f)

----------------------------------------------------------------------------
(* The global table is of slots of eight bytes; three descriptors of the    *)
(* system take two slots each.                                              *)
KERNEL_LDT == 6
KERNEL_TSS == 8
USER_LDT == 11
GDTSZ == 19
LDT_LIMIT == <<15, 0, 0>>
TSS_LIMIT == <<103, 0, 0>>
kernel_ldt_desc64(base) ==
  [offset |-> base, seg |-> LDT_LIMIT, size |-> 0, access |-> ACC_P + ACC_LDT]
kernel_tss_desc64(base) ==
  [offset |-> base, seg |-> TSS_LIMIT, size |-> 0, access |-> ACC_P + ACC_TSS]

Put(gdt, slot, bytes) ==
  [gdt EXCEPT ![slot] = SubSeq(bytes, 1, 8), ![slot + 1] = SubSeq(bytes, 9, 16)]
Two(gdt, slot) == gdt[slot] \o gdt[slot + 1]
FixedSlot(gdt, slot) == Put(gdt, slot, fix_desc64(Two(gdt, slot)))

(* The tables of the boot processor, replaced and fixed in place.           *)
cpu_desc_init64(t) ==
  LET replaced == Put(Put(Put(t.gdt, KERNEL_LDT, Fake(kernel_ldt_desc64(t.ldt))),
                          USER_LDT, Fake(kernel_ldt_desc64(t.ldt))),
                      KERNEL_TSS, Fake(kernel_tss_desc64(t.tss)))
  IN [idt |-> [v \in DOMAIN t.idt |-> fix_desc64(Fake(t.idt[v]))],
      gdt |-> FoldLeft(FixedSlot, replaced, <<KERNEL_LDT, USER_LDT, KERNEL_TSS>>)]

(* The task segment is marked free, for the processor refuses a busy one.   *)
NotBusy(access) == access - (IF (access \div 2) % 2 = 1 THEN 2 ELSE 0)
cpu_desc_load64(m) ==
  [m EXCEPT !.gdt[KERNEL_TSS][6] = NotBusy(@)]

----------------------------------------------------------------------------
(* What the processor reads in a gate and in a segment of the system.       *)
GateRead(d) ==
  [offset |-> SubSeq(d, 1, 2) \o SubSeq(d, 7, 12), selector |-> SubSeq(d, 3, 4),
   stack |-> d[5] % 8, access |-> d[6]]
SegmentRead(d) ==
  [base |-> SubSeq(d, 3, 5) \o SubSeq(d, 8, 12), limit |-> <<d[1], d[2], d[7] % 16>>,
   unit |-> d[7] \div 128, access |-> d[6]]

(* Every vector leads to the handler, the segment, the stack and the        *)
(* privilege its entry names, the local table and the task segment are      *)
(* where they are and as long as they are, the task segment free, and no    *)
(* other descriptor is touched (mp_desc.c 293-340, 360-391, 444-470).       *)
DescriptorsRight(t) ==
  LET m == cpu_desc_load64(cpu_desc_init64(t))
      system == {6, 7, 8, 9, 11, 12}
      ldt == [base |-> t.ldt, limit |-> LDT_LIMIT, unit |-> 0, access |-> 130]
  IN /\ \A v \in DOMAIN t.idt :
          LET e == t.idt[v]
          IN GateRead(m.idt[v]) = [offset |-> e.offset, selector |-> SubSeq(e.seg, 1, 2),
                                   stack |-> e.size, access |-> e.access]
     /\ SegmentRead(Two(m.gdt, 6)) = ldt /\ SegmentRead(Two(m.gdt, 11)) = ldt
     /\ SegmentRead(Two(m.gdt, 8)) =
          [base |-> t.tss, limit |-> TSS_LIMIT, unit |-> 0, access |-> 137]
     /\ \A s \in (0 .. GDTSZ - 1) \ system : m.gdt[s] = t.gdt[s]
=============================================================================
