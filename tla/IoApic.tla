------------------------------- MODULE IoApic -------------------------------
(***************************************************************************)
(* From the table of the firmware to the redirection entries: MADT.swift    *)
(* decodes the entries, APIC.swift picks the I/O APICs and the overrides,   *)
(* IOAPIC.swift writes or masks an entry for every line a driver enables or *)
(* disables.                                                                *)
(***************************************************************************)
EXTENDS Integers, Sequences

(* Entries of the table: what they say, and their bytes: type, length, and  *)
(* what the type has.  Of words of four bytes the upper two are zero.       *)
processorLocalApic == 0
ioApicType == 1
interruptSourceOverride == 2
localApicNmi == 4
Types == {processorLocalApic, ioApicType, interruptSourceOverride, localApicNmi}
tableLength(type) ==
  CASE type = processorLocalApic -> 8 [] type = ioApicType -> 12
    [] type = interruptSourceOverride -> 10 [] type = localApicNmi -> 6

IoApicEntry(address, base) ==
  [type |-> ioApicType, address |-> address, globalSystemInterruptBase |-> base]
OverrideEntry(source, pin, flags) ==
  [type |-> interruptSourceOverride, sourceIRQ |-> source, globalInterrupt |-> pin,
   flags |-> flags]
PlainEntry(type) == [type |-> type]
AByte == 0 .. 255
AWord == 0 .. 65535
IsPlain(e) == e.type \in {processorLocalApic, localApicNmi} /\ e = PlainEntry(e.type)
IsIoApic(e) ==
  /\ e.type = ioApicType /\ e.address \in AWord /\ e.globalSystemInterruptBase \in AWord
  /\ e = IoApicEntry(e.address, e.globalSystemInterruptBase)
IsOverride(e) ==
  /\ e.type = interruptSourceOverride
  /\ e.sourceIRQ \in AByte /\ e.globalInterrupt \in AWord /\ e.flags \in AByte
  /\ e = OverrideEntry(e.sourceIRQ, e.globalInterrupt, e.flags)
IsOther(e) == e.type \in AByte \ Types /\ e.tail \in Seq(AByte)
IsEntry(e) == IsPlain(e) \/ IsIoApic(e) \/ IsOverride(e) \/ IsOther(e)

(* A table, and what drivers ask for.                                       *)
IsTable(es) ==
  /\ DOMAIN es = 1 .. Len(es) /\ Len(es) \in Nat /\ es = [i \in DOMAIN es |-> es[i]]
  /\ \A i \in 1 .. Len(es) : IsEntry(es[i])
IsOp(op) == op.irq \in AByte /\ op.enable \in BOOLEAN
IsOps(ops) ==
  DOMAIN ops = 1 .. Len(ops) /\ Len(ops) \in Nat /\ \A i \in 1 .. Len(ops) : IsOp(ops[i])

Low(n) == n % 256
High(n) == n \div 256
Bytes(e) ==
  IF e.type = processorLocalApic THEN <<0, 8, 0, 1, 1, 0, 0, 0>>
  ELSE IF e.type = ioApicType
  THEN <<1, 12, 2, 0, Low(e.address), High(e.address), 0, 0,
         Low(e.globalSystemInterruptBase), High(e.globalSystemInterruptBase), 0, 0>>
  ELSE IF e.type = interruptSourceOverride
  THEN <<2, 10, 0, e.sourceIRQ, Low(e.globalInterrupt), High(e.globalInterrupt), 0, 0, e.flags, 0>>
  ELSE IF e.type = localApicNmi THEN <<4, 6, 255, 0, 0, 1>>
  ELSE <<e.type, Len(e.tail) + 2>> \o e.tail
TableBytes(es) ==
  LET bytes[k \in 0 .. Len(es)] ==
        IF k = 0 THEN <<>> ELSE Bytes(es[Len(es) - k + 1]) \o bytes[k - 1]
  IN bytes[Len(es)]

----------------------------------------------------------------------------
withBytes(bytes, i) == bytes[i] + 256 * bytes[i + 1]

decodeTable(table) ==
  IF table[1] = ioApicType THEN IoApicEntry(withBytes(table, 5), withBytes(table, 9))
  ELSE IF table[1] = interruptSourceOverride
  THEN OverrideEntry(table[4], withBytes(table, 5), table[9])
  ELSE PlainEntry(table[1])

(* A type the kernel does not know, and a length that does not fit, end in  *)
(* fatalError().                                                            *)
Fits(bytes, at) ==
  /\ Len(bytes) - at >= 2
  /\ bytes[at + 1] \in 1 .. Len(bytes) - at + 1
  /\ bytes[at] \in Types /\ bytes[at + 1] = tableLength(bytes[at])
Decoded(fatal, entries) == [fatal |-> fatal, entries |-> entries]
Before(bytes, at, rest) ==
  Decoded(rest.fatal, <<decodeTable(SubSeq(bytes, at, at + bytes[at + 1] - 1))>> \o rest.entries)
decodeEntries(bytes) ==
  LET decode[at \in 1 .. Len(bytes) + 1] ==
        IF at > Len(bytes) THEN Decoded(FALSE, <<>>)
        ELSE IF ~Fits(bytes, at) THEN Decoded(TRUE, <<>>)
        ELSE Before(bytes, at, decode[at + bytes[at + 1]])
  IN decode[1]

----------------------------------------------------------------------------
(* The redirection entries of the first I/O APIC; all are masked at reset,  *)
(* and registers past the pins take nothing.                                *)
Pins == 0 .. 23
Redirection(vector, masked) == [vector |-> vector, masked |-> masked]
MaskedEntry == Redirection(0, TRUE)
Apic(redirection, trapped) == [redirection |-> redirection, trapped |-> trapped]
Reset == Apic([pin \in Pins |-> MaskedEntry], FALSE)

Of(entries, type) ==
  LET kept[n \in 0 .. Len(entries)] ==
        IF n = 0 THEN <<>>
        ELSE IF entries[n].type = type THEN Append(kept[n - 1], entries[n])
        ELSE kept[n - 1]
  IN kept[Len(entries)]
Fails(entries) == Of(entries, ioApicType) = <<>>

(* The first override of a line, if there is one.                           *)
overrideEntryFor(overrides, irq) ==
  {i \in DOMAIN overrides :
     /\ overrides[i].sourceIRQ = irq
     /\ \A j \in 1 .. i - 1 : overrides[j].sourceIRQ # irq}

(* The register is an UInt8, and so is what it is computed from.            *)
FirstRegister == 16
redirectionRegisterFor(irq) == FirstRegister + irq * 2
RegisterFor(overrides, irq) ==
  IF overrideEntryFor(overrides, irq) = {} THEN redirectionRegisterFor(irq)
  ELSE LET i == CHOOSE i \in overrideEntryFor(overrides, irq) : TRUE
       IN redirectionRegisterFor(overrides[i].globalInterrupt)

Overflows(overrides, irq) ==
  redirectionRegisterFor(irq) > 255 \/ RegisterFor(overrides, irq) > 255

BaseVector == 80
getIRQ(vector) == vector - BaseVector

PinAt(register) == (register - FirstRegister) \div 2
writeWideRegister(apic, register, entry) ==
  IF PinAt(register) \in Pins
  THEN Apic([apic.redirection EXCEPT ![PinAt(register)] = entry], apic.trapped)
  ELSE apic
readWideRegister(apic, register) ==
  IF PinAt(register) \in Pins THEN apic.redirection[PinAt(register)] ELSE MaskedEntry

enableIRQ(apic, overrides, irq) ==
  writeWideRegister(apic, RegisterFor(overrides, irq), Redirection(irq + BaseVector, FALSE))
disableIRQ(apic, overrides, irq) ==
  LET register == RegisterFor(overrides, irq)
  IN writeWideRegister(apic, register,
                       Redirection(readWideRegister(apic, register).vector, TRUE))

Done(apic, overrides, op) ==
  IF apic.trapped THEN apic
  ELSE IF Overflows(overrides, op.irq) THEN Apic(apic.redirection, TRUE)
  ELSE IF op.enable THEN enableIRQ(apic, overrides, op.irq)
  ELSE disableIRQ(apic, overrides, op.irq)
AllDone(overrides, ops) ==
  LET apic[n \in 0 .. Len(ops)] ==
        IF n = 0 THEN Reset ELSE Done(apic[n - 1], overrides, ops[n])
  IN apic[Len(ops)]

(* The pin a line is wired to, as the firmware says.                        *)
FirstSaid(es, irq) ==
  {i \in DOMAIN es :
     /\ es[i].type = interruptSourceOverride /\ es[i].sourceIRQ = irq
     /\ \A j \in 1 .. i - 1 : es[j].type = interruptSourceOverride => es[j].sourceIRQ # irq}
PinSaid(es, irq) ==
  IF FirstSaid(es, irq) = {} THEN irq
  ELSE es[CHOOSE i \in FirstSaid(es, irq) : TRUE].globalInterrupt

LinesOf(ops) == {ops[i].irq : i \in DOMAIN ops}
Ends(es, irq) == irq >= 120 \/ PinSaid(es, irq) >= 120
LetThrough(ops, irq) == \E i \in DOMAIN ops :
  ops[i].irq = irq /\ ops[i].enable /\ \A j \in i + 1 .. Len(ops) : ops[j].irq # irq
Alone(es, ops, irq) ==
  \A other \in LinesOf(ops) \ {irq} : PinSaid(es, other) # PinSaid(es, irq)
Routed(es, ops, apic) ==
  /\ apic.trapped <=> \E irq \in LinesOf(ops) : Ends(es, irq)
  /\ ~apic.trapped =>
       \A p \in Pins :
         /\ \A irq \in LinesOf(ops) : PinSaid(es, irq) = p /\ Alone(es, ops, irq) =>
              /\ apic.redirection[p].masked <=> ~LetThrough(ops, irq)
              /\ LetThrough(ops, irq) => getIRQ(apic.redirection[p].vector) = irq
         /\ (\A irq \in LinesOf(ops) : PinSaid(es, irq) # p) => apic.redirection[p].masked

(* Whatever the table holds and in whatever order lines are enabled and     *)
(* disabled: a line is let through exactly while it is enabled, by the pin  *)
(* the firmware says it is wired to, under the number its handler is found  *)
(* by; all others stay masked.  Two lines on one pin take it from each      *)
(* other, and a line without a register ends the kernel (MADT.swift 47-102, *)
(* APIC.swift 252-282, IOAPIC.swift 32-90).                                 *)
InterruptsRouted(es, ops) ==
  LET madt == decodeEntries(TableBytes(es))
  IN IF \E i \in DOMAIN es : es[i].type \notin Types THEN madt.fatal
     ELSE /\ madt.entries = es /\ ~madt.fatal
          /\ Fails(madt.entries)
             \/ Routed(es, ops, AllDone(Of(madt.entries, interruptSourceOverride), ops))
=============================================================================
