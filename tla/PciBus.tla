------------------------------- MODULE PciBus -------------------------------
(***************************************************************************)
(* Devices of the PCI bus: where their regions are and how long             *)
(* (PCIController.cpp, PCI.swift), and which driver takes which device      *)
(* (ModulesController.cpp, ModulesController.swift).                        *)
(*                                                                          *)
(* A register has Span values instead of 2^32, and there are Ports ports    *)
(* instead of 2^16; the flags are the lowest four bits, as in the code.     *)
(***************************************************************************)
EXTENDS Integers, Sequences, SequencesExt, FiniteSets

CONSTANTS Span, Ports, PageSize, MAX_LOADED_MODULES

ASSUME BarAssumption ==
  /\ Span \in Nat /\ Ports \in Nat \ {0} /\ PageSize \in Nat \ {0}
  /\ PageSize % 16 = 0
  /\ Ports % 32 = 0 /\ Span % Ports = 0 /\ Ports < Span
  /\ MAX_LOADED_MODULES \in Nat \ {0}

(* v & ~(n - 1) and v & n, for n a power of two, and ~v of a register or    *)
(* two with so many values.                                                 *)
Above(v, n) == v - (v % n)
Flipped(v, values) == values - 1 - v
Has(v, n) == (v \div n) % 2 = 1
round_page(size) == Above(size + PageSize - 1, PageSize)

----------------------------------------------------------------------------
(* A region, and its registers: the bits below its size, the flags and, of  *)
(* ports, what is above the ports cannot be written.                        *)
IO == 1
WIDE == 4
PREFETCH == 8
Kinds == {"none", "port", "memory", "wide"}
FlagsOf(region) ==
  CASE region.kind = "none" -> 0 [] region.kind = "port" -> IO
    [] region.kind = "memory" -> IF region.prefetch THEN PREFETCH ELSE 0
    [] region.kind = "wide" -> WIDE + (IF region.prefetch THEN PREFETCH ELSE 0)

(* What devices ask for: powers of two divide each other.                   *)
IsRegion(r) ==
  /\ r \in [kind : Kinds, size : Nat \ {0}, base : Nat, prefetch : BOOLEAN, narrow : BOOLEAN]
  /\ r.base % r.size = 0
  /\ r.kind = "none" => r.size = Span /\ r.base = 0
  /\ r.kind = "port" => /\ r.size % 4 = 0 /\ Ports % r.size = 0 /\ 2 * r.size <= Ports
                        /\ r.base + r.size <= Ports
  /\ r.kind \in {"memory", "wide"} => r.size % 16 = 0
  /\ r.kind = "memory" => Span % r.size = 0 /\ 2 * r.size <= Span /\ r.base + r.size <= Span
  /\ r.kind = "wide" => /\ IF r.size < Span THEN Span % r.size = 0 ELSE r.size % Span = 0
                        /\ (Span * Span) % r.size = 0 /\ 2 * r.size <= Span * Span
                        /\ r.base + r.size <= Span * Span

Register(value, size, top, flags) ==
  [value |-> value, size |-> size, top |-> top, flags |-> flags]
RegistersOf(region) ==
  LET low == IF region.size < Span THEN region.size ELSE Span
      high == IF region.size < Span THEN 1 ELSE region.size \div Span
  IN <<Register(region.base % Span, low,
                IF region.kind = "port" /\ region.narrow THEN Ports ELSE Span, FlagsOf(region)),
       IF region.kind = "wide" THEN Register(region.base \div Span, high, Span, 0)
       ELSE Register(0, Span, Span, 0)>>

GetConfig(r) == r.value + r.flags
Written(r, v) == Register(Above(v, r.size) % r.top, r.size, r.top, r.flags)

(* MUTANT: the ones stay.                                                   *)
ReadBarOnly(r) ==
  LET ones == Written(r, Span - 1)
  IN [address |-> GetConfig(r), mask |-> GetConfig(ones), after |-> ones]

(* The value, what is left of all ones, and the register afterwards.        *)
ReadBar(r) ==
  LET ones == Written(r, Span - 1)
  IN [address |-> GetConfig(r), mask |-> GetConfig(ones),
      after |-> Written(ones, GetConfig(r))]

(* The C++ class looks for the flag of wide regions before that of ports.   *)
getBAR(registers) ==
  LET low == ReadBar(registers[1])
      high == ReadBar(registers[2])
  IN IF Has(low.address, WIDE)
     THEN [is |-> "wide", at |-> Above(low.address, 16) + Span * high.address,
           size |-> (Flipped(Span * high.mask + Above(low.mask, 16), Span * Span) + 1)
                      % (Span * Span),
           after |-> <<low.after, high.after>>]
     ELSE IF Has(low.address, IO)
     THEN [is |-> "port", at |-> Above(low.address, 4) % Ports,
           size |-> (Flipped(Above(low.mask, 4), Span) + 1) % Ports,
           after |-> <<low.after, registers[2]>>]
     ELSE [is |-> "memory", at |-> Above(low.address, 16),
           size |-> (Flipped(Above(low.mask, 16), Span) + 1) % Span,
           after |-> <<low.after, registers[2]>>]

(* The Swift class never finds a wide region, for a bit masked with 4 is    *)
(* compared with 1; an overflow of its integers ends the kernel.            *)
GetBAR(registers) ==
  LET low == ReadBar(registers[1])
      port == Above(low.address, 4)
      size == Flipped(Above(low.mask, 4), Span) + 1
  IN IF size = Span \/ (Has(low.address, IO) /\ port >= Ports \div 2)
     THEN [is |-> "trap", after |-> <<low.after, registers[2]>>]
     ELSE [is |-> IF Has(low.address, IO) THEN "port" ELSE "memory",
           at |-> IF Has(low.address, IO) THEN port ELSE Above(low.address, 16),
           size |-> size, after |-> <<low.after, registers[2]>>]

(* Every region is found where it is and as long as it is, and the device   *)
(* is left as it was: by the C++ class unless a region of four ports has    *)
(* the flag of wide regions in its number, by the Swift class for ports it  *)
(* can number and for memory below the span of a register, as many pages    *)
(* as there are (PCIController.cpp 77-122, PCI.swift 67-92).                *)
BarRight(region) ==
  LET registers == RegistersOf(region)
      c == getBAR(registers)
      s == GetBAR(registers)
  IN /\ s.after = registers
     /\ ~(region.kind = "port" /\ Has(region.base, WIDE)) =>
          /\ c.after = registers
          /\ c.is = IF region.kind = "none" THEN "memory" ELSE region.kind
          /\ c.at = region.base
          /\ c.size = IF region.kind = "none" THEN 0 ELSE region.size
     /\ region.kind = "none" => s.is = "trap"
     /\ region.kind = "port" /\ region.base < Ports \div 2 =>
          s.is = "port" /\ s.at = region.base /\ (~region.narrow => s.size = region.size)
     /\ region.kind \in {"memory", "wide"} /\ region.base + region.size < Span =>
          s.is = "memory" /\ s.at = region.base /\ round_page(s.size) = round_page(region.size)

----------------------------------------------------------------------------
(* The functions of a bus in the order of their numbers; a bus whose first  *)
(* does not answer is passed over.                                          *)
Absent == [is |-> "none", works |-> FALSE]
Answers(f) == f # Absent
(* Buses, and the functions of each.                                       *)
IsBuses(buses) ==
  /\ DOMAIN buses = 1 .. Len(buses) /\ Len(buses) \in Nat
  /\ \A b \in 1 .. Len(buses) : Len(buses[b]) \in Nat /\ Len(buses[b]) > 0

FoundAt(bus, number, device) == [bus |-> bus, number |-> number, device |-> device]
OnBus(buses, bus) ==
  LET devices == buses[bus]
      seen[i \in 0 .. Len(devices)] ==
        IF i = 0 THEN <<>>
        ELSE IF Answers(devices[i]) THEN Append(seen[i - 1], FoundAt(bus, i, devices[i]))
        ELSE seen[i - 1]
  IN IF Answers(devices[1]) THEN seen[Len(devices)] ELSE <<>>
Functions(buses) ==
  LET seen[b \in 0 .. Len(buses)] == IF b = 0 THEN <<>> ELSE seen[b - 1] \o OnBus(buses, b)
  IN seen[Len(buses)]

(* init() of the E1000 of C++ returns at once; the others say they are used *)
(* where they succeed.                                                      *)
CppDrivers == {"xhci", "ehci", "rtl8111"}
SwiftDrivers == {"svga", "ahci", "nvme", "e1000", "hda"}
Driven(f, drivers) == f.device.is \in drivers /\ f.device.works

NULL_MODULE == [is |-> "null"]
PS2 == [is |-> "ps2"]
Loaded0 == [table |-> [i \in 0 .. MAX_LOADED_MODULES - 1 |-> IF i = 0 THEN PS2 ELSE NULL_MODULE],
            last |-> 0]

(* The search begins at the module loaded last and passes over used ones.   *)
FreeFrom(loaded) ==
  {i \in loaded.last .. MAX_LOADED_MODULES - 1 :
     \A j \in loaded.last .. i : loaded.table[j] = NULL_MODULE <=> j = i}

Offered(loaded, f) ==
  IF FreeFrom(loaded) = {} \/ ~Driven(f, CppDrivers) THEN loaded
  ELSE LET i == CHOOSE i \in FreeFrom(loaded) : TRUE
       IN [table |-> [loaded.table EXCEPT ![i] = f], last |-> i]

ModulesStart(buses) ==
  LET functions == Functions(buses)
      loaded[n \in 0 .. Len(functions)] ==
        IF n = 0 THEN Loaded0 ELSE Offered(loaded[n - 1], functions[n])
  IN loaded[Len(functions)]
PCIModules(buses) ==
  LET functions == Functions(buses)
      taken[n \in 0 .. Len(functions)] ==
        IF n = 0 THEN <<>>
        ELSE IF Driven(functions[n], SwiftDrivers) THEN Append(taken[n - 1], functions[n])
        ELSE taken[n - 1]
  IN taken[Len(functions)]

(* Every device that works and has a driver gets one, once, as long as the  *)
(* table has room; and print() and stop(), which go from 0 to the module    *)
(* loaded last, meet all of them and nothing else (ModulesController.cpp    *)
(* 38-111, ModulesController.swift 76-113).                                 *)
DriversRight(buses) ==
  LET loaded == ModulesStart(buses)
      table == loaded.table
      usable == {f \in ToSet(Functions(buses)) : Driven(f, CppDrivers)}
      stopped == {table[i] : i \in 1 .. loaded.last}
      swift == PCIModules(buses)
  IN /\ \A i \in DOMAIN table : table[i] # NULL_MODULE <=> i <= loaded.last
     /\ table[0] = PS2 /\ Cardinality(stopped) = loaded.last
     /\ Cardinality(usable) < MAX_LOADED_MODULES => stopped = usable
     /\ IsInjective(swift) /\ ToSet(swift) \cap stopped = {}
=============================================================================
