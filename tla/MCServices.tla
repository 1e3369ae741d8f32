----------------------------- MODULE MCServices -----------------------------
(* Small services of the kernel that share no state: the keyboard, the      *)
(* clock chip, the device tree, copies to the screen, the entries of traps  *)
(* and interrupts, the two USB controllers, and calls: of the C library, of *)
(* what finds devices and reads tables, and of the processor's.  Each runs  *)
(* with the others at rest.                                                 *)
EXTENDS Keyboard, Clock, DeviceTree, CopyWindow, Calls, TrapEntry, UsbHosts

CONSTANTS AmlBits, ElementBits
Aml == INSTANCE MCAml
Cpu == INSTANCE TscClock
Tables == INSTANCE Descriptors

(* Days before and after the ends of months, years and leap years; noon and *)
(* midnight; every mode of the chip.                                        *)
MCDays == {<<2016, 12, 31>>, <<2017, 12, 31>>, <<2018, 12, 31>>, <<2019, 12, 31>>,
           <<2018, 2, 28>>, <<2020, 2, 28>>, <<2030, 4, 30>>}
MCClocks ==
  {[year |-> d[1], month |-> d[2], day |-> d[3], seconds |-> s, binary |-> b, to24 |-> h] :
     d \in MCDays, s \in {86398, 43199}, b \in BOOLEAN, h \in BOOLEAN}

(* Trees with the name first, with the name second, and one with a node     *)
(* that has no property.                                                    *)
P(n, v) == [name |-> n, value |-> v, size |-> IF n = "FSB" THEN 8 ELSE 4]
N(ps, c) == [props |-> ps, children |-> c]
MCTrees ==
  {<<N(<<P("name", "root")>>, 2), N(<<P("name", "efi")>>, 1),
     N(<<P("name", "platform"), P("FSB", "n1")>>, 0), N(<<P("name", "rom")>>, 0)>>,
   <<N(<<P("x", "y"), P("name", "root")>>, 1), N(<<P("x", "y"), P("name", "efi")>>, 2),
     N(<<P("x", "efi"), P("FSB", "n1")>>, 1), N(<<P("name", "rom")>>, 0),
     N(<<P("name", "z")>>, 0)>>,
   <<N(<<P("name", "root")>>, 3), N(<<P("name", "efi")>>, 0), N(<<>>, 0),
     N(<<P("name", "rom")>>, 0)>>}
MCCommands == {<<"a">>, <<"b", "a">>}
MCWidths == {0, 6, 0 - 6}
MCXhciPorts == <<"usb2", "usb3">>
MCNames == {"name", "root", "efi", "platform", "rom", "x", "y", "FSB"}

MCLengths == {7, 24}

----------------------------------------------------------------------------
(* The other calls, of the C library, of the shell and of the processor.    *)
Texts(chars, n) == UNION {[1 .. k -> chars] : k \in 0 .. n}

MCStrings == Texts({"a", "b"}, 3)
MCNumberTexts == Texts({"-", "0", "1", "f", "G", "x", "B", "\n"}, 4)
MCValueTexts ==
  Texts({"-", "0", "1", "8", "x", "b", "C", "K"}, 4)
    \cup {s \o <<c>> : s \in {<<>>, <<"1">>, <<"0">>, <<"-", "1">>, <<"0", "1">>, <<"0", "x", "1">>},
                      c \in {"k", "m", "M", "g", "G"}}

Switch == [id |-> "n", dash |-> TRUE, underscore |-> FALSE]
Number == [id |-> "n", dash |-> FALSE, underscore |-> FALSE]
Forced == [id |-> "n", dash |-> FALSE, underscore |-> TRUE]
MCWords == [name : {Switch, Number, Forced}, equals : BOOLEAN, value : {<<"1">>, <<"x">>}]
MCBootLines == Texts(MCWords, 3)
MCArgNames == {Switch, Number, Forced}
MCShellLines == Texts({"a", "b", " ", "'"}, 5)

(* Regions of every kind and size, where the size lets them begin.          *)
MCRegions ==
  {r \in [kind : Kinds, size : {2 ^ k : k \in 2 .. 9}, base : 0 .. 300,
          prefetch : BOOLEAN, narrow : BOOLEAN] :
     /\ r.base % r.size = 0 /\ IsRegion(r)
     /\ r.kind # "port" => ~r.narrow
     /\ r.kind \in {"none", "port"} => ~r.prefetch}

Device(is, works) == [is |-> is, works |-> works]
MCDevices ==
  {Absent, Device("xhci", TRUE), Device("xhci", FALSE), Device("ehci", TRUE),
   Device("rtl8111", TRUE), Device("e1000", TRUE), Device("ahci", TRUE), Device("other", TRUE)}
MCBuses == [1 .. 2 -> [1 .. 2 -> MCDevices]]

(* The overrides of a PC, one that moves a line, one to a pin that is no    *)
(* pin; types the kernel does not decode, and an entry that is too short.   *)
MCEntries ==
  {PlainEntry(processorLocalApic), PlainEntry(localApicNmi), IoApicEntry(300, 0),
   IoApicEntry(300, 24),
   OverrideEntry(0, 2, 0), OverrideEntry(9, 20, 0), OverrideEntry(9, 9, 0),
   OverrideEntry(2, 130, 0),
   [type |-> 3, tail |-> <<0, 0, 2, 0>>], [type |-> 5, tail |-> <<>>]}
MCMadts == Texts(MCEntries, 3)
MCIrqs == Texts([irq : {0, 2, 9, 200}, enable : BOOLEAN], 2)

MCHeader(type, bytes) ==
  [fatType |-> type, bytesPerSector |-> bytes, label |-> "L", reserved |-> 2, tables |-> 2,
   tableSize |-> 3]
MCPartition(type, name, header) == [type |-> type, first |-> 40, name |-> name, header |-> header]
MCPartitions ==
  {MCPartition(t, "", MCHeader("other", 512)) : t \in {"APFS", "Nil", "HFSPlus"}} \cup
  {MCPartition(t, n, h) : t \in {"EFS", "WinData"}, n \in {"", "N"},
     h \in {MCHeader("FAT32", 512), MCHeader("FAT32", 4096), MCHeader("FAT16", 512)}}
MCDisks ==
  {[table |-> t, checked |-> c,
    entries |-> [i \in 1 .. 4 |-> [es[IF i = 4 THEN 2 ELSE i] EXCEPT !.first = 40 * i]]] :
     es \in [1 .. 3 -> MCPartitions], c \in BOOLEAN, t \in {"gpt", "mbr"}}

(* The descriptors of a real processor; words that are not valid; and the   *)
(* readings no processor has asked for since the first.                     *)
Word4(v, a, b, c, d) == [valid |-> v, bytes |-> <<a, b, c, d>>]
MCReading(n) == <<Word4(TRUE, n, 90, 3, 85), Word4(TRUE, 228, 178, 240, 0),
                  Word4(TRUE, 0, 0, 0, 0), Word4(TRUE, 44, 33, 202, 9)>>
MCAgain == <<Word4(TRUE, 0, 0, 180, 0), Word4(TRUE, 240, 0, 0, 0), Word4(FALSE, 7, 0, 0, 0),
             Word4(TRUE, 0, 0, 0, 0)>>
MCReadings ==
  {<<MCReading(0)>>, <<MCReading(1)>>,
   <<<<Word4(TRUE, 1, 1, 0, 0), Word4(FALSE, 3, 0, 0, 0), Word4(TRUE, 0, 0, 0, 0),
       Word4(TRUE, 0, 0, 0, 0)>>>>}
  \cup {<<MCReading(n)>> \o [i \in 1 .. n - 1 |-> MCAgain] : n \in {2, 5}}
MCCache(level, type, kilobytes, ways, line) ==
  [level |-> level, type |-> type, sharing |-> 2, line |-> line, partitions |-> 1, ways |-> ways,
   sets |-> (kilobytes * 1024) \div (line * ways), bytes |-> kilobytes * 1024]
MCCaches ==
  {<<>>, <<MCCache(1, 1, 32, 8, 64), MCCache(1, 2, 32, 4, 64), MCCache(2, 3, 256, 8, 128),
           MCCache(3, 3, 2048, 16, 64)>>,
   <<MCCache(1, 2, 32, 4, 64), MCCache(1, 1, 32, 8, 64)>>,
   <<MCCache(2, 1, 256, 8, 64), MCCache(1, 2, 32, 4, 64), MCCache(4, 3, 2048, 16, 64)>>}
MCNamed ==
  {<<"GenuineIntel", 6, 0, 15, "merom">>, <<"GenuineIntel", 6, 0, 23, "penryn">>,
   <<"GenuineIntel", 6, 0, 26, "nehalem">>, <<"GenuineIntel", 6, 0, 44, "westmere">>,
   <<"GenuineIntel", 6, 0, 58, "ivybridge">>, <<"GenuineIntel", 6, 0, 158, "kabylake">>,
   <<"GenuineIntel", 6, 0, 28, "unknown">>, <<"GenuineIntel", 15, 0, 6, "unknown">>,
   <<"AuthenticAMD", 15, 1, 26, "unknown">>, <<"AuthenticAMD", 6, 0, 10, "unknown">>}
CallInfo ==
  \E n \in MCNamed, b \in {3, 13}, e \in {4, 8}, a \in {1, 8}, c \in MCCaches, d \in MCReadings,
     k \in {0, 2}, r \in {{}, {"PLATFORM_ID"}, {"PLATFORM_ID", "CORE_THREAD_COUNT"}} :
    call' = [of |-> "cpuid_info",
             cpu |-> [vendor |-> n[1], family |-> n[2], extFamily |-> n[3], model |-> n[4],
                      name |-> n[5], maxBasic |-> b, maxExtended |-> e, addressable |-> a,
                      cores |-> 4, second |-> [line |-> 64, code |-> 6, kilobytes |-> 512],
                      caches |-> c, descriptors |-> d, enabledCores |-> k,
                      enabledThreads |-> 2 * k, registers |-> r, features7 |-> {"SMEP"}]]

(* Machines with and without a hypervisor and frequencies of the firmware.  *)
MCVmm(vendor, max, bus) == [vendor |-> vendor, max |-> max, tsc |-> 1000, bus |-> bus]
MCBare == [present |-> FALSE, vmm |-> MCVmm("none", 0, 0)]
MCMachine(family, firmware, ratio, half, flexOn, flex, numerator, denominator, on) ==
  [family |-> family, firmware |-> firmware, ratio |-> ratio, half |-> half, flexOn |-> flexOn,
   flex |-> flex, numerator |-> numerator, denominator |-> denominator, present |-> on.present,
   vmm |-> on.vmm]
MCFrequencies == {0, 13, 50, 100}
MCRatios == {0, 1, 7, 18, 31}
MCMachines ==
  {MCMachine(f, e, r, h, FALSE, 0, 0, 0, MCBare) :
     f \in {"merom", "penryn"}, e \in MCFrequencies, r \in MCRatios, h \in BOOLEAN} \cup
  {MCMachine("nehalem", e, r, FALSE, o, x, 0, 0, MCBare) :
     e \in MCFrequencies, r \in MCRatios, o \in BOOLEAN, x \in {0, 5, 40}} \cup
  {MCMachine("skylake", e, 1, FALSE, FALSE, 0, n, d, MCBare) :
     e \in MCFrequencies, n \in {0, 1, 168, 250}, d \in {0, 1, 2, 3, 200}} \cup
  {MCMachine(f, 0, 7, FALSE, FALSE, 0, 168, 2, [present |-> TRUE, vmm |-> v]) :
     f \in {"merom", "unknown", "kabylake"},
     v \in {MCVmm("VMwareVMware", 16, 33), MCVmm("KVM", 1, 33), MCVmm("Parallels", 16, 0)}}
CallClock == \E m \in MCMachines : call' = [of |-> "tsc_init", machine |-> m]

MCAddresses ==
  {<<1, 2, 3, 4, 255, 255, 255, 255>>, <<240, 222, 188, 154, 128, 255, 255, 255>>,
   <<64, 0, 16, 0, 0, 0, 0, 0>>}
MCGates == [offset : MCAddresses, seg : {<<8, 0, 0>>, <<27, 1, 0>>}, size : {0, 1, 2},
            access : {142, 238, 143}]
CallTables ==
  \E e \in MCGates, l \in MCAddresses, s \in MCAddresses :
    call' = [of |-> "cpu_desc_init64",
             tables |-> [idt |-> <<e>>, ldt |-> l, tss |-> s,
                         gdt |-> [i \in 0 .. Tables!GDTSZ - 1 |-> [b \in 1 .. 8 |-> i]]]]

CallParse ==
  \E t \in Aml!MCTables, padded \in 0 .. 2 :
    call' = [of |-> "parse", table |-> <<t>>, padded |-> padded]
CallEvaluate == \E t \in Aml!MCExpressions : call' = [of |-> "evaluate", term |-> t]
CallExecute == \E ts \in Aml!MCPrograms : call' = [of |-> "execute", terms |-> ts]
CallField == \E f \in Aml!MCFields : call' = [of |-> "field", field |-> f]

CallNext ==
  \/ CallsNext
  \/ /\ call = None
     /\ \/ CallInfo \/ CallClock \/ CallTables
        \/ CallParse \/ CallEvaluate \/ CallExecute \/ CallField

----------------------------------------------------------------------------
(* The service that runs; the clock and the tree of the others is any one.  *)
VARIABLE service
callVars == <<call>>
Services == {"keyboard", "clock", "tree", "copy", "call", "trap", "xhci", "ehci"}

ServicesInit ==
  /\ KeyInit /\ RtcInit /\ TreeInit /\ CopyInit /\ CallInit /\ TrapInit /\ XhciInit /\ EhciInit
  /\ service \in Services
  /\ service # "clock" => clock = CHOOSE c \in Clocks : TRUE
  /\ service # "tree" => tree = CHOOSE t \in Trees : TRUE
ServicesNext ==
  /\ UNCHANGED service
  /\ \/ /\ service = "keyboard" /\ KeyNext
        /\ UNCHANGED <<rtcVars, treeVars, copyVars, callVars, trapVars, xhciVars, ehciVars>>
     \/ /\ service = "clock" /\ RtcNext
        /\ UNCHANGED <<keyVars, treeVars, copyVars, callVars, trapVars, xhciVars, ehciVars>>
     \/ /\ service = "tree" /\ TreeNext
        /\ UNCHANGED <<keyVars, rtcVars, copyVars, callVars, trapVars, xhciVars, ehciVars>>
     \/ /\ service = "copy" /\ CopyNext
        /\ UNCHANGED <<keyVars, rtcVars, treeVars, callVars, trapVars, xhciVars, ehciVars>>
     \/ /\ service = "call" /\ CallNext
        /\ UNCHANGED <<keyVars, rtcVars, treeVars, copyVars, trapVars, xhciVars, ehciVars>>
     \/ /\ service = "trap" /\ TrapNext
        /\ UNCHANGED <<keyVars, rtcVars, treeVars, copyVars, callVars, xhciVars, ehciVars>>
     \/ /\ service = "xhci" /\ XhciNext
        /\ UNCHANGED <<keyVars, rtcVars, treeVars, copyVars, callVars, trapVars, ehciVars>>
     \/ /\ service = "ehci" /\ EhciNext
        /\ UNCHANGED <<keyVars, rtcVars, treeVars, copyVars, callVars, trapVars, xhciVars>>
ServicesSpec ==
  /\ ServicesInit
  /\ [][ServicesNext]_<<service, keyVars, rtcVars, treeVars, copyVars, callVars, trapVars,
                        xhciVars, ehciVars>>

----------------------------------------------------------------------------
(* The processor is what the kernel takes it for, its counter gives the     *)
(* time, and its descriptor tables say what the source says (cpuid.c        *)
(* 245-924, tsc.c 86-236, rtclock.c 198-224, mp_desc.c 293-470).            *)
ProcessorKnown ==
  /\ call.of = "cpuid_info" => Cpu!ProcessorRight(call.cpu)
  /\ call.of = "tsc_init" => Cpu!ClockRight(call.machine)
  /\ call.of = "cpu_desc_init64" => Tables!DescriptorsRight(call.tables)

(* What a call of the AML interpreter answers.                              *)
AmlAnswered(c) ==
  /\ c.of = "parse" => Aml!ParsedRight(c.table, c.padded) /\ Aml!FieldDies(c.table)
  /\ c.of = "evaluate" => Aml!EvaluatedRight(c.term)
  /\ c.of = "execute" => Aml!ExecutedRight(c.terms)
  /\ c.of = "field" => Aml!FieldRight(c.field)

(* Tables of the firmware are read as the terms they encode, in the scopes  *)
(* they are in, and what their methods compute is what the language says,   *)
(* to the width of its numbers (Parser.swift 55-1268, Type1Opcodes.swift    *)
(* 34-178, Type2Opcodes.swift 45-1048, NamedObject.swift 402-522).          *)
AmlRight == [][AmlAnswered(call')]_call
=============================================================================
