-------------------------------- MODULE Calls --------------------------------
(***************************************************************************)
(* Calls by which the kernel finds what the machine has (a region of a      *)
(* device, the drivers of all devices, the pins of interrupt lines, the     *)
(* volumes of a disk), writes and reads (a number, a string, a text), and   *)
(* is told things (the value of an argument, an argument of its command     *)
(* line, a line of the shell).  Each is made once, with any argument it can *)
(* get.                                                                     *)
(***************************************************************************)
EXTENDS PciBus, IoApic, Partitions, Printf, Shell

CONSTANTS Regions, Buses, Madts, Irqs, Disks,
          Strings, StringWidths, Precisions, NumberTexts, Bases,
          ValueTexts, BootLines, ArgNames, ShellLines

(* The machine: what devices say of themselves, the table of the firmware,  *)
(* the lines drivers enable and disable, and what is on a disk.             *)
ASSUME MachineAssumption ==
  /\ \A region \in Regions : IsRegion(region)
  /\ \A buses \in Buses : IsBuses(buses)
  /\ \A entries \in Madts : IsTable(entries)
  /\ \A ops \in Irqs : IsOps(ops)
  /\ \A disk \in Disks : IsDisk(disk)

(* What the kernel prints, reads and is told: texts of characters, and      *)
(* words with a name.                                                       *)
ASSUME TextsAssumption ==
  /\ \A s \in Strings \cup NumberTexts : s \in Seq(STRING)
  /\ StringWidths \subseteq Int /\ Precisions \subseteq Nat /\ Bases \subseteq {0} \cup 2 .. 36
  /\ \A s \in ValueTexts : s \in Seq(STRING)
  /\ \A line \in BootLines : IsBootLine(line)
  /\ \A line \in ShellLines : line \in Seq(STRING)

(* One call, and its arguments.                                             *)
VARIABLE call
None == [of |-> "none"]
CallInit == call = None

CallGetBAR == \E r \in Regions : call' = [of |-> "getBAR", region |-> r]
CallStart == \E b \in Buses : call' = [of |-> "start", buses |-> b]
CallIrqs ==
  \E es \in Madts, ops \in Irqs : call' = [of |-> "enableIRQ", entries |-> es, ops |-> ops]
CallDisk == \E d \in Disks : call' = [of |-> "disk", disk |-> d]
CallPrintf == \E d \in Directives, v \in Long : call' = [of |-> "printf", d |-> d, v |-> v]
CallString ==
  \E s \in Strings, w \in StringWidths, l \in BOOLEAN, p \in Precisions :
    call' = [of |-> "%s", s |-> s, width |-> w, left |-> l, prec |-> p]
CallNumber ==
  \E s \in NumberTexts, b \in Bases : call' = [of |-> "strtol", s |-> s, base |-> b]
CallValue == \E s \in ValueTexts : call' = [of |-> "getval", s |-> s]
CallArgument ==
  \E line \in BootLines, n \in ArgNames :
    call' = [of |-> "Parse_boot_argn", line |-> line, name |-> n]
CallLine == \E line \in ShellLines : call' = [of |-> "findcommand", line |-> line]

CallsNext ==
  /\ call = None
  /\ \/ CallGetBAR \/ CallStart \/ CallIrqs \/ CallDisk
     \/ CallPrintf \/ CallString \/ CallNumber
     \/ CallValue \/ CallArgument \/ CallLine
CallsSpec == CallInit /\ [][CallsNext]_call

(* What the firmware and the devices say of themselves is what the kernel   *)
(* makes of it: regions, drivers, interrupt lines, volumes                  *)
(* (PCIController.cpp 77-122, ModulesController.cpp 38-111, IOAPIC.swift    *)
(* 32-90, GPT.swift 27-68).                                                 *)
DevicesFound ==
  /\ call.of = "getBAR" => BarRight(call.region)
  /\ call.of = "start" => DriversRight(call.buses)
  /\ call.of = "enableIRQ" => InterruptsRouted(call.entries, call.ops)
  /\ call.of = "disk" => VolumesRight(call.disk)

(* What the kernel prints is what it reads back, and what it reads is the   *)
(* number, or the nearest, in every base (printf.c 75-90, 311-366, 424-541; *)
(* itoa.cpp 59-212).                                                        *)
NumbersRight ==
  /\ call.of = "printf" => PrintedRight(call.d, call.v)
  /\ call.of = "%s" => StringRight(call.s, call.width, call.left, call.prec)
  /\ call.of = "strtol" => NumberRight(call.s, call.base)

(* Arguments of the kernel and of its commands are what the line says: the  *)
(* values, the word that decides, the words (bootargs.c 77-227, command.c   *)
(* 100-153).                                                                *)
WordsRight ==
  /\ call.of = "getval" => ValueRight(call.s)
  /\ call.of = "Parse_boot_argn" => ArgumentRight(call.line, call.name)
  /\ call.of = "findcommand" => LineRight(call.line)
=============================================================================
