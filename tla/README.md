# BetaOS in TLA+

BetaOS is a small 64-bit kernel for x86 PCs. Its lower half is C derived from
Darwin (traps, page tables, processor set-up), its upper half is Swift, on top
of an Objective-C runtime and a C library of its own (modules for the
devices, the screen, file systems, the network, ACPI). One processor runs it;
there is one kernel thread, interrupted by device handlers that run on its
stack. Nothing is preempted otherwise. What persists are the files the shell
writes.

This directory holds TLA+ modules that model the kernel, TLC configurations
that check them on small instances, and proofs that TLAPS checks. All paths
below are relative to `src/`; `K/` stands for `Kernel/Kernel/`, `M/` for
`Kernel/Modules/`, `SE/` for `Kernel/Swift Extensions/` and `RT/` for
`Swift Compatibility Layer/Objective-C Runtime/`.

How to run: `tlc -config PmapRegions.cfg MCPmapRegions` (each run of
`PROJECT.json` names its module and its `.cfg`), `tlapm PmapRegionsProofs.tla`.

## The system

| Component | State | Operations | What makes it correct |
|---|---|---|---|
| Physical memory table, `K/i386/i386_vm_init.c` | `pmap_memory_regions`, its count, `avail_end`, `avail_remaining`, the indices of reserved ranges | one scan of the firmware's memory map, one capping loop | every usable page once, nothing else, nothing in use marked free, the table's bound |
| Kernel heap, `Libc++/Libc++/OSRuntime.cpp`, `K/kernel/kalloc.c`, `K/i386/io_map.c`, `K/x86_64/pmap.c` | `first_avail`, `virtual_avail`, the page tables | `malloc`, `free`, `io_map`, `pmap_map_bd` | blocks in use are disjoint, mapped and contiguous |
| Closures, `RT/NSBlocks.m` | reference counts of heap blocks and `__block` variables | `_Block_copy`, `_Block_release`, the byref helpers | nothing referenced is freed, the last release frees |
| C++ strings, `RT/objc.m` | the two forms of a `std::string`, its capacity and size | construction, append, push_back, assignment, reserve, resize, destruction | the contents are those of the standard, nothing is written past the memory |
| Interrupts, `K/i386/pal.h`, `M/InterruptManager.swift`, `M/PIC8259.swift`, `M/APIC.swift`, `M/IOAPIC.swift`, `K/i386/trap.c`, `K/x86_64/idt64.S` | `cliCalled` and the flag, the table of handlers, the controller's masks and in-service bits, the stack of contexts | `pal_cli`, `pal_sti`, `setIrqHandler`, `InterruptHandler`, EOI | no section is interrupted, no handler re-entered, no EOI missing |
| Traps, `K/x86_64/idt64.S`, `K/i386/trap.c` | the frames on the interrupt stack, `CPU_INT_STATE`, the interrupt stacks of the TSS | the stubs of the gates, `interrupt`, `kernel_trap`, the way back | what was interrupted goes on as if it had not been |
| Screen, `SE/Video.swift`, `SE/View.swift`, `K/i386/video/renderer.cpp`, `M/VESA.swift` | the frame buffer, `modified`, `ShouldRedraw` | drawing routines, `refresh` from the timer | what is drawn comes to the display |
| USB, `M/XHCIController.cpp`, `M/EHCIController.cpp`, `M/USBCommon.cpp` | the registers of a controller and its ports, command rings, devices | handover from the firmware, reset, start, ports, shutdown | the driver alone runs the controller, with what it wrote into its registers; every device ends where somebody speaks to it |
| Disk, `M/AHCI.swift`, `K/kernel/Disk.swift` | the port's command slot and registers, the buffers | identify, read, write, sleep | a command is complete before its buffer is used, and ends |
| FAT32 and file commands, `M/Filesystems/FAT.swift`, `M/Partition Tables/Partition.swift`, `SE/TextFile.swift`, `SE/PNG.swift`, `K/kernel/command.swift` | the allocation table, directories and files on the disk, the entry and data of an open file | open, write, list; the walk along a path; cluster chains | what is read is what is there, only the file named changes, a write lands |
| Partition tables, `M/Partition Tables/`, headers of `M/Filesystems/` | the volumes of a disk | read the table, try the file systems | a volume for every entry that holds one, its first cluster, the end of the table |
| Network, `M/E1000.swift`, `SE/Frameworks/Networking` | receive and transmit rings, buffers, causes of an interrupt | initialise, send, the interrupt handler | no slot is reused while the card owns it, no packet or frame lost, order |
| Keyboard, `M/PS2Controller.cpp`, `Libc/Libc/stdio` | prefix and modifier flags, the port's byte, the line | `pollchar`, `getchar`, `gets` | what is typed is what is read |
| Clock chip, `Libc/Libc/time` | the registers of a running clock | `read_rtc`, `time`, the day of the week | one moment is read, and told right |
| Boot arguments and device tree, `Kernel/Platform/` | the firmware's data, an iterator's stack | look-ups, the iterator, `Parse_boot_argn` | the named node or value is what is given |
| C library, `Libc/Libc/` | `canUseSSEmemcpy`; none otherwise | `__doprnt`, `itoa`, `strtol`, `memcpy`, `strcmp` | every byte is copied, what is printed is read back |
| Shell, `K/kernel/command.c` | the table of commands, the line | `addCommand`, `findcommand` | words as typed, indices stay in their arrays |
| Module registry and PCI, `M/ModulesController.*`, `M/PCI*` | the table of modules and devices, configuration registers | scan, probe, start, sizing of regions | a driver is started once, for its own device, with its region |
| I/O APIC and MADT, `M/IOAPIC.swift`, `M/APIC.swift`, `M/ACPI/MADT.swift` | the redirection entries | decode, enable, disable | a line's entry, through its override, has the line's vector |
| ACPI machine language, `M/ACPI/AML/` | the name space, the stream of the parser, a method's locals and results | parse, resolve, execute, read and write fields | packages end where they say, names resolve in scope, results have the width of the language |
| Processor, `K/i386/cpuid.c`, `tsc.c`, `rtclock.c`, `mp_desc.c` | tables built once, frequencies | straight-line initialisation | what the processor says is what the kernel takes it for; conversions do not overflow |
| NVMe, tasks, objects of the Objective-C runtime, threads shim, legacy interrupt table, boot code, other displays, logging, frameworks, build files | | | see *Not modelled* |

How they interact:

* *Calls.* Everything allocates through `malloc`, drivers map their devices
  through `io_map`, and both advance the same `virtual_avail`. The heap takes
  its first pages from the `first_avail` that the memory table is built around.
* *Callbacks.* A driver gives a closure to `setIrqHandler`; `interrupt()` in
  `trap.c` runs it through `InterruptHandler` on top of whatever context was
  running.
* *Shared state without a lock.* The heap pointers, `modified`,
  `ShouldRedraw`, `canUseSSEmemcpy`, the glyph the renderer paints, the rings of
  the devices. The only protection in the kernel is the pair
  `pal_cli`/`pal_sti`, which counts.
* *Devices.* Interrupt controllers, AHCI ports, the rings of the E1000, USB
  controllers, the keyboard's port, the clock chip: memory and registers two
  parties change.

What is hard: a handler that runs between two statements of the thread; a gate
that is counted by everyone, handlers included; the order of end-of-interrupt
and handler; pointers advanced in several steps; counts that latch; a device
that moves between two reads of its registers; firmware tables in any order;
timeouts after which a device answers all the same. `PROJECT.json` lists these
hazards at their lines.

## Modules

| Module | Models | Checked by | Proved in |
|---|---|---|---|
| `PmapRegions` | the memory table | `MCPmapRegions`, `PmapRegions.cfg`, `PmapBelowFirstAvail.cfg` | `PmapRegionsProofs` |
| `KernelHeap` | the heap under an interrupt | `MCKernelHeap`, `KernelHeap.cfg` | `KernelHeapProofs` |
| `HeapContract` | what the heap promises (abstract) | through `KernelHeap` | through `KernelHeapProofs` |
| `Blocks` | closures and `__block` variables | `MCRuntime`, `Runtime.cfg`; `MCBlocks`, `BlocksByref.cfg` | `RuntimeProofs` |
| `BasicString` | `std::string` | `MCRuntime`, `Runtime.cfg` | `RuntimeProofs` |
| `Interrupts` | gate, controllers, handlers, drawing sections, refresh | `MCInterrupts`, `Interrupts.cfg`, `InterruptsAssert.cfg` | `InterruptsProofs` |
| `AhciPort` | the AHCI driver and the drive | through `Files` | through `FilesProofs` |
| `Files` (on `AhciPort`) | FAT32 and the file commands | `MCFiles`, `Files.cfg`, `FilesWrite.cfg` | `FilesProofs` |
| `E1000` | the network driver and its card | `E1000.cfg` | `E1000Proofs` |
| `RtcRead` | the reading of a running clock chip | through `Clock` | `ServicesProofs` |
| `Clock` (on `RtcRead`) | the chip's modes and the calendar | `MCServices`, `Services.cfg` | `ServicesProofs` |
| `Keyboard` | scan codes, the prefix and modifier flags, the line | `MCServices`, `Services.cfg` | `ServicesProofs` |
| `DeviceTree` | look-ups and the iterator | `MCServices`, `Services.cfg`, `DeviceTree.cfg` | `ServicesProofs` |
| `CopyWindow` | `memcpy` and its flag under an interrupt | `MCServices`, `Services.cfg` | `ServicesProofs` |
| `TrapEntry` | frames and stacks of traps and interrupts | `MCServices`, `Services.cfg` | `ServicesProofs` |
| `Xhci`, `Ehci` | the USB drivers, their controllers, ports and devices | through `UsbHosts` | `ServicesProofs` |
| `UsbHosts` (on `Xhci`, `Ehci`) | the two controllers side by side | `MCServices`, `Services.cfg` | `ServicesProofs` |
| `BootArgs`, `Shell` | values and arguments, the words of a line | through `Calls` | `CallsProofs` |
| `Printf` (on `BootArgs`) | numbers and strings written and read back | through `Calls` | `CallsProofs` |
| `PciBus`, `IoApic`, `Partitions` | regions and drivers, interrupt lines, volumes | through `Calls` | `CallsProofs` |
| `Calls` (on these six) | the calls that find devices, print, and read texts | `MCServices`, `Services.cfg` | `CallsProofs` |
| `Cpuid`, `TscClock` (on it), `Descriptors` | the processor, its counter, its tables | `MCServices`, `Services.cfg` | |
| `AmlTerms`, `AmlParser` (on it) | the ACPI machine language | `MCAml` in `MCServices`, `Services.cfg` | |

An operator whose comment begins with `MUTANT` is not part of a model: it is a
plausible mistake in the definition that follows it, used to see that a
property notices it.

`CHECK_DEADLOCK` is off where a behaviour may end: the scan of the memory map
does, and the blocks, calls, packets, events or commands of the other runs are
bounded and may be used up. Where the system goes on for ever (`Interrupts`) it
is on.

### PmapRegions

State: the variables of `i386_vm_init()` with their names (`table` is
`pmap_memory_regions` and the slot behind it, `count` its length, `prev` the
index `prev_pmptr` points to, `i` the descriptor the loop is at). One action is
one iteration: `SkipEmpty`, `SkipUnusable`, `TooManyReserved`, `AddBelow`,
`AddSpanning` and `AddWhole` are the ways an iteration of the scan can end,
`LeaveScan` is the code between the loops, `CapRegion` one region of the capping
loop, `LeaveCap` its end. The bookkeeping after the three cases, with the
merging into the previous entry, is `Account`, part of each. The memory map is
arbitrary but for what firmware guarantees (`ValidBoot`): descriptors do not
overlap and lie in the physical address space.

The run checks every map of three disjoint descriptors that start and end at the
pages of `Points`, in two orders and of five kinds (usable, loader, ACPI, runtime,
reserved), with `first_avail` in the middle, and on machines with more memory than
`KERNEL_MAXMEM`. The points are enough for a hole, page 0, the last page, the
reserved low memory and both sides of `first_avail` to meet a descriptor's
boundary; a table of two entries is full and overrun; one reserved range is one
too few for two. It shows that the table keeps exactly the usable memory
(`RegionsDisjoint`, `RegionsUsable`, `UsablePagesKept`), what below `first_avail`
is available (`AllocatedBelowFirstAvail`), that the recorded indices stay right
(`ReservedIndicesValid`), that the table is overrun by one entry, in one case
(`OverrunOnlyBySpanning`: the upper half of a range that spans `first_avail`, and
while the cap runs, the same entry after the one before it was cut short), and
that the cap keeps exactly what it was told to (`AvailEndRight`).

Finding (`PmapBelowFirstAvail.cfg`): the spanning case tests `top > fap`, so a
range whose last page *is* `first_avail` is entered as wholly available; the
comment at `K/i386/i386_vm_init.c:507` says memory below `first_avail` is marked
already allocated.

### KernelHeap and HeapContract

State: the two pointers, the kernel's page table entries, the blocks handed out,
and for the thread and for a handler the point in `kalloc_`/`io_map` and its
locals. The actions follow the calls: `Malloc` and `MapDevice` enter `io_map`,
`ReadVirtual` and `BumpVirtual` are the read and the update of `virtual_avail`
(the compiler may load the pointer again: both outcomes are allowed), `MapPage`
is a round of `pmap_map_bd`, `LoadFirst` and `ReturnBlock` the read and the
write of `first_avail += size`. A handler runs at any point of the thread and
ends before the thread goes on. `Free` models `OSFree` and `free_`, which
together read the length from a header that `OSFree` has just overwritten.

`HeapContract` is the promise: a block handed out holds pages nobody else
holds. It holds as long as no handler allocated while the thread had read a
pointer it had not yet advanced; from then on the contract promises nothing
(`trusted`). The heap has no lock, so this is the strongest promise the code
keeps, and the runs do not hide the rest: the state `nested` is reached.

Bounds: three blocks of one or two pages, six entries in the page tables, one
device. That is enough for the heap to reach the end of the page tables, for a
block of several pages to be mapped in several rounds with a handler between
them, and for a block to be freed next to another. `PoisonPages` is the length
read from the poisoned header, `round_page(0xbbbbbbbb)`; it must be larger than
three times what the page tables map (768956 pages against 256000), which is
what makes the test in `free_` fail.

### Blocks

State: for each heap block its count and what it captures, for each `__block`
variable where it lives and its count, the references the program holds, and
what a release still has to do (`todo`, the calls on the stack). `CopyStack` and
`CopyHeap` are `_Block_copy` with the copy helpers, `Release` and `LeaveScope`
start a release, `DropBlock`, `FreeBlock` and `DropByref` are its steps.

The loops of `latching_incr_int` and `latching_decr_int` compare the value they
stored with the value before, so they run on: an increment ends at
`BLOCK_REFCOUNT_MASK`, a decrement at 0. The run shows that this loses nothing
for blocks (`NoDanglingBlock`: a block with more than one reference is latched
and never freed), and that a variable freed early is one captured exactly once
(`FreedIfCopiedOnce`). Bounds: three blocks, two variables, six shapes of capture,
two references a block; a block captured by a block and a variable captured
twice are the cases that matter.

Finding (`BlocksByref.cfg`): a variable captured by one copy has count 2, "one
for caller, one for stack" (`RT/NSBlocks.m:262`), and the first of the two
releases frees it (`RT/NSBlocks.m:67`).

### BasicString

State: for each string its form (in the object, in memory, or none), its
characters, the capacity the object records, the memory there is, and whether a
terminator follows. The actions are the members `RT/objc.m` defines. `value` is
what the standard says the string is; `unfinished` the strings a call was made on
that leaves out half of its work (`resize`, construction from a count,
`reserve` of a short string, which loses its size).

A capacity is stored with its lowest bit set, as the mark of the long form, so an
even number comes back one too high; a string that fills the object is copied
with a terminator one byte behind it; a constructor from characters appends to
an object nobody initialised. What remains is what the run and the proof show:
a string no half-done call was made on holds what it should (`ValueKept`), and
these are all the ways to write past the memory (`OverrunOnlyHere`). Bounds:
objects of five bytes and memory in steps of two stand for 23 and 16, up to seven
characters, all the same (the proof holds for any). `MCRuntime` runs `Blocks`
and `BasicString` side by side: they are what the kernel puts under the Swift
runtime, and share nothing.

### Interrupts

State: `cliCalled` and the processor's flag, the controller found and its
masks, requests and requests in service, the table of handlers, and the stack
of contexts: the thread at level 0 and the handlers on top of it, each with the
point it is at and how many sections it has open. `Count`/`Cli` and `Sti` are
`pal_cli` and `pal_sti`, with the interruptible point between the count and the
`cli`. The drawing routines are sections: lines, rectangles and scrolls may hold
others (`BeginDrawing`, `EndDrawing`), a point is changed, closed and then marked
(`BeginPoint`, `EndPoint`, `MarkPoint`), a character is rendered, painted and
closed (`Render`, `BeginPaint`, `EndPaint`), and an outlined circle leaves its
section without closing it (`EndOutlinedCircle`). `StoreHandler` and `EnableLine`
are the two halves of `setIrqHandler`. `Deliver`, `FinishHandler` and `Return`
are the gate in `idt64.S`, `InterruptHandler` with the refresh by the timer and
the EOI, and `iretq`. The controllers are modelled from how the code programs
them: an 8259 latches masked edges and has fixed priorities, an I/O APIC drops
masked edges and its vectors have one priority class.

What the run shows: handlers that print run with the gate open, because
`pal_sti` opens it at the end of their outermost section; still no section of
any context is interrupted (`SectionsUninterrupted`), and the EOI after the
handler keeps its line from interrupting it (`NotReentered`), with exactly the
running lines in service (proved as `ServiceExact`). This last holds for the 8259s
because the input of the second one is never unmasked: lines above 7 are
requested and never delivered, and the mask bit of the next line is cleared
instead (`Unmasked`). Handlers are registered before their line opens
(proved as `Expected`), the thread is interruptible between sections until a circle
leaks one (`OpenOutsideSections`), and a point drawn comes to the display
(`PointsShown`).

Bounds: two PCI lines, one on each 8259, so that the off-by-one mask and the
cascade matter; two handlers on top of each other; two nested sections; two
drawings between two waits, shared by the thread and the handlers on top of it;
one leaked circle. `CHECK_DEADLOCK` stays on: the kernel never stops.

Fairness: the running context takes its next step (`WF_vars(Step)`); the thread
gets its turn again and again and the timer's request is delivered if it can be
again and again (`SF`), that is, no storm of requests starves them; the timer
ticks (`WF_vars(Raise(Timer))`). The bound on drawing makes the thread come back
to its wait, which is what commands that end do.

Finding (`InterruptsAssert.cfg`): `interrupt()` asserts at `K/i386/trap.c:177`
that interrupts are off after the handler; a handler that has printed one
character comes there with them on (`K/i386/pal.h:29`).

### AhciPort and Files

`AhciPort` has the state of the port (`ci`, the error bit `err`, the command
`table`), of the drive (`device`, the command it `fetched`, `disk`), of memory
(`mem`, one buffer per use) and of the driver (`req`, `pc`, `spin`, `ok`). `Ask`
is `read`, `write` or `PutDriveToSleep` up to the call of `CommitCommand`;
`Issue` sets the bit and `Poll` is a round of the loop after each interrupt.
Three tests that compare a masked register with 1 are never true and so are
absent. `Fetch`, `Move`, `Complete` and `Fail` are the drive, which may also
never do anything. `givenUp` records that a command was abandoned while the
drive had it.

`Files` extends it with the calls above: `at` is the step a command is at, the
other variables are the locals of the functions it is in. `AskDrive` issues the
request of a step, and the action named after the step (`ReadLink`,
`ReadEntries`, `ReadPage`, `ReadCopy`, `WriteCopy`, `WritePage`) uses its buffer
when the request comes back, whether it failed or not, as the code does. `Walk`
starts the three nearly equal loops of `Partition.swift`; `Enter`, `FindFile`,
`FindNothing`, `FindTarget` and `List` are what a round of them can come to, and
`Matching` holds the test that differs. `Restart` switches the machine off and
on; the disk stays. An entry (`Entry`) has what `DirectoryEntry.init` takes out of
its bytes and the commands look at, and whether byte 12 or a date is set: the entry
a write puts back is made anew from what was taken out (`Computed`), and loses
those. A label and an entry without any attribute are passed over by every loop and
stand for no entry.

What the run shows: with no failed request the shell's answers agree with the
disk, read by a reference of its own (`FilesAt`, `FoldersAt`, `Content`, `Shown`;
`AnswerRight`), where `list` leaves out hidden and system entries, though a path may
go through them (`K/kernel/command.swift:370`; the help text, line 349, says "Lists
all files and folders"); a write lands (`WriteLands`), requests that are reported done
are done (`SuccessIsReal`), a dead drive never keeps a command from ending
(`CommandReturns`), and, with errors and power cuts at any point, nothing on the
disk changes but the file named: its clusters, and its entry, which gets the new
size and no dates (`OnlyTheNamedFile`). Each property names what it
leaves out, because the code does not keep it: commands after a request was
given up, the directory written back after it could not be read (`blind`), and
paths whose first component has one character, which is passed over.

The volumes are `Images`, each a file system as it should be (`Sane`): no chain is
cyclic, names are unique in their folder, what a folder has is a directory, and no
file shares a cluster with a folder. Files may share clusters with each other. TLC
tests `Sane` of every image of the run.

Bounds: a root folder of two clusters, a file of three clusters for a text of
two sectors (zeros behind it) and one of one cluster (truncated), a file of the
same name in a subfolder, a read-only file, a hidden picture and a hidden folder,
entries with dates and without, a file without clusters (699 607 states); two commands, two interrupts waited for, and one fault: an error, a late step of
the drive, or a power cut. One fault is enough for each way a step can fail; two
commands see what a write, or half of one, left behind. `CHECK_DEADLOCK` is off
because the number of commands typed is bounded. Fairness: `WF_vars(Runs)`, the
kernel goes on and timer interrupts end its `hlt`; the drive owes nothing.

The text to be written is taken to be in memory until it is written. That is so
in a build without optimisation (`-Onone` in the project's debug
configuration); `TextFile.text` keeps a pointer into an array that an optimised
build may release earlier. In both, the file object then frees memory that is
gone and the kernel stops (`Deinit`).

Finding (`FilesWrite.cfg`): `Partition.swift:132` passes over a file whose name
is typed as it is in its directory, so the write of the help text
(`K/kernel/command.swift:315`) does not happen.

### E1000

State: the card's registers (`cause`, heads and tails), the driver's places in the
rings (`txCur`, `rxCur`), the transmit descriptors and the memory they point to
(in cells of one buffer), where `init` or `sendPacket` is (`pc`) and where the
handler is (`isr`). `SetUpRings`, `GetMAC`, `Activate` and `Unmask` are `init`,
`SendPacket`, `Fill` and `WriteTail` the way of a packet, `Interrupt`,
`ReadHead`, `TakeFrame` and `GiveBack` the handler; `Transmit`, `Receive` and
`LinkChange` the card, which works between any two of them. The causes are read
and cleared together and looked at in an `else if` chain; whatever was passed
over must not matter.

Two oddities of the code are in the model. The transmit tail starts at the last
slot, so the card owns slots nobody filled and may send them; a packet put into
one of them may go out twice or never (`raced`). And each buffer area is
allocated with the size of one buffer, so the areas are consecutive pages, and
receive buffer `i + PageCells` is transmit buffer `i` (two in the code, one in the
run). What the run shows: otherwise packets go out once and in order
(`SentOnceInOrder`); as long as the receive buffers in use stay within their
page, with their own contents (`ContentsKept`); no frame is passed over or stored
over (`NoFrameSkipped`); and everything accepted or stored is sent or taken in
the end (`NothingStuck`).

Bounds: rings of three slots, four packets, four frames: every place of the ring
is passed and met again. Fairness: the driver and its handler go on, and the card
sends what it owns (`WF`); frames need not come.

`M/IntelE1000Controller.cpp` gives up at its first statement (line 25) and so is
not modelled; the protocol code of the Networking framework copies headers and
calls `sendPacket`, which has no result: a packet refused or dropped is not
noticed.

### The small services

`MCServices` puts together parts that share no state; `service` says which one
runs in a behaviour, the others stay at rest. Most are calls that return before
anything else happens: `call` is the one call of a behaviour with its arguments,
and the property says of every call what it must have answered, against a
reference that is written differently (sums over digits, the language's own
definition, the tree a table encodes). The parts with steps of their own are the
keyboard, the clock chip, the iterator, copies, traps and USB.

**Keyboard** (`TypedIsMeant`). The port has one byte and the keys still to come;
each read of the port is a step, and a second read of the same byte gives it
again unless the keyboard moved on. Whatever is typed when, `gets` reads what the
keys mean, but for four troubles that are named: a code behind the key table, the
second read of a shifted key, a byte the caps-lock lights drop, and the `E0` flag
that outlives the release of an extended key. Bound: four key events of eight
kinds of key.

**Clock chip** (`ReadingWhole`, `TimeTold`). `RtcRead` reads one register a step
while seconds pass; two equal readings in a row are one moment of the call.
`Clock` decodes it in all modes, and counts seconds. Noon and midnight change
places in 12-hour mode, and in two years of four `time()` is a day ahead; the
property states exactly this. Bounds: seven dates at ends of months and years,
two times, four modes, three ticks in a call (a call takes far less than the 60
the proof needs).

**Device tree and boot arguments** (`IteratorInPlace`, `WordsRight`). The
iterator passes the children of its scope in order if every node has a property,
whatever was entered and left; a property is looked up by `strcmp`, whose answer
is the other way round in this kernel (finding, `DeviceTree.cfg`:
`Kernel/Platform/DeviceTree.c:394`). Arguments are what the line says, the first word
that decides wins; a value may have a sign, one of the prefixes `0`, `0x` and `0b`, digits
of either case, and one of the suffixes `k`, `m` and `g`, of either case, at its end. Bounds: three trees of four or five nodes, six calls;
lines of three words, values of four characters, and each suffix behind six beginnings.

**C library and copies** (`NumbersRight`, `CopyWhole`). Every directive and flag
with every value of an `int` of 8 values and a `long` of 32 (`IntSpan`, `LongSpan`: 2^32
and 2^64), read back with `strtol` or `strtoul`; texts of up to four characters of eight
kinds (a sign, digits, letters of both cases that are digits in some bases only, the
letters of prefixes, a newline), which pass both limits, in the bases 0, 2, 8, 10, 16 and
36. The reference cuts a text by places into blanks, sign, prefix and digits, without
the code's own scan.

`memcpy` takes blocks of 16 bytes while a flag of the drawing code is set. It reads the
flag once (`Begin`) and then takes each block into `xmm0` (`LoadBlock`) and out of it
(`StoreBlock`); handlers run between any two of these, on top of each other, copy, draw
and compute in the same register, and nothing saves it for the code below
(`K/x86_64/idt64.S:191-230`). The property says what this costs: a block that was in
`xmm0` when a handler started may get other bytes (`crossed`); a copy that read the
flag of code it had interrupted loses eight bytes if more than seven are left of its
last block, and ends the kernel if its place is not a multiple of 16. Nothing else is
lost. While it draws, a level copies lines of the screen, which are a multiple of 16
bytes (`ScreenAssumption`). Bounds: copies of 7, 24 and 32 bytes, so none, one and two
blocks, with a rest and without; two handlers on top of the thread.

**Shell** (`WordsRight`). The line is split in place; the words, quotes and the
command found are those of the line, up to the cases the definitions name. The history
of lines, which is only written (once past its end, `K/kernel/command.c:141`), is left out.
Lines of up to five characters of four kinds, two commands, `MaxArgs` 2 for 16.

**Traps** (`FramesKept`, `ResumedAsInterrupted`). `TrapEntry` has the words of the
stack, the general registers, `CPU_INT_STATE` and the contexts that are not finished.
The entries save general registers only; `xmm` stands for `xmm0` to `xmm15` and the
floating point unit, and says which computation changed them last.
Code of a context may use the stack below `rsp`, change every register a callee
may and print a character (which opens the gate). `Interrupt`, `IgnoredTrap` and
`FatalTrap` push a frame where the gate's descriptor says; `InterruptDone`,
`PopState`, `TrapDone`, `Load`, `Swap` and `Iret` are the way back. A context is
resumed with everything that was saved as it was, and with `xmm` as it was or as code
left it that ran since, with these exceptions. Handlers return with
interrupts enabled (the finding of `InterruptsAssert.cfg`), and between the load
of `rsp` and its exchange an interrupt finds `rsp` with a register's value and
pushes its frame elsewhere (`stray`). Trap 15, and a debug trap without the trap flag, take
eight bytes off the stack that were not pushed, and the way back restores
registers from the neighbouring words (`ignored`). The stack of a non-maskable
interrupt is 0, and the next step is a double fault. Bounds: one vector, four
traps of the four kinds of stub, three contexts on top of each other, five steps,
a stack of 128 words, locals of 0 and 3 words.

**Devices** (`DevicesFound`). Sizing of regions by both classes (the Swift one
never sees that a region is wide, since `AddrLow & 0x04 == 1` cannot hold, and traps
on a region that is not implemented), which driver takes which function and in
which slot of the table, the redirection entries after any two calls, the volumes
of a disk. `Calls` makes one of these calls with any argument the machine can give
it. What the property leaves out is what the code leaves out: the polarity
and trigger of an override, drivers after the table is full, partitions of an
MBR. The interrupt base of an I/O APIC is decoded, and used by nothing. Bounds: registers of 8 bits for 32 and ports of 6 bits for 16, a page of 16
bytes, a table of three for 25, two buses of two functions, three entries of the
MADT, four of the partition table.

**AML** (`AmlRight`). `AmlParser` is the parser over bytes, `AmlTerms` the names and
what terms do when executed; `MCAml` encodes terms as a firmware would, with
package lengths longer than needed too, and has a reference of the language. A
table is read as the terms it encodes with the names in their scopes; expressions,
loops and branches compute what the language says, up to what the property names: a sum
that overflows and a division by 0 stop the kernel, `Ones` is 255, `LGreater`
compares with `<`, a store into `_REV` stops, `Field` stops in an initialiser
that calls itself (`NamedObject.swift:216`). The call of the parser is
commented out in this version (`ACPI.swift`), so this is the part as it is written.
Bounds: 1 470 tables, 1 960 expressions, about 8 000 methods, every field at
every offset of 16 bits under the three update rules; numbers of 12 bits and
elements of 4 for 64 and 8 to 64. It is stated of the step that makes the call.

**Processor** (`ProcessorKnown`). `Cpuid` reads the leaves of a processor given as a
record and must find what the record has: family, caches, translation buffers,
cores, features of the leaves it may read. `TscClock` finds the frequencies, and
converts: the conversion to nanoseconds is right to its rounding in both
directions of `SLOW_TSC_THRESHOLD`. `Descriptors` shuffles the entries of the
tables, byte by byte, into what the processor reads. What faults is in the
model: model-specific registers a processor does not have, a ratio or a
denominator of 0, and what the kernel itself dies of: a numerator of 0, a
denominator of 1 (`K/i386/tsc.c:136`), a frequency of 0. `nanotime_read` waits for an
even generation and tries again if it changed; as the scale is stored once, before
anything reads the time (`rtclock_early_init`), it never changes, and wait and retry
are left out. Bounds: 9 600 processors of ten models, 289 clocks (numerators 0, 1, 168
and 250, denominators 0, 1, 2, 3 and 200), 162
tables; `NSEC` and `Fraction` stand for 10^9 and 2^32, with their ratio.

**USB** (`HostsRight`). `xhci` and `ehci` are what the driver knows and where it
is, `xhost` and `ehost` the controller with its ports. Every read of a register is
a step; the controller answers, or not, the firmware leaves, or not, links train
and devices are plugged in, unplugged, lose power or are removed with the card at any moment,
after which a register reads as all ones. What a driver writes into the registers of its
rings and lists is modelled by the address it amounts to (`Address`, `kvtophys`): the
register of the command ring is declared with 16 bits (`M/XHCIController.hpp:54`), and
the EHCI driver writes the low halves of virtual addresses
(`M/EHCIController.cpp:293-294`). What a controller does with them is not known; it may
stop at any time (`HostFails`, `EHostFails`). The drivers' waits give up after a
number of reads (two here), and go on all the same; the property names what that
costs:

* the firmware is out, or was waited for, and its interrupts are off;
* the XHCI controller runs with the driver's contexts and 16 bits of the address of its
  command ring, unless it was still not ready after its reset (`early`, the driver
  waits for the halt only): then it knows nothing;
* after `stop` it stands still, unless it was started late (`slow`);
* a device that was set up is at a port that is enabled, by its own command, and
  the packet size told is the packet size kept; as no port has a slot, it is
  described before the first of the input contexts, in the last one that is for the
  controller to write (`InputContext`, `M/XHCIController.cpp:455`); an enabled port
  has its device set up, or it came too late;
* the EHCI controller runs free of the firmware, with the lists taken to be where the
  cut addresses point, and a port goes to the companion
  when no high-speed device answers there, unless the reset was released
  too early or the device was changed under way.

Writing a port's register back clears its enable bit (it is write-1-to-clear), so
the XHCI driver disables the ports it finds and sets up only devices that are
enabled in between; commands run into their timeout because no event ring is
set up. `Xhci` has both facts. Bounds: a USB 2 and a USB 3 port, two events; two EHCI
ports, one event. Two polls tell a condition seen at once, seen later and never seen
apart.

## Proofs

`PmapRegionsProofs` proves, for every memory map, table size and `first_avail`,
type correctness (with the bound on the table) and all seven properties of the
run. The properties alone are not inductive. For `RegionsDisjoint`,
`RegionsUsable` and `AllocatedBelowFirstAvail` merging is the trouble, which
widens an entry: the invariant (`IInv`) adds that every page of an entry belongs
to a descriptor the scan has passed (a descriptor still to come is disjoint from
all of them) and that `prev` is the last entry. The cap only shortens entries, so
one invariant serves both loops. On top of it `KInv` serves the other four: no entry
ends above `avail_end` (`EntriesSeen`), there are no more recorded indices than
reserved ranges (`IndicesCounted`), the pages of the table add up to
`avail_remaining` or more while the scan runs (`ScanCounted`), and in the capping
loop what it has passed and what it has still to use make up `avail_remaining`
(`CapCounted`). Sums over the table are functions of its
entries, extended and split by lemmas (`SumsExtend` and its neighbours) instead of
recursion. Assumed: `ConstantsAssumption` and `BootArgsAssumption`, that is,
non-empty tables and memory maps without overlap.

`KernelHeapProofs` proves, for any number of blocks of any sizes, type
correctness (no call maps a page beyond the page tables), `BlocksApart`,
`MappedContiguously`, that nothing is handed out twice (`NoReuse`), and that the heap implements
`HeapContract`, step by step. The invariant bounds the two pointers by what was
mapped (`Limit`), says that a handler's call starts only while the thread is not
exposed or `nested` holds (`NotExposed`), that a call's locals equal the
pointers until it advances them (`CallTrusted`) and that blocks lie below the
pointers (`BlocksBelow`). Assumed: `HeapAssumption`.

`RuntimeProofs` proves of `Blocks`, for any number of closures and variables and any nesting of
captures, type correctness, `NoDanglingBlock`, `FreedIfCopiedOnce`, and as an action
property that a latched block is never freed again (`LatchedForever`). References
need not be counted, because the code does not count them either: a count is 0, 1
or the latch. The invariant says what each means: at 1 there is one reference,
held by the program or just taken by the release at work (`OneAtOne`); at 0 there
is none (`NoneAtZero`); what is captured is latched. Assumed: `BlocksAssumption` (the
latch is above 2).

It proves of `BasicString`, for any strings, any size of the object and any step
of memory, `ValueKept` and `OverrunOnlyHere`. Neither follows from itself: the
invariant says for each form how the recorded capacity, the memory and the length
relate (the capacity is the memory or one more), with a lemma for each helper
(`Grown`, `Appended`, ...) that it keeps the relation, and one step per member. Assumed:
`StringAssumption`.

`InterruptsProofs` proves, for any set of PCI lines among 3 to 15 and any depth
of handlers and sections, type correctness, `SectionsUninterrupted`,
`NotReentered`, `OpenOutsideSections`, and two facts no run checks because they
are steps to these: every interrupt finds its handler (`Expected`), and the
requests in service are exactly the lines of unfinished handlers (`ServiceExact`).
The heart is an exact count: once interrupts are enabled, `cliCalled` equals the
leaked circles, plus the open sections of all contexts, plus the contexts
between the count and the `cli` (`Balance`); with it `pal_sti` opens the gate
only when the outermost section of everyone is closed. `Shapes` says what a
context may be doing where, `Lined` that the lines of unfinished handlers are
in service and distinct.

`FilesProofs` proves, for any volumes that are `Sane`, any paths and texts, and any
number of commands, errors and power cuts, all safety properties of the run, and
that the disk stays `Sane` (`DiskSane`) until a request is given up. It goes in
five steps, each an invariant that includes the one before.

1. *Requests* (`SuccessIsReal`). Until a command is given up, the drive works only
   while the driver polls, on the command in the table, which is the request's
   (`Matches`), and the bit is cleared only with the work done or the error bit set
   (`Working`); `IdleInv` adds that a command types, searches or ends only between
   requests.
2. *Volumes.* Chains and paths are recursive functions. What is needed of them is
   proved by a least counterexample (`WFMin` on the order of the naturals, which
   needs no operator as a parameter): a chain is what following the links gives, it is
   the only one, and in a `Sane` volume a path leads to one folder or none and to one
   file or none.
3. *The walk* (`AnswerRight`). While no request has failed, the locals of a command
   agree with the path: the folder reached so far, the part of its chain that was
   followed, the entries read, the file found and the pages loaded
   (`Walked`, whose parts are named after them).
4. *Failures* (`OnlyTheNamedFile`, `DiskSane`). Whatever fails, a buffer holds zeros or
   what is on the disk, so a directory written back has the entries it had or fewer
   (`Copied`, `Fewer`), with the size of one of them changed; the folders and files
   of such a volume are folders and files of the volume before, and a file's clusters
   are in no folder (`Merging`). If no entry was lost (`Alike`) the file of the
   path is the same after each of the writes.
5. *What lands* (`WriteLands`). With no failed request, the whole directory is
   followed and read (`Exact`), the entry is in place once its cluster was written,
   and the sectors so far are those of the text (`Landing`).

Assumed: `PortAssumption`, `FilesAssumption` (clusters, buffers, entries and texts
are what they are called) and `ImagesAssumption` (`Sane`).

`E1000Proofs` proves, for rings of any size and any number of packets and
frames, type correctness, `NoFrameSkipped`, `SentOnceInOrder` and `ContentsKept`.
Receiving needs that the card's head, and the handler's copy of it, lie between
the driver's place and the tail the card was given (`RxInv`);
sending that the slots between the card's head and the driver's place hold the
last packets accepted, in order (`TxInv`), with the arithmetic of the ring in
lemmas on `Dist`, `Succ` and `Pred`; contents that a packet waiting to be sent is in
its cell (`Placed`). Assumed: `E1000Assumption` (three transmit slots, two
receive slots or more).

`ServicesProofs` has seven parts; only the two of the clock share anything.

* `ReadingWhole`, for any chip in which no two seconds within reach of a call show
  the same byte in the register of the seconds: a reading under way is of the second
  it shows, and whole if that is still the present one (`Current`); the reading
  before it is whole, or its second is over before the next one's is read
  (`Before`), so that two equal readings cannot both be torn.
* `TimeTold`, for every chip set to any date of 2000 to 2099 in any mode, and a call
  shorter than a day. A call that returns holds one moment of the chip (`RtcIInv`,
  from `ReadingWhole`); the bytes of each register decode to the number the chip wrote,
  with the half of the day apart (`WholeIsRead`); a moment less than a day
  after the clock was set is a date of the calendar (`MomentIs`). The sums of `time()` and of
  the calendar are recursive functions: each is what its closed form says, because a
  first place where they differ would have a predecessor where they do not
  (`TotalIs`), and the two closed forms differ by the day the macro for
  leap years adds. The day of the week is the same sum modulo 7 (`DayOfTheWeek`). Assumed:
  `BytesAssumption`, `SecondsDiffer`, `MaxTicksAssumption`, `ChipsAssumption`,
  `RegistersAssumption`.
* `TypedIsMeant`, for any number of keys, whatever the order they go down and up and
  the port is read. Until one of the four troubles, the bytes still to be read, taken one
  after another by what each does when nothing comes between, lead from
  what was read to what the keys mean (`OnTheWay`); the bytes of an arrow come behind their
  prefix (`Prefixed`); and in the middle of `pollchar` the port still shows the
  byte that was read, or the answer of the lights is on its way (`InPoll`). With the port
  empty and nobody reading, what was read is what was meant. Assumed: `KeyAssumption`.
* `FramesKept` and `ResumedAsInterrupted` (the registers that nobody saves are as they were,
  or as code left them that ran since), for any stack, vectors and traps, any
  code in the contexts and any depth of them. Each context that is not finished has
  its frame above everything the contexts on top of it write (`Nested`), and where it is on
  its way back, the registers restored so far are the interrupted one's and the words still
  needed are still those of its frame (`ContextOK`). An ignored trap, whose way
  back is eight bytes off, ends in the `iretq` that faults. Assumed: `TrapAssumption`.
* `CopyWhole`, for copies of any lengths, aligned or not, and any depth of handlers:
  the flag is on only while somebody draws (`DrawersKnown`), and of the copy of each
  level the blocks before the next one are at their place or were in `xmm0` when a
  handler started; the block a level holds is in the register if nothing runs on top of
  it, or was noted (`CopyRight`). A copy by blocks to another place than the screen read
  the flag of a level below, because a level that draws copies lines only. Assumed:
  `ScreenAssumption`.
* `HostsRight`, for any number of ports and any plugging and unplugging, by an
  invariant of each driver: what the controller is, step by step through the handover,
  reset and start (`Stands` for EHCI, `Own` for XHCI), and what each port is before
  and after the driver has been there (`PortsOK`, `XPortsOK`, `DevicesOK`). Assumed:
  `EhciAssumption`, `XhciAssumption`.
* `IteratorInPlace`, for any complete tree and any calls. `skipTree` and the reference
  (what the nodes before a place lack in children) are recursive functions over
  memory, and they meet in `Ends`: the tree below a node ends at the first place where the
  nodes lack what they lacked before it, less one. That holds for the last node,
  and for a node if it holds for all behind it, because the children are passed one by
  one (`PastEach`), and so for all (`FromTheLast`). The children passed are counted by a bijection
  (`CountBefore`). The invariant of the iterator says of the current scope and of each
  one saved that its entry is the child its index names (`InPlace`, `Placed`).
  Assumed: `TreesAssumption`, that every image is a whole tree: a node has the children it announces,
  and nothing follows.

`CallsProofs` proves `DevicesFound`, `WordsRight` and `NumbersRight`. The first is for any machine: any span of a register, any
number of ports and any page that divide each other, tables of drivers of any
size, any buses and devices on them, firmware tables of any length with entries of any
type, any operations on any lines, and any disk. A call has no steps in between, so what is
proved is what it computes. Each loop is a recursive function over places; that
there is one, and what holds of its values, follows from the first place
upwards (`Recursion`, `Upwards`), so that each loop has an invariant of what it has seen
so far.

* *Regions* (`RegionsFound`). Of all ones a register keeps what is above its size
  (`OnesAre`), the flags are below what both classes look at (`Sixteens`,
  `PagesAre`), and a wide region has two halves, of which either the upper or the lower one
  is sized like a narrow region (`Halves`).
* *Drivers* (`DriversStart`). A scan meets each function that answers once
  (`FunctionsDistinct`). The table is full up to the module loaded last and empty
  behind it, so the only place to be found is the next one (`FreeIs`), and until there
  is none the table holds exactly the functions with a driver so far (`Holds`).
* *Interrupt lines* (`IrqsRouted`). Decoding is defined from each place of the bytes by
  the places behind it; it is followed from the end: where the last k entries begin,
  these entries are decoded, unless one of them has an unknown type (`DecodedTail`).
  Of the overrides kept, the first of a line is the first the firmware has of it
  (`Keeps`). After any number of operations a pin is as the last one on it left it
  (`After`), and the pin is the one the firmware says, as long as its register
  has eight bits (`DoneIs`).
* *Volumes* (`VolumesFound`). Reading from entry i makes one volume of each
  supported entry reached from there, in their order, and traps exactly where one of them
  does (`Claim`).

`WordsRight` is for any text, of any length and any characters:

* *Values* (`ValueFound`). The four forms of a number begin in ways that exclude each other
  (`OneForm`), so no text means two numbers. What `getval` adds up digit by digit
  is what the digits are worth by their places, counted from the last (`WorthIs`);
  it ends with a number exactly if there are digits only, or digits and one
  suffix at the end (`DigitsRead`); no suffix is a digit, and each has one factor
  (`SuffixIs`). Integers are unbounded here: a value of more
  than 64 bits is cut in the code.
* *Arguments* (`ArgumentFound`). After n words the search holds the value of
  the first of them that decides, or of the last that names the argument (`FoundIn`).
* *Lines* (`LineRead`). The places where words begin and end are fixed by the line
  alone, each word by the end of the one before (`WordEndsAre`, `WordsInOrder`). The
  scan has begun k words at a place exactly if k of them begin at it or before it, keeps
  the first `MaxArgs`, and has cut where they end (`ScannedTo`); so a pointer kept reads to
  the end of its word (`ReadsTheWord`).

`NumbersRight` is for an `int` and a `long` of any even number of values, of which `long` has
no fewer; for every directive, value, string, text and base:

* *Texts* (`NumberFound`). The loop of `strtol` holds what the digits so far are worth as long as that
  is within the limit, and has stopped or is over for good afterwards (`OneAccumulated`,
  `AccumulatedIs`); comparing quotient and remainder before multiplying is the same as comparing the number
  with the limit (`PassesLimit`). The worth is defined from the last digit, by
  places, the loop goes from the first (`WorthOfIs` relates both).
* *Digits* (`BackwardsIs`). A number is written by a function that calls itself at a
  quotient, not at the number before; that there is one needs recursion over all
  smaller values, which holds by remembering them (`Memory`).
  Each quotient is read back as the remainders written (`QuotientIs`).
* *Fields* (`PrintedNumberRead`). A number stands in a text if blanks, a sign, a prefix that the base allows, zeros,
  its digits and blanks follow each other; then it is what is read
  (`StandsIn`, `NumberStands`). Whatever the flags, what `__doprnt` prints is such a text (`PaddedStands`,
  `PartsOfNumber`), of the length asked for.
* *Strings* (`StringPrinted`). Each place of the field is a blank or the character due there.

Assumed: `BarAssumption` (of the spans and the page), `MachineAssumption` (that the
arguments are regions, buses, tables, lines and disks; nothing is asked of their order or
number), `ShellAssumption` (that `argv` has a place), `PrintfAssumption` (of the numbers of values, and that a width is an integer)
and `TextsAssumption` (that texts are sequences of characters, a command line one of words, and that no base is 1).

What stays with TLC: `ProcessorKnown` and `AmlRight`. They are one call each, and say what a recursive function computes from its data. Facts
about one recursive function are within reach by going up from the first place, as in
`FilesProofs`, `CallsProofs` and the sums of the clock; but the modules of the AML
use recursive operators, which the prover does not take; and a processor as its
reference defines it has no shorter argument than the evaluation of both.
Liveness under fairness and `ENABLED` are beyond the prover: `PointsShown`,
`CommandReturns` and `NothingStuck`. A property of a run that expects a violation
is not true, and so is not proved.

## Plan

The order in which the modules were written is the order of importance: memory
(`PmapRegions`, `KernelHeap`), closures, interrupts, disk and files, then the
network, strings, the small services, traps, AML, the processor, and USB. All of these
are done. What is left, in this order:

1. *Proofs.* `ProcessorKnown`, leaf by leaf; the names and terms of AML, once written without recursive operators.
2. *Finer models.* The lists of AML fields once the trap before them is
   gone; the truncation of boot arguments; removal of handlers once something calls it.
3. *What does not run yet.* The queue of tasks and the switch through the timer,
   as soon as a task is added to it; the event ring and transfers of USB, as soon
   as an event ring is set up: commands, completions after a timeout, and a ring
   that laps itself.

## Not modelled

* *NVMe*: the driver reads two registers and stops.
* *Tasks*: nothing is ever added to the queue (`K/kernel/kernel.swift:43-47` is
  commented out), so there is no interleaving of tasks to check; the command that
  starts the first one indexes an empty array.
* *Objects of the Objective-C runtime*: `objc_msgSend` is a stub, so `dealloc` is
  never reached, the side tables are commented out and classes are never
  realised; what is left has no state to relate. Closures and strings, the parts
  that run, are modelled.
* *Threads shim*: stubs and counters for one thread.
* *Legacy interrupt table*: its dispatcher is commented out of
  `InterruptHandler`.
* *Boot and other processors*: straight-line set-up; only processor 0 is started,
  and there is one address space.
* *ACPI tables* other than the MADT and the machine language: fields that are
  printed.
* *Other displays and guest tools, logging, Swift frameworks, build files*:
  register protocols of virtual hardware, formatting, value types, headers. That
  logging draws, and so opens and closes sections, is part of `Interrupts`.

Within the modelled components: the contents of what is drawn, the spurious
vector of the APIC and its timer, handlers that allocate on top of handlers, the
linker-segment bookkeeping of `i386_vm_init`, the page-table expansion of
`pmap.c`, the identification of a drive, FAT12 and FAT16, the RTL8111, entries
from user code (there is none), message-signalled interrupts, the USB event ring
and transfers. The notes of `PROJECT.json` say so for each component. Three
weaknesses of the code are not among the hazards because nothing in this
version meets them: the glyph the renderer paints is rendered before the section
begins (`K/i386/video/renderer.cpp:115`), the table of modules drops the entries
after its last (`M/ModulesController.cpp:57`, modelled in `PciBus`), and the
length of a freed block is read after it is poisoned (`Libc++/Libc++/OSRuntime.cpp:52`,
which `NoReuse` shows to be harmless).
