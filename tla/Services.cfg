\* Each of the small services by itself.
CONSTANTS
  MaxEvents = 4
  RegisterAt <- ChipByte
  Clocks <- MCClocks
  MaxTicks = 3
  Trees <- MCTrees
  Names <- MCNames
  MaxCalls = 6
  Lengths <- MCLengths
  LineLength = 32
  MaxHandlers = 2
  IntSpan = 8
  LongSpan = 32
  Widths <- MCWidths
  MaxArgs = 2
  Commands <- MCCommands
  Vectors = {80}
  Traps = {0, 2, 13, 15}
  Locals = {0, 3}
  Top = 128
  MaxActs = 3
  MaxSteps = 5
  Span = 256
  Ports = 64
  PageSize = 16
  MAX_LOADED_MODULES = 3
  Regions <- MCRegions
  Buses <- MCBuses
  Madts <- MCMadts
  Irqs <- MCIrqs
  Disks <- MCDisks
  Strings <- MCStrings
  StringWidths = {0, 2, 5}
  Precisions = {0, 1, 9}
  NumberTexts <- MCNumberTexts
  Bases = {0, 2, 8, 10, 16, 36}
  ValueTexts <- MCValueTexts
  BootLines <- MCBootLines
  ArgNames <- MCArgNames
  ShellLines <- MCShellLines
  AmlBits = 12
  ElementBits = 4
  UsbPolls = 2
  XhciPorts <- MCXhciPorts
  MaxPlugs = 2
  EhciPolls = 2
  EhciPorts = 2
  EhciPlugs = 1
SPECIFICATION ServicesSpec
INVARIANTS TypedIsMeant ReadingWhole TimeTold IteratorInPlace CopyWhole NumbersRight WordsRight DevicesFound ProcessorKnown HostsRight FramesKept
PROPERTIES AmlRight ResumedAsInterrupted
CHECK_DEADLOCK FALSE
