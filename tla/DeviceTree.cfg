\* What DTGetProperty() gives for the property it was asked for.
CONSTANTS
  AmlBits = 12
  ElementBits = 4
  MaxEvents = 0
  RegisterAt <- ChipByte
  Clocks <- MCClocks
  MaxTicks = 0
  Trees <- MCTrees
  Names <- MCNames
  MaxCalls = 0
  Lengths <- MCLengths
  LineLength = 32
  MaxHandlers = 2
  IntSpan = 2
  LongSpan = 2
  Widths <- MCWidths
  MaxArgs = 2
  Commands <- MCCommands
  Vectors = {}
  Traps = {}
  Locals = {}
  Top = 128
  MaxActs = 0
  MaxSteps = 0
  Span = 256
  Ports = 64
  PageSize = 16
  MAX_LOADED_MODULES = 3
  Regions <- MCRegions
  Buses <- MCBuses
  Madts <- MCMadts
  Irqs <- MCIrqs
  Disks <- MCDisks
  Strings <- MCStrings
  StringWidths = {0, 2, 5}
  Precisions = {0, 1, 9}
  NumberTexts <- MCNumberTexts
  Bases = {0, 2, 8, 10, 16, 36}
  ValueTexts <- MCValueTexts
  BootLines <- MCBootLines
  ArgNames <- MCArgNames
  ShellLines <- MCShellLines
  UsbPolls = 1
  XhciPorts <- MCXhciPorts
  MaxPlugs = 0
  EhciPolls = 1
  EhciPorts = 1
  EhciPlugs = 0
SPECIFICATION ServicesSpec
INVARIANT GivesTheNamed
CHECK_DEADLOCK FALSE
