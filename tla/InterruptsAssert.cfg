SPECIFICATION Spec
CONSTANTS
  PciLines <- MCPciLines
  MaxLevel = 2
  MaxNest = 2
  MaxWork = 2
  MaxLeaks = 1
INVARIANT HandlerLeavesGateShut
