SPECIFICATION FairSpec
CONSTANTS
  PciLines <- MCPciLines
  MaxLevel = 2
  MaxNest = 2
  MaxWork = 2
  MaxLeaks = 1
INVARIANTS SectionsUninterrupted NotReentered OpenOutsideSections
PROPERTY PointsShown
