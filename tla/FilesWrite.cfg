CONSTANTS
  s1 = s1
  s2 = s2
  s3 = s3
  none = none
  zero = zero
  old1 = old1
  old2 = old2
  old3 = old3
  old4 = old4
  picture = picture
  new1 = new1
  new2 = new2
  Sectors <- MCSectors
  Buffers <- MCBuffers
  Contents <- MCContents
  Zero = zero
  MaxSpin = 2
  Clusters <- MCClusters
  EndOfChain <- MCEnd
  RootCluster = 2
  Slots = {s1, s2, s3}
  NoEntry = none
  Names <- MCNames
  ShortNames = {"S"}
  Texts <- MCTexts
  Pictures = {picture}
  Images <- MCImages
  Paths <- MCPaths
  MaxJobs = 2
  MaxFaults = 1
  MaxChain = 3
SPECIFICATION Spec
INVARIANTS WriteTakesEffect
CHECK_DEADLOCK FALSE
