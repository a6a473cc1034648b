SPECIFICATION FairSpec
CONSTANTS
  app = app lib = lib
  a0 = a0 a1 = a1 a2 = a2 l1 = l1 l2 = l2 l3 = l3
  call = call ref = ref extra = extra self = self
  t1 = t1 t2 = t2
  Helper = Helper NoOne = NoOne
  File <- MCFile
  Thread <- MCThread
  Site <- MCSite
  Build <- MCBuild
  Src <- MCSrc
  Dst <- MCDst
  Shared <- MCShared
  Lazy <- MCLazy
  Looked <- MCLooked
  Of <- MCOf
  Needs <- MCNeeds
  Provides <- MCProvides
  Serialize <- MCSerialize
  Deserialize <- MCDeserialize
  Point <- MCPoint
  Uses <- MCUses
  Compatible <- MCCompatible
  Initial <- MCInitial
  SkipIdentical = TRUE
  MaxVersion = 2
  UpdateOutdated = FALSE
  DlUpdate = FALSE
  Detect = FALSE
PROPERTIES
  LoadedIsApplied
  UpdatePointReturns
