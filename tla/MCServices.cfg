CONSTANTS
  t1 = t1  t2 = t2
  site1 = site1  site2 = site2
  Task = {t1, t2}
  Site = {site1, site2}
  StaticSite = {site1}
  Offset = 0
  MaxTarget = 2
  Object = {"o1", "o2", "o3"}
  Size <- MCSize
  Align <- MCAlign
  Thread = {"main", "thread"}
  main_thread = "main"
  MinDtv = 2
  MinAlign = 8
  Surplus = 2
  ThreadSize = 4
  MaxModules = 3
  MaxBlocks = 4
  Pid = {"p", "q"}
  root = "p"
  Data = {"d"}
  MaxVersion = 2
  MaxValue = 1
  MaxFile = 4
  Func = {"f"}
  Var = {"x"}
  External = {"f"}
  MaxFileVersion = 3
  MaxExternal = 2
  Openable = {"a", "b"}
  Caller = {"t"}
  SymbolName = {"f", "g", "x"}
  Callable = {"f", "g"}
  Def <- MCDef
  rpath <- MCRpath
  runpath <- MCRunpath
  search_paths <- MCSearchPaths
  Length <- MCLength
  SerinfoSize = 16
  SerpathSize = 16
  entries_per_block = 2
  MaxSymbols = 6
  Target = {"log", "tty", "errlog", "inlog", "command"}
  Prefixed = {"log", "errlog", "inlog"}
  stream_of <- MCStreamOf
  chunk_size = 2
  PipeSize = 3
  MaxOutput = 4
  MaxInput = 1
SPECIFICATION MCSpec
INVARIANTS
  NoTornCode
  CodeMatchesEntries
  BlocksSound
  SeesOwnData
  DescriptorsMatch
  InitOrder
  
  NoOverlap
  LookupCorrect
  PointersLead
  SerinfoSound
  
  VariablesKept
  OutputComplete
  StartupCorrect
PROPERTIES
  AddressesStable
  HandlerReturns
CHECK_DEADLOCK FALSE
