SPECIFICATION BusOnly
CONSTANTS
  drop1 = drop1
  drop2 = drop2
  Sources = {drop1, drop2}
  Names = {1, 2, 3}
  Home <- MCHome
  Contents = {"good", "legacy", "orphan", "broken"}
  Workers = 2
  Absent = Absent
  Most <- MCFaulty
  SourceIds = {a}
  Credentialed = {a}
  Renders = {r1}
  Subscribers = {c1}
  Capacity = 1
  Window = 2
  MaxClock = 2
  MaxEvents = 4
  MaxTraces = 1
  Junk = Junk
  MaxRedirects = 4
  MaxBytes = 3
  Orders <- MCOrders
  Pages <- MCPages
  Chunks = {1, 2}
  None = None
  MaxTileMatrix = 2
  WordMax = 8
  ByteMax = 5
  SamplesPerEdge = 2
  ModuleMax = 8388608
  GraphBodyLimit = 16777216
  MaxUploadBytes = 536870912
  PreviewMaxZoom = 2
  TileSizes = {256, 512}
  PreviewTileSize = 256
  PreviewCeiling = 8388608
  U64Max = 2147483646
  MaxZoom = 3
  Half = 4
  NotAnObject = NotAnObject
  NaN = NaN
  LayoutVersion = 1
  Chunk = 2
  MinDim = 1
INVARIANTS IdsMonotonic
\* The bounds end what happens.
CHECK_DEADLOCK FALSE
