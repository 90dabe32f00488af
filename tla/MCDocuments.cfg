SPECIFICATION AskSpec
CONSTANTS
  None = None
  Junk = Junk
  DotDot = DotDot
  NotAnObject = NotAnObject
  NaN = NaN
  Scrambled = Scrambled
  U64Max = 2147483646
  MaxTileMatrix = 2
  WordMax = 8
  ByteMax = 5
  SamplesPerEdge = 2
  ModuleMax = 8388608
  GraphBodyLimit = 16777216
  MaxUploadBytes = 536870912
  PreviewMaxZoom = 2
  TileSizes = {256, 512}
  PreviewTileSize = 256
  PreviewCeiling = 8388608
  MaxZoom = 3
  Half = 4
  TicksPerHour = 2
  DefaultLimit = 3
  MaxLimit = 4
  MaxBuckets = 12
  MaxFacetValues = 2
  PageLimit = 2
  Timestamps = {"t1", "t2"}
  LayerNames = {"ndvi", "true"}
  AssetKinds = {"raster", "virtual_cube"}
INVARIANT AsDocumented
