SPECIFICATION PartSpec
CONSTANTS
  None = None
  Plannings <- MCPlannings
  U64Max = 100000
  BoundarySamplesPerEdge = 3
  Junk = Junk
  DotDot = DotDot
  TicksPerHour = 2
  DefaultLimit = 3
  MaxLimit = 4
  MaxBuckets = 12
  MaxFacetValues = 2
  PageLimit = 2
  Timestamps = {"t1", "t2"}
  Shown = {"ndvi", "true"}
  AssetKinds = {"raster", "virtual_cube"}
  Scrambled = Scrambled
  SideMax = 50
  SizeMax = 100
  PageSize = 32
  PageCap = 3
  HeapBase = 20
  r1 = r1
  r2 = r2
  plainLayer = plainLayer
  pair = pair
  ndvi = ndvi
  diff = diff
  nearest = nearest
  bilinear = bilinear
  allBands = allBands
  partial = partial
  here = here
  Granules = {1, 2}
  Services = {}
  Definitions <- MCEdited
  Pieces <- MCPieces
  Instants = {1, 3}
  Revisions <- MCRevisions
  Lacking = {partial}
  Coords = {here}
  Factors = {2}
  Open = Open
  Most = 1
  Requests = {r1, r2}
  Layers = {plainLayer}
  Specs = {ndvi}
  Kernels = {nearest, bilinear}
  Asked <- MCWindows
  Absent = Absent
  Garbage = Garbage
INVARIANTS TileShowsItsFrame
\* An answer is the end of a question.
CHECK_DEADLOCK FALSE
