SPECIFICATION MCSpec
CONSTANTS
  cfg = cfg
  api = api
  udf = udf
  rgb = rgb
  g1 = g1
  g2 = g2
  Datasets = {cfg, api}
  ConfigDatasets = {cfg}
  Services = {udf, rgb}
  UdfServices = {udf}
  Granules = {g1, g2}
  GranuleDataset <- MCGranuleDataset
  ServiceDataset <- MCServiceDataset
  Instants = {1, 2}
  Modules = {m1}
  Bodies = {b1, b2}
  ConfigBody = b1
  Sources = {a}
  Handlers = {h1, h2}
  Serial = FALSE
  MaxCrashes = 1
  MaxAborts = 1
  MaxOutages = 1
  Plain = Plain
  Unpublished = Unpublished
  Absent = Absent
  Open = Open
  None = None
SYMMETRY Symmetry
INVARIANTS TypeInv ModuleResolvable IntervalWitnessed ConfigDriftHealed
  ServicesWhenAlone IntervalWhenAlone
PROPERTIES ImplementsLedger BootServesListed
