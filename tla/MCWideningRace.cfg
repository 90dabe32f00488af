SPECIFICATION MCSpec
CONSTANTS
  cfg = cfg
  api = api
  udf = udf
  rgb = rgb
  g1 = g1
  g2 = g2
  Datasets = {cfg}
  ConfigDatasets = {cfg}
  Services = {udf}
  UdfServices = {udf}
  Granules = {g1, g2}
  GranuleDataset <- MCAllOnConfig
  ServiceDataset <- MCServiceDataset
  Instants = {1, 2, 3}
  Modules = {m1}
  Bodies = {b1}
  ConfigBody = b1
  Sources = {a, b}
  Handlers = {}
  Serial = FALSE
  MaxCrashes = 0
  MaxAborts = 0
  MaxOutages = 0
  Plain = Plain
  Unpublished = Unpublished
  Absent = Absent
  Open = Open
  None = None
PROPERTIES WideningMonotone
