SPECIFICATION PartSpec
CONSTANTS
  v1 = v1
  v2 = v2
  r1 = r1
  Versions = {v1}
  First = v1
  Grid <- MCStrip
  Embedded <- MCNothingEmbedded
  Chunk = 1
  Specs <- MCAverage
  Runs = {r1}
  Readers = {}
  Absent = Absent
  SingleWriter = FALSE
  MaxStops = 0
  MaxSwaps = 0
  mean = mean
  loop = loop
  trap = trap
  old = old
  wide = wide
  c1 = c1
  c2 = c2
  Modules = {mean, loop, wide, trap, old}
  Guest <- MCGuest
  Callers = {c1, c2}
  Arities = {1}
  Budgets = {2, Endless}
  RegistrationFuel = 2
  Capacity = 2
  PoolSlots = 1
  DeadlineTicks = 1
  CapPages = 1
  Endless = Endless
INVARIANTS RegisteredRuns
