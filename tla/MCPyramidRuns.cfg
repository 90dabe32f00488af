SPECIFICATION PartSpec
CONSTANTS
  v1 = v1
  v2 = v2
  r1 = r1
  Versions = {v1, v2}
  First = v1
  Grid <- MCShrinks
  Embedded <- MCFirstEmbedsTwo
  Chunk = 1
  Specs <- MCSpecs
  Runs = {r1, r2}
  Readers = {d1}
  Absent = Absent
  SingleWriter = FALSE
  MaxStops = 2
  MaxSwaps = 1
  mean = mean
  loop = loop
  trap = trap
  old = old
  wide = wide
  c1 = c1
  c2 = c2
  Modules = {mean, loop, wide, trap, old}
  Guest <- MCGuest
  Callers = {c1, c2}
  Arities = {1}
  Budgets = {2, Endless}
  RegistrationFuel = 2
  Capacity = 2
  PoolSlots = 1
  DeadlineTicks = 1
  CapPages = 1
  Endless = Endless
INVARIANTS TypeInv CompletedIsWhole OverlappingAsFresh LadderWhenAlone
  ModulesServeAlike
PROPERTIES RunsEnd CallsEnd
