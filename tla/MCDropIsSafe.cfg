SPECIFICATION MCSpec
CONSTANTS
  p1 = p1
  p2 = p2
  Procs = {p1, p2}
  Tool = tool
  Unknown = unknown
  Columns <- MCColumns
  Starts <- ToollessStarts
  s1 = s1
  s2 = s2
  t1 = t1
  t2 = t2
  NoTenant = none
  Servers = {s1, s2}
  Tenants = {t1, t2}
  DefaultTenant <- MCDefault
  Times = {1}
  Values = {1}
  Migrations = 3
  Tables <- MCTables
  MaxVersion = 2
  Worlds <- MCWorlds
  Ids = {i1, i2, i3}
  Models = {m1}
  Agents = {a1, a2}
  Every = every
  NoModel = no_model
  PageSize = 1
  EventLimit = 1
  PerDay = 2
  MaxTime = 3
  MaxRows = 2
SYMMETRY Symmetry
INVARIANT DropIsSafe
