SPECIFICATION Spec
CONSTANTS
  Calls = {q1, q2, q3}
  Old = {o1, o2, o3, o4, project}
  Paths = {p1}
  Keys = {k1, k2, k3, k4}
  Contents = {c1, c2}
  NoRow = NoRow
  Depth = 2
  Limit = 2
  p1 = p1
  k1 = k1
  k2 = k2
  k3 = k3
  k4 = k4
  c1 = c1
  o1 = o1
  o2 = o2
  o3 = o3
  o4 = o4
  project = project
  Databases <- MCDatabases
SYMMETRY CallSymmetry
INVARIANTS
  TypeOK
  WatchingIsWatched
  OneEntityPerName
  NeighborsAreFound
CHECK_DEADLOCK FALSE
