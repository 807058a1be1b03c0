CONSTANTS
  Pages = {p1, p2, p3, p4, p5}
  NoPage = NoPage
  RefLimit = 3
  Envs = {e1, e2}
  NoEnv = NoEnv
  Root = e1
  Dirs = {d1, d2}
  VAs = {v1, v2}
  v1 = v1
  v2 = v2
  d1 = d1
  d2 = d2
  PDX <- TwoTables
  Zero = v1
  NoVA = NoVA
  CPUs = {c1, c2}
  c1 = c1
  c2 = c2
SPECIFICATION MCSpec
SYMMETRY Symmetry
INVARIANTS RefExact FreeExact TablesPrivate TlbCoherent
PROPERTY ReadOnlyStays
CHECK_DEADLOCK FALSE
