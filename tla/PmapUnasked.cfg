CONSTANTS
  Pages = {p1, p2, p3, p4, p5}
  NoPage = NoPage
  RefLimit = 12
  Envs = {e1, e2}
  NoEnv = NoEnv
  Root = e1
  Dirs = {d1}
  VAs = {v1, v2}
  v1 = v1
  v2 = v2
  d1 = d1
  d2 = d2
  PDX <- OneTable
  Zero = v1
  NoVA = NoVA
  CPUs = {c1}
  c1 = c1
  c2 = c2
SPECIFICATION MCLibSpec
SYMMETRY Symmetry
PROPERTY NoUnaskedPage
CHECK_DEADLOCK FALSE
