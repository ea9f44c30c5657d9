SPECIFICATION Spec
CONSTANTS
  d1 = d1
  d2 = d2
  d3 = d3
  Word = 64
  Drvs = {d1, d2, d3}
  Hooks = {h1, h2}
  NoDrv = NoDrv
  Targets <- MCTargets
  Base <- MCBase
  MaxDecisions = 4
SYMMETRY HookSymmetry
INVARIANT TypeOK
PROPERTY StalenessBoundsRegret
CHECK_DEADLOCK FALSE
