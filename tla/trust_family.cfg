SPECIFICATION Spec
CONSTANTS
  Atom <- MCAtom
  Label <- MCLabel
  Window <- MCWindow
  NoWindow <- MCNoWindow
  NoLabel <- MCNoLabel
  LitBefore <- MCLitBefore
  LabelBefore <- MCLabelBefore
  Theories <- MCTheory
  Pools <- TemporalPools
  MaxPairs = 2
  DefaultTrusted = TRUE
INVARIANTS
  WeakestLink
CHECK_DEADLOCK FALSE
