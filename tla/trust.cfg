SPECIFICATION Spec
CONSTANTS
  Atom <- MCAtom
  Label <- MCLabel
  Window <- MCWindow
  NoWindow <- MCNoWindow
  NoLabel <- MCNoLabel
  LitBefore <- MCLitBefore
  LabelBefore <- MCLabelBefore
  Theories <- MCTheory
  Pools <- TracedPools
  MaxPairs = 2
  DefaultTrusted = TRUE
INVARIANTS
  NeverCut
  WeakestLink
  ChallengesMet
CHECK_DEADLOCK FALSE
