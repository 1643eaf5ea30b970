SPECIFICATION Spec
CONSTANTS
  Atom <- MCAtom
  Label <- MCLabel
  Window <- MCWindow
  NoWindow <- MCNoWindow
  NoLabel <- MCNoLabel
  LitBefore <- MCLitBefore
  LabelBefore <- MCLabelBefore
  Theories <- MCTheory
  Pools <- DenialPools
  MaxPairs = 0
INVARIANTS
  ExplicitProofSuffices
CHECK_DEADLOCK FALSE
