SPECIFICATION PrepareSpec
CONSTANTS
  x = x
  y = y
  z = z
  s = s
  e = e
  u = u
  v = v
  w1 = w1
  w2 = w2
  w3 = w3
  w4 = w4
  w5 = w5
  w6 = w6
  w7 = w7
  w8 = w8
  n8f = n8f
  NoTime = NoTime
  Term <- MCTerm
  TermVar <- MCTermVar
  TimeVar <- MCTimeVar
  Value <- MCValue
  Label <- MCLabel
  LabelBefore <- MCLabelBefore
  InstanceLabel <- MCInstanceLabel
  MaxCount = 8
  Wildcard = "_"
  FreshVar <- MCFreshVar
  Theories <- MCTheories
  Options <- MCOptions
  Bases <- MCBases
  Chosen <- SingleAndPairs
  Limited <- ManyLimits
INVARIANTS
  TemplatesRanked
CHECK_DEADLOCK FALSE
