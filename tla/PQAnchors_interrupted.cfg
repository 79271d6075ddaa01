CONSTANTS
  a1 = a1
  a2 = a2
  a3 = a3
  b1 = b1
  b2 = b2
  c2 = c2
  c3 = c3
  d1 = d1
  d2 = d2
  d3 = d3
  e1 = e1
  e2 = e2
  e3 = e3
  e4 = e4
  f4 = f4
  f5 = f5
  s1 = s1
  s2 = s2
  s3 = s3
  s4 = s4
  Root = Root
  None = None
  Broken = Broken
  Blocks <- MCBlocks
  Parent <- MCParent
  Carries <- MCCarries
  Empty <- MCEmpty
  Networks <- MCForkNetworks
SPECIFICATION Spec
PROPERTY CheckpointRetained
