SPECIFICATION Spec
CONSTANTS
  Streams = {c1, c2}
  Size = 3
  FrameSize = 2
  Lengths = {1, 2, 4}
  Period = 2
  Short = {1}
SYMMETRY CallSymmetry
INVARIANT PositionsAgree
PROPERTY Mixed
