SPECIFICATION SliceSpec
CONSTANTS
  SIZE = 2
  ALIGN = 2
  BlockCount = 3
  Byte = {b1, b2}
  NoByte = NoByte
  Moves = {0, 1, 7}
  start_offset = 1
  size = 4
  Failing = {1}
  Overlap = FALSE
INVARIANTS CleanMeansStored SliceInStep
PROPERTIES Refines OutsideIsKept
SYMMETRY MCSymmetry
