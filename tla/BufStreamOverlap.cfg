SPECIFICATION Spec
CONSTANTS
  SIZE = 2
  ALIGN = 2
  BlockCount = 2
  Byte = {b1, b2}
  NoByte = NoByte
  Moves = {0, 1, 7}
  Failing = {}
  Overlap = TRUE
PROPERTY StreamSteps
