SPECIFICATION Spec
CONSTANTS
  blocks = 4
  block_words = 2
  frame_words = 2
  MaxLost = 1
  MaxMoved = 12
  Amounts = {1, 2, 5}
  Leads = {1}
  Hold = 1
INVARIANTS
  TypeOK
  AbsoluteIsExact
  WordsAreInTheirPlace
PROPERTIES
  ErrorsAreTrue
  WaiterIsWoken
