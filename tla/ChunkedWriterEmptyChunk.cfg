CONSTANTS
  Buffers = {a}
  Empty = empty
  Final = final
  MaxWrites = 2
SPECIFICATION Spec
INVARIANT AcceptedReachBody
