CONSTANTS
  Buffers = {a, b}
  Empty = empty
  Final = final
  MaxWrites = 3
SPECIFICATION FairSpec
INVARIANT WriterSound
PROPERTIES QuietAfterResume ResponseEnds ImplementsStream
