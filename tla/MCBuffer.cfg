\* A short file: writes inside it, over its end, beyond its capacity, after truncations and with gaps, while a reply is on its way.
SPECIFICATION BufferSpec
CONSTANTS
  Readers = {r1}
  Byte = {0, 1}
  Zero = 0
  MaxCap = 3
INVARIANTS
  BufferTypeOK
  RepliesWereInFile
PROPERTIES
  ContentIsOfAFile
\* A panic ends the program.
CHECK_DEADLOCK FALSE
