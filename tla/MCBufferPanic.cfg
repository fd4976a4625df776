\* A Write at an offset beyond the capacity of h.data.
SPECIFICATION BufferSpec
CONSTANTS
  Readers = {r1}
  Byte = {0, 1}
  Zero = 0
  MaxCap = 3
INVARIANTS
  NeverPanics
CHECK_DEADLOCK FALSE
