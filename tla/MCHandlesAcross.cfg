\* Assignments between values of different types.
CONSTANTS
  Buffers = {b1}
  Vectors = {v1}
  Messages = {m1}
  Pointers = {p1, p2, p3}
  None = None
SPECIFICATION Spec
INVARIANT BufferOutlivesPointer
CHECK_DEADLOCK FALSE
