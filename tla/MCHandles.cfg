\* Two buffers, so that the view can go on while messages hold what it read;
\* three Pointers, so that one value is reached in several ways.
CONSTANTS
  Buffers = {b1, b2}
  Vectors = {v1, v2}
  Messages = {m1, m2}
  Pointers = {p1, p2, p3}
  None = None
SPECIFICATION Spec
INVARIANTS
  TypeOK
  CountsExact
  LiveIffReachable
  MessageKeepsItsBytes
SYMMETRY Symmetry
CHECK_DEADLOCK FALSE
