CONSTANTS
  Memories = {m1, m2, m3}
  Planes = {p1, p2}
  None = none
SPECIFICATION ShmSpec
SYMMETRY Interchangeable
PROPERTY SharesReadOnly
