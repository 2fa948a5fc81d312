SPECIFICATION Spec
CONSTANTS
  Block = 3
  Mesh = 6
  AD = 4
  Tag = 2
  Lengths = {0, 1, 2, 3, 4, 7}
  MaxFed = 48
INVARIANTS MacByPosition TagByPosition KeystreamByPosition
CHECK_DEADLOCK FALSE
