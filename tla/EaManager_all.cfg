CONSTANTS
  Thread = {t1, t2}
  Block = {b1, b2}
  Ea = {"ea"}
  Type = {"ascii", "binary"}
  Text = "ascii"
  AnyType = "any"
  Value = {1, 3}
  Buflen = {0, 1}
  Modes <- MCModes
SPECIFICATION Spec
INVARIANT AttributesAreRight
PROPERTY NothingLost
CHECK_DEADLOCK FALSE
