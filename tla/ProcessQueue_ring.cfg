CONSTANTS
  MSG_MAX = 3
  Msgs = {m1, m2}
  NoMsg = NoMsg
  Torn = Torn
  Pids = {c1, c2, c3}
  Parent = Parent
  CHILD_MAX = 3
  MaxAdds = 3
  MaxBoots = 1
SPECIFICATION Spec
INVARIANTS
  DeliversOldest
  RingConsistent
  NoUnderflow
PROPERTIES
  ImplementsFifo
CHECK_DEADLOCK FALSE
SYMMETRY Symmetry
