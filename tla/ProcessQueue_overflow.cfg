CONSTANTS
  MSG_MAX = 3
  Msgs = {m1, m2}
  NoMsg = NoMsg
  Torn = Torn
  Pids = {c1, c2, c3}
  Parent = Parent
  CHILD_MAX = 3
  MaxAdds = 2
  MaxBoots = 2
SPECIFICATION Spec
INVARIANTS
  NoOverflow
CHECK_DEADLOCK FALSE
SYMMETRY Symmetry
