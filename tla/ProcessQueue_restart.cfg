CONSTANTS
  MSG_MAX = 2
  Msgs = {m1}
  NoMsg = NoMsg
  Torn = Torn
  Pids = {c1, c2, c3}
  Parent = Parent
  CHILD_MAX = 3
  MaxAdds = 1
  MaxBoots = 2
SPECIFICATION Spec
INVARIANTS
  TypeOK
  MutualExclusion
  SlotAccounting
  ItemAccounting
  ExitLeavesNoChild
PROPERTIES
  ParentReturns
  ExitFreezesQueue
CHECK_DEADLOCK FALSE
