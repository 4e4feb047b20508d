CONSTANTS
  MSG_MAX = 3
  Msgs = {m1, m2}
  NoMsg = NoMsg
  Torn = Torn
  Threads = {t1, t2}
  Main = Main
  Nobody = Nobody
  Destroyed = Destroyed
  CHILD_MAX = 3
  MaxAdds = 3
  MaxBoots = 2
SPECIFICATION Spec
INVARIANTS
  TypeOK
  MutualExclusion
  CancelLeaksNothing
PROPERTIES
  ImplementsFifo
  JoinReturns
CHECK_DEADLOCK FALSE
