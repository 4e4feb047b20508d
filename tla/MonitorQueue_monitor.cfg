CONSTANTS
  MSG_MAX = 3
  Slack = 1
  Msgs = {m1, m2}
  NoMsg = NoMsg
  Threads = {t1, t2}
  Main = Main
  Nobody = Nobody
  Destroyed = Destroyed
  CHILD_MAX = 3
  MaxAdds = 4
SPECIFICATION Spec
INVARIANTS
  TypeOK
  MutualExclusion
  NoLostWakeup
PROPERTIES
  ImplementsFifo
  JoinReturnsUnlessLost
CHECK_DEADLOCK FALSE
