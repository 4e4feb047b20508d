CONSTANTS
  MSG_MAX = 3
  Slack = 1
  Msgs = {m1}
  NoMsg = NoMsg
  Threads = {t1, t2}
  Main = Main
  Nobody = Nobody
  Destroyed = Destroyed
  CHILD_MAX = 3
  MaxAdds = 2
SPECIFICATION Spec
PROPERTIES
  RemovedProducerEnds
CHECK_DEADLOCK FALSE
