CONSTANTS
  Procs = {p1, p2}
  Records = {Zero, r1}
  Zero = Zero
  Nobody = Nobody
  NUM_RECORDS = 2
  LAST = 2
SPECIFICATION Spec
PROPERTIES
  NoLostUpdate
