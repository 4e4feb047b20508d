SPECIFICATION Spec
CONSTANTS
  Clients = {c1, c2}
  Local = {c1}
  MAX_CLIENTS = 2
  Typed = {"QUIT", "CD", "LIST"}
  MaxCommands <- Commands
CHECK_DEADLOCK FALSE
INVARIANTS
  TypeOK
  InStep
  ServerOutlivesClients
PROPERTIES
  DiscoveryEnds
  CommandsEnd
