SPECIFICATION Spec
CONSTANTS
  a = a
  b = b
  Client <- MCClient
  Writer <- MCWriter
  MaxConn <- MCConn
  MaxEdit = 1
  Scripts <- MCScripts
INVARIANTS OneLink
PROPERTIES SessionsAgree EditsArrive
CHECK_DEADLOCK FALSE
