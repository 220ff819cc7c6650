SPECIFICATION Spec
CONSTANTS
  Clients = {c1, c2}
  Kinds = {"shell", "docker", "kubernetes"}
  NoConn = NoConn
PROPERTY TerminalLetsGo
CHECK_DEADLOCK FALSE
