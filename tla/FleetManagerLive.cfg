SPECIFICATION FairSpec
CONSTANTS
  n1 = n1  n2 = n2  c1 = c1  c2 = c2  r1 = r1  r2 = r2  m1 = m1
  Absent = Absent
  None = None
  Nodes = {n1}
  Conns = {c1, c2}
  Requests = {r1}
  Models = {m1}
  StatusKinds = {"Register", "Heartbeat", "ModelStatus"}
  AwakeReports <- AllAwake
  ReadyReports <- OnlyAll
  MaxUp = 1
  MaxChunks = 0
  MaxCuts = 1
CHECK_DEADLOCK FALSE
PROPERTIES
  BufferedIsAnswered
  LostTunnelIsUnregistered
  LostTunnelEnds
