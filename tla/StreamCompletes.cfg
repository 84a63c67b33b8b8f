SPECIFICATION FairSpec
CONSTANTS
  n1 = n1  n2 = n2  c1 = c1  c2 = c2  r1 = r1  r2 = r2  m1 = m1
  Absent = Absent
  None = None
  Nodes = {n1}
  Conns = {c1}
  Requests = {r1}
  Models = {m1}
  StatusKinds = {"Register", "Heartbeat", "ModelStatus"}
  AwakeReports <- AllAwake
  ReadyReports <- AllReady
  MaxUp = 1
  MaxChunks = 1
  MaxCuts = 0
CHECK_DEADLOCK FALSE
PROPERTY AnsweredStreamCompletes
