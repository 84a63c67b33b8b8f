SPECIFICATION Spec
CONSTANTS
  n1 = n1  n2 = n2  t1 = t1  t2 = t2  r1 = r1
  Absent = Absent
  Nodes = {n1}
  Tunnels = {t1, t2}
  Requests = {r1}
  Rates = {1}
  DeliveryPoints = 1
  AwakeAt = {1, 2}
  MaxTime = 2
  MaxRegisters = 1
  MaxCrashes = 1
SYMMETRY MCSymmetry
CHECK_DEADLOCK FALSE
INVARIANTS
  TypeOK
  BalanceIsLedgerSum
  EarnedWithinConnection
PROPERTY ClosedRowsAreFinal
