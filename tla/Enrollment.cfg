\* Two runs on one or two machines, and two tokens for either node, each living for
\* one second; the clock passes the end of the second in which the first may expire.
SPECIFICATION Spec
CONSTANTS
  n1 = n1  n2 = n2  m1 = m1  m2 = m2
  Nodes = {n1, n2}
  Machines = {m1, m2}
  NodeOf <- SameNode
  Tokens = {k1, k2}
  Runs = {r1, r2}
  Absent = Absent  Cut = Cut
  TtlAsked = {2}
  MinTtl = 1  MaxTtl = 1  DefaultTtl = 1
  MaxTime = 4
SYMMETRY MCSymmetry
CHECK_DEADLOCK FALSE
INVARIANTS
  TypeOK
  OneCertificatePerToken
  WithdrawnYieldsNothing
  ConsumedInTime
  PemMatches
PROPERTY UseIsFinal
