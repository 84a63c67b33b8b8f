\* One connection, which stays up, and one thing that the owner or a client does.
SPECIFICATION FairSpec
CONSTANTS
  Absent = Absent
  MaxConnects = 1
  MaxChunks = 0
  MaxThrows = 0
  MaxActs = 1
PROPERTY ReadyIsOffered
CHECK_DEADLOCK FALSE
