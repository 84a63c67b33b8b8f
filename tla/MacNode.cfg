\* Two connections, of which the first may be refused or die; a send that is
\* read and throws; an answer of one chunk and Done or an Error, or a turn of the
\* schedule, or a saved configuration, or an artifact that is refused.
SPECIFICATION FairSpec
CONSTANTS
  Absent = Absent
  MaxConnects = 2
  MaxChunks = 1
  MaxThrows = 1
  MaxActs = 1
INVARIANTS TypeOK AnswerKept
PROPERTIES Converges AnswerArrives
CHECK_DEADLOCK FALSE
