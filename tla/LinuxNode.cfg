\* One model to fetch of three, two connections, and a turn of the schedule, an
\* idle tick or a re-poll.
CONSTANTS
  a = a  b = b  c = c  nvidia = nvidia  amd = amd  llama = llama  vllm = vllm
  Allowed <- TheCatalog
  Vendor = amd
  LlamaCpp = llama
  Absent = Absent
  Due = Due
  Loop = Loop
  Selected = {a}
  MaxConnects = 2
  MaxTimes = 1
SPECIFICATION FairSpec
INVARIANTS TypeOK StatusIsOwed
PROPERTIES Converges AnswerSurvives
CHECK_DEADLOCK FALSE
