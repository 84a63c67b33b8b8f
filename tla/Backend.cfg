\* Artifacts of 1 or 3 MB and a limit of 2: two small ones fit, a third evicts
\* one of them, and a large one never fits.
CONSTANTS
  a = a
  b = b
  c = c
  p = p
  q = q
  s = s
  t = t
  Models <- TheModels
  Requests <- TheRequests
  Prompts <- ThePrompts
  Absent = Absent
  Sizes = {1, 3}
  Limit = 2
  MaxTokens = 1
  MaxDownloads = 3
SPECIFICATION FairSpec
INVARIANTS TypeOK WithinBudget OrderIsLoaded
PROPERTIES ServiceSpec EvictsLeastRecent DispatchIsAnswered
CHECK_DEADLOCK FALSE
