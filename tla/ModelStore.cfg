\* Two selected models, one that is not; one of them with three artifacts, the
\* last too large and of another name.  Three downloads and two catalogs per
\* start, one stop: failures, new artifacts and cut replacements are met again.
CONSTANTS
  a = a
  b = b
  c = c
  f = f
  g = g
  s = s
  t = t
  u = u
  Models = {a, b, c}
  Files = {f, g}
  Shas = {s, t, u}
  Absent = Absent
  Partial = Partial
  Catalogs <- TheCatalogs
  Selected = {a, b}
  Foreign <- ForeignEntries
  TooLarge = {u}
  MaxTasks = 3
  MaxResponses = 2
  MaxStops = 1
SPECIFICATION Spec
INVARIANTS TypeOK OneDownload NotRetried MarkerIsTrue ReadyIsTold
CHECK_DEADLOCK FALSE
