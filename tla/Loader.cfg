SPECIFICATION Spec
CONSTANTS
  a = a
  b = b
  page = page
  worker = worker
  Loads = {a, b}
  Scopes = {page, worker}
  Layouts <- MCLayouts
  Caching = {a, b}
  Releases = {r1, r2}
  Buckets = {1, 2, 3, 4}
  Absent = Absent
  NoBucket = NoBucket
  Broken = Broken
  MaxUpsets = 1
  ScriptCount = 1
INVARIANTS
    VerifiedRuns
    CacheIsSound
    LoadsNeverWedge
    MismatchIsFinal
CHECK_DEADLOCK FALSE
