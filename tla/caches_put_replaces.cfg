SPECIFICATION MCSpec
CONSTANTS
  r1 = r1
  r2 = r2
  w1 = w1
  w2 = w2
  index = index
  page = page
  absent = absent
  s1 = s1
  s2 = s2
  union = union
  join = join
  Node = {s1, s2, union, join}
  Children <- MCChildren
  MaxUpdates = 2
  Url = {index, page}
  Entry = {index}
  PageOf <- MCPageOf
  Reader = {r1, r2}
  Writer = {w1, w2}
  Cohorts <- MCWriters
  CacheSize = 1
  MaxInvalidations = 1
  Absent = absent
PROPERTY PutOnlyCreates
CHECK_DEADLOCK FALSE
