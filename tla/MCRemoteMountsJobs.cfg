SPECIFICATION Spec
CONSTANTS
  d1 = d1
  d2 = d2
  t1 = t1
  Definitions = {d1, d2}
  Targets = {t1}
  Target <- SameTarget
  WithCredentials = {d1}
  Workers = {w1, w2}
  Nobody = nobody
  Foreign = foreign
  Meanwhile = meanwhile
  Alike = alike
  MaxFaults = 2
PROPERTY UnitsOutliveJobs
