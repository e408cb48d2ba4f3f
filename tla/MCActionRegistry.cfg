SPECIFICATION Spec
CONSTANTS
  q1 = q1  q2 = q2  r1 = r1  r2 = r2  e1 = e1  e2 = e2
  Requests = {q1, q2}
  Resources = {r1, r2}
  Entries = {e1, e2}
  NoEntry = NoEntry
  NoResource = NoResource
  Definitions <- OneOfEach
  AuditLimit = 1
  JobLimit = 1
  MaxID = 2
  MaxStops = 2
  StoreFaults = TRUE
SYMMETRY Symmetry
INVARIANTS RegistryInv IntentPrecedesMutation HistoriesAreTruthful
PROPERTY AuditDiscipline
