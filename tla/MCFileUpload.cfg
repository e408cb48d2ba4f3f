SPECIFICATION FairSpec
CONSTANTS
  u1 = u1
  u2 = u2
  Uploads = {u1, u2}
  Destination = name
  NoOwner = none
  Bodies <- BothGoodOrBothBad
  Limit = 1
  MaxLosses = 1
INVARIANTS UploadInv NeverPartial
PROPERTIES NoOverwrite BrokerLetsGo
