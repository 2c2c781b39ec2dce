CONSTANTS
  Types = {ping, state}
  Waits = {w1, w2}
  HighWater = 2
  MaxMessages = 5
  Absent = Absent
  Descriptions <- SomeDescriptions
  ServiceList <- SomeServices
  Infos <- SomeInfos
  MaxListed = 2
  MaxServices = 1
  MaxSessions = 2
SPECIFICATION MCSpec
SYMMETRY Symmetry
CHECK_DEADLOCK FALSE
INVARIANTS
  MCTypeOK
  NoWaiterIsOverlooked
  LossReachesOwner
  EntitiesAreConsistent
  RequestsFitTheService
PROPERTY OnceAndInOrder
