SPECIFICATION DeliverySpec
CONSTANTS
  k1 = k1  k2 = k2
  Items = {k1, k2}
  CurrencyOf <- MCCurrencyOf
  Editors = {e1}
  Readers = {r1}
  MaxEdits = 3
  NoItem = NoItem
  Requests = {q1}
  Sessions = {s1, s2}
  LoginLimit = 2
  MaxOperations = 2
  NoSession = NoSession  NoRole = NoRole
  Finishers = {f1, f2}
  Recipients = {n1, n2}
  ProgressEvery = 2
  MaxCrashes = 1
INVARIANTS
  DeliveryTypeOK
  NoSessionForTheBarred
PROPERTIES
  ShelfCatchesUp
  PermissionsCatchUp
  PayerIsTold
  BroadcastReachesEveryone
CHECK_DEADLOCK FALSE
