SPECIFICATION Spec
CONSTANTS
  s1 = s1  s2 = s2  base = base  t1 = t1  t2 = t2  t3 = t3  w1 = w1  w2 = w2
  NoRow = NoRow  NoClient = NoClient  NoToken = NoToken  NoJob = NoJob
  Subs = {s1, s2}
  Names <- MCNames
  Tokens = {t1, t2}
  Workers = {w1, w2}
  BaseName <- MCBaseName
  SuffixedName <- MCSuffixedName
  MaxTerms = 1
  MaxLate = 1
CONSTRAINT CompetingOrAlone
SYMMETRY WorkersAndTokens
INVARIANTS
  TypeOK
  ClientsHaveOneOwner
  ActiveRowHasClient
  DeliveredHasClient
PROPERTY
  ProvisioningRefinesOneClient
