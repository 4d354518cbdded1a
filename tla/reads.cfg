SPECIFICATION ReadsSpec
CONSTANTS
  None = None
  Sessions = {s1, s2}
  t1 = t1
  t2 = t2
  Tenants = {t1, t2}
  Ids = {i1, i2}
  n1 = n1
  n2 = n2
  Names = {n1, n2}
  h1 = h1
  Targets = {h1}
  p1 = p1
  Secrets = {p1}
  PoolSize = 2
  Requests <- ListedRequests
  Reader = t1
  Pages = {0, 2, 3, 7}
  Sizes = {0, 9, None}
  DefaultSize = 2
  SizeLimit = 3
  MaxInt = 7
SYMMETRY Symmetric
INVARIANTS
  ReadsTypeOK
  PageTrue
  QuietListingExact
  
  NoneTwice
