SPECIFICATION FairService
CONSTANTS
  None = None
  Sessions = {s1, s2}
  t1 = t1
  t2 = t2
  Tenants = {t1, t2}
  Ids = {i1}
  n1 = n1
  n2 = n2
  Names = {n1, n2}
  h1 = h1
  h2 = h2
  bad = bad
  Targets = {h1, h2, bad}
  ValidTargets = {h1, h2}
  w1 = w1
  w2 = w2
  Passwords = {w1, w2}
  Keys = {k1}
  Secrets <- SecretsOf
  PoolSize = 1
  ClientRequests <- DialRequests
  Requests <- CallsOf
PROPERTIES
  OthersServed
