SPECIFICATION Spec
CONSTANTS
  None = None
  Sessions = {s1, s2}
  t1 = t1
  t2 = t2
  Tenants = {t1, t2}
  Ids = {i1, i2}
  n1 = n1
  n2 = n2
  Names = {n1, n2}
  h1 = h1
  h2 = h2
  Targets = {h1, h2}
  p1 = p1
  p2 = p2
  Secrets = {p1, p2}
  PoolSize = 2
  Requests <- SharingRequests
SYMMETRY Symmetric
INVARIANTS
  TypeOK
  NamesUnique
PROPERTIES
  TenantsIsolated
  TombstonesFrozen
  SecretAndFlagKept
  ImplementsTable
