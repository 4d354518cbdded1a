SPECIFICATION FairProcess
CONSTANTS
  None = None
  Modes = {"tls", "starttls", "none", "ssl"}
  Ports <- PortValues
  Refusals = {421, 454, 530, 535, 554}
  Setting = 3
  Keys <- KeyValues
  KeyLength = 4
  Migrations = 2
  PoolSize = 2
INVARIANTS
  ProcessTypeOK
  CredentialsCovered
  SuccessMeansAccepted
  ConfigMeansUndialled
  KeyServed
  
  ServesWholeSchema
PROPERTIES
  VerificationEnds
  ProbeAnswered
  CutIsTold
CHECK_DEADLOCK FALSE
