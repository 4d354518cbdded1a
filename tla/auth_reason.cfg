SPECIFICATION DialSpec
CONSTANTS
  None = None
  Modes = {"tls", "starttls", "none", "ssl"}
  Ports <- PortValues
  Refusals = {421, 454, 530, 535, 554}
  Setting = 3
INVARIANTS
  AuthMeansPresented
CHECK_DEADLOCK FALSE
