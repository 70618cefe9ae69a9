SPECIFICATION FairSpec
CONSTANTS
  Clients = {c1, c2}
  Operations = {"set_value_to_register", "set_value_to_coil"}
  MaxCalls = 2
  Words = {0, 1, 2}
  Unset = Unset
  Idle = Idle
  Entries = {0, 1, 2}
  Unwritten = Unwritten
  BUFFER_SIZE = 3
INVARIANT TypeOK
PROPERTIES ImplementsAtomicSet WriteNeeded CallsReturn SamplesRegister LogTruthful
