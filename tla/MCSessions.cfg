\* One session of one agent over two servers and any number of reloads.
SPECIFICATION Spec
CONSTANTS
  srvA = srvA
  srvB = srvB
  s1 = s1
  alice = alice
  Nil = Nil
  Names = {srvA, srvB}
  ServerConfigs <- Entries
  Files <- SomeFiles
  ToolSets <- SomeTools
  Sessions = {s1}
  AgentOf <- OneAgent
  DefaultMaxConcurrent = 2
INVARIANT SessionsTypeOK
INVARIANT FilterAgreement
INVARIANT FilterExact
INVARIANT FilterSteady
PROPERTY RegistrationExact
CHECK_DEADLOCK FALSE
