\* What /health says of a disconnected backend.
SPECIFICATION MuxSpec
CONSTANTS
  a = a
  b = b
  Nil = Nil
  Names = {a}
  ServerConfigs <- PlainConfigs
  ConfigFiles <- PlainFiles
  MaxReloads = 1
  DefaultMaxConcurrent = 2
INVARIANT HealthReportsDisconnected
CHECK_DEADLOCK FALSE
