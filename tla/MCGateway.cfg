\* A router with one subprocess server: signals, the failure of the listener,
\* one reload, a rotation of the log, and one call whose request waits for it.
SPECIFICATION MCSpec
CONSTANTS
  a = a
  posted = posted
  Nil = Nil
  Names = {a}
  ServerConfigs <- Versions
  ConfigFiles <- OneServer
  MaxReloads = 1
  DefaultMaxConcurrent = 2
  Events = {posted}
  Attached = {posted}
  MaxFiles = 2
INVARIANT GatewayTypeOK
INVARIANT EventsKept
INVARIANT RotationHonoured
INVARIANT Teardown
INVARIANT CleanDrain
PROPERTY ReloadCompletes
PROPERTY ShutdownEnds
CHECK_DEADLOCK FALSE
