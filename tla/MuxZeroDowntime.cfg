\* The doc comment of Reload on downtime, against the code.
SPECIFICATION MuxFairSpec
CONSTANTS
  a = a
  b = b
  Nil = Nil
  Names = {a}
  ServerConfigs <- PlainConfigs
  ConfigFiles <- PlainFiles
  MaxReloads = 1
  DefaultMaxConcurrent = 2
PROPERTY ZeroDowntime
CHECK_DEADLOCK FALSE
