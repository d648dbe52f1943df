\* Safety of start, reload and stop: two names, two reloads.
SPECIFICATION MuxSpec
CONSTANTS
  a = a
  b = b
  Nil = Nil
  Names = {a, b}
  ServerConfigs <- PlainConfigs
  ConfigFiles <- PlainFiles
  MaxReloads = 2
  DefaultMaxConcurrent = 2
INVARIANTS MuxTypeOK NoOrphanClient RoutedNotClosed ReloadApplied
PROPERTIES PublishedFrozen UnchangedKept TableSpec
SYMMETRY NameSymmetry
\* The program ends after Stop.
CHECK_DEADLOCK FALSE
