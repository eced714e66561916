SPECIFICATION FairSpec
CONSTANTS
  Collectors = {c1, c2}
  BackupProcess = BackupProcess
  Nobody = Nobody
  Runs = {r1, r2, r3}
  RetentionCount = 1
  MaxBackups = 2
  MaxErrors = 1
CHECK_DEADLOCK FALSE
INVARIANTS
  RunsSound
  BackupsQuiescent
PROPERTIES
  OrphanStopsAll
  RunsEnd
  RunsConcluded
