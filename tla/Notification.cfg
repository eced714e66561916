SPECIFICATION FairSpec
CONSTANTS
  failure = failure
  reminder = reminder
  done = done
  again = again
  stop = stop
  failing = failing
  finished = finished
  stopping = stopping
  Workers = {w1, w2}
  Events = {failure, reminder, done, again, stop}
  Incident <- EventIncident
  Occurred <- EventOccurred
  Class <- EventClass
  Window <- EventWindow
  Capacity = 2
  MaxTime = 2
  MaxFaults = 1
CHECK_DEADLOCK FALSE
INVARIANTS
  LedgerSound
  RemindersSpaced
PROPERTIES
  RecordsKept
  SilentWhileStale
  CyclesReturn
