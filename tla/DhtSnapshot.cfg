CONSTANTS
  Base = 2
  MAX_DHT_EXPORT_BYTES = 35
  Entries <- MCEntries
  Absent = Absent
  MaxBoots = 3
  MaxFaults = 1
SPECIFICATION Spec
CHECK_DEADLOCK FALSE
INVARIANTS
  CodecExact
  RestartKeepsTable
PROPERTIES
  BootAndStopComplete
