SPECIFICATION ScanSpec
CONSTANTS
  Gap = 2
  MaxIndex = 6
  FreshId = 50
  MaxEvents = 2
  MaxLiarEvents = 1
  Starts <- MCStarts
  Payable <- MCPayable
INVARIANTS SnapshotHonest ScanComplete NoFalseAlarm
PROPERTIES PinStays ScanEnds
CHECK_DEADLOCK FALSE
