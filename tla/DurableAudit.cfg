CONSTANTS
  MAX_ATTEMPT_ID = 2
  CAPACITY = 5
  MAX_BOOTS = 3
SPECIFICATION Spec
INVARIANTS TypeOK JournalReopens MemoryMirrorsDisk DurableTruth EffectsJournaled
           ServesAfterRecovery InstancesUnambiguous
PROPERTIES RecordsFinal
CHECK_DEADLOCK FALSE
