SPECIFICATION DocumentsSpec
CHECK_DEADLOCK FALSE
INVARIANTS
  ContentShown
  
PROPERTIES
  EditsExact
