SPECIFICATION Spec
CONSTANTS
  Flows <- MCFlows
  Dead = "dead"
  Nothing = "none"
  Scenes <- MCScenes
  Requested = 15
  Faults = {"delete", "open"}
INVARIANTS TablesSound 
PROPERTY ImplementsContract
CHECK_DEADLOCK FALSE
