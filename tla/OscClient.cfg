\* One button, one trigger, two channels; of the raw values 4001 wraps,
\* and 3998 is within the deadband of it.
SPECIFICATION OscSpec
CONSTANTS
  NumButtons = 1
  NumTriggers = 1
  AdcChannels = 2
  Readings = {0, 3998, 4001}
  LongPress = 1
  OffDelay = 1
  PassesPerPoll = 2
  MaxHold = 1
INVARIANTS
  EdgesRemembered
  BundleTellsReadings
PROPERTIES
  NotesPaired
  ReportsNotOverwritten
  NotesEnd
CHECK_DEADLOCK FALSE
