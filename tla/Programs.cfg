\* The calibration tool run three times over two channels, loads at any time; three
\* installations over two boards and two prefixes, two edits by the user; the ADC
\* object with two descriptors and calls three deep, readings that are near each
\* other and near the zero of the scale, smoothing over 1, 8 and 16 scans; the switch.
SPECIFICATION Spec
CONSTANTS
  CvChannels = 2
  MaxSaves = 3
  Lines = {"arm_boost=1"}
  Filters = {"[cm5]"}
  Boards = {"wm8731", "pcm5102a"}
  PrefixDirs = {"/usr/local", "/opt"}
  StepSets = {{"deps", "boot", "rt", "build", "service"}, {"boot"}, {"service"}, {"build"}}
  MaxRuns = 3
  MaxEdits = 2
  Descriptors = {0, 1}
  Raws = {3990, 4000}
  Smooths <- MCSmooths
  Deadbands = {0, 9}
  MaxDepth = 3
  MaxCareless = 2
  MaxMs = 7
INVARIANTS
  LoadIsLatestSave
  SettingsInForce
  UnitHasBinary
  DescriptorsKept
  StatusTruthful
  PanelReadings
  SwitchTimes
PROPERTY UserLinesKept
CHECK_DEADLOCK FALSE
