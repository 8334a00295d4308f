SPECIFICATION LevelSpec
CONSTANTS
  Levels = {0, 1}
  StackLimit = 12
INVARIANT SettingTheLevelReturns
CHECK_DEADLOCK FALSE
