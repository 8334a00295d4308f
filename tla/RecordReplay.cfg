SPECIFICATION ReplaySpec
CONSTANTS
  Modes = {"Off", "Full", "EndingOnly"}
  HeldAtStart = {"LEFTCTRL"}
  OtherKeys = {}
  MaxInput = 5
  Second = 2
  Leads = {0, 3}
  Gaps = {3}
  MaxEvents = 5
  MaxLua = 2
  MaxEdited = 3
INVARIANTS
   SpacingKept LuaAfterWhatPrecedes RecordedOrderKept NeverEarly
CHECK_DEADLOCK FALSE
