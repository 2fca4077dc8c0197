\* The timer: LCD turned on and off, speed switches, frames of 6 units
CONSTANTS
  Line = 3  Lines = 2  Visible = 1  Hblank = 1
  TimerMax = 3
  Divisors = {2, 4}
  SerialTime = 6
  EvNone = 100
  MaxDispatch = 4
  Blocks = {2}
  Garbage = {0}
  TimaWrites = {1}
  TmaWrites = {2}
  TacWrites <- TimerControls
  ScWrites = {}
  IfWrites <- NoFlags
  IeWrites <- Flags
  StatWrites = {}
  LycWrites = {}
  LcdcWrites = {TRUE, FALSE}
  ImeWrites = {TRUE}
  SpeedSwitches = {TRUE, FALSE}
  Buttons = {}
SPECIFICATION Spec
INVARIANTS DeadlineAgreesWithCounter TimerEndsTheDispatch 
PROPERTY TimerIsStepped
