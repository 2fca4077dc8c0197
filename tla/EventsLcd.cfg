\* The LCD and the serial port: normal speed, the timer off
CONSTANTS
  Line = 4  Lines = 3  Visible = 2  Hblank = 2
  TimerMax = 2
  Divisors = {2}
  SerialTime = 6
  EvNone = 100
  MaxDispatch = 6
  Blocks = {2}
  Garbage = {3}
  TimaWrites = {}
  TmaWrites = {}
  TacWrites = {}
  ScWrites = {TRUE}
  IfWrites <- NoFlags
  IeWrites <- LcdFlags
  StatWrites <- Sources
  LycWrites = {1}
  LcdcWrites = {TRUE, FALSE}
  ImeWrites = {TRUE}
  SpeedSwitches = {}
  Buttons = {TRUE}
SPECIFICATION Spec
INVARIANTS EnabledEventsEndTheDispatch PendingEndsTheDispatch LyIsBeamLine StatEventsNotMissed VblankOncePerFrame
