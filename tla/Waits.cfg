\* Loops that wait, with VBLANK enabled or not, at both speeds
CONSTANTS
  Line = 4  Lines = 3  Visible = 2  Hblank = 2
  TimerMax = 2
  Divisors = {2}
  SerialTime = 6
  EvNone = 100
  MaxDispatch = 28
  Blocks = {2}
  Garbage = {0}
  TimaWrites = {}
  TmaWrites = {}
  TacWrites = {}
  ScWrites = {}
  IfWrites = {}
  IeWrites <- MCEnables
  StatWrites <- MCSources
  LycWrites = {}
  LcdcWrites = {}
  ImeWrites = {TRUE}
  SpeedSwitches = {TRUE}
  Buttons = {}
  LyWaits <- MCLyWaits
  Pass = 4
  DecCycles = 2  JrTaken = 4  JrEnd = 2
  Counts = {1, 3}
SPECIFICATION FairWaitSpec
PROPERTIES LyWaitMatchesLoop DelayTakesItsTime WaitsStopAtTheLimit WaitsEnd
