\* Every controller; twice the span carries the days past 511.
CONSTANTS
    Kinds = {1, 2, 3, 5}
    Bytes = {17}
    RtcBytes = {0, 64}
    Spans = {25920007}
    MaxTime = 51840014
    Shorts = {1}
SPECIFICATION Spec
INVARIANT WindowReadsSelected ClockKeepsTime SavedGameReloads
