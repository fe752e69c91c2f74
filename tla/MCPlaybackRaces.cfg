\* The user also presses play, late ticks of another film say more than is there,
\* and two changes of the time may wait.
CONSTANTS
    NPieces = 4
    MAX_PRIORITY_PIECES = 1
    MIN_START_PIECES = 2
    SafetyTime = 1
    Reserve = 1
    Ahead = 2
    MaxEvents = 3
    MaxDrags = 1
    User = {"press", "drag", "close"}
    Late = {3}
    NoTick = NoTick
SPECIFICATION Spec
INVARIANTS
    NeverStalls
    PlaysWhatIsThere
CHECK_DEADLOCK FALSE
