SPECIFICATION Spec
CONSTANTS
    MaxCalls = 3
    Faults = {"accept", "deadline", "ask", "reap", "reply", "crash"}
INVARIANTS
    TypeOK
    NoEarlyShutdown
    OkLeavesNothingRunning
PROPERTIES
    SessionEnds
    PowersOff
CHECK_DEADLOCK FALSE
