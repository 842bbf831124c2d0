SPECIFICATION Spec
CONSTANTS
    Slot = {vision, audio}
    MinValid = 1
    StaleAfter = 2
    StreakLimit = 3
    Warmup = 2
    LidarPolicy = "emergency"
    LidarGrace = 2
    Recovery = TRUE
    None = None
PROPERTY GateRefusesInEmergency
