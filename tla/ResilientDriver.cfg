SPECIFICATION DriverFairSpec
CONSTANTS
    tick = tick
    agent = agent
    Caller <- Both
    MaxAttempts = 3
    Patience <- PatientTick
    Threshold = 2
    MaxProbes = 2
INVARIANTS StopIsLast
PROPERTY DeadPortOpens
