SPECIFICATION SerialSpec
CONSTANTS
    MaxSolveAttempts = 3
    MaxCalibrationLoops = 5
    MaxCenteringLoops = 3
    MaxReconnectAttempts = 3
    MaxBadFrames = 3
INVARIANTS
    TypeOK
    EndsClean
    LoopVerifies
    
    MotionIsBounded
PROPERTIES
    CallsReturn
