SPECIFICATION ThreadedSpec
CONSTANTS
    MaxSolveAttempts = 3
    MaxCalibrationLoops = 5
    MaxCenteringLoops = 3
    MaxReconnectAttempts = 3
    MaxBadFrames = 3
INVARIANT StoppedStaysStopped
