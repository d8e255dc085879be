\* Steps of 2 and 1 on a lens with 7 positions; 95 is the largest radius that
\* counts as better than 100.  Lenses that settle exactly or one position off.
SPECIFICATION Spec
CONSTANTS
    Travel = 6
    FocusMin = 1
    FocusMax = 5
    CoarseStep = 2
    FineSteps = {0, 1}
    Hfrs = {95, 96, 100}
    MinImprovement = 5
    SafetyMargin = 2
    Drifts = {0, 1}
INVARIANTS
    TypeOK
    SuccessIsSharper
    InconclusiveReturns
    BaselineIsSwept
    CalibrationKeepsClear
