\* os.Stat may fail for another reason (permissions, I/O).
CONSTANTS
    Measurements <- MCMeasurements
    Temps <- MCTemps
    TempOf <- MCTempOf
    StatCanFail = TRUE
SPECIFICATION Spec
INVARIANT ReportNeverLost
