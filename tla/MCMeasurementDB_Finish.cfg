\* A failing Update of Result.Finished, then a retry.
CONSTANTS
    Measurements <- MCMeasurements
    Temps <- MCTemps
    TempOf <- MCTempOf
    StatCanFail = FALSE
SPECIFICATION Spec
INVARIANT FinishRetryPersists
