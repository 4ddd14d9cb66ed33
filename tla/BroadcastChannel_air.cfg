SPECIFICATION Spec
CONSTANTS
    MaxFn = 18
    MaxMn = 60
    Own <- OwnCell
    Foreign <- ForeignCell
    ForeignIn <- ForeignMultiframes
    Hits <- RunsOfErrors
INVARIANTS BurstsAreFound RunsAreCorrected NoGarbagePasses SyncTellsTime BnchIsNamed MetricsFit
