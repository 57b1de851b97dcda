SPECIFICATION FairSpec
CONSTANTS
    Cases <- MCCases
    MaxEntries = 3
    MaxSlices = 2
INVARIANTS TypeOK RowBacked ExposureTracked OnePosition DayLimit WindowHolds
PROPERTY StoppedGoesFlat
CHECK_DEADLOCK FALSE
