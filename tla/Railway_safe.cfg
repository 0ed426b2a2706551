CONSTANTS
    MAX_STATION_COUNT = 5
    StationCounts = {0, 3, 4, 6}
    Lines <- MCLines
    MaxLines = 4
    MaxLoads = 2
SPECIFICATION Spec
INVARIANTS TypeOK RowsHoldTheLoad SearchFinds ShortestIfEqual
CHECK_DEADLOCK FALSE
