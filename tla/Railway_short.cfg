CONSTANTS
    MAX_STATION_COUNT = 8
    StationCounts = {3}
    Lines <- MCLines
    MaxLines = 4
    MaxLoads = 1
SPECIFICATION Spec
INVARIANTS ShortestWay
CHECK_DEADLOCK FALSE
