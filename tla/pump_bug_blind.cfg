SPECIFICATION PumpSpec
CONSTANTS
    WindowMs = 3
    SamplesPerWindow = 4
    MaxFetch = 2
    MaxScanTime = 10
CHECK_DEADLOCK FALSE
PROPERTY WholeWindowSeen
