SPECIFICATION RowSpec
CONSTANTS
    Rows <- MCRows
    Ts <- MCTs
    Kept <- MCKept
    Page = 2
    Carried = 3
    Cap = 4
    FlightMax = 1
    RowFaults = {"query", "stop", "crash", "garbage"}
    MaxRowTrouble = 1

    
PROPERTIES
    EveryRowSettled
CHECK_DEADLOCK FALSE
