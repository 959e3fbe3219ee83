SPECIFICATION LogSpec
CONSTANTS
    LoggingConfigured = TRUE
    MaxRecords = 3
    MaxLogRestarts = 1
PROPERTY RecordsDrain
CHECK_DEADLOCK FALSE
