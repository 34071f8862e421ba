SPECIFICATION Spec
CONSTANTS
    Names = {"a", "b"}
    CHUNK = 2
    MaxSize = 4
    MaxCalls = 4
    Devices <- MCDevices
    DaySeconds = 10
    RetrySeconds = 5
    Sizes = {1, 2}
    MaxLines = 5
    MaxTime = 16
    FieldSets = {1, 2}
    Configs <- MCConfigs
    HOTUPDATE_INTERVEL = 2
    MaxVersion = 3
CHECK_DEADLOCK FALSE
INVARIANTS
  FileIsWhole
  LogFileIsKept
  SeenIsApplied
PROPERTIES
  FilesSettle
