SPECIFICATION MCSpec
CHECK_DEADLOCK FALSE
CONSTANTS
  MAX_DEVICE_SIZE = 2
  MaxPort = 10
  ULLONG_MAX = 63
  max_header_size = 40
  maxLargestInt = 127
  maxLargestUInt = 255
  stackLimit = 3
  IntBits = 3
  LargestBits = 5
  Mantissa = 3
  MaxSize = 4
  MaxChars = 6
  MaxLines = 4
  MaxUrl = 4
  MaxPieces = 5
  MaxPoints = 3
  MaxDigits = 4
  MaxTokens = 5
  LOG_SIZE = 12
  Reserve = 5
  Day = 4
  ChangeAt = 13
  ChangeBy = 1
  MaxNumber = 1200
  MaxLogs = 4
  MaxStreamed = 5
  LdbdByte = 2
  MaxData = 18
  MaxBytes = 5
  MaxSplit = 6
INVARIANTS
  
  HttpTexts
  JsonSurvives
  CodecsAgree
PROPERTIES
  ArrayIsSequence
