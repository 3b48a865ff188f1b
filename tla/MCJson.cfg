SPECIFICATION MCSpec
CONSTANTS
  Blank = Blank
CHECK_DEADLOCK FALSE
INVARIANTS ValuesSound RoundTrip ReaderExact
PROPERTIES CatchesUp
