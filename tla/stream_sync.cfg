\* A client joins at position 1; three frames, Clear() and Flush() anywhere.
CONSTANTS
  StartPos = 1
  MaxPos = 4
  MaxMsgs = 4
SPECIFICATION Spec
PROPERTIES NewDataKept FlushNotSkippedLate ReaderResumes
INVARIANT TypeOK
\* The model stops at its bound on the position.
CHECK_DEADLOCK FALSE
