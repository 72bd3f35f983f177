SPECIFICATION JournalSpec
CONSTANTS
  S = 3
  Ddl = {1}
  MaxMishaps = 2
INVARIANT
  JournalResumable
CHECK_DEADLOCK FALSE
