SPECIFICATION FairSpec
CONSTANTS
  Amount = 2
  Chunks = 2
  MaxSignals = 2
  Environments <- MCEnvironments
CHECK_DEADLOCK FALSE
INVARIANTS TypeOK NoFallbackWhileLive ReservationWatched StopOrAlarm BooksAgree
PROPERTY EntryAnswered
