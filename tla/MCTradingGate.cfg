SPECIFICATION FairSpec
CONSTANTS
  Symbols = {s1, s2}
  MaxOpen = 2
  DailyLossLimit = 2
  DrawdownLimit = 60
  CautionAt = 30
  DefensiveAt = 60
  EmergencyAt = 90
  Graduation = 2
  InitialEquity = 2
  EquityBound = 2
  Outcomes <- MCOutcomes
  Requests = {"ACTIVE", "HALTED"}
INVARIANT TypeOK
PROPERTIES NoEntryWhileBlind NoEntryUntilReleased EntryWithinDrawdownCap GraduationIsEarned FlattensAfterTrip GateSpec
