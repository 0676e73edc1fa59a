CONSTANTS
  Requests = {rCap, rRecap}
  Malformed = Malformed
  Unreadable = Unreadable
  Payloads <- MC_Payloads
  eRapl = eRapl
  eMmio = eMmio
  e0 = e0
  e00 = e00
  e1 = e1
  e2 = e2
  e3 = e3
  Entries <- MC_Entries
  Fields <- MC_Fields
  MaxPowerUW <- MC_MaxPowerUW
  HasLimitFile <- MC_HasLimitFile
  BootLimit <- MC_BootLimit

SPECIFICATION Spec

\* The server goes on waiting for requests once both are answered.
CHECK_DEADLOCK FALSE

INVARIANTS
  TypeOK
  LimitsFromAcceptedPercentages
  AnswerMatchesEffect
