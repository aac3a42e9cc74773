\* A laboratory with approval, held promotions, the weighted strategy.
SPECIFICATION Spec
CONSTANTS
  adm = adm
  u1 = u1
  u2 = u2
  u3 = u3
  labA = labA
  labB = labB
  a1 = a1
  a2 = a2
  b1 = b1
  Users = {adm, u1, u2}
  Admins = {adm}
  Labs = {labA}
  Slots = {a2}
  LabOf <- MCLabOf
  Start <- MCStart
  SlotLength = 1
  Strategy = "weighted"
  HoldWindow = 1
  CheckinWindow = 1
  LeadTime = 0
  QuotaWeekly = 0
  WaitlistDailyLimit = 0
  CreditBase = 2
  NoShowGrace = 2
  PenaltyTime = 4
  DayLength = 4
  WeekLength = 4
  Aging <- MCAging
  MaxTime = 1
  MaxCapacity = 2
  MaxReservations = 2
  MaxWaits = 2
  Requests = {"reserve", "wait", "cancel", "confirm", "approve", "reject", "batch", "grant", "lab", "disable", "enable"}
  InitialCredit = {1}
  InitialApproval = {labA}
  InitialCapacity <- MCCapacity
  MaxBatch = 1

SYMMETRY MCSymmetry
INVARIANTS SeatsWithinCapacity FillIsTheLoop
PROPERTIES HistoryFrozen
CHECK_DEADLOCK FALSE
