\* Claims and maintenance beside bookings.
SPECIFICATION AssetsSpec
CONSTANTS
  adm = adm
  u1 = u1
  u2 = u2
  labA = labA
  labB = labB
  a1 = a1
  a2 = a2
  b1 = b1
  microscope = microscope
  d1 = d1
  d2 = d2
  Users = {adm, u1, u2}
  Admins = {adm}
  Labs = {labA, labB}
  Slots = {a1, a2, b1}
  LabOf <- MCLabOf
  Start <- MCStart
  SlotLength = 1
  Strategy = "fifo"
  HoldWindow = 0
  CheckinWindow = 1
  LeadTime = 0
  QuotaWeekly = 0
  WaitlistDailyLimit = 0
  CreditBase = 1
  NoShowGrace = 2
  PenaltyTime = 4
  DayLength = 4
  WeekLength = 4
  Aging <- MCAging
  MaxTime = 1
  MaxCapacity = 2
  MaxReservations = 2
  MaxWaits = 1
  Requests = {"reserve", "wait", "reschedule", "approve"}
  InitialCredit = {1}
  InitialApproval = {labA}
  InitialCapacity <- MCCapacity
  MaxBatch = 0
  Assets = {microscope}
  AssetLab <- MCAssetLab
  Windows <- MCWindows
  Expiries = {0, 1}
  Desks = {d1, d2}
  MaxTotal = 2
  MaxWindows = 1
  MaxClaims = 5
  MaxOrders = 2
  MaxWork = 4

SYMMETRY MCSymmetry
INVARIANTS AssetsTypeOK ClaimsInLab MaintenanceHolds
PROPERTIES QuotaRespected FreedSeatOffered
CHECK_DEADLOCK FALSE
