\* A waiter promoted well before the slot starts.
SPECIFICATION SweepSpec
CONSTANTS
  adm = adm
  u1 = u1
  u2 = u2
  u3 = u3
  labA = labA
  labB = labB
  a1 = a1
  a2 = a2
  b1 = b1
  Users = {u1, u2, u3}
  Admins = {}
  Labs = {labA}
  Slots = {a2}
  LabOf <- MCLabOf
  Start <- MCStart
  SlotLength = 2
  Strategy = "fifo"
  HoldWindow = 0
  CheckinWindow = 1
  LeadTime = 0
  QuotaWeekly = 0
  WaitlistDailyLimit = 0
  CreditBase = 1
  NoShowGrace = 2
  PenaltyTime = 4
  DayLength = 4
  WeekLength = 4
  Aging <- MCAging
  MaxTime = 3
  MaxCapacity = 1
  MaxReservations = 2
  MaxWaits = 2
  Requests = {"reserve", "wait", "cancel", "confirm", "checkin"}
  InitialCredit = {1}
  InitialApproval = {}
  InitialCapacity <- MCCapacity
  MaxBatch = 1
  MaxFailures = 1
PROPERTY NoShowAfterWindow
CHECK_DEADLOCK FALSE
