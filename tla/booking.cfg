\* The default server: executable strategy, promoted waiters confirmed at once.
SPECIFICATION Spec
CONSTANTS
  adm = adm
  u1 = u1
  u2 = u2
  u3 = u3
  labA = labA
  labB = labB
  a1 = a1
  a2 = a2
  b1 = b1
  Users = {adm, u1, u2}
  Admins = {adm}
  Labs = {labA, labB}
  Slots = {a1, b1}
  LabOf <- MCLabOf
  Start <- MCStart
  SlotLength = 1
  Strategy = "fifo"
  HoldWindow = 0
  CheckinWindow = 1
  LeadTime = 0
  QuotaWeekly = 0
  WaitlistDailyLimit = 0
  CreditBase = 1
  NoShowGrace = 2
  PenaltyTime = 4
  DayLength = 4
  WeekLength = 4
  Aging <- MCAging
  MaxTime = 2
  MaxCapacity = 2
  MaxReservations = 3
  MaxWaits = 2
  Requests = {"reserve", "wait", "cancel", "withdraw", "checkin", "checkout", "force-complete", "force-cancel"}
  InitialCredit = {1}
  InitialApproval = {}
  InitialCapacity <- MCCapacity
  MaxBatch = 1
SYMMETRY MCSymmetry
INVARIANTS TypeOK NoDoubleBooking PromotedLink WaitersUnseated AttendanceStands FillIsTheLoop
PROPERTIES NoQueueJumping EvictionKeepsSeatTaken
CHECK_DEADLOCK FALSE
