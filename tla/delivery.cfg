\* Requests sent again after lost replies and crashes, and what they notify.
SPECIFICATION DeliverySpec
CONSTANTS
  k1 = k1
  reserve = reserve
  checkout = checkout
  announce = announce
  none = none
  hold = hold
  Keys = {k1}
  Payloads = {reserve, checkout, announce}
  Replayed = {reserve}
  Written = {checkout}
  NoPayload = none
  MaxCopies = 2
  MaxVersion = 2
  MaxFaults = 1
  Topics <- MCTopics
  Batch = 1
  MaxNotes = 2
  MaxSlips = 1
  Notifying = {reserve}
  Announcing = {announce}
  Hold = hold
INVARIANTS ReceiptTypeOK AtMostOnce DoneIsDurable OutboxTypeOK SentIsWritten CopiesExplained NotesQueued
PROPERTIES ReturnsFirstResult AskersAnswered NotesDelivered
CHECK_DEADLOCK FALSE
