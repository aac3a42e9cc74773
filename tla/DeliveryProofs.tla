------------------------ MODULE DeliveryProofs ------------------------
(***************************************************************************)
(* Delivery composes Receipts with Outbox: a step of the whole is a step   *)
(* of either or leaves its variables alone, so what is proved of each      *)
(* holds of the whole.                                                     *)
(*                                                                         *)
(* The invariant of the outbox settles in advance what a line costs: a row *)
(* whose line is in the file and that is not marked sent will be sent      *)
(* again, so a step that went wrong has paid for it, unless the dispatch   *)
(* is just about to mark it.                                               *)
(***************************************************************************)
EXTENDS Delivery, ReceiptsProofs, SequenceTheorems

\* No step of the composition does to the receipts what Receipts would not.
LEMMA StepProjects == [DeliveryNext]_deliveryVars => [ReceiptNext]_receiptVars
<1> SUFFICES ASSUME [DeliveryNext]_deliveryVars
             PROVE  ReceiptNext \/ UNCHANGED receiptVars
  OBVIOUS
<1>1. CASE \E k \in Keys : Client(k) /\ UNCHANGED outboxVars
  BY <1>1 DEF Client, ReceiptNext
<1>2. CASE \E m \in Request : Serve(m)
  BY <1>2 DEF Serve, Commit, Handle, ReceiptNext
<1>3. CASE \E m \in Request : (Deny(m) \/ Fail(m)) /\ UNCHANGED outboxVars
  BY <1>3 DEF ReceiptNext
<1>4. CASE \E r \in replies : (Hear(r) \/ Lose(r)) /\ UNCHANGED outboxVars
  BY <1>4 DEF ReceiptNext
<1>5. CASE (Dispatch \/ NoticeHold(Hold)) /\ UNCHANGED receiptVars
  BY <1>5
<1>6. CASE Crash
  BY <1>6 DEF Crash, ReceiptNext
<1>7. CASE UNCHANGED deliveryVars
  BY <1>7 DEF deliveryVars
<1> QED
  BY <1>1, <1>2, <1>3, <1>4, <1>5, <1>6, <1>7 DEF DeliveryNext

\* The receipts of the composed system behave as those of Receipts.
THEOREM DeliveryProjects == DeliverySpec => ReceiptSpec
BY StepProjects, PTL DEF DeliverySpec, DeliveryInit, ReceiptSpec

\* With the outbox, the sweeper's dispatch and crashes of the whole process, a
\* request id has at most one effect.
THEOREM DeliveryOnceOnly == DeliverySpec => []AtMostOnce
BY DeliveryProjects, OnceOnly, PTL

\* The receipts of the composed system are rows with distinct ids.
THEOREM DeliveryReceiptsTyped == DeliverySpec => []ReceiptTypeOK
BY DeliveryProjects, ReceiptsTyped, PTL

\* What a client was told is done stays, across crashes of the whole process.
THEOREM DeliveryDoneStays == DeliverySpec => []DoneIsDurable
BY DeliveryProjects, DoneStays, PTL

\* The composed system implements the plain promise of the receipts.
THEOREM DeliveryReturnsFirstResult == DeliverySpec => ReturnsFirstResult
BY DeliveryProjects, ReceiptsImplementFirstResult, PTL
-----------------------------------------------------------------------------
(***************************************************************************)
(* The outbox.                                                             *)
(***************************************************************************)
OutboxStep ==
  \/ \E topic \in Topics :
       Notify(topic) \/ NoticeHold(topic) \/ \E users \in 1..MaxNotes : Announce(topic, users)
  \/ Dispatch
  \/ CrashOutbox

\* The row whose line was just written without an error.
Landing ==
  IF mailer.pc = "mark" /\ ~mailer.error THEN {i \in mailer.rows : InTurn(i)} ELSE {}

\* The rows whose line is in the file and will be written once more.
Again == {i \in Range(file) : ~outbox[i].sent} \ Landing

\* the notifications without a row, and those among them that should have one
Bare == {n \in DOMAIN notes : ~Queued(n)}
Lost == {n \in Bare : notes[n].by # "announcement"}

\* The dispatch holds rows that are not sent, the notice of a hold one
\* notification without a row.
HeldUnsent == mailer.pc \in {"send", "mark"} => \A i \in mailer.rows : ~outbox[i].sent
HeldLost == mailer.pc = "queue" => \E n \in Lost : mailer.rows = {n}
\* NotesQueued in these words
LostExplained ==
  /\ \A n \in Lost : notes[n].by = "sweep"
  /\ Cardinality(Lost) <= slips + (IF mailer.pc = "queue" THEN 1 ELSE 0)
Unannounced == \A n \in DOMAIN notes : notes[n].by = "announcement" => ~Queued(n)
LandingWritten == Landing \subseteq Range(file)
SentInFile == \A i \in DOMAIN outbox : outbox[i].sent => i \in Range(file)
CopiesPaid == Len(file) + Cardinality(Again) <= Cardinality(Range(file)) + slips

OInv ==
  /\ OutboxTypeOK
  /\ HeldUnsent /\ HeldLost
  /\ LandingWritten /\ SentInFile /\ CopiesPaid
  /\ LostExplained /\ Unannounced

LEMMA RestingType ==
  /\ Resting \in [pc: {"idle", "send", "mark", "queue"}, rows: SUBSET Nat, error: BOOLEAN]
  /\ Resting.pc = "idle" /\ Resting.rows = {}
BY DEF Resting

\* One more line of a row.
LEMMA LineAdded ==
  ASSUME NEW S, NEW lines \in Seq(S), NEW i \in S
  PROVE  /\ Append(lines, i) \in Seq(S)
         /\ Len(Append(lines, i)) = Len(lines) + 1
         /\ Range(Append(lines, i)) = Range(lines) \cup {i}
<1>1. /\ Append(lines, i) \in Seq(S)
      /\ Len(Append(lines, i)) = Len(lines) + 1
      /\ \A n \in 1..Len(lines) : Append(lines, i)[n] = lines[n]
      /\ Append(lines, i)[Len(lines) + 1] = i
  BY AppendProperties
<1>2. Len(lines) \in Nat /\ DOMAIN lines = 1..Len(lines)
  BY LenProperties
<1>3. DOMAIN Append(lines, i) = 1..(Len(lines) + 1)
  BY <1>1, LenProperties
<1>4. \A n \in 1..(Len(lines) + 1) : n \in 1..Len(lines) \/ n = Len(lines) + 1
  BY <1>2
<1>5. 1..Len(lines) \subseteq 1..(Len(lines) + 1) /\ Len(lines) + 1 \in 1..(Len(lines) + 1)
  BY <1>2
<1>6. Range(Append(lines, i)) = Range(lines) \cup {i}
  BY <1>1, <1>2, <1>3, <1>4, <1>5, Zenon DEF Range
<1> QED
  BY <1>1, <1>6

\* The tables are finite.
LEMMA Countable ==
  ASSUME OutboxTypeOK
  PROVE  /\ Len(notes) \in Nat /\ DOMAIN notes = 1..Len(notes)
         /\ Len(outbox) \in Nat /\ DOMAIN outbox = 1..Len(outbox)
         /\ outbox \in [DOMAIN outbox -> [note: DOMAIN notes, sent: BOOLEAN]]
         /\ Len(file) \in Nat /\ Range(file) \subseteq DOMAIN outbox
         /\ IsFiniteSet(Range(file)) /\ Cardinality(Range(file)) \in Nat
         /\ IsFiniteSet(Lost) /\ Cardinality(Lost) \in Nat
         /\ IsFiniteSet(Again) /\ Cardinality(Again) \in Nat
<1>1. Len(notes) \in Nat /\ DOMAIN notes = 1..Len(notes)
  BY LenProperties DEF OutboxTypeOK
<1>2. /\ Len(outbox) \in Nat /\ DOMAIN outbox = 1..Len(outbox)
      /\ outbox \in [1..Len(outbox) -> [note: DOMAIN notes, sent: BOOLEAN]]
  BY LenProperties DEF OutboxTypeOK
<1>3. Len(file) \in Nat /\ DOMAIN file = 1..Len(file) /\ file \in [1..Len(file) -> DOMAIN outbox]
  BY LenProperties DEF OutboxTypeOK
<1>4. Range(file) \subseteq DOMAIN outbox
  BY <1>3 DEF Range
<1>5. IsFiniteSet(DOMAIN outbox) /\ IsFiniteSet(DOMAIN notes)
  BY <1>1, <1>2, FS_Interval
<1>6. IsFiniteSet(Range(file))
  BY <1>4, <1>5, FS_Subset
<1>7. IsFiniteSet(Again) /\ IsFiniteSet(Lost)
  BY <1>5, <1>6, FS_Subset DEF Again, Lost, Bare
<1> QED
  BY <1>1, <1>2, <1>3, <1>4, <1>6, <1>7, FS_CardinalityType

\* Rows are handled one at a time.
LEMMA OneInTurn ==
  ASSUME OutboxTypeOK, NEW i, NEW j, InTurn(i), InTurn(j)
  PROVE  i = j
<1>1. i \in Nat /\ j \in Nat /\ i <= j /\ j <= i
  BY DEF OutboxTypeOK, InTurn
<1> QED
  BY <1>1

\* A row more: what the invariant says of the file stays.
LEMMA RowAdded ==
  ASSUME OInv, NEW n \in DOMAIN notes', ~Queued(n),
         notes' \in Seq([about: Topics, by: Writers]),
         DOMAIN notes \subseteq DOMAIN notes',
         outbox' = Append(outbox, [note |-> n, sent |-> FALSE]),
         UNCHANGED <<file, slips>>,
         mailer' = mailer \/ (mailer.pc = "queue" /\ mailer' = Resting)
  PROVE  /\ OutboxTypeOK' /\ HeldUnsent' /\ LandingWritten' /\ SentInFile' /\ CopiesPaid'
         /\ \A k : Queued(k)' <=> Queued(k) \/ k = n
<1> DEFINE row == [note |-> n, sent |-> FALSE]
           N == DOMAIN notes'
<1>1. OutboxTypeOK
  BY DEF OInv
<1>2. outbox \in Seq([note: N, sent: BOOLEAN])
  <2> DEFINE Old == [note: DOMAIN notes, sent: BOOLEAN]
             New == [note: N, sent: BOOLEAN]
  <2>1. Old \subseteq New
    OBVIOUS
  <2>2. outbox \in Seq(Old)
    BY <1>1 DEF OutboxTypeOK
  <2> HIDE DEF Old, New
  <2>3. outbox \in Seq(New)
    BY <2>1, <2>2, SeqMonotonic
  <2> QED
    BY <2>3 DEF New
<1>3. row \in [note: N, sent: BOOLEAN]
  OBVIOUS
<1> HIDE DEF N
<1>4. /\ outbox' \in Seq([note: N, sent: BOOLEAN])
      /\ Len(outbox') = Len(outbox) + 1
      /\ \A i \in 1..Len(outbox) : outbox'[i] = outbox[i]
      /\ outbox'[Len(outbox) + 1] = row
  BY <1>2, <1>3, AppendProperties
<1> HIDE DEF row
<1>5. /\ Len(outbox) \in Nat /\ DOMAIN outbox = 1..Len(outbox)
      /\ DOMAIN outbox' = 1..(Len(outbox) + 1)
  BY <1>1, <1>4, Countable, LenProperties
<1>6. /\ DOMAIN outbox \subseteq DOMAIN outbox'
      /\ \A i \in DOMAIN outbox' : i \in DOMAIN outbox \/ i = Len(outbox) + 1
      /\ \A i \in DOMAIN outbox : outbox'[i] = outbox[i]
      /\ Len(outbox) + 1 \in DOMAIN outbox'
  BY <1>4, <1>5
<1>7. row.note = n /\ row.sent = FALSE
  BY DEF row
<1>8. \A k : Queued(k)' <=> Queued(k) \/ k = n
  BY <1>4, <1>6, <1>7 DEF Queued
<1>9. \A i, j \in DOMAIN outbox' : outbox'[i].note = outbox'[j].note => i = j
  <2>1. \A i, j \in DOMAIN outbox : outbox[i].note = outbox[j].note => i = j
    BY <1>1 DEF OutboxTypeOK
  <2>2. \A i \in DOMAIN outbox : outbox[i].note # n
    BY DEF Queued
  <2>3. outbox'[Len(outbox) + 1].note = n
    BY <1>4, <1>7
  <2> QED
    BY <1>6, <2>1, <2>2, <2>3
<1>10. file' \in Seq(DOMAIN outbox')
  BY <1>1, <1>6, SeqMonotonic DEF OutboxTypeOK
<1>11. OutboxTypeOK'
  <2>1. outbox' \in Seq([note: DOMAIN notes', sent: BOOLEAN])
    BY <1>4 DEF N
  <2>2. mailer' \in [pc: {"idle", "send", "mark", "queue"}, rows: SUBSET Nat, error: BOOLEAN]
    BY <1>1, RestingType DEF OutboxTypeOK
  <2>3. mailer'.pc \in {"send", "mark"} => mailer'.rows \subseteq DOMAIN outbox'
    BY <1>1, <1>6 DEF OutboxTypeOK, Resting
  <2> QED
    BY <1>1, <1>9, <1>10, <2>1, <2>2, <2>3 DEF OutboxTypeOK
<1>12. HeldUnsent'
  <2>1. HeldUnsent /\ (mailer.pc \in {"send", "mark"} => mailer.rows \subseteq DOMAIN outbox)
    BY <1>1 DEF OInv, OutboxTypeOK
  <2>2. CASE mailer' = mailer
    BY <1>6, <2>1, <2>2 DEF HeldUnsent
  <2>3. CASE mailer' = Resting
    BY <2>3, RestingType DEF HeldUnsent
  <2> QED
    BY <2>2, <2>3
<1>13. Landing' = Landing
  <2>1. CASE mailer' = mailer
    BY <2>1 DEF Landing, InTurn
  <2>2. CASE mailer.pc = "queue" /\ mailer' = Resting
    <3>1. Landing = {} /\ Landing' = {}
      BY <2>2 DEF Landing, Resting
    <3> QED
      BY <3>1
  <2> QED
    BY <2>1, <2>2
<1>14. Range(file)' = Range(file) /\ Range(file) \subseteq DOMAIN outbox
  BY <1>1, Countable
<1>15. Again' = Again
  BY <1>6, <1>13, <1>14 DEF Again
<1>16. LandingWritten' /\ CopiesPaid'
  BY <1>13, <1>14, <1>15 DEF OInv, LandingWritten, CopiesPaid
<1>17. SentInFile'
  BY <1>4, <1>6, <1>7, <1>14 DEF OInv, SentInFile
<1> QED
  BY <1>8, <1>11, <1>12, <1>16, <1>17

\* A notification of a transaction is never without its row.
LEMMA NotifyKeeps ==
  ASSUME OInv, NEW topic \in Topics, Notify(topic)
  PROVE  OInv'
<1> DEFINE n == Len(notes) + 1
           note == [about |-> topic, by |-> "transaction"]
<1>1. OutboxTypeOK
  BY DEF OInv
<1>2. note \in [about: Topics, by: Writers]
  BY DEF Writers
<1>3. /\ notes' \in Seq([about: Topics, by: Writers])
      /\ Len(notes') = n
      /\ \A k \in 1..Len(notes) : notes'[k] = notes[k]
      /\ notes'[n] = note
  BY <1>1, <1>2, AppendProperties DEF OutboxTypeOK, Notify
<1>4. /\ Len(notes) \in Nat /\ DOMAIN notes = 1..Len(notes) /\ DOMAIN notes' = 1..n
  BY <1>1, <1>3, Countable, LenProperties
<1>5. n \in DOMAIN notes' /\ DOMAIN notes' = DOMAIN notes \cup {n} /\ n \notin DOMAIN notes
  BY <1>4
<1>6. ~Queued(n)
  <2>1. \A i \in DOMAIN outbox : outbox[i].note \in DOMAIN notes
    BY <1>1, Countable
  <2> QED
    BY <1>5, <2>1 DEF Queued
<1>7. outbox' = Append(outbox, [note |-> n, sent |-> FALSE])
  BY DEF Notify
<1>8. mailer' = mailer /\ UNCHANGED <<file, slips>>
  BY DEF Notify
<1> HIDE DEF n
<1>9. /\ OutboxTypeOK' /\ HeldUnsent' /\ LandingWritten' /\ SentInFile' /\ CopiesPaid'
      /\ \A k : Queued(k)' <=> Queued(k) \/ k = n
  BY <1>3, <1>5, <1>6, <1>7, <1>8, RowAdded
<1>10. Lost' = Lost
  BY <1>3, <1>4, <1>5, <1>6, <1>9 DEF Lost, Bare
<1>11. HeldLost'
  BY <1>8, <1>10 DEF OInv, HeldLost
<1>12. LostExplained'
  BY <1>3, <1>4, <1>8, <1>10 DEF OInv, LostExplained, Lost, Bare
<1>13. Unannounced'
  BY <1>4, <1>5, <1>9, <1>3 DEF OInv, Unannounced
<1> QED
  BY <1>9, <1>11, <1>12, <1>13 DEF OInv

\* An announcement adds notifications that are nobody's to send.
LEMMA AnnounceKeeps ==
  ASSUME OInv, NEW topic \in Topics, NEW users \in 1..MaxNotes, Announce(topic, users)
  PROVE  OInv'
<1> DEFINE note == [about |-> topic, by |-> "announcement"]
           added == [n \in 1..users |-> note]
<1>1. OutboxTypeOK /\ users \in Nat
  BY OutboxBounds DEF OInv
<1>2. note \in [about: Topics, by: Writers] /\ note.by = "announcement"
  BY DEF Writers
<1>3. notes' = notes \o added /\ UNCHANGED <<outbox, file, mailer, slips>>
  BY DEF Announce
<1> HIDE DEF note
<1>4. added \in Seq([about: Topics, by: Writers]) /\ Len(added) = users
  BY <1>1, <1>2, IsASeq
<1>5. \A k \in 1..users : added[k] = note
  OBVIOUS
<1> HIDE DEF added
<1>6. /\ notes' \in Seq([about: Topics, by: Writers])
      /\ Len(notes') = Len(notes) + users
      /\ \A k \in 1..(Len(notes) + users) :
           notes'[k] = IF k <= Len(notes) THEN notes[k] ELSE added[k - Len(notes)]
  BY <1>1, <1>3, <1>4, ConcatProperties DEF OutboxTypeOK
<1>7. /\ Len(notes) \in Nat /\ DOMAIN notes = 1..Len(notes)
      /\ DOMAIN notes' = 1..(Len(notes) + users)
  BY <1>1, <1>6, Countable, LenProperties
<1>8. DOMAIN notes \subseteq DOMAIN notes' /\ \A k \in DOMAIN notes : notes'[k] = notes[k]
  BY <1>1, <1>6, <1>7
<1>9. \A k \in DOMAIN notes' \ DOMAIN notes : notes'[k].by = "announcement"
  <2> SUFFICES ASSUME NEW k \in DOMAIN notes' \ DOMAIN notes PROVE notes'[k] = note
    BY <1>2
  <2>1. k \in 1..(Len(notes) + users) /\ ~(k <= Len(notes)) /\ k - Len(notes) \in 1..users
    BY <1>1, <1>7
  <2> QED
    BY <1>5, <1>6, <2>1
<1>10. \A k : Queued(k)' <=> Queued(k)
  BY <1>3 DEF Queued
<1>11. \A k \in DOMAIN notes' \ DOMAIN notes : ~Queued(k)
  <2>1. \A i \in DOMAIN outbox : outbox[i].note \in DOMAIN notes
    BY <1>1, Countable
  <2> QED
    BY <2>1 DEF Queued
<1>12. OutboxTypeOK'
  <2>1. outbox \in Seq([note: DOMAIN notes', sent: BOOLEAN])
    <3>1. [note: DOMAIN notes, sent: BOOLEAN] \subseteq [note: DOMAIN notes', sent: BOOLEAN]
      BY <1>8
    <3> QED
      BY <1>1, <3>1, SeqMonotonic DEF OutboxTypeOK
  <2> QED
    BY <1>1, <1>3, <1>6, <2>1 DEF OutboxTypeOK
<1>13. Lost' = Lost
  BY <1>8, <1>9, <1>10 DEF Lost, Bare
<1>14. HeldUnsent' /\ HeldLost' /\ LandingWritten' /\ SentInFile' /\ CopiesPaid'
  BY <1>3, <1>13 DEF OInv, HeldUnsent, HeldLost, LandingWritten, SentInFile, CopiesPaid,
                     Landing, Again, InTurn
<1>15. LostExplained'
  BY <1>3, <1>8, <1>13 DEF OInv, LostExplained, Lost, Bare
<1>16. Unannounced'
  BY <1>8, <1>10, <1>11 DEF OInv, Unannounced
<1> QED
  BY <1>12, <1>14, <1>15, <1>16 DEF OInv

\* The notice of a hold is without its row for the time between its statements.
LEMMA NoticeKeeps ==
  ASSUME OInv, NEW topic \in Topics, NoticeHold(topic)
  PROVE  OInv'
<1> DEFINE n == Len(notes) + 1
           note == [about |-> topic, by |-> "sweep"]
<1>1. OutboxTypeOK
  BY DEF OInv
<1>2. note \in [about: Topics, by: Writers]
  BY DEF Writers
<1>3. /\ notes' \in Seq([about: Topics, by: Writers])
      /\ Len(notes') = n
      /\ \A k \in 1..Len(notes) : notes'[k] = notes[k]
      /\ notes'[n] = note
  BY <1>1, <1>2, AppendProperties DEF OutboxTypeOK, NoticeHold
<1>4. /\ Len(notes) \in Nat /\ DOMAIN notes = 1..Len(notes) /\ DOMAIN notes' = 1..n
  BY <1>1, <1>3, Countable, LenProperties
<1>5. n \in DOMAIN notes' /\ DOMAIN notes' = DOMAIN notes \cup {n} /\ n \notin DOMAIN notes
      /\ n \in Nat
  BY <1>4
<1>6. ~Queued(n)
  <2>1. \A i \in DOMAIN outbox : outbox[i].note \in DOMAIN notes
    BY <1>1, Countable
  <2> QED
    BY <1>5, <2>1 DEF Queued
<1>7. /\ mailer.pc = "idle" /\ mailer' = [mailer EXCEPT !.pc = "queue", !.rows = {n}]
      /\ UNCHANGED <<outbox, file, slips>>
  BY DEF NoticeHold
<1> HIDE DEF n
<1>8. mailer'.pc = "queue" /\ mailer'.rows = {n}
  BY <1>1, <1>7 DEF OutboxTypeOK
<1>9. Lost' = Lost \cup {n} /\ n \notin Lost
  BY <1>3, <1>4, <1>5, <1>6, <1>7 DEF Lost, Bare, Queued
<1>10. OutboxTypeOK'
  <2>1. outbox \in Seq([note: DOMAIN notes', sent: BOOLEAN])
    <3>1. [note: DOMAIN notes, sent: BOOLEAN] \subseteq [note: DOMAIN notes', sent: BOOLEAN]
      BY <1>5
    <3> QED
      BY <1>1, <3>1, SeqMonotonic DEF OutboxTypeOK
  <2>2. mailer' \in [pc: {"idle", "send", "mark", "queue"}, rows: SUBSET Nat, error: BOOLEAN]
    BY <1>1, <1>5, <1>7 DEF OutboxTypeOK
  <2> QED
    BY <1>1, <1>3, <1>7, <1>8, <2>1, <2>2 DEF OutboxTypeOK
<1>11. HeldUnsent' /\ HeldLost'
  BY <1>8, <1>9 DEF HeldUnsent, HeldLost
<1>12. Landing = {} /\ Landing' = {}
  BY <1>7, <1>8 DEF Landing
<1>13. LandingWritten' /\ SentInFile' /\ CopiesPaid'
  BY <1>7, <1>12 DEF OInv, LandingWritten, SentInFile, CopiesPaid, Again
<1>14. LostExplained'
  <2>1. Cardinality(Lost') = Cardinality(Lost) + 1
    BY <1>1, <1>9, Countable, FS_AddElement
  <2>2. slips \in Nat /\ slips' = slips
    BY <1>1, <1>7, OutboxBounds DEF OutboxTypeOK
  <2>3. Cardinality(Lost) <= slips + 0
    BY <1>7 DEF OInv, LostExplained
  <2>4. Cardinality(Lost') <= slips' + 1
    BY <1>1, <2>1, <2>2, <2>3, Countable
  <2>5. \A k \in Lost' : notes'[k].by = "sweep"
    BY <1>3, <1>4, <1>9 DEF OInv, LostExplained, Lost, Bare
  <2> QED
    BY <1>8, <2>4, <2>5 DEF LostExplained
<1>15. Unannounced'
  BY <1>3, <1>4, <1>5, <1>7 DEF OInv, Unannounced, Queued
<1> QED
  BY <1>10, <1>11, <1>13, <1>14, <1>15 DEF OInv

\* A slip is counted.
LEMMA SlipCounts ==
  ASSUME OutboxTypeOK, NEW wrong \in BOOLEAN, Slip(wrong)
  PROVE  /\ slips \in Nat /\ slips' \in 0..MaxSlips
         /\ slips' = IF wrong THEN slips + 1 ELSE slips
BY OutboxBounds DEF OutboxTypeOK, Slip

\* What LostExplained allows grows with the slips.
LEMMA LostStay ==
  ASSUME OInv, UNCHANGED <<notes, outbox>>, slips' \in Nat, slips' >= slips,
         mailer.pc = "queue" => slips' > slips \/ mailer'.pc = "queue"
  PROVE  LostExplained' /\ Unannounced'
<1>1. OutboxTypeOK /\ slips \in Nat
  BY OutboxBounds DEF OInv, OutboxTypeOK
<1>2. Lost' = Lost /\ Cardinality(Lost) \in Nat
  BY <1>1, Countable DEF Lost, Bare, Queued
<1>3. \A n \in Lost' : notes'[n].by = "sweep"
  BY <1>2 DEF OInv, LostExplained
<1>4. Cardinality(Lost) <= slips + (IF mailer.pc = "queue" THEN 1 ELSE 0)
  BY DEF OInv, LostExplained
<1>5. Cardinality(Lost') <= slips' + (IF mailer'.pc = "queue" THEN 1 ELSE 0)
  BY <1>1, <1>2, <1>4
<1>6. Unannounced'
  BY DEF OInv, Unannounced, Queued
<1> QED
  BY <1>3, <1>5, <1>6 DEF LostExplained

\* The second statement gives the notice its row, or fails and is counted.
LEMMA QueueKeeps ==
  ASSUME OInv, NEW done \in BOOLEAN, QueueHold(done)
  PROVE  OInv'
<1>1. OutboxTypeOK
  BY DEF OInv
<1>2. PICK n \in mailer.rows :
        outbox' = IF done THEN Append(outbox, [note |-> n, sent |-> FALSE]) ELSE outbox
  BY DEF QueueHold
<1>3. /\ mailer.pc = "queue" /\ mailer' = Resting
      /\ UNCHANGED <<notes, file>>
  BY DEF QueueHold
<1>4. /\ slips \in Nat /\ slips' \in 0..MaxSlips
      /\ slips' = IF ~done THEN slips + 1 ELSE slips
  BY <1>1, SlipCounts DEF QueueHold
<1>5. n \in Lost
  BY <1>2, <1>3 DEF OInv, HeldLost
<1>6. n \in DOMAIN notes' /\ ~Queued(n) /\ notes[n].by # "announcement"
  BY <1>3, <1>5 DEF Lost, Bare
<1>7. mailer'.pc = "idle"
  BY <1>3 DEF Resting
<1>8. HeldLost'
  BY <1>7 DEF HeldLost
<1>9. CASE done
  <2>1. /\ OutboxTypeOK' /\ HeldUnsent' /\ LandingWritten' /\ SentInFile' /\ CopiesPaid'
        /\ \A k : Queued(k)' <=> Queued(k) \/ k = n
    BY <1>1, <1>2, <1>3, <1>4, <1>6, <1>9, RowAdded DEF OutboxTypeOK
  <2>2. Lost' = Lost \ {n}
    BY <1>3, <2>1 DEF Lost, Bare
  <2>3. LostExplained'
    <3>1. Cardinality(Lost') = Cardinality(Lost) - 1
      BY <1>1, <1>5, <2>2, Countable, FS_RemoveElement
    <3>2. Cardinality(Lost) <= slips + 1
      BY <1>3 DEF OInv, LostExplained
    <3>3. Cardinality(Lost') <= slips' + 0
      BY <1>1, <1>4, <1>9, <3>1, <3>2, Countable
    <3>4. \A k \in Lost' : notes'[k].by = "sweep"
      BY <1>3, <2>2 DEF OInv, LostExplained
    <3> QED
      BY <1>7, <3>3, <3>4 DEF LostExplained
  <2>4. Unannounced'
    BY <1>3, <1>6, <2>1 DEF OInv, Unannounced
  <2> QED
    BY <1>8, <2>1, <2>3, <2>4 DEF OInv
<1>10. CASE ~done
  <2>1. outbox' = outbox
    BY <1>2, <1>10
  <2>2. OutboxTypeOK'
    BY <1>1, <1>3, <1>4, <2>1, RestingType DEF OutboxTypeOK
  <2>3. HeldUnsent'
    BY <1>7 DEF HeldUnsent
  <2>4. Landing = {} /\ Landing' = {}
    BY <1>3, <1>7 DEF Landing
  <2>5. LandingWritten' /\ SentInFile'
    BY <1>3, <2>1, <2>4 DEF OInv, LandingWritten, SentInFile
  <2>6. CopiesPaid'
    <3>1. Range(file)' = Range(file) /\ Again' = Again
      BY <1>3, <2>1, <2>4 DEF Again
    <3>2. Len(file) + Cardinality(Again) <= Cardinality(Range(file)) + slips
      BY DEF OInv, CopiesPaid
    <3> QED
      BY <1>1, <1>3, <1>4, <1>10, <3>1, <3>2, Countable DEF CopiesPaid
  <2>7. LostExplained' /\ Unannounced'
    BY <1>3, <1>4, <1>10, <2>1, LostStay
  <2> QED
    BY <1>8, <2>2, <2>3, <2>5, <2>6, <2>7 DEF OInv
<1> QED
  BY <1>9, <1>10

\* The mailer takes rows that are not sent.
LEMMA ListKeeps ==
  ASSUME OInv, ListUnsent \/ EndDispatch
  PROVE  OInv'
<1>1. OutboxTypeOK
  BY DEF OInv
<1>2. /\ UNCHANGED <<notes, outbox, file, slips>>
      /\ mailer.pc \in {"idle", "send"} /\ mailer'.pc \in {"idle", "send"}
      /\ mailer'.rows \subseteq Unsent
      /\ mailer' \in [pc: {"idle", "send", "mark", "queue"}, rows: SUBSET Nat, error: BOOLEAN]
  <2>1. Unsent \subseteq Nat
    BY <1>1, Countable DEF Unsent
  <2>2. CASE ListUnsent
    <3>1. Earliest(Unsent, Batch) \subseteq Unsent
      BY DEF Earliest
    <3> HIDE DEF Earliest
    <3> QED
      BY <1>1, <2>1, <2>2, <3>1 DEF ListUnsent, OutboxTypeOK
  <2>3. CASE EndDispatch
    BY <2>3, RestingType DEF EndDispatch
  <2> QED
    BY <2>2, <2>3
<1>3. Landing = {} /\ Landing' = {}
  BY <1>2 DEF Landing
<1>4. OutboxTypeOK' /\ HeldUnsent' /\ HeldLost'
  BY <1>1, <1>2 DEF OutboxTypeOK, Unsent, HeldUnsent, HeldLost
<1>5. LandingWritten' /\ SentInFile' /\ CopiesPaid'
  BY <1>2, <1>3 DEF OInv, LandingWritten, SentInFile, CopiesPaid, Again
<1>6. LostExplained' /\ Unannounced'
  <2>1. slips \in Nat
    BY <1>1, OutboxBounds DEF OutboxTypeOK
  <2> QED
    BY <1>2, <2>1, LostStay
<1> QED
  BY <1>4, <1>5, <1>6 DEF OInv

\* The append: a line more, for nothing only when the error costs a slip.
LEMMA SendKeeps ==
  ASSUME OInv, NEW i \in mailer.rows, NEW written \in BOOLEAN, NEW error \in BOOLEAN,
         Send(i, written, error)
  PROVE  OInv'
<1>1. OutboxTypeOK
  BY DEF OInv
<1>2. /\ mailer.pc = "send" /\ InTurn(i) /\ (written \/ error)
      /\ file' = IF written THEN Append(file, i) ELSE file
      /\ mailer' = [mailer EXCEPT !.pc = "mark", !.error = error]
      /\ UNCHANGED <<notes, outbox>>
  BY DEF Send
<1>3. slips \in Nat /\ slips' \in 0..MaxSlips /\ slips' = IF error THEN slips + 1 ELSE slips
  BY <1>1, SlipCounts DEF Send
<1>4. /\ mailer'.pc = "mark" /\ mailer'.rows = mailer.rows /\ mailer'.error = error
      /\ mailer' \in [pc: {"idle", "send", "mark", "queue"}, rows: SUBSET Nat, error: BOOLEAN]
  BY <1>1, <1>2 DEF OutboxTypeOK
<1>5. i \in DOMAIN outbox /\ ~outbox[i].sent
  BY <1>1, <1>2 DEF OutboxTypeOK, OInv, HeldUnsent
<1>6. IF written
      THEN /\ file' \in Seq(DOMAIN outbox) /\ Len(file') = Len(file) + 1
           /\ Range(file') = Range(file) \cup {i}
      ELSE file' = file
  BY <1>1, <1>2, <1>5, LineAdded DEF OutboxTypeOK
<1>7. OutboxTypeOK'
  BY <1>1, <1>2, <1>3, <1>4, <1>6 DEF OutboxTypeOK
<1>8. HeldUnsent' /\ HeldLost'
  BY <1>2, <1>4 DEF OInv, HeldUnsent, HeldLost
<1>9. Landing = {} /\ Landing' = IF error THEN {} ELSE {i}
  <2>1. \A j : InTurn(j)' <=> InTurn(j)
    BY <1>4 DEF InTurn
  <2>2. {j \in mailer.rows : InTurn(j)} = {i}
    BY <1>1, <1>2, OneInTurn
  <2> QED
    BY <1>2, <1>4, <2>1, <2>2 DEF Landing
<1>10. LandingWritten' /\ SentInFile'
  BY <1>2, <1>6, <1>9 DEF OInv, LandingWritten, SentInFile
<1>11. CopiesPaid'
  <2> DEFINE R == Cardinality(Range(file))
             A == Cardinality(Again)
  <2>1. /\ R \in Nat /\ A \in Nat /\ Len(file) \in Nat
        /\ IsFiniteSet(Range(file)) /\ IsFiniteSet(Again)
        /\ Len(file) + A <= R + slips
    BY <1>1, Countable DEF OInv, CopiesPaid
  <2>2. Again = {j \in Range(file) : ~outbox[j].sent}
    BY <1>9 DEF Again
  <2>3. Again' = {j \in Range(file') : ~outbox[j].sent} \ Landing'
    BY <1>2 DEF Again
  <2>4. CASE ~written
    <3>1. error /\ file' = file /\ Again' = Again
      BY <1>2, <1>6, <1>9, <2>2, <2>3, <2>4
    <3> QED
      BY <1>3, <2>1, <3>1 DEF CopiesPaid
  <2>5. CASE written /\ i \in Range(file)
    <3>1. Range(file') = Range(file) /\ Len(file') = Len(file) + 1
      BY <1>6, <2>5
    <3>2. i \in Again
      BY <1>5, <2>2, <2>5
    <3>3. Again' = IF error THEN Again ELSE Again \ {i}
      BY <1>9, <2>2, <2>3, <3>1
    <3>4. Cardinality(Again') = IF error THEN A ELSE A - 1
      BY <2>1, <3>2, <3>3, FS_RemoveElement
    <3> HIDE DEF R, A
    <3>5. Len(file') + Cardinality(Again') <= R + slips'
      BY <1>3, <2>1, <3>1, <3>4
    <3> QED
      BY <3>1, <3>5 DEF CopiesPaid, R
  <2>6. CASE written /\ i \notin Range(file)
    <3>1. /\ Range(file') = Range(file) \cup {i} /\ Len(file') = Len(file) + 1
          /\ Cardinality(Range(file')) = R + 1
      BY <1>6, <2>1, <2>6, FS_AddElement
    <3>2. i \notin Again
      BY <2>2, <2>6
    <3>3. Again' = IF error THEN Again \cup {i} ELSE Again
      BY <1>5, <1>9, <2>2, <2>3, <2>6, <3>1
    <3>4. Cardinality(Again') = IF error THEN A + 1 ELSE A
      BY <2>1, <3>2, <3>3, FS_AddElement
    <3> HIDE DEF R, A
    <3>5. Len(file') + Cardinality(Again') <= R + 1 + slips'
      BY <1>3, <2>1, <3>1, <3>4
    <3> QED
      BY <3>1, <3>5 DEF CopiesPaid
  <2> QED
    BY <2>4, <2>5, <2>6
<1>12. LostExplained' /\ Unannounced'
  BY <1>2, <1>3, LostStay
<1> QED
  BY <1>7, <1>8, <1>10, <1>11, <1>12 DEF OInv

LEMMA AtMostOneMore ==
  ASSUME NEW S, IsFiniteSet(S), NEW i, NEW T, T \subseteq S \cup {i}
  PROVE  /\ Cardinality(S) \in Nat /\ Cardinality(T) \in Nat
         /\ Cardinality(T) <= Cardinality(S) + 1
<1>1. /\ IsFiniteSet(S \cup {i}) /\ Cardinality(S) \in Nat
      /\ Cardinality(S \cup {i}) = Cardinality(S) \/ Cardinality(S \cup {i}) = Cardinality(S) + 1
  BY FS_AddElement, FS_CardinalityType
<1>2. /\ Cardinality(T) \in Nat /\ Cardinality(S \cup {i}) \in Nat
      /\ Cardinality(T) <= Cardinality(S \cup {i})
  BY <1>1, FS_Subset, FS_CardinalityType
<1> QED
  BY <1>1, <1>2

\* The mark: the line just written is settled, or its row stays for another.
LEMMA MarkKeeps ==
  ASSUME OInv, NEW i \in mailer.rows, NEW done \in BOOLEAN, Mark(i, done)
  PROVE  OInv'
<1>1. OutboxTypeOK
  BY DEF OInv
<1>2. /\ mailer.pc = "mark" /\ InTurn(i)
      /\ outbox' = IF done /\ ~mailer.error
                   THEN [outbox EXCEPT ![i].sent = TRUE] ELSE outbox
      /\ mailer' = Without(i)
      /\ UNCHANGED <<notes, file>>
  BY DEF Mark
<1>3. slips \in Nat /\ slips' \in 0..MaxSlips /\ slips' = IF ~done THEN slips + 1 ELSE slips
  BY <1>1, SlipCounts DEF Mark
<1>4. /\ mailer'.pc = "send" /\ mailer'.rows = mailer.rows \ {i}
      /\ mailer' \in [pc: {"idle", "send", "mark", "queue"}, rows: SUBSET Nat, error: BOOLEAN]
  BY <1>1, <1>2 DEF OutboxTypeOK, Without
<1>5. /\ i \in DOMAIN outbox /\ ~outbox[i].sent /\ mailer.rows \subseteq DOMAIN outbox
      /\ DOMAIN outbox = 1..Len(outbox) /\ Len(outbox) \in Nat
      /\ outbox \in [DOMAIN outbox -> [note: DOMAIN notes, sent: BOOLEAN]]
  BY <1>1, <1>2, Countable DEF OutboxTypeOK, OInv, HeldUnsent
<1>6. /\ outbox' \in Seq([note: DOMAIN notes, sent: BOOLEAN])
      /\ DOMAIN outbox' = DOMAIN outbox
      /\ \A j \in DOMAIN outbox :
           /\ outbox'[j].note = outbox[j].note
           /\ outbox'[j].sent = (outbox[j].sent \/ (j = i /\ done /\ ~mailer.error))
  <2>1. CASE done /\ ~mailer.error
    <3> DEFINE row == [outbox[i] EXCEPT !.sent = TRUE]
    <3>1. row \in [note: DOMAIN notes, sent: BOOLEAN] /\ row.note = outbox[i].note /\ row.sent
      BY <1>5
    <3> HIDE DEF row
    <3>2. outbox' = [outbox EXCEPT ![i] = row]
      BY <1>2, <2>1 DEF row
    <3>3. outbox' \in Seq([note: DOMAIN notes, sent: BOOLEAN])
      BY <1>1, <1>5, <3>1, <3>2, ExceptSeq DEF OutboxTypeOK
    <3>4. DOMAIN outbox' = DOMAIN outbox
      BY <3>2
    <3>5. \A j \in DOMAIN outbox : outbox'[j] = IF j = i THEN row ELSE outbox[j]
      BY <1>5, <3>2
    <3>6. \A j \in DOMAIN outbox : outbox'[j].note = outbox[j].note
      BY <3>1, <3>5
    <3>7. \A j \in DOMAIN outbox : outbox'[j].sent = (outbox[j].sent \/ j = i)
      BY <1>5, <3>1, <3>5
    <3> QED
      BY <2>1, <3>3, <3>4, <3>6, <3>7
  <2>2. CASE ~(done /\ ~mailer.error)
    <3>1. outbox' = outbox
      BY <1>2, <2>2
    <3> QED
      BY <1>1, <1>5, <2>2, <3>1 DEF OutboxTypeOK
  <2> QED
    BY <2>1, <2>2
<1>7. OutboxTypeOK'
  BY <1>1, <1>2, <1>3, <1>4, <1>5, <1>6 DEF OutboxTypeOK
<1>8. HeldUnsent' /\ HeldLost'
  BY <1>2, <1>4, <1>5, <1>6 DEF OInv, HeldUnsent, HeldLost
<1>9. Landing = IF mailer.error THEN {} ELSE {i}
  BY <1>1, <1>2, OneInTurn DEF Landing
<1>10. Landing' = {}
  BY <1>4 DEF Landing
<1>11. LandingWritten' /\ SentInFile'
  BY <1>2, <1>6, <1>9, <1>10 DEF OInv, LandingWritten, SentInFile
<1>12. CopiesPaid'
  <2> DEFINE R == Cardinality(Range(file))
             A == Cardinality(Again)
  <2>1. /\ R \in Nat /\ A \in Nat /\ Len(file) \in Nat
        /\ IsFiniteSet(Again) /\ Range(file) \subseteq DOMAIN outbox
        /\ Len(file) + A <= R + slips
    BY <1>1, Countable DEF OInv, CopiesPaid
  <2>2. Again' = {j \in Range(file) : ~outbox'[j].sent}
    BY <1>2, <1>10 DEF Again
  <2>3. CASE mailer.error \/ done
    <3>1. Again' \subseteq Again
      BY <1>6, <1>9, <2>1, <2>2, <2>3 DEF Again
    <3>2. Cardinality(Again') <= A /\ Cardinality(Again') \in Nat
      BY <2>1, <3>1, FS_Subset, FS_CardinalityType
    <3> HIDE DEF R, A
    <3>3. Len(file) + Cardinality(Again') <= R + slips'
      BY <1>3, <2>1, <3>2
    <3> QED
      BY <1>2, <3>3 DEF CopiesPaid, R
  <2>4. CASE ~mailer.error /\ ~done
    <3>1. Again' \subseteq Again \cup {i}
      BY <1>6, <1>9, <2>1, <2>2, <2>4 DEF Again
    <3>2. Cardinality(Again') <= A + 1 /\ Cardinality(Again') \in Nat
      BY <2>1, <3>1, AtMostOneMore
    <3> HIDE DEF R, A
    <3>3. Len(file) + Cardinality(Again') <= R + slips'
      BY <1>3, <2>1, <2>4, <3>2
    <3> QED
      BY <1>2, <3>3 DEF CopiesPaid, R
  <2> QED
    BY <2>3, <2>4
<1>13. Lost' = Lost
  BY <1>2, <1>6 DEF Lost, Bare, Queued
<1>14. LostExplained'
  <2>1. Cardinality(Lost) \in Nat /\ Cardinality(Lost) <= slips + 0
    BY <1>1, <1>2, Countable DEF OInv, LostExplained
  <2>2. Cardinality(Lost') <= slips' + 0
    BY <1>3, <1>13, <2>1
  <2>3. \A n \in Lost' : notes'[n].by = "sweep"
    BY <1>2, <1>13 DEF OInv, LostExplained
  <2> QED
    BY <1>4, <2>2, <2>3 DEF LostExplained
<1>15. Unannounced'
  BY <1>2, <1>6 DEF OInv, Unannounced, Queued
<1> QED
  BY <1>7, <1>8, <1>11, <1>12, <1>14, <1>15 DEF OInv

\* A crash may lose a mark or the row of a notice, and is counted for either.
LEMMA CrashKeeps ==
  ASSUME OInv, CrashOutbox
  PROVE  OInv'
<1>1. OutboxTypeOK
  BY DEF OInv
<1>2. mailer' = Resting /\ UNCHANGED <<notes, outbox, file>> /\ Slip(mailer.pc # "idle")
  BY DEF CrashOutbox
<1>3. /\ slips \in Nat /\ slips' \in 0..MaxSlips
      /\ slips' = IF mailer.pc # "idle" THEN slips + 1 ELSE slips
  BY <1>1, <1>2, SlipCounts
<1>4. OutboxTypeOK'
  BY <1>1, <1>2, <1>3, RestingType DEF OutboxTypeOK
<1>5. HeldUnsent' /\ HeldLost'
  BY <1>2, RestingType DEF HeldUnsent, HeldLost
<1>6. Landing' = {}
  BY <1>2, RestingType DEF Landing
<1>7. LandingWritten' /\ SentInFile'
  BY <1>2, <1>6 DEF OInv, LandingWritten, SentInFile
<1>8. CopiesPaid'
  <2> DEFINE R == Cardinality(Range(file))
             A == Cardinality(Again)
  <2>1. /\ R \in Nat /\ A \in Nat /\ Len(file) \in Nat
        /\ IsFiniteSet(Again) /\ Range(file) \subseteq DOMAIN outbox
        /\ Len(file) + A <= R + slips
    BY <1>1, Countable DEF OInv, CopiesPaid
  <2>2. Again' = {j \in Range(file) : ~outbox[j].sent}
    BY <1>2, <1>6 DEF Again
  <2>3. CASE Landing = {}
    <3>1. Again' = Again
      BY <2>2, <2>3 DEF Again
    <3> QED
      BY <1>2, <1>3, <2>1, <3>1 DEF CopiesPaid
  <2>4. CASE Landing # {}
    <3>1. PICK i \in mailer.rows : InTurn(i) /\ mailer.pc = "mark"
      BY <2>4 DEF Landing
    <3>2. Landing \subseteq {i}
      BY <1>1, <3>1, OneInTurn DEF Landing
    <3>3. Again' \subseteq Again \cup {i}
      BY <2>2, <3>2 DEF Again
    <3>4. Cardinality(Again') <= A + 1 /\ Cardinality(Again') \in Nat
      BY <2>1, <3>3, AtMostOneMore
    <3>5. slips' = slips + 1
      BY <1>3, <3>1
    <3> HIDE DEF R, A
    <3>6. Len(file) + Cardinality(Again') <= R + slips'
      BY <1>3, <2>1, <3>4, <3>5
    <3> QED
      BY <1>2, <3>6 DEF CopiesPaid, R
  <2> QED
    BY <2>3, <2>4
<1>9. LostExplained' /\ Unannounced'
  BY <1>2, <1>3, LostStay
<1> QED
  BY <1>4, <1>5, <1>7, <1>8, <1>9 DEF OInv
-----------------------------------------------------------------------------
LEMMA OutboxInitKeeps == OutboxInit => OInv
<1> SUFFICES ASSUME OutboxInit PROVE OInv
  OBVIOUS
<1>1. notes = <<>> /\ outbox = <<>> /\ file = <<>> /\ mailer = Resting /\ slips = 0
  BY DEF OutboxInit
<1>2. DOMAIN notes = {} /\ DOMAIN outbox = {} /\ DOMAIN file = {} /\ Len(file) = 0
  BY <1>1
<1>3. OutboxTypeOK
  BY <1>1, <1>2, RestingType, EmptySeq, OutboxBounds DEF OutboxTypeOK
<1>4. Range(file) = {}
  BY <1>2 DEF Range
<1>5. Again = {} /\ Lost = {} /\ Landing = {}
  BY <1>1, <1>2, <1>4, RestingType DEF Again, Lost, Bare, Landing
<1>6. HeldUnsent /\ HeldLost /\ LandingWritten /\ SentInFile
  BY <1>1, <1>2, <1>5, RestingType DEF HeldUnsent, HeldLost, LandingWritten, SentInFile
<1>7. CopiesPaid
  BY <1>1, <1>2, <1>4, <1>5, FS_EmptySet DEF CopiesPaid
<1>8. LostExplained /\ Unannounced
  BY <1>1, <1>2, <1>5, RestingType, FS_EmptySet DEF LostExplained, Unannounced
<1> QED
  BY <1>3, <1>6, <1>7, <1>8 DEF OInv

LEMMA OutboxNextKeeps == OInv /\ [OutboxStep]_outboxVars => OInv'
<1> SUFFICES ASSUME OInv, [OutboxStep]_outboxVars PROVE OInv'
  OBVIOUS
<1>1. CASE \E topic \in Topics :
             Notify(topic) \/ NoticeHold(topic) \/ \E users \in 1..MaxNotes : Announce(topic, users)
  BY <1>1, NotifyKeeps, NoticeKeeps, AnnounceKeeps
<1>2. CASE ListUnsent \/ EndDispatch
  BY <1>2, ListKeeps
<1>3. CASE \E done \in BOOLEAN : QueueHold(done)
  BY <1>3, QueueKeeps
<1>4. CASE \E i \in mailer.rows, written, error \in BOOLEAN : Send(i, written, error)
  BY <1>4, SendKeeps
<1>5. CASE \E i \in mailer.rows, done \in BOOLEAN : Mark(i, done)
  BY <1>5, MarkKeeps
<1>6. CASE CrashOutbox
  BY <1>6, CrashKeeps
<1>7. CASE UNCHANGED outboxVars
  BY <1>7 DEF outboxVars, OInv, OutboxTypeOK, HeldUnsent, HeldLost, LandingWritten,
              SentInFile, CopiesPaid, LostExplained, Unannounced, Landing, Again, Lost,
              Bare, Queued, InTurn
<1> QED
  BY <1>1, <1>2, <1>3, <1>4, <1>5, <1>6, <1>7 DEF OutboxStep, Dispatch

\* No step of the composition does to the outbox what Outbox would not.
LEMMA OutboxStepProjects == [DeliveryNext]_deliveryVars => [OutboxStep]_outboxVars
<1> SUFFICES ASSUME [DeliveryNext]_deliveryVars
             PROVE  OutboxStep \/ UNCHANGED outboxVars
  OBVIOUS
<1>1. CASE \E m \in Request : Serve(m)
  <2>1. PICK m \in Request : Commit(m) \/ UNCHANGED outboxVars
    BY <1>1 DEF Serve
  <2>2. m \in Topics
    BY NotifyingAssumption
  <2> QED
    BY <2>1, <2>2 DEF Commit, Tell, OutboxStep
<1>2. CASE (Dispatch \/ NoticeHold(Hold)) /\ UNCHANGED receiptVars
  BY <1>2, NotifyingAssumption DEF OutboxStep
<1>3. CASE Crash
  BY <1>3 DEF Crash, OutboxStep
<1>4. CASE UNCHANGED deliveryVars
  BY <1>4 DEF deliveryVars
<1> QED
  BY <1>1, <1>2, <1>3, <1>4 DEF DeliveryNext

\* Notifications, rows, file and dispatch agree in every reachable state.
THEOREM OutboxInvariance == DeliverySpec => []OInv
BY OutboxInitKeeps, OutboxNextKeeps, OutboxStepProjects, PTL DEF DeliverySpec, DeliveryInit

\* Every outbox row belongs to a notification, with at most one row each.
THEOREM OutboxTyped == DeliverySpec => []OutboxTypeOK
<1>1. OInv => OutboxTypeOK
  BY DEF OInv
<1> QED
  BY <1>1, OutboxInvariance, PTL

\* A row counts as sent only when its line is in the file, whatever failed
\* between the append and the mark.
THEOREM SentOnlyWhenWritten == DeliverySpec => []SentIsWritten
<1>1. OInv => SentIsWritten
  <2> SUFFICES ASSUME OInv, NEW i \in DOMAIN outbox, outbox[i].sent
               PROVE  Cardinality({n \in DOMAIN file : file[n] = i}) > 0
    BY DEF SentIsWritten, Copies
  <2> DEFINE C == {n \in DOMAIN file : file[n] = i}
  <2>1. C # {}
    BY DEF OInv, SentInFile, Range
  <2>2. IsFiniteSet(DOMAIN file)
    BY LenProperties, FS_Interval DEF OInv, OutboxTypeOK
  <2>3. IsFiniteSet(C) /\ Cardinality(C) \in Nat
    BY <2>2, FS_Subset, FS_CardinalityType
  <2>4. Cardinality(C) # 0
    BY <2>1, <2>3, FS_EmptySet
  <2> QED
    BY <2>3, <2>4
<1> QED
  BY <1>1, OutboxInvariance, PTL

\* The file holds no more second lines than steps of the dispatch went wrong.
THEOREM CopiesAreSlips == DeliverySpec => []CopiesExplained
<1>1. OInv => CopiesExplained
  <2> SUFFICES ASSUME OInv
               PROVE  Len(file) <= Cardinality(Range(file)) + slips
    BY DEF CopiesExplained
  <2>1. /\ Len(file) \in Nat /\ Cardinality(Again) \in Nat /\ slips \in Nat
        /\ Cardinality(Range(file)) \in Nat
    BY Countable, OutboxBounds DEF OInv, OutboxTypeOK
  <2>2. Len(file) + Cardinality(Again) <= Cardinality(Range(file)) + slips
    BY DEF OInv, CopiesPaid
  <2> QED
    BY <2>1, <2>2
<1> QED
  BY <1>1, OutboxInvariance, PTL

\* What notify() wrote in a transaction has its outbox row, unlike announcements;
\* what it wrote outside one is without at most once for each step that went
\* wrong, and while it is being written.
THEOREM NotesHaveRows == DeliverySpec => []NotesQueued
<1>1. OInv => NotesQueued
  BY DEF OInv, LostExplained, Unannounced, Lost, Bare, NotesQueued
<1> QED
  BY <1>1, OutboxInvariance, PTL
=============================================================================
