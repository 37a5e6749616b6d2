----------------------------- MODULE SmtpProofs -----------------------------
(***************************************************************************)
(* Proofs about SmtpNotifier, for every set of keys, windows and bounds.   *)
(***************************************************************************)
EXTENDS SmtpNotifier, TLAPS

\* The marks of a cycle concern events that the table does not have as
\* notified, and no time in the table is later than the cycle's.
CycleState ==
    /\ ~running => marks = NoMarks /\ todo = {}
    /\ running => \A i \in Ids : notifiedAt[i] <= cycleNow
    /\ \A i \in todo : notified[i] = "no" /\ marks[i] = "no"
    /\ \A i \in Ids : marks[i] # "no" => notified[i] = "no" /\ i \in Recorded
    /\ \A i \in Ids : notified[i] # "no" => i \in Recorded

SentMark(i) == notified[i] = "sent" \/ marks[i] = "sent"

\* Every accepted mail has its mark, or is counted as uncertain.
Counted ==
    \A i \in Ids :
        /\ accepted[i] <= uncertain[i] + (IF SentMark(i) THEN 1 ELSE 0)
        /\ SentMark(i) => accepted[i] > 0

\* A duplicate in the table has its mail in the table; a duplicate among the
\* marks may have it there too.
Rooted ==
    /\ \A i \in Recorded : notified[i] = "duplicate" =>
          \E j \in Recorded : log[j] = log[i] /\ notified[j] = "sent"
    /\ \A i \in Recorded : marks[i] = "duplicate" =>
          \E j \in Recorded : log[j] = log[i] /\ SentMark(j)

\* The mails of the cycle keep the distance, to the table and to each other.
Spaced ==
    /\ OneMailPerWindow
    /\ \A i, j \in Recorded :
          marks[i] = "sent" /\ i # j /\ log[j] = log[i]
          => /\ marks[j] # "sent"
             /\ notified[j] = "sent" =>
                   cycleNow - notifiedAt[j] > SuppressWindow(log[i])

\* The alerts a cycle has to deal with.
Due(i) ==
    /\ log[i] \notin Muted /\ occurredAt[i] < cycleNow
    /\ cycleNow - occurredAt[i] <= SuppressWindow(log[i])

\* As long as no send has failed, each of them is waiting, marked or notified.
Complete ==
    running /\ ~failed =>
        \A i \in Recorded : Due(i) => i \in todo \/ marks[i] # "no" \/ notified[i] # "no"

SmtpInv == TypeOK /\ CycleState /\ Counted /\ Rooted /\ Spaced /\ Complete

\* The empty events table satisfies the invariant.
LEMMA SmtpInit == Init => SmtpInv
<1> SUFFICES ASSUME Init PROVE SmtpInv
  OBVIOUS
<1>1. /\ Recorded = {} /\ log \in Seq(Keys) /\ Len(log) = 0
      /\ notified = NoMarks /\ marks = NoMarks /\ ~running /\ todo = {}
  BY DEF Init, Recorded
<1>2. TableTypes /\ CycleTypes /\ MailTypes /\ NothingAhead
  BY <1>1, SmtpAssumption
     DEF Init, TableTypes, CycleTypes, MailTypes, NothingAhead, NoMarks, Marks
<1>3. FlagTypes
  BY Zenon DEF Init, FlagTypes
<1>4. CycleState /\ Counted /\ Rooted /\ Spaced /\ Complete
  BY <1>1 DEF Init, CycleState, Counted, Rooted, Spaced, Complete, OneMailPerWindow, NoMarks,
     SentMark, Ids
<1>5. QED
  BY <1>2, <1>3, <1>4 DEF SmtpInv, TypeOK

\* A suppress window is a natural number.
LEMMA WindowType == \A key : SuppressWindow(key) \in Nat
  BY SmtpAssumption DEF SuppressWindow

\* Every action keeps the types of the events table.
LEMMA TableTypesStep == TypeOK /\ [Next]_vars => TableTypes'
<1> SUFFICES ASSUME TypeOK, [Next]_vars PROVE TableTypes'
  OBVIOUS
<1> USE DEF TableTypes
<1>0. TableTypes /\ CycleTypes
  BY DEF TypeOK
<1>1. CASE Tick
  BY <1>0, <1>1 DEF Tick, tableVars
<1>2. ASSUME NEW key \in Keys, RecordEvent(key) PROVE TableTypes'
  <2>1. log' \in Seq(Keys) /\ Len(log') <= MaxEvents
    BY <1>0, <1>2, SmtpAssumption DEF RecordEvent
  <2>2. occurredAt' \in [Ids -> Nat]
    BY <1>0, <1>2 DEF RecordEvent
  <2>3. QED
    BY <1>0, <1>2, <2>1, <2>2 DEF RecordEvent
<1>3. CASE Commit
  <2>1. notified' \in [Ids -> Marks] /\ notifiedAt' \in [Ids -> Nat]
    BY <1>0, <1>3 DEF Commit, CycleTypes
  <2>2. QED
    BY <1>0, <1>3, <2>1 DEF Commit
<1>4. CASE UNCHANGED <<now, tableVars>>
  BY <1>0, <1>4 DEF tableVars
<1>5. QED
  BY <1>1, <1>2, <1>3, <1>4 DEF Next, MaintenanceStarts, MaintenanceEnds, CycleStart,
     Deduplicate, SendMail, Mark, SendFails, AnswerLost, CycleAborts, Crash, RollBack, vars

\* Every action keeps the types of the cycle's memory.
LEMMA CycleTypesStep == TypeOK /\ [Next]_vars => CycleTypes'
<1> SUFFICES ASSUME TypeOK, [Next]_vars PROVE CycleTypes'
  OBVIOUS
<1> USE DEF CycleTypes
<1>0. CycleTypes /\ now \in Nat /\ log \in Seq(Keys)
  BY DEF TypeOK, TableTypes
<1>1. NoMarks \in [Ids -> Marks]
  BY DEF NoMarks, Marks
<1>2. ASSUME NEW key \in Keys, RecordEvent(key) PROVE CycleTypes'
  <2>1. Recorded \subseteq Recorded'
    BY <1>0, <1>2 DEF RecordEvent, Recorded
  <2>2. QED
    BY <1>0, <1>2, <2>1 DEF RecordEvent, cycleVars
<1>3. CASE CycleStart
  BY <1>0, <1>1, <1>3 DEF CycleStart, tableVars, Recorded
<1>4. ASSUME NEW i \in Ids, Deduplicate(i) \/ SendMail(i) PROVE CycleTypes'
  BY <1>0, <1>4 DEF Deduplicate, SendMail, Mark, Marks, tableVars, Recorded
<1>5. ASSUME NEW i \in Ids, SendFails(i) \/ AnswerLost(i) PROVE CycleTypes'
  BY <1>0, <1>5 DEF SendFails, AnswerLost, tableVars, Recorded
<1>6. CASE EndCycle
  BY <1>0, <1>1, <1>6 DEF EndCycle
<1>7. CASE UNCHANGED <<log, cycleVars>>
  BY <1>0, <1>7 DEF cycleVars, Recorded
<1>8. QED
  BY <1>2, <1>3, <1>4, <1>5, <1>6, <1>7 DEF Next, Tick, MaintenanceStarts,
     MaintenanceEnds, Commit, CycleAborts, Crash, RollBack, vars, tableVars

\* Every action keeps the types of the observations.
LEMMA MailTypesStep == TypeOK /\ [Next]_vars => MailTypes'
<1> SUFFICES ASSUME TypeOK, [Next]_vars PROVE MailTypes'
  OBVIOUS
<1> USE SmtpAssumption DEF MailTypes
<1>0. MailTypes
  BY DEF TypeOK
<1>1. ForgottenMails \in [Ids -> Nat]
  BY <1>0 DEF ForgottenMails
<1>2. ASSUME NEW i \in Ids, SendMail(i) \/ AnswerLost(i) PROVE MailTypes'
  BY <1>0, <1>2 DEF SendMail, AnswerLost
<1>3. CASE CycleAborts
  BY <1>0, <1>1, <1>3 DEF CycleAborts, RollBack
<1>4. CASE Crash
  BY <1>0, <1>1, <1>4 DEF Crash, RollBack
<1>5. CASE UNCHANGED mailVars
  BY <1>0, <1>5 DEF mailVars
<1>6. QED
  BY <1>2, <1>3, <1>4, <1>5 DEF Next, Tick, MaintenanceStarts, MaintenanceEnds,
     RecordEvent, CycleStart, Deduplicate, SendFails, Commit, vars

\* No action writes a time ahead of the clock.
LEMMA NothingAheadStep == TypeOK /\ [Next]_vars => NothingAhead'
<1> SUFFICES ASSUME TypeOK, [Next]_vars PROVE NothingAhead'
  OBVIOUS
<1> USE DEF NothingAhead
<1>0. /\ NothingAhead /\ now \in Nat /\ cycleNow \in Nat
      /\ occurredAt \in [Ids -> Nat] /\ notifiedAt \in [Ids -> Nat]
  BY DEF TypeOK, TableTypes, CycleTypes
<1>1. CASE Tick
  BY <1>0, <1>1 DEF Tick, tableVars, cycleVars
<1>2. ASSUME NEW key \in Keys, RecordEvent(key) PROVE NothingAhead'
  BY <1>0, <1>2 DEF RecordEvent, cycleVars
<1>3. CASE CycleStart
  BY <1>0, <1>3 DEF CycleStart, tableVars
<1>4. CASE Commit
  BY <1>0, <1>4 DEF Commit, EndCycle
<1>5. CASE UNCHANGED <<now, tableVars>> /\ cycleNow' \in {0, cycleNow}
  BY <1>0, <1>5 DEF tableVars
<1>6. QED
  BY <1>1, <1>2, <1>3, <1>4, <1>5 DEF Next, MaintenanceStarts, MaintenanceEnds,
     Deduplicate, SendMail, Mark, SendFails, AnswerLost, CycleAborts, Crash, RollBack,
     EndCycle, vars, cycleVars

\* Every action keeps the flags Boolean.
LEMMA FlagTypesStep == FlagTypes /\ [Next]_vars => FlagTypes'
<1> SUFFICES ASSUME FlagTypes, [Next]_vars PROVE FlagTypes'
  OBVIOUS
<1> USE DEF FlagTypes
<1>1. CASE Tick \/ (\E key \in Keys : RecordEvent(key)) \/ UNCHANGED vars
  BY <1>1, Zenon DEF Tick, RecordEvent, vars, cycleVars
<1>2. CASE MaintenanceStarts \/ MaintenanceEnds \/ CycleStart
  BY <1>2, Zenon DEF MaintenanceStarts, MaintenanceEnds, CycleStart, cycleVars
<1>3. CASE \E i \in Ids : Deduplicate(i) \/ SendMail(i) \/ SendFails(i) \/ AnswerLost(i)
  BY <1>3, Zenon DEF Deduplicate, SendMail, Mark, SendFails, AnswerLost
<1>4. CASE Commit \/ CycleAborts \/ Crash
  BY <1>4, Zenon DEF Commit, CycleAborts, Crash, RollBack, EndCycle
<1>5. QED
  BY <1>1, <1>2, <1>3, <1>4 DEF Next

\* The inductive step of type correctness.
LEMMA TypeStep == TypeOK /\ [Next]_vars => TypeOK'
  BY TableTypesStep, CycleTypesStep, MailTypesStep, FlagTypesStep, NothingAheadStep DEF TypeOK

-----------------------------------------------------------------------------
\* The events in the table are among Ids.
LEMMA RecordedIds == TypeOK => Recorded \subseteq Ids
  BY SmtpAssumption DEF TypeOK, TableTypes, Recorded, Ids

\* What is known of the marks and of the waiting events survives every action.
LEMMA CycleStateStep == SmtpInv /\ [Next]_vars => CycleState'
<1> SUFFICES ASSUME SmtpInv, [Next]_vars PROVE CycleState'
  OBVIOUS
<1> USE DEF CycleState
<1>0. /\ CycleState /\ TypeOK /\ Recorded \subseteq Ids
      /\ notified \in [Ids -> Marks] /\ marks \in [Ids -> Marks]
      /\ notifiedAt \in [Ids -> Nat] /\ cycleNow \in Nat /\ now \in Nat
      /\ \A i \in Ids : notifiedAt[i] <= now
      /\ todo \subseteq Recorded
  BY RecordedIds DEF SmtpInv, TypeOK, TableTypes, CycleTypes, NothingAhead
<1>1. CASE UNCHANGED <<tableVars, cycleVars>>
  BY <1>0, <1>1 DEF tableVars, cycleVars, Recorded
<1>2. ASSUME NEW key \in Keys, RecordEvent(key) PROVE CycleState'
  <2>1. Recorded \subseteq Recorded'
    BY <1>0, <1>2 DEF RecordEvent, Recorded, TypeOK, TableTypes
  <2>2. QED
    BY <1>0, <1>2, <2>1 DEF RecordEvent, cycleVars
<1>3. CASE CycleStart
  <2>1. /\ marks' = NoMarks /\ running' /\ cycleNow' = now
        /\ UNCHANGED <<notified, notifiedAt, log>>
        /\ \A i \in todo' : i \in Ids /\ notified[i] = "no"
    BY <1>0, <1>3 DEF CycleStart, IsPending, tableVars
  <2>2. QED
    BY <1>0, <2>1 DEF NoMarks, Recorded
<1>4. ASSUME NEW i \in Ids, Deduplicate(i) \/ SendMail(i) PROVE CycleState'
  <2>1. /\ running /\ i \in todo /\ running' = running /\ cycleNow' = cycleNow
        /\ todo' = todo \ {i} /\ UNCHANGED <<notified, notifiedAt, log>>
        /\ \A j \in Ids \ {i} : marks'[j] = marks[j]
    BY <1>0, <1>4 DEF Deduplicate, SendMail, Mark, IsNext, tableVars
  <2>2. QED
    BY <1>0, <2>1 DEF Recorded
<1>5. ASSUME NEW i \in Ids, SendFails(i) \/ AnswerLost(i) PROVE CycleState'
  <2>1. /\ running /\ running' = running /\ cycleNow' = cycleNow
        /\ todo' = todo \ {i} /\ UNCHANGED <<notified, notifiedAt, log, marks>>
    BY <1>0, <1>5 DEF SendFails, AnswerLost, IsNext, tableVars
  <2>2. QED
    BY <1>0, <2>1 DEF Recorded
<1>6. CASE Commit
  <2>1. /\ ~running' /\ todo' = {} /\ marks' = NoMarks /\ log' = log
        /\ \A i \in Ids : notified'[i] # "no" => notified[i] # "no" \/ marks[i] # "no"
    BY <1>0, <1>6 DEF Commit, EndCycle
  <2>2. QED
    BY <1>0, <2>1 DEF NoMarks, Recorded
<1>7. CASE RollBack
  <2>1. /\ ~running' /\ todo' = {} /\ marks' = NoMarks /\ UNCHANGED <<log, notified>>
    BY <1>7 DEF RollBack, EndCycle, tableVars
  <2>2. QED
    BY <1>0, <2>1 DEF NoMarks, Recorded
<1>8. QED
  BY <1>1, <1>2, <1>3, <1>4, <1>5, <1>6, <1>7 DEF Next, Tick, MaintenanceStarts,
     MaintenanceEnds, CycleAborts, Crash, vars

\* Every accepted mail stays accounted for: by its mark, by the table, or as
\* uncertain once the mark is rolled back.
LEMMA CountedStep == SmtpInv /\ [Next]_vars => Counted'
<1> SUFFICES ASSUME SmtpInv, [Next]_vars PROVE Counted'
  OBVIOUS
<1> USE DEF Counted, SentMark
<1>0. /\ CycleState /\ Counted
      /\ notified \in [Ids -> Marks] /\ marks \in [Ids -> Marks]
      /\ accepted \in [Ids -> Nat] /\ uncertain \in [Ids -> Nat]
      /\ \A i \in Ids : marks[i] # "no" => notified[i] = "no"
      /\ ~running => marks = NoMarks
  BY DEF SmtpInv, TypeOK, TableTypes, CycleTypes, MailTypes, CycleState
<1>1. CASE UNCHANGED <<notified, marks, accepted, uncertain>>
  BY <1>0, <1>1
<1>2. CASE CycleStart
  BY <1>0, <1>2 DEF CycleStart, tableVars, mailVars
<1>3. ASSUME NEW i \in Ids, Deduplicate(i) \/ SendMail(i) \/ AnswerLost(i) PROVE Counted'
  <2>1. notified[i] = "no" /\ marks[i] = "no" /\ notified' = notified
    BY <1>0, <1>3 DEF Deduplicate, SendMail, AnswerLost, Mark, IsNext, tableVars, CycleState
  <2>2. accepted[i] <= uncertain[i]
    BY <1>0, <2>1
  <2>3. CASE Deduplicate(i)
    BY <1>0, <2>1, <2>2, <2>3 DEF Deduplicate, Mark, mailVars
  <2>4. CASE SendMail(i)
    BY <1>0, <2>1, <2>2, <2>4 DEF SendMail, Mark
  <2>5. CASE AnswerLost(i)
    BY <1>0, <2>1, <2>2, <2>5 DEF AnswerLost
  <2>6. QED
    BY <1>3, <2>3, <2>4, <2>5
<1>4. CASE Commit
  <2>1. \A i \in Ids : SentMark(i)' <=> SentMark(i)
    BY <1>0, <1>4 DEF Commit, EndCycle, NoMarks
  <2>2. UNCHANGED <<accepted, uncertain>>
    BY <1>4 DEF Commit, mailVars
  <2>3. QED
    BY <1>0, <2>1, <2>2
<1>5. \A i \in Ids : /\ accepted[i] <= ForgottenMails[i] + (IF notified[i] = "sent" THEN 1 ELSE 0)
                     /\ ForgottenMails[i] \in Nat
  BY <1>0 DEF ForgottenMails
<1>6. CASE CycleAborts
  BY <1>0, <1>5, <1>6 DEF CycleAborts, RollBack, EndCycle, NoMarks, tableVars
<1>7. CASE Crash
  <2>1. notified' = notified /\ marks' = NoMarks
    BY <1>7 DEF Crash, RollBack, EndCycle, tableVars
  <2>2. ForgottenMails \in [Ids -> Nat]
    BY <1>0 DEF ForgottenMails
  <2>3. CASE uncertain' = ForgottenMails /\ accepted' = accepted
    BY <1>0, <1>5, <2>1, <2>3 DEF NoMarks
  <2>4. ASSUME NEW i \in todo, i \in Ids, notified[i] = "no",
               uncertain' = [ForgottenMails EXCEPT ![i] = @ + 1],
               accepted' = [accepted EXCEPT ![i] = @ + 1]
        PROVE  Counted'
    BY <1>0, <1>5, <2>1, <2>2, <2>4 DEF NoMarks
  <2>5. \A i \in todo : i \in Ids /\ notified[i] = "no"
    BY RecordedIds DEF SmtpInv, TypeOK, CycleTypes, CycleState
  <2>6. QED
    BY <1>7, <2>3, <2>4, <2>5 DEF Crash
<1>8. QED
  BY <1>1, <1>2, <1>3, <1>4, <1>6, <1>7 DEF Next, Tick, MaintenanceStarts,
     MaintenanceEnds, RecordEvent, SendFails, vars, tableVars, cycleVars, mailVars

\* Every duplicate keeps the mail it stands behind.
LEMMA RootedStep == SmtpInv /\ [Next]_vars => Rooted'
<1> SUFFICES ASSUME SmtpInv, [Next]_vars PROVE Rooted'
  OBVIOUS
<1> USE DEF Rooted, SentMark
<1>0. /\ CycleState /\ Rooted /\ Recorded \subseteq Ids
      /\ notified \in [Ids -> Marks] /\ marks \in [Ids -> Marks]
      /\ \A i \in Ids : marks[i] # "no" => notified[i] = "no" /\ i \in Recorded
      /\ \A i \in Ids : notified[i] # "no" => i \in Recorded
  BY RecordedIds DEF SmtpInv, TypeOK, TableTypes, CycleTypes, CycleState
<1>1. ASSUME UNCHANGED tableVars, marks' = marks \/ marks' = NoMarks PROVE Rooted'
  BY <1>0, <1>1 DEF tableVars, Recorded, NoMarks
<1>2. ASSUME NEW key \in Keys, RecordEvent(key) PROVE Rooted'
  <2>1. /\ Recorded \subseteq Recorded' /\ \A i \in Recorded : log'[i] = log[i]
        /\ UNCHANGED <<notified, marks>>
        /\ \A i \in Recorded' : i \in Ids
        /\ \A i \in Recorded' : i \notin Recorded => notified[i] = "no" /\ marks[i] = "no"
    <3>1. log \in Seq(Keys) /\ MaxEvents \in Nat
      BY SmtpAssumption DEF SmtpInv, TypeOK, TableTypes
    <3>2. /\ Recorded \subseteq Recorded' /\ \A i \in Recorded : log'[i] = log[i]
          /\ UNCHANGED <<notified, marks>> /\ \A i \in Recorded' : i \in Ids
      BY <1>2, <3>1 DEF RecordEvent, Recorded, Ids, cycleVars
    <3>3. QED
      BY <1>0, <3>2 DEF Marks
  <2>2. QED
    BY <1>0, <2>1
<1>3. ASSUME NEW i \in Ids, Deduplicate(i) PROVE Rooted'
  <2>1. /\ i \in todo /\ marks' = [marks EXCEPT ![i] = "duplicate"]
        /\ notified[i] = "no" /\ marks[i] = "no" /\ UNCHANGED <<log, notified>>
    BY <1>0, <1>3 DEF Deduplicate, Mark, IsNext, tableVars, CycleState
  <2>2. PICK j \in Recorded \ {i} : log[j] = log[i] /\ (marks[j] # "no" \/ notified[j] # "no")
    BY <1>3 DEF Deduplicate, NotifiedRecently
  <2>3. PICK k \in Recorded : log[k] = log[i] /\ (notified[k] = "sent" \/ marks[k] = "sent")
    <3>1. \/ notified[j] = "sent" \/ marks[j] = "sent"
          \/ notified[j] = "duplicate" \/ marks[j] = "duplicate"
      BY <1>0, <2>2 DEF Marks
    <3>2. QED
      BY <1>0, <2>2, <3>1
  <2>4. k # i
    BY <2>1, <2>3
  <2>5. SentMark(k)'
    BY <1>0, <2>1, <2>3, <2>4
  <2>6. Recorded' = Recorded /\ log' = log /\ notified' = notified
    BY <2>1 DEF Recorded
  <2>7. \A m \in Recorded : SentMark(m) => SentMark(m)'
    BY <1>0, <2>1
  <2>8. \A m \in Recorded : marks'[m] = "duplicate" => m = i \/ marks[m] = "duplicate"
    BY <1>0, <2>1
  <2>9. QED
    BY <1>0, <2>3, <2>5, <2>6, <2>7, <2>8
<1>4. ASSUME NEW i \in Ids, SendMail(i) PROVE Rooted'
  <2>1. /\ marks' = [marks EXCEPT ![i] = "sent"]
        /\ notified[i] = "no" /\ marks[i] = "no" /\ UNCHANGED <<log, notified>>
    BY <1>0, <1>4 DEF SendMail, Mark, IsNext, tableVars, CycleState
  <2>2. Recorded' = Recorded
    BY <2>1 DEF Recorded
  <2>3. \A m \in Recorded : /\ SentMark(m) => SentMark(m)'
                            /\ marks'[m] = "duplicate" => marks[m] = "duplicate"
    BY <1>0, <2>1
  <2>4. QED
    BY <1>0, <2>1, <2>2, <2>3
<1>5. CASE Commit
  <2>1. log' = log /\ Recorded' = Recorded /\ marks' = NoMarks
    BY <1>5 DEF Commit, EndCycle, Recorded
  <2>2. \A m \in Recorded :
           /\ SentMark(m) => notified'[m] = "sent"
           /\ notified'[m] = "duplicate" => notified[m] = "duplicate" \/ marks[m] = "duplicate"
           /\ marks'[m] = "no"
    BY <1>0, <1>5, <2>1 DEF Commit, NoMarks
  <2>3. QED
    BY <1>0, <2>1, <2>2
<1>6. QED
  BY <1>1, <1>2, <1>3, <1>4, <1>5 DEF Next, Tick, MaintenanceStarts, MaintenanceEnds,
     CycleStart, SendFails, AnswerLost, CycleAborts, Crash, RollBack, EndCycle, vars, cycleVars

\* The mails of a cycle keep their distance until they are in the table.
LEMMA SpacedStep == SmtpInv /\ [Next]_vars => Spaced'
<1> SUFFICES ASSUME SmtpInv, [Next]_vars PROVE Spaced'
  OBVIOUS
<1> USE DEF Spaced, OneMailPerWindow
<1>0. /\ CycleState /\ Spaced /\ Recorded \subseteq Ids
      /\ notified \in [Ids -> Marks] /\ marks \in [Ids -> Marks]
      /\ notifiedAt \in [Ids -> Nat] /\ cycleNow \in Nat
      /\ \A i \in Ids : marks[i] # "no" => notified[i] = "no" /\ i \in Recorded
      /\ \A i \in Ids : notified[i] # "no" => i \in Recorded
      /\ \A key : SuppressWindow(key) \in Nat
  BY RecordedIds, WindowType DEF SmtpInv, TypeOK, TableTypes, CycleTypes, CycleState
<1>1. ASSUME UNCHANGED tableVars, \/ marks' = marks /\ cycleNow' = cycleNow
                                  \/ marks' = NoMarks
      PROVE Spaced'
  <2>1. UNCHANGED <<log, notified, notifiedAt>> /\ Recorded' = Recorded
    BY <1>1 DEF tableVars, Recorded
  <2>2. CASE marks' = NoMarks
    BY <1>0, <2>1, <2>2 DEF NoMarks
  <2>3. CASE marks' = marks /\ cycleNow' = cycleNow
    BY <1>0, <2>1, <2>3
  <2>4. QED
    BY <1>1, <2>2, <2>3
<1>2. ASSUME NEW key \in Keys, RecordEvent(key) PROVE Spaced'
  <2>1. /\ \A i \in Recorded : log'[i] = log[i]
        /\ UNCHANGED <<notified, notifiedAt, marks, cycleNow>>
        /\ \A i \in Recorded' : i \in Ids
    <3>1. log \in Seq(Keys) /\ MaxEvents \in Nat
      BY SmtpAssumption DEF SmtpInv, TypeOK, TableTypes
    <3>2. QED
      BY <1>2, <3>1 DEF RecordEvent, Recorded, Ids, cycleVars
  <2>2. \A i \in Recorded' : i \notin Recorded => notified[i] = "no" /\ marks[i] = "no"
    BY <1>0, <2>1
  <2>3. QED
    BY <1>0, <2>1, <2>2
<1>3. ASSUME NEW i \in Ids, Deduplicate(i) \/ SendMail(i) PROVE Spaced'
  <2>1. /\ UNCHANGED <<log, notified, notifiedAt, cycleNow>> /\ Recorded' = Recorded
        /\ \A m \in Ids \ {i} : marks'[m] = marks[m]
        /\ notified[i] = "no"
    BY <1>0, <1>3 DEF Deduplicate, SendMail, Mark, IsNext, tableVars, Recorded, CycleState
  <2>2. CASE Deduplicate(i)
    <3>1. marks'[i] = "duplicate"
      BY <1>0, <2>2 DEF Deduplicate, Mark
    <3>2. QED
      BY <1>0, <2>1, <3>1
  <2>3. CASE SendMail(i)
    <3>1. \A j \in Recorded \ {i} : log[j] = log[i] =>
             /\ marks[j] = "no"
             /\ notified[j] # "no" => ~(cycleNow - notifiedAt[j] <= SuppressWindow(log[i]))
      BY <2>3 DEF SendMail, NotifiedRecently
    <3>2. \A j \in Recorded \ {i} : log[j] = log[i] /\ notified[j] = "sent" =>
             cycleNow - notifiedAt[j] > SuppressWindow(log[i])
      BY <1>0, <3>1
    <3>3. QED
      BY <1>0, <2>1, <3>1, <3>2
  <2>4. QED
    BY <1>3, <2>2, <2>3
<1>4. CASE Commit
  <2>1. log' = log /\ Recorded' = Recorded /\ marks' = NoMarks
    BY <1>4 DEF Commit, EndCycle, Recorded
  <2>2. \A m \in Recorded :
           /\ marks'[m] = "no"
           /\ notified'[m] = "sent" =>
                 \/ notified[m] = "sent" /\ notifiedAt'[m] = notifiedAt[m]
                 \/ marks[m] = "sent" /\ notifiedAt'[m] = cycleNow
    BY <1>0, <1>4, <2>1 DEF Commit, NoMarks
  <2>3. QED
    BY <1>0, <2>1, <2>2
<1>5. QED
  BY <1>1, <1>2, <1>3, <1>4 DEF Next, Tick, MaintenanceStarts, MaintenanceEnds,
     CycleStart, SendFails, AnswerLost, CycleAborts, Crash, RollBack, EndCycle, vars, cycleVars

\* As long as no send fails, no due alert escapes the cycle.
LEMMA CompleteStep == SmtpInv /\ [Next]_vars => Complete'
<1> SUFFICES ASSUME SmtpInv, [Next]_vars, running', ~failed',
                    NEW i \in Recorded', Due(i)'
             PROVE  i \in todo' \/ marks'[i] # "no" \/ notified'[i] # "no"
  BY DEF Complete
<1>0. /\ Complete /\ Recorded \subseteq Ids
      /\ now \in Nat /\ cycleNow \in Nat /\ cycleNow <= now
      /\ occurredAt \in [Ids -> Nat] /\ marks \in [Ids -> Marks]
      /\ log \in Seq(Keys) /\ MaxEvents \in Nat
  BY RecordedIds, SmtpAssumption
     DEF SmtpInv, TypeOK, TableTypes, CycleTypes, NothingAhead
<1>1. CASE UNCHANGED <<tableVars, cycleVars>>
  BY <1>0, <1>1 DEF tableVars, cycleVars, Recorded, Complete, Due
<1>2. ASSUME NEW key \in Keys, RecordEvent(key)
      PROVE  i \in todo' \/ marks'[i] # "no" \/ notified'[i] # "no"
  <2>1. UNCHANGED <<notified, running, cycleNow, todo, marks, failed>>
    BY <1>2 DEF RecordEvent, cycleVars
  <2>2. CASE i \in Recorded
    <3>1. log'[i] = log[i] /\ occurredAt'[i] = occurredAt[i]
      BY <1>0, <1>2, <2>2 DEF RecordEvent, Recorded, Ids
    <3>2. QED
      BY <1>0, <2>1, <2>2, <3>1 DEF Complete, Due
  <2>3. CASE i \notin Recorded
    <3>1. i = Len(log) + 1 /\ i \in Ids
      BY <1>0, <1>2, <2>3 DEF RecordEvent, Recorded, Ids
    <3>2. occurredAt'[i] = now
      BY <1>0, <1>2, <3>1 DEF RecordEvent
    <3>3. QED
      BY <1>0, <2>1, <3>2 DEF Due
  <2>4. QED
    BY <2>2, <2>3
<1>3. CASE CycleStart
  <2>1. /\ UNCHANGED <<log, occurredAt, notified>> /\ cycleNow' = now
        /\ todo' = {j \in Recorded : IsPending(j)} /\ Recorded' = Recorded
    BY <1>3 DEF CycleStart, tableVars, Recorded
  <2>2. QED
    BY <2>1 DEF Due, IsPending
<1>4. ASSUME NEW j \in Ids, Deduplicate(j) \/ SendMail(j)
      PROVE  i \in todo' \/ marks'[i] # "no" \/ notified'[i] # "no"
  <2>1. /\ UNCHANGED <<log, occurredAt, notified, running, cycleNow, failed>>
        /\ todo' = todo \ {j} /\ Recorded' = Recorded
        /\ \A m \in Ids : marks'[m] = IF m = j THEN marks'[j] ELSE marks[m]
        /\ marks'[j] # "no"
    BY <1>0, <1>4 DEF Deduplicate, SendMail, Mark, tableVars, Recorded
  <2>2. QED
    BY <1>0, <2>1 DEF Complete, Due
<1>5. CASE \E j \in Ids : SendFails(j) \/ AnswerLost(j)
  BY <1>5 DEF SendFails, AnswerLost
<1>6. CASE EndCycle
  BY <1>6 DEF EndCycle
<1>7. QED
  BY <1>1, <1>2, <1>3, <1>4, <1>5, <1>6 DEF Next, Tick, MaintenanceStarts,
     MaintenanceEnds, Commit, CycleAborts, Crash, RollBack, vars

\* The inductive step.
LEMMA SmtpStep == SmtpInv /\ [Next]_vars => SmtpInv'
<1>1. SmtpInv => TypeOK
  BY DEF SmtpInv
<1>2. QED
  BY <1>1, TypeStep, CycleStateStep, CountedStep, RootedStep, SpacedStep, CompleteStep
     DEF SmtpInv

\* The invariant holds in every reachable state.
THEOREM SmtpInvariant == Spec => []SmtpInv
  BY SmtpInit, SmtpStep, PTL DEF Spec

-----------------------------------------------------------------------------
\* For every window and any number of crashes, rollbacks and lost answers: a
\* mail is repeated only for each one whose mark did not reach the database.
THEOREM MailRepeats == Spec => []MailRepeatsJustified
<1>1. SmtpInv => MailRepeatsJustified
  BY DEF SmtpInv, TypeOK, MailTypes, Counted, MailRepeatsJustified
<1>2. QED
  BY <1>1, SmtpInvariant, PTL

\* Nothing is put aside as a duplicate unless a mail for its key went out, for
\* every key, window and order of events, failures and rollbacks.
THEOREM DuplicatesAreMailed == Spec => []DuplicatesHaveMail
<1>1. SmtpInv => DuplicatesHaveMail
  BY RecordedIds DEF SmtpInv, Counted, Rooted, SentMark, DuplicatesHaveMail
<1>2. QED
  BY <1>1, SmtpInvariant, PTL

\* The recorded mails for one key are further apart than its window, for every
\* window, however many events of the key one cycle finds.
THEOREM MailsAreSpaced == Spec => []OneMailPerWindow
<1>1. SmtpInv => OneMailPerWindow
  BY DEF SmtpInv, Spaced
<1>2. QED
  BY <1>1, SmtpInvariant, PTL

\* A cycle that ends healthy has dealt with every alert that was due.
THEOREM HealthyCycles == Spec => HealthyCycleIsComplete
<1>1. SmtpInv /\ [Next]_vars =>
        (running /\ ~running' /\ health' /\ faults' = faults =>
           \A i \in Recorded : Due(i) => notified'[i] # "no")
  <2> SUFFICES ASSUME SmtpInv, [Next]_vars, running, ~running', health', faults' = faults,
                      NEW i \in Recorded, Due(i)
               PROVE  notified'[i] # "no"
    OBVIOUS
  <2>1. faults \in Nat
    BY SmtpAssumption DEF SmtpInv, TypeOK, MailTypes
  <2>2. ~CycleAborts /\ ~Crash
    BY <2>1 DEF CycleAborts, Crash, RollBack
  <2>3. Commit
    BY <2>2 DEF Next, Tick, MaintenanceStarts, MaintenanceEnds, RecordEvent, CycleStart,
       Deduplicate, SendMail, Mark, SendFails, AnswerLost, vars, cycleVars
  <2>4. ~failed /\ todo = {}
    BY <2>3 DEF Commit
  <2>5. marks[i] # "no" \/ notified[i] # "no"
    BY <2>4 DEF SmtpInv, Complete
  <2>6. i \in Ids
    BY RecordedIds DEF SmtpInv
  <2>7. QED
    BY <2>3, <2>5, <2>6 DEF Commit
<1>2. QED
  BY <1>1, SmtpInvariant, PTL DEF Spec, HealthyCycleIsComplete, Due

\* For every configuration the e-mail channel implements AlertChannel.
THEOREM MailChannelImplemented == Spec => ImplementsChannel
<1> USE DEF Channel!channelVars
<1>1. Init => Channel!ChannelInit
  BY DEF Init, NoMarks, Settled, Channel!ChannelInit
<1>2. SmtpInv /\ [Next]_vars => [Channel!ChannelNext]_(Channel!channelVars)
  <2> SUFFICES ASSUME SmtpInv, [Next]_vars
               PROVE  [Channel!ChannelNext]_(Channel!channelVars)
    OBVIOUS
  <2> DEFINE settled == [j \in Ids |-> Settled(j)]
  <2>0. /\ notified \in [Ids -> Marks] /\ marks \in [Ids -> Marks]
        /\ accepted \in [Ids -> Nat]
        /\ \A i \in todo : i \in Ids /\ settled[i] = "open"
        /\ \A i \in Ids : marks[i] # "no" => settled[i] = "open"
        /\ \A i \in Ids : marks[i] = "sent" => accepted[i] > 0
    BY RecordedIds DEF SmtpInv, TypeOK, TableTypes, CycleTypes, MailTypes, CycleState,
       Counted, SentMark, Settled
  <2>1. ASSUME notified' = notified PROVE settled' = settled
    BY <2>1 DEF Settled
  <2>2. ASSUME NEW i \in todo, notified' = notified,
               accepted' = [accepted EXCEPT ![i] = @ + 1]
        PROVE  Channel!ChannelNext
    BY <2>0, <2>1, <2>2 DEF Channel!ChannelNext, Channel!Accept
  <2>3. CASE UNCHANGED <<notified, accepted>>
    BY <2>1, <2>3
  <2>4. ASSUME NEW i \in Ids, SendMail(i) \/ AnswerLost(i) PROVE Channel!ChannelNext
    BY <2>2, <2>4 DEF SendMail, AnswerLost, Mark, IsNext, tableVars
  <2>5. CASE Crash
    BY <2>2, <2>3, <2>5 DEF Crash, RollBack, tableVars
  <2>6. CASE Commit
    <3> DEFINE delivered == {i \in Ids : marks[i] = "sent"}
               dropped   == {i \in Ids : marks[i] = "duplicate"}
    <3>1. \A i \in Ids : Settled(i)' = IF i \in delivered THEN "delivered"
                                       ELSE IF i \in dropped THEN "dropped" ELSE Settled(i)
      BY <2>0, <2>6 DEF Commit, Settled, Marks
    <3>2. Channel!Settle(delivered, dropped)
      BY <2>0, <2>6, <3>1 DEF Channel!Settle, Commit, mailVars
    <3>3. QED
      BY <3>2 DEF Channel!ChannelNext
  <2>7. QED
    BY <2>3, <2>4, <2>5, <2>6 DEF Next, Tick, MaintenanceStarts, MaintenanceEnds,
       RecordEvent, CycleStart, Deduplicate, Mark, SendFails, CycleAborts, RollBack, vars,
       tableVars, mailVars
<1>3. QED
  BY <1>1, <1>2, SmtpInvariant, PTL DEF Spec, ImplementsChannel, Channel!ChannelSpec
=============================================================================
