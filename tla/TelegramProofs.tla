--------------------------- MODULE TelegramProofs ---------------------------
(***************************************************************************)
(* Proofs about TelegramDelivery, for every value of its constants.        *)
(***************************************************************************)
EXTENDS TelegramDelivery, TLAPS

\* Appending events to the event log gives an event log.
LEMMA ConcatType ==
    ASSUME NEW S, NEW s \in Seq(S), NEW t \in Seq(S)
    PROVE  s \o t \in Seq(S) /\ Len(s \o t) = Len(s) + Len(t)
  OBVIOUS

\* The events the detector derives from two readings of an object are events.
LEMMA DetectType ==
    ASSUME NEW o \in Objects, NEW old \in Reading, NEW new \in Reading
    PROVE  Detect(o, old, new) \in Seq(Event)
<1>1. \A sev \in Severities, after \in Levels, rise \in BOOLEAN :
         NewEvent(o, sev, after, rise, new.serial) \in Event
  BY DEF NewEvent, Event, Reading
<1>2. Severity(new.level) \in Severities /\ new.level \in Levels
  BY DEF Severity, Severities, Levels, Reading
<1>0. <<>> \in Seq(Event) /\ \A e \in Event : <<e>> \in Seq(Event)
  OBVIOUS
<1>3. StateEvents(o, old, new) \in Seq(Event)
  <2>1. NewEvent(o, Severity(new.level), new.level, FALSE, new.serial) \in Event
    BY <1>1, <1>2
  <2>2. QED
    BY <1>0, <2>1, Zenon DEF StateEvents
<1>4. FlagEvents(o, old, new) \in Seq(Event)
  <2>1. NewEvent(o, "critical", "set", ~(old.serial # new.serial), new.serial) \in Event
    BY <1>1 DEF Severities, Levels
  <2>2. QED
    BY <1>0, <2>1, Zenon DEF FlagEvents
<1>5. CounterEvents(o, old, new) \in Seq(Event)
  <2>1. NewEvent(o, "critical", new.level, FALSE, new.serial) \in Event
    BY <1>1, <1>2 DEF Severities
  <2>2. QED
    BY <1>0, <2>1, Zenon DEF CounterEvents
<1>6. ASSUME NEW from PROVE TempEvents(o, from, new) \in Seq(Event)
  <2>1. /\ NewEvent(o, "warning", "warning", FALSE, new.serial) \in Event
        /\ NewEvent(o, "critical", "critical", FALSE, new.serial) \in Event
        /\ NewEvent(o, "info", "warning", FALSE, new.serial) \in Event
        /\ NewEvent(o, "info", "ok", FALSE, new.serial) \in Event
    BY <1>1 DEF Severities, Levels
  <2>2. QED
    BY <1>0, <2>1, ConcatType DEF TempEvents
<1>7. QED
  BY <1>3, <1>4, <1>5, <1>6, Zenon DEF Detect

-----------------------------------------------------------------------------
(***************************************************************************)
(* Type correctness.  TypeOK is inductive only together with what is known *)
(* of the event in hand: a row under way is claimed and has an attempt, so *)
(* the backoff of a failure is defined.                                    *)
(***************************************************************************)
InHand ==
    /\ pc \in {"requeued", "sending", "accepted", "rejected"} => current \in Ids
    /\ pc \in {"sending", "accepted", "rejected"} =>
          delivery[current].status = "sending" /\ delivery[current].attempts > 0

TypeInv == TypeOK /\ InHand

\* The empty queue of a new process satisfies the type invariant.
LEMMA TypeInit == Init => TypeInv
<1> SUFFICES ASSUME Init PROVE TypeInv
  OBVIOUS
<1> USE DeliveryAssumption DEF Init
<1>1. PollTypes
  <2>1. snapshot \in [Objects -> Reading]
    BY DEF Reading, Levels
  <2>2. log \in Seq(Event) /\ Len(log) <= MaxEvents
    OBVIOUS
  <2>3. age \in [Ids -> 0..ConfirmDelay]
    OBVIOUS
  <2>4. snapAge \in 0..(Freshness + 1) /\ pollAge \in 0..PollInterval
    BY DEF Freshness
  <2>5. QED
    BY <2>1, <2>2, <2>3, <2>4, Zenon DEF PollTypes
<1>2. DeliveryTypes
  <2>1. NoRow \in Row
    BY DEF NoRow, Row, Statuses, NoDue
  <2>2. QED
    BY <2>1 DEF DeliveryTypes
<1>3. CycleTypes
  <2>1. current \in 0..MaxEvents /\ sendsLeft \in 0..MaxSends /\ hint \in 0..RetryMax
    OBVIOUS
  <2>2. QED
    BY <2>1, Zenon DEF CycleTypes
<1>4. HistoryTypes
  BY DEF HistoryTypes
<1>5. InHand
  BY DEF InHand
<1>6. QED
  BY <1>1, <1>2, <1>3, <1>4, <1>5 DEF TypeInv, TypeOK

\* Facts about the helpers that every step below uses.
LEMMA MinMaxType ==
    \A a, b \in Int : /\ Min2(a, b) \in Int /\ Min2(a, b) <= a /\ Min2(a, b) <= b
                      /\ Max2(a, b) \in Int /\ Max2(a, b) >= a /\ Max2(a, b) >= b
                      /\ (Min2(a, b) = a \/ Min2(a, b) = b)
                      /\ (Max2(a, b) = a \/ Max2(a, b) = b)
  BY DEF Min2, Max2

\* The backoff is a positive number of ticks and never exceeds RetryMax.
LEMMA BackoffType ==
    ASSUME NEW n \in Nat, n > 0
    PROVE  Backoff(n) \in Nat /\ Backoff(n) <= RetryMax
<1>1. Min2(n, MaxTries) \in 1..7
  BY DeliveryAssumption DEF Min2
<1>2. Doubling[Min2(n, MaxTries)] \in Nat
  BY <1>1 DEF Doubling
<1>3. RetryBase * Doubling[Min2(n, MaxTries)] \in Nat
  BY <1>2, DeliveryAssumption
<1>4. QED
  BY <1>3, DeliveryAssumption DEF Backoff, Min2

\* A claim has a send left to use.
LEMMA ClaimHasSend ==
    ASSUME TypeOK, NEW i, Decision(i) = "claim"
    PROVE  ~blocked /\ sendsLeft > 0
  BY DeliveryAssumption DEF Decision, TypeOK, CycleTypes

\* Every action keeps the types of the variables the collector writes.
LEMMA PollTypesStep == TypeInv /\ [Next]_vars => PollTypes'
<1> SUFFICES ASSUME TypeInv, [Next]_vars PROVE PollTypes'
  OBVIOUS
<1> USE DeliveryAssumption
<1>0. PollTypes
  BY DEF TypeInv, TypeOK
<1>1. CASE Tick
  <2>1. age' \in [Ids -> 0..ConfirmDelay]
    <3>1. \A n \in 0..ConfirmDelay : Min2(n + 1, ConfirmDelay) \in 0..ConfirmDelay
      BY DEF Min2
    <3>2. \A i \in Ids : age[i] \in 0..ConfirmDelay
      BY <1>0 DEF PollTypes
    <3>3. QED
      BY <1>1, <3>1, <3>2, Zenon DEF Tick
  <2>2. snapAge' \in 0..(Freshness + 1) /\ pollAge' \in 0..PollInterval
    BY <1>0, <1>1 DEF Tick, PollTypes, Min2, Freshness
  <2>3. QED
    BY <1>0, <1>1, <2>1, <2>2 DEF Tick, PollTypes
<1>2. CASE PollOk
  <2>1. PICK o \in Objects, level \in Levels, s \in Serials, seen \in BOOLEAN :
          LET old == snapshot[o]
              new == [level |-> level, serial |-> s, seen |-> seen]
              events == Detect(o, old, new)
          IN  /\ Len(log) + Len(events) <= MaxEvents
              /\ log' = log \o events
              /\ snapshot' = [snapshot EXCEPT ![o] = new]
    BY <1>2, Zenon DEF PollOk
  <2>2. snapshot[o] \in Reading
    BY <1>0 DEF PollTypes
  <2>3. [level |-> level, serial |-> s, seen |-> seen] \in Reading
    BY DEF Reading
  <2>4. snapshot' \in [Objects -> Reading]
    BY <1>0, <2>1, <2>3 DEF PollTypes
  <2>5. log' \in Seq(Event) /\ Len(log') <= MaxEvents
    BY <1>0, <2>1, <2>2, <2>3, DetectType, ConcatType DEF PollTypes
  <2>6. snapAge' \in 0..(Freshness + 1) /\ pollAge' \in 0..PollInterval
    BY <1>2 DEF PollOk, Freshness
  <2>7. QED
    BY <1>0, <1>2, <2>4, <2>5, <2>6, Zenon DEF PollOk, PollTypes
<1>3. CASE PollFail
  BY <1>0, <1>3 DEF PollFail, PollTypes
<1>4. CASE Crash
  BY <1>0, <1>4 DEF Crash, PollTypes, dbVars
<1>5. CASE CycleStart
  BY <1>0, <1>5 DEF CycleStart, PollTypes
<1>6. ASSUME NEW i \in Ids, Handle(i) PROVE PollTypes'
  BY <1>0, <1>6 DEF Handle, Requeue, DeferUnconfirmed, DeferAwaiting, DeferChannel,
     SkipEnded, SkipObsolete, SkipDuplicate, Defer, Skip, Done, Claim, PollTypes
<1>7. CASE Restart \/ CycleConfigError \/ CycleEnd \/ CycleAborts
  BY <1>0, <1>7 DEF Restart, CycleConfigError, CycleEnd, CycleAborts, PollTypes, dbVars
<1>8. CASE ProviderAccepts \/ AnswerLost \/ ProviderRejects
  BY <1>0, <1>8 DEF ProviderAccepts, AnswerLost, ProviderRejects, Unrecorded,
     PollTypes, dbVars
<1>9. CASE RecordSent \/ RecordFailure
  BY <1>0, <1>9 DEF RecordSent, RecordFailure, PollTypes
<1>10. CASE UNCHANGED vars
  BY <1>0, <1>10 DEF vars, PollTypes, dbVars
<1>11. QED
  BY <1>1, <1>2, <1>3, <1>4, <1>5, <1>6, <1>7, <1>8, <1>9, <1>10 DEF Next

\* The row operations yield rows.
LEMMA RowType ==
    ASSUME NEW row \in Row
    PROVE  /\ \A status \in Statuses, due \in Int : SetStatus(row, status, due) \in Row
           /\ Aged(row) \in Row
           /\ Repaired(row) \in Row
<1> USE DeliveryAssumption
<1>1. \A status \in Statuses, due \in Int : SetStatus(row, status, due) \in Row
  BY DEF SetStatus, Row
<1>2. Aged(row) \in Row
  BY DEF Aged, Row, NoDue, Min2, Max2
<1>3. Repaired(row) \in Row
  BY DEF Repaired, SetStatus, Row, Statuses, Min2
<1>4. QED
  BY <1>1, <1>2, <1>3

\* Every action keeps the types of the rows and of the embargo.
LEMMA DeliveryTypesStep == TypeInv /\ [Next]_vars => DeliveryTypes'
<1> SUFFICES ASSUME TypeInv, [Next]_vars PROVE DeliveryTypes'
  OBVIOUS
<1> USE DeliveryAssumption
<1>0. DeliveryTypes /\ \A i \in Ids : delivery[i] \in Row
  BY DEF TypeInv, TypeOK, DeliveryTypes
<1>1. CASE Tick
  <2>1. \A i \in Ids : Aged(delivery[i]) \in Row
    BY <1>0, RowType
  <2>2. cooldown' \in Nat
    BY <1>0, <1>1 DEF Tick, DeliveryTypes, Max2
  <2>3. QED
    BY <1>1, <2>1, <2>2, Zenon DEF Tick, DeliveryTypes
<1>2. CASE CycleStart
  <2>1. \A i \in Ids : Repaired(delivery[i]) \in Row
    BY <1>0, RowType
  <2>2. cooldown' \in Nat
    BY <1>0, <1>2 DEF CycleStart, DeliveryTypes, Min2
  <2>3. QED
    BY <1>2, <2>1, <2>2, Zenon DEF CycleStart, DeliveryTypes
<1>3. ASSUME NEW i \in Ids, NEW status \in Statuses, NEW due \in Int,
             delivery' = [delivery EXCEPT ![i] = SetStatus(@, status, due)]
      PROVE  delivery' \in [Ids -> Row]
  <2>1. SetStatus(delivery[i], status, due) \in Row
    BY <1>0, RowType
  <2>2. QED
    BY <1>0, <1>3, <2>1 DEF DeliveryTypes
<1>4. ASSUME NEW i \in Ids, Handle(i) PROVE DeliveryTypes'
  <2>0. /\ NoDue \in Int /\ DeferTicks \in Int /\ ConfirmDelay - age[i] \in Int
        /\ {"retry", "skipped", "sent"} \subseteq Statuses
    BY DEF NoDue, Statuses, TypeInv, TypeOK, PollTypes
  <2>1. ASSUME NEW t \in Int, Defer(i, t) PROVE DeliveryTypes'
    BY <1>0, <1>3, <2>0, <2>1 DEF Defer, Done, DeliveryTypes
  <2>2. CASE Skip(i)
    BY <1>0, <1>3, <2>0, <2>2 DEF Skip, Done, DeliveryTypes
  <2>3. CASE Requeue(i)
    BY <1>0, <1>3, <2>0, <2>3 DEF Requeue, DeliveryTypes
  <2>4. CASE Claim(i)
    <3>1. [status |-> "sending", attempts |-> Min2(delivery[i].attempts + 1, MaxTries),
           due |-> NoDue, since |-> 0] \in Row
      BY <1>0, <2>0 DEF Row, Statuses, Min2
    <3>2. QED
      BY <1>0, <2>4, <3>1 DEF Claim, DeliveryTypes
  <2>5. QED
    BY <1>4, <2>0, <2>1, <2>2, <2>3, <2>4 DEF Handle, DeferUnconfirmed, DeferAwaiting,
       DeferChannel, SkipEnded, SkipObsolete, SkipDuplicate
<1>5. CASE RecordSent
  <2>1. current \in Ids /\ NoDue \in Int /\ "sent" \in Statuses
    BY <1>5 DEF RecordSent, TypeInv, InHand, NoDue, Statuses
  <2>2. QED
    BY <1>0, <1>3, <1>5, <2>1 DEF RecordSent, DeliveryTypes
<1>6. CASE RecordFailure
  <2>1. current \in Ids /\ delivery[current].attempts > 0 /\ "retry" \in Statuses
    BY <1>6 DEF RecordFailure, TypeInv, InHand, Statuses
  <2>2. delivery[current].attempts \in Nat
    BY <1>0, <2>1 DEF Row
  <2>3. Backoff(delivery[current].attempts) \in Nat
    BY <2>1, <2>2, BackoffType
  <2>4. hint \in 0..RetryMax
    BY DEF TypeInv, TypeOK, CycleTypes
  <2>5. Max2(Backoff(delivery[current].attempts), hint) \in Int /\ cooldown' \in Nat
    BY <1>0, <1>6, <2>3, <2>4 DEF RecordFailure, Max2, DeliveryTypes
  <2>6. QED
    BY <1>3, <1>6, <2>1, <2>5 DEF RecordFailure, DeliveryTypes
<1>7. CASE PollOk \/ PollFail
  BY <1>0, <1>7 DEF PollOk, PollFail, DeliveryTypes
<1>8. CASE Crash \/ Restart \/ CycleConfigError \/ CycleEnd \/ CycleAborts
  BY <1>0, <1>8 DEF Crash, Restart, CycleConfigError, CycleEnd, CycleAborts,
     DeliveryTypes, dbVars
<1>9. CASE ProviderAccepts \/ AnswerLost \/ ProviderRejects
  BY <1>0, <1>9 DEF ProviderAccepts, AnswerLost, ProviderRejects, Unrecorded,
     DeliveryTypes, dbVars
<1>10. CASE UNCHANGED vars
  BY <1>0, <1>10 DEF vars, DeliveryTypes, dbVars
<1>11. QED
  BY <1>1, <1>2, <1>4, <1>5, <1>6, <1>7, <1>8, <1>9, <1>10 DEF Next

\* Every action keeps the types of the notifier's memory.
LEMMA CycleTypesStep == TypeInv /\ [Next]_vars => CycleTypes'
<1> SUFFICES ASSUME TypeInv, [Next]_vars PROVE CycleTypes'
  OBVIOUS
<1> USE DeliveryAssumption
<1>0. CycleTypes
  BY DEF TypeInv, TypeOK
<1>1. ASSUME LoseCycle, up' \in BOOLEAN, health' \in {"initial", "ok", "failed"}
      PROVE  CycleTypes'
  <2>1. current' \in 0..MaxEvents /\ sendsLeft' \in 0..MaxSends /\ hint' \in 0..RetryMax
    BY <1>1 DEF LoseCycle
  <2>2. QED
    BY <1>1, <2>1, Zenon DEF LoseCycle, CycleTypes
<1>2. CASE Tick \/ PollOk \/ PollFail
  BY <1>0, <1>2 DEF Tick, PollOk, PollFail, CycleTypes, cycleVars
<1>3. CASE Crash
  BY <1>0, <1>1, <1>3 DEF Crash
<1>4. CASE Restart \/ CycleConfigError
  BY <1>0, <1>4, Zenon DEF Restart, CycleConfigError, CycleTypes, cycleVars
<1>5. CASE CycleStart
  <2>1. batch' \in SUBSET Ids
    BY <1>5 DEF CycleStart, Candidates, Recorded, Ids, TypeInv, TypeOK, PollTypes
  <2>2. sendsLeft' \in 0..MaxSends
    BY <1>5 DEF CycleStart
  <2>3. blocked' \in BOOLEAN
    BY <1>5 DEF CycleStart
  <2>4. QED
    BY <1>0, <1>5, <2>1, <2>2, <2>3, Zenon DEF CycleStart, CycleTypes
<1>6. ASSUME NEW i \in Ids, Handle(i) PROVE CycleTypes'
  <2>0. 0 \in 0..MaxEvents /\ i \in 0..MaxEvents /\ batch \ {i} \in SUBSET Ids
    BY <1>0 DEF Ids, CycleTypes
  <2>1. CASE Done(i)
    BY <1>0, <2>0, <2>1, Zenon DEF Done, CycleTypes
  <2>2. CASE Requeue(i)
    BY <1>0, <2>0, <2>2, Zenon DEF Requeue, CycleTypes
  <2>3. CASE Claim(i)
    <3>1. sendsLeft > 0
      BY <2>3, ClaimHasSend DEF Claim, Handling, TypeInv
    <3>2. sendsLeft' \in 0..MaxSends
      BY <1>0, <2>3, <3>1 DEF Claim, CycleTypes
    <3>3. QED
      BY <1>0, <2>0, <2>3, <3>2, Zenon DEF Claim, CycleTypes
  <2>4. QED
    BY <1>6, <2>1, <2>2, <2>3 DEF Handle, DeferUnconfirmed, DeferAwaiting,
       DeferChannel, SkipEnded, SkipObsolete, SkipDuplicate, Defer, Skip
<1>7. CASE ProviderAccepts
  BY <1>0, <1>7, Zenon DEF ProviderAccepts, Unrecorded, CycleTypes
<1>8. CASE AnswerLost \/ ProviderRejects
  <2>1. hint' \in 0..RetryMax
    BY <1>8 DEF AnswerLost, ProviderRejects, Min2
  <2>2. QED
    BY <1>0, <1>8, <2>1, Zenon DEF AnswerLost, ProviderRejects, Unrecorded, CycleTypes
<1>9. CASE RecordSent \/ RecordFailure
  <2>1. 0 \in 0..MaxEvents /\ 0 \in 0..RetryMax
    OBVIOUS
  <2>2. QED
    BY <1>0, <1>9, <2>1, Zenon DEF RecordSent, RecordFailure, CycleTypes
<1>10. CASE CycleEnd \/ CycleAborts
  BY <1>0, <1>1, <1>10 DEF CycleEnd, CycleAborts, CycleTypes
<1>11. CASE UNCHANGED vars
  BY <1>0, <1>11 DEF vars, CycleTypes, cycleVars
<1>12. QED
  BY <1>2, <1>3, <1>4, <1>5, <1>6, <1>7, <1>8, <1>9, <1>10, <1>11 DEF Next

\* Every action keeps the types of the history variables.
LEMMA HistoryTypesStep == TypeInv /\ [Next]_vars => HistoryTypes'
<1> SUFFICES ASSUME TypeInv, [Next]_vars PROVE HistoryTypes'
  OBVIOUS
<1> USE DeliveryAssumption
<1>0. HistoryTypes
  BY DEF TypeInv, TypeOK
<1>1. pc \in {"sending", "accepted"} => current \in Ids
  BY DEF TypeInv, InHand
<1>2. CASE Crash
  <2>1. accepted' \in [Ids -> Nat] /\ uncertain' \in [Ids -> Nat]
    BY <1>0, <1>1, <1>2 DEF Crash, HistoryTypes
  <2>2. QED
    BY <1>0, <1>2, <2>1 DEF Crash, HistoryTypes
<1>3. CASE ProviderAccepts
  BY <1>0, <1>1, <1>3 DEF ProviderAccepts, HistoryTypes
<1>4. CASE AnswerLost
  BY <1>0, <1>1, <1>4 DEF AnswerLost, HistoryTypes
<1>5. CASE CycleAborts
  BY <1>0, <1>1, <1>5 DEF CycleAborts, HistoryTypes
<1>6. CASE PollFail
  BY <1>0, <1>6 DEF PollFail, HistoryTypes
<1>7. CASE \/ Tick \/ PollOk \/ Restart \/ CycleStart \/ CycleConfigError
           \/ ProviderRejects \/ RecordSent \/ RecordFailure \/ CycleEnd
  BY <1>0, <1>7 DEF Tick, PollOk, Restart, CycleStart, CycleConfigError,
     ProviderRejects, RecordSent, RecordFailure, CycleEnd, HistoryTypes, historyVars
<1>8. ASSUME NEW i \in Ids, Handle(i) PROVE HistoryTypes'
  BY <1>0, <1>8 DEF Handle, Requeue, DeferUnconfirmed, DeferAwaiting, DeferChannel,
     SkipEnded, SkipObsolete, SkipDuplicate, Defer, Skip, Done, Claim, HistoryTypes,
     historyVars
<1>9. CASE UNCHANGED vars
  BY <1>0, <1>9 DEF vars, HistoryTypes, historyVars
<1>10. QED
  BY <1>2, <1>3, <1>4, <1>5, <1>6, <1>7, <1>8, <1>9 DEF Next

\* What is known of the event in hand survives every action.
LEMMA InHandStep == TypeInv /\ [Next]_vars => InHand'
<1> SUFFICES ASSUME TypeInv, [Next]_vars PROVE InHand'
  OBVIOUS
<1> USE DeliveryAssumption
<1>0. InHand /\ delivery \in [Ids -> Row]
  BY DEF TypeInv, TypeOK, DeliveryTypes
<1>1. CASE Tick
  <2>1. \A i \in Ids : /\ delivery'[i].status = delivery[i].status
                        /\ delivery'[i].attempts = delivery[i].attempts
    BY <1>1 DEF Tick, Aged
  <2>2. QED
    BY <1>0, <1>1, <2>1 DEF Tick, cycleVars, InHand
<1>2. CASE PollOk \/ PollFail \/ Restart \/ CycleConfigError
  BY <1>0, <1>2 DEF PollOk, PollFail, Restart, CycleConfigError, cycleVars, dbVars, InHand
<1>3. CASE Crash \/ CycleEnd \/ CycleAborts
  BY <1>3 DEF Crash, CycleEnd, CycleAborts, LoseCycle, InHand
<1>4. CASE CycleStart \/ RecordSent \/ RecordFailure
  BY <1>4 DEF CycleStart, RecordSent, RecordFailure, InHand
<1>5. ASSUME NEW i \in Ids, Handle(i) PROVE InHand'
  <2>1. CASE Claim(i)
    <3>1. delivery[i].attempts \in Nat
      BY <1>0 DEF Row
    <3>2. delivery'[i].status = "sending" /\ delivery'[i].attempts > 0
      BY <1>0, <2>1, <3>1 DEF Claim, Min2
    <3>3. QED
      BY <2>1, <3>2 DEF Claim, InHand
  <2>2. CASE Requeue(i)
    BY <2>2 DEF Requeue, InHand
  <2>3. CASE Done(i)
    BY <2>3 DEF Done, InHand
  <2>4. QED
    BY <1>5, <2>1, <2>2, <2>3 DEF Handle, DeferUnconfirmed, DeferAwaiting,
       DeferChannel, SkipEnded, SkipObsolete, SkipDuplicate, Defer, Skip
<1>6. CASE ProviderAccepts \/ AnswerLost \/ ProviderRejects
  BY <1>0, <1>6 DEF ProviderAccepts, AnswerLost, ProviderRejects, Unrecorded, dbVars, InHand
<1>7. CASE UNCHANGED vars
  BY <1>0, <1>7 DEF vars, cycleVars, dbVars, InHand
<1>8. QED
  BY <1>1, <1>2, <1>3, <1>4, <1>5, <1>6, <1>7 DEF Next

\* The inductive step of type correctness.
LEMMA TypeStep == TypeInv /\ [Next]_vars => TypeInv'
  BY PollTypesStep, DeliveryTypesStep, CycleTypesStep, HistoryTypesStep, InHandStep
     DEF TypeInv, TypeOK

\* Type correctness for every configuration: the sends of a cycle never exceed
\* the limit and no hint beyond the bound reaches the notifier.
THEOREM TypeCorrect == Spec => []TypeOK
<1>1. TypeInv => TypeOK
  BY DEF TypeInv
<1>2. QED
  BY <1>1, TypeInit, TypeStep, PTL DEF Spec

-----------------------------------------------------------------------------
(***************************************************************************)
(* Safety.  The candidates of a cycle stay unsettled until their turn, the *)
(* claimed event is none of them, and every accepted message is either     *)
(* known (the row is sent, or about to be) or counted as uncertain.        *)
(***************************************************************************)
BatchOpen ==
    /\ \A i \in batch : delivery[i].status \notin {"sent", "skipped"}
    /\ pc = "requeued" => current \in batch
    /\ pc \in {"sending", "accepted", "rejected"} => current \notin batch

\* The messages for event i that the process knows about.
Known(i) ==
    IF delivery[i].status = "sent" \/ (pc = "accepted" /\ current = i) THEN 1 ELSE 0

Counted ==
    /\ \A i \in Ids : accepted[i] <= uncertain[i] + Known(i)
    /\ pc = "accepted" => accepted[current] > 0

\* A cycle that may still send has no embargo to respect.
EmbargoOver == pc # "idle" /\ ~blocked => cooldown = 0

SafetyInv == TypeInv /\ BatchOpen /\ Counted /\ EmbargoOver

\* The empty queue of a new process satisfies the safety invariant.
LEMMA SafetyInit == Init => SafetyInv
<1> SUFFICES ASSUME Init PROVE SafetyInv
  OBVIOUS
<1>1. BatchOpen /\ EmbargoOver
  BY DEF Init, BatchOpen, EmbargoOver
<1>2. Counted
  BY DEF Init, Counted, Known, NoRow
<1>3. QED
  BY <1>1, <1>2, TypeInit DEF SafetyInv

\* A handled event is an unsettled candidate of the running cycle.
LEMMA HandlesOpen ==
    ASSUME TypeInv, BatchOpen, NEW i \in Ids, NEW d, Handling(i, d)
    PROVE  /\ pc \in {"loop", "requeued"} /\ i \in batch
           /\ delivery[i].status \notin {"sent", "skipped"}
  BY DEF Handling, IsNext, BatchOpen

\* What handling a candidate does to the rows: only its own row changes, and
\* it is settled only by a skip.
LEMMA HandleEffect ==
    ASSUME TypeInv, BatchOpen, NEW i \in Ids, Handle(i)
    PROVE  /\ pc \in {"loop", "requeued"} /\ i \in batch
           /\ delivery[i].status \notin {"sent", "skipped"}
           /\ \A j \in Ids \ {i} : delivery'[j] = delivery[j]
           /\ delivery'[i].status \in {"retry", "skipped", "sending"}
           /\ \/ pc' = "loop" /\ batch' = batch \ {i}
              \/ /\ pc' = "requeued" /\ current' = i /\ batch' = batch
                 /\ delivery'[i].status = "retry"
              \/ /\ pc' = "sending" /\ current' = i /\ batch' = batch \ {i}
                 /\ delivery'[i].status = "sending" /\ ~blocked
           /\ UNCHANGED <<log, cooldown, blocked, accepted, uncertain, health, up>>
<1>0. delivery \in [Ids -> Row]
  BY DEF TypeInv, TypeOK, DeliveryTypes
<1>1. CASE Requeue(i)
  BY <1>0, <1>1 DEF Requeue, IsNext, BatchOpen, SetStatus, historyVars
<1>2. CASE Claim(i)
  <2>1. ~blocked
    BY <1>2, ClaimHasSend DEF Claim, Handling, TypeInv
  <2>2. QED
    BY <1>0, <1>2, <2>1, HandlesOpen DEF Claim, historyVars
<1>3. ASSUME NEW d, NEW t, Handling(i, d), Defer(i, t)
      PROVE  /\ pc \in {"loop", "requeued"} /\ i \in batch
             /\ delivery[i].status \notin {"sent", "skipped"}
             /\ \A j \in Ids \ {i} : delivery'[j] = delivery[j]
             /\ delivery'[i].status = "retry"
             /\ pc' = "loop" /\ batch' = batch \ {i}
             /\ UNCHANGED <<log, cooldown, blocked, accepted, uncertain, health, up>>
  BY <1>0, <1>3, HandlesOpen DEF Defer, Done, SetStatus, historyVars
<1>4. ASSUME NEW d, Handling(i, d), Skip(i)
      PROVE  /\ pc \in {"loop", "requeued"} /\ i \in batch
             /\ delivery[i].status \notin {"sent", "skipped"}
             /\ \A j \in Ids \ {i} : delivery'[j] = delivery[j]
             /\ delivery'[i].status = "skipped"
             /\ pc' = "loop" /\ batch' = batch \ {i}
             /\ UNCHANGED <<log, cooldown, blocked, accepted, uncertain, health, up>>
  BY <1>0, <1>4, HandlesOpen DEF Skip, Done, SetStatus, historyVars
<1>5. CASE DeferUnconfirmed(i) \/ DeferAwaiting(i) \/ DeferChannel(i)
  BY <1>3, <1>5 DEF DeferUnconfirmed, DeferAwaiting, DeferChannel
<1>6. CASE SkipEnded(i) \/ SkipObsolete(i) \/ SkipDuplicate(i)
  BY <1>4, <1>6 DEF SkipEnded, SkipObsolete, SkipDuplicate
<1>7. QED
  BY <1>1, <1>2, <1>5, <1>6 DEF Handle

\* The clock and the repair of old deadlines leave status and attempts alone.
LEMMA KeepsStatus ==
    ASSUME TypeInv, Tick \/ CycleStart, NEW i \in Ids
    PROVE  /\ delivery'[i].status = delivery[i].status
           /\ delivery'[i].attempts = delivery[i].attempts
<1>1. delivery[i] \in Row
  BY DEF TypeInv, TypeOK, DeliveryTypes
<1>2. CASE Tick
  BY <1>2 DEF Tick, Aged
<1>3. CASE CycleStart
  BY <1>1, <1>3 DEF CycleStart, Repaired, SetStatus, Row
<1>4. QED
  BY <1>2, <1>3

\* No action settles an event that is still to be handled in this cycle.
LEMMA BatchOpenStep == SafetyInv /\ [Next]_vars => BatchOpen'
<1> SUFFICES ASSUME SafetyInv, [Next]_vars PROVE BatchOpen'
  OBVIOUS
<1>0. TypeInv /\ BatchOpen /\ batch \subseteq Ids /\ delivery \in [Ids -> Row]
  BY DEF SafetyInv, TypeInv, TypeOK, CycleTypes, DeliveryTypes
<1>1. CASE Tick
  BY <1>0, <1>1, KeepsStatus DEF Tick, cycleVars, BatchOpen
<1>2. CASE PollOk \/ PollFail \/ Restart \/ CycleConfigError
  BY <1>0, <1>2 DEF PollOk, PollFail, Restart, CycleConfigError, dbVars, cycleVars, BatchOpen
<1>3. CASE Crash \/ CycleEnd \/ CycleAborts
  BY <1>3 DEF Crash, CycleEnd, CycleAborts, LoseCycle, BatchOpen
<1>4. CASE CycleStart
  <2>1. ASSUME NEW i \in batch' PROVE delivery'[i].status \notin {"sent", "skipped"}
    BY <1>4, <2>1 DEF CycleStart, Candidates, IsCandidate
  <2>2. QED
    BY <1>4, <2>1 DEF CycleStart, BatchOpen
<1>5. ASSUME NEW i \in Ids, Handle(i) PROVE BatchOpen'
  BY <1>0, <1>5, HandleEffect DEF BatchOpen
<1>6. CASE ProviderAccepts \/ AnswerLost \/ ProviderRejects
  BY <1>0, <1>6 DEF ProviderAccepts, AnswerLost, ProviderRejects, Unrecorded, dbVars,
     BatchOpen
<1>7. CASE RecordSent \/ RecordFailure
  <2>1. \A i \in batch : delivery'[i] = delivery[i]
    BY <1>0, <1>7 DEF RecordSent, RecordFailure, BatchOpen
  <2>2. QED
    BY <1>0, <1>7, <2>1 DEF RecordSent, RecordFailure, BatchOpen
<1>8. CASE UNCHANGED vars
  BY <1>0, <1>8 DEF vars, dbVars, cycleVars, BatchOpen
<1>9. QED
  BY <1>1, <1>2, <1>3, <1>4, <1>5, <1>6, <1>7, <1>8 DEF Next

\* Every action that lets a message be accepted, or forgets one, keeps the
\* account of messages and uncertain sends.
LEMMA CountedStep == SafetyInv /\ [Next]_vars => Counted'
<1> SUFFICES ASSUME SafetyInv, [Next]_vars PROVE Counted'
  OBVIOUS
<1>0. /\ TypeInv /\ BatchOpen /\ Counted /\ delivery \in [Ids -> Row]
      /\ accepted \in [Ids -> Nat] /\ uncertain \in [Ids -> Nat]
  BY DEF SafetyInv, TypeInv, TypeOK, DeliveryTypes, HistoryTypes
<1>h. pc \in {"sending", "accepted", "rejected"} =>
         current \in Ids /\ delivery[current].status = "sending"
  BY DEF SafetyInv, TypeInv, InHand
<1>1. CASE Tick
  <2>1. \A i \in Ids : Known(i)' = Known(i)
    BY <1>0, <1>1, KeepsStatus DEF Tick, cycleVars, Known
  <2>2. QED
    BY <1>0, <1>1, <2>1 DEF Tick, cycleVars, historyVars, Counted
<1>2. CASE PollOk \/ PollFail \/ Restart \/ CycleConfigError
  BY <1>0, <1>2 DEF PollOk, PollFail, Restart, CycleConfigError, dbVars, cycleVars,
     historyVars, Counted, Known
<1>3. CASE Crash
  <2>1. ASSUME NEW i \in Ids PROVE accepted'[i] <= uncertain'[i] + Known(i)'
    <3>1. delivery'[i].status = delivery[i].status /\ pc' = "idle"
      BY <1>3 DEF Crash, dbVars, LoseCycle
    <3>2. CASE pc \in {"sending", "accepted"} /\ current = i
      BY <1>0, <1>3, <1>h, <3>1, <3>2 DEF Crash, Counted, Known
    <3>3. CASE ~(pc \in {"sending", "accepted"} /\ current = i)
      BY <1>0, <1>3, <1>h, <3>1, <3>3 DEF Crash, Counted, Known
    <3>4. QED
      BY <3>2, <3>3
  <2>2. QED
    BY <1>3, <2>1 DEF Crash, LoseCycle, Counted
<1>4. CASE CycleStart
  <2>1. \A i \in Ids : Known(i)' = Known(i)
    BY <1>0, <1>4, KeepsStatus DEF CycleStart, Known
  <2>2. QED
    BY <1>0, <1>4, <2>1 DEF CycleStart, historyVars, Counted
<1>5. ASSUME NEW i \in Ids, Handle(i) PROVE Counted'
  <2>1. \A j \in Ids : Known(j)' = Known(j)
    BY <1>0, <1>5, HandleEffect DEF Known
  <2>2. QED
    BY <1>0, <1>5, <2>1, HandleEffect DEF Counted
<1>6. CASE ProviderAccepts
  <2>1. ASSUME NEW i \in Ids PROVE accepted'[i] <= uncertain'[i] + Known(i)'
    <3>1. CASE current = i
      BY <1>0, <1>6, <1>h, <3>1 DEF ProviderAccepts, Unrecorded, dbVars, Counted, Known
    <3>2. CASE current # i
      BY <1>0, <1>6, <1>h, <3>2 DEF ProviderAccepts, Unrecorded, dbVars, Counted, Known
    <3>3. QED
      BY <3>1, <3>2
  <2>2. accepted'[current'] > 0
    BY <1>0, <1>6, <1>h DEF ProviderAccepts, Unrecorded
  <2>3. QED
    BY <2>1, <2>2 DEF Counted
<1>7. CASE AnswerLost
  <2>1. ASSUME NEW i \in Ids PROVE accepted'[i] <= uncertain'[i] + Known(i)'
    <3>1. CASE current = i
      BY <1>0, <1>7, <1>h, <3>1 DEF AnswerLost, Unrecorded, dbVars, Counted, Known
    <3>2. CASE current # i
      BY <1>0, <1>7, <1>h, <3>2 DEF AnswerLost, Unrecorded, dbVars, Counted, Known
    <3>3. QED
      BY <3>1, <3>2
  <2>2. QED
    BY <1>7, <2>1 DEF AnswerLost, Counted
<1>8. CASE ProviderRejects
  BY <1>0, <1>8 DEF ProviderRejects, Unrecorded, dbVars, historyVars, Counted, Known
<1>9. CASE RecordSent
  <2>1. \A i \in Ids : Known(i)' = Known(i)
    BY <1>0, <1>9, <1>h DEF RecordSent, SetStatus, Known
  <2>2. QED
    BY <1>0, <1>9, <2>1 DEF RecordSent, historyVars, Counted
<1>10. CASE RecordFailure
  <2>1. \A i \in Ids : Known(i)' = Known(i)
    BY <1>0, <1>10, <1>h DEF RecordFailure, SetStatus, Known
  <2>2. QED
    BY <1>0, <1>10, <2>1 DEF RecordFailure, historyVars, Counted
<1>11. CASE CycleEnd
  BY <1>0, <1>11 DEF CycleEnd, LoseCycle, dbVars, historyVars, Counted, Known
<1>12. CASE CycleAborts
  <2>1. ASSUME NEW i \in Ids PROVE accepted'[i] <= uncertain'[i] + Known(i)'
    <3>1. delivery'[i].status = delivery[i].status /\ pc' = "idle"
      BY <1>12 DEF CycleAborts, dbVars, LoseCycle
    <3>2. CASE pc = "accepted" /\ current = i
      BY <1>0, <1>12, <1>h, <3>1, <3>2 DEF CycleAborts, Counted, Known
    <3>3. CASE ~(pc = "accepted" /\ current = i)
      BY <1>0, <1>12, <1>h, <3>1, <3>3 DEF CycleAborts, Counted, Known
    <3>4. QED
      BY <3>2, <3>3
  <2>2. QED
    BY <1>12, <2>1 DEF CycleAborts, LoseCycle, Counted
<1>13. CASE UNCHANGED vars
  BY <1>0, <1>13 DEF vars, dbVars, cycleVars, historyVars, Counted, Known
<1>14. QED
  BY <1>1, <1>2, <1>3, <1>4, <1>5, <1>6, <1>7, <1>8, <1>9, <1>10, <1>11, <1>12, <1>13
     DEF Next

\* A cycle that is not blocked stays free of the embargo until it ends.
LEMMA EmbargoOverStep == SafetyInv /\ [Next]_vars => EmbargoOver'
<1> SUFFICES ASSUME SafetyInv, [Next]_vars PROVE EmbargoOver'
  OBVIOUS
<1>0. TypeInv /\ BatchOpen /\ EmbargoOver /\ cooldown \in Nat
  BY DEF SafetyInv, TypeInv, TypeOK, DeliveryTypes
<1>1. CASE Tick
  BY <1>0, <1>1 DEF Tick, cycleVars, Max2, EmbargoOver
<1>2. CASE PollOk \/ PollFail \/ Restart \/ CycleConfigError
  BY <1>0, <1>2 DEF PollOk, PollFail, Restart, CycleConfigError, dbVars, cycleVars,
     EmbargoOver
<1>3. CASE Crash \/ CycleEnd \/ CycleAborts
  BY <1>3 DEF Crash, CycleEnd, CycleAborts, LoseCycle, EmbargoOver
<1>4. CASE CycleStart
  <2>1. blocked' = (cooldown > 0) /\ cooldown' = Min2(cooldown, RetryMax)
    BY <1>4, Zenon DEF CycleStart
  <2>2. CASE cooldown > 0
    BY <2>1, <2>2 DEF EmbargoOver
  <2>3. CASE cooldown = 0
    BY <2>1, <2>3, DeliveryAssumption DEF Min2, EmbargoOver
  <2>4. QED
    BY <1>0, <2>2, <2>3
<1>5. ASSUME NEW i \in Ids, Handle(i) PROVE EmbargoOver'
  BY <1>0, <1>5, HandleEffect DEF EmbargoOver
<1>6. CASE ProviderAccepts \/ AnswerLost \/ ProviderRejects
  BY <1>0, <1>6 DEF ProviderAccepts, AnswerLost, ProviderRejects, Unrecorded, dbVars,
     EmbargoOver
<1>7. CASE RecordSent \/ RecordFailure
  BY <1>0, <1>7 DEF RecordSent, RecordFailure, EmbargoOver
<1>8. CASE UNCHANGED vars
  BY <1>0, <1>8 DEF vars, dbVars, cycleVars, EmbargoOver
<1>9. QED
  BY <1>1, <1>2, <1>3, <1>4, <1>5, <1>6, <1>7, <1>8 DEF Next

\* The inductive step of the safety invariant.
LEMMA SafetyStep == SafetyInv /\ [Next]_vars => SafetyInv'
  BY TypeStep, BatchOpenStep, CountedStep, EmbargoOverStep DEF SafetyInv

\* The safety invariant holds in every reachable state.
THEOREM SafetyHolds == Spec => []SafetyInv
  BY SafetyInit, SafetyStep, PTL DEF Spec

\* For every configuration and any number of crashes, aborted cycles and lost
\* answers: an event is announced again only for each send whose outcome the
\* process could not know.
THEOREM RepeatsAreJustified == Spec => []RepeatsOnlyWhenUncertain
<1>1. SafetyInv => RepeatsOnlyWhenUncertain
  <2> SUFFICES ASSUME SafetyInv, NEW i \in Ids PROVE accepted[i] <= uncertain[i] + 1
    BY DEF RepeatsOnlyWhenUncertain
  <2>1. accepted[i] \in Nat /\ uncertain[i] \in Nat
    BY DEF SafetyInv, TypeInv, TypeOK, HistoryTypes
  <2>2. QED
    BY <2>1 DEF SafetyInv, Counted, Known
<1>2. QED
  BY <1>1, SafetyHolds, PTL

\* No request leaves during the persisted embargo, for every bound on sends,
\* candidates, retries and hints, and across crashes.
THEOREM EmbargoIsKept == Spec => EmbargoKept
<1>1. SafetyInv /\ [Next]_vars => [pc' = "sending" /\ pc # "sending" => cooldown = 0]_vars
  <2> SUFFICES ASSUME SafetyInv, Next, pc' = "sending", pc # "sending"
               PROVE  cooldown = 0
    OBVIOUS
  <2>1. CASE \E i \in Ids : Handle(i)
    BY <2>1, HandleEffect DEF SafetyInv, EmbargoOver
  <2>2. CASE Tick \/ PollOk \/ PollFail \/ Restart \/ CycleConfigError
    BY <2>2 DEF Tick, PollOk, PollFail, Restart, CycleConfigError, cycleVars
  <2>3. CASE Crash \/ CycleEnd \/ CycleAborts
    BY <2>3 DEF Crash, CycleEnd, CycleAborts, LoseCycle
  <2>4. CASE CycleStart \/ RecordSent \/ RecordFailure
    BY <2>4 DEF CycleStart, RecordSent, RecordFailure
  <2>5. CASE ProviderAccepts \/ AnswerLost \/ ProviderRejects
    BY <2>5 DEF ProviderAccepts, AnswerLost, ProviderRejects
  <2>6. QED
    BY <2>1, <2>2, <2>3, <2>4, <2>5 DEF Next
<1>2. QED
  BY <1>1, SafetyHolds, PTL DEF Spec, EmbargoKept

-----------------------------------------------------------------------------
\* The reported health is honest after every history of faults.
THEOREM HealthIsAlwaysHonest == Spec => []HealthIsHonest
<1>1. Init => HealthIsHonest
  BY DEF Init, HealthIsHonest
<1>2. TypeInv /\ HealthIsHonest /\ [Next]_vars => HealthIsHonest'
  <2> SUFFICES ASSUME TypeInv, HealthIsHonest, [Next]_vars PROVE HealthIsHonest'
    OBVIOUS
  <2>1. CASE Tick
    <3>1. \A i \in Ids : Undelivered(i)' = Undelivered(i)
      BY <2>1, KeepsStatus DEF Undelivered
    <3>2. QED
      BY <2>1, <3>1 DEF Tick, cycleVars, HealthIsHonest
  <2>2. CASE PollOk \/ PollFail \/ Restart
    BY <2>2 DEF PollOk, PollFail, Restart, dbVars, cycleVars, HealthIsHonest, Undelivered
  <2>3. CASE CycleConfigError \/ Crash \/ CycleAborts
    BY <2>3 DEF CycleConfigError, Crash, CycleAborts, HealthIsHonest
  <2>4. CASE CycleStart \/ RecordSent \/ RecordFailure
    BY <2>4 DEF CycleStart, RecordSent, RecordFailure, HealthIsHonest
  <2>5. ASSUME NEW i \in Ids, Handle(i) PROVE HealthIsHonest'
    BY <2>5 DEF Handle, Requeue, Claim, DeferUnconfirmed, DeferAwaiting, DeferChannel,
       SkipEnded, SkipObsolete, SkipDuplicate, Defer, Skip, Done, HealthIsHonest
  <2>6. CASE ProviderAccepts \/ AnswerLost \/ ProviderRejects
    BY <2>6 DEF ProviderAccepts, AnswerLost, ProviderRejects, HealthIsHonest
  <2>7. CASE CycleEnd
    BY <2>7 DEF CycleEnd, dbVars, HealthIsHonest, Undelivered
  <2>8. CASE UNCHANGED vars
    BY <2>8 DEF vars, dbVars, cycleVars, HealthIsHonest, Undelivered
  <2>9. QED
    BY <2>1, <2>2, <2>3, <2>4, <2>5, <2>6, <2>7, <2>8 DEF Next
<1>3. QED
  BY <1>1, <1>2, TypeInit, TypeStep, PTL DEF Spec

\* However large the hints of the provider or the embargo an earlier version
\* stored, the waits of a running channel stay within the bound.
THEOREM WaitsStayBounded == Spec => []WaitsAreBounded
<1> DEFINE Bound == Max2(RetryMax, Max2(ConfirmDelay, DeferTicks))
<1> USE DeliveryAssumption
<1>b. /\ Bound \in Nat /\ RetryMax <= Bound /\ ConfirmDelay <= Bound
      /\ DeferTicks <= Bound /\ NoDue <= Bound /\ NoDue \in Int
  BY DEF Max2, NoDue
<1> HIDE DEF Bound
<1>1. Init => WaitsAreBounded
  BY <1>b DEF Init, WaitsAreBounded, NoRow, Bound
<1>2. TypeInv /\ WaitsAreBounded /\ [Next]_vars => WaitsAreBounded'
  <2> SUFFICES ASSUME TypeInv, WaitsAreBounded, [Next]_vars PROVE WaitsAreBounded'
    OBVIOUS
  <2>0. /\ delivery \in [Ids -> Row] /\ cooldown \in Nat /\ hint \in 0..RetryMax
        /\ pc # "idle" => cooldown <= RetryMax
        /\ \A i \in Ids : delivery[i].due <= Bound /\ delivery[i].due \in Int
    BY DEF TypeInv, TypeOK, DeliveryTypes, CycleTypes, WaitsAreBounded, Row, Bound
  <2>g. SUFFICES /\ pc' # "idle" => cooldown' <= RetryMax
                 /\ \A i \in Ids : delivery'[i].due <= Bound
    BY DEF WaitsAreBounded, Bound
  <2>1. CASE Tick
    <3>1. \A i \in Ids : delivery'[i].due <= Bound
      BY <1>b, <2>0, <2>1 DEF Tick, Aged, NoDue, Max2
    <3>2. pc' # "idle" => cooldown' <= RetryMax
      BY <2>0, <2>1 DEF Tick, cycleVars, Max2
    <3>3. QED
      BY <3>1, <3>2
  <2>2. CASE CycleStart
    <3>1. ASSUME NEW i \in Ids PROVE delivery'[i].due <= Bound
      <4>1. delivery'[i] = Repaired(delivery[i])
        BY <2>2 DEF CycleStart
      <4>2. QED
        BY <1>b, <2>0, <4>1 DEF Repaired, SetStatus, Min2
    <3>2. cooldown' <= RetryMax
      BY <2>0, <2>2 DEF CycleStart, Min2
    <3>3. QED
      BY <3>1, <3>2
  <2>3. ASSUME NEW i \in Ids, NEW t \in Int, t <= Bound, NEW status,
               delivery' = [delivery EXCEPT ![i] = SetStatus(@, status, t)]
        PROVE  \A j \in Ids : delivery'[j].due <= Bound
    BY <2>0, <2>3 DEF SetStatus
  <2>4. ASSUME NEW i \in Ids, Handle(i)
        PROVE  /\ pc' # "idle" => cooldown' <= RetryMax
               /\ \A j \in Ids : delivery'[j].due <= Bound
    <3>0. pc # "idle" /\ cooldown' = cooldown
      BY <2>4 DEF Handle, Requeue, Claim, DeferUnconfirmed, DeferAwaiting, DeferChannel,
         SkipEnded, SkipObsolete, SkipDuplicate, Defer, Skip, Done, Handling, IsNext
    <3>1. ConfirmDelay - age[i] \in Int /\ ConfirmDelay - age[i] <= Bound
      BY <1>b DEF TypeInv, TypeOK, PollTypes
    <3>2. CASE Claim(i)
      BY <1>b, <2>0, <3>0, <3>2 DEF Claim
    <3>3. CASE Requeue(i)
      BY <1>b, <2>0, <2>3, <3>0, <3>3 DEF Requeue
    <3>4. CASE SkipEnded(i) \/ SkipObsolete(i) \/ SkipDuplicate(i)
      BY <1>b, <2>0, <2>3, <3>0, <3>4 DEF SkipEnded, SkipObsolete, SkipDuplicate, Skip
    <3>5. CASE DeferUnconfirmed(i)
      BY <2>0, <2>3, <3>0, <3>1, <3>5 DEF DeferUnconfirmed, Defer
    <3>6. CASE DeferAwaiting(i) \/ DeferChannel(i)
      BY <1>b, <2>0, <2>3, <3>0, <3>6 DEF DeferAwaiting, DeferChannel, Defer
    <3>7. QED
      BY <2>4, <3>2, <3>3, <3>4, <3>5, <3>6 DEF Handle
  <2>5. CASE RecordSent
    <3>1. current \in Ids
      BY <2>5 DEF RecordSent, TypeInv, InHand
    <3>2. QED
      BY <1>b, <2>0, <2>3, <2>5, <3>1 DEF RecordSent
  <2>6. CASE RecordFailure
    <3>1. current \in Ids /\ delivery[current].attempts > 0
      BY <2>6 DEF RecordFailure, TypeInv, InHand
    <3>2. delivery[current].attempts \in Nat
      BY <2>0, <3>1 DEF Row
    <3>3. /\ Backoff(delivery[current].attempts) \in Nat
          /\ Backoff(delivery[current].attempts) <= RetryMax
      BY <3>1, <3>2, BackoffType
    <3>4. /\ Max2(Backoff(delivery[current].attempts), hint) \in Int
          /\ Max2(Backoff(delivery[current].attempts), hint) <= Bound
      BY <1>b, <2>0, <3>3 DEF Max2
    <3>5. cooldown' <= RetryMax
      BY <2>0, <2>6 DEF RecordFailure
    <3>6. QED
      BY <2>3, <2>6, <3>1, <3>4, <3>5 DEF RecordFailure
  <2>7. CASE PollOk \/ PollFail
    BY <2>0, <2>7 DEF PollOk, PollFail, cycleVars
  <2>8. CASE Crash \/ Restart \/ CycleConfigError \/ CycleEnd \/ CycleAborts
    BY <2>0, <2>8 DEF Crash, Restart, CycleConfigError, CycleEnd, CycleAborts, LoseCycle,
       dbVars, cycleVars
  <2>9. CASE ProviderAccepts \/ AnswerLost \/ ProviderRejects
    BY <2>0, <2>9 DEF ProviderAccepts, AnswerLost, ProviderRejects, Unrecorded, dbVars
  <2>10. CASE UNCHANGED vars
    BY <2>0, <2>10 DEF vars, dbVars, cycleVars
  <2>11. QED
    BY <2>1, <2>2, <2>4, <2>5, <2>6, <2>7, <2>8, <2>9, <2>10 DEF Next
<1>3. QED
  BY <1>1, <1>2, TypeInit, TypeStep, PTL DEF Spec

-----------------------------------------------------------------------------
(***************************************************************************)
(* Refinement: the queue implements the abstract at-least-once channel.    *)
(* Settling commits only after the provider's answer, so a crash leaves    *)
(* the event open; a settled event is in no batch and is never sent again. *)
(***************************************************************************)

\* A step that changes only row i, and not its settlement, is a stutter; one
\* that sets it to sent or skipped settles exactly this event.
LEMMA SettledEffect ==
    ASSUME NEW i \in Ids, \A j \in Ids \ {i} : delivery'[j].status = delivery[j].status
    PROVE  [j \in Ids |-> Settled(j)]' =
              [[j \in Ids |-> Settled(j)] EXCEPT ![i] = Settled(i)']
<1>1. \A j \in Ids \ {i} : Settled(j)' = Settled(j)
  BY DEF Settled
<1>2. QED
  BY <1>1

\* For every configuration the Telegram queue implements AlertChannel.
THEOREM ChannelImplemented == Spec => ImplementsChannel
<1> USE DEF Channel!channelVars
<1>1. Init => Channel!ChannelInit
  BY DEF Init, NoRow, Settled, Channel!ChannelInit
<1>2. SafetyInv /\ [Next]_vars => [Channel!ChannelNext]_(Channel!channelVars)
  <2> SUFFICES ASSUME SafetyInv, [Next]_vars
               PROVE  [Channel!ChannelNext]_(Channel!channelVars)
    OBVIOUS
  <2> DEFINE settled == [j \in Ids |-> Settled(j)]
  <2>0. /\ TypeInv /\ BatchOpen /\ delivery \in [Ids -> Row]
        /\ accepted \in [Ids -> Nat]
        /\ pc \in {"sending", "accepted", "rejected"} =>
              current \in Ids /\ settled[current] = "open"
        /\ pc = "accepted" => accepted[current] > 0
    BY DEF SafetyInv, TypeInv, TypeOK, DeliveryTypes, HistoryTypes, InHand, Counted, Settled
  <2>1. ASSUME \A j \in Ids : delivery'[j].status = delivery[j].status
        PROVE  settled' = settled
    BY <2>1 DEF Settled
  <2>2. ASSUME NEW i \in Ids, settled[i] = "open", settled' = settled,
               accepted' = [accepted EXCEPT ![i] = @ + 1]
        PROVE  Channel!ChannelNext
    BY <2>2 DEF Channel!ChannelNext, Channel!Accept
  <2>3. CASE Tick \/ CycleStart
    BY <2>0, <2>1, <2>3, KeepsStatus DEF Tick, CycleStart, historyVars
  <2>4. CASE PollOk \/ PollFail \/ Restart \/ CycleConfigError \/ CycleEnd \/ CycleAborts
    BY <2>1, <2>4 DEF PollOk, PollFail, Restart, CycleConfigError, CycleEnd, CycleAborts,
       dbVars, historyVars
  <2>5. CASE Crash
    <3>1. settled' = settled
      BY <2>1, <2>5 DEF Crash, dbVars
    <3>2. \/ accepted' = accepted
          \/ pc = "sending" /\ accepted' = [accepted EXCEPT ![current] = @ + 1]
      <4>1. PICK arrived \in {0, 1} :
               accepted' = IF pc = "sending"
                           THEN [accepted EXCEPT ![current] = @ + arrived] ELSE accepted
        BY <2>5, Zenon DEF Crash
      <4>2. CASE arrived = 0
        <5>1. pc = "sending" => [accepted EXCEPT ![current] = @ + 0] = accepted
          BY <2>0
        <5>2. QED
          BY <4>1, <4>2, <5>1
      <4>3. CASE arrived = 1
        BY <4>1, <4>3
      <4>4. QED
        BY <4>1, <4>2, <4>3
    <3>3. QED
      BY <2>0, <2>2, <3>1, <3>2
  <2>6. CASE ProviderAccepts \/ AnswerLost
    <3>1. settled' = settled
      BY <2>1, <2>6 DEF ProviderAccepts, AnswerLost, Unrecorded, dbVars
    <3>2. QED
      BY <2>0, <2>2, <2>6, <3>1 DEF ProviderAccepts, AnswerLost
  <2>7. CASE ProviderRejects
    BY <2>1, <2>7 DEF ProviderRejects, Unrecorded, dbVars, historyVars
  <2>8. CASE RecordSent
    <3>1. /\ current \in Ids /\ settled[current] = "open" /\ accepted[current] > 0
          /\ \A j \in Ids \ {current} : delivery'[j].status = delivery[j].status
          /\ delivery'[current].status = "sent" /\ accepted' = accepted
      BY <2>0, <2>8 DEF RecordSent, SetStatus, historyVars
    <3>2. settled' = [settled EXCEPT ![current] = "delivered"]
      BY <3>1, SettledEffect DEF Settled
    <3>3. Channel!Settle({current}, {})
      BY <3>1, <3>2 DEF Channel!Settle
    <3>4. QED
      BY <3>1, <3>3 DEF Channel!ChannelNext
  <2>9. CASE RecordFailure
    <3>1. /\ current \in Ids /\ settled[current] = "open" /\ accepted' = accepted
          /\ \A j \in Ids \ {current} : delivery'[j].status = delivery[j].status
          /\ delivery'[current].status = "retry"
      BY <2>0, <2>9 DEF RecordFailure, SetStatus, historyVars
    <3>2. settled' = settled
      BY <3>1, SettledEffect DEF Settled
    <3>3. QED
      BY <3>1, <3>2
  <2>10. ASSUME NEW i \in Ids, Handle(i)
         PROVE  [Channel!ChannelNext]_(Channel!channelVars)
    <3>1. /\ settled[i] = "open" /\ accepted' = accepted
          /\ \A j \in Ids \ {i} : delivery'[j].status = delivery[j].status
          /\ delivery'[i].status \in {"retry", "skipped", "sending"}
      BY <2>0, <2>10, HandleEffect DEF Settled
    <3>2. CASE delivery'[i].status = "skipped"
      <4>1. settled' = [settled EXCEPT ![i] = "dropped"]
        BY <3>1, <3>2, SettledEffect DEF Settled
      <4>2. Channel!Settle({}, {i})
        BY <3>1, <4>1 DEF Channel!Settle
      <4>3. QED
        BY <4>2 DEF Channel!ChannelNext
    <3>3. CASE delivery'[i].status \in {"retry", "sending"}
      <4>1. settled' = settled
        BY <3>1, <3>3, SettledEffect DEF Settled
      <4>2. QED
        BY <3>1, <4>1
    <3>4. QED
      BY <3>1, <3>2, <3>3
  <2>11. CASE UNCHANGED vars
    BY <2>1, <2>11 DEF vars, dbVars, historyVars
  <2>12. QED
    BY <2>3, <2>4, <2>5, <2>6, <2>7, <2>8, <2>9, <2>10, <2>11 DEF Next
<1>3. QED
  BY <1>1, <1>2, SafetyHolds, PTL DEF Spec, ImplementsChannel, Channel!ChannelSpec

-----------------------------------------------------------------------------
(***************************************************************************)
(* What a claim is based on.  The decision and the claim are one section   *)
(* of the lock, also after a requeue that committed on its own.            *)
(***************************************************************************)

\* The evidence behind a decision to send.
LEMMA ClaimIsFounded ==
    ASSUME TypeInv, NEW i \in Recorded, Decision(i) = "claim"
    PROVE  /\ ~failedPoll /\ snapAge <= Freshness
           /\ snapshot[log[i].obj].seen
           /\ snapshot[log[i].obj].serial = log[i].serial
           /\ StillShown(log[i], snapshot[log[i].obj].level)
           /\ log[i].sev = "warning" =>
                 /\ age[i] >= ConfirmDelay
                 /\ \A k \in Recorded : k > i /\ log[k].obj = log[i].obj
                       => log[k].sev = "warning"
<1>1. /\ age[i] \in Nat /\ snapAge \in Nat /\ Freshness \in Nat /\ ConfirmDelay \in Nat
      /\ DOMAIN log = Recorded
  BY DeliveryAssumption DEF TypeInv, TypeOK, PollTypes, Freshness, Recorded, Ids
<1>2. /\ Relevance(i) = "active"
      /\ log[i].sev = "warning" => ~(age[i] < ConfirmDelay) /\ ~WarningHasEnded(log, i)
  BY DEF Decision
<1>3. /\ ~(snapAge > Freshness) /\ ~failedPoll
      /\ Evidence(log[i], snapshot[log[i].obj]) = "active"
  BY <1>2 DEF Relevance
<1>4. /\ snapshot[log[i].obj].seen
      /\ snapshot[log[i].obj].serial = log[i].serial
      /\ StillShown(log[i], snapshot[log[i].obj].level)
  BY <1>3 DEF Evidence
<1>5. ASSUME log[i].sev = "warning"
      PROVE  \A k \in Recorded : k > i /\ log[k].obj = log[i].obj => log[k].sev = "warning"
  BY <1>1, <1>2, <1>5 DEF WarningHasEnded
<1> QED
  BY <1>1, <1>2, <1>3, <1>4, <1>5

\* A row becomes "sending" in a claim only.
LEMMA OnlyClaimsSend ==
    ASSUME SafetyInv, Next, NEW i \in Ids,
           delivery[i].status # "sending", delivery'[i].status = "sending"
    PROVE  Claim(i)
<1>0. TypeInv /\ BatchOpen /\ delivery \in [Ids -> Row]
  BY DEF SafetyInv, TypeInv, TypeOK, DeliveryTypes
<1>1. CASE Tick \/ CycleStart
  BY <1>0, <1>1, KeepsStatus
<1>2. CASE \/ PollOk \/ PollFail \/ Crash \/ Restart \/ CycleConfigError
           \/ ProviderAccepts \/ AnswerLost \/ ProviderRejects \/ CycleEnd \/ CycleAborts
  BY <1>2 DEF PollOk, PollFail, Crash, Restart, CycleConfigError, ProviderAccepts,
     AnswerLost, ProviderRejects, CycleEnd, CycleAborts, Unrecorded, dbVars
<1>3. CASE RecordSent \/ RecordFailure
  BY <1>0, <1>3 DEF RecordSent, RecordFailure, SetStatus
<1>4. ASSUME NEW j \in Ids, Handle(j) PROVE Claim(i)
  <2>1. j = i
    BY <1>0, <1>4, HandleEffect
  <2>2. ASSUME NEW status \in {"retry", "skipped"}, NEW due,
               delivery' = [delivery EXCEPT ![i] = SetStatus(@, status, due)]
        PROVE  FALSE
    BY <1>0, <2>2 DEF SetStatus
  <2> QED
    BY <1>4, <2>1, <2>2 DEF Handle, Requeue, DeferUnconfirmed, DeferAwaiting, DeferChannel,
       SkipEnded, SkipObsolete, SkipDuplicate, Defer, Skip
<1> QED
  BY <1>1, <1>2, <1>3, <1>4 DEF Next

\* For every delay, freshness limit and event history: a message is committed to be
\* sent only on a fresh successful poll that still shows the incident.
THEOREM ClaimsStayCurrent == Spec => ClaimsAreCurrent
<1>1. TypeInv => Recorded \subseteq Ids
  BY DeliveryAssumption DEF TypeInv, TypeOK, PollTypes, Recorded, Ids
<1>2. SafetyInv /\ [Next]_vars =>
         [\A i \in Recorded :
            delivery[i].status # "sending" /\ delivery'[i].status = "sending" =>
               /\ ~failedPoll /\ snapAge <= Freshness
               /\ snapshot[log[i].obj].seen
               /\ snapshot[log[i].obj].serial = log[i].serial
               /\ StillShown(log[i], snapshot[log[i].obj].level)
               /\ log[i].sev = "warning" =>
                     /\ age[i] >= ConfirmDelay
                     /\ \A k \in Recorded : k > i /\ log[k].obj = log[i].obj
                           => log[k].sev = "warning"]_vars
  <2> SUFFICES ASSUME SafetyInv, Next, NEW i \in Recorded,
                      delivery[i].status # "sending", delivery'[i].status = "sending"
               PROVE  TypeInv /\ Decision(i) = "claim"
    BY ClaimIsFounded
  <2>1. Claim(i)
    BY <1>1, OnlyClaimsSend DEF SafetyInv
  <2> QED
    BY <2>1 DEF Claim, Handling, SafetyInv
<1> QED
  BY <1>2, SafetyHolds, PTL DEF Spec, ClaimsAreCurrent

-----------------------------------------------------------------------------
(***************************************************************************)
(* One message per incident.  A message is out, or may be, while its row   *)
(* is sent or in hand.  Of two such rows of one incident one was sent more *)
(* than the suppression window ago: the later claim found it so, and the   *)
(* age of a row that is out only grows.                                    *)
(***************************************************************************)
InFlight(i) == current = i /\ pc \in {"sending", "accepted", "rejected"}
Out(i)      == delivery[i].status = "sent" \/ InFlight(i)
LongAgo(i)  == delivery[i].since > SuppressWindow

Spaced ==
    \A i, j \in Recorded :
        i < j /\ SameIncident(log[i], log[j]) /\ ~Superseded(log, i, 1..j) /\ Out(i) /\ Out(j)
        => LongAgo(i) \/ LongAgo(j)

\* Only recorded events are queued.
QueueOfRecorded ==
    /\ batch \subseteq Recorded
    /\ \A i \in Ids \ Recorded : delivery[i].status = "none"

SpacedInv == SafetyInv /\ QueueOfRecorded /\ Spaced

\* The recorded events are among the rows of the delivery table.
LEMMA RecordedIds == TypeInv => Recorded \subseteq Ids /\ Len(log) \in Nat
  BY DeliveryAssumption DEF TypeInv, TypeOK, PollTypes, Recorded, Ids

\* A poll appends to the event log.
LEMMA PollAppends ==
    ASSUME TypeInv, PollOk
    PROVE  \E o \in Objects, new \in Reading :
             LET events == Detect(o, snapshot[o], new)
             IN  /\ PossibleReading(o, snapshot[o], new) /\ snapshot[o] \in Reading
                 /\ events \in Seq(Event) /\ log' = log \o events /\ log \in Seq(Event)
                 /\ snapshot' = [snapshot EXCEPT ![o] = new]
                 /\ Len(log') = Len(log) + Len(events)
                 /\ \A i \in Recorded : log'[i] = log[i]
                 /\ \A k \in 1..Len(events) : log'[Len(log) + k] = events[k]
<1>1. PICK o \in Objects, level \in Levels, s \in Serials, seen \in BOOLEAN :
        LET old == snapshot[o]
            new == [level |-> level, serial |-> s, seen |-> seen]
            events == Detect(o, old, new)
        IN  /\ PossibleReading(o, old, new)
            /\ Len(log) + Len(events) <= MaxEvents
            /\ log' = log \o events
            /\ snapshot' = [snapshot EXCEPT ![o] = new]
  BY Zenon DEF PollOk
<1> DEFINE new == [level |-> level, serial |-> s, seen |-> seen]
           events == Detect(o, snapshot[o], new)
<1>2. new \in Reading /\ snapshot[o] \in Reading /\ log \in Seq(Event)
  BY DEF Reading, TypeInv, TypeOK, PollTypes
<1>3. events \in Seq(Event)
  BY <1>2, DetectType
<1>4. log' = log \o events
  BY <1>1
<1>5. ASSUME NEW t \in Seq(Event), log' = log \o t
      PROVE  /\ Len(log') = Len(log) + Len(t)
             /\ \A i \in Recorded : log'[i] = log[i]
             /\ \A k \in 1..Len(t) : log'[Len(log) + k] = t[k]
  BY <1>2, <1>5 DEF Recorded
<1> HIDE DEF new
<1>6. PossibleReading(o, snapshot[o], new) /\ snapshot' = [snapshot EXCEPT ![o] = new]
  BY <1>1 DEF new
<1> QED
  BY <1>2, <1>3, <1>4, <1>5, <1>6

\* Events are recorded before they are queued.
LEMMA QueueStep == SafetyInv /\ QueueOfRecorded /\ [Next]_vars => QueueOfRecorded'
<1> SUFFICES ASSUME SafetyInv, QueueOfRecorded, [Next]_vars PROVE QueueOfRecorded'
  OBVIOUS
<1>0. /\ TypeInv /\ BatchOpen /\ Recorded \subseteq Ids /\ delivery \in [Ids -> Row]
      /\ pc \in {"sending", "accepted", "rejected"} =>
            current \in Ids /\ delivery[current].status = "sending"
  BY RecordedIds DEF SafetyInv, TypeInv, TypeOK, DeliveryTypes, InHand
<1>1. CASE Tick
  BY <1>0, <1>1, KeepsStatus DEF Tick, cycleVars, QueueOfRecorded, Recorded
<1>2. CASE PollOk
  <2>1. Recorded \subseteq Recorded'
    BY <1>0, <1>2, PollAppends, RecordedIds DEF Recorded
  <2> QED
    BY <1>2, <2>1 DEF PollOk, cycleVars, QueueOfRecorded
<1>3. CASE PollFail \/ Restart \/ CycleConfigError
  BY <1>3 DEF PollFail, Restart, CycleConfigError, dbVars, cycleVars, QueueOfRecorded,
     Recorded
<1>4. CASE Crash \/ CycleEnd \/ CycleAborts
  BY <1>4 DEF Crash, CycleEnd, CycleAborts, LoseCycle, dbVars, QueueOfRecorded, Recorded
<1>5. CASE CycleStart
  <2>1. batch' \subseteq Recorded /\ log' = log
    BY <1>5 DEF CycleStart, Candidates
  <2> QED
    BY <1>0, <1>5, <2>1, KeepsStatus DEF QueueOfRecorded, Recorded
<1>6. ASSUME NEW i \in Ids, Handle(i) PROVE QueueOfRecorded'
  BY <1>0, <1>6, HandleEffect DEF QueueOfRecorded, Recorded
<1>7. CASE ProviderAccepts \/ AnswerLost \/ ProviderRejects
  BY <1>7 DEF ProviderAccepts, AnswerLost, ProviderRejects, Unrecorded, dbVars,
     QueueOfRecorded, Recorded
<1>8. CASE RecordSent \/ RecordFailure
  <2>1. /\ log' = log /\ batch' = batch
        /\ \A i \in Ids \ {current} : delivery'[i] = delivery[i]
    BY <1>0, <1>8 DEF RecordSent, RecordFailure
  <2>2. current \in Recorded
    BY <1>0, <1>8 DEF RecordSent, RecordFailure, QueueOfRecorded
  <2> QED
    BY <2>1, <2>2 DEF QueueOfRecorded, Recorded
<1>9. CASE UNCHANGED vars
  BY <1>9 DEF vars, dbVars, cycleVars, QueueOfRecorded, Recorded
<1> QED
  BY <1>1, <1>2, <1>3, <1>4, <1>5, <1>6, <1>7, <1>8, <1>9 DEF Next

\* A step that puts nothing out and makes no row younger keeps the spacing.
LEMMA SpacedKept ==
    ASSUME Spaced, log' = log,
           \A i \in Recorded : Out(i)' => Out(i) /\ (LongAgo(i) => LongAgo(i)')
    PROVE  Spaced'
  BY DEF Spaced, Recorded, Superseded

\* A claim finds the messages about its incident long ago.
LEMMA ClaimFindsSpace ==
    ASSUME TypeInv, NEW i \in Recorded, Decision(i) = "claim", NEW j \in Recorded,
           j # i, delivery[j].status = "sent", ~LongAgo(j)
    PROVE  /\ j < i /\ SameIncident(log[j], log[i]) => Superseded(log, j, 1..i)
           /\ ~(i < j /\ SameIncident(log[i], log[j]))
<1>1. ~SameIncidentSent(i)
  BY DEF Decision
<1>2. delivery[j].since \in Nat /\ SuppressWindow \in Nat
  <2>1. j \in Ids /\ delivery[j] \in Row
    BY RecordedIds DEF TypeInv, TypeOK, DeliveryTypes
  <2> QED
    BY <2>1, DeliveryAssumption DEF Row
<1>3. delivery[j].since <= SuppressWindow
  BY <1>2 DEF LongAgo
<1>4. SameIncident(log[i], log[j]) => Superseded(log, j, 1..i)
  BY <1>1, <1>3 DEF SameIncidentSent
<1>5. SameIncident(log[i], log[j]) <=> SameIncident(log[j], log[i])
  BY DEF SameIncident
<1>6. i < j => ~Superseded(log, j, 1..i)
  BY DEF Superseded, Recorded
<1> QED
  BY <1>4, <1>5, <1>6

\* Sending and aging keep the messages of one incident apart.
LEMMA SpacedStep == SpacedInv /\ [Next]_vars => Spaced'
<1> SUFFICES ASSUME SpacedInv, [Next]_vars PROVE Spaced'
  OBVIOUS
<1>0. /\ SafetyInv /\ TypeInv /\ BatchOpen /\ QueueOfRecorded /\ Spaced
      /\ Recorded \subseteq Ids /\ delivery \in [Ids -> Row] /\ SuppressWindow \in Nat
      /\ \A i \in Ids : delivery[i].since \in Nat
  BY RecordedIds, DeliveryAssumption
     DEF SpacedInv, SafetyInv, TypeInv, TypeOK, DeliveryTypes, Row
<1>h. pc \in {"sending", "accepted", "rejected"} =>
         current \in Recorded /\ delivery[current].status = "sending"
  BY <1>0 DEF TypeInv, InHand, QueueOfRecorded
<1>1. CASE Tick
  <2>1. ASSUME NEW i \in Recorded, Out(i)'
        PROVE  Out(i) /\ (LongAgo(i) => LongAgo(i)')
    <3>1. /\ delivery'[i].status = delivery[i].status
          /\ delivery'[i] = Aged(delivery[i])
          /\ pc' = pc /\ current' = current
      BY <1>0, <1>1, KeepsStatus DEF Tick, cycleVars
    <3>2. Out(i) /\ delivery[i].status \in {"sending", "sent"}
      BY <1>h, <2>1, <3>1 DEF Out, InFlight
    <3>3. delivery'[i].since = Min2(delivery[i].since + 1, SuppressWindow + 1)
      BY <3>1, <3>2 DEF Aged
    <3> QED
      BY <1>0, <3>2, <3>3 DEF LongAgo, Min2
  <2> QED
    BY <1>0, <1>1, <2>1, SpacedKept DEF Tick
<1>2. CASE PollOk
  <2>1. /\ \A i \in Recorded : log'[i] = log[i]
        /\ Recorded' = 1..Len(log') /\ Len(log) \in Nat
    BY <1>0, <1>2, PollAppends, RecordedIds DEF Recorded
  <2>2. \A i \in Ids : (Out(i)' <=> Out(i)) /\ (LongAgo(i)' <=> LongAgo(i))
    BY <1>2 DEF PollOk, cycleVars, Out, InFlight, LongAgo
  <2>3. \A i \in Recorded' : i \in Ids /\ (Out(i)' => i \in Recorded)
    <3>1. Recorded' \subseteq Ids
      <4>1. TypeInv'
        BY <1>0, TypeStep
      <4> QED
        BY <4>1, DeliveryAssumption DEF TypeInv, TypeOK, PollTypes, Recorded, Ids
    <3>2. \A i \in Ids : Out(i) => i \in Recorded
      BY <1>0, <1>h DEF QueueOfRecorded, Out, InFlight
    <3> QED
      BY <2>2, <3>1, <3>2
  <2>4. ASSUME NEW i \in Recorded, NEW j \in Recorded
        PROVE  Superseded(log', i, 1..j) <=> Superseded(log, i, 1..j)
    <3>1. \A k \in 1..j : k \in Recorded
      BY <2>1 DEF Recorded
    <3> QED
      BY <2>1, <3>1 DEF Superseded
  <2> QED
    BY <1>0, <2>1, <2>2, <2>3, <2>4 DEF Spaced
<1>3. CASE PollFail \/ Restart \/ CycleConfigError \/ UNCHANGED vars
  BY <1>0, <1>3, SpacedKept DEF PollFail, Restart, CycleConfigError, vars, dbVars,
     cycleVars, Out, InFlight, LongAgo
<1>4. CASE Crash \/ CycleEnd \/ CycleAborts
  BY <1>0, <1>4, SpacedKept DEF Crash, CycleEnd, CycleAborts, LoseCycle, dbVars,
     Out, InFlight, LongAgo
<1>5. CASE CycleStart
  <2>1. ASSUME NEW i \in Recorded
        PROVE  delivery'[i].since = delivery[i].since /\ (Out(i)' => Out(i))
    <3>1. delivery'[i] = Repaired(delivery[i]) /\ delivery'[i].status = delivery[i].status
      BY <1>0, <1>5, KeepsStatus DEF CycleStart
    <3>2. delivery'[i].since = delivery[i].since
      BY <3>1 DEF Repaired, SetStatus
    <3>3. pc' = "loop"
      BY <1>5 DEF CycleStart
    <3> QED
      BY <3>1, <3>2, <3>3 DEF Out, InFlight
  <2> QED
    BY <1>0, <1>5, <2>1, SpacedKept DEF CycleStart, LongAgo
<1>6. ASSUME NEW i \in Ids, Handle(i) PROVE Spaced'
  <2>1. /\ log' = log /\ i \in Recorded /\ pc \in {"loop", "requeued"}
        /\ \A j \in Ids \ {i} : delivery'[j] = delivery[j]
        /\ delivery'[i].status # "sent"
        /\ pc' \in {"sending", "accepted", "rejected"} => current' = i
    BY <1>0, <1>6, HandleEffect DEF QueueOfRecorded
  <2>2. ASSUME NEW j \in Recorded, j # i, Out(j)'
        PROVE  delivery[j].status = "sent" /\ Out(j) /\ (LongAgo(j)' <=> LongAgo(j))
    BY <1>0, <2>1, <2>2 DEF Out, InFlight, LongAgo
  <2>3. CASE Claim(i)
    <3>1. Decision(i) = "claim"
      BY <2>3 DEF Claim, Handling
    <3>2. ASSUME NEW j \in Recorded, j # i, Out(j)', ~LongAgo(j)'
          PROVE  /\ j < i /\ SameIncident(log[j], log[i]) => Superseded(log, j, 1..i)
                 /\ ~(i < j /\ SameIncident(log[i], log[j]))
      BY <1>0, <2>1, <2>2, <3>1, <3>2, ClaimFindsSpace
    <3>3. Recorded' = Recorded /\ Recorded \subseteq Nat
      BY <2>1 DEF Recorded
    <3> SUFFICES ASSUME NEW j \in Recorded, NEW k \in Recorded, j < k,
                        SameIncident(log[j], log[k]), ~Superseded(log, j, 1..k),
                        Out(j)', Out(k)'
                 PROVE  LongAgo(j)' \/ LongAgo(k)'
      BY <2>1, <3>3 DEF Spaced
    <3>4. CASE j = i \/ k = i
      BY <3>2, <3>3, <3>4
    <3>5. CASE j # i /\ k # i
      BY <1>0, <2>2, <3>5 DEF Spaced
    <3> QED
      BY <3>4, <3>5
  <2>4. CASE ~Claim(i)
    <3>1. pc' \in {"loop", "requeued"}
      BY <1>6, <2>4 DEF Handle, Requeue, DeferUnconfirmed, DeferAwaiting, DeferChannel,
         SkipEnded, SkipObsolete, SkipDuplicate, Defer, Skip, Done
    <3>2. ~Out(i)'
      BY <2>1, <3>1 DEF Out, InFlight
    <3> QED
      BY <1>0, <2>1, <2>2, <3>2, SpacedKept
  <2> QED
    BY <2>3, <2>4
<1>7. CASE ProviderAccepts \/ AnswerLost \/ ProviderRejects
  BY <1>0, <1>7, SpacedKept DEF ProviderAccepts, AnswerLost, ProviderRejects, Unrecorded,
     dbVars, Out, InFlight, LongAgo
<1>8. CASE RecordSent \/ RecordFailure
  <2>1. /\ log' = log /\ pc' = "loop" /\ InFlight(current)
        /\ \A i \in Recorded : delivery'[i].since = delivery[i].since
        /\ \A i \in Recorded \ {current} : delivery'[i] = delivery[i]
    BY <1>0, <1>8 DEF RecordSent, RecordFailure, InFlight, SetStatus
  <2>2. \A i \in Recorded : Out(i)' => Out(i)
    BY <2>1 DEF Out, InFlight
  <2> QED
    BY <1>0, <2>1, <2>2, SpacedKept DEF LongAgo
<1> QED
  BY <1>1, <1>2, <1>3, <1>4, <1>5, <1>6, <1>7, <1>8 DEF Next

\* For every window, delay, limit and history of crashes, aborts and failures: two
\* events of one uninterrupted incident are both announced only when the suppression
\* window lies between the messages or an answer was lost.
THEOREM OneMessageEach == Spec => []OneMessagePerIncident
<1>1. Init => SpacedInv
  <2> SUFFICES ASSUME Init PROVE SpacedInv
    OBVIOUS
  <2>1. Recorded = {} /\ batch = {} /\ \A i \in Ids : delivery[i].status = "none"
    BY DEF Init, Recorded, NoRow
  <2> QED
    BY <2>1, SafetyInit DEF SpacedInv, QueueOfRecorded, Spaced
<1>2. SpacedInv /\ [Next]_vars => SpacedInv'
  BY SafetyStep, QueueStep, SpacedStep DEF SpacedInv
<1>3. SpacedInv => OneMessagePerIncident
  <2> SUFFICES ASSUME SpacedInv, NEW i \in Recorded, NEW j \in Recorded, i < j,
                      SameIncident(log[i], log[j]), ~Superseded(log, i, 1..j),
                      accepted[i] > 0, accepted[j] > 0, uncertain[i] = 0, uncertain[j] = 0
               PROVE  LongAgo(i) \/ LongAgo(j)
    BY DEF OneMessagePerIncident, LongAgo
  <2>1. ASSUME NEW k \in Recorded, accepted[k] > 0, uncertain[k] = 0 PROVE Out(k)
    <3>1. k \in Ids /\ accepted[k] \in Nat /\ accepted[k] <= 0 + Known(k)
      BY <2>1, RecordedIds
         DEF SpacedInv, SafetyInv, Counted, TypeInv, TypeOK, HistoryTypes
    <3> QED
      BY <2>1, <3>1 DEF Known, Out, InFlight
  <2> QED
    BY <2>1 DEF SpacedInv, Spaced
<1> QED
  BY <1>1, <1>2, <1>3, PTL DEF Spec

-----------------------------------------------------------------------------
(***************************************************************************)
(* From the poll to the message: the safety half of OpenIncidentsAnnounced,*)
(* which speaks of recorded events and of what eventually happens.         *)
(***************************************************************************)

\* Event i is still to be announced, was announced, or was dropped as a duplicate of
\* a message about the same incident.
StillToldOf(i) ==
    \/ delivery[i].status # "skipped"
    \/ \E j \in Recorded \ {i} :
          /\ delivery[j].status = "sent" /\ SameIncident(log[i], log[j])
          /\ ~Superseded(log, j, 1..i)

AlarmKept(o) ==
    \E i \in Recorded :
        /\ log[i].obj = o /\ log[i].sev = "critical"
        /\ log[i].serial = snapshot[o].serial /\ log[i].after = snapshot[o].level
        /\ ~Superseded(log, i, Recorded) /\ StillToldOf(i)

\* A state, a flag or a temperature that is critical in the newest reading has a
\* critical event about the same disk and level that nothing has superseded and that
\* the notifier has not given up, through missing readings, replaced disks, several
\* transitions in one poll, crashes and failed sends.  (A counter that falls leaves
\* an event about a count that is no longer shown.)
AlarmsKept ==
    \A o \in Objects \ CounterObjects :
        Severity(snapshot[o].level) = "critical" => AlarmKept(o)

\* The readings of an object keep to its levels.
LevelsFit == \A o \in Objects : snapshot[o].level \in LevelsOf(o)

\* The detector reports the object it compares.
LEMMA DetectObject ==
    ASSUME NEW o \in Objects, NEW old \in Reading, NEW new \in Reading
    PROVE  \A k \in 1..Len(Detect(o, old, new)) : Detect(o, old, new)[k].obj = o
<1> DEFINE Own == {e \in Event : e.obj = o}
<1>1. \A sev \in Severities, after \in Levels, rise \in BOOLEAN :
         NewEvent(o, sev, after, rise, new.serial) \in Own
  BY DEF NewEvent, Event, Reading
<1>2. Severity(new.level) \in Severities /\ new.level \in Levels
  BY DEF Severity, Severities, Levels, Reading
<1>3. <<>> \in Seq(Own) /\ \A e \in Own : <<e>> \in Seq(Own)
  OBVIOUS
<1>4. /\ NewEvent(o, Severity(new.level), new.level, FALSE, new.serial) \in Own
      /\ NewEvent(o, "critical", "set", ~(old.serial # new.serial), new.serial) \in Own
      /\ NewEvent(o, "critical", new.level, FALSE, new.serial) \in Own
      /\ NewEvent(o, "warning", "warning", FALSE, new.serial) \in Own
      /\ NewEvent(o, "critical", "critical", FALSE, new.serial) \in Own
      /\ NewEvent(o, "info", "warning", FALSE, new.serial) \in Own
      /\ NewEvent(o, "info", "ok", FALSE, new.serial) \in Own
  BY <1>1, <1>2 DEF Severities, Levels
<1> HIDE DEF Own
<1>5. ASSUME NEW from PROVE TempEvents(o, from, new) \in Seq(Own)
  BY <1>3, <1>4, ConcatType DEF TempEvents
<1>6. /\ StateEvents(o, old, new) \in Seq(Own) /\ FlagEvents(o, old, new) \in Seq(Own)
      /\ CounterEvents(o, old, new) \in Seq(Own)
  BY <1>3, <1>4, Zenon DEF StateEvents, FlagEvents, CounterEvents
<1>7. Detect(o, old, new) \in Seq(Own)
  BY <1>5, <1>6, Zenon DEF Detect
<1> QED
  BY <1>7 DEF Own

\* What is appended to a list of events comes last.
LEMMA AppendedLast ==
    ASSUME NEW s \in Seq(Event), NEW e \in Event
    PROVE  LET t == s \o <<e>> \o <<>> \o <<>>
           IN  t \in Seq(Event) /\ Len(t) = Len(s) + 1 /\ t[Len(t)] = e
<1>1. <<e>> \in Seq(Event) /\ Len(<<e>>) = 1 /\ <<e>>[1] = e
  OBVIOUS
<1>2. PICK r : r = s \o <<e>>
  OBVIOUS
<1>3. r \in Seq(Event) /\ Len(r) = Len(s) + 1 /\ r[Len(s) + 1] = e
  BY <1>1, <1>2
<1>4. r \o <<>> = r
  BY <1>3
<1> QED
  BY <1>2, <1>3, <1>4

\* A temperature that becomes critical is reported as that in the last place.
LEMMA TempAlarm ==
    ASSUME NEW o \in Objects, NEW new \in Reading, new.level = "critical",
           NEW from \in {"ok", "warning"}
    PROVE  LET events == TempEvents(o, from, new)
           IN  /\ Len(events) > 0
               /\ events[Len(events)] =
                     NewEvent(o, "critical", "critical", FALSE, new.serial)
<1>1. PICK alarm : alarm = NewEvent(o, "critical", "critical", FALSE, new.serial)
  OBVIOUS
<1>2. PICK rose : rose = NewEvent(o, "warning", "warning", FALSE, new.serial)
  OBVIOUS
<1>3. alarm \in Event /\ rose \in Event
  BY <1>1, <1>2 DEF NewEvent, Event, Reading, Severities, Levels
<1>4. PICK s : s = IF from = "ok" /\ new.level # "ok" THEN <<rose>> ELSE <<>>
  OBVIOUS
<1>5. s \in Seq(Event)
  BY <1>3, <1>4
<1>6. TempEvents(o, from, new) = s \o <<alarm>> \o <<>> \o <<>>
  <2>1. /\ from # "critical" /\ new.level = "critical"
        /\ ~(from = "critical" /\ new.level # "critical")
        /\ ~(from # "ok" /\ new.level = "ok")
    OBVIOUS
  <2> QED
    BY <1>1, <1>2, <1>4, <2>1, Zenon DEF TempEvents
<1>7. PICK t : t = s \o <<alarm>> \o <<>> \o <<>>
  OBVIOUS
<1>8. t \in Seq(Event) /\ Len(t) = Len(s) + 1 /\ t[Len(t)] = alarm /\ Len(s) \in Nat
  BY <1>3, <1>5, <1>7, AppendedLast
<1>9. Len(t) > 0
  BY <1>8
<1>10. TempEvents(o, from, new) = t
  BY <1>6, <1>7
<1> QED
  BY <1>1, <1>8, <1>9, <1>10, Zenon

\* A critical reading is either the previous one again or the subject of the last
\* event of the poll.
LEMMA DetectAlarm ==
    ASSUME NEW o \in Objects \ CounterObjects, NEW old \in Reading, NEW new \in Reading,
           old.level \in LevelsOf(o), new.level \in LevelsOf(o),
           Severity(new.level) = "critical"
    PROVE  LET events == Detect(o, old, new)
           IN  \/ /\ events = <<>>
                  /\ old.level = new.level /\ old.serial = new.serial
               \/ \E rise :
                     /\ Len(events) > 0
                     /\ events[Len(events)] =
                           NewEvent(o, "critical", new.level, rise, new.serial)
<1> USE ObjectsAssumption
<1>0. \A e : Len(<<e>>) > 0 /\ <<e>>[Len(<<e>>)] = e
  OBVIOUS
<1>1. CASE o \in StateObjects
  <2>1. Detect(o, old, new) = StateEvents(o, old, new)
    BY <1>1 DEF Detect
  <2>2. CASE old.level = new.level /\ old.serial = new.serial
    <3>1. StateEvents(o, old, new) = <<>>
      BY <2>2 DEF StateEvents
    <3> QED
      BY <2>1, <2>2, <3>1
  <2>3. CASE ~(old.level = new.level /\ old.serial = new.serial)
    <3>1. StateEvents(o, old, new) = <<NewEvent(o, "critical", new.level, FALSE, new.serial)>>
      BY <2>3 DEF StateEvents
    <3>2. Detect(o, old, new) = <<NewEvent(o, "critical", new.level, FALSE, new.serial)>>
      BY <2>1, <3>1
    <3>3. /\ Len(Detect(o, old, new)) > 0
          /\ Detect(o, old, new)[Len(Detect(o, old, new))] =
                NewEvent(o, "critical", new.level, FALSE, new.serial)
      BY <1>0, <3>2, Zenon
    <3> QED
      BY <3>3, Zenon
  <2> QED
    BY <2>2, <2>3
<1>2. CASE o \in FlagObjects
  <2>1. new.level = "set"
    BY <1>2 DEF LevelsOf, Severity
  <2>2. Detect(o, old, new) = FlagEvents(o, old, new)
    BY <1>2 DEF Detect
  <2> QED
    BY <2>1, <2>2 DEF FlagEvents
<1>3. CASE o \in TempObjects
  <2>1. /\ new.level = "critical" /\ TempBefore(old, new) \in {"ok", "warning", "critical"}
        /\ o \in Objects
    BY <1>3 DEF LevelsOf, Severity, TempBefore, Objects
  <2>2. Detect(o, old, new) = TempEvents(o, TempBefore(old, new), new)
    BY <1>3 DEF Detect
  <2>3. CASE TempBefore(old, new) = "critical"
    <3>1. old.level = new.level /\ old.serial = new.serial
      BY <2>1, <2>3 DEF TempBefore
    <3>2. TempEvents(o, "critical", new) = <<>> \o <<>> \o <<>> \o <<>>
      BY <2>1, Zenon DEF TempEvents
    <3>3. <<>> \in Seq(Event) /\ \A s \in Seq(Event) : s \o <<>> = s
      OBVIOUS
    <3> QED
      BY <2>2, <2>3, <3>1, <3>2, <3>3, Zenon
  <2>4. CASE TempBefore(old, new) \in {"ok", "warning"}
    BY <2>1, <2>2, <2>4, TempAlarm
  <2> QED
    BY <2>1, <2>3, <2>4
<1> QED
  BY <1>1, <1>2, <1>3 DEF Objects

\* Only a successful poll writes events and readings.
LEMMA OnlyPollsRecord ==
    ASSUME TypeInv, BatchOpen, [Next]_vars, ~PollOk
    PROVE  log' = log /\ snapshot' = snapshot
<1>1. ASSUME NEW i \in Ids, Handle(i) PROVE log' = log /\ snapshot' = snapshot
  BY <1>1 DEF Handle, Requeue, DeferUnconfirmed, DeferAwaiting, DeferChannel,
     SkipEnded, SkipObsolete, SkipDuplicate, Defer, Skip, Done, Claim
<1>2. CASE \/ Tick \/ PollFail \/ Crash \/ Restart \/ CycleStart \/ CycleConfigError
           \/ CycleEnd \/ CycleAborts
  BY <1>2 DEF Tick, PollFail, Crash, Restart, CycleStart, CycleConfigError, CycleEnd,
     CycleAborts, dbVars
<1>3. CASE ProviderAccepts \/ AnswerLost \/ ProviderRejects \/ RecordSent \/ RecordFailure
  BY <1>3 DEF ProviderAccepts, AnswerLost, ProviderRejects, RecordSent, RecordFailure,
     Unrecorded, dbVars
<1> QED
  BY <1>1, <1>2, <1>3 DEF Next, vars, dbVars

\* A poll keeps every alarm of the new snapshot on record.
LEMMA AlarmStep ==
    ASSUME SafetyInv, QueueOfRecorded, LevelsFit, AlarmsKept, PollOk
    PROVE  LevelsFit' /\ AlarmsKept'
<1>0. TypeInv /\ TypeInv' /\ Recorded' \subseteq Ids /\ delivery' = delivery
  <2>1. TypeInv /\ TypeInv'
    BY TypeStep DEF SafetyInv, Next
  <2>2. Recorded' \subseteq Ids
    BY <2>1, DeliveryAssumption DEF TypeInv, TypeOK, PollTypes, Recorded, Ids
  <2> QED
    BY <2>1, <2>2 DEF PollOk
<1>1. PICK o \in Objects, new \in Reading :
        LET events == Detect(o, snapshot[o], new)
        IN  /\ PossibleReading(o, snapshot[o], new) /\ snapshot[o] \in Reading
            /\ events \in Seq(Event) /\ log' = log \o events /\ log \in Seq(Event)
            /\ snapshot' = [snapshot EXCEPT ![o] = new]
            /\ Len(log') = Len(log) + Len(events)
            /\ \A i \in Recorded : log'[i] = log[i]
            /\ \A k \in 1..Len(events) : log'[Len(log) + k] = events[k]
  BY <1>0, PollAppends
<1>2. PICK events : events = Detect(o, snapshot[o], new)
  OBVIOUS
<1>3. PICK n \in Nat : n = Len(log)
  BY <1>1
<1>4. /\ snapshot \in [Objects -> Reading] /\ snapshot' = [snapshot EXCEPT ![o] = new]
      /\ Len(events) \in Nat /\ Len(log') = n + Len(events)
      /\ \A i \in 1..n : log'[i] = log[i]
      /\ \A k \in 1..Len(events) : log'[n + k] = events[k] /\ events[k].obj = o
      /\ Recorded = 1..n /\ Recorded' = 1..Len(log')
  BY <1>0, <1>1, <1>2, <1>3, DetectObject DEF TypeInv, TypeOK, PollTypes, Recorded
<1>5. LevelsFit'
  <2>1. new.level \in LevelsOf(o)
    BY <1>1 DEF PossibleReading
  <2> QED
    BY <1>4, <2>1 DEF LevelsFit
<1>6. ASSUME NEW p \in Objects, AlarmKept(p),
             snapshot'[p].level = snapshot[p].level, snapshot'[p].serial = snapshot[p].serial,
             p # o \/ Len(events) = 0
      PROVE  AlarmKept(p)'
  <2>1. PICK i \in Recorded :
          /\ log[i].obj = p /\ log[i].sev = "critical"
          /\ log[i].serial = snapshot[p].serial /\ log[i].after = snapshot[p].level
          /\ ~Superseded(log, i, Recorded) /\ StillToldOf(i)
    BY <1>6 DEF AlarmKept
  <2>2. i \in Recorded' /\ log'[i] = log[i]
    BY <1>4, <2>1
  <2>3. ASSUME NEW k \in Recorded', k \notin Recorded PROVE log'[k].obj # p
    <3>1. k - n \in 1..Len(events) /\ k = n + (k - n)
      BY <1>4, <2>3
    <3>2. log'[k].obj = o
      BY <1>4, <3>1
    <3> QED
      BY <1>4, <1>6, <3>1, <3>2
  <2>4. \A k \in Recorded : log'[k] = log[k]
    BY <1>4
  <2>5. ~Superseded(log', i, Recorded')
    BY <2>1, <2>2, <2>3, <2>4 DEF Superseded
  <2>6. StillToldOf(i)'
    <3>1. CASE delivery[i].status # "skipped"
      BY <1>0, <3>1 DEF StillToldOf
    <3>2. ASSUME NEW j \in Recorded \ {i}, delivery[j].status = "sent",
                 SameIncident(log[i], log[j]), ~Superseded(log, j, 1..i)
          PROVE  StillToldOf(i)'
      <4>1. j \in Recorded' \ {i} /\ 1..i \subseteq Recorded
        BY <1>4
      <4>2. ~Superseded(log', j, 1..i)
        BY <2>4, <3>2, <4>1 DEF Superseded
      <4>3. delivery'[j].status = "sent" /\ SameIncident(log'[i], log'[j])
        BY <1>0, <2>4, <3>2
      <4> QED
        BY <4>1, <4>2, <4>3 DEF StillToldOf
    <3> QED
      BY <2>1, <3>1, <3>2 DEF StillToldOf
  <2> QED
    BY <1>6, <2>1, <2>2, <2>5, <2>6 DEF AlarmKept
<1>7. ASSUME NEW p \in Objects \ CounterObjects, Severity(snapshot'[p].level) = "critical"
      PROVE  AlarmKept(p)'
  <2>1. CASE p # o
    <3>1. snapshot'[p] = snapshot[p]
      BY <1>4, <2>1
    <3> QED
      BY <1>6, <1>7, <2>1, <3>1 DEF AlarmsKept
  <2>2. CASE p = o
    <3>1. snapshot'[p] = new /\ snapshot[o].level \in LevelsOf(o) /\ new.level \in LevelsOf(o)
      BY <1>1, <1>4, <2>2 DEF LevelsFit, PossibleReading
    <3>2. \/ /\ events = <<>>
             /\ snapshot[o].level = new.level /\ snapshot[o].serial = new.serial
          \/ \E rise :
                /\ Len(events) > 0
                /\ events[Len(events)] =
                      NewEvent(o, "critical", new.level, rise, new.serial)
      <4>1. /\ o \in Objects \ CounterObjects /\ Severity(new.level) = "critical"
            /\ snapshot[o] \in Reading
        BY <1>1, <1>7, <2>2, <3>1
      <4>2. snapshot[o].level \in LevelsOf(o) /\ new.level \in LevelsOf(o)
        BY <3>1
      <4> QED
        BY <1>2, <4>1, <4>2, DetectAlarm, Zenon
    <3>3. CASE /\ events = <<>>
               /\ snapshot[o].level = new.level /\ snapshot[o].serial = new.serial
      <4>1. snapshot'[p].level = snapshot[p].level /\ snapshot'[p].serial = snapshot[p].serial
        BY <2>2, <3>1, <3>3
      <4>2. AlarmKept(p)
        BY <1>7, <4>1 DEF AlarmsKept
      <4>3. Len(events) = 0
        BY <3>3
      <4> QED
        BY <1>6, <4>1, <4>2, <4>3
    <3>4. ASSUME NEW rise, Len(events) > 0,
                 events[Len(events)] = NewEvent(o, "critical", new.level, rise, new.serial)
          PROVE  AlarmKept(p)'
      <4>1. PICK m : m = n + Len(events)
        OBVIOUS
      <4>2. m \in Recorded' /\ log'[m] = NewEvent(o, "critical", new.level, rise, new.serial)
        BY <1>4, <3>4, <4>1
      <4>3. \A k \in Recorded' : ~(k > m)
        BY <1>4, <4>1
      <4>4. ~Superseded(log', m, Recorded')
        BY <4>3 DEF Superseded
      <4>5. /\ log'[m].obj = o /\ log'[m].sev = "critical"
            /\ log'[m].serial = new.serial /\ log'[m].after = new.level
        BY <4>2 DEF NewEvent
      <4>6. m \in Ids \ Recorded
        BY <1>0, <1>4, <3>4, <4>1, <4>2
      <4>7. StillToldOf(m)'
        BY <1>0, <4>6 DEF QueueOfRecorded, StillToldOf
      <4> QED
        BY <2>2, <3>1, <4>2, <4>4, <4>5, <4>7 DEF AlarmKept
    <3> QED
      BY <3>2, <3>3, <3>4
  <2> QED
    BY <2>1, <2>2
<1> QED
  BY <1>5, <1>7 DEF AlarmsKept

\* What was sent stays sent, and an event is given up in a skip only.
LEMMA OnlySkipsDrop ==
    ASSUME SafetyInv, [Next]_vars, NEW i \in Ids
    PROVE  /\ delivery[i].status = "sent" => delivery'[i].status = "sent"
           /\ delivery[i].status # "skipped" /\ delivery'[i].status = "skipped" =>
                 SkipEnded(i) \/ SkipObsolete(i) \/ SkipDuplicate(i)
<1>0. TypeInv /\ BatchOpen /\ delivery \in [Ids -> Row]
  BY DEF SafetyInv, TypeInv, TypeOK, DeliveryTypes
<1>1. CASE Tick \/ CycleStart
  BY <1>0, <1>1, KeepsStatus
<1>2. CASE \/ PollOk \/ PollFail \/ Crash \/ Restart \/ CycleConfigError
           \/ ProviderAccepts \/ AnswerLost \/ ProviderRejects \/ CycleEnd \/ CycleAborts
           \/ UNCHANGED vars
  BY <1>2 DEF PollOk, PollFail, Crash, Restart, CycleConfigError, ProviderAccepts,
     AnswerLost, ProviderRejects, CycleEnd, CycleAborts, Unrecorded, dbVars, vars
<1>3. CASE RecordSent \/ RecordFailure
  <2>1. delivery[current].status = "sending" /\ current \in Ids
    BY <1>0, <1>3 DEF TypeInv, InHand, RecordSent, RecordFailure
  <2>2. i # current => delivery'[i] = delivery[i]
    BY <1>0, <1>3 DEF RecordSent, RecordFailure
  <2>3. delivery'[current].status \in {"sent", "retry"}
    BY <1>0, <1>3, <2>1 DEF RecordSent, RecordFailure, SetStatus
  <2> QED
    BY <2>1, <2>2, <2>3
<1>4. ASSUME NEW j \in Ids, Handle(j)
      PROVE  /\ delivery[i].status = "sent" => delivery'[i].status = "sent"
             /\ delivery[i].status # "skipped" /\ delivery'[i].status = "skipped" =>
                   SkipEnded(i) \/ SkipObsolete(i) \/ SkipDuplicate(i)
  <2>1. /\ delivery[j].status \notin {"sent", "skipped"}
        /\ i # j => delivery'[i] = delivery[i]
    BY <1>0, <1>4, HandleEffect
  <2>2. ASSUME i = j, delivery'[i].status = "skipped"
        PROVE  SkipEnded(i) \/ SkipObsolete(i) \/ SkipDuplicate(i)
    <3>1. \A t : delivery' # [delivery EXCEPT ![i] = SetStatus(@, "retry", t)]
      BY <1>0, <2>2 DEF SetStatus
    <3>2. ~Claim(i)
      BY <1>0, <2>2 DEF Claim
    <3> QED
      BY <1>4, <2>2, <3>1, <3>2 DEF Handle, Requeue, DeferUnconfirmed, DeferAwaiting,
         DeferChannel, Defer
  <2> QED
    BY <2>1, <2>2
<1> QED
  BY <1>1, <1>2, <1>3, <1>4 DEF Next

\* The notifier gives up a shown critical incident only for a message about it.
LEMMA AlarmSurvivesSkips ==
    ASSUME SafetyInv, AlarmsKept, [Next]_vars, log' = log, snapshot' = snapshot
    PROVE  AlarmsKept'
<1> SUFFICES ASSUME NEW o \in Objects \ CounterObjects,
                    Severity(snapshot[o].level) = "critical"
             PROVE  AlarmKept(o)'
  BY DEF AlarmsKept
<1>1. PICK i \in Recorded :
        /\ log[i].obj = o /\ log[i].sev = "critical"
        /\ log[i].serial = snapshot[o].serial /\ log[i].after = snapshot[o].level
        /\ ~Superseded(log, i, Recorded) /\ StillToldOf(i)
  BY DEF AlarmsKept, AlarmKept
<1>2. Recorded' = Recorded /\ Recorded \subseteq Ids
  BY RecordedIds DEF SafetyInv, Recorded
<1>3. \A j \in Recorded \ {i} :
         delivery[j].status = "sent" /\ SameIncident(log[i], log[j]) /\ ~Superseded(log, j, 1..i)
            => StillToldOf(i)'
  BY <1>2, OnlySkipsDrop DEF StillToldOf
<1>4. ASSUME delivery[i].status # "skipped", delivery'[i].status = "skipped"
      PROVE  StillToldOf(i)'
  <2>1. SkipEnded(i) \/ SkipObsolete(i) \/ SkipDuplicate(i)
    BY <1>2, <1>4, OnlySkipsDrop
  <2>2. Evidence(log[i], snapshot[log[i].obj]) # "obsolete"
    BY <1>1 DEF Evidence, StillShown
  <2>3. Relevance(i) # "obsolete"
    BY <1>1, <2>2 DEF Relevance
  <2>4. Decision(i) \notin {"ended", "obsolete"}
    BY <1>1, <2>3 DEF Decision
  <2>5. Decision(i) = "duplicate"
    BY <2>1, <2>4 DEF SkipEnded, SkipObsolete, SkipDuplicate, Handling
  <2>6. SameIncidentSent(i)
    BY <2>5 DEF Decision
  <2> QED
    BY <1>3, <2>6 DEF SameIncidentSent
<1>5. StillToldOf(i)'
  BY <1>1, <1>3, <1>4 DEF StillToldOf
<1> QED
  BY <1>1, <1>2, <1>5 DEF AlarmKept

\* No critical state, flag or temperature of the newest reading is without an event
\* that is announced or still to be announced.
THEOREM NoAlarmIsLost == Spec => []AlarmsKept
<1> DEFINE IInv == QueueOfRecorded /\ LevelsFit /\ AlarmsKept
<1>1. Init => IInv
  <2> SUFFICES ASSUME Init PROVE IInv
    OBVIOUS
  <2>1. \A o \in Objects : snapshot[o].level = "ok"
    BY DEF Init
  <2>2. QueueOfRecorded
    BY DEF Init, QueueOfRecorded, NoRow
  <2> QED
    BY <2>1, <2>2 DEF LevelsFit, LevelsOf, AlarmsKept, Severity
<1>2. SafetyInv /\ IInv /\ [Next]_vars => IInv'
  <2> SUFFICES ASSUME SafetyInv, IInv, [Next]_vars PROVE IInv'
    OBVIOUS
  <2>1. QueueOfRecorded'
    BY QueueStep
  <2>2. CASE PollOk
    BY <2>1, <2>2, AlarmStep
  <2>3. CASE ~PollOk
    <3>1. log' = log /\ snapshot' = snapshot
      BY <2>3, OnlyPollsRecord DEF SafetyInv
    <3>2. LevelsFit'
      BY <3>1 DEF LevelsFit
    <3>3. AlarmsKept'
      BY <3>1, AlarmSurvivesSkips
    <3> QED
      BY <2>1, <3>2, <3>3
  <2> QED
    BY <2>2, <2>3
<1>3. IInv => AlarmsKept
  OBVIOUS
<1> HIDE DEF IInv
<1> QED
  BY <1>1, <1>2, <1>3, SafetyHolds, PTL DEF Spec
=============================================================================
