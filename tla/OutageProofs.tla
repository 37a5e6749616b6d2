---------------------------- MODULE OutageProofs ----------------------------
(***************************************************************************)
(* Proofs about MonitoringOutage, for every value of its constants.        *)
(***************************************************************************)
EXTENDS MonitoringOutage, WellFoundedInduction, FiniteSetTheorems, TLAPS

\* A non-empty set of times has an earliest one.
LEMMA EarliestExists ==
    ASSUME NEW T, T \subseteq Nat, T # {}
    PROVE  \E t \in T : \A u \in T : t <= u
<1>1. PICK t \in T : \A u \in T : ~(<<u, t>> \in OpToRel(<, Nat))
  BY WFMin, NatLessThanWellFounded
<1>2. \A u \in T : ~(u < t)
  BY <1>1 DEF OpToRel
<1>3. QED
  BY <1>2

\* StaleSince is the last success, or the first of the recorded failures.
LEMMA StaleSinceMeans ==
    ASSUME NEW log \in Seq(SystemEvent), lastSuccess \in Nat, FailedSince(log) # {}
    PROVE  /\ StaleSince(log) \in Nat
           /\ lastSuccess # 0 => StaleSince(log) = lastSuccess
           /\ lastSuccess = 0 => /\ \E f \in FailedSince(log) : StaleSince(log) = log[f].at
                                 /\ \A f \in FailedSince(log) : StaleSince(log) <= log[f].at
<1> DEFINE T == {log[k].at : k \in FailedSince(log)}
<1>1. \A k \in FailedSince(log) : log[k].at \in Nat
  <2>1. DOMAIN log = 1..Len(log) /\ \A k \in 1..Len(log) : log[k] \in SystemEvent
    OBVIOUS
  <2>2. QED
    BY <2>1 DEF FailedSince, SystemEvent
<1>2. T \subseteq Nat /\ T # {}
  BY <1>1
<1>3. Earliest(T) \in T /\ \A u \in T : Earliest(T) <= u
  BY <1>2, EarliestExists DEF Earliest
<1>4. QED
  BY <1>1, <1>3 DEF StaleSince

-----------------------------------------------------------------------------
(***************************************************************************)
(* The timeline: which side of the last success an event lies on is the    *)
(* same for its time (what the code compares) and for its epoch (which     *)
(* outage it belongs to).                                                  *)
(***************************************************************************)
Timeline ==
    \A k \in Recorded :
        /\ events[k].at <= now /\ events[k].epoch <= epoch
        /\ events[k].epoch < epoch => events[k].at <= lastSuccess
        /\ events[k].kind \in {"failed", "stale"} /\ events[k].epoch = epoch
              => events[k].at > lastSuccess

\* Without any success the outage began before it was reported.
BeganBefore ==
    lastSuccess = 0 =>
        \A k \in Recorded : events[k].kind = "stale" =>
            \E f \in FailedSince(events) : events[f].at < events[k].at

OutageInv ==
    TypeOK /\ Timeline /\ BeganBefore /\ OneReportPerOutage /\ ConfirmedOutageReported

\* The empty event log satisfies the invariant.
LEMMA OutageInit == Init => OutageInv
<1> SUFFICES ASSUME Init PROVE OutageInv
  OBVIOUS
<1> USE OutageAssumption DEF Init
<1>1. events = <<>> /\ Len(events) = 0 /\ Recorded = {}
  BY DEF Recorded
<1>2. TypeOK
  BY <1>1 DEF TypeOK, Verdicts
<1>3. Timeline /\ BeganBefore /\ OneReportPerOutage
  BY <1>1 DEF Timeline, BeganBefore, OneReportPerOutage
<1>4. ConfirmedOutageReported
  BY <1>1 DEF ConfirmedOutageReported
<1>5. QED
  BY <1>2, <1>3, <1>4 DEF OutageInv

\* Appending to the event log.
LEMMA AppendFacts ==
    ASSUME NEW log \in Seq(SystemEvent), NEW e \in SystemEvent
    PROVE  /\ Append(log, e) \in Seq(SystemEvent)
           /\ Len(Append(log, e)) = Len(log) + 1
           /\ \A k \in 1..Len(log) : Append(log, e)[k] = log[k]
           /\ Append(log, e)[Len(log) + 1] = e
           /\ DOMAIN Append(log, e) = 1..(Len(log) + 1)
           /\ DOMAIN log = 1..Len(log)
  OBVIOUS

\* The types, in the steps that append to the log.
LEMMA TypeStep == TypeOK /\ [Next]_vars => TypeOK'
<1> SUFFICES ASSUME TypeOK, [Next]_vars PROVE TypeOK'
  OBVIOUS
<1> USE OutageAssumption
<1>0. /\ now \in Nat /\ events \in Seq(SystemEvent) /\ Len(events) <= MaxEvents
      /\ lastSuccess \in 0..now /\ epoch \in Nat
      /\ Len(events) \in Nat
  BY DEF TypeOK
<1>1. ASSUME now' \in Nat, now' >= now, events' \in Seq(SystemEvent),
             Len(events') <= MaxEvents, Len(events') >= Len(events),
             \A k \in Recorded : events'[k] = events[k],
             lastSuccess' \in 0..now', epoch' \in Nat, markerDue' \subseteq Slots,
             UNCHANGED <<delivery, deliveredAt>>
      PROVE  TypeOK'
  <2>1. deliveredAt' \in [Ids -> 0..now']
    BY <1>0, <1>1 DEF TypeOK
  <2>2. \A i \in Ids : delivery'[i] # "none" => i \in Recorded' /\ events'[i].kind = "stale"
    BY <1>0, <1>1 DEF TypeOK, Recorded
  <2>3. delivery' \in [Ids -> Verdicts]
    BY <1>1 DEF TypeOK
  <2>4. QED
    BY <1>1, <2>1, <2>2, <2>3 DEF TypeOK
<1>2. \A kind \in Kinds, t \in Nat, ep \in Nat : NewEvent(kind, t, ep) \in SystemEvent
  BY DEF NewEvent, SystemEvent
<1>3. {"failed", "stale", "recovered", "marker"} \subseteq Kinds
  BY DEF Kinds
<1>4. CASE PollSucceeds
  <2>1. now' \in Nat /\ now' >= now /\ epoch' \in Nat /\ lastSuccess' \in 0..now'
    BY <1>0, <1>4 DEF PollSucceeds, Advance
  <2>2. NewEvent("recovered", now', epoch') \in SystemEvent
    BY <1>2, <1>3, <2>1
  <2>3. /\ events' \in Seq(SystemEvent) /\ Len(events') >= Len(events)
        /\ \A k \in Recorded : events'[k] = events[k]
    BY <1>0, <1>4, <2>2, AppendFacts DEF PollSucceeds, Recorded
  <2>4. QED
    BY <1>1, <1>4, <2>1, <2>3 DEF PollSucceeds, TypeOK
<1>5. CASE PollFails
  <2>1. now' \in Nat /\ now' >= now /\ lastSuccess' \in 0..now'
    BY <1>0, <1>5 DEF PollFails, Advance
  <2> DEFINE failures == Append(events, NewEvent("failed", now', epoch))
  <2>2. /\ NewEvent("failed", now', epoch) \in SystemEvent
        /\ NewEvent("stale", now', epoch) \in SystemEvent
    BY <1>0, <1>2, <1>3, <2>1
  <2>3. /\ failures \in Seq(SystemEvent) /\ Len(failures) = Len(events) + 1
        /\ \A k \in Recorded : failures[k] = events[k]
    BY <1>0, <2>2, AppendFacts DEF Recorded
  <2>4. \/ events' = failures
        \/ events' = Append(failures, NewEvent("stale", now', epoch))
    BY <1>5 DEF PollFails
  <2> HIDE DEF failures
  <2>5. /\ events' \in Seq(SystemEvent) /\ Len(events') >= Len(events)
        /\ \A k \in Recorded : events'[k] = events[k]
    <3>1. CASE events' = failures
      BY <1>0, <2>3, <3>1
    <3>2. CASE events' = Append(failures, NewEvent("stale", now', epoch))
      <4>1. /\ events' \in Seq(SystemEvent) /\ Len(events') = Len(failures) + 1
            /\ \A k \in 1..Len(failures) : events'[k] = failures[k]
        BY <2>2, <2>3, <3>2, AppendFacts
      <4>2. QED
        BY <1>0, <2>3, <4>1 DEF Recorded
    <3>3. QED
      BY <2>4, <3>1, <3>2
  <2>6. QED
    BY <1>0, <1>1, <1>5, <2>1, <2>5 DEF PollFails, TypeOK
<1>6. CASE PollLost
  <2>1. now' \in Nat /\ now' >= now /\ lastSuccess' \in 0..now'
    BY <1>0, <1>6 DEF PollLost, Advance
  <2>2. QED
    BY <1>0, <1>1, <1>6, <2>1 DEF PollLost, TypeOK
<1>7. ASSUME NEW slot \in Slots, RebuildStarts(slot) PROVE TypeOK'
  BY <1>7 DEF RebuildStarts, TypeOK, Recorded
<1>8. ASSUME NEW slot \in Slots, RebuildObserved(slot) PROVE TypeOK'
  <2>1. NewEvent("marker", now, epoch) \in SystemEvent
    BY <1>0, <1>2, <1>3
  <2>2. /\ events' \in Seq(SystemEvent) /\ Len(events') = Len(events) + 1
        /\ \A k \in Recorded : events'[k] = events[k]
    BY <1>0, <1>8, <2>1, AppendFacts DEF RebuildObserved, Recorded
  <2>3. /\ now' = now /\ lastSuccess' = lastSuccess /\ epoch' = epoch
        /\ markerDue' \subseteq Slots /\ Len(events') <= MaxEvents
        /\ UNCHANGED <<delivery, deliveredAt>>
    BY <1>0, <1>8, <2>2 DEF RebuildObserved, TypeOK
  <2>4. QED
    BY <1>0, <1>1, <2>2, <2>3
<1>9. ASSUME NEW i \in Ids, NotifyOutage(i) PROVE TypeOK'
  <2>1. Verdict(i) \in Verdicts
    BY DEF Verdict, Verdicts
  <2>2. /\ delivery' \in [Ids -> Verdicts] /\ deliveredAt' \in [Ids -> 0..now]
        /\ \A j \in Ids : delivery'[j] # "none" => j \in Recorded /\ events[j].kind = "stale"
    BY <1>9, <2>1 DEF NotifyOutage, IsMonitoringOutage, TypeOK
  <2>3. QED
    BY <1>9, <2>2 DEF NotifyOutage, TypeOK, Recorded
<1>10. CASE UNCHANGED vars
  BY <1>10 DEF vars, TypeOK, Recorded
<1>11. QED
  BY <1>4, <1>5, <1>6, <1>7, <1>8, <1>9, <1>10 DEF Next

\* The shape of the log after a failed poll.
LEMMA FailureShape ==
    ASSUME TypeOK, PollFails
    PROVE  LET n == Len(events)
               failures == Append(events, NewEvent("failed", now', epoch))
           IN  /\ now' \in Nat /\ now' > now /\ UNCHANGED <<lastSuccess, epoch>>
               /\ failures \in Seq(SystemEvent) /\ Len(failures) = n + 1
               /\ DOMAIN failures = 1..(n + 1)
               /\ failures[n + 1] = NewEvent("failed", now', epoch)
               /\ \A k \in 1..(n + 1) : events'[k] = failures[k]
               /\ \A k \in 1..n : events'[k] = events[k]
               /\ \/ Len(events') = n + 1 /\ ~MonitoringStale(failures, now')
                  \/ /\ Len(events') = n + 2 /\ MonitoringStale(failures, now')
                     /\ events'[n + 2] = NewEvent("stale", now', epoch)
<1> USE OutageAssumption
<1> DEFINE n == Len(events)
           failures == Append(events, NewEvent("failed", now', epoch))
<1>1. /\ now' \in Nat /\ now' > now /\ UNCHANGED <<lastSuccess, epoch>>
      /\ n \in Nat /\ events \in Seq(SystemEvent)
  BY DEF PollFails, Advance, TypeOK
<1>2. /\ NewEvent("failed", now', epoch) \in SystemEvent
      /\ NewEvent("stale", now', epoch) \in SystemEvent
  BY <1>1 DEF NewEvent, SystemEvent, Kinds, TypeOK
<1>3. /\ failures \in Seq(SystemEvent) /\ Len(failures) = n + 1
      /\ DOMAIN failures = 1..(n + 1)
      /\ failures[n + 1] = NewEvent("failed", now', epoch)
      /\ \A k \in 1..n : failures[k] = events[k]
  BY <1>1, <1>2, AppendFacts
<1>4. events' = IF MonitoringStale(failures, now')
                THEN Append(failures, NewEvent("stale", now', epoch)) ELSE failures
  BY DEF PollFails
<1> HIDE DEF failures
<1>5. CASE MonitoringStale(failures, now')
  <2>1. /\ Len(events') = n + 2 /\ events'[n + 2] = NewEvent("stale", now', epoch)
        /\ \A k \in 1..(n + 1) : events'[k] = failures[k]
    <3>1. Len(failures) + 1 = n + 2
      BY <1>1, <1>3
    <3>2. QED
      BY <1>2, <1>3, <1>4, <1>5, <3>1, AppendFacts
  <2>2. \A k \in 1..n : events'[k] = events[k]
    BY <1>1, <1>3, <2>1
  <2>3. QED
    BY <1>1, <1>3, <1>5, <2>1, <2>2 DEF failures
<1>6. CASE ~MonitoringStale(failures, now')
  <2>1. events' = failures
    BY <1>4, <1>6
  <2>2. /\ Len(events') = n + 1 /\ \A k \in 1..(n + 1) : events'[k] = failures[k]
        /\ \A k \in 1..n : events'[k] = events[k]
    BY <1>1, <1>3, <2>1
  <2>3. QED
    BY <1>1, <1>3, <1>6, <2>2 DEF failures
<1>7. QED
  BY <1>5, <1>6

\* The shape of the log after any other step: at most one event is added, and
\* it is neither a failure nor an outage.
LEMMA OtherShape ==
    ASSUME TypeOK, [Next]_vars, ~PollFails
    PROVE  LET n == Len(events)
           IN  /\ now' \in Nat /\ now' >= now
               /\ \/ UNCHANGED <<lastSuccess, epoch>>
                  \/ lastSuccess' = now' /\ epoch' = epoch + 1 /\ now' > now
               /\ \A k \in 1..n : events'[k] = events[k]
               /\ \/ Len(events') = n
                  \/ /\ Len(events') = n + 1
                     /\ events'[n + 1].kind \in {"recovered", "marker"}
                     /\ events'[n + 1].at = now' /\ events'[n + 1].epoch = epoch'
<1> USE OutageAssumption
<1> DEFINE n == Len(events)
<1>0. now \in Nat /\ epoch \in Nat /\ events \in Seq(SystemEvent) /\ n \in Nat
  BY DEF TypeOK
<1>1. CASE PollSucceeds
  <2>1. /\ now' \in Nat /\ now' > now /\ lastSuccess' = now' /\ epoch' = epoch + 1
    BY <1>0, <1>1 DEF PollSucceeds, Advance
  <2>2. NewEvent("recovered", now', epoch') \in SystemEvent
    BY <1>0, <2>1 DEF NewEvent, SystemEvent, Kinds
  <2>3. CASE events' = events
    BY <1>0, <2>1, <2>3
  <2>4. CASE events' = Append(events, NewEvent("recovered", now', epoch'))
    <3>1. /\ Len(events') = n + 1 /\ \A k \in 1..n : events'[k] = events[k]
          /\ events'[n + 1] = NewEvent("recovered", now', epoch')
      BY <1>0, <2>2, <2>4, AppendFacts
    <3>2. /\ events'[n + 1].kind = "recovered" /\ events'[n + 1].at = now'
          /\ events'[n + 1].epoch = epoch'
      BY <3>1 DEF NewEvent
    <3>3. QED
      BY <1>0, <2>1, <3>1, <3>2
  <2>5. QED
    BY <1>1, <2>3, <2>4 DEF PollSucceeds
<1>2. CASE PollLost
  BY <1>0, <1>2 DEF PollLost, Advance
<1>3. ASSUME NEW slot \in Slots, RebuildObserved(slot)
      PROVE  /\ UNCHANGED <<now, lastSuccess, epoch>>
             /\ Len(events') = n + 1 /\ \A k \in 1..n : events'[k] = events[k]
             /\ events'[n + 1] = NewEvent("marker", now, epoch)
  <2>1. NewEvent("marker", now, epoch) \in SystemEvent
    BY <1>0 DEF NewEvent, SystemEvent, Kinds
  <2>2. QED
    BY <1>0, <1>3, <2>1, AppendFacts DEF RebuildObserved
<1>4. CASE \E slot \in Slots : RebuildObserved(slot)
  BY <1>0, <1>3, <1>4 DEF NewEvent
<1>5. CASE \/ \E slot \in Slots : RebuildStarts(slot)
           \/ \E i \in Ids : NotifyOutage(i)
           \/ UNCHANGED vars
  BY <1>0, <1>5 DEF RebuildStarts, NotifyOutage, vars
<1>6. QED
  BY <1>1, <1>2, <1>4, <1>5 DEF Next

-----------------------------------------------------------------------------
\* Events stay ordered by time and by the successful polls between them.
LEMMA TimelineStep == OutageInv /\ [Next]_vars => Timeline'
<1> SUFFICES ASSUME OutageInv, [Next]_vars PROVE Timeline'
  OBVIOUS
<1> DEFINE n == Len(events)
<1>0. /\ TypeOK /\ Timeline /\ n \in Nat /\ now \in Nat /\ epoch \in Nat
      /\ lastSuccess \in 0..now
      /\ \A k \in 1..n : events[k].at \in Nat /\ events[k].epoch \in Nat
  <2>1. TypeOK /\ Timeline /\ n \in Nat /\ \A k \in 1..n : events[k] \in SystemEvent
    BY DEF OutageInv, TypeOK
  <2>2. \A e \in SystemEvent : e.at \in Nat /\ e.epoch \in Nat
    BY DEF SystemEvent
  <2>3. QED
    BY <2>1, <2>2 DEF TypeOK
<1>1. CASE PollFails
  <2>1. ASSUME NEW k \in 1..n
        PROVE  /\ events'[k].at <= now' /\ events'[k].epoch <= epoch'
               /\ events'[k].epoch < epoch' => events'[k].at <= lastSuccess'
               /\ events'[k].kind \in {"failed", "stale"} /\ events'[k].epoch = epoch'
                     => events'[k].at > lastSuccess'
    BY <1>0, <1>1, FailureShape DEF Timeline, Recorded
  <2>2. ASSUME NEW k \in {n + 1, n + 2}, k <= Len(events')
        PROVE  events'[k].at = now' /\ events'[k].epoch = epoch
    <3>1. \A e, kind : e = NewEvent(kind, now', epoch) => e.at = now' /\ e.epoch = epoch
      BY DEF NewEvent
    <3>2. events'[n + 1] = NewEvent("failed", now', epoch)
      BY <1>0, <1>1, FailureShape
    <3>3. k = n + 2 => events'[n + 2] = NewEvent("stale", now', epoch)
      BY <1>0, <1>1, <2>2, FailureShape
    <3>4. QED
      BY <3>1, <3>2, <3>3
  <2>3. now' > lastSuccess' /\ epoch' = epoch /\ Len(events') \in {n + 1, n + 2}
    BY <1>0, <1>1, FailureShape
  <2>4. ASSUME NEW k \in Recorded'
        PROVE  /\ events'[k].at <= now' /\ events'[k].epoch <= epoch'
               /\ events'[k].epoch < epoch' => events'[k].at <= lastSuccess'
               /\ events'[k].kind \in {"failed", "stale"} /\ events'[k].epoch = epoch'
                     => events'[k].at > lastSuccess'
    <3>1. k <= Len(events') /\ (k \in 1..n \/ k \in {n + 1, n + 2})
      BY <1>0, <2>3 DEF Recorded
    <3>2. now' \in Nat
      BY <1>0, <1>1, FailureShape
    <3>3. QED
      BY <1>0, <2>1, <2>2, <2>3, <3>1, <3>2
  <2>5. QED
    BY <2>4 DEF Timeline
<1>2. CASE ~PollFails
  <2>1. ASSUME NEW k \in 1..n
        PROVE  /\ events'[k].at <= now' /\ events'[k].epoch <= epoch'
               /\ events'[k].epoch < epoch' => events'[k].at <= lastSuccess'
               /\ events'[k].kind \in {"failed", "stale"} /\ events'[k].epoch = epoch'
                     => events'[k].at > lastSuccess'
    <3>1. events'[k] = events[k] /\ k \in Recorded
      BY <1>0, <1>2, OtherShape DEF Recorded
    <3>2. CASE UNCHANGED <<lastSuccess, epoch>>
      BY <1>0, <1>2, <3>1, <3>2, OtherShape DEF Timeline
    <3>3. CASE lastSuccess' = now' /\ epoch' = epoch + 1
      BY <1>0, <1>2, <3>1, <3>3, OtherShape DEF Timeline
    <3>4. QED
      BY <1>0, <1>2, <3>2, <3>3, OtherShape
  <2>2. ASSUME Len(events') = n + 1
        PROVE  /\ events'[n + 1].kind \in {"recovered", "marker"}
               /\ events'[n + 1].at = now' /\ events'[n + 1].epoch = epoch'
    BY <1>0, <1>2, <2>2, OtherShape
  <2>3. epoch' \in Nat /\ now' \in Nat /\ Len(events') \in {n, n + 1}
    BY <1>0, <1>2, OtherShape
  <2>4. QED
    BY <1>0, <2>1, <2>2, <2>3 DEF Timeline, Recorded
<1>3. QED
  BY <1>1, <1>2

\* A step that is no failed poll adds no failure and no outage; a successful
\* poll leaves none of them on this side of the last success.
LEMMA OtherFailures ==
    ASSUME OutageInv, [Next]_vars, ~PollFails
    PROVE  /\ \A k \in Recorded' : events'[k].kind \in {"failed", "stale"}
                 => k \in Recorded /\ events'[k] = events[k]
           /\ UNCHANGED <<lastSuccess, epoch>> =>
                 /\ FailedSince(events)' = FailedSince(events)
                 /\ StaleSince(events)' = StaleSince(events)
<1> DEFINE n == Len(events)
<1>0. TypeOK /\ n \in Nat /\ DOMAIN events = 1..n
  BY DEF OutageInv, TypeOK
<1>1. TypeOK'
  BY <1>0, TypeStep
<1>2. DOMAIN events' = 1..Len(events')
  BY <1>1 DEF TypeOK
<1>3. \A k \in 1..Len(events') : events'[k].kind \in {"failed", "stale"}
                 => k \in 1..n /\ events'[k] = events[k]
  <2>1. Len(events') \in {n, n + 1} /\ \A k \in 1..n : events'[k] = events[k]
    BY <1>0, OtherShape
  <2>2. ASSUME Len(events') = n + 1
        PROVE  events'[n + 1].kind \in {"recovered", "marker"}
    <3>1. Len(events') # n
      <4>1. \A m \in Nat : m + 1 # m
        OBVIOUS
      <4>2. QED
        BY <1>0, <2>2, <4>1, Zenon
    <3>2. QED
      BY <1>0, <3>1, OtherShape, Zenon
  <2>3. QED
    BY <1>0, <2>1, <2>2
<1>4. ASSUME UNCHANGED <<lastSuccess, epoch>>
      PROVE  /\ FailedSince(events)' = FailedSince(events)
             /\ StaleSince(events)' = StaleSince(events)
  <2>1. 1..n \subseteq 1..Len(events') /\ \A k \in 1..n : events'[k] = events[k]
    BY <1>0, OtherShape
  <2>2. FailedSince(events)' = FailedSince(events)
    BY <1>0, <1>2, <1>3, <1>4, <2>1 DEF FailedSince
  <2>3. \A k \in FailedSince(events) : events'[k] = events[k]
    BY <1>0, <2>1 DEF FailedSince
  <2>4. {events'[k].at : k \in FailedSince(events)'} = {events[k].at : k \in FailedSince(events)}
    BY <2>2, <2>3
  <2>5. QED
    BY <1>4, <2>2, <2>4 DEF StaleSince
<1>5. QED
  BY <1>0, <1>3, <1>4 DEF Recorded

\* A reported outage stays younger than the beginning of its outage.
LEMMA BeganBeforeStep == OutageInv /\ [Next]_vars => BeganBefore'
<1> SUFFICES ASSUME OutageInv, [Next]_vars PROVE BeganBefore'
  OBVIOUS
<1> USE OutageAssumption
<1> DEFINE n == Len(events)
           failures == Append(events, NewEvent("failed", now', epoch))
<1>0. TypeOK /\ BeganBefore /\ n \in Nat /\ DOMAIN events = 1..n
  BY DEF OutageInv, TypeOK
<1>1. TypeOK'
  BY <1>0, TypeStep
<1>2. DOMAIN events' = 1..Len(events')
  BY <1>1 DEF TypeOK
<1>3. SUFFICES ASSUME lastSuccess' = 0, NEW k \in Recorded', events'[k].kind = "stale"
               PROVE  \E f \in FailedSince(events)' : events'[f].at < events'[k].at
  BY DEF BeganBefore
<1>4. CASE ~PollFails
  <2>1. UNCHANGED <<lastSuccess, epoch>>
    BY <1>0, <1>3, <1>4, OtherShape DEF TypeOK
  <2>2. k \in Recorded /\ events'[k] = events[k]
    BY <1>3, <1>4, OtherFailures
  <2>3. PICK f \in FailedSince(events) : events[f].at < events[k].at
    BY <1>0, <1>3, <2>1, <2>2 DEF BeganBefore
  <2>4. f \in FailedSince(events)' /\ f \in 1..n
    BY <1>0, <1>4, <2>1, <2>3, OtherFailures DEF FailedSince
  <2>5. events'[f] = events[f]
    BY <1>0, <1>4, <2>4, OtherShape
  <2>6. QED
    BY <2>2, <2>3, <2>4, <2>5
<1>5. CASE PollFails
  <2>1. /\ lastSuccess = 0 /\ lastSuccess' = lastSuccess /\ now' \in Nat /\ now' > now
        /\ failures \in Seq(SystemEvent) /\ DOMAIN failures = 1..(n + 1)
        /\ \A j \in 1..(n + 1) : events'[j] = failures[j]
        /\ \A j \in 1..n : events'[j] = events[j]
        /\ failures[n + 1] = NewEvent("failed", now', epoch)
        /\ Len(events') \in {n + 1, n + 2}
    BY <1>0, <1>3, <1>5, FailureShape
  <2> HIDE DEF failures
  <2>f. \A j : j \in FailedSince(events)' <=>
              /\ j \in 1..Len(events') /\ events'[j].kind = "failed"
              /\ events'[j].at > lastSuccess'
    BY <1>2 DEF FailedSince
  <2>g. 1..n \subseteq 1..(n + 1) /\ 1..(n + 1) \subseteq 1..Len(events')
    BY <1>0, <2>1
  <2>2. FailedSince(failures) \subseteq FailedSince(events)'
    <3>1. ASSUME NEW j \in FailedSince(failures) PROVE j \in FailedSince(events)'
      <4>1. j \in 1..(n + 1) /\ failures[j].kind = "failed" /\ failures[j].at > lastSuccess
        BY <2>1, <3>1 DEF FailedSince
      <4>2. QED
        BY <2>1, <2>f, <2>g, <4>1
    <3>2. QED
      BY <3>1
  <2>3. CASE k \in 1..n
    <3>1. PICK f \in FailedSince(events) : events[f].at < events[k].at
      BY <1>0, <1>3, <2>1, <2>3 DEF BeganBefore, Recorded
    <3>2. f \in 1..n /\ f \in FailedSince(events)'
      <4>1. f \in 1..n /\ events[f].kind = "failed" /\ events[f].at > lastSuccess
        BY <1>0, <3>1 DEF FailedSince
      <4>2. QED
        BY <2>1, <2>f, <2>g, <4>1
    <3>3. QED
      BY <2>1, <2>3, <3>1, <3>2
  <2>4. CASE k = n + 1
    BY <1>3, <2>1, <2>4, <1>0 DEF NewEvent
  <2>5. CASE k = n + 2
    <3>1. /\ MonitoringStale(failures, now')
          /\ events'[n + 2] = NewEvent("stale", now', epoch)
      BY <1>0, <1>3, <1>5, <2>1, <2>5, FailureShape DEF Recorded, failures
    <3>2. FailedSince(failures) # {}
      <4>1. n + 1 \in DOMAIN failures /\ failures[n + 1].kind = "failed"
            /\ failures[n + 1].at = now'
        BY <1>0, <2>1 DEF NewEvent
      <4>2. QED
        BY <1>0, <2>1, <4>1 DEF FailedSince, TypeOK
    <3>3. PICK f \in FailedSince(failures) : StaleSince(failures) = failures[f].at
      BY <2>1, <3>2, StaleSinceMeans
    <3>4. failures[f].at \in Nat /\ now' - failures[f].at >= StaleAfter
      BY <2>1, <3>1, <3>2, <3>3, StaleSinceMeans DEF MonitoringStale
    <3>5. events'[f] = failures[f] /\ f \in FailedSince(events)'
      BY <2>1, <2>2, <3>3 DEF FailedSince
    <3>6. events'[k].at = now'
      BY <2>5, <3>1 DEF NewEvent
    <3>7. QED
      BY <2>1, <3>4, <3>5, <3>6
  <2>6. QED
    BY <1>0, <1>3, <2>1, <2>3, <2>4, <2>5 DEF Recorded
<1>6. QED
  BY <1>4, <1>5

\* A new outage event is the first of its epoch.
LEMMA OneReportStep == OutageInv /\ [Next]_vars => OneReportPerOutage'
<1> SUFFICES ASSUME OutageInv, [Next]_vars PROVE OneReportPerOutage'
  OBVIOUS
<1> USE OutageAssumption
<1> DEFINE n == Len(events)
           failures == Append(events, NewEvent("failed", now', epoch))
<1>0. TypeOK /\ n \in Nat /\ DOMAIN events = 1..n
  BY DEF OutageInv, TypeOK
<1>1. CASE ~PollFails
  BY <1>1, OtherFailures DEF OutageInv, OneReportPerOutage
<1>2. CASE PollFails
  <2>1. /\ lastSuccess' = lastSuccess /\ epoch' = epoch /\ now' \in Nat /\ now' > now
        /\ failures \in Seq(SystemEvent) /\ DOMAIN failures = 1..(n + 1)
        /\ \A j \in 1..(n + 1) : events'[j] = failures[j]
        /\ \A j \in 1..n : events'[j] = events[j]
        /\ failures[n + 1] = NewEvent("failed", now', epoch)
        /\ Len(events') \in {n + 1, n + 2}
    BY <1>0, <1>2, FailureShape
  <2>2. ASSUME NEW i \in 1..n, events[i].kind = "stale", events[i].epoch = epoch,
               Len(events') = n + 2
        PROVE  FALSE
    <3>1. MonitoringStale(failures, now')
      <4>1. Len(events') # n + 1
        BY <1>0, <2>2
      <4>2. QED
        BY <1>0, <1>2, <4>1, FailureShape
    <3>2. failures[i] = events[i] /\ i \in DOMAIN failures
      BY <1>0, <2>1
    <3> HIDE DEF failures
    <3>3. ~(events[i].at > StaleSince(failures))
      BY <2>2, <3>1, <3>2 DEF MonitoringStale
    <3>4. events[i].at > lastSuccess /\ lastSuccess \in Nat
      BY <1>0, <2>2 DEF OutageInv, Timeline, Recorded, TypeOK
    <3>5. n + 1 \in FailedSince(failures)
      <4>1. n + 1 \in DOMAIN failures /\ failures[n + 1].kind = "failed"
            /\ failures[n + 1].at = now'
        BY <1>0, <2>1 DEF NewEvent
      <4>2. QED
        BY <1>0, <2>1, <4>1 DEF FailedSince, TypeOK
    <3>6. CASE lastSuccess # 0
      BY <2>1, <3>3, <3>4, <3>5, <3>6, StaleSinceMeans
    <3>7. CASE lastSuccess = 0
      <4>1. PICK f \in FailedSince(events) : events[f].at < events[i].at
        BY <1>0, <2>2, <3>7 DEF OutageInv, BeganBefore, Recorded
      <4>2. f \in 1..n /\ events[f].kind = "failed" /\ events[f].at > lastSuccess
        BY <1>0, <4>1 DEF FailedSince
      <4>3. failures[f] = events[f] /\ f \in DOMAIN failures
        BY <1>0, <2>1, <4>2
      <4>4. f \in FailedSince(failures)
        BY <4>2, <4>3 DEF FailedSince
      <4>5. StaleSince(failures) \in Nat /\ StaleSince(failures) <= events[f].at
        BY <2>1, <3>4, <3>7, <4>3, <4>4, StaleSinceMeans
      <4>6. events[f].at \in Nat /\ events[i].at \in Nat
        <5>1. events[f] \in SystemEvent /\ events[i] \in SystemEvent
          BY <1>0, <4>2 DEF TypeOK
        <5>2. QED
          BY <5>1 DEF SystemEvent
      <4>7. QED
        BY <3>3, <4>1, <4>5, <4>6
    <3>8. QED
      BY <3>6, <3>7
  <2>3. events'[n + 1].kind = "failed"
    BY <1>0, <2>1 DEF NewEvent
  <2>4. Len(events') = n + 2 => events'[n + 2].epoch = epoch
    <3>1. ASSUME Len(events') = n + 2 PROVE events'[n + 2] = NewEvent("stale", now', epoch)
      <4>1. Len(events') # n + 1
        BY <1>0, <3>1
      <4>2. QED
        BY <1>0, <1>2, <4>1, FailureShape
    <3>2. QED
      BY <3>1 DEF NewEvent
  <2>5. ASSUME NEW i \in Recorded', NEW j \in Recorded', i # j,
               events'[i].kind = "stale", events'[j].kind = "stale"
        PROVE  events'[i].epoch # events'[j].epoch
    <3>1. i \in 1..n \/ (i = n + 2 /\ Len(events') = n + 2)
      BY <1>0, <2>1, <2>3, <2>5 DEF Recorded
    <3>2. j \in 1..n \/ (j = n + 2 /\ Len(events') = n + 2)
      BY <1>0, <2>1, <2>3, <2>5 DEF Recorded
    <3>3. CASE i \in 1..n /\ j \in 1..n
      BY <2>1, <2>5, <3>3 DEF OutageInv, OneReportPerOutage, Recorded
    <3>4. QED
      BY <2>1, <2>2, <2>4, <2>5, <3>1, <3>2, <3>3
  <2>6. QED
    BY <2>5 DEF OneReportPerOutage
<1>3. QED
  BY <1>1, <1>2

\* The failures of the present epoch are those the code counts.
Failures == {k \in Recorded : events[k].kind = "failed" /\ events[k].epoch = epoch}

\* Counting by epoch and counting by the time of the last success agree.
LEMMA FailuresCounted == TypeOK /\ Timeline => Failures = FailedSince(events)
<1> SUFFICES ASSUME TypeOK, Timeline PROVE Failures = FailedSince(events)
  OBVIOUS
<1>1. \A k \in 1..Len(events) : events[k] \in SystemEvent
  BY DEF TypeOK
<1>2. \A e \in SystemEvent : e.at \in Nat /\ e.epoch \in Nat
  BY DEF SystemEvent
<1>3. DOMAIN events = 1..Len(events) /\ epoch \in Nat /\ lastSuccess \in Nat
  BY DEF TypeOK
<1>4. ASSUME NEW k \in 1..Len(events), events[k].kind = "failed"
      PROVE  events[k].epoch = epoch <=> events[k].at > lastSuccess
  BY <1>1, <1>2, <1>3, <1>4 DEF Timeline, Recorded
<1>5. QED
  BY <1>3, <1>4 DEF Failures, FailedSince, Recorded

\* An outage that fulfils the policy stays reported, and the failed poll that
\* completes the conditions reports it.
LEMMA ConfirmedStep == OutageInv /\ [Next]_vars => ConfirmedOutageReported'
<1> SUFFICES ASSUME OutageInv, [Next]_vars PROVE ConfirmedOutageReported'
  OBVIOUS
<1> USE OutageAssumption
<1> DEFINE n == Len(events)
           failures == Append(events, NewEvent("failed", now', epoch))
<1>0. TypeOK /\ Timeline /\ ConfirmedOutageReported /\ n \in Nat /\ DOMAIN events = 1..n
  BY DEF OutageInv, TypeOK
<1>1. TypeOK' /\ Timeline' /\ DOMAIN events' = 1..Len(events')
  BY <1>0, TypeStep, TimelineStep DEF TypeOK
<1>2. Failures = FailedSince(events) /\ Failures' = FailedSince(events)'
  <2>1. (TypeOK /\ Timeline => Failures = FailedSince(events))'
    BY FailuresCounted, PTL
  <2>2. QED
    BY <1>0, <1>1, <2>1, FailuresCounted
<1>3. SUFFICES ASSUME Cardinality(Failures') >= MinFailed,
                      NEW m \in Failures',
                      events'[m].at - StaleSince(events)' >= StaleAfter
               PROVE  \E k \in Recorded' : events'[k].kind = "stale" /\ events'[k].epoch = epoch'
  BY DEF ConfirmedOutageReported, Failures
<1>4. CASE ~PollFails /\ UNCHANGED <<lastSuccess, epoch>>
  <2>1. Failures' = Failures /\ StaleSince(events)' = StaleSince(events)
    BY <1>2, <1>4, OtherFailures
  <2>2. m \in 1..n /\ events'[m] = events[m]
    BY <1>0, <1>3, <1>4, <2>1, OtherShape DEF Failures, Recorded
  <2>3. PICK k \in Recorded : events[k].kind = "stale" /\ events[k].epoch = epoch
    BY <1>0, <1>3, <2>1, <2>2 DEF ConfirmedOutageReported, Failures
  <2>4. k \in Recorded' /\ events'[k] = events[k]
    BY <1>0, <1>4, <2>3, OtherShape DEF Recorded
  <2>5. QED
    BY <1>4, <2>3, <2>4
<1>5. CASE ~PollFails /\ epoch' = epoch + 1
  <2>1. m \in Recorded /\ events'[m] = events[m]
    BY <1>3, <1>5, OtherFailures DEF Failures
  <2>2. events[m].epoch = epoch + 1 /\ events[m].epoch <= epoch /\ epoch \in Nat
    BY <1>0, <1>3, <1>5, <2>1 DEF Failures, Timeline, TypeOK
  <2>3. QED
    BY <2>2
<1>6. CASE PollFails
  <2>1. /\ lastSuccess' = lastSuccess /\ epoch' = epoch /\ now' \in Nat /\ now' > now
        /\ failures \in Seq(SystemEvent) /\ DOMAIN failures = 1..(n + 1)
        /\ Len(failures) = n + 1
        /\ failures[n + 1] = NewEvent("failed", now', epoch)
    BY <1>0, <1>6, FailureShape
  <2>2. CASE MonitoringStale(failures, now')
    <3>1. Len(events') = n + 2 /\ events'[n + 2] = NewEvent("stale", now', epoch)
      BY <1>0, <1>6, <2>2, FailureShape
    <3>2. n + 2 \in Recorded' /\ events'[n + 2].kind = "stale" /\ events'[n + 2].epoch = epoch'
      BY <1>0, <2>1, <3>1 DEF Recorded, NewEvent
    <3>3. QED
      BY <3>2
  <2>3. CASE ~MonitoringStale(failures, now')
    <3>1. events' = failures
      BY <1>6, <2>3 DEF PollFails
    <3> HIDE DEF failures
    <3>2. FailedSince(events)' = FailedSince(failures)
      BY <2>1, <3>1 DEF FailedSince
    <3>3. StaleSince(events)' = StaleSince(failures)
      BY <2>1, <3>1, <3>2 DEF StaleSince
    <3>4. lastSuccess \in Nat /\ m \in FailedSince(failures)
      BY <1>0, <1>2, <1>3, <3>2 DEF TypeOK
    <3>5. StaleSince(failures) \in Nat /\ StaleSince(failures) >= lastSuccess
      BY <2>1, <3>4, StaleSinceMeans
    <3>6. failures[m].at \in Nat /\ failures[m].at <= now'
      <4>1. m \in 1..Len(events') /\ events'[m].at <= now'
        BY <1>1, <1>3 DEF Failures, Recorded, Timeline
      <4>2. failures[m] \in SystemEvent
        BY <2>1, <3>1, <4>1
      <4>3. QED
        BY <3>1, <4>1, <4>2 DEF SystemEvent
    <3>7. now' - StaleSince(failures) >= StaleAfter
      BY <1>3, <2>1, <3>1, <3>3, <3>5, <3>6
    <3>8. PICK k \in DOMAIN failures :
             failures[k].kind = "stale" /\ failures[k].at > StaleSince(failures)
      BY <1>2, <1>3, <2>3, <3>2, <3>7 DEF MonitoringStale
    <3>9. failures[k].at \in Nat /\ failures[k].epoch \in Nat
      <4>1. failures[k] \in SystemEvent
        BY <2>1, <3>8
      <4>2. QED
        BY <4>1 DEF SystemEvent
    <3>10. k \in Recorded' /\ events'[k].at > lastSuccess'
      BY <1>1, <2>1, <3>1, <3>4, <3>5, <3>8, <3>9 DEF Recorded
    <3>11. events'[k].epoch = epoch'
      <4>1. epoch' \in Nat /\ lastSuccess' \in Nat
        BY <1>1 DEF TypeOK
      <4>2. /\ events'[k].epoch <= epoch'
            /\ events'[k].epoch < epoch' => events'[k].at <= lastSuccess'
        BY <1>1, <3>10 DEF Timeline
      <4>3. QED
        BY <3>1, <3>9, <3>10, <4>1, <4>2
    <3>12. QED
      BY <3>1, <3>8, <3>10, <3>11
  <2>4. QED
    BY <2>2, <2>3
<1>7. QED
  BY <1>0, <1>4, <1>5, <1>6, OtherShape

\* The inductive step.
LEMMA OutageStep == OutageInv /\ [Next]_vars => OutageInv'
  BY TypeStep, TimelineStep, BeganBeforeStep, OneReportStep, ConfirmedStep DEF OutageInv

-----------------------------------------------------------------------------
\* For every threshold, poll spacing and event history: loss of monitoring is
\* reported at most once between two successful polls.
THEOREM OneReport == Spec => []OneReportPerOutage
<1>1. OutageInv => OneReportPerOutage
  BY DEF OutageInv
<1>2. QED
  BY <1>1, OutageInit, OutageStep, PTL DEF Spec

\* For every threshold, poll spacing and event history: an outage that fulfils
\* the two conditions of the policy has been reported.
THEOREM OutageReported == Spec => []ConfirmedOutageReported
<1>1. OutageInv => ConfirmedOutageReported
  BY DEF OutageInv
<1>2. QED
  BY <1>1, OutageInit, OutageStep, PTL DEF Spec

\* No outage message is decided after the outage has ended.
THEOREM MessagesCurrent == Spec => OutageMessagesCurrent
<1>1. OutageInv /\ [Next]_vars =>
         [\A i \in Ids : delivery[i] # "sent" /\ delivery'[i] = "sent"
                         => events[i].epoch = epoch]_vars
  <2> SUFFICES ASSUME OutageInv, Next, NEW i \in Ids,
                      delivery[i] # "sent", delivery'[i] = "sent"
               PROVE  events[i].epoch = epoch
    OBVIOUS
  <2>1. delivery' # delivery
    OBVIOUS
  <2>2. PICK j \in Ids : NotifyOutage(j)
    BY <2>1 DEF Next, PollSucceeds, PollFails, PollLost, RebuildStarts, RebuildObserved
  <2>3. j = i /\ Verdict(i) = "sent" /\ i \in Recorded
    BY <2>2 DEF NotifyOutage, OutageInv, TypeOK
  <2>4. ~(lastSuccess >= events[i].at)
    BY <2>3 DEF Verdict
  <2>5. events[i] \in SystemEvent /\ lastSuccess \in Nat /\ epoch \in Nat
    BY <2>3 DEF OutageInv, TypeOK, Recorded
  <2>6. events[i].at \in Nat /\ events[i].epoch \in Nat
    BY <2>5 DEF SystemEvent
  <2>7. QED
    BY <2>3, <2>4, <2>5, <2>6 DEF OutageInv, Timeline
<1>2. QED
  BY <1>1, OutageInit, OutageStep, PTL DEF Spec, OutageMessagesCurrent

-----------------------------------------------------------------------------
(***************************************************************************)
(* Repetitions.  The events are sorted by epoch, a recovery is the first   *)
(* of its epoch, and an outage that is over is followed by its recovery or *)
(* by a marker of its own epoch, which hid it from the successful poll.    *)
(***************************************************************************)
Sorted == \A k, l \in Recorded : k < l => events[k].epoch <= events[l].epoch

RecoveryOpens ==
    \A k, l \in Recorded :
        k < l /\ events[l].kind = "recovered" => events[k].epoch < events[l].epoch

\* What closes the outage that event j reports.
Closes(m, j) ==
    /\ j < m
    /\ \/ events[m].kind = "marker" /\ events[m].epoch = events[j].epoch
       \/ events[m].kind = "recovered" /\ events[m].epoch = events[j].epoch + 1

OutagesClosed ==
    \A j \in Recorded : events[j].kind = "stale" /\ events[j].epoch < epoch
                         => \E m \in Recorded : Closes(m, j)

MutedInv == OutageInv /\ Sorted /\ RecoveryOpens /\ OutagesClosed /\ MutedOnlyByMarker

\* What a step adds to the log, by epoch; only a successful poll opens one, and it
\* adds the recovery when a failure or an outage came last.
LEMMA LogGrows ==
    ASSUME TypeOK, [Next]_vars
    PROVE  LET n == Len(events)
           IN  /\ n \in Nat /\ Len(events') \in Nat /\ n <= Len(events')
               /\ epoch \in Nat /\ epoch' \in {epoch, epoch + 1}
               /\ \A k \in 1..n : events'[k] = events[k]
               /\ \A k \in (n + 1)..Len(events') :
                     /\ events'[k].epoch = epoch'
                     /\ events'[k].kind = "recovered" => epoch' = epoch + 1 /\ k = n + 1
               /\ epoch' # epoch /\ LatestWasFailure =>
                     Len(events') = n + 1 /\ events'[n + 1].kind = "recovered"
<1> DEFINE n == Len(events)
<1>0. n \in Nat /\ epoch \in Nat /\ now \in Nat /\ events \in Seq(SystemEvent)
  BY DEF TypeOK
<1>1. CASE PollSucceeds
  <2>1. /\ epoch' = epoch + 1 /\ now' \in Nat
        /\ events' = IF LatestWasFailure
                     THEN Append(events, NewEvent("recovered", now', epoch')) ELSE events
    BY <1>0, <1>1, OutageAssumption DEF PollSucceeds, Advance
  <2>2. NewEvent("recovered", now', epoch') \in SystemEvent
    BY <1>0, <2>1 DEF NewEvent, SystemEvent, Kinds
  <2>3. CASE ~LatestWasFailure
    BY <1>0, <2>1, <2>3
  <2>4. CASE LatestWasFailure
    <3>1. /\ Len(events') = n + 1 /\ \A k \in 1..n : events'[k] = events[k]
          /\ events'[n + 1] = NewEvent("recovered", now', epoch')
      BY <1>0, <2>1, <2>2, <2>4, AppendFacts
    <3>2. events'[n + 1].epoch = epoch' /\ events'[n + 1].kind = "recovered"
      BY <3>1 DEF NewEvent
    <3> QED
      BY <1>0, <2>1, <3>1, <3>2
  <2> QED
    BY <2>3, <2>4
<1>2. CASE PollFails
  <2>1. /\ epoch' = epoch /\ \A k \in 1..n : events'[k] = events[k]
        /\ events'[n + 1] = NewEvent("failed", now', epoch)
        /\ \/ Len(events') = n + 1
           \/ Len(events') = n + 2 /\ events'[n + 2] = NewEvent("stale", now', epoch)
    BY <1>0, <1>2, FailureShape
  <2>2. ASSUME NEW k \in (n + 1)..Len(events')
        PROVE  events'[k].epoch = epoch' /\ events'[k].kind # "recovered"
    <3>1. \/ k = n + 1
          \/ k = n + 2 /\ events'[n + 2] = NewEvent("stale", now', epoch)
      BY <1>0, <2>1
    <3> QED
      BY <2>1, <3>1 DEF NewEvent
  <2> QED
    BY <1>0, <2>1, <2>2
<1>3. ASSUME NEW slot \in Slots, RebuildObserved(slot)
      PROVE  /\ epoch' = epoch /\ Len(events') = n + 1
             /\ \A k \in 1..n : events'[k] = events[k]
             /\ events'[n + 1].kind = "marker" /\ events'[n + 1].epoch = epoch
  <2>1. NewEvent("marker", now, epoch) \in SystemEvent
    BY <1>0 DEF NewEvent, SystemEvent, Kinds
  <2>2. /\ epoch' = epoch /\ Len(events') = n + 1
        /\ \A k \in 1..n : events'[k] = events[k]
        /\ events'[n + 1] = NewEvent("marker", now, epoch)
    BY <1>0, <1>3, <2>1, AppendFacts DEF RebuildObserved
  <2> QED
    BY <2>2 DEF NewEvent
<1>4. CASE \E slot \in Slots : RebuildObserved(slot)
  BY <1>0, <1>3, <1>4
<1>5. CASE \/ PollLost \/ \E slot \in Slots : RebuildStarts(slot)
           \/ \E i \in Ids : NotifyOutage(i)
           \/ UNCHANGED vars
  <2>1. events' = events /\ epoch' = epoch
    BY <1>5 DEF PollLost, RebuildStarts, NotifyOutage, vars
  <2> QED
    BY <1>0, <2>1
<1> QED
  BY <1>1, <1>2, <1>4, <1>5 DEF Next

\* Every event has a natural epoch.
LEMMA EpochType == TypeOK => \A k \in Recorded : events[k].epoch \in Nat
<1>1. TypeOK => \A k \in Recorded : events[k] \in SystemEvent
  BY DEF TypeOK, Recorded
<1> QED
  BY <1>1 DEF SystemEvent

\* The order of the epochs.
LEMMA SortedStep == MutedInv /\ [Next]_vars => Sorted' /\ RecoveryOpens'
<1> SUFFICES ASSUME MutedInv, [Next]_vars PROVE Sorted' /\ RecoveryOpens'
  OBVIOUS
<1> DEFINE n == Len(events)
<1>1. TypeOK /\ Timeline /\ Sorted /\ RecoveryOpens
  BY DEF MutedInv, OutageInv
<1>2. \A k \in 1..n : events[k].epoch \in Nat /\ events[k].epoch <= epoch
  BY <1>1, EpochType DEF Timeline, Recorded
<1>3. ASSUME NEW k \in Recorded', NEW l \in Recorded', k < l
      PROVE  /\ events'[k].epoch <= events'[l].epoch
             /\ events'[l].kind = "recovered" => events'[k].epoch < events'[l].epoch
  <2>1. CASE l \in 1..n
    <3>1. k \in 1..n /\ events'[k] = events[k] /\ events'[l] = events[l]
      BY <1>1, <1>3, <2>1, LogGrows DEF Recorded
    <3> QED
      BY <1>1, <1>3, <2>1, <3>1 DEF Sorted, RecoveryOpens, Recorded
  <2>2. CASE l \notin 1..n
    <3>1. /\ l \in (n + 1)..Len(events') /\ events'[l].epoch = epoch' /\ n \in Nat
          /\ epoch \in Nat /\ epoch' \in {epoch, epoch + 1}
          /\ events'[l].kind = "recovered" => epoch' = epoch + 1 /\ l = n + 1
      BY <1>1, <2>2, LogGrows DEF Recorded
    <3>2. CASE k \in 1..n
      <4>1. events'[k] = events[k]
        BY <1>1, <3>2, LogGrows
      <4> QED
        BY <1>2, <3>1, <3>2, <4>1
    <3>3. CASE k \notin 1..n
      <4>1. k \in (n + 1)..Len(events')
        BY <1>1, <3>3, LogGrows DEF Recorded
      <4>2. events'[k].epoch = epoch' /\ l # n + 1
        BY <1>1, <1>3, <3>1, <4>1, LogGrows
      <4> QED
        BY <3>1, <4>2
    <3> QED
      BY <3>2, <3>3
  <2> QED
    BY <2>1, <2>2
<1> QED
  BY <1>3 DEF Sorted, RecoveryOpens

\* The successful poll that ends an outage either records the recovery or finds a
\* marker on top of the log.
LEMMA ClosedStep == MutedInv /\ [Next]_vars => OutagesClosed'
<1> SUFFICES ASSUME MutedInv, [Next]_vars, NEW j \in Recorded',
                    events'[j].kind = "stale", events'[j].epoch < epoch'
             PROVE  \E m \in Recorded' : Closes(m, j)'
  BY DEF OutagesClosed
<1>0. PICK n : n = Len(events)
  OBVIOUS
<1>1. /\ TypeOK /\ Timeline /\ Sorted /\ RecoveryOpens /\ OutagesClosed
      /\ n \in Nat /\ Len(events') \in Nat /\ n <= Len(events')
      /\ epoch \in Nat /\ epoch' \in {epoch, epoch + 1}
  BY <1>0, LogGrows DEF MutedInv, OutageInv
<1>2. j \in 1..n /\ events'[j] = events[j]
  <2>1. ASSUME j \in (n + 1)..Len(events') PROVE FALSE
    <3>1. events'[j].epoch = epoch'
      BY <1>0, <1>1, <2>1, LogGrows
    <3> QED
      BY <1>1, <3>1
  <2> QED
    BY <1>0, <1>1, <2>1, LogGrows DEF Recorded
<1>3. events[j].epoch \in Nat /\ events[j].epoch <= epoch
  BY <1>0, <1>1, <1>2, EpochType DEF Timeline, Recorded
<1>4. CASE events[j].epoch < epoch
  <2>1. PICK m \in Recorded : Closes(m, j)
    BY <1>0, <1>1, <1>2, <1>4 DEF OutagesClosed, Recorded
  <2>2. m \in 1..n /\ m \in Recorded' /\ events'[m] = events[m]
    BY <1>0, <1>1, <2>1, LogGrows DEF Recorded
  <2> QED
    BY <1>2, <2>1, <2>2 DEF Closes
<1>5. CASE events[j].epoch = epoch
  <2>1. epoch' = epoch + 1
    BY <1>1, <1>2, <1>5
  <2>2. CASE LatestWasFailure
    <3>1. /\ Len(events') = n + 1 /\ events'[n + 1].kind = "recovered"
          /\ events'[n + 1].epoch = epoch'
      BY <1>0, <1>1, <2>1, <2>2, LogGrows
    <3>2. n + 1 \in Recorded' /\ Closes(n + 1, j)'
      BY <1>0, <1>1, <1>2, <1>5, <2>1, <3>1 DEF Recorded, Closes
    <3> QED
      BY <3>2
  <2>3. CASE ~LatestWasFailure
    <3>1. n > 0 /\ n \in Recorded /\ events[n].kind \notin {"failed", "stale"} /\ j < n
      BY <1>0, <1>1, <1>2, <2>3 DEF LatestWasFailure, Recorded
    <3>2. events[n].epoch = epoch
      <4>1. events[n].epoch \in Nat /\ events[n].epoch <= epoch
        BY <1>1, <3>1, EpochType DEF Timeline
      <4>2. epoch <= events[n].epoch
        BY <1>0, <1>1, <1>2, <1>5, <3>1 DEF Sorted, Recorded
      <4> QED
        BY <1>1, <4>1, <4>2
    <3>3. events[n].kind = "marker"
      <4>1. events[n].kind \in Kinds
        <5>1. events[n] \in SystemEvent
          BY <1>0, <1>1, <3>1 DEF TypeOK, Recorded
        <5> QED
          BY <5>1 DEF SystemEvent
      <4>2. events[n].kind # "recovered"
        BY <1>0, <1>1, <1>2, <1>5, <3>1, <3>2 DEF RecoveryOpens, Recorded
      <4> QED
        BY <3>1, <4>1, <4>2 DEF Kinds
    <3>4. events'[n] = events[n] /\ n \in Recorded'
      BY <1>0, <1>1, <3>1, LogGrows DEF Recorded
    <3>5. Closes(n, j)'
      BY <1>2, <1>5, <3>1, <3>2, <3>3, <3>4 DEF Closes
    <3> QED
      BY <3>4, <3>5
  <2> QED
    BY <2>2, <2>3
<1> QED
  BY <1>1, <1>3, <1>4, <1>5

\* A message found to repeat another one is that of a later outage, which no
\* recovery separates from the earlier: only a marker can have closed that one.
LEMMA DuplicateHasMarker ==
    ASSUME MutedInv, NEW i \in Recorded, events[i].kind = "stale",
           lastSuccess < events[i].at, SameIncidentSent(i)
    PROVE  \E j, m \in Recorded :
             /\ j < m /\ m < i /\ events[m].kind = "marker"
             /\ events[j].kind = "stale" /\ events[j].epoch = events[m].epoch
<1>1. /\ TypeOK /\ Timeline /\ OneReportPerOutage /\ Sorted /\ RecoveryOpens
      /\ OutagesClosed /\ lastSuccess \in Nat /\ epoch \in Nat
      /\ Recorded \subseteq Nat
  BY DEF MutedInv, OutageInv, TypeOK, Recorded
<1>2. PICK j \in Recorded \ {i} : delivery[j] = "sent" /\ ~SupersededBefore(j, i)
  BY DEF SameIncidentSent
<1>3. events[j].kind = "stale"
  <2>1. \A k \in Recorded : k \in Ids
    BY <1>1, OutageAssumption DEF TypeOK, Recorded, Ids
  <2> QED
    BY <1>1, <1>2, <2>1 DEF TypeOK
<1>4. \A k \in Recorded : events[k].epoch \in Nat /\ events[k].epoch <= epoch
  BY <1>1, EpochType DEF Timeline
<1>5. events[i].epoch = epoch
  <2>1. events[i].at \in Nat
    <3>1. events[i] \in SystemEvent
      BY <1>1 DEF TypeOK, Recorded
    <3> QED
      BY <3>1 DEF SystemEvent
  <2> QED
    BY <1>1, <1>4, <2>1 DEF Timeline
<1>6. j < i /\ events[j].epoch < epoch
  <2>1. events[j].epoch # events[i].epoch
    BY <1>1, <1>2, <1>3 DEF OneReportPerOutage
  <2>2. ~(i < j)
    BY <1>1, <1>2, <1>4, <1>5, <2>1 DEF Sorted
  <2> QED
    BY <1>1, <1>2, <1>4, <1>5, <2>1, <2>2
<1>7. PICK m \in Recorded : Closes(m, j)
  BY <1>1, <1>2, <1>3, <1>6 DEF OutagesClosed
<1>8. m < i
  <2>1. m # i
    BY <1>4, <1>6, <1>7 DEF Closes
  <2>2. CASE i < m
    <3>1. CASE events[m].kind = "marker" /\ events[m].epoch = events[j].epoch
      BY <1>1, <1>4, <1>5, <1>6, <2>2, <3>1 DEF Sorted
    <3>2. CASE events[m].kind = "recovered" /\ events[m].epoch = events[j].epoch + 1
      <4>1. events[i].epoch < events[m].epoch
        BY <1>1, <2>2, <3>2 DEF RecoveryOpens
      <4> QED
        BY <1>2, <1>4, <1>5, <1>6, <3>2, <4>1
    <3> QED
      BY <1>7, <3>1, <3>2 DEF Closes
  <2> QED
    BY <1>1, <2>1, <2>2
<1>9. events[m].kind # "recovered"
  <2>1. m \in (j + 1)..i
    BY <1>1, <1>7, <1>8 DEF Closes, Recorded
  <2> QED
    BY <1>2, <2>1 DEF SupersededBefore
<1> QED
  BY <1>2, <1>3, <1>7, <1>8, <1>9 DEF Closes

\* Verdicts and the events they rest on stay.
LEMMA MutedStep == MutedInv /\ [Next]_vars => MutedOnlyByMarker'
<1> SUFFICES ASSUME MutedInv, [Next]_vars, NEW i \in Ids, delivery'[i] = "duplicate"
             PROVE  \E j, m \in Recorded' :
                      /\ j < m /\ m < i /\ events'[m].kind = "marker"
                      /\ events'[j].kind = "stale"
                      /\ events'[j].epoch = events'[m].epoch
  BY DEF MutedOnlyByMarker
<1>1. TypeOK /\ MutedOnlyByMarker
  BY DEF MutedInv, OutageInv
<1>2. \E j, m \in Recorded :
         /\ j < m /\ m < i /\ events[m].kind = "marker"
         /\ events[j].kind = "stale" /\ events[j].epoch = events[m].epoch
  <2>1. CASE delivery[i] = "duplicate"
    BY <1>1, <2>1 DEF MutedOnlyByMarker
  <2>2. CASE delivery[i] # "duplicate"
    <3>1. PICK k \in Ids : NotifyOutage(k)
      BY <2>2 DEF Next, PollSucceeds, PollFails, PollLost, RebuildStarts, RebuildObserved, vars
    <3>2. /\ k = i /\ i \in Recorded /\ events[i].kind = "stale"
          /\ Verdict(i) = "duplicate"
      BY <1>1, <2>2, <3>1 DEF NotifyOutage, IsMonitoringOutage, TypeOK
    <3>3. ~(lastSuccess >= events[i].at) /\ SameIncidentSent(i)
      BY <3>2 DEF Verdict
    <3>4. lastSuccess < events[i].at
      <4>1. events[i] \in SystemEvent /\ lastSuccess \in Nat
        BY <1>1, <3>2 DEF TypeOK, Recorded
      <4>2. events[i].at \in Nat
        BY <4>1 DEF SystemEvent
      <4> QED
        BY <3>3, <4>1, <4>2
    <3> QED
      BY <3>2, <3>3, <3>4, DuplicateHasMarker
  <2> QED
    BY <2>1, <2>2
<1>3. \A k \in Recorded : k \in Recorded' /\ events'[k] = events[k]
  BY <1>1, LogGrows DEF Recorded
<1> QED
  BY <1>2, <1>3

\* The invariant of the repetitions.
LEMMA MutedInvariant == Spec => []MutedInv
<1>1. Init => MutedInv
  <2> SUFFICES ASSUME Init PROVE MutedInv
    OBVIOUS
  <2>1. Recorded = {} /\ \A i \in Ids : delivery[i] # "duplicate"
    BY DEF Init, Recorded
  <2> QED
    BY <2>1, OutageInit DEF MutedInv, Sorted, RecoveryOpens, OutagesClosed,
       MutedOnlyByMarker
<1>2. MutedInv /\ [Next]_vars => MutedInv'
  BY OutageStep, SortedStep, ClosedStep, MutedStep DEF MutedInv
<1> QED
  BY <1>1, <1>2, PTL DEF Spec

\* For every threshold, window and event history: a message about an outage is
\* dropped as a repetition only behind a marker of a watched rebuild that kept an
\* earlier outage from having its recovery.
THEOREM OnlyMarkersMute == Spec => []MutedOnlyByMarker
<1>1. MutedInv => MutedOnlyByMarker
  BY DEF MutedInv
<1> QED
  BY <1>1, MutedInvariant, PTL

\* Where nobody watches a rebuild in the browser, every outage after a recovery is
\* announced: the counterexample to RecurrenceAnnounced needs the page.
THEOREM UnwatchedIsAnnounced ==
    ASSUME Watched = {}
    PROVE  Spec => []RecurrenceAnnounced
<1> DEFINE NoMarker == \A k \in Recorded : events[k].kind # "marker"
           Inv == MutedInv /\ NoMarker
<1>1. Init => NoMarker
  BY DEF Init, Recorded
<1>2. MutedInv /\ NoMarker /\ [Next]_vars => NoMarker'
  <2> SUFFICES ASSUME MutedInv, NoMarker, [Next]_vars PROVE NoMarker'
    OBVIOUS
  <2>1. TypeOK
    BY DEF MutedInv, OutageInv
  <2>2. CASE PollFails
    <3>1. \A k \in Recorded' : \/ k \in Recorded /\ events'[k] = events[k]
                              \/ events'[k] = NewEvent("failed", now', epoch)
                              \/ events'[k] = NewEvent("stale", now', epoch)
      BY <2>1, <2>2, FailureShape DEF Recorded, TypeOK
    <3> QED
      BY <3>1 DEF NewEvent
  <2>3. CASE PollSucceeds
    <3>1. \/ events' = events
          \/ events' = Append(events, NewEvent("recovered", now', epoch'))
      BY <2>3 DEF PollSucceeds
    <3>2. \A k \in Recorded' : \/ k \in Recorded /\ events'[k] = events[k]
                              \/ events'[k] = NewEvent("recovered", now', epoch')
      BY <2>1, <3>1 DEF Recorded, TypeOK
    <3> QED
      BY <3>2 DEF NewEvent
  <2>4. CASE ~PollFails /\ ~PollSucceeds
    <3>1. events' = events
      BY <2>4 DEF Next, PollLost, RebuildStarts, RebuildObserved, NotifyOutage, vars
    <3> QED
      BY <3>1 DEF Recorded
  <2> QED
    BY <2>2, <2>3, <2>4
<1>3. MutedInv /\ NoMarker => RecurrenceAnnounced
  BY DEF MutedInv, MutedOnlyByMarker, RecurrenceAnnounced
<1> QED
  BY <1>1, <1>2, <1>3, MutedInvariant, PTL DEF Spec
=============================================================================
