---------------------------- MODULE ReplaceProofs ----------------------------
(* Proofs about ReplaceWorkflow, for any requests, drives and bounds. *)
EXTENDS ReplaceWorkflow, TLAPS

\* The types the argument needs.
WorldTypes ==
    /\ slotDrive \in Drives \cup {NoDrive}
    /\ slotState \in States
    /\ slotDrive = NoDrive => slotState = "Empty"
    /\ slotState = "Msng" => slotDrive \in wasMissing
    /\ pc \in [Requests -> Places]
    /\ step \in [Requests -> Steps] /\ serial \in [Requests -> Drives]
    /\ DOMAIN rowOk = Requests
    /\ wire \in [Requests -> Wires]

\* The row that is about to be saved: a drive that was missing stays one that was.
PendingIsTrue(q) ==
    pc[q] = "audit" /\ step[q] = "missing" /\ rowOk[q] => serial[q] \in wasMissing

\* An insert that has passed its gate has another drive's Missing behind it.
InsertIsFounded(q) ==
    step[q] = "insert" /\ (pc[q] \notin {"idle", "gate", "done", "gone"} \/ wire[q] # "none") =>
        \E d \in wasMissing : d # serial[q]

ReplaceInv ==
    /\ WorldTypes
    /\ MissingRowIsTrue
    /\ \A q \in Requests : PendingIsTrue(q) /\ InsertIsFounded(q)

\* The initial states are good.
LEMMA ReplaceInit == Init => ReplaceInv
BY ReplaceAssumption DEF ReplaceAssumption, Init, ReplaceInv, WorldTypes, MissingRowIsTrue,
   MissingSucceeded, PendingIsTrue, InsertIsFounded, States, Places, Steps, Wires

\* Swaps, polls, rebuilds and restarts keep the invariant: no drive leaves wasMissing.
LEMMA WorldKeeps == ReplaceInv /\ World => ReplaceInv'
<1> SUFFICES ASSUME ReplaceInv, World PROVE ReplaceInv'
    OBVIOUS
<1> USE DEF ReplaceInv, WorldTypes, MissingRowIsTrue, MissingSucceeded, PendingIsTrue,
        InsertIsFounded, States, Places, hwVars, lastVars, askVars, outVars, obsVars, reqVars
<1>1. CASE Pull
      BY <1>1 DEF Pull
<1>2. ASSUME NEW d \in Drives, Seat(d) PROVE ReplaceInv'
      BY <1>2, ReplaceAssumption DEF Seat, ReplaceAssumption
<1>3. CASE Poll
      BY <1>3 DEF Poll
<1>4. CASE RebuildEnds
      BY <1>4 DEF RebuildEnds
<1>5. CASE RebuildStatus
      BY <1>5 DEF RebuildStatus
<1>6. CASE Restart
      BY <1>6 DEF Restart
<1> QED
    BY <1>1, <1>2, <1>3, <1>4, <1>5, <1>6 DEF World

\* A step of a request keeps the invariant.
LEMMA RequestKeeps == ASSUME ReplaceInv, NEW r \in Requests, RequestStep(r) PROVE ReplaceInv'
<1> USE DEF ReplaceInv, WorldTypes, MissingRowIsTrue, MissingSucceeded, PendingIsTrue,
        InsertIsFounded, Places, Wires, Go, Answer, Record,
        hwVars, lastVars, askVars, outVars, obsVars, worldVars
<1>1. CASE CheckStep(r)
      BY <1>1 DEF CheckStep
<1>12. CASE LoadDrive(r)
      BY <1>12 DEF LoadDrive
<1>13. CASE InsertGate(r)
      BY <1>13 DEF InsertGate, RecordsAgree
<1>2. CASE LiveRead(r)
      BY <1>2 DEF LiveRead
<1>3. CASE LiveReadFails(r)
      BY <1>3 DEF LiveReadFails
<1>4. CASE WriteRefused(r)
      BY <1>4 DEF WriteRefused
<1>5. CASE Write(r)
      BY <1>5 DEF Write
<1>6. CASE CommandSucceeds(r)
      BY <1>6 DEF CommandSucceeds
<1>7. CASE CommandFails(r)
      BY <1>7 DEF CommandFails
<1>8. CASE Observe(r)
      BY <1>8 DEF Observe, StateAfter
<1>9. CASE ObserveFails(r)
      BY <1>9 DEF ObserveFails
<1>10. CASE SaveAudit(r)
      BY <1>10 DEF SaveAudit
<1>11. CASE AuditFails(r)
      BY <1>11 DEF AuditFails
<1> QED
    BY <1>1, <1>2, <1>3, <1>4, <1>5, <1>6, <1>7, <1>8, <1>9, <1>10, <1>11, <1>12, <1>13 DEF RequestStep

\* The controller acts on whatever is in the slot, early or late.
LEMMA ControllerKeeps ==
    ASSUME ReplaceInv, NEW r \in Requests, ControllerActs(r) PROVE ReplaceInv'
<1> USE DEF ReplaceInv, WorldTypes, MissingRowIsTrue, MissingSucceeded, PendingIsTrue,
        InsertIsFounded, Wires, ControllerActs, lastVars, askVars, outVars, obsVars
<1>1. CASE wire' = [wire EXCEPT ![r] = "refused"] /\ UNCHANGED <<slotState, wasMissing>>
      BY <1>1
<1>2. CASE /\ slotState \in AllowedStates(step[r])
           /\ wire' = [wire EXCEPT ![r] = "applied"]
           /\ slotState' = StateAfter(step[r])
           /\ wasMissing' = IF step[r] = "missing" THEN wasMissing \cup {slotDrive} ELSE wasMissing
  <2>1. step[r] \in Steps /\ slotState # "Empty"
        BY <1>2 DEF AllowedStates, Steps
  <2>2. slotState' \in States /\ (slotState' = "Msng" => step[r] = "missing")
        BY <1>2, <2>1 DEF StateAfter, Steps, States
  <2>3. wasMissing \subseteq wasMissing' /\ (step[r] = "missing" => slotDrive \in wasMissing')
        BY <1>2
  <2>4. UNCHANGED <<slotDrive, lastStep, lastSerial, lastOk, pc, step, serial, rowOk>>
        OBVIOUS
  <2>5. wire' \in [Requests -> Wires] /\ \A q \in Requests : wire'[q] # "none" => wire[q] # "none"
        BY <1>2
  <2> QED
      BY <2>1, <2>2, <2>3, <2>4, <2>5
<1> QED
    BY <1>1, <1>2

\* Nothing changes.
LEMMA StutterKeeps == ReplaceInv /\ UNCHANGED vars => ReplaceInv'
BY DEF vars, hwVars, lastVars, askVars, outVars, obsVars, ReplaceInv, WorldTypes,
       MissingRowIsTrue, MissingSucceeded, PendingIsTrue, InsertIsFounded

\* ReplaceInv is an invariant of every behaviour, without any fairness.
THEOREM ReplaceInvariant == Spec => []ReplaceInv
<1>1. ReplaceInv /\ [Next]_vars => ReplaceInv'
      BY WorldKeeps, RequestKeeps, ControllerKeeps, StutterKeeps DEF Next
<1> QED
    BY <1>1, ReplaceInit, PTL DEF Spec

\* The audit row the insert gate trusts is true of the drive it names: _run_replace_step
\* writes "succeeded" only behind a live read of the same serial in state Msng.
THEOREM MissingRowTrue == Spec => []MissingRowIsTrue
<1>1. ReplaceInv => MissingRowIsTrue
      BY DEF ReplaceInv
<1> QED
    BY <1>1, ReplaceInvariant, PTL

\* drive_replace_insert sends an insert only after another drive was missing, in
\* whatever order the requests, swaps, polls and late commands come.
THEOREM InsertsFollowMissing == Spec => []InsertFollowsMissing
<1>1. ReplaceInv => InsertFollowsMissing
      BY DEF ReplaceInv, InsertIsFounded, InsertFollowsMissing
<1> QED
    BY <1>1, ReplaceInvariant, PTL
=============================================================================
