---------------------------- MODULE WritesProofs ----------------------------
(* Proofs about OperatorWrites, for any requests, policies and bounds. *)
EXTENDS OperatorWrites, TLAPS

\* The types the argument needs.
RequestTypes ==
    /\ settings \in Deployments /\ policy \in Policies
    /\ pc \in [Requests -> Steps]
    /\ row \in [Requests -> Rows] /\ audit \in [Requests -> Rows]
    /\ reply \in [Requests -> Codes \cup {0}] /\ status \in [Requests -> Codes \cup {0}]
    /\ wire \in [Requests -> Wires]
    /\ family \in [Requests -> Families]

UnderWay(q) == pc[q] \notin {"idle", "done", "gone"}

\* A request under way has passed the gate of the settings the process still has.
Admitted(q) ==
    UnderWay(q) =>
        /\ ~settings.read_only
        /\ Full \/ (settings.capability = "locate" /\ family[q] \in Locate)
        /\ family[q] # "mark_ubad"

\* What the steps behind and before the command know of it.
Sent(q) ==
    /\ pc[q] = "sent" => wire[q] # "none"
    /\ wire[q] # "none" => pc[q] \in {"sent", "audit", "refresh", "done", "gone"}

\* The row that is about to be saved.
Pending(q) ==
    pc[q] = "audit" =>
        /\ row[q] # "none"
        /\ row[q] = "not_sent" => wire[q] = "none"
        /\ family[q] = "buzzer" /\ reply[q] = 409 => wire[q] = "none"
        /\ row[q] = "succeeded" => wire[q] = "applied"
        /\ wire[q] # "none" => row[q] \in {"failed", "succeeded"}
        /\ reply[q] \in {200, 303} /\ family[q] \notin Operations => row[q] = "succeeded"

\* The row that is saved and the answer.
Answered(q) ==
    /\ pc[q] \notin {"refresh", "done", "gone"} => audit[q] = "none"
    /\ pc[q] # "done" => status[q] = 0
    /\ pc[q] = "refresh" => audit[q] = "succeeded" /\ family[q] \in Operations
    /\ audit[q] = "not_sent" => wire[q] = "none"
    /\ family[q] = "buzzer" /\ status[q] = 409 => wire[q] = "none"
    /\ audit[q] = "succeeded" => wire[q] = "applied"
    /\ status[q] \in {200, 303} /\ ~dry[q] =>
         audit[q] # "none" /\ (family[q] \notin Operations => audit[q] = "succeeded")
    /\ wire[q] # "none" /\ pc[q] = "done" /\ status[q] # 500 =>
         audit[q] \in {"failed", "succeeded"}

WritesInv ==
    /\ RequestTypes
    /\ \A q \in Requests : Admitted(q) /\ Sent(q) /\ Pending(q) /\ Answered(q)

\* The initial states are good.
LEMMA WritesInit == Init => WritesInv
BY DEF Init, WritesInv, RequestTypes, Admitted, Sent, Pending, Answered, UnderWay,
       Steps, Rows, Codes, Wires

\* A step of the environment changes no field of a request.
LEMMA EnvironmentKeeps == WritesInv /\ Environment => WritesInv'
<1> SUFFICES ASSUME WritesInv, Environment PROVE WritesInv'
    OBVIOUS
<1> USE DEF WritesInv, RequestTypes, Admitted, Sent, Pending, Answered, UnderWay, Full
<1>1. ASSUME NEW minutes \in Durations, MaintenanceStart(minutes) PROVE WritesInv'
      BY <1>1 DEF MaintenanceStart, requestVars, askVars, ansVars
<1>2. CASE MaintenanceStop
      BY <1>2 DEF MaintenanceStop, requestVars, askVars, ansVars
<1>3. CASE Tick
      BY <1>3 DEF Tick, requestVars, askVars, ansVars
<1>4. ASSUME NEW p \in Policies, EditPolicy(p) PROVE WritesInv'
      BY <1>4 DEF EditPolicy, requestVars, askVars, ansVars
<1>5. CASE EditBinary
      BY <1>5 DEF EditBinary, requestVars, askVars, ansVars
<1>6. ASSUME NEW s \in Deployments, Restart(s) PROVE WritesInv'
      BY <1>6 DEF Restart, askVars, Steps
<1> QED
    BY <1>1, <1>2, <1>3, <1>4, <1>5, <1>6 DEF Environment

\* A step of a request keeps the invariant.
LEMMA RequestKeeps == ASSUME WritesInv, NEW r \in Requests, RequestStep(r) PROVE WritesInv'
<1> USE DEF WritesInv, RequestTypes, Admitted, Sent, Pending, Answered, UnderWay, Full,
        Steps, Rows, Codes, Wires, envVars, askVars, ansVars, Go, Answer, Record
<1>1. CASE Gate(r)
  <2> USE <1>1 DEF Gate
  <2>1. CASE Disabled(family[r]) \/ (Full /\ ~Permits(policy, family[r]))
        BY <2>1
  <2>2. CASE ~Disabled(family[r]) /\ (Full => Permits(policy, family[r]))
    <3>1. ~settings.read_only /\ (Full \/ (settings.capability = "locate" /\ family[r] \in Locate))
      <4>1. settings.capability \in Capabilities
            BY WritesAssumption DEF WritesAssumption, Settings
      <4>2. family[r] # "maintenance"
            BY WritesAssumption DEF WritesAssumption, AllFamilies, Locate, DriveWrites, Replace, Operations
      <4> QED
          BY <2>2, <4>1, <4>2 DEF Disabled, Capabilities
    <3>2. family[r] # "mark_ubad"
          BY <2>2, <3>1, WritesAssumption DEF WritesAssumption, Permits, Approvable, Locate
    <3> QED
        BY <2>2, <3>1, <3>2
  <2> QED
      BY <2>1, <2>2
<1>2. CASE HandlerError(r)
      BY <1>2 DEF HandlerError
<1>3. CASE Malformed(r)
      BY <1>3 DEF Malformed
<1>4. CASE LocateHandler(r)
      BY <1>4 DEF LocateHandler, Spawn
<1>5. CASE BuzzerHandler(r)
      BY <1>5 DEF BuzzerHandler
<1>6. CASE PatrolReadHandler(r)
      BY <1>6 DEF PatrolReadHandler, MaintenanceFirst, Reject, Codings
<1>7. CASE ConsistencyCheckHandler(r)
      BY <1>7 DEF ConsistencyCheckHandler, MaintenanceFirst, Reject, Codings
<1>8. CASE OperationLive(r)
      BY <1>8 DEF OperationLive, ReadFails, Reject, Codings
<1>9. CASE AdvancedHandler(r)
      BY <1>9 DEF AdvancedHandler, Reject, Codings
<1>10. CASE ReplaceHandler(r)
      BY <1>10 DEF ReplaceHandler, Reject, Codings
<1>11. CASE DriveLive(r)
      BY <1>11 DEF DriveLive, ReadFails, Reject, Codings
<1>12. CASE ForeignHandler(r)
      BY <1>12 DEF ForeignHandler, Reject, Codings
<1>13. CASE ForeignLiveRefuses(r)
      BY <1>13 DEF ForeignLiveRefuses, ReadFails, Reject, Codings
<1>14. CASE ForeignLiveAgrees(r)
      BY <1>14 DEF ForeignLiveAgrees, Reject, Codings
<1>15. CASE LoadApproved(r)
      BY <1>15 DEF LoadApproved, NotSent, Codings
<1>16. CASE Prewrite(r)
      BY <1>16 DEF Prewrite, NotSent, Codings
<1>17. CASE EvidenceRefuses(r)
      BY <1>17 DEF EvidenceRefuses, NotSent, Codings
<1>18. CASE Dispatch(r)
      BY <1>18 DEF Dispatch, Spawn, NotSent, Codings
<1>19. CASE CommandSucceeds(r)
      BY <1>19 DEF CommandSucceeds, OkCode
<1>20. CASE CommandFails(r)
      BY <1>20 DEF CommandFails, Codings
<1>21. CASE SaveAudit(r)
      BY <1>21 DEF SaveAudit
<1>22. CASE AuditFails(r)
      BY <1>22 DEF AuditFails
<1>23. CASE Refresh(r)
      BY <1>23 DEF Refresh
<1> HIDE DEF WritesInv
<1> QED
    BY <1>1, <1>2, <1>3, <1>4, <1>5, <1>6, <1>7, <1>8, <1>9, <1>10, <1>11, <1>12, <1>13, <1>14, <1>15, <1>16, <1>17, <1>18, <1>19, <1>20, <1>21, <1>22, <1>23
       DEF RequestStep

\* What becomes of a command touches only the observation of it.
LEMMA ControllerKeeps ==
    ASSUME WritesInv, NEW r \in Requests, ControllerActs(r) PROVE WritesInv'
BY DEF ControllerActs, WritesInv, RequestTypes, Admitted, Sent, Pending, Answered, UnderWay,
       Full, Wires, envVars, askVars, ansVars

\* Nothing changes.
LEMMA StutterKeeps == WritesInv /\ UNCHANGED vars => WritesInv'
BY DEF vars, WritesInv, RequestTypes, Admitted, Sent, Pending, Answered, UnderWay, Full,
       envVars, askVars, ansVars

\* WritesInv is an invariant of every behaviour, without any fairness.
THEOREM WritesInvariant == Spec => []WritesInv
<1>1. WritesInv /\ [Next]_vars => WritesInv'
      BY EnvironmentKeeps, RequestKeeps, ControllerKeeps, StutterKeeps DEF Next
<1> QED
    BY <1>1, WritesInit, PTL DEF Spec

\* The handlers never say of a command that it was not sent when it was started
\* (runner.py, write_sent; the buzzer's "execution: not_sent").
THEOREM NotSentTruthful == Spec => []NotSentIsTruthful
<1>1. WritesInv => NotSentIsTruthful
      BY DEF WritesInv, Answered, NotSentIsTruthful
<1> QED
    BY <1>1, WritesInvariant, PTL

\* A 200 or 303 of a mutating endpoint has its audit row, and "succeeded" is true.
THEOREM SuccessAudited == Spec => []SuccessIsAudited
<1>1. WritesInv => SuccessIsAudited
      BY DEF WritesInv, Answered, SuccessIsAudited
<1> QED
    BY <1>1, WritesInvariant, PTL

\* A command that was started is in the audit log once its request is answered, or
\* the operator was told 500.
THEOREM NoWriteIsSilent == Spec => []NoSilentWrite
<1>1. WritesInv => NoSilentWrite
      BY DEF WritesInv, Answered, NoSilentWrite
<1> QED
    BY <1>1, WritesInvariant, PTL

\* No command starts outside what settings and the maintenance record allow at
\* that moment, whatever they allowed when the request came in.
THEOREM WritesAuthorised == Spec => DispatchAuthorised
<1>1. WritesInv /\ [Next]_vars => [\A r \in Requests : Dispatches(r) => MayDispatch(r)]_vars
  <2> SUFFICES ASSUME WritesInv, Next, NEW q \in Requests, Dispatches(q) PROVE MayDispatch(q)
      OBVIOUS
  <2> USE DEF Dispatches, MayDispatch
  <2>1. PICK r \in Requests : LocateHandler(r) \/ Dispatch(r)
        BY DEF Next, Environment, RequestStep, MaintenanceStart, MaintenanceStop, Tick, EditPolicy,
               EditBinary, Restart, requestVars, Gate, HandlerError, Malformed, BuzzerHandler,
               PatrolReadHandler, ConsistencyCheckHandler, OperationLive, AdvancedHandler,
               ReplaceHandler, DriveLive, ForeignHandler, ForeignLiveRefuses,
               ForeignLiveAgrees, MaintenanceFirst, Reject, ReadFails, LoadApproved, Prewrite, EvidenceRefuses, ControllerActs,
               CommandSucceeds, CommandFails, SaveAudit, AuditFails, Refresh,
               WritesInv, RequestTypes
  <2>2. r = q
        BY <2>1 DEF LocateHandler, Dispatch, Spawn, WritesInv, RequestTypes
  <2>3. CASE LocateHandler(q)
        BY <2>3 DEF LocateHandler, Spawn, WritesInv, Admitted, UnderWay, Locate, Destructive, Replace
  <2>4. CASE Dispatch(q)
        BY <2>4 DEF Dispatch, BeforeWrite, WritesInv, Admitted, UnderWay
  <2> QED
      BY <2>1, <2>2, <2>3, <2>4
<1> QED
    BY <1>1, WritesInvariant, PTL DEF Spec, DispatchAuthorised
=============================================================================
