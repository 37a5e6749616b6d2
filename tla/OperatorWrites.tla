--------------------------- MODULE OperatorWrites ---------------------------
(***************************************************************************)
(* How a POST of the operator becomes a StorCLI write: the capability gate *)
(* and the handlers of web/routes.py, the maintenance record of db/dao.py  *)
(* and the guarded write of storcli/runner.py.                             *)
(*                                                                         *)
(* A step is what the event loop runs between two awaits; the root-owned   *)
(* policy and the pinned binary are files another process may edit between *)
(* any two reads of them.  What a handler finds in the snapshot or in a    *)
(* live read is left open here: it may always refuse.                      *)
(***************************************************************************)
EXTENDS Integers, FiniteSets

CONSTANTS
    Requests,     \* POST requests
    Families,     \* the kinds of writes they ask for
    Deployments,  \* the settings a start of the process may read
    Policies,     \* contents of the policy file: the writes it approves, or Unreadable
    Unreadable,   \* a policy file that load_policy refuses
    Durations,    \* lengths of a maintenance window
    MaxTime,      \* bound: the clock
    MaxEdits,     \* bound: edits of the policy or of the binary
    MaxRestarts   \* bound: restarts of the process

Locate      == {"locate_start", "locate_stop"}
Replace     == {"replace_offline", "replace_missing", "replace_insert"}
DriveWrites == {"mark_ubad", "drive_action"} \cup Replace
Operations  == {"patrol_read", "consistency_check"}
AllFamilies == Locate \cup DriveWrites \cup Operations \cup {"buzzer", "foreign_config"}

\* before_write looks for /replace/ and /foreign-config/ in the path.
Destructive == Replace \cup {"foreign_config"}
DryRuns     == Destructive

Capabilities == {"none", "locate", "full-supported-actions"}
Settings == [read_only : BOOLEAN, capability : Capabilities,
             maintenance_mode : BOOLEAN, destructive_mode : BOOLEAN]

\* No command pattern admits "set bad": a policy that lists it is not valid.
Approvable == Families \ {"mark_ubad"}

ASSUME WritesAssumption ==
    /\ Families \subseteq AllFamilies
    /\ Deployments \subseteq Settings
    /\ Policies \ {Unreadable} \subseteq SUBSET Approvable
    /\ Durations \subseteq Nat \ {0}
    /\ MaxTime \in Nat /\ MaxEdits \in Nat /\ MaxRestarts \in Nat

VARIABLES
    settings,   \* app.state.settings
    now,        \* the clock
    maint,      \* the persisted maintenance record: "absent", "stopped", "window"
    expires,    \* its expires_at
    policy,     \* the policy file
    binaryOk,   \* the binary has the pinned path and hash
    pc,         \* where each request is
    family,     \* what it asks for
    dry,        \* dry_run
    enabled,    \* the maintenance_mode its handler has read
    approved,   \* the policy run_storcli has read first
    row,        \* the audit row it is about to save
    reply,      \* the answer that goes with it
    status,     \* the answer, 0 if there is none
    audit,      \* the audit row that is saved
    wire,       \* observation only: what became of its command
    edits,      \* observation only: edits so far
    restarts    \* observation only: restarts so far

envVars == <<settings, now, maint, expires, policy, binaryOk, edits, restarts>>
askVars == <<family, dry>>
ansVars == <<pc, row, reply, status>>
vars == <<envVars, askVars, enabled, approved, ansVars, audit, wire>>

Rows  == {"none", "rejected", "failed", "not_sent", "succeeded"}
Wires == {"none", "dispatched", "applied", "refused"}
Steps == {"idle", "handler", "preread", "load", "prewrite", "evidence", "sent",
          "audit", "refresh", "done", "gone"}
Codes == {200, 303, 400, 403, 404, 409, 500, 502}

Full == settings.capability = "full-supported-actions"

\* maintenance_writes_enabled: the persisted record, once there is one, decides.
WritesEnabled ==
    IF maint = "absent" THEN settings.maintenance_mode
                        ELSE maint = "window" /\ now < expires

\* CommandPolicy.permits; a replacement needs all of its steps.
Permits(p, f) ==
    /\ p # Unreadable
    /\ f \in p
    /\ f \in Replace => Replace \subseteq p

Init ==
    /\ settings \in Deployments
    /\ now = 0 /\ maint = "absent" /\ expires = 0
    /\ policy \in Policies /\ binaryOk = TRUE
    /\ pc = [r \in Requests |-> "idle"]
    /\ family \in [Requests -> Families]
    /\ dry \in [Requests -> BOOLEAN]
    /\ \A r \in Requests : dry[r] => family[r] \in DryRuns
    /\ enabled = [r \in Requests |-> FALSE]
    /\ approved = [r \in Requests |-> Unreadable]
    /\ row = [r \in Requests |-> "none"] /\ audit = row
    /\ reply = [r \in Requests |-> 0] /\ status = reply
    /\ wire = [r \in Requests |-> "none"]
    /\ edits = 0 /\ restarts = 0

-----------------------------------------------------------------------------
(* The maintenance record, the files, the process. *)

\* action_disabled_reason
Disabled(f) ==
    \/ settings.read_only
    \/ settings.capability = "none"
    \/ settings.capability = "locate" /\ f \notin Locate \cup {"maintenance"}
    \/ Full /\ (~binaryOk \/ policy = Unreadable)

requestVars == <<askVars, enabled, approved, ansVars, audit, wire>>

MaintenanceStart(minutes) ==
    /\ ~Disabled("maintenance")
    /\ maint' = "window" /\ expires' = now + minutes
    /\ UNCHANGED <<settings, now, policy, binaryOk, edits, restarts, requestVars>>

\* The inactive record is kept: it also revokes the configured flag.
MaintenanceStop ==
    /\ ~Disabled("maintenance")
    /\ maint' = "stopped" /\ expires' = 0
    /\ UNCHANGED <<settings, now, policy, binaryOk, edits, restarts, requestVars>>

Tick ==
    /\ now < MaxTime /\ now' = now + 1
    /\ UNCHANGED <<settings, maint, expires, policy, binaryOk, edits, restarts, requestVars>>

\* The administrator installs another policy, or replaces the binary.
EditPolicy(p) ==
    /\ edits < MaxEdits /\ edits' = edits + 1
    /\ policy' = p
    /\ UNCHANGED <<settings, now, maint, expires, binaryOk, restarts, requestVars>>

EditBinary ==
    /\ edits < MaxEdits /\ edits' = edits + 1
    /\ binaryOk' = ~binaryOk
    /\ UNCHANGED <<settings, now, maint, expires, policy, restarts, requestVars>>

\* The process dies and starts again, perhaps with other settings.  Requests under
\* way are lost; the database, the files and what was sent to the controller stay.
Restart(s) ==
    /\ restarts < MaxRestarts /\ restarts' = restarts + 1
    /\ settings' = s
    /\ pc' = [r \in Requests |-> IF pc[r] \in {"idle", "done"} THEN pc[r] ELSE "gone"]
    /\ UNCHANGED <<now, maint, expires, policy, binaryOk, edits, askVars, enabled,
                   approved, row, reply, status, audit, wire>>

-----------------------------------------------------------------------------
(* How a step of a request ends. *)

Go(r, step) ==
    /\ pc' = [pc EXCEPT ![r] = step]
    /\ UNCHANGED <<row, reply, status>>

Answer(r, code) ==
    /\ pc' = [pc EXCEPT ![r] = "done"]
    /\ status' = [status EXCEPT ![r] = code]
    /\ UNCHANGED <<row, reply>>

\* The answer waits for an audit row.
Record(r, kind, code) ==
    /\ pc' = [pc EXCEPT ![r] = "audit"]
    /\ row' = [row EXCEPT ![r] = kind]
    /\ reply' = [reply EXCEPT ![r] = code]
    /\ UNCHANGED status

\* _patrol_read_rejection_status: an HX-Request is told 200 whatever happened.
Codings(r, code) == IF family[r] \in Operations THEN {code, 200} ELSE {code}

\* The process of the command is started, or cannot be.
Spawn(r) ==
    \/ Go(r, "sent") /\ wire' = [wire EXCEPT ![r] = "dispatched"]
    \/ Record(r, "failed", 502) /\ UNCHANGED wire

\* A StorcliError with write_sent = False; only the buzzer's handler tells.
NotSent(r) ==
    IF family[r] = "buzzer"
    THEN Record(r, "not_sent", 409)
    ELSE \E code \in Codings(r, 502) : Record(r, "failed", code)

OkCode(r) == IF family[r] \in {"buzzer", "drive_action", "mark_ubad"} THEN 303 ELSE 200

-----------------------------------------------------------------------------
(* The gate and the handlers, up to the first write call. *)

\* require_controller_capability
Gate(r) ==
    /\ pc[r] = "idle"
    /\ IF Disabled(family[r]) \/ (Full /\ ~Permits(policy, family[r]))
       THEN Answer(r, 403)
       ELSE Go(r, "handler")
    /\ UNCHANGED <<envVars, askVars, enabled, approved, audit, wire>>

\* A database error in the handler, before anything is sent.
HandlerError(r) ==
    /\ pc[r] \in {"handler", "evidence"}
    /\ Answer(r, 500)
    /\ UNCHANGED <<envVars, askVars, enabled, approved, audit, wire>>

\* A body, path or query that is not well formed (400, 422); the buzzer takes none.  With full
\* actions the gate itself parses the bodies of patrol read and consistency check.
Malformed(r) ==
    /\ \/ pc[r] = "handler" /\ family[r] # "buzzer"
       \/ pc[r] = "idle" /\ family[r] \in Operations /\ Full /\ ~Disabled(family[r])
    /\ Answer(r, 400)
    /\ UNCHANGED <<envVars, askVars, enabled, approved, audit, wire>>

\* _run_locate.  With the locate capability nothing is awaited between the check
\* of the maintenance record and the start of the command.
LocateHandler(r) ==
    /\ pc[r] = "handler" /\ family[r] \in Locate
    /\ IF family[r] = "locate_start" /\ ~WritesEnabled
       THEN Record(r, "rejected", 403) /\ UNCHANGED wire
       ELSE IF Full THEN Go(r, "load") /\ UNCHANGED wire
                    ELSE Spawn(r)
    /\ UNCHANGED <<envVars, askVars, enabled, approved, audit>>

\* _run_controller_buzzer_action
BuzzerHandler(r) ==
    /\ pc[r] = "handler" /\ family[r] = "buzzer"
    /\ IF WritesEnabled THEN Go(r, "load") ELSE Record(r, "rejected", 403)
    /\ UNCHANGED <<envVars, askVars, enabled, approved, audit, wire>>

\* _reject_patrol_read_mutation and its like: a refusal that is audited.
Reject(r, code) == \E told \in Codings(r, code) : Record(r, "rejected", told)

\* A live read that fails is audited too.
ReadFails(r) == \E told \in Codings(r, 502) : Record(r, "failed", told)

MaintenanceFirst(r) == IF WritesEnabled THEN Go(r, "preread") ELSE Reject(r, 403)

\* Start, stop and mode of the patrol read and of the consistency check.
PatrolReadHandler(r) ==
    /\ pc[r] = "handler" /\ family[r] = "patrol_read"
    /\ MaintenanceFirst(r)
    /\ UNCHANGED <<envVars, askVars, enabled, approved, audit, wire>>

ConsistencyCheckHandler(r) ==
    /\ pc[r] = "handler" /\ family[r] = "consistency_check"
    /\ MaintenanceFirst(r)
    /\ UNCHANGED <<envVars, askVars, enabled, approved, audit, wire>>

\* The operation's live state is unknown, contradicts the request, or allows it.
OperationLive(r) ==
    /\ pc[r] = "preread" /\ family[r] \in Operations
    /\ ReadFails(r) \/ Reject(r, 409) \/ Go(r, "load")
    /\ UNCHANGED <<envVars, askVars, enabled, approved, audit, wire>>

\* _run_advanced_drive_action: refusals before the live read leave no audit row.
AdvancedHandler(r) ==
    /\ pc[r] = "handler" /\ family[r] \in {"mark_ubad", "drive_action"}
    /\ \/ \E code \in {404, 409} : Answer(r, code)
       \/ IF WritesEnabled /\ (family[r] = "mark_ubad" => settings.destructive_mode)
          THEN Go(r, "preread") ELSE Answer(r, 403)
    /\ UNCHANGED <<envVars, askVars, enabled, approved, audit, wire>>

\* _run_replace_step, drive_replace_insert: neither do theirs.
ReplaceHandler(r) ==
    /\ pc[r] = "handler" /\ family[r] \in Replace
    /\ \/ \E code \in {404, 409} : Answer(r, code)
       \/ dry[r] /\ Answer(r, 200)
       \/ /\ ~dry[r]
          /\ IF WritesEnabled /\ settings.destructive_mode
             THEN Go(r, "preread") ELSE Answer(r, 403)
    /\ UNCHANGED <<envVars, askVars, enabled, approved, audit, wire>>

\* Another serial number or state is refused, again without a row.
DriveLive(r) ==
    /\ pc[r] = "preread" /\ family[r] \in DriveWrites
    /\ ReadFails(r) \/ Answer(r, 409) \/ Go(r, "load")
    /\ UNCHANGED <<envVars, askVars, enabled, approved, audit, wire>>

\* The clear phrase or the reviewed digest may be missing; the maintenance record
\* is read before the live read and used after it.
ForeignHandler(r) ==
    /\ pc[r] = "handler" /\ family[r] = "foreign_config"
    /\ \/ Reject(r, 409) /\ UNCHANGED enabled
       \/ Go(r, "preread") /\ enabled' = [enabled EXCEPT ![r] = WritesEnabled]
    /\ UNCHANGED <<envVars, askVars, approved, audit, wire>>

\* Nothing foreign there, or not what was reviewed.
ForeignLiveRefuses(r) ==
    /\ pc[r] = "preread" /\ family[r] = "foreign_config"
    /\ Reject(r, 409) \/ Reject(r, 502)
    /\ UNCHANGED <<envVars, askVars, enabled, approved, audit, wire>>

\* A dry run proves the safety of the preview and ends here.
ForeignLiveAgrees(r) ==
    /\ pc[r] = "preread" /\ family[r] = "foreign_config"
    /\ IF dry[r] THEN Answer(r, 200) \/ Reject(r, 502)
       ELSE IF enabled[r] /\ settings.destructive_mode THEN Go(r, "load")
       ELSE Reject(r, 403)
    /\ UNCHANGED <<envVars, askVars, enabled, approved, audit, wire>>

-----------------------------------------------------------------------------
(* run_storcli with an authorization path, and what follows it. *)

LoadApproved(r) ==
    /\ pc[r] = "load"
    /\ IF policy = Unreadable
       THEN NotSent(r) /\ UNCHANGED approved
       ELSE Go(r, "prewrite") /\ approved' = [approved EXCEPT ![r] = policy]
    /\ UNCHANGED <<envVars, askVars, enabled, audit, wire>>

\* check_storcli_prewrite up to its first await: it reads the policy for itself.
Prewrite(r) ==
    /\ pc[r] = "prewrite"
    /\ IF binaryOk /\ Permits(policy, family[r]) THEN Go(r, "evidence") ELSE NotSent(r)
    /\ UNCHANGED <<envVars, askVars, enabled, approved, audit, wire>>

\* Controller identity, alarm state, topology or foreign safety is not proved.
EvidenceRefuses(r) ==
    /\ pc[r] = "evidence"
    /\ NotSent(r)
    /\ UNCHANGED <<envVars, askVars, enabled, approved, audit, wire>>

FaultMaintenanceNotRechecked(r) ==
    family[r] \in Destructive => settings.destructive_mode

\* before_write of _authorization_kwargs
BeforeWrite(r) ==
    /\ ~settings.read_only /\ Full
    /\ family[r] = "locate_stop" \/ WritesEnabled
    /\ family[r] \in Destructive => settings.destructive_mode

\* The evidence is complete: policy and binary are read again, before_write is
\* asked, and the command starts, all without an await.
Dispatch(r) ==
    /\ pc[r] = "evidence"
    /\ IF policy = approved[r] /\ binaryOk /\ BeforeWrite(r)
       THEN Spawn(r)
       ELSE NotSent(r) /\ UNCHANGED wire
    /\ UNCHANGED <<envVars, askVars, enabled, approved, audit>>

\* The controller gets the command.  After a timeout only the process that was
\* started is killed: the controller may still act when the request is answered.
ControllerActs(r) ==
    /\ wire[r] = "dispatched"
    /\ \E end \in {"applied", "refused"} : wire' = [wire EXCEPT ![r] = end]
    /\ UNCHANGED <<envVars, askVars, enabled, approved, ansVars, audit>>

FaultTimeoutIsSuccess(r) ==
    /\ pc[r] = "sent"
    /\ Record(r, "succeeded", OkCode(r))
    /\ UNCHANGED <<envVars, askVars, enabled, approved, audit, wire>>

\* Exit code 0 and an explicit Success.
CommandSucceeds(r) ==
    /\ pc[r] = "sent" /\ wire[r] = "applied"
    /\ Record(r, "succeeded", OkCode(r))
    /\ UNCHANGED <<envVars, askVars, enabled, approved, audit, wire>>

FaultNoTimeout(r) ==
    /\ pc[r] = "sent" /\ wire[r] # "dispatched"
    /\ \E code \in Codings(r, 502) : Record(r, "failed", code)
    /\ UNCHANGED <<envVars, askVars, enabled, approved, audit, wire>>

FaultTimeoutIsUnsent(r) ==
    /\ pc[r] = "sent"
    /\ NotSent(r)
    /\ UNCHANGED <<envVars, askVars, enabled, approved, audit, wire>>

FaultFailureUnaudited(r) ==
    /\ pc[r] = "sent"
    /\ Answer(r, 502)
    /\ UNCHANGED <<envVars, askVars, enabled, approved, audit, wire>>

\* A timeout, an exit code, an answer that cannot be read, or a postcondition of
\* a replacement that is not met: none of them tells what the controller did.
CommandFails(r) ==
    /\ pc[r] = "sent"
    /\ \E code \in Codings(r, 502) : Record(r, "failed", code)
    /\ UNCHANGED <<envVars, askVars, enabled, approved, audit, wire>>

\* The row is committed; the operations then read the new state once more.
SaveAudit(r) ==
    /\ pc[r] = "audit"
    /\ audit' = [audit EXCEPT ![r] = row[r]]
    /\ IF row[r] = "succeeded" /\ family[r] \in Operations
       THEN Go(r, "refresh")
       ELSE Answer(r, reply[r])
    /\ UNCHANGED <<envVars, askVars, enabled, approved, wire>>

\* _audit_persistence_failure_response
AuditFails(r) ==
    /\ pc[r] = "audit"
    /\ Answer(r, 500)
    /\ UNCHANGED <<envVars, askVars, enabled, approved, audit, wire>>

Refresh(r) ==
    /\ pc[r] = "refresh"
    /\ \E code \in {200, 500, 502} : Answer(r, code)
    /\ UNCHANGED <<envVars, askVars, enabled, approved, audit, wire>>

-----------------------------------------------------------------------------
RequestStep(r) ==
    \/ Gate(r) \/ HandlerError(r) \/ Malformed(r)
    \/ LocateHandler(r) \/ BuzzerHandler(r)
    \/ PatrolReadHandler(r) \/ ConsistencyCheckHandler(r) \/ OperationLive(r)
    \/ AdvancedHandler(r) \/ ReplaceHandler(r) \/ DriveLive(r)
    \/ ForeignHandler(r) \/ ForeignLiveRefuses(r) \/ ForeignLiveAgrees(r)
    \/ LoadApproved(r) \/ Prewrite(r) \/ EvidenceRefuses(r) \/ Dispatch(r)
    \/ CommandSucceeds(r) \/ CommandFails(r)
    \/ SaveAudit(r) \/ AuditFails(r) \/ Refresh(r)

Environment ==
    \/ \E minutes \in Durations : MaintenanceStart(minutes)
    \/ MaintenanceStop
    \/ Tick
    \/ \E p \in Policies : EditPolicy(p)
    \/ EditBinary
    \/ \E s \in Deployments : Restart(s)

Next == Environment \/ \E r \in Requests : RequestStep(r) \/ ControllerActs(r)

Spec == Init /\ [][Next]_vars

\* Every await of a request ends: reads and commands are under a timeout.
FairSpec == Spec /\ \A r \in Requests : WF_vars(pc[r] # "idle" /\ RequestStep(r))

-----------------------------------------------------------------------------
(* Properties. *)

Dispatches(r) == wire[r] = "none" /\ wire'[r] = "dispatched"

MayDispatch(r) ==
    /\ ~settings.read_only
    /\ Full \/ (settings.capability = "locate" /\ family[r] \in Locate)
    /\ family[r] = "locate_stop" \/ WritesEnabled
    /\ family[r] \in Destructive => settings.destructive_mode
    /\ family[r] # "mark_ubad"

\* Whatever happened since the handler looked (maintenance stopped or expired in
\* the middle of a request, a restart with other settings): a command starts only
\* in a deployment that may write, inside a maintenance window unless it stops a
\* locate, with destructive mode if it is destructive, and never to mark a drive bad.
DispatchAuthorised ==
    [][\A r \in Requests : Dispatches(r) => MayDispatch(r)]_vars

\* "failed before execution" and "execution: not_sent" are never said of a command
\* that was started, not even by a controller that acts late.
NotSentIsTruthful ==
    \A r \in Requests :
        audit[r] = "not_sent" \/ (family[r] = "buzzer" /\ status[r] = 409) => wire[r] = "none"

\* A row "succeeded" is about a command the controller has carried out, and no
\* request but a dry run is answered 200 or 303 without a row; where 200 is not
\* also the code of refusals for HTMX the row says "succeeded".
SuccessIsAudited ==
    \A r \in Requests :
        /\ audit[r] = "succeeded" => wire[r] = "applied"
        /\ status[r] \in {200, 303} /\ ~dry[r] =>
             /\ audit[r] # "none"
             /\ family[r] \notin Operations => audit[r] = "succeeded"

\* A command that was started and whose request was answered has its audit row,
\* or the operator was told 500.
NoSilentWrite ==
    \A r \in Requests :
        wire[r] # "none" /\ pc[r] = "done" /\ status[r] # 500 =>
            audit[r] \in {"failed", "succeeded"}

\* A request that was let in is answered, unless the process dies.
EveryRequestEnds ==
    \A r \in Requests : pc[r] # "idle" ~> pc[r] \in {"done", "gone"}
=============================================================================
