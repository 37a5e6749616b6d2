---------------------------- MODULE DeployRelease ----------------------------
(***************************************************************************)
(* The versioned deployment tool (scripts/deploy_release.py): apply,       *)
(* adopt and rollback of application releases, their durable receipts and  *)
(* recovery contexts, and the service manager they act on.                 *)
(*                                                                         *)
(* deployment_lock admits one run of the tool at a time and a second one   *)
(* leaves before it has touched anything, so one job is enough.  A step is *)
(* what happens between two durable changes; the tool can die between any  *)
(* two steps, any step can raise, and administrators and the service       *)
(* manager act meanwhile.  Hashes and file contents are abstracted to the  *)
(* release they belong to and to a version of the protected configuration. *)
(***************************************************************************)
EXTENDS Naturals

CONSTANTS
    Commits,     \* candidate releases
    Base,        \* the release every chain of deployments starts from
    BaselineOf,  \* the baseline in the reviewed manifest of each candidate
    None,        \* no file, no process, no job
    Other,       \* an override that no bundle has written
    MaxEdits,    \* bound: edits by an administrator
    MaxFaults    \* bound: deaths of the tool and spontaneous errors of a step

Releases == Commits \cup {Base}

ASSUME DeployAssumption ==
    /\ BaselineOf \in [Commits -> Releases]
    /\ \A c \in Commits : BaselineOf[c] # c
    /\ {Base, None, Other} \cap Commits = {} /\ Base # None /\ Base # Other /\ None # Other
    /\ None \notin {"apply", "rollback"}
    /\ MaxEdits \in Nat /\ MaxFaults \in Nat

VARIABLES
    \* the host
    unit,       \* the release that the unit without our override starts
    config,     \* version of the protected files and of the legacy configuration
    override,   \* zzzz-release.conf: the release it selects
    envs,       \* candidates whose GIT_SHA environment file exists
    dir,        \* release directories: "absent", "partial", "complete"
    loaded,     \* the release of the unit that systemd has loaded
    running,    \* the release of the main process
    renewed,    \* there is a new main process since the tool noted its MainPID
    collected,  \* the main process has saved a normal collection
    \* the durable records, by candidate
    receipt,
    ctxConfig, ctxEnvs, ctxPrevious, ctxOverrides, ctxRestart,  \* recovery.json
    \* the running job
    op, cand, step,
    memOverrides, memRestart,  \* its context, in memory
    \* observation only
    edits, faults,
    stray       \* candidates that the service manager started by itself

hostVars == <<unit, config, override, envs, dir, loaded, running, renewed, collected>>
ctxVars  == <<ctxConfig, ctxEnvs, ctxPrevious, ctxOverrides, ctxRestart>>
jobVars  == <<op, cand, step, memOverrides, memRestart>>
vars == <<hostVars, receipt, ctxVars, jobVars, edits, faults, stray>>

NoChanges  == {"none", "preflight", "refused"}
Unfinished == {"backing_up", "installing_offline", "activating",
               "active_waiting_for_collector", "rollback_needs_operator"}
Settled    == {"verified", "verified_external", "rolled_back", "not_activated"}
Receipts   == NoChanges \cup Unfinished \cup Settled

ApplySteps    == {"preflight", "backup", "copy", "install", "check", "intent", "env",
                  "override", "reload", "mark", "activate", "restart", "verify", "collect"}
RollbackSteps == {"restore", "unlink", "reload_back", "restart_back", "confirm"}

Overrides == Releases \cup {None, Other}

\* What daemon-reload makes of the files; an unknown override selects no release.
Selected(file) == IF file = None THEN unit ELSE file

Init ==
    /\ unit \in Releases
    /\ config = 0 /\ override = None /\ envs = {}
    /\ dir = [r \in Releases |-> IF r \in {unit, Base} THEN "complete" ELSE "absent"]
    /\ loaded = unit /\ running = unit /\ renewed = FALSE /\ collected \in BOOLEAN
    /\ receipt = [c \in Commits |-> "none"]
    /\ ctxConfig = [c \in Commits |-> 0] /\ ctxEnvs = [c \in Commits |-> {}]
    /\ ctxPrevious = [c \in Commits |-> None]
    /\ ctxOverrides = [c \in Commits |-> FALSE] /\ ctxRestart = [c \in Commits |-> FALSE]
    /\ op = None /\ cand = None /\ step = "idle"
    /\ memOverrides = FALSE /\ memRestart = FALSE
    /\ edits = 0 /\ faults = 0 /\ stray = {}

-----------------------------------------------------------------------------
(* The service manager, the service and the administrator. *)

\* The files are protected or owned by the tool; it does not hold others off.
EditConfig ==
    /\ edits < MaxEdits /\ edits' = edits + 1
    /\ config' = config + 1
    /\ UNCHANGED <<unit, override, envs, dir, loaded, running, renewed, collected,
                   receipt, ctxVars, jobVars, faults, stray>>

EditOverride ==
    /\ edits < MaxEdits /\ edits' = edits + 1
    /\ override' = Other
    /\ UNCHANGED <<unit, config, envs, dir, loaded, running, renewed, collected,
                   receipt, ctxVars, jobVars, faults, stray>>

\* Somebody else's daemon-reload.
Reload ==
    /\ loaded' = Selected(override)
    /\ UNCHANGED <<unit, config, override, envs, dir, running, renewed, collected,
                   receipt, ctxVars, jobVars, edits, faults, stray>>

\* Restart=on-failure: the process is started again from the loaded unit.
ServiceRestarts ==
    /\ running' = loaded /\ renewed' = TRUE /\ collected' = FALSE
    /\ stray' = IF running' # running THEN stray \cup {running'} ELSE stray
    /\ UNCHANGED <<unit, config, override, envs, dir, loaded,
                   receipt, ctxVars, jobVars, edits, faults>>

Collect ==
    /\ collected' = TRUE
    /\ UNCHANGED <<unit, config, override, envs, dir, loaded, running, renewed,
                   receipt, ctxVars, jobVars, edits, faults, stray>>

-----------------------------------------------------------------------------
(* What a step of the job does besides its own work. *)

others == <<unit, config, edits, stray>>

On(s)   == op # None /\ step = s
Go(s)   == step' = s /\ UNCHANGED <<op, cand>>
Flags   == <<memOverrides, memRestart>>
Leave   == /\ op' = None /\ cand' = None /\ step' = "idle"
           /\ memOverrides' = FALSE /\ memRestart' = FALSE

\* _status: the receipt is replaced atomically.
Status(state) == receipt' = [receipt EXCEPT ![cand] = state]

Old == BaselineOf[cand]

\* legacy_config and the protected files are as the context has them; among the
\* latter are the environment files of other candidates.
SameConfig == config = ctxConfig[cand]
SameFiles  == ctxEnvs[cand] \subseteq envs

\* _preserved
Preserved == SameConfig /\ SameFiles

\* _own_files: the override and the environment file are the candidate's.
OwnFiles == override = cand /\ cand \in envs

\* _identity: the unit that is loaded and the process are the release's, and it is
\* complete.
Identity(release) == loaded = release /\ running = release /\ dir[release] = "complete"

\* The baseline runs, nothing of the candidate is there and the override, if there
\* is one, is the baseline's.
PreflightPasses ==
    /\ Identity(Old)
    /\ dir[cand] = "absent" /\ cand \notin envs
    /\ override \in {None, Old}

\* The service is still the process that preflight saw, in its unit.
StillInitial == loaded = Old /\ ~renewed

\* _wait_health, _identity and the checks that follow the restart.
NewProcessProved == Identity(cand) /\ renewed /\ Preserved /\ OwnFiles

FaultOwnFilesUnchecked == collected /\ ~renewed /\ Preserved

\* _verify_collection and the checks that follow it.
CollectionProved == collected /\ ~renewed /\ Preserved /\ OwnFiles

FaultNoSecondRollback ==
    /\ Preserved
    /\ loaded \in {Old, cand} /\ dir[Old] = "complete"
    /\ memOverrides => override = cand

\* The checks of _rollback before its first change.
RollbackAllowed ==
    /\ Preserved
    /\ loaded \in {Old, cand} /\ dir[Old] = "complete"
    /\ memOverrides => override \in {cand, ctxPrevious[cand]}

\* The checks of _rollback after its last change.
RollbackProved == Preserved /\ (memRestart => loaded = Old)

Ready ==
    /\ step = "preflight" => PreflightPasses
    /\ step = "copy"      => Preserved
    /\ step = "check"     => StillInitial /\ Preserved
    /\ step = "verify"    => NewProcessProved
    /\ step = "collect"   => CollectionProved
    /\ step = "restore"   => RollbackAllowed
    /\ step = "confirm"   => RollbackProved

-----------------------------------------------------------------------------
(* apply *)

\* _already_installed: a receipt that says more than "no changes" is never
\* overwritten by a retry; it is reported, or the retry refused.
NothingRecorded(c) == receipt[c] \in NoChanges

ApplyStart(c) ==
    /\ op = None /\ NothingRecorded(c)
    /\ op' = "apply" /\ cand' = c /\ step' = "preflight"
    /\ receipt' = [receipt EXCEPT ![c] = "preflight"]
    /\ UNCHANGED <<hostVars, ctxVars, Flags, edits, faults, stray>>

\* The checks of _apply_locked up to the new recovery directory with its context.
Preflight ==
    /\ On("preflight") /\ Ready /\ Go("backup")
    /\ ctxConfig' = [ctxConfig EXCEPT ![cand] = config]
    /\ ctxEnvs' = [ctxEnvs EXCEPT ![cand] = envs]
    /\ ctxPrevious' = [ctxPrevious EXCEPT ![cand] = override]
    /\ ctxOverrides' = [ctxOverrides EXCEPT ![cand] = FALSE]
    /\ ctxRestart' = [ctxRestart EXCEPT ![cand] = FALSE]
    /\ renewed' = FALSE
    /\ UNCHANGED <<others, override, envs, dir, loaded, running, collected,
                   receipt, Flags, faults>>

BackupStarts ==
    /\ On("backup") /\ Go("copy") /\ Status("backing_up")
    /\ UNCHANGED <<hostVars, ctxVars, Flags, edits, faults, stray>>

BackupDone ==
    /\ On("copy") /\ Ready /\ Go("install") /\ Status("installing_offline")
    /\ UNCHANGED <<hostVars, ctxVars, Flags, edits, faults, stray>>

\* install: the directory exists before it is complete.
Install ==
    /\ On("install")
    /\ \/ dir[cand] = "absent" /\ dir' = [dir EXCEPT ![cand] = "partial"] /\ Go("install")
       \/ dir[cand] = "partial" /\ dir' = [dir EXCEPT ![cand] = "complete"] /\ Go("check")
    /\ UNCHANGED <<others, override, envs, loaded, running, renewed, collected,
                   receipt, ctxVars, Flags, faults>>

\* Migrations, settings, properties and configuration are unchanged.
CandidateChecked ==
    /\ On("check") /\ Ready /\ Go("intent")
    /\ UNCHANGED <<hostVars, receipt, ctxVars, Flags, edits, faults, stray>>

FaultIntentNotSaved ==
    /\ On("intent") /\ Go("env")
    /\ memOverrides' = TRUE
    /\ UNCHANGED <<hostVars, receipt, ctxVars, memRestart, edits, faults, stray>>

\* overrides_attempted is on disk before the first file is written.
SaveIntent ==
    /\ On("intent") /\ Go("env")
    /\ memOverrides' = TRUE
    /\ ctxOverrides' = [ctxOverrides EXCEPT ![cand] = TRUE]
    /\ UNCHANGED <<hostVars, receipt, ctxConfig, ctxEnvs, ctxPrevious, ctxRestart, memRestart,
                   edits, faults, stray>>

WriteEnv ==
    /\ On("env") /\ Go("override")
    /\ envs' = envs \cup {cand}
    /\ UNCHANGED <<others, override, dir, loaded, running, renewed, collected,
                   receipt, ctxVars, Flags, faults>>

WriteOverride ==
    /\ On("override") /\ Go("reload")
    /\ override' = cand
    /\ UNCHANGED <<others, envs, dir, loaded, running, renewed, collected,
                   receipt, ctxVars, Flags, faults>>

DaemonReload ==
    /\ On("reload") /\ Go("mark")
    /\ loaded' = Selected(override)
    /\ UNCHANGED <<others, override, envs, dir, running, renewed, collected,
                   receipt, ctxVars, Flags, faults>>

FaultRestartNotSaved ==
    /\ On("mark") /\ Go("activate")
    /\ memRestart' = TRUE
    /\ UNCHANGED <<hostVars, receipt, ctxVars, memOverrides, edits, faults, stray>>

\* restart_attempted is on disk before the restart.
SaveRestart ==
    /\ On("mark") /\ Go("activate")
    /\ memRestart' = TRUE
    /\ ctxRestart' = [ctxRestart EXCEPT ![cand] = TRUE]
    /\ UNCHANGED <<hostVars, receipt, ctxConfig, ctxEnvs, ctxPrevious, ctxOverrides, memOverrides,
                   edits, faults, stray>>

Activate ==
    /\ On("activate") /\ Go("restart") /\ Status("activating")
    /\ UNCHANGED <<hostVars, ctxVars, Flags, edits, faults, stray>>

\* systemctl restart
RestartService ==
    /\ running' = loaded /\ renewed' = TRUE /\ collected' = FALSE
    /\ UNCHANGED <<unit, config, override, envs, dir, loaded>>

RestartNew ==
    /\ On("restart") /\ Go("verify") /\ RestartService
    /\ UNCHANGED <<receipt, ctxVars, Flags, edits, faults, stray>>

\* The new MainPID is noted.
VerifyNew ==
    /\ On("verify") /\ Ready /\ Go("collect")
    /\ Status("active_waiting_for_collector")
    /\ renewed' = FALSE
    /\ UNCHANGED <<others, override, envs, dir, loaded, running, collected,
                   ctxVars, Flags, faults>>

\* The last checks and the receipt are one step.
Verified ==
    /\ On("collect") /\ Ready /\ Leave /\ Status("verified")
    /\ UNCHANGED <<hostVars, ctxVars, edits, faults, stray>>

-----------------------------------------------------------------------------
(* rollback: in the process that failed, or a run of its own later. *)

\* The receipt names the recovery directory; a legacy attestation has none, and a
\* repeated rollback of what is rolled back changes nothing.
RollbackStart(c) ==
    /\ op = None /\ receipt[c] \in Unfinished \cup {"verified", "not_activated"}
    /\ op' = "rollback" /\ cand' = c /\ step' = "restore"
    /\ memOverrides' = ctxOverrides[c] /\ memRestart' = ctxRestart[c]
    /\ UNCHANGED <<hostVars, receipt, ctxVars, edits, faults, stray>>

FaultRestoreUnchecked ==
    /\ On("restore")
    /\ Preserved
    /\ override' = IF memOverrides THEN ctxPrevious[cand] ELSE override
    /\ Go(IF memOverrides THEN "unlink" ELSE "confirm")
    /\ UNCHANGED <<others, envs, dir, loaded, running, renewed, collected,
                   receipt, ctxVars, Flags, faults>>

Restore ==
    /\ On("restore") /\ Ready
    /\ override' = IF memOverrides THEN ctxPrevious[cand] ELSE override
    /\ Go(IF memOverrides THEN "unlink" ELSE "confirm")
    /\ UNCHANGED <<others, envs, dir, loaded, running, renewed, collected,
                   receipt, ctxVars, Flags, faults>>

UnlinkEnv ==
    /\ On("unlink") /\ Go("reload_back")
    /\ envs' = envs \ {cand}
    /\ UNCHANGED <<others, override, dir, loaded, running, renewed, collected,
                   receipt, ctxVars, Flags, faults>>

ReloadBack ==
    /\ On("reload_back") /\ Go(IF memRestart THEN "restart_back" ELSE "confirm")
    /\ loaded' = Selected(override)
    /\ UNCHANGED <<others, override, envs, dir, running, renewed, collected,
                   receipt, ctxVars, Flags, faults>>

RestartBack ==
    /\ On("restart_back") /\ Go("confirm") /\ RestartService
    /\ UNCHANGED <<receipt, ctxVars, Flags, edits, faults, stray>>

\* The last checks and the receipt are one step.
Confirm ==
    /\ On("confirm") /\ Ready /\ Leave
    /\ Status(IF memRestart THEN "rolled_back" ELSE "not_activated")
    /\ UNCHANGED <<hostVars, ctxVars, edits, faults, stray>>

-----------------------------------------------------------------------------
(* Failures, the death of the tool, adoption. *)

\* A check fails, or a step raises: preflight is refused, a later step of apply is
\* rolled back at once, and a rollback that fails leaves the rest to the operator.
\* The context in memory is changed before the attempt to save it.
StepFails ==
    /\ op # None
    /\ \/ ~Ready /\ UNCHANGED faults
       \/ faults < MaxFaults /\ faults' = faults + 1
    /\ \/ step = "preflight" /\ Leave /\ Status("refused")
       \/ /\ step \in ApplySteps \ {"preflight"} /\ Go("restore") /\ UNCHANGED receipt
          /\ memOverrides' = (memOverrides \/ step = "intent")
          /\ memRestart' = (memRestart \/ step = "mark")
       \/ step \in RollbackSteps /\ op = "apply" /\ Leave /\ Status("rollback_needs_operator")
       \/ step \in RollbackSteps /\ op = "rollback" /\ Leave /\ UNCHANGED receipt
    /\ UNCHANGED <<hostVars, ctxVars, edits, stray>>

\* The tool is killed, or the host goes down with it.
ToolDies ==
    /\ op # None /\ faults < MaxFaults /\ faults' = faults + 1
    /\ Leave
    /\ UNCHANGED <<hostVars, receipt, ctxVars, edits, stray>>

\* adopt: attests a healthy installation that the tool has not made.
Adopt(c) ==
    /\ op = None /\ NothingRecorded(c)
    /\ Identity(c) /\ collected
    /\ receipt' = [receipt EXCEPT ![c] = "verified_external"]
    /\ UNCHANGED <<hostVars, ctxVars, jobVars, edits, faults, stray>>

\* status: what the operator is told of a candidate.
Reported(c) ==
    IF receipt[c] \in {"verified", "verified_external"} /\ loaded # c
      THEN "not_current_or_unhealthy"
    ELSE IF receipt[c] \in Settled \cup {"refused", "rollback_needs_operator"} THEN receipt[c]
    ELSE IF op = "apply" /\ cand = c THEN "running"
    ELSE IF receipt[c] = "none" THEN "not_recorded"
    ELSE "interrupted_needs_operator"

-----------------------------------------------------------------------------
ApplyStep ==
    \/ Preflight \/ BackupStarts \/ BackupDone \/ Install \/ CandidateChecked
    \/ SaveIntent \/ WriteEnv \/ WriteOverride \/ DaemonReload
    \/ SaveRestart \/ Activate \/ RestartNew \/ VerifyNew \/ Verified

RollbackStep == Restore \/ UnlinkEnv \/ ReloadBack \/ RestartBack \/ Confirm

JobStep == ApplyStep \/ RollbackStep \/ StepFails

Environment == EditConfig \/ EditOverride \/ Reload \/ ServiceRestarts \/ Collect \/ ToolDies

Next ==
    \/ JobStep \/ Environment
    \/ \E c \in Commits : ApplyStart(c) \/ RollbackStart(c) \/ Adopt(c)

Spec == Init /\ [][Next]_vars

\* The operator answers an interruption with rollback.
Recover(c) ==
    /\ receipt[c] \in Unfinished
    /\ Reported(c) \in {"interrupted_needs_operator", "rollback_needs_operator"}
    /\ RollbackStart(c)

\* Every command of the tool has a timeout; the operator tries again when another
\* run of the tool holds the lock.
FairSpec == Spec /\ WF_vars(JobStep) /\ \A c \in Commits : SF_vars(Recover(c))

-----------------------------------------------------------------------------
(* Properties. *)

TypeOK ==
    /\ unit \in Releases /\ config \in Nat /\ override \in Overrides
    /\ envs \subseteq Commits
    /\ dir \in [Releases -> {"absent", "partial", "complete"}]
    /\ loaded \in Releases \cup {Other} /\ running \in Releases \cup {Other}
    /\ renewed \in BOOLEAN /\ collected \in BOOLEAN
    /\ receipt \in [Commits -> Receipts]
    /\ ctxConfig \in [Commits -> Nat] /\ ctxEnvs \in [Commits -> SUBSET Commits]
    /\ ctxPrevious \in [Commits -> Releases \cup {None}]
    /\ ctxOverrides \in [Commits -> BOOLEAN] /\ ctxRestart \in [Commits -> BOOLEAN]
    /\ op \in {None, "apply", "rollback"} /\ cand \in Commits \cup {None}
    /\ step \in ApplySteps \cup RollbackSteps \cup {"idle"}
    /\ memOverrides \in BOOLEAN /\ memRestart \in BOOLEAN
    /\ edits \in Nat /\ faults \in Nat /\ stray \subseteq Releases \cup {Other}

Tracked(c) == receipt[c] \in Unfinished \cup {"verified"} /\ ctxOverrides[c]

\* Whatever dies or fails when: as long as a file of a candidate is in place, its
\* receipt says that there is something to undo and its recovery context on disk
\* says so too; in particular no retry turns it into a "no changes" refusal.
ChangesRecorded ==
    \A c \in Commits : override = c \/ c \in envs => Tracked(c)

Becomes(c, state) == receipt[c] # state /\ receipt'[c] = state

VerifiedNow(c) ==
    Becomes(c, "verified") =>
        /\ running = c /\ override = c /\ c \in envs
        /\ collected /\ config = ctxConfig[c]

\* "verified" is recorded only while the candidate runs from the tool's own files,
\* with the configuration that preflight saw, and its process has collected.
VerifiedIsTrue == [][\A c \in Commits : VerifiedNow(c)]_vars

RestoredNow(c) ==
    /\ Becomes(c, "rolled_back") =>
         running = BaselineOf[c] /\ loaded = BaselineOf[c] /\ c \notin envs /\ override # c
    /\ Becomes(c, "not_activated") =>
         (running # c \/ c \in stray) /\ c \notin envs /\ override # c

\* "rolled_back" and "not_activated" are recorded only when no file of the candidate
\* is left; after the first the baseline runs, and after the second the candidate
\* runs only if the service manager started it before the tool would have.
RestoredIsTrue == [][\A c \in Commits : RestoredNow(c)]_vars

\* A rollback never overwrites an override that is neither the candidate's nor the
\* one it saved, and never while another release is active.
RestoreNow ==
    On("restore") /\ override' # override /\ override' # Other =>
        override = cand /\ loaded \in {cand, BaselineOf[cand]}
RollbackOverwritesOnlyItsOwn == [][RestoreNow]_vars

\* An interrupted or failed deployment is settled in the end, if the operator
\* repeats rollback, nobody edits the files and no other candidate was deployed.
RecoveryCompletes ==
    \A c \in Commits :
        receipt[c] \in Unfinished
        ~> \/ receipt[c] \in Settled
           \/ edits > 0
           \/ \E d \in Commits \ {c} : receipt[d] \notin NoChanges
=============================================================================
