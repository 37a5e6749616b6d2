----------------------------- MODULE DeployProofs -----------------------------
(***************************************************************************)
(* Proofs about the deployment tool (DeployRelease): its durable records   *)
(* are true for any number of candidates, of deaths and of edits.          *)
(***************************************************************************)
EXTENDS DeployRelease, TLAPS

AfterIntent == {"env", "override", "reload", "mark", "activate", "restart", "verify", "collect"}
AfterReload == {"mark", "activate", "restart", "verify", "collect"}
AfterMark   == {"activate", "restart", "verify", "collect"}

RecordTypes ==
    /\ DOMAIN receipt = Commits /\ DOMAIN dir = Releases
    /\ DOMAIN ctxConfig = Commits /\ DOMAIN ctxEnvs = Commits /\ DOMAIN ctxPrevious = Commits
    /\ DOMAIN ctxOverrides = Commits /\ DOMAIN ctxRestart = Commits
    /\ unit \in Releases
    /\ step \in ApplySteps \cup RollbackSteps \cup {"idle"}
    /\ step # "idle" => cand \in Commits /\ op # None

\* An apply of the candidate got past its preflight.
Handled(c) == receipt[c] \in Unfinished \cup {"verified", "rolled_back", "not_activated"}

\* That the release runs needs no further explanation: it is complete, and the tool
\* either has never started to install it, or has started it, or systemd has.
Sound(c) ==
    dir[c] = "complete" /\ (Handled(c) => c \in stray \/ ctxRestart[c])

\* Files of a candidate stand for an entry in the records.
FilesRecorded(c) ==
    /\ override = c \/ c \in envs => Tracked(c)
    /\ override = c => c \in envs /\ dir[c] = "complete"
    /\ ctxRestart[c] => ctxOverrides[c]

\* The context names nothing but the baseline, whose environment file it protects.
ContextTrue(c) ==
    /\ ctxPrevious[c] \in {None, BaselineOf[c]}
    /\ ctxPrevious[c] \in Commits => ctxPrevious[c] \in ctxEnvs[c]

ProcessExplained(c) ==
    /\ loaded = c => dir[c] = "complete"
    /\ running = c => Sound(c)
    /\ unit = c => Sound(c)

BaselineSound(c) ==
    /\ Handled(c) \/ (cand = c /\ step \notin {"idle", "preflight"})
    /\ BaselineOf[c] \in Commits
    => Sound(BaselineOf[c])

\* apply: what has been recorded before its next step.
ApplyInv ==
    /\ step \in {"preflight", "backup"} => receipt[cand] = "preflight"
    /\ step \in {"backup", "copy"} => dir[cand] = "absent"
    /\ step \in ApplySteps \ {"preflight", "backup"} => receipt[cand] \in Unfinished
    /\ step \in AfterIntent \cup {"check", "intent"} => dir[cand] = "complete"
    /\ step \in AfterIntent => ctxOverrides[cand]
    /\ step \in {"override", "reload"} \cup AfterReload => cand \in envs
    /\ step \in {"reload"} \cup AfterReload => override \in {cand, Other}
    /\ step \in AfterReload => loaded \in {cand, Other}
    /\ step \in AfterMark => ctxRestart[cand]
    /\ step = "collect" /\ ~renewed => running = cand

\* The context in memory is never behind the one on disk.
MemoryInv ==
    /\ step \notin {"idle", "preflight"} =>
         (ctxOverrides[cand] => memOverrides) /\ (ctxRestart[cand] => memRestart)
    /\ memRestart => memOverrides

\* rollback: what has been undone before its next step.
RollbackInv ==
    /\ step \in RollbackSteps => Handled(cand) \/ dir[cand] = "absent"
    /\ step \in {"unlink", "reload_back", "restart_back"} \/ (step = "confirm" /\ memRestart) =>
         override \in {ctxPrevious[cand], Other}
    /\ step \in {"reload_back", "restart_back", "confirm"} => override # cand /\ cand \notin envs
    /\ step = "restart_back" \/ (step = "confirm" /\ memRestart) =>
         /\ loaded \in {Selected(ctxPrevious[cand]), Other}
         /\ loaded = Other => override = Other
    /\ step = "confirm" /\ memRestart => running = loaded \/ loaded = Other

DeployInv ==
    /\ RecordTypes
    /\ \A c \in Commits :
          FilesRecorded(c) /\ ContextTrue(c) /\ ProcessExplained(c) /\ BaselineSound(c)
    /\ ApplyInv /\ MemoryInv /\ RollbackInv

-----------------------------------------------------------------------------
(* Every part is kept by every step.  A step of a proof is an action that writes  *)
(* a variable of the part; the actions that write none of them share one.         *)

USE DeployAssumption
  DEF Releases, NoChanges, Unfinished, Settled, ApplySteps, RollbackSteps, AfterIntent,
      AfterReload, AfterMark, hostVars, ctxVars, jobVars, others, Flags, On, Go, Leave, Status,
      Old, Selected, RestartService, Handled, Sound, Tracked,
      RecordTypes, FilesRecorded, ContextTrue, ProcessExplained, BaselineSound,
      ApplyInv, MemoryInv, RollbackInv, DeployInv

\* Rollback restores a baseline that is complete and whose files are protected.
LEMMA RestoreKeepsFiles ==
  ASSUME DeployInv, Restore, NEW c \in Commits PROVE FilesRecorded(c)'
<1>1. CASE ~memOverrides
  BY <1>1 DEF Restore
<1>2. CASE memOverrides /\ ctxPrevious[cand] = c
  <2>1. c = Old /\ c \in envs /\ dir[c] = "complete"
    BY <1>2 DEF Restore, Ready, RollbackAllowed, Preserved, SameFiles
  <2>. QED BY <1>2, <2>1 DEF Restore
<1>3. CASE memOverrides /\ ctxPrevious[cand] # c
  BY <1>3 DEF Restore
<1>. QED BY <1>1, <1>2, <1>3

\* The records have an entry for every candidate, and a job that runs has one.
LEMMA RecordTypesKept ==
  ASSUME DeployInv, [Next]_vars PROVE RecordTypes'
<1>1. ASSUME NEW d \in Commits, ApplyStart(d) \/ RollbackStart(d) \/ Adopt(d) PROVE RecordTypes'
  BY <1>1 DEF ApplyStart, RollbackStart, Adopt
<1>2. CASE \/ EditConfig \/ EditOverride \/ Reload \/ ServiceRestarts \/ Collect
          \/ ToolDies \/ Preflight \/ BackupStarts \/ BackupDone \/ Install
          \/ CandidateChecked \/ SaveIntent \/ WriteEnv \/ WriteOverride \/ DaemonReload
          \/ SaveRestart \/ Activate \/ RestartNew \/ VerifyNew \/ Verified \/ Restore
          \/ UnlinkEnv \/ ReloadBack \/ RestartBack \/ Confirm \/ StepFails
          \/ UNCHANGED vars
  BY <1>2 DEF vars, EditConfig, EditOverride, Reload, ServiceRestarts, Collect, ToolDies,
      Preflight, BackupStarts, BackupDone, Install, CandidateChecked, SaveIntent, WriteEnv,
      WriteOverride, DaemonReload, SaveRestart, Activate, RestartNew, VerifyNew, Verified,
      Restore, UnlinkEnv, ReloadBack, RestartBack, Confirm, StepFails
<1>. QED BY <1>1, <1>2
      DEF Next, JobStep, ApplyStep, RollbackStep, Environment

\* The intent is on disk before the first file, and the files are gone before a
\* receipt says that nothing is left.
LEMMA FilesRecordedKept ==
  ASSUME DeployInv, [Next]_vars, NEW c \in Commits PROVE FilesRecorded(c)'
<1>1. CASE EditOverride
  BY <1>1 DEF EditOverride
<1>2. CASE Preflight
  BY <1>2 DEF Preflight, Ready, PreflightPasses
<1>3. CASE BackupStarts
  BY <1>3 DEF BackupStarts
<1>4. CASE BackupDone
  BY <1>4 DEF BackupDone
<1>5. CASE Install
  BY <1>5 DEF Install
<1>6. CASE SaveIntent
  BY <1>6 DEF SaveIntent
<1>7. CASE WriteEnv
  BY <1>7 DEF WriteEnv
<1>8. CASE WriteOverride
  BY <1>8 DEF WriteOverride
<1>9. CASE SaveRestart
  BY <1>9 DEF SaveRestart
<1>10. CASE Activate
  BY <1>10 DEF Activate
<1>11. CASE VerifyNew
  BY <1>11 DEF VerifyNew
<1>12. CASE Verified
  BY <1>12 DEF Verified
<1>13. CASE Restore
  BY <1>13, RestoreKeepsFiles
<1>14. CASE UnlinkEnv
  BY <1>14 DEF UnlinkEnv
<1>15. CASE Confirm
  BY <1>15 DEF Confirm
<1>16. CASE StepFails
  BY <1>16 DEF StepFails
<1>17. ASSUME NEW d \in Commits, ApplyStart(d) PROVE FilesRecorded(c)'
  BY <1>17 DEF ApplyStart, NothingRecorded
<1>18. ASSUME NEW d \in Commits, Adopt(d) PROVE FilesRecorded(c)'
  BY <1>18 DEF Adopt, NothingRecorded
<1>19. ASSUME NEW d \in Commits, RollbackStart(d) PROVE FilesRecorded(c)'
  BY <1>19 DEF RollbackStart
<1>20. CASE \/ EditConfig \/ Reload \/ ServiceRestarts \/ Collect \/ ToolDies
          \/ CandidateChecked \/ DaemonReload \/ RestartNew \/ ReloadBack \/ RestartBack
          \/ UNCHANGED vars
  BY <1>20 DEF vars, EditConfig, Reload, ServiceRestarts, Collect, ToolDies,
      CandidateChecked, DaemonReload, RestartNew, ReloadBack, RestartBack
<1>. QED BY <1>1, <1>2, <1>3, <1>4, <1>5, <1>6, <1>7, <1>8, <1>9, <1>10, <1>11, <1>12,
      <1>13, <1>14, <1>15, <1>16, <1>17, <1>18, <1>19, <1>20
      DEF Next, JobStep, ApplyStep, RollbackStep, Environment

\* Only a preflight that found the baseline healthy writes a context.
LEMMA ContextTrueKept ==
  ASSUME DeployInv, [Next]_vars, NEW c \in Commits PROVE ContextTrue(c)'
<1>1. CASE Preflight
  BY <1>1 DEF Preflight, Ready, PreflightPasses
<1>2. ASSUME NEW d \in Commits, ApplyStart(d) \/ RollbackStart(d) \/ Adopt(d) PROVE ContextTrue(c)'
  BY <1>2 DEF ApplyStart, RollbackStart, Adopt
<1>3. CASE \/ EditConfig \/ EditOverride \/ Reload \/ ServiceRestarts \/ Collect
          \/ ToolDies \/ BackupStarts \/ BackupDone \/ Install \/ CandidateChecked
          \/ SaveIntent \/ WriteEnv \/ WriteOverride \/ DaemonReload \/ SaveRestart
          \/ Activate \/ RestartNew \/ VerifyNew \/ Verified \/ Restore \/ UnlinkEnv
          \/ ReloadBack \/ RestartBack \/ Confirm \/ StepFails \/ UNCHANGED vars
  BY <1>3 DEF vars, EditConfig, EditOverride, Reload, ServiceRestarts, Collect, ToolDies,
      BackupStarts, BackupDone, Install, CandidateChecked, SaveIntent, WriteEnv,
      WriteOverride, DaemonReload, SaveRestart, Activate, RestartNew, VerifyNew, Verified,
      Restore, UnlinkEnv, ReloadBack, RestartBack, Confirm, StepFails
<1>. QED BY <1>1, <1>2, <1>3
      DEF Next, JobStep, ApplyStep, RollbackStep, Environment

\* A process or a loaded unit never appears without its reason.
LEMMA ProcessExplainedKept ==
  ASSUME DeployInv, [Next]_vars, NEW c \in Commits PROVE ProcessExplained(c)'
<1>1. CASE Reload
  BY <1>1 DEF Reload
<1>2. CASE ServiceRestarts
  BY <1>2 DEF ServiceRestarts
<1>3. CASE Preflight
  BY <1>3 DEF Preflight, Ready, PreflightPasses, Identity
<1>4. CASE BackupStarts
  BY <1>4 DEF BackupStarts
<1>5. CASE BackupDone
  BY <1>5 DEF BackupDone
<1>6. CASE Install
  BY <1>6 DEF Install
<1>7. CASE DaemonReload
  BY <1>7 DEF DaemonReload
<1>8. CASE SaveRestart
  BY <1>8 DEF SaveRestart
<1>9. CASE Activate
  BY <1>9 DEF Activate
<1>10. CASE RestartNew
  BY <1>10 DEF RestartNew
<1>11. CASE VerifyNew
  BY <1>11 DEF VerifyNew
<1>12. CASE Verified
  BY <1>12 DEF Verified
<1>13. CASE ReloadBack
  BY <1>13 DEF ReloadBack
<1>14. CASE RestartBack
  BY <1>14 DEF RestartBack
<1>15. CASE Confirm
  BY <1>15 DEF Confirm
<1>16. CASE StepFails
  BY <1>16 DEF StepFails
<1>17. ASSUME NEW d \in Commits, ApplyStart(d) PROVE ProcessExplained(c)'
  BY <1>17 DEF ApplyStart, NothingRecorded
<1>18. ASSUME NEW d \in Commits, Adopt(d) PROVE ProcessExplained(c)'
  BY <1>18 DEF Adopt, NothingRecorded
<1>19. ASSUME NEW d \in Commits, RollbackStart(d) PROVE ProcessExplained(c)'
  BY <1>19 DEF RollbackStart
<1>20. CASE \/ EditConfig \/ EditOverride \/ Collect \/ ToolDies \/ CandidateChecked
          \/ SaveIntent \/ WriteEnv \/ WriteOverride \/ Restore \/ UnlinkEnv
          \/ UNCHANGED vars
  BY <1>20 DEF vars, EditConfig, EditOverride, Collect, ToolDies, CandidateChecked,
      SaveIntent, WriteEnv, WriteOverride, Restore, UnlinkEnv
<1>. QED BY <1>1, <1>2, <1>3, <1>4, <1>5, <1>6, <1>7, <1>8, <1>9, <1>10, <1>11, <1>12,
      <1>13, <1>14, <1>15, <1>16, <1>17, <1>18, <1>19, <1>20
      DEF Next, JobStep, ApplyStep, RollbackStep, Environment

\* A baseline stays installed and explained as long as somebody builds on it.
LEMMA BaselineSoundKept ==
  ASSUME DeployInv, [Next]_vars, NEW c \in Commits PROVE BaselineSound(c)'
<1>1. CASE ServiceRestarts
  BY <1>1 DEF ServiceRestarts
<1>2. CASE ToolDies
  BY <1>2 DEF ToolDies
<1>3. CASE Preflight
  BY <1>3 DEF Preflight, Ready, PreflightPasses, Identity
<1>4. CASE BackupStarts
  BY <1>4 DEF BackupStarts
<1>5. CASE BackupDone
  BY <1>5 DEF BackupDone
<1>6. CASE Install
  BY <1>6 DEF Install
<1>7. CASE SaveRestart
  BY <1>7 DEF SaveRestart
<1>8. CASE Activate
  BY <1>8 DEF Activate
<1>9. CASE VerifyNew
  BY <1>9 DEF VerifyNew
<1>10. CASE Verified
  BY <1>10 DEF Verified
<1>11. CASE Confirm
  BY <1>11 DEF Confirm
<1>12. CASE StepFails
  BY <1>12 DEF StepFails
<1>13. ASSUME NEW d \in Commits, ApplyStart(d) PROVE BaselineSound(c)'
  BY <1>13 DEF ApplyStart, NothingRecorded
<1>14. ASSUME NEW d \in Commits, RollbackStart(d) PROVE BaselineSound(c)'
  BY <1>14 DEF RollbackStart
<1>15. ASSUME NEW d \in Commits, Adopt(d) PROVE BaselineSound(c)'
  BY <1>15 DEF Adopt, NothingRecorded
<1>16. CASE \/ EditConfig \/ EditOverride \/ Reload \/ Collect \/ CandidateChecked
          \/ SaveIntent \/ WriteEnv \/ WriteOverride \/ DaemonReload \/ RestartNew
          \/ Restore \/ UnlinkEnv \/ ReloadBack \/ RestartBack \/ UNCHANGED vars
  BY <1>16 DEF vars, EditConfig, EditOverride, Reload, Collect, CandidateChecked,
      SaveIntent, WriteEnv, WriteOverride, DaemonReload, RestartNew, Restore, UnlinkEnv,
      ReloadBack, RestartBack
<1>. QED BY <1>1, <1>2, <1>3, <1>4, <1>5, <1>6, <1>7, <1>8, <1>9, <1>10, <1>11, <1>12,
      <1>13, <1>14, <1>15, <1>16
      DEF Next, JobStep, ApplyStep, RollbackStep, Environment

\* Each step of apply leaves what the next ones rely on, whoever else acts.
LEMMA ApplyInvKept ==
  ASSUME DeployInv, [Next]_vars PROVE ApplyInv'
<1>1. CASE EditOverride
  BY <1>1 DEF EditOverride
<1>2. CASE Reload
  BY <1>2 DEF Reload
<1>3. CASE ServiceRestarts
  BY <1>3 DEF ServiceRestarts
<1>4. CASE ToolDies
  BY <1>4 DEF ToolDies
<1>5. CASE Preflight
  BY <1>5 DEF Preflight, Ready, PreflightPasses, Identity
<1>6. CASE BackupStarts
  BY <1>6 DEF BackupStarts
<1>7. CASE BackupDone
  BY <1>7 DEF BackupDone
<1>8. CASE Install
  BY <1>8 DEF Install
<1>9. CASE CandidateChecked
  BY <1>9 DEF CandidateChecked
<1>10. CASE SaveIntent
  BY <1>10 DEF SaveIntent
<1>11. CASE WriteEnv
  BY <1>11 DEF WriteEnv
<1>12. CASE WriteOverride
  BY <1>12 DEF WriteOverride
<1>13. CASE DaemonReload
  BY <1>13 DEF DaemonReload
<1>14. CASE SaveRestart
  BY <1>14 DEF SaveRestart
<1>15. CASE Activate
  BY <1>15 DEF Activate
<1>16. CASE RestartNew
  BY <1>16 DEF RestartNew
<1>17. CASE VerifyNew
  BY <1>17 DEF VerifyNew, Ready, NewProcessProved, Identity
<1>18. CASE Verified
  BY <1>18 DEF Verified
<1>19. CASE Restore
  BY <1>19 DEF Restore
<1>20. CASE UnlinkEnv
  BY <1>20 DEF UnlinkEnv
<1>21. CASE ReloadBack
  BY <1>21 DEF ReloadBack
<1>22. CASE RestartBack
  BY <1>22 DEF RestartBack
<1>23. CASE Confirm
  BY <1>23 DEF Confirm
<1>24. CASE StepFails
  BY <1>24 DEF StepFails
<1>25. ASSUME NEW d \in Commits, ApplyStart(d) PROVE ApplyInv'
  BY <1>25 DEF ApplyStart, NothingRecorded
<1>26. ASSUME NEW d \in Commits, RollbackStart(d) PROVE ApplyInv'
  BY <1>26 DEF RollbackStart
<1>27. ASSUME NEW d \in Commits, Adopt(d) PROVE ApplyInv'
  BY <1>27 DEF Adopt, NothingRecorded
<1>28. CASE \/ EditConfig \/ Collect \/ UNCHANGED vars
  BY <1>28 DEF vars, EditConfig, Collect
<1>. QED BY <1>1, <1>2, <1>3, <1>4, <1>5, <1>6, <1>7, <1>8, <1>9, <1>10, <1>11, <1>12,
      <1>13, <1>14, <1>15, <1>16, <1>17, <1>18, <1>19, <1>20, <1>21, <1>22, <1>23, <1>24,
      <1>25, <1>26, <1>27, <1>28
      DEF Next, JobStep, ApplyStep, RollbackStep, Environment

\* A flag is set in memory no later than on disk.
LEMMA MemoryInvKept ==
  ASSUME DeployInv, [Next]_vars PROVE MemoryInv'
<1>1. CASE ToolDies
  BY <1>1 DEF ToolDies
<1>2. CASE Preflight
  BY <1>2 DEF Preflight
<1>3. CASE SaveIntent
  BY <1>3 DEF SaveIntent
<1>4. CASE SaveRestart
  BY <1>4 DEF SaveRestart
<1>5. CASE Verified
  BY <1>5 DEF Verified
<1>6. CASE Confirm
  BY <1>6 DEF Confirm
<1>7. CASE StepFails
  <2>1. CASE step = "mark"
    <3>1. memOverrides
      BY <1>7, <2>1 DEF StepFails
    <3>2. memOverrides' /\ memRestart'
      BY <1>7, <2>1, <3>1 DEF StepFails
    <3>. QED BY <3>2
  <2>2. CASE step = "intent"
    <3>1. memOverrides' /\ (memRestart' <=> memRestart) /\ ctxRestart' = ctxRestart /\ cand' = cand
      BY <1>7, <2>2 DEF StepFails
    <3>. QED BY <2>2, <3>1
  <2>3. CASE step \in ApplySteps \ {"preflight", "mark", "intent"}
    <3>1. /\ (memOverrides' <=> memOverrides) /\ (memRestart' <=> memRestart)
          /\ ctxRestart' = ctxRestart /\ ctxOverrides' = ctxOverrides /\ cand' = cand
      BY <1>7, <2>3 DEF StepFails
    <3>. QED BY <2>3, <3>1
  <2>4. CASE step \in RollbackSteps \cup {"preflight"}
    BY <1>7, <2>4 DEF StepFails
  <2>. QED BY <1>7, <2>1, <2>2, <2>3, <2>4 DEF StepFails
<1>8. ASSUME NEW d \in Commits, ApplyStart(d) PROVE MemoryInv'
  BY <1>8 DEF ApplyStart, NothingRecorded
<1>9. ASSUME NEW d \in Commits, RollbackStart(d) PROVE MemoryInv'
  BY <1>9 DEF RollbackStart
<1>10. ASSUME NEW d \in Commits, Adopt(d) PROVE MemoryInv'
  BY <1>10 DEF Adopt
<1>11. CASE \/ EditConfig \/ EditOverride \/ Reload \/ ServiceRestarts \/ Collect
          \/ BackupStarts \/ BackupDone \/ Install \/ CandidateChecked \/ WriteEnv
          \/ WriteOverride \/ DaemonReload \/ Activate \/ RestartNew \/ VerifyNew
          \/ Restore \/ UnlinkEnv \/ ReloadBack \/ RestartBack \/ UNCHANGED vars
  BY <1>11 DEF vars, EditConfig, EditOverride, Reload, ServiceRestarts, Collect,
      BackupStarts, BackupDone, Install, CandidateChecked, WriteEnv, WriteOverride,
      DaemonReload, Activate, RestartNew, VerifyNew, Restore, UnlinkEnv, ReloadBack,
      RestartBack
<1>. QED BY <1>1, <1>2, <1>3, <1>4, <1>5, <1>6, <1>7, <1>8, <1>9, <1>10, <1>11
      DEF Next, JobStep, ApplyStep, RollbackStep, Environment

\* Each step of rollback leaves what its last checks rely on.
LEMMA RollbackInvKept ==
  ASSUME DeployInv, [Next]_vars PROVE RollbackInv'
<1>1. CASE EditOverride
  BY <1>1 DEF EditOverride
<1>2. CASE Reload
  BY <1>2 DEF Reload
<1>3. CASE ServiceRestarts
  BY <1>3 DEF ServiceRestarts
<1>4. CASE ToolDies
  BY <1>4 DEF ToolDies
<1>5. CASE Preflight
  BY <1>5 DEF Preflight
<1>6. CASE BackupStarts
  BY <1>6 DEF BackupStarts
<1>7. CASE BackupDone
  BY <1>7 DEF BackupDone
<1>8. CASE Install
  BY <1>8 DEF Install
<1>9. CASE CandidateChecked
  BY <1>9 DEF CandidateChecked
<1>10. CASE SaveIntent
  BY <1>10 DEF SaveIntent
<1>11. CASE WriteEnv
  BY <1>11 DEF WriteEnv
<1>12. CASE WriteOverride
  BY <1>12 DEF WriteOverride
<1>13. CASE DaemonReload
  BY <1>13 DEF DaemonReload
<1>14. CASE SaveRestart
  BY <1>14 DEF SaveRestart
<1>15. CASE Activate
  BY <1>15 DEF Activate
<1>16. CASE RestartNew
  BY <1>16 DEF RestartNew
<1>17. CASE VerifyNew
  BY <1>17 DEF VerifyNew
<1>18. CASE Verified
  BY <1>18 DEF Verified
<1>19. CASE Restore
  BY <1>19 DEF Restore
<1>20. CASE UnlinkEnv
  BY <1>20 DEF UnlinkEnv
<1>21. CASE ReloadBack
  BY <1>21 DEF ReloadBack
<1>22. CASE RestartBack
  BY <1>22 DEF RestartBack
<1>23. CASE Confirm
  BY <1>23 DEF Confirm
<1>24. CASE StepFails
  BY <1>24 DEF StepFails
<1>25. ASSUME NEW d \in Commits, ApplyStart(d) PROVE RollbackInv'
  BY <1>25 DEF ApplyStart, NothingRecorded
<1>26. ASSUME NEW d \in Commits, RollbackStart(d) PROVE RollbackInv'
  BY <1>26 DEF RollbackStart
<1>27. ASSUME NEW d \in Commits, Adopt(d) PROVE RollbackInv'
  BY <1>27 DEF Adopt, NothingRecorded
<1>28. CASE \/ EditConfig \/ Collect \/ UNCHANGED vars
  BY <1>28 DEF vars, EditConfig, Collect
<1>. QED BY <1>1, <1>2, <1>3, <1>4, <1>5, <1>6, <1>7, <1>8, <1>9, <1>10, <1>11, <1>12,
      <1>13, <1>14, <1>15, <1>16, <1>17, <1>18, <1>19, <1>20, <1>21, <1>22, <1>23, <1>24,
      <1>25, <1>26, <1>27, <1>28
      DEF Next, JobStep, ApplyStep, RollbackStep, Environment

-----------------------------------------------------------------------------
HIDE DEF DeployInv

\* The inductive invariant: files, contexts, receipts and processes of the deployment
\* tool stay in step, whatever dies, fails or is edited by others.
THEOREM DeployInvariant == Spec => []DeployInv
<1>1. Init => DeployInv
  BY DEF Init, DeployInv
<1>2. DeployInv /\ [Next]_vars => DeployInv'
  <2>. SUFFICES ASSUME DeployInv, [Next]_vars PROVE DeployInv'
    OBVIOUS
  <2>. USE DEF DeployInv
  <2>. HIDE DEF RecordTypes, FilesRecorded, ContextTrue, ProcessExplained, BaselineSound,
                ApplyInv, MemoryInv, RollbackInv
  <2>1. ASSUME NEW c \in Commits
        PROVE (FilesRecorded(c) /\ ContextTrue(c) /\ ProcessExplained(c) /\ BaselineSound(c))'
    BY FilesRecordedKept, ContextTrueKept, ProcessExplainedKept, BaselineSoundKept
  <2>. QED BY <2>1, RecordTypesKept, ApplyInvKept, MemoryInvKept, RollbackInvKept
<1>. QED BY <1>1, <1>2, PTL DEF Spec

\* While a file of a candidate is in place, its receipt and its recovery context say
\* so: _install_overrides follows the saved intent, rollback's receipt the removal.
THEOREM ChangesAreRecorded == Spec => []ChangesRecorded
<1>1. DeployInv => ChangesRecorded
  BY DEF ChangesRecorded, DeployInv
<1>. QED BY <1>1, DeployInvariant, PTL

\* "verified" is written only about a candidate that runs from the tool's own files,
\* has collected, and has the configuration that preflight saw.
THEOREM VerifiedProved == Spec => VerifiedIsTrue
<1>1. ASSUME DeployInv, [Next]_vars PROVE [\A c \in Commits : VerifiedNow(c)]_vars
  <2>. USE DEF DeployInv
  <2>. SUFFICES ASSUME NEW c \in Commits, Becomes(c, "verified"), Next PROVE VerifiedNow(c)
    BY <1>1 DEF VerifiedNow
  <2>. USE DEF Becomes
  <2>1. CASE Verified
    BY <1>1, <2>1
       DEF VerifiedNow, Verified, Ready, CollectionProved, Preserved, SameConfig, OwnFiles
  <2>2. CASE BackupStarts \/ BackupDone \/ Activate \/ VerifyNew \/ Confirm \/ StepFails
    BY <1>1, <2>2 DEF BackupStarts, BackupDone, Activate, VerifyNew, Confirm, StepFails
  <2>3. ASSUME NEW d \in Commits, ApplyStart(d) \/ Adopt(d) PROVE FALSE
    BY <1>1, <2>3 DEF ApplyStart, Adopt
  <2>. QED
    BY <2>1, <2>2, <2>3 DEF Next, JobStep, ApplyStep, RollbackStep, Environment, Preflight, Install,
       CandidateChecked, SaveIntent, WriteEnv, WriteOverride, DaemonReload, SaveRestart, RestartNew,
       Restore, UnlinkEnv, ReloadBack, RestartBack, EditConfig, EditOverride, Reload,
       ServiceRestarts, Collect, ToolDies, RollbackStart
<1>. QED BY <1>1, DeployInvariant, PTL DEF Spec, VerifiedIsTrue

\* "rolled_back" and "not_activated" are written only when the candidate's files are
\* gone and the baseline runs, or the candidate was never started by the tool.
THEOREM RestoredProved == Spec => RestoredIsTrue
<1>1. ASSUME DeployInv, [Next]_vars PROVE [\A c \in Commits : RestoredNow(c)]_vars
  <2>. USE DEF DeployInv
  <2>. SUFFICES ASSUME NEW c \in Commits, Next,
                       Becomes(c, "rolled_back") \/ Becomes(c, "not_activated")
                PROVE RestoredNow(c)
    BY <1>1 DEF RestoredNow
  <2>. USE DEF Becomes
  <2>1. CASE Confirm
    <3>1. c = cand /\ c \notin envs /\ override # c
      BY <1>1, <2>1 DEF Confirm
    <3>2. CASE memRestart
      BY <1>1, <2>1, <3>1, <3>2 DEF Confirm, Ready, RollbackProved, RestoredNow
    <3>3. CASE ~memRestart
      BY <1>1, <2>1, <3>1, <3>3 DEF Confirm, RestoredNow
    <3>. QED BY <3>2, <3>3
  <2>2. CASE BackupStarts \/ BackupDone \/ Activate \/ VerifyNew \/ Verified \/ StepFails
    BY <1>1, <2>2 DEF BackupStarts, BackupDone, Activate, VerifyNew, Verified, StepFails
  <2>3. ASSUME NEW d \in Commits, ApplyStart(d) \/ Adopt(d) PROVE FALSE
    BY <1>1, <2>3 DEF ApplyStart, Adopt
  <2>. QED
    BY <2>1, <2>2, <2>3 DEF Next, JobStep, ApplyStep, RollbackStep, Environment, Preflight, Install,
       CandidateChecked, SaveIntent, WriteEnv, WriteOverride, DaemonReload, SaveRestart, RestartNew,
       Restore, UnlinkEnv, ReloadBack, RestartBack, EditConfig, EditOverride, Reload,
       ServiceRestarts, Collect, ToolDies, RollbackStart
<1>. QED BY <1>1, DeployInvariant, PTL DEF Spec, RestoredIsTrue

\* The restoring step of _rollback changes the override only if it is the candidate's
\* own and nothing but the candidate or its baseline is loaded.
THEOREM RollbackRespectsOthers == Spec => RollbackOverwritesOnlyItsOwn
<1>1. ASSUME DeployInv, [Next]_vars PROVE [RestoreNow]_vars
  <2>. USE DEF DeployInv
  <2>. SUFFICES ASSUME Next, On("restore"), override' # override, override' # Other
                PROVE override = cand /\ loaded \in {cand, BaselineOf[cand]}
    BY <1>1 DEF RestoreNow
  <2>1. Restore
    BY DEF Next, JobStep, ApplyStep, RollbackStep, Environment, Preflight, BackupStarts, BackupDone,
       Install, CandidateChecked, SaveIntent, WriteEnv, WriteOverride, DaemonReload, SaveRestart,
       Activate, RestartNew, VerifyNew, Verified, UnlinkEnv, ReloadBack, RestartBack, Confirm,
       StepFails, EditConfig, EditOverride, Reload, ServiceRestarts, Collect, ToolDies,
       ApplyStart, RollbackStart, Adopt
  <2>. QED BY <2>1 DEF Restore, Ready, RollbackAllowed
<1>. QED BY <1>1, DeployInvariant, PTL DEF Spec, RollbackOverwritesOnlyItsOwn
=============================================================================
