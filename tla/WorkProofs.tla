----------------------------- MODULE WorkProofs -----------------------------
(***************************************************************************)
(* DataSurvives of Restore, for any number of roots, any entries, any      *)
(* number of crashes and whatever another manager does; then               *)
(* CommandsConfined of Console and AnswersProve of DockerClient.           *)
(*                                                                         *)
(* The inductive invariant reads the data from the journal alone (RootFits)*)
(* so that it holds for a recovery as for the restore that was             *)
(* interrupted; where Ludock is adds what its next write may rely on       *)
(* (RunFits, RollbackFits), and a command that works, perhaps for a        *)
(* process that is gone, is one that the journal allows (CommandFits).     *)
(* A start is sent once because the instance that was stopped cannot run   *)
(* again (ServerFits).                                                     *)
(***************************************************************************)
EXTENDS Restore, Console, DockerClient, TLAPS

\* What the journal says of a root.
RootFits(r) ==
    /\ new[r] \subseteq Backup
    /\ status \in {"none", "staging"} => phase[r] = "staging"
    /\ status \in {"none", "staging", "replacing", "rolling_back"} =>
          /\ phase[r] \in {"staging", "rolled_back"} => root[r] = Original /\ old[r] = {}
          /\ phase[r] \in {"moving_old", "rolling_back"} => root[r] \cup old[r] = Original
          /\ phase[r] \in {"old_moved", "replaced"} => old[r] = Original
    /\ status = "replacing" =>
          /\ phase[r] \in {"staging", "moving_old", "old_moved", "replaced"}
          /\ phase[r] \in {"staging", "moving_old"} => new[r] = Backup
          /\ phase[r] = "old_moved" => root[r] \cup new[r] = Backup
          /\ phase[r] = "replaced" => root[r] = Backup
    /\ status \in {"committed", "cleaned"} => root[r] = Backup
    /\ status = "rolled_back" => root[r] = Original /\ stage[r] = "absent"

\* A root that needs no more.
Clean(r) == root[r] = Original /\ stage[r] = "absent"

\* While roots are replaced, in order: those before and those after this one.
Around == \A r \in Roots : /\ r < at => phase[r] = "replaced"
                           /\ r > at => phase[r] = "staging"

\* What the next steps of runRestore rely on.
RunFits ==
    /\ pc \in {"init", "stop", "stopped", "safety", "staging"} => status = "none" /\ helper = "none"
    /\ pc \in {"helper", "ready", "stage", "staged", "extract", "replacing"} => status = "staging"
    /\ pc = "extract" => \A r \in Roots : r < at => new[r] = Backup
    /\ pc = "extract" /\ cmd.state = "ok" => new[at] = Backup
    /\ pc = "replacing" => \A r \in Roots : new[r] = Backup
    /\ pc \in {"moving_old", "moveOld", "old_moved", "moveNew", "replaced", "committed"} =>
          status = "replacing"
    /\ pc \in {"moving_old", "moveOld", "old_moved", "moveNew", "replaced"} => Around
    /\ pc = "moving_old" => phase[at] = "staging"
    /\ pc \in {"moveOld", "old_moved"} => phase[at] = "moving_old"
    /\ pc = "old_moved" \/ (pc = "moveOld" /\ cmd.state = "ok") => root[at] = {}
    /\ pc \in {"moveNew", "replaced"} => phase[at] = "old_moved"
    /\ pc = "replaced" \/ (pc = "moveNew" /\ cmd.state = "ok") => new[at] = {}
    /\ pc = "committed" => \A r \in Roots : phase[r] = "replaced"
    /\ pc \in {"cleanup", "cleaned"} => status = "committed"
    /\ pc = "start" => DataSafe

\* What the next steps of a rollback, or of a recovery, rely on.
RollbackFits ==
    /\ pc \in {"rbHelper", "rbSave"} => status \in {"staging", "replacing", "rolling_back"}
    /\ pc = "rcHelper" => status \in {"staging", "replacing", "rolling_back", "committed"}
    /\ pc \in {"rbCheck", "rollbackClean", "rbPersist", "rollbackOld", "rbDone", "rbCleanup",
              "rbFinish"} =>
          status = "rolling_back" /\ \A r \in Roots : r > at => Clean(r)
    /\ pc = "rollbackClean" => phase[at] \in {"old_moved", "replaced"}
    /\ pc = "rollbackClean" /\ cmd.state = "ok" => root[at] = {}
    /\ pc = "rbPersist" => \/ phase[at] \in {"moving_old", "rolling_back"}
                           \/ phase[at] \in {"old_moved", "replaced"} /\ root[at] = {}
    /\ pc \in {"rollbackOld", "rbDone"} => phase[at] = "rolling_back"
    /\ pc = "rbDone" \/ (pc = "rollbackOld" /\ cmd.state = "ok") => old[at] = {}
    /\ pc = "rbCleanup" => phase[at] \in {"staging", "rolled_back"}
    /\ pc = "rbCleanup" /\ cmd.state = "ok" => stage[at] = "absent"
    /\ pc = "rbFinish" => \A r \in Roots : Clean(r)

\* What the journal says of a root a command works on.
JournalAllows(op) ==
    /\ op \in {"stage", "extract"} => status = "staging"
    /\ op = "moveOld" => status = "replacing" /\ phase[at] = "moving_old"
    /\ op = "moveNew" => status = "replacing" /\ phase[at] = "old_moved"
    /\ op = "rollbackClean" => status = "rolling_back" /\ phase[at] \in {"old_moved", "replaced"}
    /\ op = "rollbackOld" => status = "rolling_back" /\ phase[at] = "rolling_back"
    /\ op = "cleanup" => \/ status = "committed"
                         \/ status = "rolling_back" /\ phase[at] \in {"staging", "rolled_back"}

\* A command at work is allowed, and Ludock, when it is up, waits for it.
CommandFits ==
    /\ cmd.state = "working" => JournalAllows(cmd.op)
    /\ pc \in DOMAIN OpOf => cmd = NoCmd \/ cmd.op = OpOf[pc]
    /\ pc \notin DOMAIN OpOf \cup {"down", "rcHelpers"} => cmd = NoCmd

\* Where Ludock may be after it sent a start.
AfterStart == {"restored", "finish", "done", "down", "rcHelpers", "rcCheck", "ending",
               "restoreState"}

\* The server, what the row says of it, and the starts.
ServerFits ==
    /\ started >= 1 /\ rec.stoppedAt <= started
    /\ ~rec.settled => rec.stoppedAt = 0
    /\ rec.settled /\ running => started > rec.stoppedAt
    /\ pc \in RecoverSteps \cup {"down"} => mode = "recover"
    /\ pc = "start" => rec.settled /\ rec.startRequested
    /\ sent > 0 => /\ sent = 1 /\ pc \in AfterStart /\ cmd = NoCmd
                   /\ rec.startRequested /\ started > rec.stoppedAt
    /\ starter = "ludock" => sent = 1 /\ DataSafe

IInv == /\ TypeOK /\ (\A r \in Roots : RootFits(r))
        /\ RunFits /\ RollbackFits /\ CommandFits /\ ServerFits

USE RestoreAssumption DEF Roots

\* A step that changes neither the journal nor the data.
LEMMA SameData ==
    ASSUME \A r \in Roots : RootFits(r), UNCHANGED <<status, phase, root, old, new, stage>>
    PROVE  \A r \in Roots : RootFits(r)'
BY DEF RootFits

Recs == [initial : {"unset", "yes", "no"}, initialAt : Nat, settled : BOOLEAN, stoppedAt : Nat,
         startRequested : BOOLEAN, stateRestored : BOOLEAN]

\* What Ludock writes to ops.Recovery leaves it one.
LEMMA RecIs ==
    ASSUME NEW c \in Recs, NEW n \in Nat, NEW i \in {"yes", "no"}
    PROVE  /\ [c EXCEPT !.initial = i, !.initialAt = n] \in Recs
           /\ [c EXCEPT !.settled = TRUE, !.stoppedAt = n] \in Recs
           /\ [c EXCEPT !.settled = TRUE] \in Recs
           /\ [c EXCEPT !.startRequested = TRUE] \in Recs
           /\ [c EXCEPT !.stateRestored = TRUE] \in Recs
<1>1. [c EXCEPT !.initial = i, !.initialAt = n] \in Recs
  BY DEF Recs
<1>2. [c EXCEPT !.settled = TRUE, !.stoppedAt = n] \in Recs
  BY DEF Recs
<1>3. [c EXCEPT !.settled = TRUE] \in Recs
  BY DEF Recs
<1>4. [c EXCEPT !.startRequested = TRUE] \in Recs
  BY DEF Recs
<1>5. [c EXCEPT !.stateRestored = TRUE] \in Recs
  BY DEF Recs
<1> QED
  BY <1>1, <1>2, <1>3, <1>4, <1>5

\* Between two commands no command is known.
LEMMA NothingWorks ==
    ASSUME CommandFits, pc \notin DOMAIN OpOf \cup {"down", "rcHelpers"}
    PROVE  cmd = NoCmd /\ cmd.state = "none"
BY DEF CommandFits, NoCmd

\* The steps that send a command, and the steps after them, are steps.
LEMMA StepNames ==
    /\ DOMAIN OpOf = {"stage", "extract", "moveOld", "moveNew", "rollbackClean", "rollbackOld",
                      "cleanup", "rbCleanup"}
    /\ DOMAIN OpOf \subseteq Steps /\ RunSteps \subseteq Steps /\ RollbackSteps \subseteq Steps
    /\ {"stage", "staged", "extract", "replacing", "cleanup", "cleaned", "moveOld", "old_moved",
        "moveNew", "replaced", "moving_old", "committed", "rbPersist", "rbDone", "rbFinish",
        "rbCheck"} \subseteq Steps
<1>1. DOMAIN OpOf = {"stage", "extract", "moveOld", "moveNew", "rollbackClean", "rollbackOld",
                     "cleanup", "rbCleanup"}
  BY DEF OpOf, Commands
<1> QED
  BY <1>1 DEF Steps, RunSteps, RollbackSteps

-----------------------------------------------------------------------------
(* The steps of Ludock, in the order of the module                         *)

USE DEF Save, GoTo, GoToRoot, unchangedData, savedVars, dataVars, serverVars, boundVars

LEMMA SaveInitialFits ==
    ASSUME IInv, SaveInitial
    PROVE  IInv'
<1>0. /\ TypeOK /\ (\A r \in Roots : RootFits(r))
      /\ RunFits /\ RollbackFits /\ CommandFits /\ ServerFits
  BY DEF IInv
<1>1. TypeOK'
  <2>0. rec \in Recs /\ started \in Nat
    BY <1>0 DEF TypeOK, Recs
  <2>1. PICK i \in {"yes", "no"} :
          rec' = [rec EXCEPT !.initial = i, !.initialAt = started]
    BY DEF SaveInitial
  <2>3. rec' \in Recs
    BY <2>0, <2>1, RecIs, Zenon
  <2>2. pc' \in Steps
    BY <1>0 DEF SaveInitial, Steps, RunSteps
  <2>4. /\ UNCHANGED <<row, status, phase, mode, at, helper, cmd, root, old, new, stage, running,
                       started, starter, sent, crashes, externals>>
    BY DEF SaveInitial
  <2>5. rec' \in [initial : {"unset", "yes", "no"}, initialAt : Nat, settled : BOOLEAN,
                  stoppedAt : Nat, startRequested : BOOLEAN, stateRestored : BOOLEAN]
    BY <2>3 DEF Recs
  <2> QED
    BY <1>0, <2>2, <2>4, <2>5 DEF TypeOK
<1>2. \A r \in Roots : RootFits(r)'
  BY <1>0, SameData DEF SaveInitial
<1>3. RunFits'
  BY <1>0 DEF RunFits, SaveInitial
<1>4. RollbackFits'
  BY <1>0 DEF RollbackFits, SaveInitial
<1>5. CommandFits'
  BY <1>0 DEF CommandFits, JournalAllows, SaveInitial, OpOf, Commands
<1>6. ServerFits'
  BY <1>0 DEF ServerFits, AfterStart, RecoverSteps, SaveInitial
<1> QED
  BY <1>1, <1>2, <1>3, <1>4, <1>5, <1>6 DEF IInv

LEMMA StopServerFits ==
    ASSUME IInv, StopServer
    PROVE  IInv'
<1>0. /\ TypeOK /\ (\A r \in Roots : RootFits(r))
      /\ RunFits /\ RollbackFits /\ CommandFits /\ ServerFits
  BY DEF IInv
<1>1. TypeOK'
  <2>1. running' \in BOOLEAN
    BY <1>0 DEF StopServer
  <2>2. pc' \in Steps
    BY <1>0 DEF StopServer, Steps, RunSteps
  <2> QED
    BY <1>0, <2>1, <2>2 DEF TypeOK, StopServer
<1>2. \A r \in Roots : RootFits(r)'
  BY <1>0, SameData DEF StopServer
<1>3. RunFits'
  BY <1>0 DEF RunFits, StopServer
<1>4. RollbackFits'
  BY <1>0 DEF RollbackFits, StopServer
<1>5. CommandFits'
  BY <1>0 DEF CommandFits, JournalAllows, StopServer, OpOf, Commands
<1>6. ServerFits'
  BY <1>0 DEF ServerFits, AfterStart, RecoverSteps, StopServer
<1> QED
  BY <1>1, <1>2, <1>3, <1>4, <1>5, <1>6 DEF IInv

LEMMA SaveStoppedFits ==
    ASSUME IInv, SaveStopped
    PROVE  IInv'
<1>0. /\ TypeOK /\ (\A r \in Roots : RootFits(r))
      /\ RunFits /\ RollbackFits /\ CommandFits /\ ServerFits
  BY DEF IInv
<1>1. TypeOK'
  <2>0. rec \in Recs /\ started \in Nat
    BY <1>0 DEF TypeOK, Recs
  <2>3. rec' = [rec EXCEPT !.settled = TRUE, !.stoppedAt = started]
    BY DEF SaveStopped
  <2>1. rec' \in Recs
    BY <2>0, <2>3, RecIs, Zenon
  <2>2. pc' \in Steps
    BY <1>0 DEF SaveStopped, Steps, RunSteps
  <2>4. UNCHANGED <<row, status, phase, mode, at, helper, cmd, root, old, new, stage, running,
                    started, starter, sent, crashes, externals>>
    BY DEF SaveStopped
  <2>5. rec' \in [initial : {"unset", "yes", "no"}, initialAt : Nat, settled : BOOLEAN,
                  stoppedAt : Nat, startRequested : BOOLEAN, stateRestored : BOOLEAN]
    BY <2>1 DEF Recs
  <2> QED
    BY <1>0, <2>2, <2>4, <2>5 DEF TypeOK
<1>2. \A r \in Roots : RootFits(r)'
  BY <1>0, SameData DEF SaveStopped
<1>3. RunFits'
  BY <1>0 DEF RunFits, SaveStopped
<1>4. RollbackFits'
  BY <1>0 DEF RollbackFits, SaveStopped
<1>5. CommandFits'
  BY <1>0 DEF CommandFits, JournalAllows, SaveStopped, OpOf, Commands
<1>6. ServerFits'
  BY <1>0 DEF TypeOK, ServerFits, AfterStart, RecoverSteps, SaveStopped
<1> QED
  BY <1>1, <1>2, <1>3, <1>4, <1>5, <1>6 DEF IInv

LEMMA SafetyBackupFits ==
    ASSUME IInv, SafetyBackup
    PROVE  IInv'
<1>0. /\ TypeOK /\ (\A r \in Roots : RootFits(r))
      /\ RunFits /\ RollbackFits /\ CommandFits /\ ServerFits
  BY DEF IInv
<1>1. TypeOK'
  BY <1>0 DEF TypeOK, SafetyBackup, Steps, RunSteps
<1>2. \A r \in Roots : RootFits(r)'
  BY <1>0, SameData DEF SafetyBackup
<1>3. RunFits'
  BY <1>0 DEF RunFits, SafetyBackup
<1>4. RollbackFits'
  BY <1>0 DEF RollbackFits, SafetyBackup
<1>5. CommandFits'
  BY <1>0 DEF CommandFits, JournalAllows, SafetyBackup, OpOf, Commands
<1>6. ServerFits'
  BY <1>0 DEF TypeOK, ServerFits, StillStopped, RecoverSteps, SafetyBackup
<1> QED
  BY <1>1, <1>2, <1>3, <1>4, <1>5, <1>6 DEF IInv

LEMMA SaveStagingFits ==
    ASSUME IInv, SaveStaging
    PROVE  IInv'
<1>0. /\ TypeOK /\ (\A r \in Roots : RootFits(r))
      /\ RunFits /\ RollbackFits /\ CommandFits /\ ServerFits
  BY DEF IInv
<1>1. TypeOK'
  BY <1>0 DEF TypeOK, SaveStaging, Steps, RunSteps, Statuses, Phases
<1>2. ASSUME NEW r \in Roots
      PROVE  RootFits(r)'
  <2>1. RootFits(r)
    BY <1>0
  <2> QED
    BY <1>0, <2>1 DEF RootFits, RunFits, SaveStaging
<1>3. RunFits'
  BY <1>0 DEF RunFits, SaveStaging
<1>4. RollbackFits'
  BY <1>0 DEF RollbackFits, SaveStaging
<1>5. CommandFits'
  BY <1>0 DEF CommandFits, JournalAllows, RunFits, SaveStaging, OpOf, Commands
<1>6. ServerFits'
  BY <1>0 DEF ServerFits, AfterStart, RecoverSteps, SaveStaging
<1> QED
  BY <1>1, <1>2, <1>3, <1>4, <1>5, <1>6 DEF IInv

LEMMA StartHelperFits ==
    ASSUME IInv, StartHelper
    PROVE  IInv'
<1>0. /\ TypeOK /\ (\A r \in Roots : RootFits(r))
      /\ RunFits /\ RollbackFits /\ CommandFits /\ ServerFits
  BY DEF IInv
<1>1. TypeOK'
  BY <1>0 DEF TypeOK, StartHelper, Steps, RunSteps, RollbackSteps, OpOf, Commands
<1>2. \A r \in Roots : RootFits(r)'
  BY <1>0, SameData DEF StartHelper
<1>3. RunFits'
  BY <1>0 DEF RunFits, StartHelper
<1>4. RollbackFits'
  BY <1>0 DEF RollbackFits, StartHelper
<1>5. CommandFits'
  BY <1>0 DEF CommandFits, JournalAllows, StartHelper, OpOf, Commands
<1>6. ServerFits'
  BY <1>0 DEF ServerFits, AfterStart, RecoverSteps, StartHelper
<1> QED
  BY <1>1, <1>2, <1>3, <1>4, <1>5, <1>6 DEF IInv

LEMMA CheckStoppedFits ==
    ASSUME IInv, CheckStopped
    PROVE  IInv'
<1>0. /\ TypeOK /\ (\A r \in Roots : RootFits(r))
      /\ RunFits /\ RollbackFits /\ CommandFits /\ ServerFits
  BY DEF IInv
<1>a. cmd = NoCmd /\ cmd.state = "none"
  BY <1>0, NothingWorks DEF CheckStopped, OpOf, Commands
<1>1. TypeOK'
  BY <1>0 DEF TypeOK, CheckStopped, Steps, OpOf, Commands
<1>2. \A r \in Roots : RootFits(r)'
  BY <1>0, SameData DEF CheckStopped
<1>3. RunFits'
  <2>1. CASE pc = "ready"
    BY <1>0, <2>1 DEF RunFits, CheckStopped
  <2>2. CASE pc = "staged"
    BY <1>0, <1>a, <2>2 DEF RunFits, CheckStopped
  <2> QED
    BY <1>0, <2>1, <2>2 DEF CheckStopped
<1>4. RollbackFits'
  BY <1>0 DEF RollbackFits, CheckStopped
<1>5. CommandFits'
  BY <1>0 DEF CommandFits, JournalAllows, RunFits, CheckStopped, OpOf, Commands
<1>6. ServerFits'
  BY <1>0 DEF TypeOK, ServerFits, StillStopped, RecoverSteps, CheckStopped
<1> QED
  BY <1>1, <1>2, <1>3, <1>4, <1>5, <1>6 DEF IInv

LEMMA SaveReplacingFits ==
    ASSUME IInv, SaveReplacing
    PROVE  IInv'
<1>0. /\ TypeOK /\ (\A r \in Roots : RootFits(r))
      /\ RunFits /\ RollbackFits /\ CommandFits /\ ServerFits
  BY DEF IInv
<1>1. TypeOK'
  BY <1>0 DEF TypeOK, SaveReplacing, Steps, RunSteps, Statuses
<1>2. ASSUME NEW r \in Roots
      PROVE  RootFits(r)'
  <2>1. RootFits(r)
    BY <1>0
  <2> QED
    BY <1>0, <2>1 DEF RootFits, RunFits, SaveReplacing
<1>3. RunFits'
  BY <1>0 DEF RunFits, RootFits, Around, SaveReplacing
<1>4. RollbackFits'
  BY <1>0 DEF RollbackFits, SaveReplacing
<1>5. CommandFits'
  BY <1>0 DEF CommandFits, SaveReplacing, OpOf, Commands, NoCmd
<1>6. ServerFits'
  BY <1>0 DEF ServerFits, AfterStart, RecoverSteps, SaveReplacing
<1> QED
  BY <1>1, <1>2, <1>3, <1>4, <1>5, <1>6 DEF IInv

LEMMA PersistPhaseFits ==
    ASSUME IInv, PersistPhase
    PROVE  IInv'
<1>0. /\ TypeOK /\ (\A r \in Roots : RootFits(r))
      /\ RunFits /\ RollbackFits /\ CommandFits /\ ServerFits
  BY DEF IInv
<1>a. cmd = NoCmd /\ cmd.state = "none"
  BY <1>0, NothingWorks DEF PersistPhase, OpOf, Commands
<1>1. TypeOK'
  <2>1. pc' \in {"moveOld", "moveNew", "committed", "moving_old"}
    BY DEF PersistPhase
  <2>2. pc' \in Steps
    BY <2>1, StepNames
  <2>3. at' \in Roots
    <3>1. at' = at \/ (at # Last /\ at' = at + 1)
      BY DEF PersistPhase
    <3>2. at \in 1..Last
      BY <1>0 DEF TypeOK
    <3> QED
      BY <3>1, <3>2
  <2>4. phase' \in [Roots -> Phases]
    BY <1>0 DEF TypeOK, PersistPhase, Phases
  <2> QED
    BY <1>0, <2>2, <2>3, <2>4 DEF TypeOK, PersistPhase
<1>2. ASSUME NEW r \in Roots
      PROVE  RootFits(r)'
  <2>1. RootFits(r) /\ phase \in [Roots -> Phases] /\ at \in Roots
    BY <1>0 DEF TypeOK
  <2>2. CASE r # at
    BY <2>1, <2>2 DEF RootFits, PersistPhase
  <2>3. CASE r = at /\ pc = "moving_old"
    BY <1>0, <2>1, <2>3 DEF RootFits, RunFits, PersistPhase
  <2>4. CASE r = at /\ pc = "old_moved"
    BY <1>0, <2>1, <2>4 DEF RootFits, RunFits, PersistPhase
  <2>5. CASE r = at /\ pc = "replaced"
    BY <1>0, <2>1, <2>5 DEF RootFits, RunFits, PersistPhase
  <2> QED
    BY <2>2, <2>3, <2>4, <2>5 DEF PersistPhase
<1>3. RunFits'
  <2>1. CASE pc = "moving_old"
    BY <1>0, <1>a, <2>1 DEF TypeOK, RunFits, Around, PersistPhase
  <2>2. CASE pc = "old_moved"
    BY <1>0, <1>a, <2>2 DEF TypeOK, RunFits, Around, PersistPhase
  <2>3. CASE pc = "replaced" /\ at # Last
    BY <1>0, <2>3 DEF TypeOK, RunFits, Around, PersistPhase
  <2>4. CASE pc = "replaced" /\ at = Last
    BY <1>0, <2>4 DEF TypeOK, RunFits, Around, PersistPhase
  <2> QED
    BY <1>0, <2>1, <2>2, <2>3, <2>4 DEF PersistPhase
<1>4. RollbackFits'
  BY <1>0 DEF RollbackFits, PersistPhase
<1>5. CommandFits'
  BY <1>0 DEF CommandFits, PersistPhase, OpOf, Commands, NoCmd
<1>6. ServerFits'
  BY <1>0 DEF ServerFits, DataSafe, AfterStart, RecoverSteps, PersistPhase
<1> QED
  BY <1>1, <1>2, <1>3, <1>4, <1>5, <1>6 DEF IInv

LEMMA SaveCommittedFits ==
    ASSUME IInv, SaveCommitted
    PROVE  IInv'
<1>0. /\ TypeOK /\ (\A r \in Roots : RootFits(r))
      /\ RunFits /\ RollbackFits /\ CommandFits /\ ServerFits
  BY DEF IInv
<1>1. TypeOK'
  BY <1>0 DEF TypeOK, SaveCommitted, Steps, OpOf, Commands, Statuses
<1>2. ASSUME NEW r \in Roots
      PROVE  RootFits(r)'
  <2>1. RootFits(r)
    BY <1>0
  <2> QED
    BY <1>0, <2>1 DEF RootFits, RunFits, SaveCommitted
<1>3. RunFits'
  BY <1>0 DEF RunFits, SaveCommitted
<1>4. RollbackFits'
  BY <1>0 DEF RollbackFits, SaveCommitted
<1>5. CommandFits'
  BY <1>0 DEF TypeOK, CommandFits, JournalAllows, RunFits, SaveCommitted, OpOf, Commands
<1>6. ServerFits'
  BY <1>0 DEF TypeOK, ServerFits, StillStopped, RecoverSteps, SaveCommitted
<1> QED
  BY <1>1, <1>2, <1>3, <1>4, <1>5, <1>6 DEF IInv

LEMMA SaveCleanedFits ==
    ASSUME IInv, SaveCleaned
    PROVE  IInv'
<1>0. /\ TypeOK /\ (\A r \in Roots : RootFits(r))
      /\ RunFits /\ RollbackFits /\ CommandFits /\ ServerFits
  BY DEF IInv
<1>1. TypeOK'
  BY <1>0 DEF TypeOK, SaveCleaned, Steps, EndSteps, Statuses
<1>2. ASSUME NEW r \in Roots
      PROVE  RootFits(r)'
  <2>1. RootFits(r)
    BY <1>0
  <2> QED
    BY <1>0, <2>1 DEF RootFits, RunFits, SaveCleaned
<1>3. RunFits'
  BY <1>0 DEF RunFits, SaveCleaned
<1>4. RollbackFits'
  BY <1>0 DEF RollbackFits, SaveCleaned
<1>5. CommandFits'
  BY <1>0 DEF CommandFits, SaveCleaned, OpOf, Commands, NoCmd
<1>6. ServerFits'
  BY <1>0 DEF ServerFits, AfterStart, RecoverSteps, SaveCleaned
<1> QED
  BY <1>1, <1>2, <1>3, <1>4, <1>5, <1>6 DEF IInv

LEMMA SendCommandFits ==
    ASSUME IInv, SendCommand
    PROVE  IInv'
<1>0. /\ TypeOK /\ (\A r \in Roots : RootFits(r))
      /\ RunFits /\ RollbackFits /\ CommandFits /\ ServerFits
  BY DEF IInv
<1>1. TypeOK'
  BY <1>0 DEF TypeOK, SendCommand, OpOf, Commands
<1>2. \A r \in Roots : RootFits(r)'
  BY <1>0, SameData DEF SendCommand
<1>3. RunFits'
  BY <1>0 DEF RunFits, Around, DataSafe, SendCommand
<1>4. RollbackFits'
  BY <1>0 DEF RollbackFits, Clean, SendCommand
<1>5. CommandFits'
  BY <1>0 DEF CommandFits, JournalAllows, RunFits, RollbackFits, SendCommand, OpOf
<1>6. ServerFits'
  <2>1. sent = 0
    BY <1>0 DEF TypeOK, ServerFits, AfterStart, SendCommand, OpOf, Commands
  <2> QED
    BY <1>0, <2>1 DEF ServerFits, DataSafe, SendCommand
<1> QED
  BY <1>1, <1>2, <1>3, <1>4, <1>5, <1>6 DEF IInv

LEMMA CommandDoneFits ==
    ASSUME IInv, CommandDone
    PROVE  IInv'
<1>0. /\ TypeOK /\ (\A r \in Roots : RootFits(r))
      /\ RunFits /\ RollbackFits /\ CommandFits /\ ServerFits
  BY DEF IInv
<1>1. TypeOK'
  <2>1. pc' \in {"stage", "staged", "extract", "replacing", "cleanup", "cleaned", "old_moved",
                  "replaced", "rbPersist", "rbDone", "rbFinish", "rbCheck"}
    BY DEF CommandDone, OpOf, Commands
  <2>2. pc' \in Steps
    BY <2>1, StepNames
  <2>3. at' \in Roots
    <3>1. \/ at' = at
          \/ at # Last /\ at' = at + 1
          \/ at # 1 /\ at' = at - 1
      BY DEF CommandDone, OpOf, Commands
    <3>2. at \in 1..Last
      BY <1>0 DEF TypeOK
    <3> QED
      BY <3>1, <3>2
  <2> QED
    BY <1>0, <2>2, <2>3 DEF TypeOK, CommandDone, NoCmd
<1>2. \A r \in Roots : RootFits(r)'
  BY <1>0, SameData DEF CommandDone
<1>3. RunFits'
  <2>1. CASE pc = "stage"
    BY <1>0, <2>1 DEF RunFits, CommandDone
  <2>2. CASE pc = "extract"
    BY <1>0, <2>2 DEF TypeOK, RunFits, CommandDone, NoCmd
  <2>3. CASE pc = "cleanup"
    BY <1>0, <2>3 DEF RunFits, CommandDone
  <2>4. CASE pc = "moveOld"
    BY <1>0, <2>4 DEF RunFits, Around, CommandDone
  <2>5. CASE pc = "moveNew"
    BY <1>0, <2>5 DEF RunFits, Around, CommandDone
  <2>6. CASE pc = "rollbackClean"
    BY <1>0, <2>6 DEF RunFits, CommandDone
  <2>7. CASE pc = "rollbackOld"
    BY <1>0, <2>7 DEF RunFits, CommandDone
  <2>8. CASE pc = "rbCleanup"
    BY <1>0, <2>8 DEF RunFits, CommandDone
  <2> QED
    BY <1>0, <2>1, <2>2, <2>3, <2>4, <2>5, <2>6, <2>7, <2>8 DEF CommandDone, OpOf, Commands
<1>4. RollbackFits'
  <2>1. CASE pc = "stage"
    BY <1>0, <2>1 DEF RollbackFits, CommandDone
  <2>2. CASE pc = "extract"
    BY <1>0, <2>2 DEF RollbackFits, CommandDone
  <2>3. CASE pc = "cleanup"
    BY <1>0, <2>3 DEF RollbackFits, CommandDone
  <2>4. CASE pc = "moveOld"
    BY <1>0, <2>4 DEF RollbackFits, CommandDone
  <2>5. CASE pc = "moveNew"
    BY <1>0, <2>5 DEF RollbackFits, CommandDone
  <2>6. CASE pc = "rollbackClean"
    BY <1>0, <2>6 DEF RollbackFits, Clean, CommandDone
  <2>7. CASE pc = "rollbackOld"
    BY <1>0, <2>7 DEF RollbackFits, Clean, CommandDone
  <2>8. CASE pc = "rbCleanup"
    BY <1>0, <2>8 DEF TypeOK, RollbackFits, RootFits, Clean, CommandDone
  <2> QED
    BY <1>0, <2>1, <2>2, <2>3, <2>4, <2>5, <2>6, <2>7, <2>8 DEF CommandDone, OpOf, Commands
<1>5. CommandFits'
  BY <1>0 DEF CommandFits, CommandDone, NoCmd
<1>6. ServerFits'
  BY <1>0 DEF ServerFits, DataSafe, AfterStart, RecoverSteps, CommandDone, OpOf, Commands
<1> QED
  BY <1>1, <1>2, <1>3, <1>4, <1>5, <1>6 DEF IInv

LEMMA FreshHelperFits ==
    ASSUME IInv, FreshHelper
    PROVE  IInv'
<1>0. /\ TypeOK /\ (\A r \in Roots : RootFits(r))
      /\ RunFits /\ RollbackFits /\ CommandFits /\ ServerFits
  BY DEF IInv
<1>1. TypeOK'
  BY <1>0 DEF TypeOK, FreshHelper, Steps, RollbackSteps
<1>2. \A r \in Roots : RootFits(r)'
  BY <1>0, SameData DEF FreshHelper
<1>3. RunFits'
  BY <1>0 DEF RunFits, FreshHelper
<1>4. RollbackFits'
  BY <1>0 DEF RollbackFits, FreshHelper
<1>5. CommandFits'
  BY <1>0 DEF CommandFits, JournalAllows, FreshHelper, OpOf, Commands
<1>6. ServerFits'
  BY <1>0 DEF ServerFits, AfterStart, RecoverSteps, FreshHelper
<1> QED
  BY <1>1, <1>2, <1>3, <1>4, <1>5, <1>6 DEF IInv

LEMMA SaveRollingBackFits ==
    ASSUME IInv, SaveRollingBack
    PROVE  IInv'
<1>0. /\ TypeOK /\ (\A r \in Roots : RootFits(r))
      /\ RunFits /\ RollbackFits /\ CommandFits /\ ServerFits
  BY DEF IInv
<1>1. TypeOK'
  BY <1>0 DEF TypeOK, SaveRollingBack, Steps, RollbackSteps, Statuses
<1>2. ASSUME NEW r \in Roots
      PROVE  RootFits(r)'
  <2>1. RootFits(r)
    BY <1>0
  <2> QED
    BY <1>0, <2>1 DEF RootFits, RollbackFits, SaveRollingBack
<1>3. RunFits'
  BY <1>0 DEF RunFits, SaveRollingBack
<1>4. RollbackFits'
  BY <1>0 DEF RollbackFits, SaveRollingBack
<1>5. CommandFits'
  BY <1>0 DEF CommandFits, SaveRollingBack, OpOf, Commands, NoCmd
<1>6. ServerFits'
  BY <1>0 DEF ServerFits, AfterStart, RecoverSteps, SaveRollingBack
<1> QED
  BY <1>1, <1>2, <1>3, <1>4, <1>5, <1>6 DEF IInv

LEMMA RollbackRootFits ==
    ASSUME IInv, RollbackRoot
    PROVE  IInv'
<1>0. /\ TypeOK /\ (\A r \in Roots : RootFits(r))
      /\ RunFits /\ RollbackFits /\ CommandFits /\ ServerFits
  BY DEF IInv
<1>a. cmd = NoCmd /\ cmd.state = "none"
  BY <1>0, NothingWorks DEF RollbackRoot, OpOf, Commands
<1>b. \/ pc' = "rollbackClean" /\ phase[at] \in {"old_moved", "replaced"}
      \/ pc' = "rbPersist" /\ phase[at] \in {"moving_old", "rolling_back"}
      \/ pc' = "rbCleanup" /\ phase[at] \in {"staging", "rolled_back"}
  BY <1>0 DEF TypeOK, Phases, RollbackRoot
<1>1. TypeOK'
  BY <1>0 DEF TypeOK, RollbackRoot, Steps, RollbackSteps, OpOf, Commands, Phases
<1>2. \A r \in Roots : RootFits(r)'
  BY <1>0, SameData DEF RollbackRoot
<1>3. RunFits'
  BY <1>a, <1>b DEF RunFits
<1>4. RollbackFits'
  BY <1>0, <1>a, <1>b DEF RollbackFits, Clean, RollbackRoot
<1>5. CommandFits'
  BY <1>0 DEF CommandFits, JournalAllows, RollbackRoot, OpOf, Commands
<1>6. ServerFits'
  BY <1>0, <1>b DEF ServerFits, AfterStart, RecoverSteps, RollbackRoot
<1> QED
  BY <1>1, <1>2, <1>3, <1>4, <1>5, <1>6 DEF IInv

LEMMA PersistRollingBackFits ==
    ASSUME IInv, PersistRollingBack
    PROVE  IInv'
<1>0. /\ TypeOK /\ (\A r \in Roots : RootFits(r))
      /\ RunFits /\ RollbackFits /\ CommandFits /\ ServerFits
  BY DEF IInv
<1>a. cmd = NoCmd /\ cmd.state = "none"
  BY <1>0, NothingWorks DEF PersistRollingBack, OpOf, Commands
<1>1. TypeOK'
  BY <1>0 DEF TypeOK, PersistRollingBack, Steps, OpOf, Commands, Phases
<1>2. ASSUME NEW r \in Roots
      PROVE  RootFits(r)'
  <2>1. RootFits(r)
    BY <1>0
  <2> QED
    BY <1>0, <2>1 DEF RootFits, RollbackFits, PersistRollingBack
<1>3. RunFits'
  BY <1>0 DEF RunFits, PersistRollingBack
<1>4. RollbackFits'
  BY <1>0, <1>a DEF TypeOK, RollbackFits, Clean, PersistRollingBack
<1>5. CommandFits'
  BY <1>0 DEF CommandFits, PersistRollingBack, OpOf, Commands, NoCmd
<1>6. ServerFits'
  BY <1>0 DEF ServerFits, AfterStart, RecoverSteps, PersistRollingBack
<1> QED
  BY <1>1, <1>2, <1>3, <1>4, <1>5, <1>6 DEF IInv

LEMMA PersistRolledBackFits ==
    ASSUME IInv, PersistRolledBack
    PROVE  IInv'
<1>0. /\ TypeOK /\ (\A r \in Roots : RootFits(r))
      /\ RunFits /\ RollbackFits /\ CommandFits /\ ServerFits
  BY DEF IInv
<1>a. cmd = NoCmd /\ cmd.state = "none"
  BY <1>0, NothingWorks DEF PersistRolledBack, OpOf, Commands
<1>1. TypeOK'
  BY <1>0 DEF TypeOK, PersistRolledBack, Steps, OpOf, Phases
<1>2. ASSUME NEW r \in Roots
      PROVE  RootFits(r)'
  <2>1. RootFits(r) /\ phase \in [Roots -> Phases] /\ at \in Roots
    BY <1>0 DEF TypeOK
  <2>2. CASE r # at
    BY <2>1, <2>2 DEF RootFits, PersistRolledBack
  <2>3. CASE r = at
    BY <1>0, <2>1, <2>3 DEF RootFits, RollbackFits, PersistRolledBack
  <2> QED
    BY <2>2, <2>3
<1>3. RunFits'
  BY <1>0 DEF RunFits, PersistRolledBack
<1>4. RollbackFits'
  BY <1>0, <1>a DEF TypeOK, RollbackFits, Clean, PersistRolledBack
<1>5. CommandFits'
  BY <1>0 DEF CommandFits, PersistRolledBack, OpOf, Commands, NoCmd
<1>6. ServerFits'
  BY <1>0 DEF ServerFits, AfterStart, RecoverSteps, PersistRolledBack
<1> QED
  BY <1>1, <1>2, <1>3, <1>4, <1>5, <1>6 DEF IInv

LEMMA SaveRolledBackFits ==
    ASSUME IInv, SaveRolledBack
    PROVE  IInv'
<1>0. /\ TypeOK /\ (\A r \in Roots : RootFits(r))
      /\ RunFits /\ RollbackFits /\ CommandFits /\ ServerFits
  BY DEF IInv
<1>1. TypeOK'
  BY <1>0 DEF TypeOK, SaveRolledBack, Steps, EndSteps, Statuses
<1>2. ASSUME NEW r \in Roots
      PROVE  RootFits(r)'
  <2>1. RootFits(r)
    BY <1>0
  <2> QED
    BY <1>0, <2>1 DEF RootFits, RollbackFits, Clean, SaveRolledBack
<1>3. RunFits'
  BY <1>0 DEF RunFits, SaveRolledBack
<1>4. RollbackFits'
  BY <1>0 DEF RollbackFits, SaveRolledBack
<1>5. CommandFits'
  BY <1>0 DEF CommandFits, SaveRolledBack, OpOf, Commands, NoCmd
<1>6. ServerFits'
  BY <1>0 DEF ServerFits, AfterStart, RecoverSteps, SaveRolledBack
<1> QED
  BY <1>1, <1>2, <1>3, <1>4, <1>5, <1>6 DEF IInv

LEMMA RemoveHelpersFits ==
    ASSUME IInv, RemoveHelpers
    PROVE  IInv'
<1>0. /\ TypeOK /\ (\A r \in Roots : RootFits(r))
      /\ RunFits /\ RollbackFits /\ CommandFits /\ ServerFits
  BY DEF IInv
<1>1. TypeOK'
  BY <1>0 DEF TypeOK, RemoveHelpers, Steps, RecoverSteps, EndSteps, NoCmd
<1>2. \A r \in Roots : RootFits(r)'
  BY <1>0, SameData DEF RemoveHelpers
<1>3. RunFits'
  BY <1>0 DEF RunFits, RemoveHelpers
<1>4. RollbackFits'
  BY <1>0 DEF RollbackFits, RemoveHelpers
<1>5. CommandFits'
  BY <1>0 DEF CommandFits, RemoveHelpers, NoCmd
<1>6. ServerFits'
  BY <1>0 DEF ServerFits, DataSafe, AfterStart, RecoverSteps, RemoveHelpers
<1> QED
  BY <1>1, <1>2, <1>3, <1>4, <1>5, <1>6 DEF IInv

LEMMA RecoverCheckFits ==
    ASSUME IInv, RecoverCheck
    PROVE  IInv'
<1>0. /\ TypeOK /\ (\A r \in Roots : RootFits(r))
      /\ RunFits /\ RollbackFits /\ CommandFits /\ ServerFits
  BY DEF IInv
<1>1. TypeOK'
  BY <1>0 DEF TypeOK, RecoverCheck, Steps, RecoverSteps, EndSteps
<1>2. \A r \in Roots : RootFits(r)'
  BY <1>0, SameData DEF RecoverCheck
<1>3. RunFits'
  BY <1>0 DEF RunFits, RecoverCheck
<1>4. RollbackFits'
  BY <1>0 DEF TypeOK, Statuses, RollbackFits, RecoverCheck
<1>5. CommandFits'
  BY <1>0 DEF CommandFits, JournalAllows, RecoverCheck, OpOf, Commands
<1>6. ServerFits'
  BY <1>0 DEF TypeOK, ServerFits, StillStopped, DataSafe, AfterStart, RecoverSteps, RecoverCheck
<1> QED
  BY <1>1, <1>2, <1>3, <1>4, <1>5, <1>6 DEF IInv

LEMMA RemoveHelperFits ==
    ASSUME IInv, RemoveHelper
    PROVE  IInv'
<1>0. /\ TypeOK /\ (\A r \in Roots : RootFits(r))
      /\ RunFits /\ RollbackFits /\ CommandFits /\ ServerFits
  BY DEF IInv
<1>1. TypeOK'
  BY <1>0 DEF TypeOK, RemoveHelper, Steps, EndSteps, NoCmd
<1>2. \A r \in Roots : RootFits(r)'
  BY <1>0, SameData DEF RemoveHelper
<1>3. RunFits'
  BY <1>0 DEF RunFits, RemoveHelper
<1>4. RollbackFits'
  BY <1>0 DEF RollbackFits, RemoveHelper
<1>5. CommandFits'
  BY <1>0 DEF CommandFits, JournalAllows, RemoveHelper, OpOf, Commands
<1>6. ServerFits'
  BY <1>0 DEF ServerFits, DataSafe, AfterStart, RecoverSteps, RemoveHelper
<1> QED
  BY <1>1, <1>2, <1>3, <1>4, <1>5, <1>6 DEF IInv

LEMMA RestoreStateFits ==
    ASSUME IInv, RestoreState
    PROVE  IInv'
<1>0. /\ TypeOK /\ (\A r \in Roots : RootFits(r))
      /\ RunFits /\ RollbackFits /\ CommandFits /\ ServerFits
  BY DEF IInv
<1>1. TypeOK'
  <2>0. rec \in Recs /\ started \in Nat
    BY <1>0 DEF TypeOK, Recs
  <2>3. \/ rec' = rec
        \/ rec' = [rec EXCEPT !.settled = TRUE]
        \/ rec' = [rec EXCEPT !.startRequested = TRUE]
    BY DEF RestoreState
  <2>1. rec' \in Recs
    BY <2>0, <2>3, RecIs, Zenon
  <2>2. pc' \in Steps
    BY <1>0 DEF RestoreState, Steps, EndSteps
  <2>4. UNCHANGED <<row, status, phase, mode, at, helper, cmd, root, old, new, stage, running,
                    started, starter, sent, crashes, externals>>
    BY DEF RestoreState
  <2>5. rec' \in [initial : {"unset", "yes", "no"}, initialAt : Nat, settled : BOOLEAN,
                  stoppedAt : Nat, startRequested : BOOLEAN, stateRestored : BOOLEAN]
    BY <2>1 DEF Recs
  <2> QED
    BY <1>0, <2>2, <2>4, <2>5 DEF TypeOK
<1>2. \A r \in Roots : RootFits(r)'
  BY <1>0, SameData DEF RestoreState
<1>3. RunFits'
  BY <1>0 DEF RunFits, DataSafe, RestoreState, StartNeeded
<1>4. RollbackFits'
  BY <1>0 DEF RollbackFits, RestoreState
<1>5. CommandFits'
  BY <1>0 DEF CommandFits, JournalAllows, RestoreState, OpOf, Commands
<1>6. ServerFits'
  <2>0. rec \in Recs /\ started \in Nat /\ sent \in Nat /\ pc = "restoreState"
    BY <1>0 DEF TypeOK, Recs, RestoreState
  <2>1. CASE pc' = "finish" /\ rec' = rec
    BY <1>0, <2>0, <2>1 DEF ServerFits, DataSafe, AfterStart, RecoverSteps, RestoreState
  <2>2. CASE pc' = "restoreState" /\ ~running /\ rec' = [rec EXCEPT !.settled = TRUE]
    BY <1>0, <2>0, <2>2 DEF ServerFits, DataSafe, RestoreState
  <2>3. CASE pc' = "restored" /\ rec' = [rec EXCEPT !.settled = TRUE]
    BY <1>0, <2>0, <2>3 DEF ServerFits, DataSafe, AfterStart, RecoverSteps, RestoreState
  <2>4. CASE /\ pc' = "start" /\ rec.settled /\ ~running
             /\ ~(rec.startRequested /\ started # rec.stoppedAt)
             /\ rec' = [rec EXCEPT !.startRequested = TRUE]
    BY <1>0, <2>0, <2>4 DEF ServerFits, RecoverSteps, RestoreState
  <2> QED
    BY <2>1, <2>2, <2>3, <2>4 DEF RestoreState
<1> QED
  BY <1>1, <1>2, <1>3, <1>4, <1>5, <1>6 DEF IInv

LEMMA StartServerFits ==
    ASSUME IInv, StartServer
    PROVE  IInv'
<1>0. /\ TypeOK /\ (\A r \in Roots : RootFits(r))
      /\ RunFits /\ RollbackFits /\ CommandFits /\ ServerFits
  BY DEF IInv
<1>1. TypeOK'
  <2>1. running' \in BOOLEAN
    BY <1>0 DEF StartServer
  <2>2. pc' \in Steps
    BY <1>0 DEF StartServer, Steps, EndSteps
  <2> QED
    BY <1>0, <2>1, <2>2 DEF TypeOK, StartServer
<1>2. \A r \in Roots : RootFits(r)'
  BY <1>0, SameData DEF StartServer
<1>3. RunFits'
  BY <1>0 DEF RunFits, StartServer
<1>4. RollbackFits'
  BY <1>0 DEF RollbackFits, StartServer
<1>5. CommandFits'
  BY <1>0 DEF CommandFits, JournalAllows, StartServer, OpOf, Commands
<1>6. ServerFits'
  <2>0. rec \in Recs /\ started \in Nat /\ sent \in Nat /\ pc = "start" /\ DataSafe
    BY <1>0 DEF TypeOK, Recs, RunFits, StartServer
  <2>1. sent = 0 /\ sent' = 1 /\ pc' \in {"restored", "finish"}
    BY <1>0, <2>0 DEF ServerFits, AfterStart, StartServer
  <2>4. cmd' = NoCmd
    BY <1>0, <2>0, NothingWorks DEF StartServer, OpOf, Commands
  <2>2. CASE running
    BY <1>0, <2>0, <2>1, <2>2, <2>4 DEF ServerFits, AfterStart, RecoverSteps, StartServer
  <2>3. CASE ~running
    BY <1>0, <2>0, <2>1, <2>3, <2>4 DEF ServerFits, DataSafe, AfterStart, RecoverSteps,
       StartServer, Recs
  <2> QED
    BY <2>2, <2>3
<1> QED
  BY <1>1, <1>2, <1>3, <1>4, <1>5, <1>6 DEF IInv

LEMMA SaveRestoredFits ==
    ASSUME IInv, SaveRestored
    PROVE  IInv'
<1>0. /\ TypeOK /\ (\A r \in Roots : RootFits(r))
      /\ RunFits /\ RollbackFits /\ CommandFits /\ ServerFits
  BY DEF IInv
<1>1. TypeOK'
  <2>0. rec \in Recs /\ started \in Nat
    BY <1>0 DEF TypeOK, Recs
  <2>3. rec' = [rec EXCEPT !.stateRestored = TRUE]
    BY DEF SaveRestored
  <2>1. rec' \in Recs
    BY <2>0, <2>3, RecIs, Zenon
  <2>2. pc' \in Steps
    BY <1>0 DEF SaveRestored, Steps, EndSteps
  <2>4. UNCHANGED <<row, status, phase, mode, at, helper, cmd, root, old, new, stage, running,
                    started, starter, sent, crashes, externals>>
    BY DEF SaveRestored
  <2>5. rec' \in [initial : {"unset", "yes", "no"}, initialAt : Nat, settled : BOOLEAN,
                  stoppedAt : Nat, startRequested : BOOLEAN, stateRestored : BOOLEAN]
    BY <2>1 DEF Recs
  <2> QED
    BY <1>0, <2>2, <2>4, <2>5 DEF TypeOK
<1>2. \A r \in Roots : RootFits(r)'
  BY <1>0, SameData DEF SaveRestored
<1>3. RunFits'
  BY <1>0 DEF RunFits, SaveRestored
<1>4. RollbackFits'
  BY <1>0 DEF RollbackFits, SaveRestored
<1>5. CommandFits'
  BY <1>0 DEF CommandFits, JournalAllows, SaveRestored, OpOf, Commands
<1>6. ServerFits'
  BY <1>0 DEF ServerFits, DataSafe, AfterStart, RecoverSteps, SaveRestored
<1> QED
  BY <1>1, <1>2, <1>3, <1>4, <1>5, <1>6 DEF IInv

LEMMA FinishFits ==
    ASSUME IInv, Finish
    PROVE  IInv'
<1>0. /\ TypeOK /\ (\A r \in Roots : RootFits(r))
      /\ RunFits /\ RollbackFits /\ CommandFits /\ ServerFits
  BY DEF IInv
<1>1. TypeOK'
  BY <1>0 DEF TypeOK, Finish, Steps
<1>2. \A r \in Roots : RootFits(r)'
  BY <1>0, SameData DEF Finish
<1>3. RunFits'
  BY <1>0 DEF RunFits, Finish
<1>4. RollbackFits'
  BY <1>0 DEF RollbackFits, Finish
<1>5. CommandFits'
  BY <1>0 DEF CommandFits, JournalAllows, Finish, OpOf, Commands
<1>6. ServerFits'
  BY <1>0 DEF ServerFits, DataSafe, AfterStart, RecoverSteps, Finish
<1> QED
  BY <1>1, <1>2, <1>3, <1>4, <1>5, <1>6 DEF IInv

LEMMA StepFailsFits ==
    ASSUME IInv, StepFails
    PROVE  IInv'
<1>0. /\ TypeOK /\ (\A r \in Roots : RootFits(r))
      /\ RunFits /\ RollbackFits /\ CommandFits /\ ServerFits
  BY DEF IInv
<1>a. \/ pc' = "ending"
      \/ /\ pc' = "rbHelper" /\ mode = "run" /\ helper # "none"
         /\ status \notin {"committed", "cleaned"}
         /\ pc \notin RollbackSteps \cup {"rollbackClean", "rollbackOld", "rbCleanup"}
  BY DEF StepFails, OnError
<1>1. TypeOK'
  <2>1. running' \in BOOLEAN
    BY <1>0 DEF TypeOK, StepFails
  <2>2. pc' \in Steps
    BY <1>0 DEF StepFails, OnError, Steps, RollbackSteps, EndSteps
  <2> QED
    BY <1>0, <2>1, <2>2 DEF TypeOK, StepFails, NoCmd
<1>2. \A r \in Roots : RootFits(r)'
  BY <1>0, SameData DEF StepFails
<1>3. RunFits'
  BY <1>0 DEF RunFits, StepFails, OnError
<1>4. RollbackFits'
  <2>1. CASE pc' = "ending"
    BY <2>1 DEF RollbackFits
  <2>2. CASE pc' = "rbHelper"
    <3>1. pc \notin RecoverSteps
      BY <1>0, <1>a, <2>2 DEF ServerFits
    <3>2. status \in {"staging", "replacing", "rolling_back"}
      BY <1>0, <1>a, <2>2, <3>1 DEF RunFits, StepFails, RunSteps, RollbackSteps, RecoverSteps,
                                    OpOf, Commands
    <3> QED
      BY <2>2, <3>2 DEF RollbackFits, StepFails
  <2> QED
    BY <1>a, <2>1, <2>2
<1>5. CommandFits'
  BY <1>0 DEF CommandFits, StepFails, NoCmd
<1>6. ServerFits'
  <2>0. rec \in Recs /\ started \in Nat /\ sent \in Nat
    BY <1>0 DEF TypeOK, Recs
  <2>1. sent > 0 => pc = "rcCheck"
    BY <1>0 DEF ServerFits, AfterStart, StepFails, RunSteps, RollbackSteps, OpOf, Commands
  <2>2. sent > 0 => pc' = "ending"
    BY <1>0, <1>a, <2>1 DEF ServerFits, RecoverSteps
  <2>3. running' => running
    BY DEF StepFails
  <2> QED
    BY <1>0, <1>a, <2>0, <2>2, <2>3 DEF ServerFits, DataSafe, AfterStart, RecoverSteps,
       StepFails
<1> QED
  BY <1>1, <1>2, <1>3, <1>4, <1>5, <1>6 DEF IInv

LEMMA RestoreStateFailsFits ==
    ASSUME IInv, RestoreStateFails
    PROVE  IInv'
<1>0. /\ TypeOK /\ (\A r \in Roots : RootFits(r))
      /\ RunFits /\ RollbackFits /\ CommandFits /\ ServerFits
  BY DEF IInv
<1>1. TypeOK'
  BY <1>0 DEF TypeOK, RestoreStateFails, Steps, EndSteps
<1>2. \A r \in Roots : RootFits(r)'
  BY <1>0, SameData DEF RestoreStateFails
<1>3. RunFits'
  BY <1>0 DEF RunFits, RestoreStateFails
<1>4. RollbackFits'
  BY <1>0 DEF RollbackFits, RestoreStateFails
<1>5. CommandFits'
  BY <1>0 DEF CommandFits, JournalAllows, RestoreStateFails, OpOf, Commands
<1>6. ServerFits'
  BY <1>0 DEF ServerFits, DataSafe, AfterStart, RecoverSteps, RestoreStateFails
<1> QED
  BY <1>1, <1>2, <1>3, <1>4, <1>5, <1>6 DEF IInv

LEMMA RestartFits ==
    ASSUME IInv, Restart
    PROVE  IInv'
<1>0. /\ TypeOK /\ (\A r \in Roots : RootFits(r))
      /\ RunFits /\ RollbackFits /\ CommandFits /\ ServerFits
  BY DEF IInv
<1>1. TypeOK'
  BY <1>0 DEF TypeOK, Restart, Steps, RecoverSteps
<1>2. \A r \in Roots : RootFits(r)'
  BY <1>0, SameData DEF Restart
<1>3. RunFits'
  BY <1>0 DEF RunFits, Restart
<1>4. RollbackFits'
  BY <1>0 DEF RollbackFits, Restart
<1>5. CommandFits'
  BY <1>0 DEF CommandFits, JournalAllows, Restart, OpOf, Commands
<1>6. ServerFits'
  BY <1>0 DEF ServerFits, DataSafe, AfterStart, Restart
<1> QED
  BY <1>1, <1>2, <1>3, <1>4, <1>5, <1>6 DEF IInv

LEMMA CrashFits ==
    ASSUME IInv, Crash
    PROVE  IInv'
<1>0. /\ TypeOK /\ (\A r \in Roots : RootFits(r))
      /\ RunFits /\ RollbackFits /\ CommandFits /\ ServerFits
  BY DEF IInv
<1>1. TypeOK'
  <2>1. running' \in BOOLEAN
    BY <1>0 DEF TypeOK, Crash
  <2>2. pc' \in Steps
    BY <1>0 DEF Crash, Steps
  <2> QED
    BY <1>0, <2>1, <2>2 DEF TypeOK, Crash
<1>2. \A r \in Roots : RootFits(r)'
  BY <1>0, SameData DEF Crash
<1>3. RunFits'
  BY <1>0 DEF RunFits, Crash
<1>4. RollbackFits'
  BY <1>0 DEF RollbackFits, Crash
<1>5. CommandFits'
  BY <1>0 DEF CommandFits, JournalAllows, Crash, OpOf, Commands
<1>6. ServerFits'
  BY <1>0 DEF ServerFits, DataSafe, AfterStart, Crash
<1> QED
  BY <1>1, <1>2, <1>3, <1>4, <1>5, <1>6 DEF IInv

LEMMA ExternalChangeFits ==
    ASSUME IInv, ExternalChange
    PROVE  IInv'
<1>0. /\ TypeOK /\ (\A r \in Roots : RootFits(r))
      /\ RunFits /\ RollbackFits /\ CommandFits /\ ServerFits
  BY DEF IInv
<1>1. TypeOK'
  <2>1. running' \in BOOLEAN
    BY <1>0 DEF ExternalChange
  <2>2. pc' \in Steps
    BY <1>0 DEF TypeOK, ExternalChange
  <2> QED
    BY <1>0, <2>1, <2>2 DEF TypeOK, ExternalChange
<1>2. \A r \in Roots : RootFits(r)'
  BY <1>0, SameData DEF ExternalChange
<1>3. RunFits'
  BY <1>0 DEF RunFits, Around, DataSafe, ExternalChange
<1>4. RollbackFits'
  BY <1>0 DEF RollbackFits, Clean, ExternalChange
<1>5. CommandFits'
  BY <1>0 DEF CommandFits, JournalAllows, ExternalChange
<1>6. ServerFits'
  BY <1>0 DEF TypeOK, ServerFits, DataSafe, ExternalChange
<1> QED
  BY <1>1, <1>2, <1>3, <1>4, <1>5, <1>6 DEF IInv
-----------------------------------------------------------------------------
(* The steps of the helper                                                 *)

\* A command that works is one the journal allows; while Ludock is up it is
\* the one Ludock waits for.
LEMMA HelperRest ==
    ASSUME IInv, HelperStep
    PROVE  /\ UNCHANGED <<row, status, phase, rec, pc, mode, at, helper, running, started, starter,
                         sent, crashes, externals>>
           /\ cmd' \in [op : Commands \cup {"none"}, state : {"none", "working", "ok", "failed"}]
           /\ cmd.state = "working" /\ JournalAllows(cmd.op) /\ at \in Roots
           /\ pc \in {"down", "rcHelpers"} \/ (pc \in DOMAIN OpOf /\ OpOf[pc] = cmd.op)
           /\ sent = 0 /\ CommandFits' /\ ServerFits'
<1>0. TypeOK /\ CommandFits /\ ServerFits
  BY DEF IInv
<1>1. UNCHANGED <<row, status, phase, rec, pc, mode, at, helper, running, started, starter,
                  sent, crashes, externals>>
  BY DEF HelperStep
<1>2. cmd.state = "working"
  BY DEF HelperStep, Stage, Extract, MoveOld, MoveNew, RollbackClean, RollbackOld, Cleanup,
         CommandFails, Working
<1>3. \/ cmd' = cmd
      \/ cmd' = [cmd EXCEPT !.state = "ok"]
      \/ cmd' = [cmd EXCEPT !.state = "failed"]
  BY DEF HelperStep, Stage, Extract, MoveOld, MoveNew, RollbackClean, RollbackOld, Cleanup,
         CommandFails, Finished, Move
<1>4. cmd \in [op : Commands \cup {"none"}, state : {"none", "working", "ok", "failed"}]
  BY <1>0 DEF TypeOK
<1>5. cmd' \in [op : Commands \cup {"none"}, state : {"none", "working", "ok", "failed"}]
  BY <1>3, <1>4
<1>6. cmd'.op = cmd.op /\ (cmd'.state = "working" => cmd' = cmd)
  BY <1>3, <1>4
<1>7. JournalAllows(cmd.op) /\ cmd # NoCmd
  BY <1>0, <1>2 DEF CommandFits, NoCmd
<1>8. pc \in {"down", "rcHelpers"} \/ (pc \in DOMAIN OpOf /\ OpOf[pc] = cmd.op)
  BY <1>0, <1>7 DEF CommandFits
<1>9. CommandFits'
  <2>1. cmd'.state = "working" => JournalAllows(cmd.op)'
    <3>1. status' = status /\ phase' = phase /\ at' = at /\ cmd'.op = cmd.op
      BY <1>1, <1>6
    <3>2. JournalAllows(cmd.op)
      BY <1>7
    <3> QED
      BY <3>1, <3>2 DEF JournalAllows
  <2>2. pc' = pc /\ cmd'.op = cmd.op
    BY <1>1, <1>6
  <2>3. (pc \in DOMAIN OpOf => cmd = NoCmd \/ cmd.op = OpOf[pc])'
    BY <1>8, <2>2, StepNames
  <2>4. (pc \notin DOMAIN OpOf \cup {"down", "rcHelpers"} => cmd = NoCmd)'
    BY <1>8, <2>2
  <2> QED
    BY <2>1, <2>3, <2>4 DEF CommandFits
<1>12. sent = 0
  BY <1>0, <1>7 DEF TypeOK, ServerFits
<1>10. ServerFits'
  BY <1>0, <1>1, <1>12 DEF ServerFits, DataSafe
<1>11. at \in Roots
  BY <1>0 DEF TypeOK
<1> QED
  BY <1>1, <1>2, <1>5, <1>7, <1>8, <1>9, <1>10, <1>11, <1>12

LEMMA StageFits ==
    ASSUME IInv, HelperStep, Stage
    PROVE  IInv'
<1>0. TypeOK /\ (\A r \in Roots : RootFits(r)) /\ RunFits /\ RollbackFits
  BY DEF IInv
<1>a. /\ UNCHANGED <<row, status, phase, rec, pc, mode, at, helper, running, started, starter,
                     sent, crashes, externals>>
      /\ cmd' \in [op : Commands \cup {"none"}, state : {"none", "working", "ok", "failed"}]
      /\ cmd.state = "working" /\ JournalAllows(cmd.op) /\ at \in Roots
      /\ pc \in {"down", "rcHelpers"} \/ (pc \in DOMAIN OpOf /\ OpOf[pc] = cmd.op)
      /\ CommandFits' /\ ServerFits'
  BY HelperRest
<1>b. cmd.op = "stage" /\ pc \in {"down", "rcHelpers", "stage"}
  BY <1>a DEF Stage, Working, OpOf
<1>c. /\ stage' \in [Roots -> {"absent", "partial", "ready"}]
      /\ UNCHANGED <<root, old, new>>
  BY <1>0, <1>a DEF TypeOK, Stage
<1>d. \A r \in Roots :
          r # at => /\ root'[r] = root[r] /\ old'[r] = old[r]
                    /\ new'[r] = new[r] /\ stage'[r] = stage[r]
  BY <1>0, <1>a DEF TypeOK, Stage
<1>1. TypeOK'
  BY <1>0, <1>a, <1>c DEF TypeOK
<1>2. ASSUME NEW r \in Roots
      PROVE  RootFits(r)'
  <2>1. RootFits(r)
    BY <1>0
  <2>2. CASE r # at
    BY <1>a, <1>d, <2>1, <2>2 DEF RootFits
  <2>3. CASE r = at
    BY <1>0, <1>a, <1>b, <2>1, <2>3 DEF RootFits, JournalAllows, Stage
  <2> QED
    BY <2>2, <2>3
<1>3. RunFits'
  BY <1>0, <1>a, <1>b, <1>d DEF RunFits
<1>4. RollbackFits'
  BY <1>0, <1>a, <1>b, <1>d DEF RollbackFits
<1> QED
  BY <1>1, <1>2, <1>3, <1>4, <1>a DEF IInv

LEMMA ExtractFits ==
    ASSUME IInv, HelperStep, Extract
    PROVE  IInv'
<1>0. TypeOK /\ (\A r \in Roots : RootFits(r)) /\ RunFits /\ RollbackFits
  BY DEF IInv
<1>a. /\ UNCHANGED <<row, status, phase, rec, pc, mode, at, helper, running, started, starter,
                     sent, crashes, externals>>
      /\ cmd' \in [op : Commands \cup {"none"}, state : {"none", "working", "ok", "failed"}]
      /\ cmd.state = "working" /\ JournalAllows(cmd.op) /\ at \in Roots
      /\ pc \in {"down", "rcHelpers"} \/ (pc \in DOMAIN OpOf /\ OpOf[pc] = cmd.op)
      /\ CommandFits' /\ ServerFits'
  BY HelperRest
<1>b. cmd.op = "extract" /\ pc \in {"down", "rcHelpers", "extract"}
  BY <1>a DEF Extract, Working, OpOf
<1>c. /\ new' \in [Roots -> SUBSET Files]
      /\ UNCHANGED <<root, old, stage>>
  BY <1>0, <1>a DEF TypeOK, Extract, Files, Backup
<1>d. \A r \in Roots :
          r # at => /\ root'[r] = root[r] /\ old'[r] = old[r]
                    /\ new'[r] = new[r] /\ stage'[r] = stage[r]
  BY <1>0, <1>a DEF TypeOK, Extract
<1>1. TypeOK'
  BY <1>0, <1>a, <1>c DEF TypeOK
<1>2. ASSUME NEW r \in Roots
      PROVE  RootFits(r)'
  <2>1. RootFits(r)
    BY <1>0
  <2>2. CASE r # at
    BY <1>a, <1>d, <2>1, <2>2 DEF RootFits
  <2>3. CASE r = at
    BY <1>0, <1>a, <1>b, <2>1, <2>3 DEF TypeOK, RootFits, Extract
  <2> QED
    BY <2>2, <2>3
<1>3. RunFits'
  BY <1>0, <1>a, <1>b, <1>d DEF RunFits, Extract
<1>4. RollbackFits'
  BY <1>0, <1>a, <1>b, <1>d DEF RollbackFits
<1> QED
  BY <1>1, <1>2, <1>3, <1>4, <1>a DEF IInv

LEMMA MoveOldFits ==
    ASSUME IInv, HelperStep, MoveOld
    PROVE  IInv'
<1>0. TypeOK /\ (\A r \in Roots : RootFits(r)) /\ RunFits /\ RollbackFits
  BY DEF IInv
<1>a. /\ UNCHANGED <<row, status, phase, rec, pc, mode, at, helper, running, started, starter,
                     sent, crashes, externals>>
      /\ cmd' \in [op : Commands \cup {"none"}, state : {"none", "working", "ok", "failed"}]
      /\ cmd.state = "working" /\ JournalAllows(cmd.op) /\ at \in Roots
      /\ pc \in {"down", "rcHelpers"} \/ (pc \in DOMAIN OpOf /\ OpOf[pc] = cmd.op)
      /\ CommandFits' /\ ServerFits'
  BY HelperRest
<1>b. cmd.op = "moveOld" /\ pc \in {"down", "rcHelpers", "moveOld"}
  BY <1>a DEF MoveOld, Working, OpOf
<1>c. /\ root' \in [Roots -> SUBSET Files] /\ old' \in [Roots -> SUBSET Files]
      /\ UNCHANGED <<new, stage>>
  BY <1>0, <1>a DEF TypeOK, MoveOld, Move
<1>d. \A r \in Roots :
          r # at => /\ root'[r] = root[r] /\ old'[r] = old[r]
                    /\ new'[r] = new[r] /\ stage'[r] = stage[r]
  BY <1>0, <1>a DEF TypeOK, MoveOld, Move
<1>1. TypeOK'
  BY <1>0, <1>a, <1>c DEF TypeOK
<1>2. ASSUME NEW r \in Roots
      PROVE  RootFits(r)'
  <2>1. RootFits(r)
    BY <1>0
  <2>2. CASE r # at
    BY <1>a, <1>d, <2>1, <2>2 DEF RootFits
  <2>3. CASE r = at
    BY <1>0, <1>a, <1>b, <2>1, <2>3 DEF TypeOK, RootFits, JournalAllows, MoveOld, Move
  <2> QED
    BY <2>2, <2>3
<1>3. RunFits'
  BY <1>0, <1>a, <1>b, <1>d DEF RunFits, Around, MoveOld, Move
<1>4. RollbackFits'
  BY <1>0, <1>a, <1>b, <1>d DEF RollbackFits
<1> QED
  BY <1>1, <1>2, <1>3, <1>4, <1>a DEF IInv

LEMMA MoveNewFits ==
    ASSUME IInv, HelperStep, MoveNew
    PROVE  IInv'
<1>0. TypeOK /\ (\A r \in Roots : RootFits(r)) /\ RunFits /\ RollbackFits
  BY DEF IInv
<1>a. /\ UNCHANGED <<row, status, phase, rec, pc, mode, at, helper, running, started, starter,
                     sent, crashes, externals>>
      /\ cmd' \in [op : Commands \cup {"none"}, state : {"none", "working", "ok", "failed"}]
      /\ cmd.state = "working" /\ JournalAllows(cmd.op) /\ at \in Roots
      /\ pc \in {"down", "rcHelpers"} \/ (pc \in DOMAIN OpOf /\ OpOf[pc] = cmd.op)
      /\ CommandFits' /\ ServerFits'
  BY HelperRest
<1>b. cmd.op = "moveNew" /\ pc \in {"down", "rcHelpers", "moveNew"}
  BY <1>a DEF MoveNew, Working, OpOf
<1>c. /\ root' \in [Roots -> SUBSET Files] /\ new' \in [Roots -> SUBSET Files]
      /\ UNCHANGED <<old, stage>>
  BY <1>0, <1>a DEF TypeOK, MoveNew, Move
<1>d. \A r \in Roots :
          r # at => /\ root'[r] = root[r] /\ old'[r] = old[r]
                    /\ new'[r] = new[r] /\ stage'[r] = stage[r]
  BY <1>0, <1>a DEF TypeOK, MoveNew, Move
<1>1. TypeOK'
  BY <1>0, <1>a, <1>c DEF TypeOK
<1>2. ASSUME NEW r \in Roots
      PROVE  RootFits(r)'
  <2>1. RootFits(r)
    BY <1>0
  <2>2. CASE r # at
    BY <1>a, <1>d, <2>1, <2>2 DEF RootFits
  <2>3. CASE r = at
    BY <1>0, <1>a, <1>b, <2>1, <2>3 DEF TypeOK, RootFits, JournalAllows, MoveNew, Move
  <2> QED
    BY <2>2, <2>3
<1>3. RunFits'
  BY <1>0, <1>a, <1>b, <1>d DEF RunFits, Around, MoveNew, Move
<1>4. RollbackFits'
  BY <1>0, <1>a, <1>b, <1>d DEF RollbackFits
<1> QED
  BY <1>1, <1>2, <1>3, <1>4, <1>a DEF IInv

LEMMA RollbackCleanFits ==
    ASSUME IInv, HelperStep, RollbackClean
    PROVE  IInv'
<1>0. TypeOK /\ (\A r \in Roots : RootFits(r)) /\ RunFits /\ RollbackFits
  BY DEF IInv
<1>a. /\ UNCHANGED <<row, status, phase, rec, pc, mode, at, helper, running, started, starter,
                     sent, crashes, externals>>
      /\ cmd' \in [op : Commands \cup {"none"}, state : {"none", "working", "ok", "failed"}]
      /\ cmd.state = "working" /\ JournalAllows(cmd.op) /\ at \in Roots
      /\ pc \in {"down", "rcHelpers"} \/ (pc \in DOMAIN OpOf /\ OpOf[pc] = cmd.op)
      /\ CommandFits' /\ ServerFits'
  BY HelperRest
<1>b. cmd.op = "rollbackClean" /\ pc \in {"down", "rcHelpers", "rollbackClean"}
  BY <1>a DEF RollbackClean, Working, OpOf
<1>c. /\ root' \in [Roots -> SUBSET Files]
      /\ UNCHANGED <<old, new, stage>>
  BY <1>0, <1>a DEF TypeOK, RollbackClean
<1>d. \A r \in Roots :
          r # at => /\ root'[r] = root[r] /\ old'[r] = old[r]
                    /\ new'[r] = new[r] /\ stage'[r] = stage[r]
  BY <1>0, <1>a DEF TypeOK, RollbackClean
<1>1. TypeOK'
  BY <1>0, <1>a, <1>c DEF TypeOK
<1>2. ASSUME NEW r \in Roots
      PROVE  RootFits(r)'
  <2>1. RootFits(r)
    BY <1>0
  <2>2. CASE r # at
    BY <1>a, <1>d, <2>1, <2>2 DEF RootFits
  <2>3. CASE r = at
    BY <1>0, <1>a, <1>b, <2>1, <2>3 DEF RootFits, JournalAllows, RollbackClean
  <2> QED
    BY <2>2, <2>3
<1>3. RunFits'
  BY <1>0, <1>a, <1>b, <1>d DEF RunFits
<1>4. RollbackFits'
  BY <1>0, <1>a, <1>b, <1>d DEF RollbackFits, Clean, RollbackClean
<1> QED
  BY <1>1, <1>2, <1>3, <1>4, <1>a DEF IInv

LEMMA RollbackOldFits ==
    ASSUME IInv, HelperStep, RollbackOld
    PROVE  IInv'
<1>0. TypeOK /\ (\A r \in Roots : RootFits(r)) /\ RunFits /\ RollbackFits
  BY DEF IInv
<1>a. /\ UNCHANGED <<row, status, phase, rec, pc, mode, at, helper, running, started, starter,
                     sent, crashes, externals>>
      /\ cmd' \in [op : Commands \cup {"none"}, state : {"none", "working", "ok", "failed"}]
      /\ cmd.state = "working" /\ JournalAllows(cmd.op) /\ at \in Roots
      /\ pc \in {"down", "rcHelpers"} \/ (pc \in DOMAIN OpOf /\ OpOf[pc] = cmd.op)
      /\ CommandFits' /\ ServerFits'
  BY HelperRest
<1>b. cmd.op = "rollbackOld" /\ pc \in {"down", "rcHelpers", "rollbackOld"}
  BY <1>a DEF RollbackOld, Working, OpOf
<1>c. /\ root' \in [Roots -> SUBSET Files] /\ old' \in [Roots -> SUBSET Files]
      /\ UNCHANGED <<new, stage>>
  BY <1>0, <1>a DEF TypeOK, RollbackOld, Move
<1>d. \A r \in Roots :
          r # at => /\ root'[r] = root[r] /\ old'[r] = old[r]
                    /\ new'[r] = new[r] /\ stage'[r] = stage[r]
  BY <1>0, <1>a DEF TypeOK, RollbackOld, Move
<1>1. TypeOK'
  BY <1>0, <1>a, <1>c DEF TypeOK
<1>2. ASSUME NEW r \in Roots
      PROVE  RootFits(r)'
  <2>1. RootFits(r)
    BY <1>0
  <2>2. CASE r # at
    BY <1>a, <1>d, <2>1, <2>2 DEF RootFits
  <2>3. CASE r = at
    BY <1>0, <1>a, <1>b, <2>1, <2>3 DEF TypeOK, RootFits, JournalAllows, RollbackOld, Move
  <2> QED
    BY <2>2, <2>3
<1>3. RunFits'
  BY <1>0, <1>a, <1>b, <1>d DEF RunFits
<1>4. RollbackFits'
  BY <1>0, <1>a, <1>b, <1>d DEF RollbackFits, Clean, RollbackOld, Move
<1> QED
  BY <1>1, <1>2, <1>3, <1>4, <1>a DEF IInv

LEMMA CleanupFits ==
    ASSUME IInv, HelperStep, Cleanup
    PROVE  IInv'
<1>0. TypeOK /\ (\A r \in Roots : RootFits(r)) /\ RunFits /\ RollbackFits
  BY DEF IInv
<1>a. /\ UNCHANGED <<row, status, phase, rec, pc, mode, at, helper, running, started, starter,
                     sent, crashes, externals>>
      /\ cmd' \in [op : Commands \cup {"none"}, state : {"none", "working", "ok", "failed"}]
      /\ cmd.state = "working" /\ JournalAllows(cmd.op) /\ at \in Roots
      /\ pc \in {"down", "rcHelpers"} \/ (pc \in DOMAIN OpOf /\ OpOf[pc] = cmd.op)
      /\ CommandFits' /\ ServerFits'
  BY HelperRest
<1>b. cmd.op = "cleanup" /\ pc \in {"down", "rcHelpers", "cleanup", "rbCleanup"}
  BY <1>a DEF Cleanup, Working, OpOf
<1>c. /\ old' \in [Roots -> SUBSET Files]
      /\ new' \in [Roots -> SUBSET Files]
      /\ stage' \in [Roots -> {"absent", "partial", "ready"}]
      /\ UNCHANGED <<root>>
  <2>1. old' \in [Roots -> SUBSET Files]
    BY <1>0, <1>a DEF TypeOK, Cleanup
  <2>2. new' \in [Roots -> SUBSET Files]
    BY <1>0, <1>a DEF TypeOK, Cleanup
  <2>3. stage' \in [Roots -> {"absent", "partial", "ready"}]
    BY <1>0, <1>a DEF TypeOK, Cleanup
  <2> QED
    BY <2>1, <2>2, <2>3 DEF Cleanup
<1>d. \A r \in Roots :
          r # at => /\ root'[r] = root[r] /\ old'[r] = old[r]
                    /\ new'[r] = new[r] /\ stage'[r] = stage[r]
  BY <1>0, <1>a DEF TypeOK, Cleanup
<1>1. TypeOK'
  BY <1>0, <1>a, <1>c DEF TypeOK
<1>2. ASSUME NEW r \in Roots
      PROVE  RootFits(r)'
  <2>1. RootFits(r)
    BY <1>0
  <2>2. CASE r # at
    BY <1>a, <1>d, <2>1, <2>2 DEF RootFits
  <2>3. CASE r = at
    BY <1>0, <1>a, <1>b, <2>1, <2>3 DEF TypeOK, RootFits, JournalAllows, Cleanup
  <2> QED
    BY <2>2, <2>3
<1>3. RunFits'
  BY <1>0, <1>a, <1>b, <1>d DEF RunFits
<1>4. RollbackFits'
  BY <1>0, <1>a, <1>b, <1>d DEF TypeOK, RollbackFits, Clean, Cleanup
<1> QED
  BY <1>1, <1>2, <1>3, <1>4, <1>a DEF IInv

LEMMA CommandFailsFits ==
    ASSUME IInv, HelperStep, CommandFails
    PROVE  IInv'
<1>0. TypeOK /\ (\A r \in Roots : RootFits(r)) /\ RunFits /\ RollbackFits
  BY DEF IInv
<1>a. /\ UNCHANGED <<row, status, phase, rec, pc, mode, at, helper, running, started, starter,
                     sent, crashes, externals>>
      /\ cmd' \in [op : Commands \cup {"none"}, state : {"none", "working", "ok", "failed"}]
      /\ cmd.state = "working" /\ JournalAllows(cmd.op) /\ at \in Roots
      /\ pc \in {"down", "rcHelpers"} \/ (pc \in DOMAIN OpOf /\ OpOf[pc] = cmd.op)
      /\ CommandFits' /\ ServerFits'
  BY HelperRest
<1>b. cmd'.state = "failed"
  BY <1>0 DEF CommandFails
<1>1. TypeOK'
  BY <1>0, <1>a DEF TypeOK, CommandFails
<1>2. \A r \in Roots : RootFits(r)'
  BY <1>0, <1>a, SameData DEF CommandFails
<1>3. RunFits'
  BY <1>0, <1>a, <1>b DEF RunFits, Around, DataSafe, CommandFails
<1>4. RollbackFits'
  BY <1>0, <1>a, <1>b DEF RollbackFits, Clean, CommandFails
<1> QED
  BY <1>1, <1>2, <1>3, <1>4, <1>a DEF IInv

-----------------------------------------------------------------------------
(* The theorem                                                             *)

LEMMA InitFits == Init => IInv
<1> SUFFICES ASSUME Init PROVE IInv
  OBVIOUS
<1>1. TypeOK
  <2>1. /\ phase \in [Roots -> Phases] /\ at \in Roots /\ pc \in Steps
        /\ root \in [Roots -> SUBSET Files] /\ old \in [Roots -> SUBSET Files]
        /\ new \in [Roots -> SUBSET Files] /\ stage \in [Roots -> {"absent", "partial", "ready"}]
    BY StepNames DEF Init, Phases, Files, Original, RunSteps
  <2>2. rec \in [initial : {"unset", "yes", "no"}, initialAt : Nat, settled : BOOLEAN,
                 stoppedAt : Nat, startRequested : BOOLEAN, stateRestored : BOOLEAN]
    BY Zenon DEF Init
  <2>3. /\ cmd \in [op : Commands \cup {"none"}, state : {"none", "working", "ok", "failed"}]
        /\ running \in BOOLEAN
    BY DEF Init, NoCmd
  <2>4. /\ row \in {"running", "finished"} /\ status \in Statuses
        /\ mode \in {"run", "recover", "failed"} /\ helper \in {"none", "running", "stopped"}
    BY DEF Init, Statuses
  <2>5. /\ started \in Nat /\ starter \in {"before", "ludock", "other"}
        /\ sent \in Nat /\ crashes \in 0..MaxCrashes /\ externals \in 0..MaxExternal
    BY RestoreAssumption DEF Init
  <2> QED
    BY <2>1, <2>2, <2>3, <2>4, <2>5 DEF TypeOK
<1>2. ASSUME NEW r \in Roots
      PROVE  RootFits(r)
  BY <1>2 DEF Init, RootFits
<1>3. RunFits
  BY DEF Init, RunFits
<1>4. RollbackFits
  BY DEF Init, RollbackFits
<1>5. CommandFits
  BY StepNames DEF Init, CommandFits, NoCmd
<1>6. ServerFits
  BY DEF Init, ServerFits, RecoverSteps
<1> QED
  BY <1>1, <1>2, <1>3, <1>4, <1>5, <1>6 DEF IInv

LEMMA StepFits ==
    ASSUME IInv, [Next]_vars
    PROVE  IInv'
<1>1. CASE UNCHANGED vars
  BY <1>1 DEF vars, IInv, TypeOK, RootFits, RunFits, RollbackFits, CommandFits, ServerFits,
     Clean,
              Around, JournalAllows, DataSafe
<1>2. CASE LudockStep
  BY <1>2, SaveInitialFits, StopServerFits, SaveStoppedFits, SafetyBackupFits, SaveStagingFits,
     StartHelperFits, CheckStoppedFits, SaveReplacingFits, PersistPhaseFits, SaveCommittedFits,
     SaveCleanedFits, SendCommandFits, CommandDoneFits, FreshHelperFits, SaveRollingBackFits,
     RollbackRootFits, PersistRollingBackFits, PersistRolledBackFits, SaveRolledBackFits,
     RemoveHelpersFits, RecoverCheckFits, RemoveHelperFits, RestoreStateFits, StartServerFits,
     SaveRestoredFits, FinishFits, StepFailsFits, RestoreStateFailsFits, RestartFits
     DEF LudockStep
<1>3. CASE HelperStep
  <2>1. CASE Stage
    BY <1>3, <2>1, StageFits
  <2>2. CASE Extract
    BY <1>3, <2>2, ExtractFits
  <2>3. CASE MoveOld
    BY <1>3, <2>3, MoveOldFits
  <2>4. CASE MoveNew
    BY <1>3, <2>4, MoveNewFits
  <2>5. CASE RollbackClean
    BY <1>3, <2>5, RollbackCleanFits
  <2>6. CASE RollbackOld
    BY <1>3, <2>6, RollbackOldFits
  <2>7. CASE Cleanup
    BY <1>3, <2>7, CleanupFits
  <2>8. CASE CommandFails
    BY <1>3, <2>8, CommandFailsFits
  <2> QED
    BY <1>3, <2>1, <2>2, <2>3, <2>4, <2>5, <2>6, <2>7, <2>8 DEF HelperStep
<1>4. CASE Crash
  BY <1>4, CrashFits
<1>5. CASE ExternalChange
  BY <1>5, ExternalChangeFits
<1> QED
  BY <1>1, <1>2, <1>3, <1>4, <1>5 DEF Next, Done

LEMMA FitsSurvives == IInv => DataSurvives
<1> SUFFICES ASSUME IInv PROVE DataSurvives
  OBVIOUS
<1>0. TypeOK /\ (\A r \in Roots : RootFits(r)) /\ CommandFits /\ ServerFits
  BY DEF IInv
<1>1. OriginalsKept
  <2> SUFFICES ASSUME status \notin {"committed", "cleaned"}, NEW r \in Roots
               PROVE  Original \subseteq root[r] \cup old[r]
    BY DEF OriginalsKept
  <2>1. /\ status \in {"none", "staging", "replacing", "rolling_back", "rolled_back"}
        /\ phase[r] \in {"staging", "moving_old", "old_moved", "replaced", "rolling_back", "rolled_back"}
    BY <1>0 DEF TypeOK, Statuses, Phases
  <2>2. RootFits(r)
    BY <1>0
  <2>3. CASE status = "rolled_back"
    BY <2>2, <2>3 DEF RootFits
  <2>4. CASE status # "rolled_back"
    BY <2>1, <2>2, <2>4 DEF RootFits
  <2> QED BY <2>3, <2>4
<1>2. OutcomeIsWhole
  BY <1>0 DEF RootFits, OutcomeIsWhole
<1>3. StartsOnWholeData
  BY <1>0 DEF TypeOK, Statuses, RootFits, ServerFits, DataSafe, StartsOnWholeData
<1>4. OneWriter
  BY <1>0, NothingWorks DEF CommandFits, OneWriter, NoCmd
<1>5. StartsOnce
  BY <1>0 DEF TypeOK, ServerFits, StartsOnce
<1> QED
  BY <1>0, <1>1, <1>2, <1>3, <1>4, <1>5 DEF DataSurvives

\* Whatever fails and however often Ludock crashes, a restore loses no original
\* entry before it is committed, leaves every root whole, as the journal says,
\* lets one process at a time change the data, and starts the server at most
\* once, on whole data (runRestore and its recovery, internal/jobs/restore.go).
THEOREM DataSurvivesHolds == Spec => []DataSurvives
<1>1. IInv /\ [Next]_vars => IInv'
  BY StepFits
<1> QED
  BY InitFits, <1>1, FitsSurvives, PTL DEF Spec

-----------------------------------------------------------------------------
(* A restore implements AtomicRestore                                      *)

\* Seen from outside, the data of every root is what the outcome says.
ValueFits == Value = [r \in Roots |-> IF Outcome = "replaced" THEN Backup ELSE Original]

LEMMA ValueIs ==
    ASSUME IInv
    PROVE  ValueFits
<1>0. TypeOK /\ (\A r \in Roots : RootFits(r))
  BY DEF IInv
<1> SUFFICES ASSUME NEW r \in Roots
             PROVE  (IF status \in {"committed", "cleaned", "rolled_back"} THEN root[r]
                     ELSE Original \cap (root[r] \cup old[r]))
                    = IF Outcome = "replaced" THEN Backup ELSE Original
  BY DEF Value, ValueFits
<1>1. RootFits(r) /\ status \in Statuses /\ phase[r] \in Phases
  BY <1>0 DEF TypeOK
<1> QED
  BY <1>1 DEF RootFits, Outcome, Statuses, Phases

\* Most steps leave the outcome, the starts and the data that was started on.
Quiet == Outcome' = Outcome /\ sent' = sent /\ (sent > 0 => root' = root)

LEMMA QuietSteps ==
    ASSUME IInv, Next, ~SaveCommitted, ~SaveRolledBack, ~StartServer
    PROVE  Quiet
<1>0. TypeOK /\ RunFits /\ RollbackFits
  BY DEF IInv
<1>1. CASE UNCHANGED <<status, sent, root>>
  BY <1>1 DEF Quiet, Outcome
<1>2. CASE SaveStaging \/ SaveReplacing \/ SaveCleaned \/ SaveRollingBack
  BY <1>0, <1>2 DEF RunFits, RollbackFits, Quiet, Outcome, SaveStaging, SaveReplacing,
                    SaveCleaned, SaveRollingBack
<1>3. CASE HelperStep
  BY <1>3, HelperRest DEF Quiet, Outcome
<1>4. CASE Crash \/ ExternalChange \/ Done
  BY <1>1, <1>4 DEF Crash, ExternalChange, Done, vars
<1>5. CASE LudockStep /\ ~(SaveStaging \/ SaveReplacing \/ SaveCleaned \/ SaveRollingBack)
  BY <1>1, <1>5 DEF LudockStep, SaveInitial, StopServer, SaveStopped, SafetyBackup, StartHelper,
        CheckStopped, PersistPhase, SendCommand, CommandDone, FreshHelper, RollbackRoot,
        PersistRollingBack, PersistRolledBack, RemoveHelpers, RecoverCheck, RemoveHelper,
        RestoreState, SaveRestored, Finish, StepFails, RestoreStateFails, Restart
<1> QED
  BY <1>2, <1>3, <1>4, <1>5 DEF Next

LEMMA AtomicInit == Init => Promise!Init
<1> SUFFICES ASSUME Init PROVE Promise!Init
  OBVIOUS
<1>1. Outcome = "open" /\ sent = 0
  BY DEF Init, Outcome
<1> QED
  BY <1>1, ValueIs, InitFits DEF ValueFits, Promise!Init

LEMMA AtomicStep ==
    ASSUME IInv, ValueFits, ValueFits', [Next]_vars
    PROVE  [Promise!Next]_<<Value, Outcome, IF sent > 0 THEN {root} ELSE {}>>
<1>0. TypeOK /\ (\A r \in Roots : RootFits(r)) /\ RunFits /\ RollbackFits /\ ServerFits
  BY DEF IInv
<1>1. Value = [r \in Roots |-> IF Outcome = "replaced" THEN Backup ELSE Original]
  BY DEF ValueFits
<1>2. Value' = [r \in Roots |-> IF Outcome' = "replaced" THEN Backup ELSE Original]
  BY DEF ValueFits
<1>3. CASE SaveCommitted
  <2>1. sent = 0 /\ sent' = 0
    BY <1>0, <1>3 DEF TypeOK, ServerFits, AfterStart, SaveCommitted
  <2>2. Outcome = "open" /\ Outcome' = "replaced"
    BY <1>0, <1>3 DEF RunFits, Outcome, SaveCommitted
  <2> QED
    BY <1>2, <2>1, <2>2 DEF Promise!Next, Promise!Replace, Promise!Open
<1>4. CASE SaveRolledBack
  <2>1. sent = 0 /\ sent' = 0
    BY <1>0, <1>4 DEF TypeOK, ServerFits, AfterStart, SaveRolledBack
  <2>2. Outcome = "open" /\ Outcome' = "kept"
    BY <1>0, <1>4 DEF RollbackFits, Outcome, SaveRolledBack
  <2> QED
    BY <1>1, <1>2, <2>1, <2>2 DEF Promise!Next, Promise!Keep, Promise!Open
<1>5. CASE StartServer
  <2>1. sent = 0 /\ sent' = 1
    BY <1>0, <1>5 DEF TypeOK, ServerFits, AfterStart, StartServer
  <2>2. Outcome' = Outcome /\ root' = root
    BY <1>5 DEF Outcome, StartServer
  <2>3. root = Value
    <3>1. DataSafe
      BY <1>0, <1>5 DEF RunFits, StartServer
    <3>2. ASSUME NEW r \in Roots
          PROVE  root[r] = IF Outcome = "replaced" THEN Backup ELSE Original
      BY <1>0, <3>1 DEF TypeOK, RootFits, DataSafe, Outcome, Statuses
    <3> QED
      BY <1>0, <1>1, <3>2 DEF TypeOK
  <2> QED
    BY <1>1, <1>2, <2>1, <2>2, <2>3 DEF Promise!Next, Promise!Start
<1>6. CASE Next /\ ~SaveCommitted /\ ~SaveRolledBack /\ ~StartServer
  <2>1. Quiet
    BY <1>6, QuietSteps
  <2> QED
    BY <1>1, <1>2, <2>1 DEF Quiet
<1>7. CASE UNCHANGED vars
  BY <1>1, <1>2, <1>7 DEF vars, Outcome
<1> QED
  BY <1>3, <1>4, <1>5, <1>6, <1>7

\* A restore is atomic: its data is replaced by the write that commits it or not
\* at all, and is final when the server is started (runRestore, recoverRestore
\* and restoreInitialState, internal/jobs/restore.go and data.go).
THEOREM RestoreIsAtomicHolds == Spec => RestoreIsAtomic
<1>1. IInv /\ [Next]_vars => IInv'
  BY StepFits
<1>2. IInv => ValueFits
  BY ValueIs
<1>3. IInv /\ ValueFits /\ ValueFits' /\ [Next]_vars
        => [Promise!Next]_<<Value, Outcome, IF sent > 0 THEN {root} ELSE {}>>
  BY AtomicStep
<1> QED
  BY InitFits, AtomicInit, <1>1, <1>2, <1>3, PTL DEF Spec, RestoreIsAtomic, Promise!Spec

-----------------------------------------------------------------------------
(* CommandsConfined of Console.                                            *)
(*                                                                         *)
(* Messages keep their order from the reader to the game, and the command  *)
(* that runs is between those that reached it and those that wait          *)
(* (OrderFits, TurnFits), so each is sent once and in order: what has to   *)
(* be carried along is which steps still have the command to send          *)
(* (Coming).  What is sent is in the audit log (AuditFits), and a process  *)
(* or a helper that may be at work finds its command at a place where the  *)
(* locks are held (PlaceFits).                                             *)

\* A command's record and its places: which come after the audit log, and where it is still
\* to be sent.
CommandPlaces == {"idle", "lock", "refresh", "audit", "start", "stream", "wait", "hstart", "talk",
                  "hremove", "direct2", "result"} \cup Paths
ConsoleCommands == [pc : CommandPlaces, id : 0..MaxCommands, cancelled : BOOLEAN, broken : BOOLEAN,
             ok : BOOLEAN]
Execs == [at : {"none", "prepared", "dispatched", "running", "ended", "missing"},
          code : {0, 1, 125}, killed : BOOLEAN]
Audited == {"start", "stream", "wait", "hstart", "talk", "hremove", "direct2"} \cup Paths
Unsent == {"lock", "refresh", "audit", "start", "hstart", "direct2"} \cup Paths
Coming == \/ command.pc \in Unsent
          \/ command.pc = "wait" /\ proc.at = "dispatched"
          \/ command.pc = "talk" /\ speaker # "answered"
Ran == {reached[i] : i \in DOMAIN reached}

\* The types.
ConsoleTyped ==
    /\ granted \in BOOLEAN /\ open \in BOOLEAN /\ arrived \in 0..MaxCommands
    /\ input \in Seq(1..MaxCommands) /\ queue \in Seq(1..MaxCommands)
    /\ command \in ConsoleCommands /\ locked \in {"none", "console", "job"}
    /\ saved \subseteq 1..MaxCommands /\ proc \in Execs /\ asked \in {"off", "asking", "asked"}
    /\ speaker \in {"none", "late", "created", "live", "askCredential", "askCommand", "answered"}
    /\ reached \in Seq(1..MaxCommands) /\ claimed \subseteq 1..MaxCommands

\* Messages keep their order from the reader to the game.
Rising(s) == \A i \in DOMAIN s : \A j \in 1..(i - 1) : s[j] < s[i]
Below(s, n) == \A i \in DOMAIN s : s[i] < n
UpTo(s, n) == \A i \in DOMAIN s : s[i] <= n
Above(s, n) == \A i \in DOMAIN s : n < s[i]
OrderFits ==
    /\ Rising(reached) /\ Rising(queue) /\ Rising(input)
    /\ UpTo(reached, arrived) /\ UpTo(queue, arrived) /\ UpTo(input, arrived)
    /\ \A i \in DOMAIN reached : Above(queue, reached[i]) /\ Above(input, reached[i])
    /\ \A i \in DOMAIN queue : Above(input, queue[i])
    /\ Len(queue) <= MaxPending

\* The command being run is between those that reached the game and those that wait.
TurnFits ==
    ~At("idle") =>
        /\ command.id \in 1..arrived /\ UpTo(reached, command.id)
        /\ Coming => Below(reached, command.id)
        /\ Above(queue, command.id) /\ Above(input, command.id)

\* What is sent is in the audit log; what succeeded was sent.
AuditFits ==
    /\ Ran \subseteq saved /\ claimed \subseteq Ran
    /\ command.pc \in Audited => command.id \in saved
    /\ command.ok => command.id \in Ran

\* The locks are held while a command may be working: in the container, or in the helper.
PlaceFits ==
    /\ locked = "console" <=> command.pc \notin {"idle", "lock"}
    /\ proc.at = "dispatched" => At("wait")
    /\ proc.at = "running" => command.pc \in {"stream", "wait"}
    /\ proc.at = "ended" => command.pc \in {"stream", "wait", "result"}
    /\ proc.at \in {"running", "ended"} => command.id \in Ran
    /\ speaker \in {"live", "askCredential", "askCommand", "answered"} =>
          command.pc \in {"talk", "hremove"}
    /\ speaker = "answered" => command.id \in Ran

ConsoleInv == ConsoleTyped /\ OrderFits /\ TurnFits /\ AuditFits /\ PlaceFits

HIDE RestoreAssumption DEF Roots

\* The type invariant, with the sets of records named.
LEMMA ConsoleTypes == ConsoleTypeOK <=> ConsoleTyped
  BY DEF ConsoleTypeOK, ConsoleTyped, ConsoleCommands, CommandPlaces, Execs

\* What the records hold.
LEMMA CommandIs ==
    ASSUME NEW c \in ConsoleCommands
    PROVE  /\ c.pc \in CommandPlaces /\ c.id \in 0..MaxCommands /\ c.cancelled \in BOOLEAN
           /\ c.broken \in BOOLEAN /\ c.ok \in BOOLEAN
  BY DEF ConsoleCommands

LEMMA ExecIs ==
    ASSUME NEW p \in Execs
    PROVE  /\ p.at \in {"none", "prepared", "dispatched", "running", "ended", "missing"}
           /\ p.code \in {0, 1, 125} /\ p.killed \in BOOLEAN
  BY DEF Execs

\* Between two commands nothing is run.
LEMMA NoCommandIs == NoCommand \in ConsoleCommands /\ NoCommand.pc = "idle" /\ ~NoCommand.ok
  <1>1. 0 \in 0..MaxCommands
    BY ConsoleAssumption
  <1>2. "idle" \in CommandPlaces
    BY DEF CommandPlaces
  <1> QED
    BY <1>1, <1>2 DEF NoCommand, ConsoleCommands

\* A command goes to another place.
LEMMA GotoIs ==
    ASSUME command \in ConsoleCommands, NEW p \in CommandPlaces, Goto(p)
    PROVE  /\ command' \in ConsoleCommands /\ command'.pc = p /\ command'.id = command.id
           /\ command'.cancelled = command.cancelled /\ command'.broken = command.broken
           /\ command'.ok = command.ok
  BY CommandIs DEF Goto, ConsoleCommands

\* A command whose stream broke.
LEMMA BreaksIs ==
    ASSUME command \in ConsoleCommands, NEW p \in CommandPlaces,
           command' = [command EXCEPT !.pc = p, !.broken = TRUE]
    PROVE  /\ command' \in ConsoleCommands /\ command'.pc = p /\ command'.id = command.id
           /\ command'.ok = command.ok
  BY CommandIs DEF ConsoleCommands

\* A command whose context is cancelled.
LEMMA CancelledIs ==
    ASSUME command \in ConsoleCommands, command' = [command EXCEPT !.cancelled = TRUE]
    PROVE  /\ command' \in ConsoleCommands /\ command'.pc = command.pc /\ command'.id = command.id
           /\ command'.ok = command.ok
  BY CommandIs DEF ConsoleCommands

\* A command with its outcome.
LEMMA AnswersIs ==
    ASSUME command \in ConsoleCommands, NEW p \in CommandPlaces, NEW b \in BOOLEAN,
           command' = [command EXCEPT !.pc = p, !.ok = b]
    PROVE  /\ command' \in ConsoleCommands /\ command'.pc = p /\ command'.id = command.id
           /\ command'.ok = b
  <1>1. CASE b
    BY <1>1, CommandIs DEF ConsoleCommands
  <1>2. CASE ~b
    BY <1>2, CommandIs DEF ConsoleCommands
  <1> QED
    BY <1>1, <1>2

\* The exec goes on.
LEMMA ProcessIs ==
    ASSUME proc \in Execs, NEW a \in {"none", "prepared", "dispatched", "running", "ended", "missing"},
           NEW c \in {0, 1, 125},
           proc' \in {[proc EXCEPT !.at = a], [proc EXCEPT !.at = a, !.code = c]}
    PROVE  proc' \in Execs /\ proc'.at = a
  <1>1. CASE proc' = [proc EXCEPT !.at = a]
    BY <1>1, ExecIs DEF Execs
  <1>2. CASE proc' = [proc EXCEPT !.at = a, !.code = c]
    BY <1>2, ExecIs DEF Execs
  <1> QED
    BY <1>1, <1>2

\* The watchdog is told to kill.
LEMMA KilledIs ==
    ASSUME proc \in Execs, proc' \in {proc, [proc EXCEPT !.killed = (@ \/ proc.at = "running")]}
    PROVE  proc' \in Execs /\ proc'.at = proc.at
  <1>1. proc.at \in {"none", "prepared", "dispatched", "running", "ended", "missing"}
        /\ proc.killed \in BOOLEAN
    BY ExecIs
  <1>2. CASE proc.killed \/ proc.at = "running"
    <2>1. proc' \in {proc, [proc EXCEPT !.killed = TRUE]}
      BY <1>2
    <2>2. CASE proc' = [proc EXCEPT !.killed = TRUE]
      BY <2>2, ExecIs DEF Execs
    <2> QED
      BY <2>1, <2>2
  <1>3. CASE ~(proc.killed \/ proc.at = "running")
    <2>1. proc' \in {proc, [proc EXCEPT !.killed = FALSE]}
      BY <1>3
    <2>2. CASE proc' = [proc EXCEPT !.killed = FALSE]
      BY <2>2, ExecIs DEF Execs
    <2> QED
      BY <2>1, <2>2
  <1> QED
    BY <1>2, <1>3

\* No exec, and one that is prepared.
LEMMA NoProcIs ==
    NoProc \in Execs /\ NoProc.at = "none" /\ [NoProc EXCEPT !.at = "prepared"] \in Execs
                  /\ [NoProc EXCEPT !.at = "prepared"].at = "prepared"
  BY DEF NoProc, Execs

-----------------------------------------------------------------------------
\* The channel's queues, and what is sent.
LEMMA FirstAndRest ==
    ASSUME NEW s \in Seq(1..MaxCommands), s # <<>>
    PROVE  /\ Tail(s) \in Seq(1..MaxCommands) /\ Len(Tail(s)) = Len(s) - 1 /\ Len(s) \in Nat
           /\ Head(s) = s[1] /\ 1 \in DOMAIN s
           /\ \A i \in DOMAIN Tail(s) : i + 1 \in DOMAIN s /\ Tail(s)[i] = s[i + 1]
  OBVIOUS

\* An element of a sequence of messages.
LEMMA ElementIs ==
    ASSUME NEW S, NEW s \in Seq(S), NEW i \in DOMAIN s
    PROVE  s[i] \in S
  OBVIOUS

\* All its elements.
LEMMA ElementsAre ==
    ASSUME NEW s \in Seq(1..MaxCommands), NEW i \in DOMAIN s
    PROVE  s[i] \in 1..MaxCommands /\ s[i] \in Nat
  <1>1. s[i] \in 1..MaxCommands
    BY ElementIs
  <1> QED
    BY <1>1, ConsoleAssumption

\* The rest of a queue in order is in order.
LEMMA RestRises ==
    ASSUME NEW s \in Seq(1..MaxCommands), s # <<>>, Rising(s)
    PROVE  Rising(Tail(s)) /\ Above(Tail(s), Head(s))
  <1>1. ASSUME NEW i \in DOMAIN Tail(s), NEW j \in 1..(i - 1)
        PROVE  Tail(s)[j] < Tail(s)[i]
    <2>1. i \in Nat /\ j \in DOMAIN Tail(s) /\ j + 1 \in 1..((i + 1) - 1)
      BY FirstAndRest
    <2> QED
      BY <2>1, FirstAndRest DEF Rising
  <1>2. ASSUME NEW i \in DOMAIN Tail(s)
        PROVE  Head(s) < Tail(s)[i]
    <2>1. i \in Nat /\ 1 \in 1..((i + 1) - 1)
      BY FirstAndRest
    <2> QED
      BY <2>1, FirstAndRest DEF Rising
  <1> QED
    BY <1>1, <1>2 DEF Rising, Above

\* A message behind the others.
LEMMA AddedIs ==
    ASSUME NEW s \in Seq(1..MaxCommands), NEW n \in 1..MaxCommands
    PROVE  /\ Append(s, n) \in Seq(1..MaxCommands) /\ Len(Append(s, n)) = Len(s) + 1
           /\ Len(s) \in Nat /\ DOMAIN Append(s, n) = 1..(Len(s) + 1) /\ DOMAIN s = 1..Len(s)
           /\ \A i \in DOMAIN s : Append(s, n)[i] = s[i]
           /\ Append(s, n)[Len(s) + 1] = n
  OBVIOUS

\* A later message keeps the order.
LEMMA AddedRises ==
    ASSUME NEW s \in Seq(1..MaxCommands), NEW n \in 1..MaxCommands, Rising(s), Below(s, n)
    PROVE  Rising(Append(s, n))
  <1> SUFFICES ASSUME NEW i \in DOMAIN Append(s, n), NEW j \in 1..(i - 1)
               PROVE  Append(s, n)[j] < Append(s, n)[i]
    BY DEF Rising
  <1>1. i \in 1..(Len(s) + 1) /\ j \in 1..Len(s) /\ j \in DOMAIN s
    BY AddedIs
  <1>2. CASE i = Len(s) + 1
    BY <1>1, <1>2, AddedIs DEF Below
  <1>3. CASE i \in DOMAIN s
    BY <1>1, <1>3, AddedIs DEF Rising
  <1> QED
    BY <1>1, <1>2, <1>3, AddedIs

\* Every element of the longer one is of the shorter one, or the one added.
LEMMA EachAdded ==
    ASSUME NEW s \in Seq(1..MaxCommands), NEW n \in 1..MaxCommands,
           NEW i \in DOMAIN Append(s, n)
    PROVE  \/ i \in DOMAIN s /\ Append(s, n)[i] = s[i]
           \/ Append(s, n)[i] = n
  BY AddedIs

-----------------------------------------------------------------------------
\* A step of the command that sends nothing.
LEMMA QuietKeeps ==
    ASSUME OrderFits, TurnFits, UNCHANGED <<arrived, input, queue, reached>>,
           command'.id = command.id, Coming' => Coming, At("idle") => At("idle")'
    PROVE  OrderFits' /\ TurnFits' /\ Ran' = Ran
  <1>1. OrderFits'
    BY DEF OrderFits
  <1>2. TurnFits'
    BY DEF TurnFits, At
  <1> QED
    BY <1>1, <1>2 DEF Ran

\* A step that sends the command.
LEMMA SendKeeps ==
    ASSUME ConsoleTyped, OrderFits, TurnFits, Coming, ~At("idle"), ~Coming',
           reached' = Append(reached, command.id), UNCHANGED <<arrived, input, queue>>,
           command'.id = command.id
    PROVE  /\ OrderFits' /\ TurnFits' /\ Ran' = Ran \cup {command.id}
           /\ reached' \in Seq(1..MaxCommands)
  <1> DEFINE n == command.id
  <1>1. /\ arrived \in 0..MaxCommands /\ reached \in Seq(1..MaxCommands) /\ n \in 1..arrived
        /\ UpTo(reached, n) /\ Below(reached, n) /\ Above(queue, n) /\ Above(input, n)
    BY DEF TurnFits, ConsoleTyped
  <1>2. n \in 1..MaxCommands /\ n <= arrived
    BY <1>1, ConsoleAssumption
  <1>3. Rising(reached)' /\ reached' \in Seq(1..MaxCommands)
    BY <1>1, <1>2, AddedRises, AddedIs DEF OrderFits
  <1> HIDE DEF n
  <1>4. ASSUME NEW i \in DOMAIN reached'
        PROVE  /\ reached'[i] <= n /\ reached'[i] <= arrived
               /\ Above(queue, reached'[i]) /\ Above(input, reached'[i])
    <2>1. \/ i \in DOMAIN reached /\ reached'[i] = reached[i]
          \/ reached'[i] = n
      BY <1>1, <1>2, EachAdded DEF n
    <2>2. n <= n
      BY <1>2
    <2> QED
      BY <1>1, <1>2, <2>1, <2>2 DEF OrderFits, UpTo
  <1>5. OrderFits'
    BY <1>3, <1>4 DEF OrderFits, UpTo
  <1>6. TurnFits'
    BY <1>1, <1>4 DEF TurnFits, UpTo, n
  <1>7. Ran' = Ran \cup {n}
    <2>1. Len(reached) + 1 \in DOMAIN reached' /\ reached'[Len(reached) + 1] = n
      BY <1>1, <1>2, AddedIs DEF n
    <2>2. \A i \in DOMAIN reached : i \in DOMAIN reached' /\ reached'[i] = reached[i]
      BY <1>1, <1>2, AddedIs DEF n
    <2>3. \A i \in DOMAIN reached' : \/ i \in DOMAIN reached /\ reached'[i] = reached[i]
                                     \/ reached'[i] = n
      BY <1>1, <1>2, EachAdded DEF n
    <2> QED
      BY <2>1, <2>2, <2>3 DEF Ran
  <1> QED
    BY <1>3, <1>5, <1>6, <1>7 DEF n

\* Each step keeps the invariant: first those that send nothing.
LEMMA RevokeKeeps ==
    ASSUME ConsoleInv, Revoke
    PROVE  ConsoleInv'
  <1>1. /\ ConsoleTyped /\ OrderFits /\ TurnFits /\ AuditFits /\ PlaceFits
        /\ command \in ConsoleCommands
    BY DEF ConsoleInv, ConsoleTyped
  <1>2. command' = command
    BY DEF Revoke
  <1>3. ConsoleTyped'
    BY <1>1, <1>2, CommandIs, ExecIs DEF Revoke, ConsoleTyped, At, chanVars
  <1>4. OrderFits' /\ TurnFits' /\ Ran' = Ran
    BY <1>1, <1>2, QuietKeeps DEF Revoke, At, chanVars, Coming, Unsent, Paths
  <1>5. AuditFits' /\ PlaceFits'
    BY <1>1, <1>2, <1>4, CommandIs DEF Revoke, At, chanVars, AuditFits, PlaceFits, Audited, Paths
  <1> QED
    BY <1>3, <1>4, <1>5 DEF ConsoleInv

LEMMA WatchKeeps ==
    ASSUME ConsoleInv, Watch
    PROVE  ConsoleInv'
  <1>1. /\ ConsoleTyped /\ OrderFits /\ TurnFits /\ AuditFits /\ PlaceFits
        /\ command \in ConsoleCommands
    BY DEF ConsoleInv, ConsoleTyped
  <1>2. command' = command
    BY DEF Watch
  <1>3. ConsoleTyped'
    BY <1>1, <1>2, CommandIs, ExecIs DEF Watch, ConsoleTyped, At, ClosesIfRefused
  <1>4. OrderFits' /\ TurnFits' /\ Ran' = Ran
    BY <1>1, <1>2, QuietKeeps DEF Watch, At, ClosesIfRefused, Coming, Unsent, Paths
  <1>5. AuditFits' /\ PlaceFits'
    BY <1>1, <1>2, <1>4, CommandIs
       DEF Watch, At, ClosesIfRefused, AuditFits, PlaceFits, Audited, Paths
  <1> QED
    BY <1>3, <1>4, <1>5 DEF ConsoleInv

LEMMA LeaveKeeps ==
    ASSUME ConsoleInv, Leave
    PROVE  ConsoleInv'
  <1>1. /\ ConsoleTyped /\ OrderFits /\ TurnFits /\ AuditFits /\ PlaceFits
        /\ command \in ConsoleCommands
    BY DEF ConsoleInv, ConsoleTyped
  <1>2. command' = command
    BY DEF Leave
  <1>3. ConsoleTyped'
    BY <1>1, <1>2, CommandIs, ExecIs DEF Leave, ConsoleTyped, At
  <1>4. OrderFits' /\ TurnFits' /\ Ran' = Ran
    BY <1>1, <1>2, QuietKeeps DEF Leave, At, Coming, Unsent, Paths
  <1>5. AuditFits' /\ PlaceFits'
    BY <1>1, <1>2, <1>4, CommandIs DEF Leave, At, AuditFits, PlaceFits, Audited, Paths
  <1> QED
    BY <1>3, <1>4, <1>5 DEF ConsoleInv

LEMMA CreatedLateKeeps ==
    ASSUME ConsoleInv, CreatedLate
    PROVE  ConsoleInv'
  <1>1. /\ ConsoleTyped /\ OrderFits /\ TurnFits /\ AuditFits /\ PlaceFits
        /\ command \in ConsoleCommands
    BY DEF ConsoleInv, ConsoleTyped
  <1>2. command' = command
    BY DEF CreatedLate
  <1>3. ConsoleTyped'
    BY <1>1, <1>2, CommandIs, ExecIs DEF CreatedLate, ConsoleTyped, At, chanVars
  <1>4. OrderFits' /\ TurnFits' /\ Ran' = Ran
    BY <1>1, <1>2, QuietKeeps DEF CreatedLate, At, chanVars, Coming, Unsent, Paths
  <1>5. AuditFits' /\ PlaceFits'
    BY <1>1, <1>2, <1>4, CommandIs
       DEF CreatedLate, At, chanVars, AuditFits, PlaceFits, Audited, Paths
  <1> QED
    BY <1>3, <1>4, <1>5 DEF ConsoleInv

LEMMA HelperAsksKeeps ==
    ASSUME ConsoleInv, HelperAsks
    PROVE  ConsoleInv'
  <1>1. /\ ConsoleTyped /\ OrderFits /\ TurnFits /\ AuditFits /\ PlaceFits
        /\ command \in ConsoleCommands
    BY DEF ConsoleInv, ConsoleTyped
  <1>2. command' = command
    BY DEF HelperAsks
  <1>3. ConsoleTyped'
    BY <1>1, <1>2, CommandIs, ExecIs DEF HelperAsks, ConsoleTyped, At, chanVars
  <1>4. OrderFits' /\ TurnFits' /\ Ran' = Ran
    BY <1>1, <1>2, QuietKeeps DEF HelperAsks, At, chanVars, Coming, Unsent, Paths
  <1>5. AuditFits' /\ PlaceFits'
    BY <1>1, <1>2, <1>4, CommandIs
       DEF HelperAsks, At, chanVars, AuditFits, PlaceFits, Audited, Paths
  <1> QED
    BY <1>3, <1>4, <1>5 DEF ConsoleInv

LEMMA JobKeeps ==
    ASSUME ConsoleInv, Job
    PROVE  ConsoleInv'
  <1>1. /\ ConsoleTyped /\ OrderFits /\ TurnFits /\ AuditFits /\ PlaceFits
        /\ command \in ConsoleCommands
    BY DEF ConsoleInv, ConsoleTyped
  <1>2. command' = command
    BY DEF Job
  <1>3. ConsoleTyped'
    BY <1>1, <1>2, CommandIs, ExecIs DEF Job, ConsoleTyped, At, chanVars, Fault
  <1>4. OrderFits' /\ TurnFits' /\ Ran' = Ran
    BY <1>1, <1>2, QuietKeeps DEF Job, At, chanVars, Fault, Coming, Unsent, Paths
  <1>5. AuditFits' /\ PlaceFits'
    BY <1>1, <1>2, <1>4, CommandIs
       DEF Job, At, chanVars, Fault, AuditFits, PlaceFits, Audited, Paths
  <1> QED
    BY <1>3, <1>4, <1>5 DEF ConsoleInv

LEMMA ProcEndsKeeps ==
    ASSUME ConsoleInv, ProcEnds
    PROVE  ConsoleInv'
  <1>1. /\ ConsoleTyped /\ OrderFits /\ TurnFits /\ AuditFits /\ PlaceFits
        /\ command \in ConsoleCommands
    BY DEF ConsoleInv, ConsoleTyped
  <1>2. command' = command /\ proc' \in Execs /\ proc'.at = "ended"
    BY <1>1, ProcessIs DEF ProcEnds, ConsoleTyped
  <1>3. ConsoleTyped'
    BY <1>1, <1>2, CommandIs, ExecIs DEF ProcEnds, ConsoleTyped, At, chanVars
  <1>4. OrderFits' /\ TurnFits' /\ Ran' = Ran
    BY <1>1, <1>2, QuietKeeps DEF ProcEnds, At, chanVars, Coming, Unsent, Paths
  <1>5. AuditFits' /\ PlaceFits'
    BY <1>1, <1>2, <1>4, CommandIs DEF ProcEnds, At, chanVars, AuditFits, PlaceFits, Audited, Paths
  <1> QED
    BY <1>3, <1>4, <1>5 DEF ConsoleInv

LEMMA CancelKeeps ==
    ASSUME ConsoleInv, Cancel
    PROVE  ConsoleInv'
  <1>1. /\ ConsoleTyped /\ OrderFits /\ TurnFits /\ AuditFits /\ PlaceFits
        /\ command \in ConsoleCommands
    BY DEF ConsoleInv, ConsoleTyped
  <1>2. command' = command /\ proc' \in Execs /\ proc'.at = proc.at
    BY <1>1, KilledIs DEF Cancel, ConsoleTyped
  <1>3. ConsoleTyped'
    BY <1>1, <1>2, CommandIs, ExecIs DEF Cancel, ConsoleTyped, At, chanVars, Fault
  <1>4. OrderFits' /\ TurnFits' /\ Ran' = Ran
    BY <1>1, <1>2, QuietKeeps DEF Cancel, At, chanVars, Coming, Unsent, Paths
  <1>5. AuditFits' /\ PlaceFits'
    BY <1>1, <1>2, <1>4, CommandIs
       DEF Cancel, At, chanVars, Fault, AuditFits, PlaceFits, Audited, Paths
  <1> QED
    BY <1>3, <1>4, <1>5 DEF ConsoleInv

LEMMA ContainerGoneKeeps ==
    ASSUME ConsoleInv, ContainerGone
    PROVE  ConsoleInv'
  <1>1. /\ ConsoleTyped /\ OrderFits /\ TurnFits /\ AuditFits /\ PlaceFits
        /\ command \in ConsoleCommands
    BY DEF ConsoleInv, ConsoleTyped
  <1>2. command' = command /\ proc' \in Execs /\ proc'.at = "missing"
    BY <1>1, ProcessIs DEF ContainerGone, ConsoleTyped
  <1>3. ConsoleTyped'
    BY <1>1, <1>2, CommandIs, ExecIs DEF ContainerGone, ConsoleTyped, At, chanVars, Fault
  <1>4. OrderFits' /\ TurnFits' /\ Ran' = Ran
    BY <1>1, <1>2, QuietKeeps DEF ContainerGone, At, chanVars, Fault, Coming, Unsent, Paths
  <1>5. AuditFits' /\ PlaceFits'
    BY <1>1, <1>2, <1>4, CommandIs
       DEF ContainerGone, At, chanVars, Fault, AuditFits, PlaceFits, Audited, Paths
  <1> QED
    BY <1>3, <1>4, <1>5 DEF ConsoleInv

LEMMA RefreshKeeps ==
    ASSUME ConsoleInv, Refresh
    PROVE  ConsoleInv'
  <1>1. /\ ConsoleTyped /\ OrderFits /\ TurnFits /\ AuditFits /\ PlaceFits
        /\ command \in ConsoleCommands
    BY DEF ConsoleInv, ConsoleTyped
  <1>2. /\ command'.pc \in {"audit", "result"}
        /\ command' \in ConsoleCommands /\ command'.id = command.id /\ command'.ok = command.ok
    BY <1>1, GotoIs, BreaksIs, CancelledIs DEF Refresh, CommandPlaces, Paths
  <1>3. ConsoleTyped'
    BY <1>1, <1>2, CommandIs, ExecIs DEF Refresh, ConsoleTyped, At, ClosesIfRefused, Fault
  <1>4. OrderFits' /\ TurnFits' /\ Ran' = Ran
    BY <1>1, <1>2, QuietKeeps DEF Refresh, At, ClosesIfRefused, Fault, Coming, Unsent, Paths
  <1>5. AuditFits' /\ PlaceFits'
    BY <1>1, <1>2, <1>4, CommandIs
       DEF Refresh, At, ClosesIfRefused, Fault, AuditFits, PlaceFits, Audited, Paths
  <1> QED
    BY <1>3, <1>4, <1>5 DEF ConsoleInv

LEMMA CreateExecKeeps ==
    ASSUME ConsoleInv, CreateExec
    PROVE  ConsoleInv'
  <1>1. /\ ConsoleTyped /\ OrderFits /\ TurnFits /\ AuditFits /\ PlaceFits
        /\ command \in ConsoleCommands
    BY DEF ConsoleInv, ConsoleTyped
  <1>2. /\ command'.pc \in {"start", "result"}
        /\ command' \in ConsoleCommands /\ command'.id = command.id /\ command'.ok = command.ok
        /\ proc' \in Execs /\ proc'.at \in {proc.at, "prepared"}
    BY <1>1, GotoIs, NoProcIs DEF ConsoleTyped, CreateExec, CommandPlaces, Paths
  <1>3. ConsoleTyped'
    BY <1>1, <1>2, CommandIs, ExecIs DEF CreateExec, ConsoleTyped, At, ClosesIfRefused, Fault
  <1>4. OrderFits' /\ TurnFits' /\ Ran' = Ran
    BY <1>1, <1>2, QuietKeeps DEF CreateExec, At, ClosesIfRefused, Fault, Coming, Unsent, Paths
  <1>5. AuditFits' /\ PlaceFits'
    BY <1>1, <1>2, <1>4, CommandIs
       DEF CreateExec, At, ClosesIfRefused, Fault, AuditFits, PlaceFits, Audited, Paths
  <1> QED
    BY <1>3, <1>4, <1>5 DEF ConsoleInv

LEMMA StartLostKeeps ==
    ASSUME ConsoleInv, StartLost
    PROVE  ConsoleInv'
  <1>1. /\ ConsoleTyped /\ OrderFits /\ TurnFits /\ AuditFits /\ PlaceFits
        /\ command \in ConsoleCommands
    BY DEF ConsoleInv, ConsoleTyped
  <1>2. /\ command'.pc \in {"wait"}
        /\ command' \in ConsoleCommands /\ command'.id = command.id /\ command'.ok = command.ok
        /\ proc' \in Execs /\ proc'.at \in {"prepared", "dispatched"}
    BY <1>1, BreaksIs, ProcessIs DEF ConsoleTyped, StartLost, CommandPlaces, Paths, AfterLostStart
  <1>3. ConsoleTyped'
    BY <1>1, <1>2, CommandIs, ExecIs
       DEF StartLost, ConsoleTyped, At, chanVars, Fault, Asks, AfterLostStart
  <1>4. OrderFits' /\ TurnFits' /\ Ran' = Ran
    BY <1>1, <1>2, QuietKeeps
       DEF StartLost, At, chanVars, Fault, Asks, Coming, Unsent, Paths, AfterLostStart
  <1>5. AuditFits' /\ PlaceFits'
    BY <1>1, <1>2, <1>4, CommandIs
       DEF StartLost, At, chanVars, Fault, Asks, AuditFits, PlaceFits, Audited, Paths,
           AfterLostStart
  <1> QED
    BY <1>3, <1>4, <1>5 DEF ConsoleInv

LEMMA StreamEndsKeeps ==
    ASSUME ConsoleInv, StreamEnds
    PROVE  ConsoleInv'
  <1>1. /\ ConsoleTyped /\ OrderFits /\ TurnFits /\ AuditFits /\ PlaceFits
        /\ command \in ConsoleCommands
    BY DEF ConsoleInv, ConsoleTyped
  <1>2. /\ command'.pc \in {"wait"}
        /\ command' \in ConsoleCommands /\ command'.id = command.id /\ command'.ok = command.ok
    BY <1>1, GotoIs, BreaksIs, CancelledIs DEF StreamEnds, CommandPlaces, Paths
  <1>3. ConsoleTyped'
    BY <1>1, <1>2, CommandIs, ExecIs DEF StreamEnds, ConsoleTyped, At, chanVars, Fault, Asks
  <1>4. OrderFits' /\ TurnFits' /\ Ran' = Ran
    BY <1>1, <1>2, QuietKeeps DEF StreamEnds, At, chanVars, PlaceFits, Fault, Coming, Unsent, Paths
  <1>5. AuditFits' /\ PlaceFits'
    BY <1>1, <1>2, <1>4, CommandIs
       DEF StreamEnds, At, chanVars, Fault, Asks, AuditFits, PlaceFits, Audited, Paths
  <1> QED
    BY <1>3, <1>4, <1>5 DEF ConsoleInv

LEMMA CreateHelperKeeps ==
    ASSUME ConsoleInv, CreateHelper
    PROVE  ConsoleInv'
  <1>1. /\ ConsoleTyped /\ OrderFits /\ TurnFits /\ AuditFits /\ PlaceFits
        /\ command \in ConsoleCommands
    BY DEF ConsoleInv, ConsoleTyped
  <1>2. /\ command'.pc \in {"hstart", "hremove", "result"}
        /\ command' \in ConsoleCommands /\ command'.id = command.id /\ command'.ok = command.ok
    BY <1>1, GotoIs, BreaksIs, CancelledIs DEF CreateHelper, CommandPlaces, Paths
  <1>3. ConsoleTyped'
    BY <1>1, <1>2, CommandIs, ExecIs DEF CreateHelper, ConsoleTyped, At, ClosesIfRefused, Fault
  <1>4. OrderFits' /\ TurnFits' /\ Ran' = Ran
    BY <1>1, <1>2, QuietKeeps DEF CreateHelper, At, ClosesIfRefused, Fault, Coming, Unsent, Paths
  <1>5. AuditFits' /\ PlaceFits'
    BY <1>1, <1>2, <1>4, CommandIs
       DEF CreateHelper, At, ClosesIfRefused, Fault, AuditFits, PlaceFits, Audited, Paths
  <1> QED
    BY <1>3, <1>4, <1>5 DEF ConsoleInv

LEMMA StartConsoleHelperKeeps ==
    ASSUME ConsoleInv, StartConsoleHelper
    PROVE  ConsoleInv'
  <1>1. /\ ConsoleTyped /\ OrderFits /\ TurnFits /\ AuditFits /\ PlaceFits
        /\ command \in ConsoleCommands
    BY DEF ConsoleInv, ConsoleTyped
  <1>2. /\ command'.pc \in {"talk", "hremove"}
        /\ command' \in ConsoleCommands /\ command'.id = command.id /\ command'.ok = command.ok
    BY <1>1, GotoIs, BreaksIs, CancelledIs DEF StartConsoleHelper, CommandPlaces, Paths
  <1>3. ConsoleTyped'
    BY <1>1, <1>2, CommandIs, ExecIs
       DEF StartConsoleHelper, ConsoleTyped, At, ClosesIfRefused, Fault
  <1>4. OrderFits' /\ TurnFits' /\ Ran' = Ran
    BY <1>1, <1>2, QuietKeeps
       DEF StartConsoleHelper, At, ClosesIfRefused, Fault, Coming, Unsent, Paths
  <1>5. AuditFits' /\ PlaceFits'
    BY <1>1, <1>2, <1>4, CommandIs
       DEF StartConsoleHelper, At, ClosesIfRefused, Fault, AuditFits, PlaceFits, Audited, Paths
  <1> QED
    BY <1>3, <1>4, <1>5 DEF ConsoleInv

LEMMA TalkFailsKeeps ==
    ASSUME ConsoleInv, TalkFails
    PROVE  ConsoleInv'
  <1>1. /\ ConsoleTyped /\ OrderFits /\ TurnFits /\ AuditFits /\ PlaceFits
        /\ command \in ConsoleCommands
    BY DEF ConsoleInv, ConsoleTyped
  <1>2. /\ command'.pc \in {"hremove"}
        /\ command' \in ConsoleCommands /\ command'.id = command.id /\ command'.ok = command.ok
    BY <1>1, GotoIs, BreaksIs, CancelledIs DEF TalkFails, CommandPlaces, Paths
  <1>3. ConsoleTyped'
    BY <1>1, <1>2, CommandIs, ExecIs DEF TalkFails, ConsoleTyped, At, chanVars, Fault
  <1>4. OrderFits' /\ TurnFits' /\ Ran' = Ran
    BY <1>1, <1>2, QuietKeeps DEF TalkFails, At, chanVars, Fault, Coming, Unsent, Paths
  <1>5. AuditFits' /\ PlaceFits'
    BY <1>1, <1>2, <1>4, CommandIs
       DEF TalkFails, At, chanVars, Fault, AuditFits, PlaceFits, Audited, Paths
  <1> QED
    BY <1>3, <1>4, <1>5 DEF ConsoleInv

LEMMA RemoveConsoleHelperKeeps ==
    ASSUME ConsoleInv, RemoveConsoleHelper
    PROVE  ConsoleInv'
  <1>1. /\ ConsoleTyped /\ OrderFits /\ TurnFits /\ AuditFits /\ PlaceFits
        /\ command \in ConsoleCommands
    BY DEF ConsoleInv, ConsoleTyped
  <1>2. /\ command'.pc \in {"result"}
        /\ command' \in ConsoleCommands /\ command'.id = command.id /\ command'.ok = command.ok
    BY <1>1, GotoIs, BreaksIs, CancelledIs DEF RemoveConsoleHelper, CommandPlaces, Paths
  <1>3. ConsoleTyped'
    BY <1>1, <1>2, CommandIs, ExecIs DEF RemoveConsoleHelper, ConsoleTyped, At, chanVars
  <1>4. OrderFits' /\ TurnFits' /\ Ran' = Ran
    BY <1>1, <1>2, QuietKeeps DEF RemoveConsoleHelper, At, chanVars, Coming, Unsent, Paths
  <1>5. AuditFits' /\ PlaceFits'
    BY <1>1, <1>2, <1>4, CommandIs
       DEF RemoveConsoleHelper, At, chanVars, AuditFits, PlaceFits, Audited, Paths
  <1> QED
    BY <1>3, <1>4, <1>5 DEF ConsoleInv

LEMMA DirectKeeps ==
    ASSUME ConsoleInv, Direct
    PROVE  ConsoleInv'
  <1>1. /\ ConsoleTyped /\ OrderFits /\ TurnFits /\ AuditFits /\ PlaceFits
        /\ command \in ConsoleCommands
    BY DEF ConsoleInv, ConsoleTyped
  <1>2. /\ command'.pc \in {"direct2", "result"}
        /\ command' \in ConsoleCommands /\ command'.id = command.id /\ command'.ok = command.ok
    BY <1>1, GotoIs, BreaksIs, CancelledIs DEF Direct, CommandPlaces, Paths
  <1>3. ConsoleTyped'
    BY <1>1, <1>2, CommandIs, ExecIs DEF Direct, ConsoleTyped, At, ClosesIfRefused, Fault
  <1>4. OrderFits' /\ TurnFits' /\ Ran' = Ran
    BY <1>1, <1>2, QuietKeeps DEF Direct, At, ClosesIfRefused, Fault, Coming, Unsent, Paths
  <1>5. AuditFits' /\ PlaceFits'
    BY <1>1, <1>2, <1>4, CommandIs
       DEF Direct, At, ClosesIfRefused, Fault, AuditFits, PlaceFits, Audited, Paths
  <1> QED
    BY <1>3, <1>4, <1>5 DEF ConsoleInv

LEMMA CancelCommandKeeps ==
    ASSUME ConsoleInv, CancelCommand
    PROVE  ConsoleInv'
  <1>1. /\ ConsoleTyped /\ OrderFits /\ TurnFits /\ AuditFits /\ PlaceFits
        /\ command \in ConsoleCommands
    BY DEF ConsoleInv, ConsoleTyped
  <1>2. command' \in ConsoleCommands /\ command'.pc = command.pc /\ command'.id = command.id
        /\ command'.ok = command.ok
    BY <1>1, CancelledIs DEF CancelCommand
  <1>3. ConsoleTyped'
    BY <1>1, <1>2, CommandIs, ExecIs
       DEF CancelCommand, ConsoleTyped, At, ClosesIfRefused, Fault, Asks
  <1>4. OrderFits' /\ TurnFits' /\ Ran' = Ran
    BY <1>1, <1>2, QuietKeeps
       DEF CancelCommand, At, ClosesIfRefused, Fault, Asks, Coming, Unsent, Paths
  <1>5. AuditFits' /\ PlaceFits'
    BY <1>1, <1>2, <1>4, CommandIs
       DEF CancelCommand, At, ClosesIfRefused, Fault, Asks, AuditFits, PlaceFits, Audited, Paths
  <1> QED
    BY <1>3, <1>4, <1>5 DEF ConsoleInv

LEMMA DeliverKeeps ==
    ASSUME ConsoleInv, Deliver
    PROVE  ConsoleInv'
  <1>1. /\ ConsoleTyped /\ OrderFits /\ TurnFits /\ AuditFits /\ PlaceFits
        /\ command \in ConsoleCommands
    BY DEF ConsoleInv, ConsoleTyped
  <1>2. command' \in ConsoleCommands /\ command'.pc = command.pc /\ command'.id = command.id
        /\ command'.ok = command.ok
    BY <1>1, CancelledIs DEF Deliver
  <1>3. ConsoleTyped'
    BY <1>1, <1>2, CommandIs, ExecIs DEF Deliver, ConsoleTyped, At, ClosesIfRefused, Fault, Asks
  <1>4. OrderFits' /\ TurnFits' /\ Ran' = Ran
    BY <1>1, <1>2, QuietKeeps DEF Deliver, At, ClosesIfRefused, Fault, Asks, Coming, Unsent, Paths
  <1>5. AuditFits' /\ PlaceFits'
    BY <1>1, <1>2, <1>4, CommandIs
       DEF Deliver, At, ClosesIfRefused, Fault, Asks, AuditFits, PlaceFits, Audited, Paths
  <1> QED
    BY <1>3, <1>4, <1>5 DEF ConsoleInv

\* The locks are taken, or the message is given up before.
LEMMA AcquirePreemptingKeeps ==
    ASSUME ConsoleInv, AcquirePreempting
    PROVE  ConsoleInv'
  <1>1. /\ ConsoleTyped /\ OrderFits /\ TurnFits /\ AuditFits /\ PlaceFits
        /\ command \in ConsoleCommands
    BY DEF ConsoleInv, ConsoleTyped
  <1>2. CASE locked = "none" /\ locked' = "console" /\ Goto("refresh")
    <2>1. command' \in ConsoleCommands /\ command'.pc = "refresh" /\ command'.id = command.id
          /\ command'.ok = command.ok
      BY <1>1, <1>2, GotoIs DEF CommandPlaces
    <2>2. ConsoleTyped'
      BY <1>1, <1>2, <2>1 DEF AcquirePreempting, ConsoleTyped, chanVars
    <2>3. OrderFits' /\ TurnFits' /\ Ran' = Ran
      BY <1>1, <1>2, <2>1, QuietKeeps DEF AcquirePreempting, At, chanVars, Coming, Unsent
    <2>4. AuditFits' /\ PlaceFits'
      BY <1>1, <1>2, <2>1, <2>3 DEF AcquirePreempting, At, AuditFits, PlaceFits, Audited, Paths
    <2> QED
      BY <2>2, <2>3, <2>4 DEF ConsoleInv
  <1>3. CASE command' = NoCommand /\ UNCHANGED locked
    <2>1. ConsoleTyped'
      BY <1>1, <1>3, NoCommandIs DEF AcquirePreempting, ConsoleTyped, chanVars
    <2>2. OrderFits' /\ TurnFits' /\ Ran' = Ran
      BY <1>1, <1>3, NoCommandIs DEF AcquirePreempting, At, chanVars, OrderFits, TurnFits, Ran
    <2>3. AuditFits' /\ PlaceFits'
      BY <1>1, <1>3, <2>2, NoCommandIs
         DEF AcquirePreempting, At, AuditFits, PlaceFits, Audited, Paths
    <2> QED
      BY <2>1, <2>2, <2>3 DEF ConsoleInv
  <1> QED
    BY <1>2, <1>3 DEF AcquirePreempting

LEMMA AuditKeeps ==
    ASSUME ConsoleInv, Audit
    PROVE  ConsoleInv'
  <1>1. /\ ConsoleTyped /\ OrderFits /\ TurnFits /\ AuditFits /\ PlaceFits
        /\ command \in ConsoleCommands
    BY DEF ConsoleInv, ConsoleTyped
  <1>2. /\ command'.pc \in Paths \cup {"result"} /\ command' \in ConsoleCommands
        /\ command'.id = command.id /\ command'.ok = command.ok
    BY <1>1, GotoIs DEF Audit, CommandPlaces
  <1>3. command.id \in 1..MaxCommands
    BY <1>1, ConsoleAssumption DEF Audit, At, TurnFits, ConsoleTyped
  <1>4. ConsoleTyped'
    BY <1>1, <1>2, <1>3 DEF Audit, ConsoleTyped, chanVars
  <1>5. OrderFits' /\ TurnFits' /\ Ran' = Ran
    BY <1>1, <1>2, QuietKeeps DEF Audit, At, chanVars, Coming, Unsent, Paths
  <1>6. saved \subseteq saved' /\ (command'.pc \in Paths => command.id \in saved')
    <2>1. CASE saved' = saved \cup {command.id}
      BY <2>1
    <2>2. CASE Goto("result") /\ UNCHANGED saved
      BY <1>1, <2>2, GotoIs DEF CommandPlaces, Paths
    <2> QED
      BY <2>1, <2>2 DEF Audit
  <1>7. AuditFits'
    BY <1>1, <1>2, <1>5, <1>6 DEF Audit, AuditFits, Audited
  <1>8. PlaceFits'
    BY <1>1, <1>2, <1>5 DEF Audit, At, PlaceFits, Paths
  <1> QED
    BY <1>4, <1>5, <1>7, <1>8 DEF ConsoleInv

\* The command ends.
LEMMA FinishCommandKeeps ==
    ASSUME ConsoleInv, FinishCommand
    PROVE  ConsoleInv'
  <1>1. /\ ConsoleTyped /\ OrderFits /\ TurnFits /\ AuditFits /\ PlaceFits
        /\ command \in ConsoleCommands
    BY DEF ConsoleInv, ConsoleTyped
  <1>2. proc' \in Execs /\ proc'.at \notin {"dispatched", "running", "ended"}
    BY <1>1, NoProcIs DEF FinishCommand, PlaceFits, At, ConsoleTyped
  <1>3. claimed' \subseteq claimed \cup {command.id} /\ (~command.ok => claimed' = claimed)
    BY DEF FinishCommand
  <1>4. command.ok => command.id \in 1..MaxCommands
    BY <1>1, ConsoleAssumption DEF FinishCommand, At, TurnFits, ConsoleTyped
  <1>5. ConsoleTyped'
    BY <1>1, <1>2, <1>3, <1>4, NoCommandIs DEF FinishCommand, ConsoleTyped, chanVars
  <1>6. OrderFits' /\ TurnFits' /\ Ran' = Ran
    BY <1>1, NoCommandIs DEF FinishCommand, At, chanVars, OrderFits, TurnFits, Ran
  <1>7. AuditFits'
    BY <1>1, <1>3, <1>6, NoCommandIs DEF FinishCommand, AuditFits, Audited, Paths
  <1>8. PlaceFits'
    BY <1>1, <1>2, <1>6, NoCommandIs DEF FinishCommand, At, PlaceFits
  <1> QED
    BY <1>5, <1>6, <1>7, <1>8 DEF ConsoleInv

LEMMA WaitForExitKeeps ==
    ASSUME ConsoleInv, WaitForExit
    PROVE  ConsoleInv'
  <1>1. /\ ConsoleTyped /\ OrderFits /\ TurnFits /\ AuditFits /\ PlaceFits
        /\ command \in ConsoleCommands
    BY DEF ConsoleInv, ConsoleTyped
  <1>2. CASE ~ExitKnown
    <2>1. ConsoleTyped'
      BY <1>1, <1>2 DEF WaitForExit, ConsoleTyped, chanVars, Asks
    <2>2. OrderFits' /\ TurnFits' /\ Ran' = Ran
      BY <1>1, <1>2, QuietKeeps DEF WaitForExit, At, chanVars, Coming
    <2>3. AuditFits' /\ PlaceFits'
      BY <1>1, <1>2, <2>2 DEF WaitForExit, At, AuditFits, PlaceFits
    <2> QED
      BY <2>1, <2>2, <2>3 DEF ConsoleInv
  <1>3. CASE ExitKnown
    <2>1. /\ command' \in ConsoleCommands /\ command'.pc = "result" /\ command'.id = command.id
          /\ command'.ok = Succeeded
      <3>1. Succeeded \in BOOLEAN
        BY DEF Succeeded
      <3> QED
        BY <1>1, <1>3, <3>1, AnswersIs DEF WaitForExit, CommandPlaces
    <2>2. ConsoleTyped'
      BY <1>1, <1>3, <2>1 DEF WaitForExit, ConsoleTyped, chanVars
    <2>3. OrderFits' /\ TurnFits' /\ Ran' = Ran
      BY <1>1, <1>3, <2>1, QuietKeeps DEF WaitForExit, At, chanVars, Coming, Unsent, Paths
    <2>4. command'.ok => command.id \in Ran
      BY <1>1, <2>1 DEF Succeeded, PlaceFits
    <2>5. AuditFits'
      BY <1>1, <1>3, <2>1, <2>3, <2>4 DEF WaitForExit, AuditFits, Audited, Paths
    <2>6. PlaceFits'
      BY <1>1, <1>3, <2>1, <2>3 DEF WaitForExit, ExitKnown, At, PlaceFits
    <2> QED
      BY <2>2, <2>3, <2>5, <2>6 DEF ConsoleInv
  <1> QED
    BY <1>2, <1>3

LEMMA HelperResultKeeps ==
    ASSUME ConsoleInv, HelperResult
    PROVE  ConsoleInv'
  <1>1. /\ ConsoleTyped /\ OrderFits /\ TurnFits /\ AuditFits /\ PlaceFits
        /\ command \in ConsoleCommands
    BY DEF ConsoleInv, ConsoleTyped
  <1>2. /\ command' \in ConsoleCommands /\ command'.pc = "hremove" /\ command'.id = command.id
    <2>1. Allowed \in BOOLEAN
      BY <1>1 DEF Allowed, ConsoleTyped
    <2> QED
      BY <1>1, <2>1, AnswersIs DEF HelperResult, CommandPlaces
  <1>3. ConsoleTyped'
    BY <1>1, <1>2 DEF HelperResult, ConsoleTyped, ClosesIfRefused
  <1>4. OrderFits' /\ TurnFits' /\ Ran' = Ran
    BY <1>1, <1>2, QuietKeeps DEF HelperResult, At, Coming, Unsent, Paths
  <1>5. AuditFits'
    BY <1>1, <1>2, <1>4 DEF HelperResult, At, AuditFits, PlaceFits, Audited
  <1>6. PlaceFits'
    BY <1>1, <1>2, <1>4 DEF HelperResult, At, PlaceFits
  <1> QED
    BY <1>3, <1>4, <1>5, <1>6 DEF ConsoleInv

-----------------------------------------------------------------------------
\* A step that sends the command keeps the rest when it leaves it in a place that fits.
LEMMA SentKeeps ==
    ASSUME ConsoleInv, Coming, ~At("idle"), ~Coming', reached' = Append(reached, command.id),
           UNCHANGED <<arrived, input, queue, saved, claimed, locked>>,
           command.id \in saved, command' \in ConsoleCommands, command'.id = command.id,
           command'.pc \in {"stream", "wait", "talk", "result"} /\ command.pc \notin {"idle", "lock"},
           granted' \in BOOLEAN, open' \in BOOLEAN, proc' \in Execs,
           asked' \in {"off", "asking", "asked"},
           \/ speaker' = speaker /\ speaker \in {"none", "late", "created"}
           \/ speaker' = "answered" /\ command'.pc = "talk",
           proc'.at \in {"running", "ended"} => command'.pc \in {"stream", "wait"},
           proc'.at # "dispatched"
    PROVE  ConsoleInv'
  <1>1. ConsoleTyped /\ OrderFits /\ TurnFits /\ AuditFits /\ PlaceFits
    BY DEF ConsoleInv
  <1>2. OrderFits' /\ TurnFits' /\ Ran' = Ran \cup {command.id}
        /\ reached' \in Seq(1..MaxCommands)
    BY <1>1, SendKeeps
  <1>3. ConsoleTyped'
    BY <1>1, <1>2 DEF ConsoleTyped
  <1>4. AuditFits'
    BY <1>1, <1>2 DEF AuditFits
  <1>5. PlaceFits'
    BY <1>1, <1>2 DEF PlaceFits, At
  <1> QED
    BY <1>2, <1>3, <1>4, <1>5 DEF ConsoleInv

\* The steps that send the command.
LEMMA StartExecKeeps ==
    ASSUME ConsoleInv, StartExec
    PROVE  ConsoleInv'
  <1>1. /\ ConsoleTyped /\ OrderFits /\ TurnFits /\ AuditFits /\ PlaceFits
        /\ command \in ConsoleCommands
    BY DEF ConsoleInv, ConsoleTyped
  <1>2. CASE Goto("result") /\ UNCHANGED <<proc, asked, reached>>
    <2>1. command' \in ConsoleCommands /\ command'.pc = "result" /\ command'.id = command.id
          /\ command'.ok = command.ok
      BY <1>1, <1>2, GotoIs DEF CommandPlaces
    <2>2. ConsoleTyped'
      BY <1>1, <1>2, <2>1 DEF StartExec, ConsoleTyped, chanVars
    <2>3. OrderFits' /\ TurnFits' /\ Ran' = Ran
      BY <1>1, <1>2, <2>1, QuietKeeps DEF StartExec, At, chanVars, Coming, Unsent, Paths
    <2>4. AuditFits' /\ PlaceFits'
      BY <1>1, <1>2, <2>1, <2>3 DEF StartExec, At, AuditFits, PlaceFits, Audited, Paths
    <2> QED
      BY <2>2, <2>3, <2>4 DEF ConsoleInv
  <1>3. CASE /\ proc.at = "prepared" /\ proc' = [proc EXCEPT !.at = "running"]
             /\ reached' = Append(reached, command.id)
             /\ IF command.cancelled THEN Asks ELSE UNCHANGED asked
             /\ Goto("stream") /\ UNCHANGED faults
    <2>1. command' \in ConsoleCommands /\ command'.pc = "stream" /\ command'.id = command.id
      BY <1>1, <1>3, GotoIs DEF CommandPlaces
    <2>2. proc' \in Execs /\ proc'.at = "running"
      BY <1>1, <1>3, ProcessIs DEF ConsoleTyped
    <2>3. asked' \in {"off", "asking", "asked"}
      BY <1>1, <1>3 DEF ConsoleTyped, Asks
    <2>4. command.pc = "start" /\ command.id \in saved
      BY <1>1 DEF StartExec, At, AuditFits, Audited
    <2>5. UNCHANGED <<granted, open, arrived, input, queue, locked, saved, speaker, claimed>>
      BY DEF StartExec, chanVars
    <2>6. speaker \in {"none", "late", "created"} /\ granted \in BOOLEAN /\ open \in BOOLEAN
      BY <1>1, <2>4 DEF PlaceFits, ConsoleTyped
    <2>7. Coming /\ ~At("idle") /\ ~Coming'
      BY <2>1, <2>2, <2>4 DEF Coming, Unsent, Paths, At
    <2> QED
      BY <1>3, <2>1, <2>2, <2>3, <2>4, <2>5, <2>6, <2>7, SentKeeps
  <1> QED
    BY <1>2, <1>3 DEF StartExec

LEMMA ProcStartsKeeps ==
    ASSUME ConsoleInv, ProcStarts
    PROVE  ConsoleInv'
  <1>1. /\ ConsoleTyped /\ OrderFits /\ TurnFits /\ AuditFits /\ PlaceFits
        /\ command \in ConsoleCommands
    BY DEF ConsoleInv, ConsoleTyped
  <1>2. command' = command /\ command.pc = "wait" /\ command.id \in saved
    BY <1>1 DEF ProcStarts, PlaceFits, At, AuditFits, Audited
  <1>3. proc' \in Execs /\ proc'.at = "running"
    BY <1>1, ProcessIs DEF ProcStarts, ConsoleTyped
  <1>4. reached' = Append(reached, command.id)
        /\ UNCHANGED <<granted, open, arrived, input, queue, locked, saved, asked, speaker, claimed>>
    BY DEF ProcStarts, chanVars
  <1>5. /\ speaker \in {"none", "late", "created"} /\ granted \in BOOLEAN /\ open \in BOOLEAN
        /\ asked \in {"off", "asking", "asked"}
    BY <1>1, <1>2 DEF PlaceFits, ConsoleTyped
  <1>6. Coming /\ ~At("idle") /\ ~Coming'
    BY <1>2, <1>3 DEF ProcStarts, Coming, Unsent, Paths, At
  <1> QED
    BY <1>1, <1>2, <1>3, <1>4, <1>5, <1>6, SentKeeps

LEMMA AuthorizeKeeps ==
    ASSUME ConsoleInv, Authorize
    PROVE  ConsoleInv'
  <1>1. /\ ConsoleTyped /\ OrderFits /\ TurnFits /\ AuditFits /\ PlaceFits
        /\ command \in ConsoleCommands
    BY DEF ConsoleInv, ConsoleTyped
  <1>2. CASE Allowed /\ speaker = "askCommand"
    <2>1. speaker' = "answered" /\ command' = command /\ command.pc = "talk" /\ command.id \in saved
      BY <1>1, <1>2 DEF Authorize, At, AuditFits, Audited
    <2>2. reached' = Append(reached, command.id)
          /\ UNCHANGED <<granted, arrived, input, queue, locked, saved, proc, asked, claimed>>
      BY <1>2 DEF Authorize
    <2>3. /\ granted \in BOOLEAN /\ open' \in BOOLEAN /\ asked \in {"off", "asking", "asked"}
          /\ proc \in Execs /\ proc.at \notin {"dispatched", "running", "ended"}
      BY <1>1, <2>1 DEF PlaceFits, ConsoleTyped, Authorize, ClosesIfRefused, At
    <2>4. Coming /\ ~At("idle") /\ ~Coming'
      BY <1>2, <2>1 DEF Coming, Unsent, Paths, At
    <2> QED
      BY <1>1, <2>1, <2>2, <2>3, <2>4, SentKeeps
  <1>3. CASE ~(Allowed /\ speaker = "askCommand")
    <2>1. /\ command' \in ConsoleCommands /\ command'.pc \in {"talk", "hremove"}
          /\ command'.id = command.id /\ command'.ok = command.ok /\ At("talk")
          /\ speaker' \in {speaker, "askCommand"} /\ speaker \in {"askCredential", "askCommand"}
      BY <1>1, <1>3, GotoIs DEF Authorize, CommandPlaces, At
    <2>2. UNCHANGED <<granted, arrived, input, queue, locked, saved, proc, asked, claimed, reached>>
      BY <1>3 DEF Authorize
    <2>3. ConsoleTyped'
      BY <1>1, <2>1, <2>2 DEF Authorize, ConsoleTyped, ClosesIfRefused
    <2>4. OrderFits' /\ TurnFits' /\ Ran' = Ran
      BY <1>1, <2>1, <2>2, QuietKeeps DEF At, Coming, Unsent, Paths
    <2>5. AuditFits' /\ PlaceFits'
      BY <1>1, <2>1, <2>2, <2>4 DEF At, AuditFits, PlaceFits, Audited, Paths
    <2> QED
      BY <2>3, <2>4, <2>5 DEF ConsoleInv
  <1> QED
    BY <1>2, <1>3

LEMMA WriteKeeps ==
    ASSUME ConsoleInv, Write
    PROVE  ConsoleInv'
  <1>1. /\ ConsoleTyped /\ OrderFits /\ TurnFits /\ AuditFits /\ PlaceFits
        /\ command \in ConsoleCommands
    BY DEF ConsoleInv, ConsoleTyped
  <1>2. /\ command' \in ConsoleCommands /\ command'.pc = "result" /\ command'.id = command.id
        /\ command.pc \in {"direct2", "stdin"}
        /\ UNCHANGED <<granted, arrived, input, queue, locked, saved, proc, asked, speaker, claimed>>
    BY <1>1, GotoIs, AnswersIs DEF Write, CommandPlaces
  <1>3. CASE reached' = Append(reached, command.id)
    <2>1. command.id \in saved
      BY <1>1, <1>2 DEF AuditFits, Audited, Paths
    <2>2. /\ granted \in BOOLEAN /\ open' \in BOOLEAN /\ asked \in {"off", "asking", "asked"}
          /\ proc \in Execs /\ proc.at \notin {"dispatched", "running", "ended"}
          /\ speaker \in {"none", "late", "created"}
      BY <1>1, <1>2 DEF PlaceFits, ConsoleTyped, Write, ClosesIfRefused, At
    <2>3. Coming /\ ~At("idle") /\ ~Coming'
      BY <1>2 DEF Coming, Unsent, Paths, At
    <2> QED
      BY <1>1, <1>2, <1>3, <2>1, <2>2, <2>3, SentKeeps
  <1>4. CASE reached' = reached /\ command'.ok = command.ok
    <2>1. ConsoleTyped'
      BY <1>1, <1>2, <1>4 DEF Write, ConsoleTyped, ClosesIfRefused
    <2>2. OrderFits' /\ TurnFits' /\ Ran' = Ran
      BY <1>1, <1>2, <1>4, QuietKeeps DEF At, Coming, Unsent, Paths
    <2>3. AuditFits' /\ PlaceFits'
      BY <1>1, <1>2, <1>4, <2>2 DEF At, AuditFits, PlaceFits, Audited, Paths
    <2> QED
      BY <2>1, <2>2, <2>3 DEF ConsoleInv
  <1>5. \/ reached' = Append(reached, command.id)
        \/ reached' = reached /\ command'.ok = command.ok
    <2>1. CASE Goto("result")
      BY <1>1, <2>1, GotoIs DEF Write, CommandPlaces
    <2>2. CASE reached' = Append(reached, command.id)
      BY <2>2
    <2> QED
      BY <2>1, <2>2 DEF Write
  <1> QED
    BY <1>3, <1>4, <1>5

-----------------------------------------------------------------------------
\* Messages arrive, are queued and are taken.
LEMMA ArriveKeeps ==
    ASSUME ConsoleInv, Arrive
    PROVE  ConsoleInv'
  <1>1. ConsoleTyped /\ OrderFits /\ TurnFits /\ AuditFits /\ PlaceFits
    BY DEF ConsoleInv
  <1> DEFINE n == arrived + 1
  <1>2. /\ arrived \in Nat /\ n \in 1..MaxCommands /\ arrived' = n /\ input \in Seq(1..MaxCommands)
        /\ queue \in Seq(1..MaxCommands) /\ reached \in Seq(1..MaxCommands)
    BY <1>1, ConsoleAssumption DEF Arrive, ConsoleTyped
  <1>3. UNCHANGED <<granted, queue, command, locked, saved, proc, asked, speaker, reached, claimed>>
        /\ input' \in {input, Append(input, n)}
    BY DEF Arrive
  <1>4. Rising(input)' /\ input' \in Seq(1..MaxCommands)
    <2>1. Below(input, n)
      BY <1>1, <1>2, ElementsAre DEF OrderFits, UpTo, Below
    <2>2. Rising(input)
      BY <1>1 DEF OrderFits
    <2>3. CASE input' = Append(input, n)
      BY <1>2, <2>1, <2>2, <2>3, AddedRises, AddedIs
    <2>4. CASE input' = input
      BY <1>2, <2>2, <2>4
    <2> QED
      BY <1>3, <2>3, <2>4
  <1>5. \A i \in DOMAIN input' : \/ i \in DOMAIN input /\ input'[i] = input[i]
                                 \/ input'[i] = n
    BY <1>2, <1>3, EachAdded
  <1>6. ASSUME NEW m \in 1..MaxCommands, m <= arrived, Above(input, m)
        PROVE  Above(input', m)
    BY <1>2, <1>5, <1>6 DEF Above
  <1>7. UpTo(reached, n) /\ UpTo(queue, n) /\ UpTo(input', n)
    BY <1>1, <1>2, <1>5, ElementsAre DEF OrderFits, UpTo
  <1>8. OrderFits'
    <2>1. \A i \in DOMAIN reached : reached[i] \in 1..MaxCommands /\ reached[i] <= arrived
      BY <1>1, <1>2, ElementsAre DEF OrderFits, UpTo
    <2>2. \A i \in DOMAIN queue : queue[i] \in 1..MaxCommands /\ queue[i] <= arrived
      BY <1>1, <1>2, ElementsAre DEF OrderFits, UpTo
    <2> QED
      BY <1>1, <1>2, <1>3, <1>4, <1>6, <1>7, <2>1, <2>2 DEF OrderFits
  <1>9. TurnFits'
    <2>1. ~At("idle") => command.id \in 1..MaxCommands /\ command.id <= arrived
                         /\ command.id \in 1..n
      <3>1. CASE At("idle")
        BY <3>1
      <3>2. CASE ~At("idle")
        <4>1. command.id \in 1..arrived
          BY <1>1, <3>2 DEF TurnFits
        <4> QED
          BY <1>2, <4>1, ConsoleAssumption
      <3> QED
        BY <3>1, <3>2
    <2> QED
      BY <1>1, <1>2, <1>3, <1>6, <2>1 DEF TurnFits, At, Coming
  <1>10. ConsoleTyped'
    BY <1>1, <1>2, <1>3, <1>4 DEF Arrive, ConsoleTyped, ClosesIfRefused
  <1>11. AuditFits' /\ PlaceFits'
    BY <1>1, <1>3 DEF AuditFits, PlaceFits, At, Ran
  <1> QED
    BY <1>8, <1>9, <1>10, <1>11 DEF ConsoleInv

LEMMA QueueKeeps ==
    ASSUME ConsoleInv, Queue
    PROVE  ConsoleInv'
  <1>1. ConsoleTyped /\ OrderFits /\ TurnFits /\ AuditFits /\ PlaceFits
    BY DEF ConsoleInv
  <1> DEFINE n == Head(input)
  <1>2. /\ input \in Seq(1..MaxCommands) /\ input # <<>> /\ input' = Tail(input)
        /\ queue \in Seq(1..MaxCommands) /\ reached \in Seq(1..MaxCommands) /\ arrived \in Nat
    BY <1>1 DEF Queue, ConsoleTyped
  <1>3. /\ UNCHANGED <<granted, arrived, command, locked, saved, proc, asked, speaker, reached, claimed>>
        /\ \/ queue' = queue
           \/ Len(queue) < MaxPending /\ queue' = Append(queue, n)
    BY DEF Queue
  <1>4. /\ input' \in Seq(1..MaxCommands) /\ Rising(input') /\ Above(input', n)
        /\ n = input[1] /\ 1 \in DOMAIN input /\ n \in 1..MaxCommands
        /\ \A i \in DOMAIN input' : i + 1 \in DOMAIN input /\ input'[i] = input[i + 1]
    <2>1. Rising(input)
      BY <1>1 DEF OrderFits
    <2>2. Rising(input') /\ Above(input', n)
      BY <1>2, <2>1, RestRises
    <2> QED
      BY <1>2, <2>2, FirstAndRest, ElementsAre
  <1> HIDE DEF n
  <1>5. \A m : Above(input, m) => Above(input', m) /\ m < n
    BY <1>4 DEF Above
  <1>6. UpTo(input', arrived) /\ n <= arrived
    BY <1>1, <1>4 DEF OrderFits, UpTo
  <1>7. Rising(queue') /\ queue' \in Seq(1..MaxCommands) /\ Len(queue') <= MaxPending
    <2>1. Below(queue, n)
      BY <1>1, <1>5 DEF OrderFits, Below
    <2>2. CASE queue' = queue
      BY <1>1, <1>2, <2>2 DEF OrderFits
    <2>3. CASE Len(queue) < MaxPending /\ queue' = Append(queue, n)
      <3>1. Rising(queue)
        BY <1>1 DEF OrderFits
      <3>2. Rising(queue') /\ queue' \in Seq(1..MaxCommands)
        BY <1>2, <1>4, <2>1, <2>3, <3>1, AddedRises, AddedIs
      <3>3. Len(queue') = Len(queue) + 1 /\ Len(queue) \in Nat
        BY <1>2, <1>4, <2>3, AddedIs
      <3> QED
        BY <2>3, <3>2, <3>3, ConsoleAssumption
    <2> QED
      BY <1>3, <2>2, <2>3
  <1>8. \A i \in DOMAIN queue' : \/ i \in DOMAIN queue /\ queue'[i] = queue[i]
                                 \/ queue'[i] = n
    <2>1. CASE queue' = queue
      BY <2>1
    <2>2. CASE queue' = Append(queue, n)
      BY <1>2, <1>4, <2>2, EachAdded
    <2> QED
      BY <1>3, <2>1, <2>2
  <1>9. \A m : Above(queue, m) /\ Above(input, m) => Above(queue', m)
    BY <1>5, <1>8 DEF Above
  <1>10. UpTo(queue', arrived) /\ \A i \in DOMAIN queue' : Above(input', queue'[i])
    BY <1>1, <1>4, <1>5, <1>6, <1>8 DEF OrderFits, UpTo
  <1>11. OrderFits'
    BY <1>1, <1>3, <1>4, <1>5, <1>6, <1>7, <1>9, <1>10 DEF OrderFits
  <1>12. TurnFits'
    BY <1>1, <1>3, <1>5, <1>9 DEF TurnFits, At, Coming
  <1>13. ConsoleTyped'
    BY <1>1, <1>3, <1>4, <1>7 DEF Queue, ConsoleTyped, ClosesIfRefused
  <1>14. AuditFits' /\ PlaceFits'
    BY <1>1, <1>3 DEF AuditFits, PlaceFits, At, Ran
  <1> QED
    BY <1>11, <1>12, <1>13, <1>14 DEF ConsoleInv

LEMMA TakeKeeps ==
    ASSUME ConsoleInv, Take
    PROVE  ConsoleInv'
  <1>1. /\ ConsoleTyped /\ OrderFits /\ TurnFits /\ AuditFits /\ PlaceFits
        /\ command \in ConsoleCommands
    BY DEF ConsoleInv, ConsoleTyped
  <1> DEFINE n == Head(queue)
             c == [NoCommand EXCEPT !.pc = "lock", !.id = Head(queue)]
  <1>2. /\ queue \in Seq(1..MaxCommands) /\ queue # <<>> /\ queue' = Tail(queue) /\ command.pc = "idle"
        /\ input \in Seq(1..MaxCommands) /\ reached \in Seq(1..MaxCommands) /\ arrived \in Nat
        /\ UNCHANGED <<granted, arrived, input, locked, saved, proc, asked, speaker, reached, claimed>>
        /\ command' = command \/ command' = c
    BY <1>1 DEF Take, ConsoleTyped, At
  <1>3. /\ queue' \in Seq(1..MaxCommands) /\ Rising(queue') /\ Above(queue', n)
        /\ Len(queue') <= MaxPending
        /\ n = queue[1] /\ 1 \in DOMAIN queue /\ n \in 1..MaxCommands
        /\ \A i \in DOMAIN queue' : i + 1 \in DOMAIN queue /\ queue'[i] = queue[i + 1]
    BY <1>1, <1>2, FirstAndRest, RestRises, ConsoleAssumption DEF OrderFits
  <1>4. c \in ConsoleCommands /\ c.pc = "lock" /\ c.id = n /\ ~c.ok
    <2>1. n \in 0..MaxCommands
      BY <1>3
    <2> QED
      BY <2>1 DEF NoCommand, ConsoleCommands, CommandPlaces
  <1> HIDE DEF n, c
  <1>5. \A m : Above(queue, m) => Above(queue', m) /\ m < n
    BY <1>3 DEF Above
  <1>6. UpTo(queue', arrived) /\ n <= arrived /\ Above(input, n)
        /\ \A i \in DOMAIN queue' : Above(input, queue'[i])
    BY <1>1, <1>3 DEF OrderFits, UpTo
  <1>7. OrderFits'
    BY <1>1, <1>2, <1>3, <1>5, <1>6 DEF OrderFits
  <1>8. ConsoleTyped'
    BY <1>1, <1>2, <1>3, <1>4 DEF Take, ConsoleTyped, ClosesIfRefused
  <1>9. TurnFits'
    <2>1. CASE command' = command
      BY <1>2, <2>1 DEF TurnFits, At
    <2>2. CASE command' = c
      <3>1. UpTo(reached, n) /\ Below(reached, n)
        <4>1. \A i \in DOMAIN reached : reached[i] < n /\ reached[i] \in Nat
          <5>1. \A i \in DOMAIN reached : Above(queue, reached[i])
            BY <1>1 DEF OrderFits
          <5> QED
            BY <1>2, <1>5, <5>1, ElementsAre
        <4> QED
          BY <1>3, <4>1 DEF UpTo, Below
      <3>2. n \in 1..arrived
        BY <1>2, <1>3, <1>6
      <3> QED
        BY <1>2, <1>3, <1>4, <1>6, <2>2, <3>1, <3>2 DEF TurnFits
    <2> QED
      BY <1>2, <2>1, <2>2
  <1>10. Ran' = Ran
    BY <1>2 DEF Ran
  <1>11. AuditFits' /\ PlaceFits'
    BY <1>1, <1>2, <1>4, <1>10 DEF AuditFits, PlaceFits, At, Audited, Paths
  <1> QED
    BY <1>7, <1>8, <1>9, <1>11 DEF ConsoleInv

-----------------------------------------------------------------------------
LEMMA ConsoleInvInit == ConsoleInit => ConsoleInv
  <1> SUFFICES ASSUME ConsoleInit
               PROVE  ConsoleInv
    OBVIOUS
  <1>1. ConsoleTyped
    BY NoCommandIs, NoProcIs, ConsoleAssumption DEF ConsoleInit, ConsoleTyped
  <1>2. OrderFits
    BY ConsoleAssumption DEF ConsoleInit, OrderFits, Rising, UpTo, Above
  <1>3. TurnFits /\ AuditFits /\ PlaceFits
    BY NoCommandIs, NoProcIs
       DEF ConsoleInit, TurnFits, AuditFits, PlaceFits, At, Ran, Audited, Paths
  <1> QED
    BY <1>1, <1>2, <1>3 DEF ConsoleInv

\* Every step keeps the invariant, which is thus one.
LEMMA ConsoleInvNext == ConsoleInv /\ [ConsoleNext]_consoleVars => ConsoleInv'
  <1>1. ConsoleInv /\ ConsoleNext => ConsoleInv'
    BY RevokeKeeps, WatchKeeps, LeaveKeeps, ArriveKeeps, QueueKeeps, TakeKeeps, CancelCommandKeeps,
       AcquirePreemptingKeeps, RefreshKeeps, AuditKeeps, FinishCommandKeeps, CreateExecKeeps,
       StartExecKeeps, StartLostKeeps, ProcStartsKeeps, ProcEndsKeeps, DeliverKeeps, StreamEndsKeeps,
       WaitForExitKeeps, CancelKeeps, ContainerGoneKeeps, CreateHelperKeeps, CreatedLateKeeps,
       StartConsoleHelperKeeps, HelperAsksKeeps, AuthorizeKeeps, HelperResultKeeps, TalkFailsKeeps,
       RemoveConsoleHelperKeeps, DirectKeeps, WriteKeeps, JobKeeps
       DEF ConsoleNext, Progress
  <1>2. ConsoleInv /\ UNCHANGED consoleVars => ConsoleInv'
    <2> SUFFICES ASSUME ConsoleInv, UNCHANGED consoleVars
                 PROVE  ConsoleInv'
      OBVIOUS
    <2>1. UNCHANGED <<granted, open, arrived, input, queue, command, locked, saved, proc, asked,
                      speaker, reached, claimed>>
      BY DEF consoleVars, chanVars
    <2>2. ConsoleTyped' /\ OrderFits'
      BY <2>1 DEF ConsoleInv, ConsoleTyped, OrderFits
    <2>3. TurnFits' /\ AuditFits' /\ PlaceFits'
      BY <2>1 DEF ConsoleInv, TurnFits, AuditFits, PlaceFits, At, Ran, Coming
    <2> QED
      BY <2>2, <2>3 DEF ConsoleInv
  <1> QED
    BY <1>1, <1>2

LEMMA ConsoleInvHolds == ConsoleSpec => []ConsoleInv
  BY ConsoleInvInit, ConsoleInvNext, PTL DEF ConsoleSpec

\* And it implies the property.
LEMMA CommandsAreConfined == ConsoleInv => CommandsConfined
  <1> SUFFICES ASSUME ConsoleInv
               PROVE  CommandsConfined
    OBVIOUS
  <1>1. ConsoleTyped /\ OrderFits /\ AuditFits /\ PlaceFits
    BY DEF ConsoleInv
  <1>2. ConsoleTypeOK
    BY <1>1, ConsoleTypes
  <1>3. locked # "console" => /\ proc.at \notin {"dispatched", "running"}
                              /\ speaker \in {"none", "late", "created"}
    BY <1>1 DEF PlaceFits, At, ConsoleTyped
  <1>4. \A i \in DOMAIN reached : reached[i] \in saved /\ \A j \in 1..(i - 1) : reached[j] < reached[i]
    BY <1>1 DEF OrderFits, Rising, AuditFits, Ran
  <1>5. claimed \subseteq {reached[i] : i \in DOMAIN reached} /\ Len(queue) <= MaxPending
    BY <1>1 DEF OrderFits, AuditFits, Ran
  <1> QED
    BY <1>2, <1>3, <1>4, <1>5 DEF CommandsConfined

(* When the server's locks are free, or another operation's, no command of *)
(* the session runs or can still start, whatever answers Docker loses and  *)
(* whenever access is revoked; a command reaches the game once, in order   *)
(* and after its start was audited, and is reported as succeeded only if   *)
(* it did (Console): for any numbers of messages and failures and any      *)
(* capacity of the queue.                                                  *)
THEOREM CommandsConfinedHolds == ConsoleSpec => []CommandsConfined
  BY ConsoleInvHolds, CommandsAreConfined, PTL

-----------------------------------------------------------------------------
(* AnswersProve of DockerClient.                                           *)
(*                                                                         *)
(* A caller that waits has one live request with Docker and one that does  *)
(* not wait has none (HeldFits), so an answer belongs to the request it is *)
(* taken for, and what an answer tells stays true of what the caller asked *)
(* (AppliedFits, BoxFits).  A list is current while no request that counts *)
(* is under way, was answered but not counted, or was made late (Settled): *)
(* then nothing changed since it was read (ListFits, CacheFits).           *)

Places == {"idle", "path", "write", "sent", "answer", "returned"}
Requests == {"version", "list", "image", "archive", "create", "pull", "remove", "stop", "exec"}
Bodies == {<<>>, <<"version">>, <<"absent">>, <<"running">>, <<"stopped">>, <<"gone">>, <<"image">>,
           <<"regular">>, <<"link">>, <<"large">>, <<"id">>, <<"stream">>} \cup PullBodies
Successes == {"101", "200", "201", "204"}
Replies == [status : {"none"} \cup Errors \cup Successes, good : BOOLEAN, body : Bodies,
            info : {NoInfo} \cup Engines]
Results == {"none", "ok", "failed", "unknown", "unstarted", "refused", "cleanup"} \cup Errors
Calls == [job : {"none"} \cup Jobs, at : Places, req : {"none"} \cup Requests,
          sent : {"none"} \cup Requests, tries : 0..Attempts, last : BOOLEAN,
          count : 0..MaxWrites, reply : Replies, result : Results]
Held == [by : Caller, req : Requests, version : {0} \cup MinAPI..MaxAPI, live : BOOLEAN,
         begun : BOOLEAN]
Boxes == {"absent", "running", "stopped", "removing", "gone"}

DockerTyped ==
    /\ version \in {0} \cup MinAPI..MaxAPI /\ writes \in 0..MaxWrites
    /\ call \in [Caller -> Calls]
    /\ cache \in [count : 0..MaxWrites, box : {"unknown", "absent", "running", "stopped", "gone"}]
    /\ engine \in Engines /\ box \in Boxes /\ image \in BOOLEAN /\ exec \in {"prepared", "started"}
    /\ held \subseteq Held /\ applied \subseteq Caller /\ servedLate \in BOOLEAN

\* The requests of a job.
RequestsOf(job) ==
    IF job = "CreateHelper" THEN {"create", "pull"}
    ELSE IF job \in Removals THEN {"remove", "stop"} ELSE {First[job]}

\* Docker holds one live request of each caller that waits, and begun removals.
HeldFits ==
    /\ \A r \in held : /\ r.live => call[r.by].at = "sent" /\ r.req = call[r.by].sent
                       /\ r.begun => r.req = "remove" /\ box \in {"removing", "gone"}
    /\ \A r, s \in held : r.live /\ s.live /\ r.by = s.by => r = s
    /\ \A p \in Caller : call[p].at = "sent" => \E r \in held : r.by = p /\ r.live

\* No counted change is under way, or was made late.
Settled ==
    /\ \A r \in held : ~CountsAsWrite(r.req)
    /\ \A p \in Caller : call[p].at \in {"sent", "answer"} => ~CountsAsWrite(call[p].sent)
    /\ ~servedLate

Answered(c) == c.at = "answer" /\ c.sent # "version"

\* What each caller may conclude.
RequestFits(c) ==
    /\ c.at \in {"path", "write", "sent", "answer"} => c.job \in Jobs /\ c.req \in RequestsOf(c.job)
    /\ c.at = "write" => c.req \in Streams
    /\ c.at \in {"sent", "answer"} => c.sent \in {"version", c.req}
    /\ c.at = "answer" /\ c.sent = "pull" => c.reply.body \in PullBodies
AppliedFits(p) ==
    LET c == call[p]
    IN  /\ c.at \in {"write", "sent"} => p \notin applied
        /\ c.at = "answer" /\ c.reply.status \in Errors => p \notin applied
        /\ Answered(c) /\ c.reply.status \in Successes =>
              (p \in applied <=> (c.sent = "pull" => c.reply.body \in Pulled))
        /\ c.at = "returned" /\ c.result \in {"unstarted"} \cup Errors => p \notin applied
        /\ c.at = "returned" /\ c.result = "ok" /\ c.job \notin Removals => p \in applied
BoxFits(c) ==
    /\ c.job \in Removals => box # "absent"
    /\ Answered(c) /\ c.sent = "remove" /\ c.reply.status \in {"404"} \cup Successes => box = "gone"
    /\ c.at = "returned" /\ c.result = "ok" /\ c.job \in Removals => box = "gone"
ListFits(c) ==
    /\ c.count <= writes
    /\ Answered(c) /\ c.sent = "list" /\ c.reply.status \in Successes =>
          /\ c.reply.body \in {<<"absent">>, <<"running">>, <<"stopped">>, <<"gone">>}
          /\ c.count = writes /\ Settled => c.reply.body = <<View>>
CacheFits ==
    /\ cache.count <= writes
    /\ cache.box # "unknown" /\ cache.count = writes /\ Settled => cache.box = View
CallFits(p) == RequestFits(call[p]) /\ AppliedFits(p) /\ BoxFits(call[p]) /\ ListFits(call[p])

ClientInv == DockerTyped /\ HeldFits /\ CacheFits /\ \A p \in Caller : CallFits(p)

OtherCalls(p) == \A q \in Caller : q # p => call'[q] = call[q]
CallsTyped == call \in [Caller -> Calls]

-----------------------------------------------------------------------------
\* The records of a call.
LEMMA CallIs ==
    ASSUME NEW c \in Calls
    PROVE  /\ c.job \in {"none"} \cup Jobs /\ c.at \in Places /\ c.req \in {"none"} \cup Requests
           /\ c.sent \in {"none"} \cup Requests /\ c.tries \in 0..Attempts /\ c.last \in BOOLEAN
           /\ c.count \in 0..MaxWrites /\ c.reply \in Replies /\ c.result \in Results
  BY DEF Calls

LEMMA ReplyIs ==
    ASSUME NEW r \in Replies
    PROVE  /\ r.status \in {"none"} \cup Errors \cup Successes /\ r.good \in BOOLEAN
           /\ r.body \in Bodies /\ r.info \in {NoInfo} \cup Engines
  BY DEF Replies

LEMMA NoReplyIs ==
    NoReply \in Replies /\ NoReply.status = "none" /\ NoReply.body = <<>> /\ NoReply.good = FALSE
  BY DEF NoReply, Replies, Bodies

LEMMA NoCallIs ==
    /\ NoCall \in Calls /\ NoCall.job = "none" /\ NoCall.at = "idle" /\ NoCall.count = 0
    /\ NoCall.reply = NoReply
  <1>1. 0 \in 0..Attempts /\ 0 \in 0..MaxWrites
    BY DockerAssumption
  <1> QED
    BY <1>1, NoReplyIs DEF NoCall, Calls, Places, Results

LEMMA JobsAre ==
    /\ Jobs = {"CreateHelper", "RemoveHelper", "RemoveOperationHelper", "StartExec",
               "ListContainers", "InspectImage", "ReadFile"}
    /\ First["CreateHelper"] = "create" /\ First["RemoveHelper"] = "remove"
    /\ First["RemoveOperationHelper"] = "remove" /\ First["StartExec"] = "exec"
    /\ First["ListContainers"] = "list" /\ First["InspectImage"] = "image"
    /\ First["ReadFile"] = "archive"
  BY DEF Jobs, First

LEMMA FirstIs ==
    ASSUME NEW job \in Jobs
    PROVE  First[job] \in Requests /\ First[job] \in RequestsOf(job) /\ RequestsOf(job) \subseteq Requests
  BY JobsAre DEF RequestsOf, Requests, Removals

\* Only removals send a removal, and what a request is.
LEMMA RequestsAre ==
    ASSUME NEW job \in Jobs, NEW req \in RequestsOf(job)
    PROVE  /\ req = "remove" => job \in Removals
           /\ req # "version"
           /\ job \notin Removals /\ job # "CreateHelper" => req \in {"exec", "list", "image", "archive"}
  BY JobsAre DEF RequestsOf, Removals

LEMMA WritesAre ==
    /\ CountsAsWrite("remove") /\ ~CountsAsWrite("list") /\ ~CountsAsWrite("version")
    /\ ~CountsAsWrite("exec") /\ CountsAsWrite("create") /\ CountsAsWrite("stop")
    /\ CountsAsWrite("pull")
    /\ \A req : req \in ReadRequests \cup Streams <=> ~CountsAsWrite(req)
  BY DEF CountsAsWrite, ReadRequests, JSONReads, Streams

-----------------------------------------------------------------------------
\* What the steps of a call make of it.
LEMMA ReturnIs ==
    ASSUME CallsTyped, NEW p \in Caller, NEW result \in Results, ReturnCall(p, result)
    PROVE  /\ CallsTyped' /\ OtherCalls(p) /\ call'[p].job = call[p].job
           /\ call'[p].at = "returned" /\ call'[p].result = result /\ call'[p].count = 0
  <1> DEFINE c == [NoCall EXCEPT !.job = call[p].job, !.at = "returned", !.result = result]
  <1>1. call[p].job \in {"none"} \cup Jobs
    BY CallIs DEF CallsTyped
  <1>2. /\ c \in Calls /\ c.job = call[p].job /\ c.at = "returned" /\ c.result = result
        /\ c.count = 0
    BY <1>1, NoCallIs DEF Calls, Places
  <1>3. call' = [call EXCEPT ![p] = c]
    BY DEF ReturnCall
  <1> HIDE DEF c
  <1> QED
    BY <1>2, <1>3 DEF CallsTyped, OtherCalls

LEMMA AskIs ==
    ASSUME CallsTyped, NEW p \in Caller, NEW req \in Requests, NEW tries \in 0..Attempts,
           AskDocker(p, req, tries)
    PROVE  /\ CallsTyped' /\ OtherCalls(p) /\ call'[p].job = call[p].job
           /\ call'[p].at = "path" /\ call'[p].req = req /\ call'[p].count = call[p].count
  <1> DEFINE c == [call[p] EXCEPT !.at = "path", !.req = req, !.tries = tries, !.reply = NoReply]
  <1>1. call[p] \in Calls
    BY DEF CallsTyped
  <1>2. /\ c \in Calls /\ c.job = call[p].job /\ c.at = "path" /\ c.req = req
        /\ c.count = call[p].count
    BY <1>1, NoReplyIs DEF Calls, Places
  <1>3. call' = [call EXCEPT ![p] = c]
    BY DEF AskDocker, CallsTyped
  <1> HIDE DEF c
  <1> QED
    BY <1>2, <1>3 DEF CallsTyped, OtherCalls

LEMMA AgainIs ==
    ASSUME CallsTyped, NEW p \in Caller, NEW req \in Requests, NEW last \in BOOLEAN,
           Again(p, req, last)
    PROVE  /\ CallsTyped' /\ OtherCalls(p) /\ call'[p].job = call[p].job
           /\ call'[p].at = "path" /\ call'[p].req = req /\ call'[p].count = call[p].count
  <1> DEFINE c == [call[p] EXCEPT !.at = "path", !.req = req, !.tries = 0, !.last = last,
                                  !.reply = NoReply]
  <1>1. call[p] \in Calls /\ 0 \in 0..Attempts
    BY DockerAssumption DEF CallsTyped
  <1>2. /\ c \in Calls /\ c.job = call[p].job /\ c.at = "path" /\ c.req = req
        /\ c.count = call[p].count
    BY <1>1, NoReplyIs DEF Calls, Places
  <1>3. call' = [call EXCEPT ![p] = c]
    BY DEF Again, CallsTyped
  <1> HIDE DEF c
  <1> QED
    BY <1>2, <1>3 DEF CallsTyped, OtherCalls

\* A request is under way: Docker holds one more.
Request(p, req) ==
    [by |-> p, req |-> req, version |-> IF req = "version" THEN 0 ELSE version,
     live |-> TRUE, begun |-> FALSE]

Sends(p, req) ==
    /\ CallsTyped' /\ OtherCalls(p) /\ call'[p].job = call[p].job
    /\ call'[p].at = "sent" /\ call'[p].sent = req /\ call'[p].req = call[p].req
    /\ call'[p].count = call[p].count
    /\ held' = held \cup {Request(p, req)} /\ Request(p, req) \in Held
    /\ Request(p, req).by = p /\ Request(p, req).req = req
    /\ Request(p, req).live = TRUE /\ Request(p, req).begun = FALSE

LEMMA SendIs ==
    ASSUME DockerTyped, NEW p \in Caller, NEW req \in Requests, SendRequest(p, req)
    PROVE  Sends(p, req)
  <1> DEFINE c == [call[p] EXCEPT !.at = "sent", !.sent = req]
  <1>1. call[p] \in Calls
    BY DEF DockerTyped
  <1>2. /\ c \in Calls /\ c.job = call[p].job /\ c.at = "sent" /\ c.sent = req
        /\ c.req = call[p].req /\ c.count = call[p].count
    BY <1>1 DEF Calls, Places
  <1>3. call' = [call EXCEPT ![p] = c]
    BY DEF SendRequest, DockerTyped
  <1>4. held' = held \cup {Request(p, req)}
    BY DEF SendRequest, Request
  <1>5. (IF req = "version" THEN 0 ELSE version) \in {0} \cup MinAPI..MaxAPI
    BY DEF DockerTyped
  <1>6. /\ Request(p, req) \in Held /\ Request(p, req).by = p /\ Request(p, req).req = req
        /\ Request(p, req).live = TRUE /\ Request(p, req).begun = FALSE
    BY <1>5 DEF Request, Held
  <1> HIDE DEF c
  <1> QED
    BY <1>2, <1>3, <1>4, <1>6 DEF Sends, CallsTyped, OtherCalls, DockerTyped

\* An answer, a lost one, or one that is not what Docker promises.
TakesReply(p, reply) == call' = [call EXCEPT ![p].at = "answer", ![p].reply = reply]

LEMMA TakesReplyIs ==
    ASSUME CallsTyped, NEW p \in Caller, NEW reply \in Replies, TakesReply(p, reply)
    PROVE  /\ CallsTyped' /\ OtherCalls(p) /\ call'[p].job = call[p].job
           /\ call'[p].at = "answer" /\ call'[p].reply = reply /\ call'[p].req = call[p].req
           /\ call'[p].sent = call[p].sent /\ call'[p].count = call[p].count
  <1> DEFINE c == [call[p] EXCEPT !.at = "answer", !.reply = reply]
  <1>1. call[p] \in Calls
    BY DEF CallsTyped
  <1>2. /\ c \in Calls /\ c.job = call[p].job /\ c.at = "answer" /\ c.reply = reply
        /\ c.req = call[p].req /\ c.sent = call[p].sent /\ c.count = call[p].count
    BY <1>1 DEF Calls, Places
  <1>3. call' = [call EXCEPT ![p] = c]
    BY DEF TakesReply, CallsTyped
  <1> HIDE DEF c
  <1> QED
    BY <1>2, <1>3 DEF CallsTyped, OtherCalls

-----------------------------------------------------------------------------
\* What a request can come to.
OutcomeFits(r, o) ==
    /\ o.status \in Errors \cup Successes /\ o.body \in Bodies /\ o.box \in Boxes
    /\ o.image \in BOOLEAN /\ o.exec \in {"prepared", "started"}
    /\ box # "absent" => o.box # "absent"
    /\ box = "gone" => o.box = "gone"
    /\ box \in {"removing", "gone"} => o.box \in {"removing", "gone"}
    /\ ~CountsAsWrite(r.req) => o.box = box
    /\ r.req = "remove" /\ box # "absent" /\ o.status \in {"404"} \cup Successes => o.box = "gone"
    /\ r.req = "pull" => o.body \in PullBodies
    /\ r.req = "list" /\ o.status \in Successes => o.body = <<View>>

EngineTyped == box \in Boxes /\ image \in BOOLEAN /\ exec \in {"prepared", "started"}

LEMMA OutcomeIs ==
    ASSUME NEW st, NEW body, NEW b, NEW i, NEW e
    PROVE  LET o == OutcomeOf(st, body, b, i, e)
           IN  o.status = st /\ o.body = body /\ o.box = b /\ o.image = i /\ o.exec = e
  BY DEF OutcomeOf

LEMMA SameFits ==
    ASSUME EngineTyped, NEW r, NEW st \in Errors \cup Successes, NEW body \in Bodies,
           r.req = "remove" => st \in Errors /\ (st = "404" => box \in {"absent", "gone"}),
           r.req = "pull" => body \in PullBodies,
           r.req = "list" /\ st \in Successes => body = <<View>>
    PROVE  OutcomeFits(r, Same(st, body))
  <1> DEFINE o == Same(st, body)
  <1>1. /\ o.status = st /\ o.body = body /\ o.box = box /\ o.image = image /\ o.exec = exec
    BY OutcomeIs DEF Same
  <1> HIDE DEF o
  <1>2. r.req = "remove" => st \notin Successes
    BY DEF Errors, Successes
  <1>3. OutcomeFits(r, o)
    BY <1>1, <1>2 DEF OutcomeFits, EngineTyped
  <1> QED
    BY <1>3 DEF o

LEMMA FailsFit ==
    ASSUME EngineTyped, NEW r, NEW st \in Errors, NEW o \in FailsWith(st),
           r.req = "remove" /\ st = "404" => box \in {"absent", "gone"}
    PROVE  OutcomeFits(r, o)
  <1>1. o = Same(st, <<>>) /\ <<>> \in Bodies /\ <<>> \in PullBodies /\ st \notin Successes
    BY DEF FailsWith, Bodies, PullBodies, Errors, Successes
  <1> QED
    BY <1>1, SameFits

LEMMA OutcomesFit ==
    ASSUME EngineTyped, NEW r \in Held, NEW o \in Outcomes(r), r.begun => r.req = "remove"
    PROVE  OutcomeFits(r, o)
  <1>1. CASE r.version # 0 /\ r.version \notin engine.least..engine.api
    <2>1. o \in FailsWith("400") /\ "400" \in Errors /\ "400" # "404"
      BY <1>1 DEF Outcomes, Errors
    <2> QED
      BY <2>1, FailsFit
  <1>2. CASE ~(r.version # 0 /\ r.version \notin engine.least..engine.api)
    <2> DEFINE Fits == OutcomeFits(r, o)
    <2> USE <1>2
    <2>0. /\ "404" \in Errors /\ "409" \in Errors /\ "500" \in Errors /\ "304" \in Errors
          /\ "409" # "404" /\ "500" # "404" /\ "304" # "404"
          /\ "101" \in Successes /\ "200" \in Successes /\ "201" \in Successes
          /\ "204" \in Successes
      BY DEF Errors, Successes
    <2>1. CASE r.req = "version"
      <3>1. o = Same("200", <<"version">>) /\ <<"version">> \in Bodies
        BY <2>1 DEF Outcomes, Bodies
      <3> QED
        BY <2>0, <2>1, <3>1, SameFits
    <2>2. CASE r.req = "list"
      <3>1. o = Same("200", <<View>>)
        BY <2>2 DEF Outcomes
      <3>2. View \in {"absent", "running", "stopped", "gone"}
        BY DEF View, EngineTyped, Boxes
      <3>3. <<View>> \in Bodies
        BY <3>2 DEF Bodies
      <3> QED
        BY <2>0, <2>2, <3>1, <3>3, SameFits
    <2>3. CASE r.req = "image"
      <3>1. o = Same("200", <<"image">>) \/ o \in FailsWith("404")
        BY <2>3 DEF Outcomes
      <3>2. <<"image">> \in Bodies
        BY DEF Bodies
      <3> QED
        BY <2>0, <2>3, <3>1, <3>2, SameFits, FailsFit
    <2>4. CASE r.req = "archive"
      <3>1. \/ o \in FailsWith("404")
            \/ \E f \in {"regular", "link", "large"} : o = Same("200", <<f>>)
        BY <2>4 DEF Outcomes
      <3>2. \A f \in {"regular", "link", "large"} : <<f>> \in Bodies
        BY DEF Bodies
      <3> QED
        BY <2>0, <2>4, <3>1, <3>2, SameFits, FailsFit
    <2>5. CASE r.req = "create"
      <3>1. \/ o \in FailsWith("404") \/ o \in FailsWith("409")
            \/ box = "absent" /\ o = OutcomeOf("201", <<"id">>, "running", image, exec)
        BY <2>5 DEF Outcomes
      <3>2. CASE box = "absent" /\ o = OutcomeOf("201", <<"id">>, "running", image, exec)
        <4>1. /\ o.status = "201" /\ o.body = <<"id">> /\ o.box = "running" /\ o.image = image
              /\ o.exec = exec
          BY <3>2, OutcomeIs
        <4>2. <<"id">> \in Bodies /\ CountsAsWrite(r.req)
          BY <2>5, WritesAre DEF Bodies
        <4> QED
          BY <2>0, <2>5, <3>2, <4>1, <4>2 DEF OutcomeFits, EngineTyped, Boxes
      <3> QED
        BY <2>0, <2>5, <3>1, <3>2, FailsFit
    <2>6. CASE r.req = "pull"
      <3>1. \/ o \in FailsWith("404")
            \/ \E b \in PullBodies : o = OutcomeOf("200", b, box, image \/ b \in Pulled, exec)
        BY <2>6 DEF Outcomes
      <3>2. ASSUME NEW b \in PullBodies, o = OutcomeOf("200", b, box, image \/ b \in Pulled, exec)
            PROVE  OutcomeFits(r, o)
        <4>1. /\ o.status = "200" /\ o.body = b /\ o.box = box /\ o.image = (image \/ b \in Pulled)
              /\ o.exec = exec
          BY <3>2, OutcomeIs
        <4>2. b \in Bodies
          BY DEF Bodies
        <4>3. o.image \in BOOLEAN
          BY <4>1
        <4> QED
          BY <2>0, <2>6, <3>2, <4>1, <4>2, <4>3 DEF OutcomeFits, EngineTyped
      <3> QED
        BY <2>0, <2>6, <3>1, <3>2, FailsFit
    <2>7. CASE r.req = "remove"
      <3>1. \/ o = OutcomeOf("204", <<>>, "gone", image, exec)
            \/ box \in {"absent", "gone"} /\ o \in FailsWith("404")
            \/ o \in FailsWith("409") \/ o \in FailsWith("500")
        BY <2>7 DEF Outcomes
      <3>2. CASE o = OutcomeOf("204", <<>>, "gone", image, exec)
        <4>1. /\ o.status = "204" /\ o.body = <<>> /\ o.box = "gone" /\ o.image = image
              /\ o.exec = exec
          BY <3>2, OutcomeIs
        <4>2. <<>> \in Bodies /\ CountsAsWrite(r.req)
          BY <2>7, WritesAre DEF Bodies
        <4> QED
          BY <2>0, <2>7, <4>1, <4>2 DEF OutcomeFits, EngineTyped, Boxes
      <3> QED
        BY <2>0, <2>7, <3>1, <3>2, FailsFit
    <2>8. CASE r.req = "stop"
      <3>1. \/ o \in FailsWith("404") \/ o \in FailsWith("500") \/ o \in FailsWith("304")
            \/ box = "running" /\ o = OutcomeOf("204", <<>>, "stopped", image, exec)
        BY <2>8 DEF Outcomes
      <3>2. CASE box = "running" /\ o = OutcomeOf("204", <<>>, "stopped", image, exec)
        <4>1. /\ o.status = "204" /\ o.body = <<>> /\ o.box = "stopped" /\ o.image = image
              /\ o.exec = exec
          BY <3>2, OutcomeIs
        <4>2. <<>> \in Bodies /\ CountsAsWrite(r.req)
          BY <2>8, WritesAre DEF Bodies
        <4> QED
          BY <2>0, <2>8, <3>2, <4>1, <4>2 DEF OutcomeFits, EngineTyped, Boxes
      <3> QED
        BY <2>0, <2>8, <3>1, <3>2, FailsFit
    <2>9. CASE r.req = "exec"
      <3>1. o \in FailsWith("409") \/ o = OutcomeOf("101", <<"stream">>, box, image, "started")
        BY <2>9 DEF Outcomes
      <3>2. CASE o = OutcomeOf("101", <<"stream">>, box, image, "started")
        <4>1. /\ o.status = "101" /\ o.body = <<"stream">> /\ o.box = box /\ o.image = image
              /\ o.exec = "started"
          BY <3>2, OutcomeIs
        <4>2. <<"stream">> \in Bodies
          BY DEF Bodies
        <4> QED
          BY <2>0, <2>9, <4>1, <4>2 DEF OutcomeFits, EngineTyped
      <3> QED
        BY <2>0, <2>9, <3>1, <3>2, FailsFit
    <2> QED
      BY <2>1, <2>2, <2>3, <2>4, <2>5, <2>6, <2>7, <2>8, <2>9 DEF Held, Requests
  <1> QED
    BY <1>1, <1>2

-----------------------------------------------------------------------------
\* What a step leaves of what others concluded.
BoxStays == (box # "absent" => box' # "absent") /\ (box = "gone" => box' = "gone")
StaysListed == writes' > writes \/ (writes' = writes /\ (Settled' => Settled /\ View' = View))

LEMMA StaysFit ==
    ASSUME DockerTyped, NEW q \in Caller, CallFits(q), call'[q] = call[q],
           q \in applied' <=> q \in applied, BoxStays, StaysListed, writes' \in Nat
    PROVE  CallFits(q)'
  <1>1. RequestFits(call[q])'
    BY DEF CallFits, RequestFits
  <1>2. AppliedFits(q)'
    BY DEF CallFits, AppliedFits
  <1>3. BoxFits(call[q])'
    BY DEF CallFits, BoxFits, BoxStays
  <1>4. call[q].count \in Nat /\ writes \in Nat
    BY CallIs, DockerAssumption DEF DockerTyped
  <1>5. CASE writes' > writes
    BY <1>1, <1>2, <1>3, <1>4, <1>5 DEF CallFits, ListFits
  <1>6. CASE writes' = writes /\ (Settled' => Settled /\ View' = View)
    BY <1>1, <1>2, <1>3, <1>4, <1>6 DEF CallFits, ListFits
  <1> QED
    BY <1>5, <1>6 DEF StaysListed

LEMMA CacheStays ==
    ASSUME DockerTyped, CacheFits, cache' = cache, StaysListed, writes' \in Nat
    PROVE  CacheFits'
  <1>1. cache.count \in Nat /\ writes \in Nat
    BY DockerAssumption DEF DockerTyped
  <1>2. CASE writes' > writes
    BY <1>1, <1>2 DEF CacheFits
  <1>3. CASE writes' = writes /\ (Settled' => Settled /\ View' = View)
    BY <1>1, <1>3 DEF CacheFits
  <1> QED
    BY <1>2, <1>3 DEF StaysListed

-----------------------------------------------------------------------------
\* A step of caller p.
CacheTyped == cache \in [count : 0..MaxWrites, box : {"unknown", "absent", "running", "stopped", "gone"}]
ClientTyped == version \in {0} \cup MinAPI..MaxAPI /\ writes \in 0..MaxWrites /\ held \subseteq Held

LEMMA ClientKeeps ==
    ASSUME ClientInv, NEW p \in Caller, OtherCalls(p), CallsTyped', ClientTyped', HeldFits',
           CallFits(p)', applied' \in {applied, applied \ {p}}, UNCHANGED <<docker, servedLate>>,
           StaysListed, cache' = cache \/ (CacheTyped /\ CacheFits)'
    PROVE  ClientInv'
  <1>1. DockerTyped /\ CacheFits /\ writes' \in Nat
    BY DockerAssumption DEF ClientInv, ClientTyped
  <1>2. UNCHANGED <<engine, box, image, exec, servedLate>>
    BY DEF docker
  <1>3. CacheTyped' /\ CacheFits'
    <2>1. CASE cache' = cache
      BY <1>1, <2>1, CacheStays DEF DockerTyped, CacheTyped
    <2> QED
      BY <2>1
  <1>4. applied' \subseteq Caller
    BY <1>1 DEF DockerTyped
  <1>5. DockerTyped'
    BY <1>1, <1>2, <1>3, <1>4 DEF DockerTyped, CallsTyped, ClientTyped, CacheTyped
  <1>6. BoxStays
    BY <1>2 DEF BoxStays
  <1>7. ASSUME NEW q \in Caller, q # p
        PROVE  CallFits(q)'
    <2>1. CallFits(q) /\ call'[q] = call[q] /\ (q \in applied' <=> q \in applied)
      BY <1>7 DEF ClientInv, OtherCalls
    <2> QED
      BY <1>1, <1>6, <2>1, StaysFit
  <1>8. \A q \in Caller : CallFits(q)'
    BY <1>7
  <1> QED
    BY <1>3, <1>5, <1>8 DEF ClientInv

LEMMA HeldStays ==
    ASSUME DockerTyped, HeldFits, NEW p \in Caller, OtherCalls(p), held' = held, box' = box,
           call[p].at # "sent", call'[p].at # "sent"
    PROVE  HeldFits'
  <1>1. \A r \in held : r.by \in Caller
    BY DEF DockerTyped, Held
  <1>2. \A r \in held : r.live => call'[r.by] = call[r.by]
    BY <1>1 DEF HeldFits, OtherCalls
  <1>3. \A q \in Caller : call'[q].at = "sent" => call[q].at = "sent"
    BY DEF OtherCalls
  <1> QED
    BY <1>2, <1>3 DEF HeldFits

LEMMA SendRequestKeepsHeld ==
    ASSUME DockerTyped, HeldFits, NEW p \in Caller, NEW req \in Requests, OtherCalls(p),
           held' = held \cup {Request(p, req)}, box' = box, Request(p, req).by = p,
           Request(p, req).req = req, Request(p, req).begun = FALSE, Request(p, req).live = TRUE,
           call[p].at # "sent", call'[p].at = "sent", call'[p].sent = req
    PROVE  HeldFits'
  <1> DEFINE n == Request(p, req)
  <1>1. \A r \in held : r.by \in Caller /\ (r.live => r.by # p /\ call'[r.by] = call[r.by])
    BY DEF DockerTyped, Held, HeldFits, OtherCalls
  <1>2. \A r \in held' : r \in held \/ r = n
    OBVIOUS
  <1>3. /\ n \in held' /\ n.by = p /\ n.req = req /\ n.begun = FALSE /\ n.live = TRUE
        /\ held \subseteq held'
    OBVIOUS
  <1> HIDE DEF n
  <1>4. \A r \in held' : /\ r.live => call'[r.by].at = "sent" /\ r.req = call'[r.by].sent
                         /\ r.begun => r.req = "remove" /\ box' \in {"removing", "gone"}
    BY <1>1, <1>2, <1>3 DEF HeldFits
  <1>5. \A r, s \in held' : r.live /\ s.live /\ r.by = s.by => r = s
    BY <1>1, <1>2, <1>3 DEF HeldFits
  <1>6. \A q \in Caller : call'[q].at = "sent" => \E r \in held' : r.by = q /\ r.live
    BY <1>3 DEF HeldFits, OtherCalls
  <1> QED
    BY <1>4, <1>5, <1>6 DEF HeldFits

LEMMA SettledBefore ==
    ASSUME NEW p \in Caller, OtherCalls(p), held \subseteq held', servedLate' = servedLate, Settled',
           call[p].at \in {"sent", "answer"} => ~CountsAsWrite(call[p].sent)
    PROVE  Settled
  <1>1. \A r \in held : ~CountsAsWrite(r.req)
    BY DEF Settled
  <1>2. ASSUME NEW q \in Caller, call[q].at \in {"sent", "answer"}
        PROVE  ~CountsAsWrite(call[q].sent)
    BY <1>2 DEF Settled, OtherCalls
  <1> QED
    BY <1>1, <1>2 DEF Settled

\* A step that changes nothing of Docker and counts nothing.
LEMMA NothingListed ==
    ASSUME NEW p \in Caller, OtherCalls(p), held \subseteq held', servedLate' = servedLate,
           writes' = writes, box' = box,
           call[p].at \in {"sent", "answer"} => ~CountsAsWrite(call[p].sent)
    PROVE  StaysListed
  <1>1. Settled' => Settled
    BY SettledBefore
  <1>2. View' = View
    BY DEF View
  <1> QED
    BY <1>1, <1>2 DEF StaysListed

LEMMA InvIs ==
    ASSUME ClientInv, NEW p \in Caller
    PROVE  /\ DockerTyped /\ HeldFits /\ CacheFits /\ CallFits(p) /\ CallsTyped /\ EngineTyped
           /\ ClientTyped /\ call[p] \in Calls /\ call[p].at \in Places
           /\ call[p].reply \in Replies /\ call[p].count \in 0..MaxWrites /\ writes \in 0..MaxWrites
           /\ call[p].count <= writes /\ call[p].job \in {"none"} \cup Jobs
           /\ call[p].tries \in 0..Attempts /\ call[p].last \in BOOLEAN
  BY CallIs DEF ClientInv, DockerTyped, CallsTyped, EngineTyped, ClientTyped, CallFits, ListFits

\* What a caller that was given up, or returned without an answer, may conclude: nothing.
LEMMA ReturnFits ==
    ASSUME ClientInv, NEW p \in Caller, NEW result \in Results, ReturnCall(p, result),
           box' = box, writes <= writes', applied' = applied, writes' \in Nat,
           result \in {"unstarted"} \cup Errors => p \notin applied,
           result = "ok" /\ call[p].job \notin Removals => p \in applied,
           result = "ok" /\ call[p].job \in Removals => box = "gone"
    PROVE  CallFits(p)'
  <1>1. /\ call'[p].job = call[p].job /\ call'[p].at = "returned" /\ call'[p].result = result
        /\ call'[p].count = 0
    BY InvIs, ReturnIs
  <1>2. call[p].job \in Removals => box # "absent"
    BY InvIs DEF CallFits, BoxFits
  <1>3. RequestFits(call[p])'
    BY <1>1 DEF RequestFits
  <1>4. AppliedFits(p)'
    BY <1>1 DEF AppliedFits, Answered
  <1>5. BoxFits(call[p])'
    BY <1>1, <1>2 DEF BoxFits, Answered
  <1>6. ListFits(call[p])'
    BY <1>1 DEF ListFits, Answered
  <1> QED
    BY <1>3, <1>4, <1>5, <1>6 DEF CallFits

\* A call that goes on with a request of its job.
LEMMA PathFits ==
    ASSUME ClientInv, NEW p \in Caller, call[p].job \in Jobs, call'[p].job = call[p].job,
           call'[p].at = "path", call'[p].req \in RequestsOf(call[p].job),
           call'[p].count = call[p].count, box' = box, writes <= writes', writes' \in Nat
    PROVE  CallFits(p)'
  <1>1. call[p].job \in Removals => box # "absent"
    BY InvIs DEF CallFits, BoxFits
  <1>2. call[p].count <= writes /\ call[p].count \in Nat /\ writes \in Nat
    BY InvIs, DockerAssumption
  <1>3. RequestFits(call[p])'
    BY DEF RequestFits
  <1>4. AppliedFits(p)'
    BY DEF AppliedFits, Answered
  <1>5. BoxFits(call[p])'
    BY <1>1 DEF BoxFits, Answered
  <1>6. ListFits(call[p])'
    BY <1>2 DEF ListFits, Answered
  <1> QED
    BY <1>3, <1>4, <1>5, <1>6 DEF CallFits

\* A call whose request Docker holds.
LEMMA SentFits ==
    ASSUME ClientInv, NEW p \in Caller, call[p].at \in {"path", "write"},
           call'[p].job = call[p].job, call'[p].at = "sent", call'[p].req = call[p].req,
           call'[p].sent \in {"version", call[p].req}, call'[p].count = call[p].count,
           box' = box, writes' = writes, p \notin applied'
    PROVE  CallFits(p)'
  <1>1. call[p].job \in Removals => box # "absent"
    BY InvIs DEF CallFits, BoxFits
  <1>2. call[p].job \in Jobs /\ call[p].req \in RequestsOf(call[p].job) /\ call[p].count <= writes
    BY InvIs DEF CallFits, RequestFits
  <1>3. RequestFits(call[p])'
    BY <1>2 DEF RequestFits
  <1>4. AppliedFits(p)'
    BY DEF AppliedFits, Answered
  <1>5. BoxFits(call[p])'
    BY <1>1 DEF BoxFits, Answered
  <1>6. ListFits(call[p])'
    BY <1>2 DEF ListFits, Answered
  <1> QED
    BY <1>3, <1>4, <1>5, <1>6 DEF CallFits

-----------------------------------------------------------------------------
\* The client's steps.
LEMMA BeginKeeps ==
    ASSUME ClientInv, NEW p \in Caller, NEW job \in Jobs, Begin(p, job)
    PROVE  ClientInv'
  <1> DEFINE c == [NoCall EXCEPT !.job = job, !.at = "path", !.req = First[job], !.count = writes]
  <1>1. /\ First[job] \in Requests /\ First[job] \in RequestsOf(job) /\ writes \in 0..MaxWrites
        /\ job \in Removals => box # "absent"
    BY InvIs, FirstIs DEF Begin
  <1>2. /\ c \in Calls /\ c.job = job /\ c.at = "path" /\ c.req = First[job] /\ c.count = writes
    BY <1>1, NoCallIs DEF Calls, Places
  <1>3. /\ call' = [call EXCEPT ![p] = c] /\ call[p].at \in {"idle", "returned"}
        /\ applied' = applied \ {p}
        /\ UNCHANGED <<version, writes, cache, docker, held, servedLate>>
    BY DEF Begin
  <1>4. UNCHANGED <<engine, box, image, exec>>
    BY <1>3 DEF docker
  <1> HIDE DEF c
  <1>5. CallsTyped' /\ OtherCalls(p) /\ call'[p] = c
    BY <1>2, <1>3, InvIs DEF CallsTyped, OtherCalls
  <1>6. HeldFits'
    BY <1>2, <1>3, <1>4, <1>5, InvIs, HeldStays
  <1>7. CallFits(p)'
    <2>1. writes \in Nat
      BY <1>1, DockerAssumption
    <2>2. RequestFits(call[p])' /\ AppliedFits(p)'
      BY <1>1, <1>2, <1>5 DEF RequestFits, AppliedFits, Answered
    <2>3. BoxFits(call[p])' /\ ListFits(call[p])'
      BY <1>1, <1>2, <1>3, <1>4, <1>5, <2>1 DEF BoxFits, ListFits, Answered
    <2> QED
      BY <2>2, <2>3 DEF CallFits
  <1>8. StaysListed
    BY <1>3, <1>4, <1>5, NothingListed
  <1>9. ClientTyped'
    BY <1>3, InvIs DEF ClientTyped
  <1> QED
    BY <1>3, <1>5, <1>6, <1>7, <1>8, <1>9, ClientKeeps

LEMMA SendRequestKeeps ==
    ASSUME ClientInv, NEW p \in Caller, NEW req \in Requests, SendRequest(p, req),
           call[p].at \in {"path", "write"}, req \in {"version", call[p].req},
           applied' \in {applied, applied \ {p}}, p \notin applied',
           UNCHANGED <<version, writes, cache, docker, servedLate>>
    PROVE  ClientInv'
  <1>1. UNCHANGED <<engine, box, image, exec>>
    BY DEF docker
  <1>2. DockerTyped /\ HeldFits /\ ClientTyped
    BY InvIs
  <1>3. /\ CallsTyped' /\ OtherCalls(p) /\ call'[p].job = call[p].job
        /\ call'[p].at = "sent" /\ call'[p].sent = req /\ call'[p].req = call[p].req
        /\ call'[p].count = call[p].count
        /\ held' = held \cup {Request(p, req)} /\ Request(p, req) \in Held
        /\ Request(p, req).by = p /\ Request(p, req).req = req
        /\ Request(p, req).live = TRUE /\ Request(p, req).begun = FALSE
    <2>1. Sends(p, req)
      BY <1>2, SendIs
    <2> QED
      BY <2>1 DEF Sends
  <1>4. HeldFits'
    BY <1>1, <1>2, <1>3, SendRequestKeepsHeld
  <1>5. CallFits(p)'
    BY <1>1, <1>3, SentFits
  <1>6. StaysListed
    BY <1>1, <1>3, NothingListed
  <1>7. ClientTyped'
    BY <1>2, <1>3 DEF ClientTyped
  <1> QED
    BY <1>3, <1>4, <1>5, <1>6, <1>7, ClientKeeps

LEMMA RequestPathKeeps ==
    ASSUME ClientInv, NEW p \in Caller, RequestPath(p)
    PROVE  ClientInv'
  <1>1. /\ call[p].at = "path" /\ applied' = applied \ {p}
        /\ UNCHANGED <<version, writes, cache, docker, servedLate>>
    BY DEF RequestPath, CallAt
  <1>2. /\ call[p].job \in Jobs /\ call[p].req \in RequestsOf(call[p].job)
        /\ call[p].req \in Requests /\ "version" \in Requests
    BY <1>1, InvIs, FirstIs DEF CallFits, RequestFits, Requests
  <1>3. CASE \E req \in {"version", call[p].req} : SendRequest(p, req)
    BY <1>1, <1>2, <1>3, SendRequestKeeps
  <1>4. CASE /\ call[p].req \in Streams /\ held' = held
             /\ call' = [call EXCEPT ![p].at = "write"]
    <2> DEFINE c == [call[p] EXCEPT !.at = "write"]
    <2>1. call[p] \in Calls
      BY InvIs
    <2>2. /\ c \in Calls /\ c.at = "write" /\ c.job = call[p].job /\ c.req = call[p].req
          /\ c.count = call[p].count
      BY <2>1 DEF Calls, Places
    <2>3. call' = [call EXCEPT ![p] = c]
      BY <1>4, InvIs DEF CallsTyped
    <2> HIDE DEF c
    <2>4. CallsTyped' /\ OtherCalls(p) /\ call'[p] = c
      BY <2>2, <2>3, InvIs DEF CallsTyped, OtherCalls
    <2>5. UNCHANGED <<engine, box, image, exec>>
      BY <1>1 DEF docker
    <2>6. HeldFits'
      BY <1>1, <1>4, <2>2, <2>4, <2>5, InvIs, HeldStays
    <2>7. CallFits(p)'
      <3>1. call[p].job \in Removals => box # "absent"
        BY InvIs DEF CallFits, BoxFits
      <3>2. RequestFits(call[p])' /\ AppliedFits(p)'
        BY <1>1, <1>2, <1>4, <2>2, <2>4 DEF RequestFits, AppliedFits, Answered
      <3>3. BoxFits(call[p])' /\ ListFits(call[p])'
        BY <1>1, <2>2, <2>4, <2>5, <3>1, InvIs DEF BoxFits, ListFits, Answered
      <3> QED
        BY <3>2, <3>3 DEF CallFits
    <2>8. StaysListed
      BY <1>1, <1>4, <2>4, <2>5, NothingListed
    <2>9. ClientTyped'
      BY <1>1, <1>4, InvIs DEF ClientTyped
    <2> QED
      BY <1>1, <2>4, <2>6, <2>7, <2>8, <2>9, ClientKeeps
  <1> QED
    BY <1>3, <1>4 DEF RequestPath

LEMMA AgreedIs ==
    ASSUME NEW info \in {NoInfo} \cup Engines
    PROVE  Agreed(info) \in {0} \cup MinAPI..MaxAPI
  <1>1. info.api \in Nat /\ info.least \in Nat
    BY DockerAssumption DEF NoInfo
  <1> QED
    BY <1>1 DEF Agreed, MinAPI, MaxAPI

LEMMA NegotiateKeeps ==
    ASSUME ClientInv, NEW p \in Caller, Negotiate(p)
    PROVE  ClientInv'
  <1>1. /\ call[p].at = "answer" /\ call[p].sent = "version" /\ applied' = applied
        /\ UNCHANGED <<writes, cache, docker, held, servedLate>>
    BY DEF Negotiate, CallAt, ghost
  <1>2. UNCHANGED <<engine, box, image, exec>>
    BY <1>1 DEF docker
  <1>3. PICK v \in {0} \cup MinAPI..MaxAPI :
           \/ ReturnCall(p, "failed") /\ version' = version
           \/ v # 0 /\ version' = v /\ AskDocker(p, call[p].req, call[p].tries)
    <2>1. Agreed(call[p].reply.info) \in {0} \cup MinAPI..MaxAPI
      BY InvIs, ReplyIs, AgreedIs
    <2> QED
      BY <2>1 DEF Negotiate
  <1>4. /\ call[p].job \in Jobs /\ call[p].req \in RequestsOf(call[p].job)
        /\ call[p].req \in Requests /\ call[p].tries \in 0..Attempts /\ "failed" \in Results
        /\ "failed" \notin {"unstarted", "ok"} \cup Errors /\ writes \in Nat
    BY <1>1, InvIs, FirstIs, DockerAssumption DEF CallFits, RequestFits, Results, Errors
  <1>5. ClientTyped'
    BY <1>1, <1>3, InvIs DEF ClientTyped
  <1>6. CASE ReturnCall(p, "failed")
    <2>1. CallsTyped' /\ OtherCalls(p) /\ call'[p].at = "returned"
      BY <1>4, <1>6, InvIs, ReturnIs
    <2>2. CallFits(p)'
      BY <1>1, <1>2, <1>4, <1>6, ReturnFits
    <2>3. HeldFits'
      BY <1>1, <1>2, <2>1, InvIs, HeldStays
    <2>4. StaysListed
      BY <1>1, <1>2, <2>1, WritesAre, NothingListed
    <2> QED
      BY <1>1, <1>5, <2>1, <2>2, <2>3, <2>4, ClientKeeps
  <1>7. CASE AskDocker(p, call[p].req, call[p].tries)
    <2>1. /\ CallsTyped' /\ OtherCalls(p) /\ call'[p].at = "path" /\ call'[p].req = call[p].req
          /\ call'[p].job = call[p].job /\ call'[p].count = call[p].count
      BY <1>4, <1>7, InvIs, AskIs
    <2>2. CallFits(p)'
      BY <1>1, <1>2, <1>4, <2>1, PathFits
    <2>3. HeldFits'
      BY <1>1, <1>2, <2>1, InvIs, HeldStays
    <2>4. StaysListed
      BY <1>1, <1>2, <2>1, WritesAre, NothingListed
    <2> QED
      BY <1>1, <1>5, <2>1, <2>2, <2>3, <2>4, ClientKeeps
  <1> QED
    BY <1>3, <1>6, <1>7

LEMMA HijackKeeps ==
    ASSUME ClientInv, NEW p \in Caller, Hijack(p)
    PROVE  ClientInv'
  <1>1. /\ call[p].at = "write" /\ applied' = applied
        /\ UNCHANGED <<version, writes, cache, docker, servedLate>>
    BY DEF Hijack, CallAt, ghost
  <1>2. UNCHANGED <<engine, box, image, exec>>
    BY <1>1 DEF docker
  <1>3. /\ call[p].req \in RequestsOf(call[p].job) /\ call[p].req \in Requests /\ p \notin applied
        /\ writes \in Nat
    BY <1>1, InvIs, FirstIs, DockerAssumption DEF CallFits, RequestFits, AppliedFits
  <1>4. CASE SendRequest(p, call[p].req)
    BY <1>1, <1>3, <1>4, SendRequestKeeps
  <1>5. ASSUME NEW result \in {"unknown", "unstarted"}, ReturnCall(p, result), held' = held
        PROVE  ClientInv'
    <2>1. result \in Results /\ result # "ok"
      BY <1>5 DEF Results
    <2>2. CallsTyped' /\ OtherCalls(p) /\ call'[p].at = "returned"
      BY <1>5, <2>1, InvIs, ReturnIs
    <2>3. CallFits(p)'
      BY <1>1, <1>2, <1>3, <1>5, <2>1, ReturnFits
    <2>4. HeldFits'
      BY <1>1, <1>2, <1>5, <2>2, InvIs, HeldStays
    <2>5. StaysListed
      BY <1>1, <1>2, <1>5, <2>2, NothingListed
    <2>6. ClientTyped'
      BY <1>1, <1>5, InvIs DEF ClientTyped
    <2> QED
      BY <1>1, <2>2, <2>3, <2>4, <2>5, <2>6, ClientKeeps
  <1> QED
    BY <1>4, <1>5 DEF Hijack

LEMMA AbandonKeeps ==
    ASSUME ClientInv, NEW p \in Caller, Abandon(p)
    PROVE  ClientInv'
  <1>1. /\ call[p].at = "sent" /\ TakesReply(p, NoReply) /\ applied' = applied
        /\ UNCHANGED <<version, writes, cache, docker, servedLate>>
    BY DEF Abandon, CallAt, TakesReply, ghost
  <1>2. UNCHANGED <<engine, box, image, exec>>
    BY <1>1 DEF docker
  <1>3. DockerTyped /\ HeldFits /\ ClientTyped /\ CallFits(p)
    BY InvIs
  <1>4. /\ CallsTyped' /\ OtherCalls(p) /\ call'[p].job = call[p].job
        /\ call'[p].at = "answer" /\ call'[p].reply = NoReply /\ call'[p].req = call[p].req
        /\ call'[p].sent = call[p].sent /\ call'[p].count = call[p].count
    BY <1>1, NoReplyIs, InvIs, TakesReplyIs
  <1> DEFINE r == CHOOSE x \in held : x.by = p /\ x.live
             n == [r EXCEPT !.live = FALSE]
  <1>5. r \in held /\ r.by = p /\ r.live
    BY <1>1, <1>3 DEF HeldFits
  <1>6. r \in Held /\ r.req = call[p].sent
    BY <1>3, <1>5 DEF DockerTyped, HeldFits
  <1>7. /\ n \in Held /\ n.live = FALSE /\ n.req = r.req /\ n.by = p /\ n.begun = r.begun
    BY <1>5, <1>6 DEF Held
  <1>8. held' = (held \ {r}) \cup {n} \/ held' = held \ {r}
    BY DEF Abandon
  <1> HIDE DEF r, n
  <1>9. \A s \in held' : (s \in held /\ s # r) \/ s = n
    BY <1>8
  <1>10. \A s \in held : s = r \/ s \in held'
    BY <1>8
  <1>11. HeldFits'
    <2>1. \A s \in held : s \in Held /\ s.by \in Caller
      BY <1>3 DEF DockerTyped, Held
    <2>2. \A s \in held' : s.live => s \in held /\ s.by # p /\ call'[s.by] = call[s.by]
      BY <1>3, <1>4, <1>5, <1>7, <1>9, <2>1 DEF HeldFits, OtherCalls
    <2>3. \A s \in held' : s.live => call'[s.by].at = "sent" /\ s.req = call'[s.by].sent
      BY <1>3, <2>2 DEF HeldFits
    <2>4. \A s \in held' : s.begun => s.req = "remove" /\ box' \in {"removing", "gone"}
      BY <1>2, <1>3, <1>5, <1>7, <1>9 DEF HeldFits
    <2>5. \A s, u \in held' : s.live /\ u.live /\ s.by = u.by => s = u
      BY <1>3, <2>2 DEF HeldFits
    <2>6. ASSUME NEW q \in Caller, call'[q].at = "sent"
          PROVE  \E s \in held' : s.by = q /\ s.live
      <3>1. q # p /\ call'[q] = call[q]
        BY <1>4, <2>6 DEF OtherCalls
      <3>2. PICK s \in held : s.by = q /\ s.live
        BY <1>3, <2>6, <3>1 DEF HeldFits
      <3>3. s \in held'
        BY <1>5, <1>10, <3>1, <3>2
      <3> QED
        BY <3>2, <3>3
    <2> QED
      BY <2>3, <2>4, <2>5, <2>6 DEF HeldFits
  <1>12. CallFits(p)'
    <2>1. /\ call[p].job \in Removals => box # "absent"
          /\ call[p].job \in Jobs /\ call[p].req \in RequestsOf(call[p].job)
          /\ call[p].sent \in {"version", call[p].req} /\ call[p].count <= writes
      BY <1>1, <1>3 DEF CallFits, RequestFits, BoxFits, ListFits
    <2>2. "none" \notin Errors /\ "none" \notin Successes /\ "none" # "404" /\ <<>> \in PullBodies
      BY DEF Errors, Successes, PullBodies
    <2>3. RequestFits(call[p])'
      BY <1>4, <2>1, <2>2, NoReplyIs DEF RequestFits
    <2>4. AppliedFits(p)'
      BY <1>4, <2>2, NoReplyIs DEF AppliedFits, Answered
    <2>5. BoxFits(call[p])'
      BY <1>2, <1>4, <2>1, <2>2, NoReplyIs DEF BoxFits, Answered
    <2>6. ListFits(call[p])'
      BY <1>1, <1>4, <2>1, <2>2, NoReplyIs DEF ListFits, Answered
    <2> QED
      BY <2>3, <2>4, <2>5, <2>6 DEF CallFits
  <1>13. StaysListed
    <2>1. ASSUME Settled'
          PROVE  Settled
      <3>1. ~CountsAsWrite(call[p].sent)
        BY <1>4, <2>1 DEF Settled
      <3>2. \A s \in held : ~CountsAsWrite(s.req)
        BY <1>6, <1>10, <2>1, <3>1 DEF Settled
      <3>3. ASSUME NEW q \in Caller, call[q].at \in {"sent", "answer"}
            PROVE  ~CountsAsWrite(call[q].sent)
        BY <1>4, <2>1, <3>1, <3>3 DEF Settled, OtherCalls
      <3> QED
        BY <1>1, <2>1, <3>2, <3>3 DEF Settled
    <2>2. View' = View
      BY <1>2 DEF View
    <2> QED
      BY <1>1, <2>1, <2>2 DEF StaysListed
  <1>14. ClientTyped'
    BY <1>1, <1>3, <1>7, <1>9 DEF ClientTyped
  <1> QED
    BY <1>1, <1>4, <1>11, <1>12, <1>13, <1>14, ClientKeeps

LEMMA LoseKeeps ==
    ASSUME ClientInv, NEW p \in Caller, Lose(p)
    PROVE  ClientInv'
  <1>1. /\ call[p].at = "answer" /\ call[p].reply.status \notin Errors \cup {"none"}
        /\ applied' = applied /\ UNCHANGED <<version, writes, cache, docker, held, servedLate>>
    BY DEF Lose, CallAt, ghost
  <1>2. UNCHANGED <<engine, box, image, exec>>
    BY <1>1 DEF docker
  <1>3. DockerTyped /\ HeldFits /\ ClientTyped /\ CallFits(p) /\ CallsTyped /\ call[p] \in Calls
        /\ call[p].reply \in Replies
    BY InvIs
  <1> DEFINE g == [call[p].reply EXCEPT !.good = FALSE]
  <1>4. g \in Replies /\ g.status = call[p].reply.status /\ g.body = call[p].reply.body
    BY <1>3 DEF Replies
  <1>5. PICK reply \in {NoReply, g} : call' = [call EXCEPT ![p].reply = reply]
    <2>1. CASE call' = [call EXCEPT ![p].reply = NoReply]
      BY <2>1
    <2>2. CASE call' = [call EXCEPT ![p].reply.good = FALSE]
      <3>1. call' = [call EXCEPT ![p].reply = g]
        BY <1>3, <2>2 DEF CallsTyped
      <3> QED
        BY <3>1
    <2> QED
      BY <2>1, <2>2 DEF Lose
  <1>6. /\ reply \in Replies /\ reply.body \in {<<>>, call[p].reply.body}
        /\ \/ reply.status = "none"
           \/ reply.status = call[p].reply.status /\ reply.body = call[p].reply.body
    BY <1>4, <1>5, NoReplyIs
  <1> HIDE DEF g
  <1>7. /\ CallsTyped' /\ OtherCalls(p) /\ call'[p].job = call[p].job
        /\ call'[p].at = "answer" /\ call'[p].reply = reply /\ call'[p].req = call[p].req
        /\ call'[p].sent = call[p].sent /\ call'[p].count = call[p].count
    <2> DEFINE c == [call[p] EXCEPT !.reply = reply]
    <2>1. /\ c \in Calls /\ c.job = call[p].job /\ c.at = call[p].at /\ c.reply = reply
          /\ c.req = call[p].req /\ c.sent = call[p].sent /\ c.count = call[p].count
      BY <1>3, <1>6 DEF Calls
    <2>2. call' = [call EXCEPT ![p] = c]
      BY <1>5 DEF CallsTyped
    <2> HIDE DEF c
    <2> QED
      BY <1>1, <1>3, <2>1, <2>2 DEF CallsTyped, OtherCalls
  <1>8. HeldFits'
    BY <1>1, <1>2, <1>3, <1>7, HeldStays
  <1>9. StaysListed /\ (Settled' => Settled) /\ View' = View
    <2>1. ASSUME Settled' PROVE Settled
      <3>1. ~CountsAsWrite(call[p].sent)
        BY <1>7, <2>1 DEF Settled
      <3> QED
        BY <1>1, <1>7, <2>1, <3>1, SettledBefore
    <2>2. View' = View
      BY <1>2 DEF View
    <2> QED
      BY <1>1, <2>1, <2>2 DEF StaysListed
  <1>10. CallFits(p)'
    <2>1. "none" \notin Errors /\ "none" \notin Successes /\ "none" # "404" /\ <<>> \in PullBodies
      BY DEF Errors, Successes, PullBodies
    <2>2. RequestFits(call[p])'
      BY <1>1, <1>3, <1>6, <1>7, <2>1 DEF CallFits, RequestFits
    <2>3. AppliedFits(p)'
      BY <1>1, <1>3, <1>6, <1>7, <2>1 DEF CallFits, AppliedFits, Answered
    <2>4. BoxFits(call[p])'
      BY <1>1, <1>2, <1>3, <1>6, <1>7, <2>1 DEF CallFits, BoxFits, Answered
    <2>5. ListFits(call[p])'
      <3>1. call[p].reply.status \in Successes /\ reply.status \in Successes =>
               reply.body = call[p].reply.body
        BY <1>6, <2>1
      <3>2. reply.status \in Successes => call[p].reply.status \in Successes
        BY <1>6, <2>1
      <3> QED
        BY <1>1, <1>3, <1>7, <1>9, <3>1, <3>2 DEF CallFits, ListFits, Answered
    <2> QED
      BY <2>2, <2>3, <2>4, <2>5 DEF CallFits
  <1>11. ClientTyped'
    BY <1>1, <1>3 DEF ClientTyped
  <1> QED
    BY <1>1, <1>7, <1>8, <1>9, <1>10, <1>11, ClientKeeps

\* What a pull, a file and an answer mean.
LEMMA PullIs ==
    ASSUME NEW body \in PullBodies
    PROVE  /\ PullResult(body) \in {"ok", "500", "unknown"}
           /\ PullResult(body) = "ok" => body \in Pulled
           /\ PullResult(body) = "500" => body \notin Pulled
  <1>1. CASE body = <<>>
    BY <1>1 DEF PullResult, Pulled
  <1>2. CASE body = <<"progress">>
    <2>1. DOMAIN body = {1} /\ body[1] = "progress"
      BY <1>2
    <2> QED
      BY <1>2, <2>1 DEF PullResult, Pulled
  <1>3. CASE body = <<"progress", "error">>
    <2>1. 2 \in DOMAIN body /\ body[2] = "error"
      BY <1>3
    <2>2. body \notin Pulled
      BY <1>3 DEF Pulled
    <2> QED
      BY <2>1, <2>2 DEF PullResult
  <1>4. CASE body = <<"progress", "cut">>
    <2>1. DOMAIN body = {1, 2} /\ body[1] = "progress" /\ body[2] = "cut"
      BY <1>4
    <2> QED
      BY <1>4, <2>1 DEF PullResult, Pulled, Decoded
  <1>5. CASE body = <<"invalid">>
    <2>1. DOMAIN body = {1} /\ body[1] = "invalid"
      BY <1>5
    <2> QED
      BY <2>1 DEF PullResult, Decoded
  <1> QED
    BY <1>1, <1>2, <1>3, <1>4, <1>5 DEF PullBodies

ResultFits(req, reply, result) ==
    /\ result \in Results \ {"unstarted"}
    /\ result \in Errors => \/ reply.status = result
                            \/ req = "pull" /\ reply.status \in Successes /\ reply.body \notin Pulled
    /\ result = "ok" => reply.status \in Successes /\ (req = "pull" => reply.body \in Pulled)

LEMMA ResultIs ==
    ASSUME NEW req, NEW reply \in Replies, req = "pull" => reply.body \in PullBodies
    PROVE  ResultFits(req, reply, Result(req, reply))
  <1> DEFINE result == Result(req, reply)
  <1>1. /\ reply.status \in {"none"} \cup Errors \cup Successes
        /\ \A e \in Errors : e \in Results \ {"unstarted"} /\ e # "ok"
        /\ {"unknown", "ok", "refused"} \subseteq Results \ {"unstarted"}
        /\ "unknown" \notin Errors /\ "ok" \notin Errors /\ "refused" \notin Errors
        /\ "500" \in Errors
    BY ReplyIs DEF Results, Errors
  <1>2. CASE reply.status \in {"none"} \cup Errors
    <2>1. result \in {"unknown", reply.status} /\ (result # "unknown" => reply.status \in Errors)
      BY <1>2 DEF Result
    <2> HIDE DEF result
    <2>2. ResultFits(req, reply, result)
      BY <1>1, <1>2, <2>1 DEF ResultFits
    <2> QED
      BY <2>2 DEF result
  <1>3. CASE reply.status \notin {"none"} \cup Errors
    <2>1. \/ result = "unknown"
          \/ req = "pull" /\ result = PullResult(reply.body)
          \/ req # "pull" /\ result \in {"ok", "refused"}
      BY <1>3 DEF Result, FileResult
    <2> HIDE DEF result
    <2>2. reply.status \in Successes
      BY <1>1, <1>3
    <2>3. ASSUME req = "pull", result = PullResult(reply.body)
          PROVE  ResultFits(req, reply, result)
      BY <1>1, <2>2, <2>3, PullIs DEF ResultFits
    <2>4. ResultFits(req, reply, result)
      BY <1>1, <2>1, <2>2, <2>3 DEF ResultFits
    <2> QED
      BY <2>4 DEF result
  <1> QED
    BY <1>2, <1>3

\* What an answer makes of a call: a result that is true, or a request of its job.
CallGoesOn(p) ==
    \/ \E result \in Results :
          /\ ReturnCall(p, result)
          /\ result \in {"unstarted"} \cup Errors => p \notin applied
          /\ result = "ok" /\ call[p].job \notin Removals => p \in applied
          /\ result = "ok" /\ call[p].job \in Removals => box = "gone"
    \/ \E req \in RequestsOf(call[p].job), tries \in 0..Attempts : AskDocker(p, req, tries)
    \/ \E req \in RequestsOf(call[p].job), last \in BOOLEAN : Again(p, req, last)

LEMMA GoesOnFits ==
    ASSUME ClientInv, NEW p \in Caller, CallGoesOn(p), call[p].job \in Jobs, box' = box,
           writes <= writes', applied' = applied, writes' \in Nat
    PROVE  /\ CallsTyped' /\ OtherCalls(p) /\ call'[p].at \in {"path", "returned"}
           /\ CallFits(p)'
  <1>1. CallsTyped
    BY InvIs
  <1>2. ASSUME NEW result \in Results, ReturnCall(p, result),
               result \in {"unstarted"} \cup Errors => p \notin applied,
               result = "ok" /\ call[p].job \notin Removals => p \in applied,
               result = "ok" /\ call[p].job \in Removals => box = "gone"
        PROVE  /\ CallsTyped' /\ OtherCalls(p) /\ call'[p].at \in {"path", "returned"}
               /\ CallFits(p)'
    <2>1. CallFits(p)'
      BY <1>2, ReturnFits
    <2> QED
      BY <1>1, <1>2, <2>1, ReturnIs
  <1>3. ASSUME NEW req \in RequestsOf(call[p].job), CallsTyped', OtherCalls(p),
               call'[p].job = call[p].job, call'[p].at = "path", call'[p].req = req,
               call'[p].count = call[p].count
        PROVE  /\ CallsTyped' /\ OtherCalls(p) /\ call'[p].at \in {"path", "returned"}
               /\ CallFits(p)'
    <2>1. CallFits(p)'
      BY <1>3, PathFits
    <2> QED
      BY <1>3, <2>1
  <1>4. RequestsOf(call[p].job) \subseteq Requests
    BY FirstIs
  <1>5. ASSUME NEW req \in RequestsOf(call[p].job), NEW tries \in 0..Attempts,
               AskDocker(p, req, tries)
        PROVE  /\ CallsTyped' /\ OtherCalls(p) /\ call'[p].at \in {"path", "returned"}
               /\ CallFits(p)'
    BY <1>1, <1>3, <1>4, <1>5, AskIs
  <1>6. ASSUME NEW req \in RequestsOf(call[p].job), NEW last \in BOOLEAN, Again(p, req, last)
        PROVE  /\ CallsTyped' /\ OtherCalls(p) /\ call'[p].at \in {"path", "returned"}
               /\ CallFits(p)'
    BY <1>1, <1>3, <1>4, <1>6, AgainIs
  <1> QED
    BY <1>2, <1>5, <1>6 DEF CallGoesOn

LEMMA CreateGoesOn ==
    ASSUME NEW p \in Caller, NEW result \in Results \ {"unstarted"}, AfterCreate(p, result),
           call[p].job = "CreateHelper",
           result \in Errors => p \notin applied, result = "ok" => p \in applied
    PROVE  CallGoesOn(p)
  <1>1. /\ "pull" \in RequestsOf(call[p].job) /\ "create" \in RequestsOf(call[p].job)
        /\ call[p].job \notin Removals /\ 0 \in 0..Attempts
    BY DockerAssumption DEF RequestsOf, Removals
  <1> QED
    BY <1>1 DEF AfterCreate, CallGoesOn

LEMMA RemoveGoesOn ==
    ASSUME NEW p \in Caller, NEW result \in Results \ {"unstarted"}, AfterRemove(p, result),
           call[p].job \in Removals, call[p].tries \in 0..Attempts,
           call[p].req = "remove" /\ Gone(result) => box = "gone"
    PROVE  CallGoesOn(p)
  <1>1. /\ "remove" \in RequestsOf(call[p].job) /\ "stop" \in RequestsOf(call[p].job)
        /\ 0 \in 0..Attempts /\ "ok" \in Results /\ "ok" \notin {"unstarted"} \cup Errors
        /\ "cleanup" \in Results /\ "cleanup" \notin {"unstarted", "ok"} \cup Errors
    BY DockerAssumption DEF RequestsOf, Removals, Results, Errors
  <1>2. CASE Unremoved(p)
    BY <1>1, <1>2 DEF Unremoved, CallGoesOn
  <1>3. CASE call[p].req = "remove" /\ Gone(result) /\ ReturnCall(p, "ok")
    BY <1>1, <1>3 DEF CallGoesOn
  <1>4. CASE call[p].tries < Attempts /\ AskDocker(p, "remove", call[p].tries + 1)
    <2>1. call[p].tries + 1 \in 0..Attempts
      BY <1>4, DockerAssumption
    <2> QED
      BY <1>1, <1>4, <2>1 DEF CallGoesOn
  <1>5. CASE AskDocker(p, "stop", 0)
    BY <1>1, <1>5 DEF CallGoesOn
  <1>6. CASE Again(p, "remove", TRUE)
    BY <1>1, <1>6 DEF CallGoesOn
  <1> QED
    BY <1>2, <1>3, <1>4, <1>5, <1>6 DEF AfterRemove

LEMMA TakeAnswerKeeps ==
    ASSUME ClientInv, NEW p \in Caller, TakeAnswer(p)
    PROVE  ClientInv'
  <1> DEFINE result == Result(call[p].req, call[p].reply)
  <1>1. /\ call[p].at = "answer" /\ call[p].sent # "version" /\ applied' = applied
        /\ UNCHANGED <<version, docker, held, servedLate>> /\ WriteCounted(p)
        /\ CASE call[p].job = "CreateHelper" -> AfterCreate(p, result)
             [] call[p].job \in Removals -> AfterRemove(p, result)
             [] OTHER -> ReturnCall(p, result)
        /\ cache' = IF call[p].req = "list" /\ result = "ok"
                    THEN [count |-> call[p].count, box |-> call[p].reply.body[1]] ELSE cache
    BY DEF TakeAnswer, CallAt, ghost
  <1>2. UNCHANGED <<engine, box, image, exec>>
    BY <1>1 DEF docker
  <1>3. DockerTyped /\ HeldFits /\ ClientTyped /\ CallFits(p) /\ call[p].reply \in Replies
    BY InvIs
  <1>4. /\ call[p].job \in Jobs /\ call[p].req \in RequestsOf(call[p].job)
        /\ call[p].sent = call[p].req /\ Answered(call[p])
        /\ call[p].req = "pull" => call[p].reply.body \in PullBodies
    BY <1>1, <1>3 DEF CallFits, RequestFits, Answered
  <1>5. ResultFits(call[p].req, call[p].reply, result)
    BY <1>3, <1>4, ResultIs
  <1> HIDE DEF result
  <1>6. writes \in Nat /\ writes' \in 0..MaxWrites /\ writes' \in Nat /\ writes <= writes'
    BY <1>1, InvIs, DockerAssumption DEF WriteCounted
  <1>7. result \in Errors => p \notin applied
    BY <1>1, <1>3, <1>4, <1>5 DEF ResultFits, CallFits, AppliedFits
  <1>8. result = "ok" => p \in applied
    BY <1>3, <1>4, <1>5 DEF ResultFits, CallFits, AppliedFits
  <1>9. call[p].req = "remove" /\ Gone(result) => box = "gone"
    <2>1. "404" \in Errors
      BY DEF Errors
    <2> QED
      BY <1>3, <1>4, <1>5, <2>1 DEF ResultFits, CallFits, BoxFits, Gone
  <1>10. CallGoesOn(p)
    <2>1. result \in Results \ {"unstarted"} /\ call[p].tries \in 0..Attempts
      BY <1>5, InvIs DEF ResultFits
    <2>2. CASE call[p].job = "CreateHelper"
      <3>1. call[p].job \notin Removals
        BY <2>2 DEF Removals
      <3>2. AfterCreate(p, result)
        BY <1>1, <2>2, <3>1
      <3> QED
        BY <1>7, <1>8, <2>1, <2>2, <3>2, CreateGoesOn
    <2>3. CASE call[p].job \in Removals
      <3>1. call[p].job # "CreateHelper"
        BY <2>3 DEF Removals
      <3>2. AfterRemove(p, result)
        BY <1>1, <2>3, <3>1
      <3> QED
        BY <1>9, <2>1, <2>3, <3>2, RemoveGoesOn
    <2>4. CASE call[p].job # "CreateHelper" /\ call[p].job \notin Removals
      <3>1. ReturnCall(p, result)
        BY <1>1, <2>4
      <3> QED
        BY <1>7, <1>8, <2>1, <2>4, <3>1 DEF CallGoesOn
    <2> QED
      BY <2>2, <2>3, <2>4
  <1>11. CallsTyped' /\ OtherCalls(p) /\ call'[p].at \in {"path", "returned"} /\ CallFits(p)'
    BY <1>1, <1>2, <1>4, <1>6, <1>10, GoesOnFits
  <1>12. HeldFits'
    BY <1>1, <1>2, <1>3, <1>11, HeldStays
  <1>13. StaysListed
    <2>1. CASE CountsAsWrite(call[p].req)
      BY <1>1, <1>6, <2>1 DEF WriteCounted, StaysListed
    <2>2. CASE ~CountsAsWrite(call[p].req)
      <3>1. writes' = writes
        BY <1>1, <2>2 DEF WriteCounted
      <3> QED
        BY <1>1, <1>2, <1>4, <1>11, <2>2, <3>1, NothingListed
    <2> QED
      BY <2>1, <2>2
  <1>14. cache' = cache \/ (CacheTyped /\ CacheFits)'
    <2>1. CASE ~(call[p].req = "list" /\ result = "ok")
      BY <1>1, <2>1
    <2>2. CASE call[p].req = "list" /\ result = "ok"
      <3>1. /\ cache' = [count |-> call[p].count, box |-> call[p].reply.body[1]]
            /\ call[p].reply.status \in Successes
        BY <1>1, <1>5, <2>2 DEF ResultFits
      <3>2. /\ call[p].reply.body \in {<<"absent">>, <<"running">>, <<"stopped">>, <<"gone">>}
            /\ call[p].count = writes /\ Settled => call[p].reply.body = <<View>>
            /\ call[p].count <= writes
        BY <1>3, <1>4, <2>2, <3>1 DEF CallFits, ListFits
      <3>3. call[p].reply.body[1] \in {"absent", "running", "stopped", "gone"}
        BY <3>2
      <3>4. call[p].count = writes /\ Settled => call[p].reply.body[1] = View
        BY <3>2
      <3>5. writes' = writes /\ (Settled' => Settled) /\ View' = View
        <4>1. writes' = writes
          BY <1>1, <2>2, WritesAre DEF WriteCounted
        <4>2. Settled' => Settled
          BY <1>1, <1>4, <1>11, <2>2, WritesAre, SettledBefore
        <4>3. View' = View
          BY <1>2 DEF View
        <4> QED
          BY <4>1, <4>2, <4>3
      <3>6. cache'.count = call[p].count /\ cache'.box = call[p].reply.body[1]
        BY <3>1
      <3>7. call[p].count \in 0..MaxWrites
        BY InvIs
      <3>8. CacheTyped'
        BY <3>1, <3>3, <3>7 DEF CacheTyped
      <3>9. CacheFits'
        BY <3>2, <3>4, <3>5, <3>6 DEF CacheFits
      <3> QED
        BY <3>8, <3>9
    <2> QED
      BY <2>1, <2>2
  <1>15. ClientTyped'
    BY <1>1, <1>3, <1>6 DEF ClientTyped
  <1> QED
    BY <1>1, <1>11, <1>12, <1>13, <1>14, <1>15, ClientKeeps

-----------------------------------------------------------------------------
\* Docker's steps.
DockerTypedSteps ==
    /\ engine \in Engines /\ EngineTyped /\ held \subseteq Held /\ servedLate \in BOOLEAN

\* A step of Docker keeps what everybody concluded who is not answered by it.
LEMMA DockerKeeps ==
    ASSUME ClientInv, CallsTyped', DockerTypedSteps', HeldFits', BoxStays, StaysListed,
           applied' \subseteq Caller, UNCHANGED <<version, writes, cache>>,
           \A p \in Caller : \/ CallFits(p)'
                             \/ call'[p] = call[p] /\ (p \in applied' <=> p \in applied)
    PROVE  ClientInv'
  <1>1. DockerTyped /\ CacheFits /\ writes' \in Nat
    BY DockerAssumption DEF ClientInv, DockerTyped
  <1>2. CacheFits'
    BY <1>1, CacheStays
  <1>3. DockerTyped'
    BY <1>1 DEF DockerTyped, CallsTyped, DockerTypedSteps, EngineTyped
  <1>4. ASSUME NEW p \in Caller
        PROVE  CallFits(p)'
    <2>1. CASE call'[p] = call[p] /\ (p \in applied' <=> p \in applied)
      BY <1>1, <2>1, StaysFit DEF ClientInv
    <2> QED
      BY <2>1
  <1> QED
    BY <1>2, <1>3, <1>4 DEF ClientInv

LEMMA UpgradeKeeps ==
    ASSUME ClientInv, Upgrade
    PROVE  ClientInv'
  <1>1. /\ engine' \in Engines /\ applied' = applied
        /\ UNCHANGED <<version, writes, call, cache, box, image, exec, held, servedLate>>
    BY DEF Upgrade, ghost
  <1>2. DockerTyped /\ HeldFits /\ CallsTyped /\ EngineTyped /\ applied \subseteq Caller
    BY DEF ClientInv, DockerTyped, CallsTyped, EngineTyped
  <1>3. CallsTyped' /\ DockerTypedSteps'
    BY <1>1, <1>2 DEF DockerTyped, DockerTypedSteps, CallsTyped, EngineTyped
  <1>4. HeldFits'
    BY <1>1, <1>2 DEF HeldFits
  <1>5. Settled' => Settled
    BY <1>1 DEF Settled
  <1>6. StaysListed /\ BoxStays
    BY <1>1, <1>5 DEF StaysListed, BoxStays, View
  <1> QED
    BY <1>1, <1>2, <1>3, <1>4, <1>6, DockerKeeps

LEMMA RemovingKeeps ==
    ASSUME ClientInv, NEW r \in held, Removing(r)
    PROVE  ClientInv'
  <1> DEFINE n == [r EXCEPT !.begun = TRUE]
  <1>1. /\ r.req = "remove" /\ box \in {"running", "stopped"} /\ box' = "removing"
        /\ held' = (held \ {r}) \cup {n} /\ applied' = applied
        /\ UNCHANGED <<version, writes, call, cache, engine, image, exec, servedLate>>
    BY DEF Removing, ghost
  <1>2. /\ DockerTyped /\ HeldFits /\ CallsTyped /\ EngineTyped /\ applied \subseteq Caller
        /\ r \in Held /\ held \subseteq Held
    BY DEF ClientInv, DockerTyped, CallsTyped, EngineTyped
  <1>3. n \in Held /\ n.req = "remove" /\ n.by = r.by /\ n.live = r.live
    BY <1>1, <1>2 DEF Held
  <1> HIDE DEF n
  <1>4. \A s \in held' : (s \in held /\ s # r) \/ s = n
    BY <1>1
  <1>5. CallsTyped' /\ DockerTypedSteps'
    BY <1>1, <1>2, <1>3, <1>4 DEF DockerTyped, DockerTypedSteps, CallsTyped, EngineTyped, Boxes
  <1>6. HeldFits'
    <2>1. \A s \in held' : /\ s.live => call'[s.by].at = "sent" /\ s.req = call'[s.by].sent
                           /\ s.begun => s.req = "remove" /\ box' \in {"removing", "gone"}
      BY <1>1, <1>2, <1>3, <1>4 DEF HeldFits
    <2>2. \A s, u \in held' : s.live /\ u.live /\ s.by = u.by => s = u
      BY <1>2, <1>3, <1>4 DEF HeldFits
    <2>3. ASSUME NEW q \in Caller, call'[q].at = "sent"
          PROVE  \E s \in held' : s.by = q /\ s.live
      <3>1. PICK s \in held : s.by = q /\ s.live
        BY <1>1, <1>2, <2>3 DEF HeldFits
      <3>2. CASE s = r
        BY <1>1, <1>3, <3>1, <3>2
      <3>3. CASE s # r
        BY <1>1, <3>1, <3>3
      <3> QED
        BY <3>2, <3>3
    <2> QED
      BY <2>1, <2>2, <2>3 DEF HeldFits
  <1>7. ~Settled'
    BY <1>1, <1>3, WritesAre DEF Settled
  <1>8. StaysListed /\ BoxStays
    BY <1>1, <1>7 DEF StaysListed, BoxStays
  <1> QED
    BY <1>1, <1>2, <1>5, <1>6, <1>8, DockerKeeps

\* What Docker makes of a request, for a caller that waits or one that does not.
ServedFor(r, o) ==
    /\ held' = held \ {r} /\ box' = o.box /\ image' = o.image /\ exec' = o.exec
    /\ UNCHANGED <<version, writes, cache, engine>>

LEMMA ServedIs ==
    ASSUME ClientInv, NEW r \in held, NEW o \in Outcomes(r), ServedFor(r, o)
    PROVE  /\ OutcomeFits(r, o) /\ BoxStays /\ r \in Held /\ EngineTyped' /\ held' \subseteq Held
           /\ ~CountsAsWrite(r.req) => box' = box
           /\ \A s \in held' : s.begun => s.req = "remove" /\ box' \in {"removing", "gone"}
  <1>1. DockerTyped /\ HeldFits /\ EngineTyped /\ r \in Held
    BY DEF ClientInv, DockerTyped, EngineTyped
  <1>2. OutcomeFits(r, o)
    BY <1>1, OutcomesFit DEF HeldFits
  <1>3. BoxStays
    BY <1>2 DEF OutcomeFits, BoxStays, ServedFor
  <1>4. EngineTyped' /\ held' \subseteq Held
    BY <1>1, <1>2 DEF OutcomeFits, EngineTyped, ServedFor, DockerTyped
  <1>5. ~CountsAsWrite(r.req) => box' = box
    BY <1>2 DEF OutcomeFits, ServedFor
  <1>6. \A s \in held' : s.begun => s.req = "remove" /\ box' \in {"removing", "gone"}
    BY <1>1, <1>2 DEF OutcomeFits, ServedFor, HeldFits
  <1> QED
    BY <1>1, <1>2, <1>3, <1>4, <1>5, <1>6

\* Its caller had given up: nobody is answered.
LEMMA ServedLateKeeps ==
    ASSUME ClientInv, NEW r \in held, NEW o \in Outcomes(r), ServedFor(r, o), ~r.live,
           call' = call, applied' = applied,
           servedLate' = (servedLate \/ r.req \notin ReadRequests)
    PROVE  ClientInv'
  <1>1. /\ DockerTyped /\ HeldFits /\ CallsTyped /\ applied \subseteq Caller
        /\ held' = held \ {r} /\ UNCHANGED <<version, writes, cache, engine>>
    BY DEF ClientInv, DockerTyped, CallsTyped, ServedFor
  <1>2. /\ BoxStays /\ EngineTyped' /\ held' \subseteq Held
        /\ ~CountsAsWrite(r.req) => box' = box
        /\ \A s \in held' : s.begun => s.req = "remove" /\ box' \in {"removing", "gone"}
    BY ServedIs
  <1>3. CallsTyped' /\ DockerTypedSteps'
    BY <1>1, <1>2 DEF DockerTyped, DockerTypedSteps, CallsTyped
  <1>4. HeldFits'
    <2>1. \A s \in held' : s.live => call'[s.by].at = "sent" /\ s.req = call'[s.by].sent
      BY <1>1 DEF HeldFits
    <2>2. \A s, u \in held' : s.live /\ u.live /\ s.by = u.by => s = u
      BY <1>1 DEF HeldFits
    <2>3. \A q \in Caller : call'[q].at = "sent" => \E s \in held' : s.by = q /\ s.live
      BY <1>1 DEF HeldFits
    <2> QED
      BY <1>2, <2>1, <2>2, <2>3 DEF HeldFits
  <1>5. StaysListed
    <2>1. CASE ~Settled'
      BY <1>1, <2>1 DEF StaysListed
    <2>2. CASE Settled'
      <3>1. ~servedLate /\ r.req \in ReadRequests
        BY <2>2 DEF Settled
      <3>2. ~CountsAsWrite(r.req)
        BY <3>1, WritesAre
      <3>3. Settled
        BY <1>1, <2>2, <3>1, <3>2 DEF Settled
      <3>4. View' = View
        BY <1>2, <3>2 DEF View
      <3> QED
        BY <1>1, <3>3, <3>4 DEF StaysListed
    <2> QED
      BY <2>1, <2>2
  <1> QED
    BY <1>1, <1>2, <1>3, <1>4, <1>5, DockerKeeps

\* Its caller is answered.
LEMMA AnswerIs ==
    ASSUME DockerTyped, NEW r, NEW o, OutcomeFits(r, o)
    PROVE  Reply(r, o) \in Replies /\ Reply(r, o).status = o.status /\ Reply(r, o).body = o.body
  <1>1. (IF r.req = "version" THEN engine ELSE NoInfo) \in {NoInfo} \cup Engines
    BY DEF DockerTyped
  <1> QED
    BY <1>1 DEF Reply, Replies, OutcomeFits

LEMMA ServedLiveKeeps ==
    ASSUME ClientInv, NEW r \in held, NEW o \in Outcomes(r), ServedFor(r, o), r.live,
           TakesReply(r.by, Reply(r, o)), servedLate' = servedLate,
           applied' = IF Effective(r, o) THEN applied \cup {r.by} ELSE applied
    PROVE  ClientInv'
  <1> DEFINE p == r.by
  <1>1. /\ DockerTyped /\ HeldFits /\ CallsTyped /\ applied \subseteq Caller
        /\ held' = held \ {r} /\ box' = o.box /\ UNCHANGED <<version, writes, cache, engine>>
        /\ held \subseteq Held
    BY DEF ClientInv, DockerTyped, CallsTyped, ServedFor
  <1>2. /\ OutcomeFits(r, o) /\ BoxStays /\ EngineTyped' /\ held' \subseteq Held
        /\ ~CountsAsWrite(r.req) => box' = box
        /\ \A s \in held' : s.begun => s.req = "remove" /\ box' \in {"removing", "gone"}
    BY ServedIs
  <1>3. p \in Caller /\ call[p].at = "sent" /\ call[p].sent = r.req
    BY <1>1 DEF Held, HeldFits
  <1> DEFINE reply == Reply(r, o)
  <1>4. reply \in Replies /\ reply.status = o.status /\ reply.body = o.body
    BY <1>1, <1>2, AnswerIs
  <1>5. /\ CallsTyped' /\ OtherCalls(p) /\ call'[p].job = call[p].job
        /\ call'[p].at = "answer" /\ call'[p].reply = reply /\ call'[p].req = call[p].req
        /\ call'[p].sent = call[p].sent /\ call'[p].count = call[p].count
    BY <1>1, <1>3, <1>4, TakesReplyIs
  <1> HIDE DEF reply
  <1>6. applied' \subseteq Caller /\ \A q \in Caller : q # p => (q \in applied' <=> q \in applied)
    BY <1>1, <1>3
  <1>7. DockerTypedSteps'
    BY <1>1, <1>2 DEF DockerTyped, DockerTypedSteps
  <1>8. HeldFits'
    <2>1. \A s \in held' : s.live => s \in held /\ s.by # p /\ call'[s.by] = call[s.by]
      BY <1>1, <1>5 DEF HeldFits, OtherCalls, Held
    <2>2. \A s \in held' : s.live => call'[s.by].at = "sent" /\ s.req = call'[s.by].sent
      BY <1>1, <2>1 DEF HeldFits
    <2>3. \A s, u \in held' : s.live /\ u.live /\ s.by = u.by => s = u
      BY <1>1 DEF HeldFits
    <2>4. ASSUME NEW q \in Caller, call'[q].at = "sent"
          PROVE  \E s \in held' : s.by = q /\ s.live
      <3>1. q # p /\ call[q].at = "sent"
        BY <1>5, <2>4 DEF OtherCalls
      <3>2. PICK s \in held : s.by = q /\ s.live
        BY <1>1, <3>1 DEF HeldFits
      <3> QED
        BY <1>1, <3>1, <3>2
    <2> QED
      BY <1>2, <2>2, <2>3, <2>4 DEF HeldFits
  <1>9. ASSUME Settled'
        PROVE  Settled /\ View' = View
    <2>1. ~CountsAsWrite(r.req)
      BY <1>3, <1>5, <1>9 DEF Settled
    <2>2. \A s \in held : ~CountsAsWrite(s.req)
      BY <1>1, <1>9, <2>1 DEF Settled
    <2>3. ASSUME NEW q \in Caller, call[q].at \in {"sent", "answer"}
          PROVE  ~CountsAsWrite(call[q].sent)
      BY <1>3, <1>5, <1>9, <2>1, <2>3 DEF Settled, OtherCalls
    <2>4. Settled
      BY <1>9, <2>2, <2>3 DEF Settled
    <2>5. View' = View
      BY <1>2, <2>1 DEF View
    <2> QED
      BY <2>4, <2>5
  <1>10. StaysListed
    BY <1>1, <1>9 DEF StaysListed
  <1>11. CallFits(p)'
    <2>1. /\ call[p].job \in Jobs /\ call[p].req \in RequestsOf(call[p].job) /\ p \notin applied
          /\ r.req \in {"version", call[p].req} /\ call[p].count <= writes
          /\ call[p].job \in Removals => box # "absent"
      BY <1>3 DEF ClientInv, CallFits, RequestFits, AppliedFits, BoxFits, ListFits
    <2>2. \A st \in Successes : st \notin Errors
      BY DEF Successes, Errors
    <2>3. RequestFits(call[p])'
      BY <1>2, <1>3, <1>4, <1>5, <2>1 DEF RequestFits, OutcomeFits
    <2>4. AppliedFits(p)'
      <3>1. o.status \in Errors => p \notin applied'
        BY <2>1 DEF Effective
      <3>2. o.status \in Successes => (p \in applied' <=> (r.req = "pull" => o.body \in Pulled))
        BY <2>1, <2>2 DEF Effective
      <3> QED
        BY <1>3, <1>4, <1>5, <3>1, <3>2 DEF AppliedFits, Answered
    <2>5. BoxFits(call[p])'
      <3>1. call[p].job \in Removals => box' # "absent"
        BY <1>2, <2>1 DEF BoxStays
      <3>2. r.req = "remove" => box # "absent"
        BY <2>1, RequestsAre
      <3>3. r.req = "remove" /\ o.status \in {"404"} \cup Successes => box' = "gone"
        BY <1>1, <1>2, <3>2 DEF OutcomeFits
      <3> QED
        BY <1>3, <1>4, <1>5, <3>1, <3>3 DEF BoxFits, Answered
    <2>6. ListFits(call[p])'
      <3>1. ASSUME r.req = "list", o.status \in Successes
            PROVE  /\ o.body \in {<<"absent">>, <<"running">>, <<"stopped">>, <<"gone">>}
                   /\ Settled' => o.body = <<View'>>
        <4>1. o.body = <<View>>
          BY <1>2, <3>1 DEF OutcomeFits
        <4>2. View \in {"absent", "running", "stopped", "gone"}
          BY <1>1 DEF View, DockerTyped, Boxes
        <4> QED
          BY <1>9, <4>1, <4>2
      <3> QED
        BY <1>1, <1>3, <1>4, <1>5, <2>1, <3>1 DEF ListFits, Answered
    <2> QED
      BY <2>3, <2>4, <2>5, <2>6 DEF CallFits
  <1>12. \A q \in Caller : \/ CallFits(q)'
                           \/ call'[q] = call[q] /\ (q \in applied' <=> q \in applied)
    BY <1>5, <1>6, <1>11 DEF OtherCalls
  <1> QED
    BY <1>1, <1>2, <1>5, <1>6, <1>7, <1>8, <1>10, <1>12, DockerKeeps

LEMMA ServeKeeps ==
    ASSUME ClientInv, NEW r \in held, Serve(r)
    PROVE  ClientInv'
  <1>1. r \in Held /\ r.live \in BOOLEAN
    BY DEF ClientInv, DockerTyped, Held
  <1>2. PICK o \in Outcomes(r) :
           /\ ServedFor(r, o)
           /\ applied' = IF r.live /\ Effective(r, o) THEN applied \cup {r.by} ELSE applied
           /\ servedLate' = (servedLate \/ (~r.live /\ r.req \notin ReadRequests))
           /\ call' = IF ~r.live THEN call
                      ELSE [call EXCEPT ![r.by].at = "answer", ![r.by].reply = Reply(r, o)]
    BY DEF Serve, ServedFor
  <1>3. servedLate \in BOOLEAN
    BY DEF ClientInv, DockerTyped
  <1>4. CASE r.live
    <2>1. TakesReply(r.by, Reply(r, o))
      BY <1>2, <1>4 DEF TakesReply
    <2>2. servedLate' = servedLate
      BY <1>2, <1>3, <1>4
    <2>3. applied' = IF Effective(r, o) THEN applied \cup {r.by} ELSE applied
      BY <1>2, <1>4
    <2> QED
      BY <1>2, <1>4, <2>1, <2>2, <2>3, ServedLiveKeeps
  <1>5. CASE ~r.live
    <2>1. servedLate' = (servedLate \/ r.req \notin ReadRequests)
      BY <1>2, <1>5
    <2>2. call' = call /\ applied' = applied
      BY <1>2, <1>5
    <2> QED
      BY <1>2, <1>5, <2>1, <2>2, ServedLateKeeps
  <1> QED
    BY <1>4, <1>5

-----------------------------------------------------------------------------
LEMMA ClientInvInit == DockerInit => ClientInv
  <1> SUFFICES ASSUME DockerInit
               PROVE  ClientInv
    OBVIOUS
  <1>1. /\ version = 0 /\ writes = 0 /\ call = [p \in Caller |-> NoCall]
        /\ cache = [count |-> 0, box |-> "unknown"]
        /\ engine \in Engines /\ image \in BOOLEAN /\ exec = "prepared" /\ box \in {"absent", "running"}
        /\ held = {} /\ applied = {} /\ servedLate = FALSE
    BY DEF DockerInit
  <1>2. 0 \in 0..MaxWrites
    BY DockerAssumption
  <1>3. /\ NoCall \in Calls /\ NoCall.job = "none" /\ NoCall.at = "idle" /\ NoCall.count = 0
        /\ "none" \notin Removals
    BY NoCallIs DEF Removals
  <1>4. DockerTyped
    BY <1>1, <1>2, <1>3 DEF DockerTyped, Boxes
  <1>5. HeldFits
    BY <1>1, <1>3 DEF HeldFits
  <1>6. CacheFits
    BY <1>1 DEF CacheFits
  <1>7. ASSUME NEW p \in Caller
        PROVE  CallFits(p)
    BY <1>1, <1>3 DEF CallFits, RequestFits, AppliedFits, BoxFits, ListFits, Answered
  <1> QED
    BY <1>4, <1>5, <1>6, <1>7 DEF ClientInv

LEMMA ClientInvNext == ClientInv /\ [DockerNext]_clientVars => ClientInv'
  <1>1. ClientInv /\ DockerNext => ClientInv'
    BY ServeKeeps, RemovingKeeps, UpgradeKeeps, BeginKeeps, RequestPathKeeps, NegotiateKeeps,
       HijackKeeps, AbandonKeeps, LoseKeeps, TakeAnswerKeeps DEF DockerNext
  <1>2. ClientInv /\ UNCHANGED clientVars => ClientInv'
    BY DEF clientVars, docker, ghost, ClientInv, DockerTyped, HeldFits, CacheFits, CallFits,
           RequestFits, AppliedFits, BoxFits, ListFits, Answered, Settled, View
  <1> QED
    BY <1>1, <1>2

LEMMA ClientInvHolds == DockerSpec => []ClientInv
  BY ClientInvInit, ClientInvNext, PTL DEF DockerSpec

LEMMA AnswersAreProofs == ClientInv => AnswersProve
  <1> SUFFICES ASSUME ClientInv
               PROVE  AnswersProve
    OBVIOUS
  <1>1. DockerTyped /\ HeldFits /\ CacheFits /\ \A p \in Caller : CallFits(p)
    BY DEF ClientInv
  <1>2. DockerTypeOK
    <2>1. \A p \in Caller : call[p].at \in Places /\ call[p].tries \in 0..Attempts
      BY InvIs
    <2>2. \A r \in held : r.by \in Caller /\ r.live \in BOOLEAN /\ r.begun \in BOOLEAN
      BY <1>1 DEF DockerTyped, Held
    <2> QED
      BY <1>1, <2>1, <2>2 DEF DockerTypeOK, DockerTyped, Places, Boxes
  <1>3. ASSUME NEW p \in Caller, CallAt(p, "returned")
        PROVE  /\ call[p].result \in {"unstarted"} \cup Errors =>
                     p \notin applied /\ ~\E r \in held : r.by = p /\ r.live
               /\ call[p].result = "ok" /\ call[p].job \notin Removals => p \in applied
               /\ call[p].result = "ok" /\ call[p].job \in Removals => box = "gone"
    <2>1. call[p].at = "returned"
      BY <1>3 DEF CallAt
    <2>2. ~\E r \in held : r.by = p /\ r.live
      BY <1>1, <2>1 DEF HeldFits
    <2>3. AppliedFits(p) /\ BoxFits(call[p])
      BY <1>1 DEF CallFits
    <2> QED
      BY <2>1, <2>2, <2>3 DEF AppliedFits, BoxFits
  <1>4. ASSUME ~Changing, ~Uncounted, ~servedLate
        PROVE  Settled
    <2>1. \A r \in held : ~CountsAsWrite(r.req)
      BY <1>4, WritesAre DEF Changing
    <2> QED
      BY <1>4, <2>1 DEF Uncounted, Settled
  <1>5. cache.box # "unknown" /\ cache.count = writes /\ ~Changing /\ ~Uncounted /\ ~servedLate =>
           cache.box = View
    BY <1>1, <1>4 DEF CacheFits
  <1> QED
    BY <1>2, <1>3, <1>5 DEF AnswersProve

(* Whatever Docker is asked, whenever a caller gives up, an answer is lost *)
(* or the Engine is another, a caller that is told of an error, of a       *)
(* success or of a list may rely on it (DockerClient): for any number of   *)
(* callers, versions, attempts and failures.                               *)
THEOREM AnswersProveHolds == DockerSpec => []AnswersProve
  BY ClientInvHolds, AnswersAreProofs, PTL

=============================================================================
