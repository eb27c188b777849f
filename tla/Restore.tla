------------------------------ MODULE Restore ------------------------------
(***************************************************************************)
(* A restore operation: runRestore, its rollback and its recovery          *)
(* (internal/jobs/restore.go), the stop and start around it                *)
(* (internal/jobs/data.go) and the file moves of the helper container      *)
(* (internal/helper/restore.go), for one server with several data roots.   *)
(*                                                                         *)
(* Ludock and the helper are two processes.  Ludock saves its journal,     *)
(* sends the helper one command at a time and waits; the helper works one  *)
(* directory entry at a time and goes on when Ludock crashes, until        *)
(* recovery removes it.  Any step may fail, and Ludock may crash between   *)
(* any two steps.  Another manager may start the server meanwhile.         *)
(*                                                                         *)
(* Simplifications: an entry is a name and the version of its content; a   *)
(* write to the database either happens or does not; the safety backup, a  *)
(* permission check and the preparation of a helper are single steps that  *)
(* succeed or fail; a server started by another manager writes nothing.    *)
(***************************************************************************)
EXTENDS Naturals

CONSTANTS Last,        \* how many data roots the server has
          OldNames,    \* the entries of each root before the restore
          NewNames,    \* the entries of each root in the backup
          MaxCrashes,  \* bound: crashes of Ludock
          MaxExternal  \* bound: starts and stops that are not Ludock's

ASSUME RestoreAssumption == Last \in Nat \ {0} /\ MaxCrashes \in Nat /\ MaxExternal \in Nat

Versions == {"old", "new"}
Files == (OldNames \X {"old"}) \cup (NewNames \X {"new"})
Original == OldNames \X {"old"}
Backup == NewNames \X {"new"}
Roots == 1..Last  \* in the order of the backup

VARIABLES
    \* saved in the operation's row: survives a crash
    row,     \* "running" or "finished"
    status,  \* restoreRecovery.Status
    phase,   \* journal.Phase of each root
    rec,     \* the other fields of ops.Recovery
    \* Ludock's memory
    pc, mode, at,  \* `at' is the root it, and the helper, work on
    \* the helper container and its command
    helper, cmd,
    \* the data: each root, and in its stage directory `old' and `new'
    root, stage, old, new,
    \* the server's container
    running, started, starter,
    sent,    \* history: the starts Ludock sent
    crashes, externals

savedVars == <<row, status, phase, rec>>
dataVars == <<root, stage, old, new>>
serverVars == <<running, started, starter, sent>>
boundVars == <<crashes, externals>>
vars == <<savedVars, pc, mode, at, helper, cmd, dataVars, serverVars, boundVars>>

Statuses == {"none", "staging", "replacing", "rolling_back", "committed", "cleaned", "rolled_back"}
Phases == {"staging", "moving_old", "old_moved", "replaced", "rolling_back", "rolled_back"}
Commands == {"stage", "extract", "moveOld", "moveNew", "rollbackClean", "rollbackOld", "cleanup"}
NoCmd == [op |-> "none", state |-> "none"]

\* The steps of Ludock that send the helper a command, and the command.
OpOf == [step \in Commands \cup {"rbCleanup"} |-> IF step = "rbCleanup" THEN "cleanup" ELSE step]

\* The steps of Ludock between the commands, in the order of the code.
RunSteps == {"init", "stop", "stopped", "safety", "staging", "helper", "ready", "staged",
             "replacing", "moving_old", "old_moved", "replaced", "committed", "cleaned"}
RollbackSteps == {"rbHelper", "rbSave", "rbCheck", "rbPersist", "rbDone", "rbFinish"}
RecoverSteps == {"rcHelpers", "rcCheck", "rcHelper"}
EndSteps == {"ending", "restoreState", "start", "restored", "finish"}
Steps == RunSteps \cup RollbackSteps \cup RecoverSteps \cup EndSteps \cup DOMAIN OpOf
            \cup {"down", "done"}

TypeOK ==
    /\ row \in {"running", "finished"}
    /\ status \in Statuses
    /\ phase \in [Roots -> Phases]
    /\ rec \in [initial : {"unset", "yes", "no"}, initialAt : Nat, settled : BOOLEAN, stoppedAt : Nat,
                startRequested : BOOLEAN, stateRestored : BOOLEAN]
    /\ pc \in Steps
    /\ mode \in {"run", "recover", "failed"}
    /\ at \in Roots
    /\ helper \in {"none", "running", "stopped"}
    /\ cmd \in [op : Commands \cup {"none"}, state : {"none", "working", "ok", "failed"}]
    /\ root \in [Roots -> SUBSET Files]
    /\ old \in [Roots -> SUBSET Files]
    /\ new \in [Roots -> SUBSET Files]
    /\ stage \in [Roots -> {"absent", "partial", "ready"}]
    /\ running \in BOOLEAN
    /\ started \in Nat
    /\ starter \in {"before", "ludock", "other"}
    /\ sent \in Nat
    /\ crashes \in 0..MaxCrashes /\ externals \in 0..MaxExternal

Init ==
    /\ row = "running" /\ status = "none" /\ phase = [r \in Roots |-> "staging"]
    /\ rec = [initial |-> "unset", initialAt |-> 0, settled |-> FALSE, stoppedAt |-> 0,
              startRequested |-> FALSE, stateRestored |-> FALSE]
    /\ pc = "init" /\ mode = "run" /\ at = 1
    /\ helper = "none" /\ cmd = NoCmd
    /\ root = [r \in Roots |-> Original]
    /\ old = [r \in Roots |-> {}] /\ new = [r \in Roots |-> {}]
    /\ stage = [r \in Roots |-> "absent"]
    /\ running \in BOOLEAN /\ started = 1 /\ starter = "before" /\ sent = 0
    /\ crashes = 0 /\ externals = 0

----------------------------------------------------------------------------
(* The helper: one directory entry per step *)

Working(op) == helper = "running" /\ cmd = [op |-> op, state |-> "working"]
Finished == cmd' = [cmd EXCEPT !.state = "ok"]

NameIn(f, dir) == \E g \in dir : g[1] = f[1]

\* moveContents from one directory to another: it refuses a name that exists.
Move(from, to) ==
    \E f \in from[at] :
        /\ ~NameIn(f, to[at])
        /\ from' = [from EXCEPT ![at] = @ \ {f}]
        /\ to' = [to EXCEPT ![at] = @ \cup {f}]
        /\ UNCHANGED cmd

Stage ==
    /\ Working("stage")
    /\ \/ /\ stage[at] = "absent"
          /\ stage' = [stage EXCEPT ![at] = "partial"] /\ UNCHANGED cmd
       \/ /\ stage[at] = "partial"
          /\ stage' = [stage EXCEPT ![at] = "ready"] /\ Finished
    /\ UNCHANGED <<root, old, new>>

Extract ==
    /\ Working("extract") /\ stage[at] = "ready"
    /\ IF new[at] = Backup
         THEN Finished /\ UNCHANGED new
         ELSE \E f \in Backup \ new[at] :
                 new' = [new EXCEPT ![at] = @ \cup {f}] /\ UNCHANGED cmd
    /\ UNCHANGED <<root, stage, old>>

MoveOld ==
    /\ Working("moveOld") /\ stage[at] = "ready"
    /\ IF root[at] = {} THEN Finished /\ UNCHANGED <<root, old>> ELSE Move(root, old)
    /\ UNCHANGED <<stage, new>>

MoveNew ==
    /\ Working("moveNew") /\ stage[at] = "ready"
    /\ IF new[at] = {} THEN Finished /\ UNCHANGED <<root, new>> ELSE Move(new, root)
    /\ UNCHANGED <<stage, old>>

\* Everything in the root but the stage goes, once the old data is found.
RollbackClean ==
    /\ Working("rollbackClean") /\ stage[at] = "ready"
    /\ IF root[at] = {}
         THEN Finished /\ UNCHANGED root
         ELSE \E f \in root[at] : root' = [root EXCEPT ![at] = @ \ {f}] /\ UNCHANGED cmd
    /\ UNCHANGED <<stage, old, new>>

RollbackOld ==
    /\ Working("rollbackOld") /\ stage[at] = "ready"
    /\ IF old[at] = {} THEN Finished /\ UNCHANGED <<root, old>> ELSE Move(old, root)
    /\ UNCHANGED <<stage, new>>

\* A missing stage is clean already.
Cleanup ==
    /\ Working("cleanup")
    /\ \/ \E f \in old[at] : old' = [old EXCEPT ![at] = @ \ {f}] /\ UNCHANGED <<new, stage, cmd>>
       \/ \E f \in new[at] : new' = [new EXCEPT ![at] = @ \ {f}] /\ UNCHANGED <<old, stage, cmd>>
       \/ /\ old[at] = {} /\ new[at] = {}
          /\ stage' = [stage EXCEPT ![at] = "absent"] /\ Finished /\ UNCHANGED <<old, new>>
    /\ UNCHANGED root

\* An I/O error, or a directory that is not as the command needs it.
CommandFails ==
    /\ cmd.state = "working" /\ helper = "running"
    /\ cmd' = [cmd EXCEPT !.state = "failed"]
    /\ UNCHANGED dataVars

HelperStep ==
    /\ \/ Stage \/ Extract \/ MoveOld \/ MoveNew \/ RollbackClean \/ RollbackOld \/ Cleanup
       \/ CommandFails
    /\ UNCHANGED <<savedVars, pc, mode, at, helper, serverVars, boundVars>>

----------------------------------------------------------------------------
(* Ludock.  Every step succeeds, as below, or fails, as in StepFails. *)

GoTo(step) == pc' = step /\ UNCHANGED at
GoToRoot(step, r) == pc' = step /\ at' = r

\* assertStopped: still the instance that was stopped.
StillStopped == ~running /\ started = rec.stoppedAt

\* restoreInitialState starts nothing while a root may be half replaced.
DataSafe == status \notin {"replacing", "rolling_back"}

unchangedData == UNCHANGED <<dataVars, serverVars, boundVars>>

\* Docker and the helper are left alone; the row is written.
Save(step) ==
    /\ pc = step
    /\ UNCHANGED <<row, mode, helper, cmd>>
    /\ unchangedData

\* stopForData: what it will stop is saved before the stop is sent.
SaveInitial ==
    /\ Save("init")
    /\ rec' = [rec EXCEPT !.initial = IF running THEN "yes" ELSE "no",
                         !.initialAt = started]
    /\ GoTo("stop") /\ UNCHANGED <<status, phase>>

StopServer ==
    /\ pc = "stop"
    /\ running' = FALSE
    /\ GoTo("stopped")
    /\ UNCHANGED <<savedVars, mode, helper, cmd, dataVars, started, starter, sent, boundVars>>

SaveStopped ==
    /\ Save("stopped") /\ ~running
    /\ rec' = [rec EXCEPT !.settled = TRUE, !.stoppedAt = started]
    /\ GoTo("safety") /\ UNCHANGED <<status, phase>>

SafetyBackup ==
    /\ pc = "safety" /\ StillStopped
    /\ GoTo("staging")
    /\ UNCHANGED <<savedVars, mode, helper, cmd>> /\ unchangedData

SaveStaging ==
    /\ Save("staging")
    /\ status' = "staging" /\ phase' = [r \in Roots |-> "staging"]
    /\ GoTo("helper") /\ UNCHANGED rec

\* NewDataHelper
StartHelper ==
    /\ pc \in {"helper", "rcHelper"}
    /\ helper' = "running"
    /\ IF pc = "helper" THEN GoTo("ready")
       ELSE IF status = "committed" THEN GoToRoot("cleanup", 1) ELSE GoTo("rbSave")
    /\ UNCHANGED <<savedVars, mode, cmd>> /\ unchangedData

\* The server is checked before the first command, and before the extraction.
CheckStopped ==
    /\ pc \in {"ready", "staged"} /\ StillStopped
    /\ GoToRoot(IF pc = "ready" THEN "stage" ELSE "extract", 1)
    /\ UNCHANGED <<savedVars, mode, helper, cmd>> /\ unchangedData

SaveReplacing ==
    /\ Save("replacing")
    /\ status' = "replacing"
    /\ GoToRoot("moving_old", 1) /\ UNCHANGED <<phase, rec>>

\* persistJournal.  Before the first change to a root the server is checked.
PersistPhase ==
    /\ pc \in {"moving_old", "old_moved", "replaced"} /\ Save(pc)
    /\ pc = "moving_old" => StillStopped
    /\ phase' = [phase EXCEPT ![at] = pc]
    /\ CASE pc = "moving_old" -> GoTo("moveOld")
         [] pc = "old_moved" -> GoTo("moveNew")
         [] pc = "replaced" -> IF at = Last THEN GoTo("committed") ELSE GoToRoot("moving_old", at + 1)
    /\ UNCHANGED <<status, rec>>

SaveCommitted ==
    /\ Save("committed") /\ StillStopped
    /\ status' = "committed"
    /\ GoToRoot("cleanup", 1) /\ UNCHANGED <<phase, rec>>

SaveCleaned ==
    /\ Save("cleaned")
    /\ status' = "cleaned"
    /\ GoTo("ending") /\ UNCHANGED <<phase, rec>>

\* restoreStep: Exec sends the command ...
SendCommand ==
    /\ pc \in DOMAIN OpOf /\ cmd = NoCmd /\ helper = "running"
    /\ cmd' = [op |-> OpOf[pc], state |-> "working"]
    /\ UNCHANGED <<savedVars, pc, mode, at, helper>> /\ unchangedData

\* ... and waits for its exit.
CommandDone ==
    /\ pc \in DOMAIN OpOf /\ cmd.state = "ok"
    /\ cmd' = NoCmd
    /\ CASE pc = "stage" -> IF at = Last THEN GoTo("staged") ELSE GoToRoot("stage", at + 1)
         [] pc = "extract" -> IF at = Last THEN GoTo("replacing") ELSE GoToRoot("extract", at + 1)
         [] pc = "cleanup" -> IF at = Last THEN GoTo("cleaned") ELSE GoToRoot("cleanup", at + 1)
         [] pc = "moveOld" -> GoTo("old_moved")
         [] pc = "moveNew" -> GoTo("replaced")
         [] pc = "rollbackClean" -> GoTo("rbPersist")
         [] pc = "rollbackOld" -> GoTo("rbDone")
         [] pc = "rbCleanup" -> IF at = 1 THEN GoTo("rbFinish") ELSE GoToRoot("rbCheck", at - 1)
    /\ UNCHANGED <<savedVars, mode, helper>> /\ unchangedData

----------------------------------------------------------------------------
(* Rollback *)

\* rollbackAfterFailure: a helper that was stopped is replaced by a new one.
FreshHelper ==
    /\ pc = "rbHelper"
    /\ helper # "running" => StillStopped
    /\ helper' = "running"
    /\ GoTo("rbSave")
    /\ UNCHANGED <<savedVars, mode, cmd>> /\ unchangedData

SaveRollingBack ==
    /\ Save("rbSave")
    /\ status' = "rolling_back"
    /\ GoToRoot("rbCheck", Last) /\ UNCHANGED <<phase, rec>>

\* Mutant: a root whose old entries were being moved is emptied too.
RollbackRootEager ==
    /\ pc = "rbCheck" /\ StillStopped
    /\ GoTo(CASE phase[at] \in {"moving_old", "old_moved", "replaced"} -> "rollbackClean"
              [] phase[at] = "rolling_back" -> "rbPersist"
              [] phase[at] \in {"staging", "rolled_back"} -> "rbCleanup")
    /\ UNCHANGED <<savedVars, mode, helper, cmd>> /\ unchangedData

\* What a root needs depends on how far its journal says it came.
RollbackRoot ==
    /\ pc = "rbCheck" /\ StillStopped
    /\ GoTo(CASE phase[at] \in {"old_moved", "replaced"} -> "rollbackClean"
              [] phase[at] \in {"moving_old", "rolling_back"} -> "rbPersist"
              [] phase[at] \in {"staging", "rolled_back"} -> "rbCleanup")
    /\ UNCHANGED <<savedVars, mode, helper, cmd>> /\ unchangedData

\* Saved after the new data is removed and before an old entry returns.
PersistRollingBack ==
    /\ Save("rbPersist")
    /\ phase' = [phase EXCEPT ![at] = "rolling_back"]
    /\ GoTo("rollbackOld") /\ UNCHANGED <<status, rec>>

PersistRolledBack ==
    /\ Save("rbDone")
    /\ phase' = [phase EXCEPT ![at] = "rolled_back"]
    /\ GoTo("rbCleanup") /\ UNCHANGED <<status, rec>>

SaveRolledBack ==
    /\ Save("rbFinish")
    /\ status' = "rolled_back"
    /\ GoTo("ending") /\ UNCHANGED <<phase, rec>>

----------------------------------------------------------------------------
(* Recovery *)

\* removeOperationHelpers: retried until Docker confirms the removal.
RemoveHelpers ==
    /\ pc = "rcHelpers"
    /\ helper' = "none" /\ cmd' = NoCmd
    /\ GoTo(IF rec.initial = "unset" THEN "finish" ELSE "rcCheck")
    /\ UNCHANGED <<savedVars, mode>> /\ unchangedData

\* A journal without roots needs no data work.
RecoverCheck ==
    /\ pc = "rcCheck"
    /\ \/ /\ status \in {"none", "cleaned", "rolled_back"} /\ GoTo("restoreState")
       \/ /\ status \notin {"none", "cleaned", "rolled_back"} /\ StillStopped
          /\ GoTo("rcHelper")
    /\ UNCHANGED <<savedVars, mode, helper, cmd>> /\ unchangedData

----------------------------------------------------------------------------
(* The end of both: the helper is removed, then the server started again *)

\* A recovery that failed leaves the server as it is.
RemoveHelper ==
    /\ pc = "ending"
    /\ helper' = "none" /\ cmd' = NoCmd
    /\ GoTo(IF mode = "failed" THEN "finish" ELSE "restoreState")
    /\ UNCHANGED <<savedVars, mode>> /\ unchangedData

StartNeeded == rec.initial = "yes" /\ DataSafe /\ ~rec.stateRestored

\* restoreInitialState up to the start.  A stop that a crash interrupted may
\* still be executing: it is waited for and never sent again.
RestoreState ==
    /\ pc = "restoreState"
    /\ \/ /\ ~StartNeeded
          /\ GoTo("finish") /\ UNCHANGED rec
       \/ /\ StartNeeded /\ ~running /\ ~rec.settled
          /\ rec' = [rec EXCEPT !.settled = TRUE] /\ GoTo("restoreState")
       \/ /\ StartNeeded /\ running /\ (rec.settled \/ started # rec.initialAt)
          /\ rec' = [rec EXCEPT !.settled = TRUE] /\ GoTo("restored")
       \/ /\ StartNeeded /\ ~running /\ rec.settled
          /\ rec.startRequested /\ started # rec.stoppedAt
          /\ GoTo("finish") /\ UNCHANGED rec
       \/ /\ StartNeeded /\ ~running /\ rec.settled
          /\ ~(rec.startRequested /\ started # rec.stoppedAt)
          /\ rec' = [rec EXCEPT !.startRequested = TRUE] /\ GoTo("start")
    /\ UNCHANGED <<row, status, phase, mode, helper, cmd>> /\ unchangedData

\* The start may reach Docker and still be reported as failed.
StartServer ==
    /\ pc = "start"
    /\ sent' = sent + 1
    /\ IF running THEN UNCHANGED <<running, started, starter>>
       ELSE running' = TRUE /\ started' = started + 1 /\ starter' = "ludock"
    /\ \E step \in {"restored", "finish"} : GoTo(step)
    /\ UNCHANGED <<savedVars, mode, helper, cmd, dataVars, boundVars>>

SaveRestored ==
    /\ Save("restored")
    /\ rec' = [rec EXCEPT !.stateRestored = TRUE]
    /\ GoTo("finish") /\ UNCHANGED <<status, phase>>

Finish ==
    /\ pc = "finish"
    /\ row' = "finished"
    /\ GoTo("done")
    /\ UNCHANGED <<status, phase, rec, mode, helper, cmd>> /\ unchangedData

----------------------------------------------------------------------------
(* Failures *)

\* Mutant: a rollback that fails is begun again.
OnErrorAgain ==
    IF mode = "run" /\ helper # "none" /\ status \notin {"committed", "cleaned"}
    THEN "rbHelper" ELSE "ending"

\* Where an error leads.  runRestore rolls back if it has a helper and has not
\* committed; a recovery gives up; both end by removing the helper.
OnError ==
    IF /\ mode = "run"
       /\ pc \notin RollbackSteps \cup {"rollbackClean", "rollbackOld", "rbCleanup"}
       /\ helper # "none" /\ status \notin {"committed", "cleaned"}
    THEN "rbHelper" ELSE "ending"

\* A refused permission, a database or Docker error, a check that fails, a
\* command that failed or whose outcome was lost.  A command that does not end
\* in time is ended with its helper.  A stop may reach Docker all the same.
StepFails ==
    /\ pc \in (RunSteps \cup RollbackSteps \cup {"rcCheck", "rcHelper"} \cup DOMAIN OpOf)
    /\ \/ cmd.state \in {"none", "ok", "failed"} /\ UNCHANGED helper
       \/ cmd.state = "working" /\ helper' = "stopped"
    /\ cmd' = NoCmd
    /\ GoTo(OnError)
    /\ mode' = IF mode = "run" THEN "run" ELSE "failed"
    /\ running' \in (IF pc = "stop" THEN {running, FALSE} ELSE {running})
    /\ UNCHANGED <<savedVars, dataVars, started, starter, sent, boundVars>>

\* An error of restoreInitialState, such as a stop that is not confirmed
\* before its deadline.
RestoreStateFails ==
    /\ pc \in {"restoreState", "start", "restored"}
    /\ GoTo("finish")
    /\ UNCHANGED <<savedVars, mode, helper, cmd>> /\ unchangedData

\* The helper, and a stop that Docker has accepted, go on.
Crash ==
    /\ pc \notin {"down", "done"} /\ crashes < MaxCrashes
    /\ crashes' = crashes + 1
    /\ GoTo("down")
    /\ mode' = "recover"
    /\ running' \in (IF pc = "stop" THEN {running, FALSE} ELSE {running})
    /\ UNCHANGED <<savedVars, helper, cmd, dataVars, started, starter, sent, externals>>

Restart ==
    /\ pc = "down"
    /\ GoTo("rcHelpers")
    /\ UNCHANGED <<savedVars, mode, helper, cmd>> /\ unchangedData

\* Another manager starts or stops the server, or the game exits.
ExternalChange ==
    /\ externals < MaxExternal
    /\ externals' = externals + 1
    /\ IF running
         THEN running' = FALSE /\ UNCHANGED <<started, starter>>
         ELSE running' = TRUE /\ started' = started + 1 /\ starter' = "other"
    /\ UNCHANGED <<savedVars, pc, mode, at, helper, cmd, dataVars, sent, crashes>>

----------------------------------------------------------------------------
LudockStep ==
    \/ SaveInitial \/ StopServer \/ SaveStopped \/ SafetyBackup \/ SaveStaging \/ StartHelper
    \/ CheckStopped \/ SaveReplacing \/ PersistPhase \/ SaveCommitted \/ SaveCleaned \/ SendCommand
    \/ CommandDone \/ FreshHelper \/ SaveRollingBack \/ RollbackRoot \/ PersistRollingBack
    \/ PersistRolledBack \/ SaveRolledBack \/ RemoveHelpers \/ RecoverCheck \/ RemoveHelper
    \/ RestoreState \/ StartServer \/ SaveRestored \/ Finish \/ StepFails \/ RestoreStateFails
    \/ Restart

Done == pc = "done" /\ UNCHANGED vars

Next == LudockStep \/ HelperStep \/ Crash \/ ExternalChange \/ Done

Spec == Init /\ [][Next]_vars

\* Both processes run on; a helper's command ends or is ended.
LiveSpec == Spec /\ WF_vars(LudockStep) /\ WF_vars(HelperStep)

----------------------------------------------------------------------------
(* Safety *)

\* The server's data is never lost: until the restore is committed, every
\* original entry is in its root or in the stage's `old', whatever failed.
OriginalsKept ==
    status \notin {"committed", "cleaned"} =>
        \A r \in Roots : Original \subseteq root[r] \cup old[r]

\* What the journal says of the outcome is so in every root: committed, each
\* holds exactly the backup's entries; rolled back, each is as it was found.
OutcomeIsWhole ==
    /\ status \in {"committed", "cleaned"} => \A r \in Roots : root[r] = Backup
    /\ status = "rolled_back" => \A r \in Roots : root[r] = Original /\ stage[r] = "absent"

\* Ludock starts the server only on whole data of one version: all roots as
\* before, or all as in the backup.
StartsOnWholeData ==
    starter = "ludock" =>
        \/ \A r \in Roots : root[r] = Original
        \/ \A r \in Roots : root[r] = Backup

\* Nobody works on the data but the command Ludock waits for: what a crash
\* left working is gone before recovery touches the data or the server.
OneWriter ==
    cmd.state = "working" /\ pc \notin {"down", "rcHelpers"} =>
        pc \in DOMAIN OpOf /\ OpOf[pc] = cmd.op

\* "A start that reached Docker is never repeated", over all crashes.
StartsOnce == sent <= 1

\* All of these, in a typed state: what a restore does to the data of a server.
DataSurvives ==
    TypeOK /\ OriginalsKept /\ OutcomeIsWhole /\ StartsOnWholeData /\ OneWriter /\ StartsOnce

(* What a restore promises *)

\* The data of a root, or what a rollback brings back of it.
Value == [r \in Roots |->
            IF status \in {"committed", "cleaned", "rolled_back"} THEN root[r]
            ELSE Original \cap (root[r] \cup old[r])]

Outcome ==
    IF status \in {"committed", "cleaned"} THEN "replaced"
    ELSE IF status = "rolled_back" THEN "kept" ELSE "open"

Promise == INSTANCE AtomicRestore
    WITH Root <- Roots, value <- Value, outcome <- Outcome,
         served <- IF sent > 0 THEN {root} ELSE {}

\* However many steps the roots take, and whoever carries them out, the data is
\* replaced by the one write that commits, or not at all; and nobody touches
\* the data the server was started on.
RestoreIsAtomic == Promise!Spec

(* Liveness *)

Over == row = "finished"

\* A restore ends, whatever fails, and its recovery does too.
RestoreEnds == <>Over
============================================================================
