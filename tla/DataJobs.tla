------------------------------ MODULE DataJobs -------------------------------
(***************************************************************************)
(* A backup of a server, or a restart with a backup: the stop before the   *)
(* copy, the copy while the server is down, and its start (runBackup and   *)
(* recoverBackup of internal/jobs/backup.go, runBackupRestart of           *)
(* internal/jobs/update.go, internal/jobs/data.go).                        *)
(*                                                                         *)
(* Docker may carry out a stop whose answer was lost; the owner starts the *)
(* server, and the game exits, at any time; Ludock crashes between any two *)
(* steps.  A save of the operation that fails makes its step fail.         *)
(*                                                                         *)
(* Simplifications: a start has reached Docker, or not, when Ludock looks  *)
(* again; the archive and the store are module Backups', outage tracking   *)
(* is Lifecycle's.                                                         *)
(***************************************************************************)
EXTENDS Naturals

CONSTANTS MaxStarts,        \* bound: starts by the owner
          MaxDataCrashes    \* bound: crashes of Ludock

ASSUME DataAssumption == MaxStarts \in Nat /\ MaxDataCrashes \in Nat

VARIABLES
    kind,       \* "backup", "restart"
    recovery,   \* ops.Recovery: saved
    step, ok,   \* the step, and whether the backup went well
    backup,     \* "none", "partial", "row": the archive and its row
    helper,     \* the data helper exists
    srv, inst,  \* Docker: the server is up; how many times it was started
    stopping,   \* Docker carries out a stop that Ludock sent
    overdue,    \* the saved stop deadline has passed
    unrestored, \* the operation reported that the running state is not restored
    tainted,    \* history: the server ran during the copy
    starts, dataCrashes

serverVars == <<srv, inst, stopping>>
jobVars == <<kind, overdue, dataCrashes>>
dataVars == <<recovery, step, ok, backup, helper, serverVars, unrestored, tainted, starts, jobVars>>

Steps == {"record", "dispatch", "await", "check", "helper", "copy", "copying", "copied", "row",
          "marker", "prune", "cleanup", "backedUp", "starting", "started", "keep", "keepOnly",
          "deferred", "restore", "restart", "restored", "done", "recover"}

DataTypeOK ==
    /\ kind \in {"backup", "restart"} /\ step \in Steps /\ ok \in BOOLEAN
    /\ backup \in {"none", "partial", "row"}
    /\ recovery \in [initial : {"unset", "yes", "no"}, initialAt : Nat, settled : BOOLEAN,
                     stoppedAt : Nat, complete : BOOLEAN, helper : BOOLEAN,
                     startRequested : BOOLEAN, stateRestored : BOOLEAN]
    /\ helper \in BOOLEAN /\ srv \in BOOLEAN /\ inst \in Nat /\ stopping \in BOOLEAN
    /\ overdue \in BOOLEAN /\ unrestored \in BOOLEAN /\ tainted \in BOOLEAN /\ starts \in Nat
    /\ dataCrashes \in 0..MaxDataCrashes

DataInit ==
    /\ kind \in {"backup", "restart"} /\ step = "record" /\ ok = TRUE /\ backup = "none"
    /\ helper = FALSE
    /\ recovery = [initial |-> "unset", initialAt |-> 0, settled |-> FALSE, stoppedAt |-> 0,
                   complete |-> FALSE, helper |-> FALSE, startRequested |-> FALSE,
                   stateRestored |-> FALSE]
    /\ srv \in BOOLEAN /\ (kind = "restart" => srv)     \* AssertRunningForBackupRestart
    /\ inst = 1 /\ stopping = FALSE /\ overdue = FALSE /\ unrestored = FALSE
    /\ tainted = FALSE /\ starts = 0 /\ dataCrashes = 0

Goto(next) == step' = next
Save(r) == recovery' = r
StopPending == recovery.initial = "yes" /\ ~recovery.settled

(* assertStillStopped: still the instance that this operation stopped.     *)
MutantAnyInstance == TRUE
SameInstance == inst = recovery.stoppedAt
ServerStillStopped == ~srv /\ SameInstance

-----------------------------------------------------------------------------
(* Docker, the owner and the game.                                         *)

StopCompletes == stopping /\ stopping' = FALSE /\ srv' = FALSE
                 /\ UNCHANGED <<recovery, step, ok, backup, helper, inst, unrestored, tainted, starts, jobVars>>
GameExits == srv /\ ~stopping /\ srv' = FALSE
             /\ UNCHANGED <<recovery, step, ok, backup, helper, inst, stopping, unrestored, tainted, starts, jobVars>>
OwnerStarts ==
    /\ ~srv /\ inst - starts <= MaxStarts /\ srv' = TRUE /\ inst' = inst + 1
    /\ tainted' = (tainted \/ step = "copying")
    /\ UNCHANGED <<recovery, step, ok, backup, helper, stopping, unrestored, starts, jobVars>>
DeadlinePasses == StopPending /\ ~overdue /\ overdue' = TRUE
                  /\ UNCHANGED <<recovery, step, ok, backup, helper, serverVars, unrestored, tainted, starts, kind, dataCrashes>>

-----------------------------------------------------------------------------
(* stopForData.                                                            *)

RecordDataStop ==
    /\ step = "record" /\ Save([recovery EXCEPT !.initial = IF srv THEN "yes" ELSE "no", !.initialAt = inst])
    /\ Goto("dispatch")
    /\ UNCHANGED <<ok, backup, helper, serverVars, unrestored, tainted, starts, jobVars>>
DispatchStop ==
    /\ step = "dispatch" /\ stopping' = srv /\ Goto("await")
    /\ UNCHANGED <<recovery, ok, backup, helper, srv, inst, unrestored, tainted, starts, jobVars>>
SaveDataStopped ==
    /\ step = "await" /\ ~stopping /\ ~srv
    /\ Save([recovery EXCEPT !.settled = TRUE, !.stoppedAt = inst])
    /\ Goto("check") \/ Goto("backedUp")      \* "backedUp" with ok FALSE: the server was killed
    /\ ok' = (step' = "check")
    /\ UNCHANGED <<backup, helper, serverVars, unrestored, tainted, starts, jobVars>>

-----------------------------------------------------------------------------
(* createStoppedBackup.                                                    *)

AssertDataStopped ==
    /\ step \in {"check", "copied"} /\ ServerStillStopped
    /\ Goto(IF step = "check" THEN "helper" ELSE "row")
    /\ UNCHANGED <<recovery, ok, backup, helper, serverVars, unrestored, tainted, starts, jobVars>>
NewDataHelper ==
    /\ step = "helper" /\ helper' = TRUE /\ Goto("copy")
    /\ UNCHANGED <<recovery, ok, backup, serverVars, unrestored, tainted, starts, jobVars>>
SaveHelper ==
    /\ step = "copy" /\ Save([recovery EXCEPT !.helper = TRUE]) /\ Goto("copying")
    /\ backup' = "partial" /\ tainted' = srv
    /\ UNCHANGED <<ok, helper, serverVars, unrestored, starts, jobVars>>
WriteSnapshot ==
    /\ step = "copying" /\ Goto("copied")
    /\ UNCHANGED <<recovery, ok, backup, helper, serverVars, unrestored, tainted, starts, jobVars>>
Record ==
    /\ step = "row" /\ backup' = "row" /\ Goto("marker")
    /\ UNCHANGED <<recovery, ok, helper, serverVars, unrestored, tainted, starts, jobVars>>
(* A marker that cannot be saved is only logged.                           *)
SaveMarker ==
    /\ step = "marker" /\ Goto("prune")
    /\ Save([recovery EXCEPT !.complete = TRUE]) \/ UNCHANGED recovery
    /\ UNCHANGED <<ok, backup, helper, serverVars, unrestored, tainted, starts, jobVars>>
Prune ==
    /\ step = "prune" /\ Goto("cleanup") /\ ok' \in BOOLEAN
    /\ UNCHANGED <<recovery, backup, helper, serverVars, unrestored, tainted, starts, jobVars>>
Cleanup ==
    /\ step = "cleanup" /\ helper' = FALSE /\ Goto("backedUp")
    /\ backup' = IF backup = "row" THEN "row" ELSE "none"
    /\ Save([recovery EXCEPT !.helper = FALSE]) \/ UNCHANGED recovery
    /\ UNCHANGED <<ok, serverVars, unrestored, tainted, starts, jobVars>>

(* Any step may fail: a lost answer, a check, a permission, a save.        *)
BackupFails ==
    /\ step \in {"record", "dispatch", "await", "check", "helper", "copy", "copying", "copied", "row"}
    /\ Goto(IF step \in {"record", "dispatch", "await", "check"} THEN "backedUp" ELSE "cleanup") /\ ok' = FALSE
    /\ UNCHANGED <<recovery, backup, helper, serverVars, unrestored, tainted, starts, jobVars>>

-----------------------------------------------------------------------------
(* What follows: a backup restores the running state whatever happened; a  *)
(* restart starts the server, or keeps it stopped after a failed backup.   *)

(* backupCompleted: a failed lookup counts as incomplete.                  *)
Completed == IF recovery.complete THEN {TRUE} ELSE {backup = "row", FALSE}

AfterBackup ==
    /\ step = "backedUp"
    /\ \/ kind = "backup" /\ Goto("restore")
       \/ kind = "restart" /\ ok /\ Goto("starting")
       \/ kind = "restart" /\ ~ok /\ Goto("keep")
    /\ UNCHANGED <<recovery, ok, backup, helper, serverVars, unrestored, tainted, starts, jobVars>>

Start ==
    /\ srv' = TRUE
    /\ IF srv THEN UNCHANGED <<inst, starts>> ELSE inst' = inst + 1 /\ starts' = starts + 1

(* StartRequested is saved before the start is sent.                       *)
SaveStarting ==
    /\ step = "starting"
    /\ \/ Save([recovery EXCEPT !.startRequested = TRUE]) /\ Goto("started") /\ UNCHANGED ok
       \/ Goto("keep") /\ ok' = FALSE /\ UNCHANGED recovery
    /\ UNCHANGED <<backup, helper, serverVars, unrestored, tainted, starts, jobVars>>
RestartAnswered ==
    /\ step = "started"
    /\ \/ Start /\ Save([recovery EXCEPT !.stateRestored = TRUE]) /\ UNCHANGED ok
       \/ Start /\ ok' = FALSE /\ UNCHANGED recovery
       \/ ok' = FALSE /\ UNCHANGED <<srv, inst, starts, recovery>>
    /\ Goto(IF ok' THEN "deferred" ELSE "keep")
    /\ UNCHANGED <<backup, helper, stopping, unrestored, tainted, jobVars>>

(* restoreInitialState once the stop is settled.                           *)
Restore ==
    /\ step = "restore"
    /\ \/ (recovery.initial # "yes" \/ recovery.stateRestored) /\ Goto("done") /\ UNCHANGED <<recovery, unrestored>>
       \/ /\ recovery.initial = "yes" /\ ~recovery.stateRestored /\ ~StopPending
          /\ IF srv THEN Goto("restored") /\ UNCHANGED <<recovery, unrestored>>
             ELSE IF recovery.startRequested /\ inst # recovery.stoppedAt
             THEN Goto("done") /\ UNCHANGED <<recovery, unrestored>>
             ELSE Save([recovery EXCEPT !.startRequested = TRUE]) /\ Goto("restart") /\ UNCHANGED unrestored
       \/ unrestored' = TRUE /\ Goto("done") /\ UNCHANGED recovery
    /\ UNCHANGED <<ok, backup, helper, serverVars, tainted, starts, jobVars>>
RestartServer ==
    /\ step = "restart"
    /\ \/ Start /\ Goto("restored") /\ UNCHANGED unrestored
       \/ Start /\ unrestored' = TRUE /\ Goto("done")
       \/ unrestored' = TRUE /\ Goto("done") /\ UNCHANGED <<srv, inst, starts>>
    /\ UNCHANGED <<recovery, ok, backup, helper, stopping, tainted, jobVars>>
SaveDataRestored ==
    /\ step = "restored" /\ Goto("done")
    /\ \/ Save([recovery EXCEPT !.stateRestored = TRUE]) /\ UNCHANGED unrestored
       \/ unrestored' = TRUE /\ UNCHANGED recovery
    /\ UNCHANGED <<ok, backup, helper, serverVars, tainted, starts, jobVars>>

(* settleInterruptedStop, which restoring and keeping begin with: it only  *)
(* observes, until the deadline.  Another instance means that another      *)
(* manager started the server.                                             *)
SettleStop ==
    /\ StopPending /\ \/ step = "restore" /\ ~recovery.stateRestored
                      \/ step = "keep" /\ FALSE \in Completed
                      \/ step = "keepOnly"
    /\ \/ ~srv /\ Save([recovery EXCEPT !.settled = TRUE]) /\ UNCHANGED <<step, unrestored>>
       \/ /\ srv /\ inst # recovery.initialAt
          /\ Save([recovery EXCEPT !.settled = TRUE, !.stateRestored = @ \/ step = "restore"])
          /\ Goto(IF step = "keep" THEN "deferred" ELSE "done") /\ UNCHANGED unrestored
       \/ /\ srv /\ inst = recovery.initialAt /\ overdue /\ unrestored' = TRUE
          /\ Goto(IF step = "keep" THEN "deferred" ELSE "done") /\ UNCHANGED recovery
    /\ UNCHANGED <<ok, backup, helper, serverVars, tainted, starts, jobVars>>

(* keepStoppedAfterFailedBackup, once the stop is settled.                 *)
KeepStopped ==
    /\ \/ step = "keep" /\ (StopPending => TRUE \in Completed) /\ Goto("deferred")
       \/ step = "keepOnly" /\ ~StopPending /\ Goto("done")
    /\ UNCHANGED <<recovery, ok, backup, helper, serverVars, unrestored, tainted, starts, jobVars>>

(* Deferred: starting can change the world, so only after a whole backup   *)
(* and once the helper is gone.                                            *)
Deferred ==
    /\ step = "deferred"
    /\ \E c \in Completed : Goto(IF c /\ ~recovery.helper THEN "restore" ELSE "done")
    /\ UNCHANGED <<recovery, ok, backup, helper, serverVars, unrestored, tainted, starts, jobVars>>

-----------------------------------------------------------------------------
(* Recovery removes the helpers and what has no row; what it cannot do it  *)
(* reports.                                                                *)

CrashJob ==
    /\ step \notin {"done", "recover"} /\ Goto("recover")
    /\ dataCrashes < MaxDataCrashes /\ dataCrashes' = dataCrashes + 1
    /\ UNCHANGED <<recovery, ok, backup, helper, serverVars, unrestored, tainted, starts, kind, overdue>>
RemoveHelpers ==
    /\ helper' = FALSE /\ backup' = IF backup = "row" THEN "row" ELSE "none"
RecoverBackup ==
    /\ step = "recover"
    /\ \/ /\ recovery.initial = "unset" /\ Goto("done") /\ helper' = FALSE
          /\ UNCHANGED <<recovery, backup, unrestored>>
       \/ /\ recovery.initial # "unset" /\ RemoveHelpers
          /\ Save([recovery EXCEPT !.helper = FALSE]) /\ UNCHANGED unrestored
          /\ \E c \in IF kind = "backup" THEN {TRUE} ELSE Completed :
                Goto(IF c THEN "restore" ELSE "keepOnly")
       \/ unrestored' = TRUE /\ Goto("done") /\ RemoveHelpers /\ UNCHANGED recovery
    /\ UNCHANGED <<ok, serverVars, tainted, starts, jobVars>>

DataNext ==
    \/ StopCompletes \/ GameExits \/ OwnerStarts \/ DeadlinePasses
    \/ RecordDataStop \/ DispatchStop \/ SaveDataStopped
    \/ AssertDataStopped \/ NewDataHelper \/ SaveHelper \/ WriteSnapshot \/ Record \/ SaveMarker
    \/ Prune \/ Cleanup \/ BackupFails
    \/ AfterBackup \/ SaveStarting \/ RestartAnswered \/ Restore \/ RestartServer
    \/ SaveDataRestored \/ SettleStop \/ KeepStopped \/ Deferred
    \/ CrashJob \/ RecoverBackup

DataSpec == DataInit /\ [][DataNext]_dataVars

-----------------------------------------------------------------------------
(* A backup that has a row is a copy made while the server was down from   *)
(* beginning to end, even if someone started and stopped it meanwhile;     *)
(* Ludock starts the server at most once, never beside a data helper, and, *)
(* when restarting, never without a whole backup; and a backup leaves a    *)
(* server that ran started, unless it says otherwise (runBackup,           *)
(* runBackupRestart, restoreInitialState and their recovery).              *)
CopiedWhileDown ==
    /\ DataTypeOK
    /\ backup = "row" => ~tainted
    /\ starts <= 1 /\ (starts > 0 => ~helper)
    /\ kind = "restart" /\ starts > 0 => backup = "row"
    /\ step = "done" /\ kind = "backup" /\ recovery.initial = "yes" =>
          recovery.stateRestored \/ recovery.startRequested \/ unrestored
=============================================================================
