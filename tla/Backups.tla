------------------------------ MODULE Backups -------------------------------
(***************************************************************************)
(* The backup store (internal/backups) with everything that writes to it:  *)
(* the backup step of backup, restore and update jobs                      *)
(* (createStoppedBackup of internal/jobs/backup.go) and its recovery, the  *)
(* deletion a user asks for, the pruning of old backups, and the tick that *)
(* retries interrupted deletions (FinishDeletions) and enables storage     *)
(* (Initialize).                                                           *)
(*                                                                         *)
(* A backup is a row and an archive on disk, which are written and removed *)
(* separately.  Backups are numbered in the order they are created.  An    *)
(* archive is "partial" while it is written and "published" by the rename  *)
(* that ends it; what it contains is not modelled, its size is.            *)
(*                                                                         *)
(* Simplifications: the locks of a job are its server and the storage; the *)
(* limits of the settings do not change; every reason for which a step of  *)
(* the backup fails is one failure.                                        *)
(***************************************************************************)
EXTENDS Sequences, FiniteSetsExt, Naturals

CONSTANTS Server,
          Old,          \* backups made earlier, all of one server
          OldServer,    \* that server
          Retention,    \* complete backups kept per server
          MaxBytes,     \* the global byte limit
          DeletionBatch,\* rows that one FinishDeletions call retries
          MaxBackups,   \* bound: backups ever made
          MaxAsked,     \* bound: jobs and deletions asked for
          MaxFaults,    \* bound: storage requests that fail, and come to work again
          MaxCrashes    \* bound: crashes of Ludock

ASSUME BackupsAssumption ==
    /\ Old \in Nat /\ MaxBackups \in Nat /\ Old =< MaxBackups /\ Old =< MaxBytes
    /\ OldServer \in Server /\ {"delete", "tick", "storage", "none"} \cap Server = {}
    /\ Retention \in Nat \ {0} /\ DeletionBatch \in Nat \ {0}
    /\ MaxBytes \in Nat /\ MaxAsked \in Nat /\ MaxFaults \in Nat /\ MaxCrashes \in Nat

Backup == 1..MaxBackups
Actor == Server \cup {"delete", "tick"}

VARIABLES
    row,      \* the state column of each row of the backups table
    disk,     \* the archives
    size,     \* the size column
    of,       \* the server of each backup made so far
    stuck,    \* the archives whose folder is gone: removing them always fails
    held,     \* the lock table: who holds each server and the storage
    job,      \* the data job of each server, its persisted fields included
    removing, \* the removals that each actor has yet to do, and how far the first is
    deletion, \* the request to delete a backup
    tick,     \* the rows that FinishDeletions listed, and its cursor
    settings, \* who decided the saved settings
    helpers,  \* the servers whose operation has a data helper container
    initing,  \* Initialize found no settings and is validating the default ones
    up,       \* recovery is over
    made, asked, faults, crashes,
    unseen,   \* history: archives that Ludock reported it could not account for
    wanted    \* history: backups whose deletion a user began while a restore waited for its locks

store == <<row, disk, size, of>>
others == <<removing, deletion, tick>>
conf == <<settings, initing>>
env == <<stuck, up, made, asked, crashes>>
history == <<unseen, wanted>>
vars == <<held, job, helpers, faults, store, others, conf, env, history>>

NoJob == [pc |-> "idle", id |-> 0, keep |-> 0, available |-> 0]
Pcs == {"idle", "wait", "ready", "begin", "helper", "writing", "published", "recorded",
        "prune", "cleanup", "restoring", "staging", "end", "crashed"}
NoDeletion == [pc |-> "idle", id |-> 0, access |-> TRUE]
NoRemoval == [ids |-> <<>>, pc |-> "mark"]

TypeOK ==
    /\ row \in [Backup -> {"none", "complete", "deleting"}]
    /\ disk \in [Backup -> {"none", "partial", "published"}]
    /\ size \in [Backup -> 0..MaxBytes] /\ of \in [Backup -> Server]
    /\ held \in [Server \cup {"storage"} -> Actor \cup {"none"}]
    /\ job \in [Server -> [pc : Pcs, id : 0..MaxBackups, keep : 0..MaxBackups, available : 0..MaxBytes]]
    /\ removing \in [Actor -> [ids : Seq(Backup), pc : {"mark", "unlink", "row"}]]
    /\ deletion \in [pc : {"idle", "wait", "held"}, id : 0..MaxBackups, access : BOOLEAN]
    /\ tick \in [pending : SUBSET Backup, cursor : 0..MaxBackups]
    /\ settings \in {"none", "auto", "admin"} /\ initing \in BOOLEAN /\ up \in BOOLEAN
    /\ stuck \subseteq Backup /\ helpers \subseteq Server /\ unseen \subseteq Backup /\ wanted \subseteq Backup
    /\ made \in 0..MaxBackups /\ asked \in 0..MaxAsked /\ faults \in 0..MaxFaults /\ crashes \in 0..MaxCrashes

Init ==
    /\ row \in [Backup -> {"none", "complete", "deleting"}]
    /\ \A b \in Backup : IF b > Old THEN row[b] = "none" ELSE row[b] = "complete" \/ (b = 1 /\ row[b] = "deleting")
    /\ disk = [b \in Backup |-> IF b =< Old THEN "published" ELSE "none"]
    /\ size = [b \in Backup |-> IF b =< Old THEN 1 ELSE 0]
    /\ of = [b \in Backup |-> OldServer]
    /\ stuck \in SUBSET ({1} \cap (1..Old)) /\ helpers = {}
    /\ held = [k \in Server \cup {"storage"} |-> "none"]
    /\ job = [s \in Server |-> NoJob]
    /\ removing = [a \in Actor |-> NoRemoval]
    /\ deletion = NoDeletion
    /\ tick = [pending |-> {}, cursor |-> 0]
    /\ settings = "none" /\ initing = FALSE /\ up = TRUE
    /\ made = Old /\ asked = 0 /\ faults = 0 /\ crashes = 0 /\ unseen = {} /\ wanted = {}

-----------------------------------------------------------------------------
(* The locks.                                                              *)

Keys(s) == {s, "storage"}

Free(keys) == \A k \in keys : held[k] = "none"
Taken(a, keys) == [k \in DOMAIN held |-> IF k \in keys THEN a ELSE held[k]]
Released(a) == [k \in DOMAIN held |-> IF held[k] = a THEN "none" ELSE held[k]]

-----------------------------------------------------------------------------
(* The settings: Initialize enables the approved root unless a value was   *)
(* ever saved; SaveSettings is an administrator's decision (the   *)
(* first one; saving again changes nothing here).                          *)

InitializeBegin ==
    /\ up /\ ~initing /\ settings = "none" /\ initing' = TRUE
    /\ UNCHANGED <<helpers, faults, held, job, settings, store, others, env,
                   history>>

InsertedDefault == IF settings = "none" THEN "auto" ELSE settings

InitializeInsert ==
    /\ initing /\ initing' = FALSE /\ settings' = InsertedDefault
    /\ UNCHANGED <<helpers, faults, held, job, store, others, env, history>>

SaveSettings ==
    /\ up /\ settings = "none" /\ settings' = "admin"
    /\ UNCHANGED <<helpers, faults, held, job, initing, store, others, env,
                   history>>

-----------------------------------------------------------------------------
(* remove: the row is marked before the archive is unlinked, and deleted   *)
(* after it.  Prune removes several backups, in the order of the list.     *)

Current(a) == Head(removing[a].ids)

Mark(a) ==
    /\ removing[a].ids # <<>> /\ removing[a].pc = "mark"
    /\ row' = [row EXCEPT ![Current(a)] = IF @ = "none" THEN "none" ELSE "deleting"]
    /\ removing' = [removing EXCEPT ![a].pc = "unlink"]

RemoveMark(a) ==
    /\ Mark(a) /\ (a = "delete" => deletion.access)
    /\ wanted' = IF a = "delete" /\ \E s \in Server : job[s].keep = Current(a) THEN wanted \cup {Current(a)} ELSE wanted
    /\ UNCHANGED <<disk, size, of, helpers, faults, held, job, deletion, tick,
                   conf, env, unseen>>

(* Storage.Remove and RemovePartial.                                       *)
RemoveUnlink(a) ==
    /\ removing[a].ids # <<>> /\ removing[a].pc = "unlink" /\ Current(a) \notin stuck
    /\ disk' = [disk EXCEPT ![Current(a)] = "none"]
    /\ removing' = [removing EXCEPT ![a].pc = "row"]
    /\ UNCHANGED <<row, size, of, helpers, faults, held, job, deletion, tick,
                   conf, env, history>>

RemoveRow(a) ==
    /\ removing[a].ids # <<>> /\ removing[a].pc = "row"
    /\ row' = [row EXCEPT ![Current(a)] = "none"]
    /\ removing' = [removing EXCEPT ![a] = [ids |-> Tail(@.ids), pc |-> "mark"]]
    /\ UNCHANGED <<disk, size, of, helpers, faults, held, job, deletion, tick,
                   conf, env, history>>

(* A storage request fails: for good, or this time.                        *)
Fault(b) ==
    \/ b \in stuck /\ UNCHANGED faults
    \/ b \notin stuck /\ faults < MaxFaults /\ faults' = faults + 1

(* The actor gives up the rest of its removals.                            *)
RemoveFails(a) ==
    /\ removing[a].ids # <<>> /\ removing[a].pc = "unlink" /\ Fault(Current(a))
    /\ removing' = [removing EXCEPT ![a] = NoRemoval]
    /\ UNCHANGED <<helpers, held, job, deletion, tick, store, conf, env, history>>

-----------------------------------------------------------------------------
(* Delete: the row is read before the locks are taken; permission is       *)
(* checked again under them, and right before the row is marked.           *)

DeleteRead(b) ==
    /\ up /\ deletion.pc = "idle" /\ row[b] # "none"
    /\ asked < MaxAsked /\ asked' = asked + 1
    /\ deletion' = [deletion EXCEPT !.pc = "wait", !.id = b]
    /\ UNCHANGED <<held, job, removing, tick, stuck, helpers, up, made, faults,
                   crashes, store, conf, history>>

DeleteLock ==
    /\ deletion.pc = "wait" /\ Free(Keys(of[deletion.id])) /\ deletion.access
    /\ held' = Taken("delete", Keys(of[deletion.id]))
    /\ deletion' = [deletion EXCEPT !.pc = "held"]
    /\ removing' = [removing EXCEPT !["delete"] = [ids |-> <<deletion.id>>, pc |-> "mark"]]
    /\ UNCHANGED <<helpers, faults, job, tick, store, conf, env, history>>

(* The deletion ends: done, failed, refused for the permission that was    *)
(* withdrawn, or refused the locks.                                        *)
DeleteEnd ==
    /\ \/ deletion.pc = "wait" /\ (~Free(Keys(of[deletion.id])) \/ ~deletion.access)
       \/ deletion.pc = "held" /\ removing["delete"].ids = <<>>
       \/ deletion.pc = "held" /\ removing["delete"].pc = "mark" /\ ~deletion.access
    /\ deletion' = NoDeletion
    /\ removing' = [removing EXCEPT !["delete"] = NoRemoval]
    /\ held' = Released("delete")
    /\ UNCHANGED <<helpers, faults, job, tick, store, conf, env, history>>

Revoke ==
    /\ deletion.pc # "idle" /\ deletion.access /\ deletion' = [deletion EXCEPT !.access = FALSE]
    /\ UNCHANGED <<helpers, faults, held, job, removing, tick, store, conf, env,
                   history>>

-----------------------------------------------------------------------------
(* FinishDeletions: one batch of deleting rows after the cursor, each one  *)
(* under its locks or left for another call.                               *)

Listed(from) ==
    LET rows == {b \in Backup : row[b] = "deleting" /\ b > from}
    IN {b \in rows : Cardinality({c \in rows : c < b}) < DeletionBatch}

MutantNoCursor(batch) == 0
NextCursor(batch) == IF Cardinality(batch) < DeletionBatch THEN 0 ELSE Max(batch)

TickList ==
    /\ up /\ tick.pending = {} /\ held["storage"] # "tick"
    /\ tick' = [pending |-> Listed(tick.cursor), cursor |-> NextCursor(Listed(tick.cursor))]
    /\ tick' # tick
    /\ UNCHANGED <<helpers, faults, held, job, removing, deletion, store, conf,
                   env, history>>

(* finishDeletion looks at the row again under the locks.                  *)
TickTake ==
    /\ tick.pending # {} /\ held["storage"] # "tick"
    /\ LET b == Min(tick.pending) IN
        /\ tick' = [tick EXCEPT !.pending = @ \ {b}]
        /\ IF Free(Keys(of[b])) /\ row[b] = "deleting"
           THEN held' = Taken("tick", Keys(of[b])) /\ removing' = [removing EXCEPT !["tick"] = [ids |-> <<b>>, pc |-> "mark"]]
           ELSE UNCHANGED <<held, removing>>
    /\ UNCHANGED <<helpers, faults, job, deletion, store, conf, env, history>>

TickRelease ==
    /\ held["storage"] = "tick" /\ removing["tick"].ids = <<>>
    /\ held' = Released("tick")
    /\ UNCHANGED <<helpers, faults, job, store, others, conf, env, history>>

-----------------------------------------------------------------------------
(* The jobs.                                                                *)

At(s, pc) == job[s].pc = pc
Goto(s, pc) == job' = [job EXCEPT ![s].pc = pc]

Waiting(b) == [NoJob EXCEPT !.pc = "wait", !.keep = b]

(* A backup, or the restore of a complete backup, begins.                  *)
JobBegin(s) ==
    /\ up /\ At(s, "idle") /\ asked < MaxAsked /\ asked' = asked + 1
    /\ \E b \in {0} \cup {c \in Backup : row[c] = "complete" /\ of[c] = s} :
        job' = [job EXCEPT ![s] = Waiting(b)]
    /\ UNCHANGED <<held, stuck, helpers, up, made, faults, crashes, store,
                   others, conf, history>>

(* WithLocks; a restore then validates the archive it is to use.           *)
JobLock(s) ==
    /\ At(s, "wait") /\ Free(Keys(s)) /\ settings # "none"
    /\ held' = Taken(s, Keys(s))
    /\ Goto(s, IF job[s].keep # 0 /\ disk[job[s].keep] # "published" THEN "end" ELSE "ready")
    /\ UNCHANGED <<helpers, faults, store, others, conf, env, history>>

(* No settings, no permission, or another check that is made before.       *)
JobRefused(s) ==
    /\ At(s, "wait") /\ job' = [job EXCEPT ![s] = NoJob]
    /\ UNCHANGED <<held, helpers, faults, store, others, conf, env, history>>

(* Every byte of a complete backup is counted.                             *)
ArchiveBytes == Cardinality({p \in Backup \X (1..MaxBytes) : row[p[1]] = "complete" /\ p[2] =< size[p[1]]})

(* The new backup's identifier is saved in the operation before anything   *)
(* is written, with the bytes that are left under the global limit.        *)
JobPlan(s) ==
    /\ At(s, "ready") /\ ArchiveBytes < MaxBytes /\ made < MaxBackups
    /\ job' = [job EXCEPT ![s].pc = "begin", ![s].id = made + 1, ![s].available = MaxBytes - ArchiveBytes]
    /\ of' = [of EXCEPT ![made + 1] = s] /\ made' = made + 1
    /\ UNCHANGED <<row, disk, size, held, stuck, helpers, up, asked, faults,
                   crashes, others, conf, history>>

(* NewDataHelper: a container labelled with the operation.                 *)
JobHelper(s) ==
    /\ \/ At(s, "begin") /\ Goto(s, "helper")
       \/ At(s, "restoring") /\ Goto(s, "staging")
    /\ helpers' = helpers \cup {s}
    /\ UNCHANGED <<held, faults, store, others, conf, env, history>>

(* WriteSnapshot: the partial file, and its rename.                        *)
JobOpen(s) ==
    /\ At(s, "helper") /\ disk' = [disk EXCEPT ![job[s].id] = "partial"]
    /\ Goto(s, "writing")
    /\ UNCHANGED <<row, size, of, held, helpers, faults, others, conf, env,
                   history>>

JobPublish(s) ==
    /\ At(s, "writing") /\ disk' = [disk EXCEPT ![job[s].id] = "published"]
    /\ \E n \in 1..job[s].available : size' = [size EXCEPT ![job[s].id] = n]
    /\ Goto(s, "published")
    /\ UNCHANGED <<row, of, held, helpers, faults, others, conf, env, history>>

JobRecord(s) ==
    /\ At(s, "published") /\ row' = [row EXCEPT ![job[s].id] = "complete"]
    /\ Goto(s, "recorded")
    /\ UNCHANGED <<disk, size, of, held, helpers, faults, others, conf, env,
                   history>>

(* Prune: interrupted deletions, then the complete backups beyond the      *)
(* retention count, newest first; not the backup being restored.           *)
Newest(ids) == [i \in 1..Cardinality(ids) |-> CHOOSE b \in ids : Cardinality({c \in ids : c > b}) = i - 1]
Beyond(s) ==
    LET complete == {b \in Backup : of[b] = s /\ row[b] = "complete"}
    IN {b \in complete : Cardinality({c \in complete : c > b}) >= Retention}
Prunable(s) == Newest({b \in Backup : of[b] = s /\ row[b] = "deleting"}) \o Newest(Beyond(s) \ {job[s].keep})

JobPrune(s) ==
    /\ At(s, "recorded")
    /\ removing' = [removing EXCEPT ![s] = [ids |-> Prunable(s), pc |-> "mark"]]
    /\ Goto(s, "prune")
    /\ UNCHANGED <<held, deletion, tick, helpers, faults, store, conf, env,
                   history>>

(* A restore goes on to stage its archive, unless the pruning failed.      *)
JobPruned(s) ==
    /\ At(s, "prune") /\ removing[s].ids = <<>> /\ helpers' = helpers \ {s}
    /\ \/ job[s].keep # 0 /\ Goto(s, "restoring")
       \/ Goto(s, "end")
    /\ UNCHANGED <<held, faults, store, others, conf, env, history>>

(* ExtractToStage reads the archive and checks its sum on the way; the     *)
(* rest of the restore is module Restore.                                  *)
JobStage(s) ==
    /\ At(s, "staging") /\ Goto(s, "end") /\ helpers' = helpers \ {s}
    /\ UNCHANGED <<held, faults, store, others, conf, env, history>>

(* The backup fails before its row is written.                             *)
JobFails(s) ==
    /\ job[s].pc \in {"ready", "begin", "helper", "writing", "published"}
    /\ Goto(s, IF At(s, "ready") THEN "end" ELSE "cleanup")
    /\ UNCHANGED <<held, helpers, faults, store, others, conf, env, history>>

JobCleanup(s) ==
    /\ At(s, "cleanup") /\ disk' = [disk EXCEPT ![job[s].id] = "none"]
    /\ Goto(s, "end") /\ helpers' = helpers \ {s}
    /\ UNCHANGED <<row, size, of, held, faults, others, conf, env, history>>

(* An archive that could not be removed is recorded as deleting; when that *)
(* fails too, only a warning is left.                                      *)
RecordDeleting(s) ==
    \/ row' = [row EXCEPT ![job[s].id] = "deleting"] /\ UNCHANGED unseen
    \/ unseen' = unseen \cup {job[s].id} /\ UNCHANGED row

JobCleanupFails(s) ==
    /\ At(s, "cleanup") /\ Fault(job[s].id) /\ RecordDeleting(s)
    /\ Goto(s, "end") /\ helpers' = helpers \ {s}
    /\ UNCHANGED <<disk, size, of, held, wanted, others, conf, env>>

JobEnd(s) ==
    /\ job[s].pc \in {"restoring", "end"} /\ held' = Released(s)
    /\ job' = [job EXCEPT ![s] = NoJob]
    /\ UNCHANGED <<helpers, faults, store, others, conf, env, history>>

-----------------------------------------------------------------------------
(* A crash, and the recovery of the operations that were running: no lock  *)
(* is given to anyone else before it is over.                              *)

Crash ==
    /\ crashes < MaxCrashes /\ crashes' = crashes + 1 /\ up' = FALSE
    /\ held' = [k \in DOMAIN held |-> "none"]
    /\ removing' = [a \in Actor |-> NoRemoval]
    /\ deletion' = NoDeletion
    /\ tick' = [pending |-> {}, cursor |-> 0] /\ initing' = FALSE
    /\ job' = [s \in Server |-> IF job[s].pc \in {"idle", "wait"} THEN NoJob ELSE [job[s] EXCEPT !.pc = "crashed"]]
    /\ UNCHANGED <<settings, stuck, helpers, made, asked, faults, store, history>>

(* removeUnpublished: only a backup without a row.                         *)
MutantAnyUnpublished(s) == TRUE
Unpublished(s) == job[s].id # 0 /\ row[job[s].id] = "none"

Recover(s) ==
    /\ At(s, "crashed") /\ job' = [job EXCEPT ![s] = NoJob] /\ helpers' = helpers \ {s}
    /\ IF Unpublished(s) THEN disk' = [disk EXCEPT ![job[s].id] = "none"] ELSE UNCHANGED disk
    /\ UNCHANGED <<row, size, of, held, faults, others, conf, env, history>>

(* The binding changed, or the archive cannot be removed: the operation    *)
(* ends as interrupted, for an administrator to look at.                   *)
RecoverFails(s) ==
    /\ At(s, "crashed") /\ Unpublished(s) /\ Fault(job[s].id)
    /\ unseen' = unseen \cup {job[s].id}
    /\ job' = [job EXCEPT ![s] = NoJob] /\ helpers' = helpers \ {s}
    /\ UNCHANGED <<held, wanted, store, others, conf, env>>

Restart ==
    /\ ~up /\ \A s \in Server : ~At(s, "crashed")
    /\ up' = TRUE
    /\ UNCHANGED <<held, job, stuck, helpers, made, asked, faults, crashes,
                   store, others, conf, history>>

-----------------------------------------------------------------------------
JobStep(s) ==
    \/ JobLock(s) \/ JobRefused(s) \/ JobPlan(s) \/ JobHelper(s) \/ JobOpen(s) \/ JobPublish(s) \/ JobRecord(s) \/ JobPrune(s)
    \/ JobPruned(s) \/ JobStage(s) \/ JobFails(s) \/ JobCleanup(s) \/ JobCleanupFails(s) \/ JobEnd(s)
    \/ Recover(s) \/ RecoverFails(s)
RemoveStep(a) == RemoveMark(a) \/ RemoveUnlink(a) \/ RemoveRow(a) \/ RemoveFails(a)
TickStep == TickList \/ TickTake \/ TickRelease
DeleteStep == DeleteLock \/ DeleteEnd

Next ==
    \/ InitializeBegin \/ InitializeInsert \/ SaveSettings
    \/ \E a \in Actor : RemoveStep(a)
    \/ \E b \in Backup : DeleteRead(b)
    \/ DeleteStep \/ Revoke \/ TickStep
    \/ \E s \in Server : JobBegin(s) \/ JobStep(s)
    \/ Crash \/ Restart

Spec == Init /\ [][Next]_vars
LiveSpec ==
    /\ Spec /\ WF_vars(Restart) /\ WF_vars(InitializeBegin) /\ WF_vars(InitializeInsert)
    /\ WF_vars(TickStep) /\ WF_vars(DeleteStep)
    /\ \A a \in Actor : WF_vars(RemoveStep(a))
    /\ \A s \in Server : WF_vars(JobStep(s))

-----------------------------------------------------------------------------
(* Whatever is interrupted, in whatever order: a complete backup has its   *)
(* whole archive; an archive on disk belongs to a row or to a job that     *)
(* still deals with it (so it never uses storage unseen), unless Ludock    *)
(* said that it could not; the archive a restore reads is not removed      *)
(* under it, unless a user had begun to delete it before the restore had   *)
(* its locks; the complete backups stay within the global byte limit; and  *)
(* no data helper outlives its operation.                                  *)
BackupsAreKept ==
    /\ TypeOK
    /\ \A b \in Backup :
        /\ row[b] = "complete" => disk[b] = "published"
        /\ disk[b] # "none" => \/ row[b] # "none" \/ b \in unseen
                              \/ \E s \in Server : job[s].id = b
    /\ \A s \in Server : job[s].pc \in {"restoring", "staging"} =>
        disk[job[s].keep] = "published" \/ job[s].keep \in wanted
    /\ ArchiveBytes =< MaxBytes
    /\ \A s \in helpers : job[s].pc # "idle"

(* What an administrator saved is never replaced by the automatic setup,   *)
(* however long that was validating (Initialize and SaveSettings).         *)
AdministratorDecides == [][settings = "admin" => settings' = "admin"]_vars

(* A removal that has begun is not taken back: a Delete that is refused is *)
(* refused before it marks the row (remove, service.go:145-181).  The      *)
(* comment at 609-611 still says that it restores the row to complete.     *)
RemovalsGoOn ==
    [][\A b \in Backup : row[b] = "deleting" => row'[b] # "complete"]_vars

(* What an administrator decided stays, and every interrupted removal is   *)
(* finished: rows whose archive cannot be removed do not hold back the     *)
(* others (the cursor of FinishDeletions).                                 *)
StoreSettles ==
    /\ AdministratorDecides /\ RemovalsGoOn
    /\ \A b \in Backup : []<>(row[b] # "deleting" \/ b \in stuck)
=============================================================================
