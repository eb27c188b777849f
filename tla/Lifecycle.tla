----------------------------- MODULE Lifecycle ------------------------------
(***************************************************************************)
(* A start, stop or restart (runLifecycle and recoverLifecycle of          *)
(* internal/jobs/jobs.go) together with the monitoring of the server it    *)
(* changes.  Docker handles a stop after Ludock sent it, also when Ludock  *)
(* crashed meanwhile; the owner starts the server, and the game exits, at  *)
(* any time.                                                               *)
(*                                                                         *)
(* Simplifications: permission, binding, Docker and database failures are  *)
(* one failure that a step of the job may meet; the monitoring writes that *)
(* only log a failure succeed; saving the world is a step without effect.  *)
(***************************************************************************)
EXTENDS Monitor

CONSTANTS MaxAsked,    \* bound: operations that users ask for
          MaxPolicies, \* bound: policies saved
          MaxCrashes,  \* bound: crashes of Ludock
          MaxStarts    \* bound: starts by the owner

ASSUME LifecycleAssumption == MaxAsked \in Nat /\ MaxPolicies \in Nat /\ MaxCrashes \in Nat /\ MaxStarts \in Nat

VARIABLES
    job,       \* the operation: its row and the handler's progress
    held,      \* the server's locks are held
    stopping,  \* Docker is carrying out a stop that Ludock sent
    inst,      \* Docker's start time of the running instance
    late,      \* the saved stop deadline has passed
    own,       \* history: down since a stop that Ludock recorded
    excused,   \* history: a stop whose answer was lost, whose deadline passed, or
               \* that met an instance started after the stop was recorded
    asked, policies, crashes

jobVars == <<job, held, stopping, inst, late, own, excused, asked, policies, crashes>>
vars == <<monitorVars, srv, jobVars>>

Kinds == {"start", "stop", "restart"}
Pcs == {"none", "suppress", "save", "record", "dispatch", "await", "verify", "start",
        "started", "end", "finish", "crashed", "recover", "resolve", "reconcile", "deadline", "lastDeadline"}
Jobs == [status : {"none", "queued", "running"}, kind : Kinds, pc : Pcs,
         stopStarted : BOOLEAN, settled : BOOLEAN, inst : 0..(MaxStarts + MaxAsked)]
NoJob == [status |-> "none", kind |-> "start", pc |-> "none", stopStarted |-> FALSE,
          settled |-> FALSE, inst |-> 0]

TypeOK ==
    /\ MonitorTypeOK
    /\ job \in Jobs /\ held \in BOOLEAN /\ stopping \in BOOLEAN /\ late \in BOOLEAN
    /\ inst \in 0..(MaxStarts + MaxAsked) /\ own \in BOOLEAN /\ excused \in BOOLEAN
    /\ asked \in 0..MaxAsked /\ policies \in 0..MaxPolicies /\ crashes \in 0..MaxCrashes

Init ==
    /\ MonitorInit
    /\ job = NoJob /\ held = FALSE /\ stopping = FALSE /\ inst = 0 /\ late = FALSE
    /\ own = FALSE /\ excused = FALSE /\ asked = 0 /\ policies = 0 /\ crashes = 0

At(pc) == job.status = "running" /\ job.pc = pc
Goto(pc) == job' = [job EXCEPT !.pc = pc]
Up == srv # "down"

-----------------------------------------------------------------------------
(* Docker, and the owner of the server.                                    *)

StopCompletes ==
    /\ stopping /\ stopping' = FALSE /\ srv' = "down"
    /\ UNCHANGED <<monitorVars, job, held, inst, late, own, excused, asked, policies, crashes>>

GameExits ==
    /\ Up /\ ~stopping /\ srv' = "down"
    /\ UNCHANGED <<monitorVars, jobVars>>

(* Docker starts the container, for its owner or for Ludock.               *)
Started == srv' = "up" /\ inst' = inst + 1 /\ own' = FALSE

OwnerStarts ==
    /\ ~Up /\ ~stopping /\ inst < MaxStarts /\ Started
    /\ UNCHANGED <<monitorVars, job, held, stopping, late, excused, asked, policies, crashes>>

-----------------------------------------------------------------------------
(* runLifecycle.                                                           *)

Enqueue(kind) ==
    /\ job.status = "none" /\ job.pc = "none" /\ asked < MaxAsked
    /\ job' = [NoJob EXCEPT !.status = "queued", !.kind = kind]
    /\ asked' = asked + 1
    /\ UNCHANGED <<monitorVars, srv, held, stopping, inst, late, own, excused, policies, crashes>>

(* The runner takes the operation, and the handler its locks.              *)
Begin ==
    /\ job.status = "queued" /\ job.pc = "none"
    /\ job' = [job EXCEPT !.status = "running", !.pc = "suppress"]
    /\ held' = TRUE
    /\ UNCHANGED <<monitorVars, srv, stopping, inst, late, own, excused, asked, policies, crashes>>

(* Tracking pauses before anything is changed.                             *)
SuppressFirst ==
    /\ At("suppress") /\ Suppress
    /\ Goto(IF job.kind = "start" THEN "start" ELSE "save")
    /\ UNCHANGED <<srv, held, stopping, inst, late, own, excused, asked, policies, crashes>>

saveWorld ==
    /\ At("save") /\ Goto("record")
    /\ UNCHANGED <<monitorVars, srv, held, stopping, inst, late, own, excused, asked, policies, crashes>>

(* What recovery needs is saved before the stop is sent.                   *)
recordStop ==
    /\ At("record")
    /\ job' = [job EXCEPT !.pc = "dispatch", !.stopStarted = Up, !.inst = inst]
    /\ UNCHANGED <<monitorVars, srv, held, stopping, inst, late, own, excused, asked, policies, crashes>>

DispatchStop ==
    /\ At("dispatch") /\ Goto("await") /\ stopping' = Up
    /\ excused' = (excused \/ (Up /\ ~(job.stopStarted /\ job.inst = inst)))
    /\ UNCHANGED <<monitorVars, srv, held, inst, late, own, asked, policies, crashes>>

StopUnheard ==
    /\ At("await") /\ Goto("end") /\ excused' = (excused \/ stopping)
    /\ UNCHANGED <<monitorVars, srv, held, stopping, inst, late, own, asked, policies, crashes>>

(* SetIntentionalStop after the stop: a stop is to be quiet from here on.  *)
RecordIntent ==
    /\ At("await") /\ ~stopping /\ SetIntentionalStop(job.kind = "stop") /\ Goto("verify")
    /\ own' = (job.kind = "stop" /\ ~Up)
    /\ UNCHANGED <<srv, held, stopping, inst, late, excused, asked, policies, crashes>>

VerifyStop ==
    /\ At("verify")
    /\ job' = [job EXCEPT !.pc = IF job.kind = "restart" THEN "start" ELSE "end", !.settled = TRUE]
    /\ UNCHANGED <<monitorVars, srv, held, stopping, inst, late, own, excused, asked, policies, crashes>>

DispatchStart ==
    /\ At("start") /\ Goto("started")
    /\ IF Up THEN UNCHANGED <<srv, inst, own>> ELSE Started
    /\ UNCHANGED <<monitorVars, held, stopping, late, excused, asked, policies, crashes>>

ClearIntent ==
    /\ At("started") /\ SetIntentionalStop(FALSE) /\ Goto("end")
    /\ own' = FALSE
    /\ UNCHANGED <<srv, held, stopping, inst, late, excused, asked, policies, crashes>>

Fails ==
    /\ \E pc \in {"save", "record", "dispatch", "verify", "start"} : At(pc)
    /\ Goto("end")
    /\ UNCHANGED <<monitorVars, srv, held, stopping, inst, late, own, excused, asked, policies, crashes>>

FailsFirst ==
    /\ At("suppress") /\ Goto("finish") /\ held' = FALSE
    /\ UNCHANGED <<monitorVars, srv, stopping, inst, late, own, excused, asked, policies, crashes>>

(* The deferred Suppress, before the locks are released.                   *)
MutantNoLastSuppress ==
    /\ At("end") /\ Goto("finish") /\ held' = FALSE
    /\ UNCHANGED <<monitorVars, srv, stopping, inst, late, own, excused, asked, policies, crashes>>
SuppressLast ==
    /\ At("end") /\ Suppress /\ Goto("finish") /\ held' = FALSE
    /\ UNCHANGED <<srv, stopping, inst, late, own, excused, asked, policies, crashes>>

Finish ==
    /\ At("finish") /\ job' = NoJob /\ late' = FALSE
    /\ excused' = (excused \/ (stopping /\ late))
    /\ UNCHANGED <<monitorVars, srv, held, stopping, inst, own, asked, policies, crashes>>

-----------------------------------------------------------------------------
(* A crash, and recoverLifecycle.                                          *)

Crash ==
    /\ crashes < MaxCrashes /\ crashes' = crashes + 1
    /\ MonitorCrash
    /\ job' = IF job.status = "running" THEN [job EXCEPT !.pc = "recover"] ELSE job
    /\ held' = FALSE
    /\ UNCHANGED <<srv, stopping, inst, late, own, excused, asked, policies>>

DeadlinePasses ==
    /\ job.status = "running" /\ job.stopStarted /\ ~late /\ late' = TRUE
    /\ UNCHANGED <<monitorVars, srv, job, held, stopping, inst, own, excused, asked, policies, crashes>>

Unsettled == job.stopStarted /\ ~job.settled

(* The locks an unsettled stop had saved come before the permission check. *)
MutantResolvesFirst ==
    /\ At("recover")
    /\ (held' = TRUE /\ Goto("resolve")) \/ (Goto("finish") /\ UNCHANGED held)
    /\ UNCHANGED <<monitorVars, srv, stopping, inst, late, own, excused, asked, policies, crashes>>
RecoverLocks ==
    /\ At("recover")
    /\ \/ held' = TRUE /\ Goto("resolve")
       \/ ~Unsettled /\ Goto("finish") /\ UNCHANGED held
    /\ UNCHANGED <<monitorVars, srv, stopping, inst, late, own, excused, asked, policies, crashes>>

RecoverResolve ==
    /\ At("resolve")
    /\ \/ Goto(IF Unsettled THEN "reconcile" ELSE "end") /\ UNCHANGED held
       \/ Unsettled /\ Goto("deadline") /\ UNCHANGED held
       \/ ~Unsettled /\ Goto("finish") /\ held' = FALSE
    /\ UNCHANGED <<monitorVars, srv, stopping, inst, late, own, excused, asked, policies, crashes>>

(* awaitStopDeadline: the locks are kept, whatever the failure was.        *)
awaitStopDeadline ==
    /\ late
    /\ \/ At("deadline") /\ Goto("finish") /\ held' = FALSE
       \/ At("lastDeadline") /\ Goto("end") /\ UNCHANGED held
    /\ UNCHANGED <<monitorVars, srv, stopping, inst, late, own, excused, asked, policies, crashes>>

(* The loop only observes: the stop is over, another instance runs, or the *)
(* deadline has passed.                                                    *)
Reconcile ==
    /\ At("reconcile")
    /\ \/ /\ ~Up /\ SetIntentionalStop(job.kind = "stop")
          /\ own' = (job.kind = "stop")
          /\ job' = [job EXCEPT !.settled = TRUE, !.pc = "end"]
       \/ /\ Up /\ inst # job.inst /\ SetIntentionalStop(FALSE) /\ own' = FALSE /\ Goto("end")
       \/ /\ Up /\ inst = job.inst /\ late /\ Goto("end") /\ UNCHANGED <<monitorVars, own>>
       \/ /\ Up /\ inst = job.inst /\ ~late /\ Goto("lastDeadline") /\ UNCHANGED <<monitorVars, own>>
    /\ UNCHANGED <<srv, held, stopping, inst, late, excused, asked, policies, crashes>>

-----------------------------------------------------------------------------
Busy == held \/ job.status # "none"

PolicySaved ==
    /\ policies < MaxPolicies /\ policies' = policies + 1 /\ Configure
    /\ UNCHANGED <<job, held, stopping, inst, late, own, excused, asked, crashes>>

Tick == Check(Busy) /\ UNCHANGED jobVars

Run ==
    \/ Begin \/ SuppressFirst \/ saveWorld \/ recordStop \/ DispatchStop \/ RecordIntent
    \/ VerifyStop \/ DispatchStart \/ ClearIntent \/ SuppressLast \/ Finish
    \/ RecoverLocks \/ RecoverResolve \/ awaitStopDeadline \/ Reconcile

Next ==
    \/ StopCompletes \/ GameExits \/ OwnerStarts
    \/ \E kind \in Kinds : Enqueue(kind)
    \/ Run \/ StopUnheard \/ Fails \/ FailsFirst \/ Crash \/ DeadlinePasses
    \/ Tick
    \/ PolicySaved
    \/ (SuppressionEnds \/ GraceEnds) /\ UNCHANGED jobVars

Spec == Init /\ [][Next]_vars

(* The tick runs every 15 s and times pass; a handler's steps return and   *)
(* Docker ends a stop.                                                     *)
LiveSpec ==
    /\ Spec
    /\ WF_vars(Tick) /\ WF_vars(SuppressionEnds /\ UNCHANGED jobVars)
    /\ WF_vars(GraceEnds /\ UNCHANGED jobVars)
    /\ WF_vars(Run) /\ WF_vars(StopCompletes) /\ WF_vars(DeadlinePasses)

-----------------------------------------------------------------------------
(* Properties.                                                             *)

(* A server that is down because Ludock stopped it, and recorded that, is  *)
(* never alerted, however old the observation a tick still works on.       *)
OwnStopIsQuiet ==
    [][avail' # None /\ avail'.notified /\ (avail = None \/ ~avail.notified) => ~own]_vars

(* An outage is told once; its recovery is told only after it, unless the  *)
(* alert was saved and then lost in a crash.                               *)
ToldInOrder ==
    [][\A k \in Stamps : told'[k] # told[k] =>
          \/ told'[k] = "nothing"
          \/ told'[k] = "outage" /\ told[k] = "nothing"
          \/ told'[k] = "recovered" /\ (told[k] = "outage" \/ k \in lost)]_vars

(* Who is told of an outage is told the truth, and in order.               *)
AlertsAreRight == OwnStopIsQuiet /\ ToldInOrder

(* The locks of a stop that Docker may still carry out are kept, across a  *)
(* crash and whatever happened to its owner's permission, until the stop   *)
(* is over or its deadline has passed.  Only a request whose answer is     *)
(* lost gives them up, and one that met an instance which the owner had    *)
(* started between the record and the request.  The state is typed.        *)
StopKeepsLocks ==
    /\ TypeOK
    /\ stopping /\ ~held => late \/ excused \/ At("recover")

(* An operation ends; and a watched server that stays down, with no        *)
(* operation on it and no intended stop, is alerted.                       *)
AlertComes ==
    /\ []<>(job.status # "running")
    /\ []<>(~(~Up /\ job.status = "none" /\ avail # None /\ avail.watched /\ ~avail.stopped) \/ avail.notified)
=============================================================================
