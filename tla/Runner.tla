------------------------------- MODULE Runner -------------------------------
(***************************************************************************)
(* The operation queue of internal/ops/ops.go (Runner, Context.WithLocks)  *)
(* on the lock table of internal/locks, started and stopped as             *)
(* internal/app and cmd/ludock do.                                         *)
(*                                                                         *)
(* Each goroutine that Runner.fill starts is one job's process, with one   *)
(* action per database write, per critical section of Runner.mu and per    *)
(* critical section of Table.mu, so that all of their interleavings, and a *)
(* crash between any two of them, are behaviours of the model.  Wake is    *)
(* merged into the step before it: it only leaves a token in a channel.    *)
(*                                                                         *)
(* What a handler does while it holds its locks is one abstract effect     *)
(* here.  Rows, the columns status and request_key of `operations', live   *)
(* in the database and survive a crash; everything else is memory.         *)
(***************************************************************************)
EXTENDS Locks, FiniteSets

CONSTANTS Jobs,       \* operation numbers, in the order of created_at and id
          Requests,   \* what callers enqueue: [server, lane, key] records
          NoRequest,  \* the request of a row that does not exist
          NoKey,      \* the key of a request that has no idempotency key
          KeysOf,     \* the lock keys of each server
          Capacity,   \* laneCapacity
          Outside,    \* requests that take locks without the runner
          Warnings,   \* background work that takes locks
          MaxStarts   \* bound: how often the process is started

ASSUME RunnerAssumption ==
    /\ Jobs \subseteq Nat
    /\ IsFiniteSet(Jobs)
    /\ NoRequest \notin Requests
    /\ \A r \in Requests : KeysOf[r.server] \subseteq Keys
    /\ \A r \in Requests : r.lane \in DOMAIN Capacity
    /\ \A lane \in DOMAIN Capacity : Capacity[lane] \in Nat
    /\ Holders = Jobs \cup Outside \cup Warnings
    /\ Jobs \cap (Outside \cup Warnings) = {}
    /\ Outside \cap Warnings = {}
    /\ MaxStarts \in Nat

Lanes == DOMAIN Capacity

VARIABLES
    \* the database
    request,   \* the row's server, lane and request_key
    status,    \* the row's status
    \* the process
    phase,     \* "down", "recovering", "serving", "signalled" or "stopped"
    starts,    \* how often it was started
    recovery,  \* where Runner.Start is: [at, left, job]
    enabled, claimed, yielded, waiting, laneLoad, wake, \* fields of Runner
    loop,      \* where the goroutine that calls fill is
    snapshot,  \* the queued rows fill read
    jpc,       \* where each job's goroutine is
    result,    \* what its last Acquire or its handler returned
    blockers,  \* the holders its last refused Acquire met
    settled,   \* whether the settled channel it took was closed
    \* the environment, and history
    spent,     \* requests and background work that took their locks
    runs       \* how often each job's handler acted

rowVars == <<request, status>>
runnerVars == <<enabled, claimed, yielded, waiting, laneLoad>>
loopVars == <<loop, snapshot>>
jobVars == <<jpc, result, blockers, settled>>
processVars == <<phase, starts, recovery>>
vars == <<tableVars, rowVars, runnerVars, wake, loopVars, jobVars, processVars, spent, runs>>

Statuses == {"none", "queued", "running", "succeeded", "failed", "interrupted"}
Terminal == {"succeeded", "failed", "interrupted"}
JobSteps == {"none", "start", "run", "acquire", "conflict", "decide", "locked", "act",
             "finish", "requeue", "park", "yield", "reread", "exit"}
Results == {"none", "recovering", "conflict", "background", "wait", "yield",
            "succeeded", "failed"}

TypeOK ==
    /\ TableTypeOK
    /\ request \in [Jobs -> Requests \cup {NoRequest}]
    /\ status \in [Jobs -> Statuses]
    /\ phase \in {"down", "recovering", "serving", "signalled", "stopped"}
    /\ starts \in 0..MaxStarts
    /\ recovery \in [at : {"off", "next", "reconcile", "record"},
                     left : SUBSET Jobs, job : Jobs \cup {0}]
    /\ enabled \in BOOLEAN
    /\ claimed \in SUBSET Jobs
    /\ yielded \in SUBSET Jobs
    /\ waiting \in SUBSET Jobs
    /\ laneLoad \in [Lanes -> Nat]
    /\ wake \in BOOLEAN
    /\ loop \in {"off", "select", "read", "claim"}
    /\ snapshot \in SUBSET Jobs
    /\ jpc \in [Jobs -> JobSteps]
    /\ result \in [Jobs -> Results]
    /\ blockers \in [Jobs -> SUBSET Holders]
    /\ settled \in [Jobs -> BOOLEAN]
    /\ spent \in SUBSET (Outside \cup Warnings)
    /\ runs \in [Jobs -> Nat]

NotRecovering == [at |-> "off", left |-> {}, job |-> 0]

NothingHeld == [k \in Keys |-> NoHolder]
NoLoad == [lane \in Lanes |-> 0]
NoProcess == [j \in Jobs |-> "none"]
Nobody == [j \in Jobs |-> {}]

Init ==
    /\ TableInit
    /\ request = [j \in Jobs |-> NoRequest]
    /\ status = [j \in Jobs |-> "none"]
    /\ phase = "down" /\ starts = 0 /\ recovery = NotRecovering
    /\ enabled = FALSE /\ claimed = {} /\ yielded = {} /\ waiting = {} /\ laneLoad = NoLoad
    /\ wake = FALSE /\ loop = "off" /\ snapshot = {}
    /\ jpc = NoProcess /\ result = NoProcess /\ blockers = Nobody
    /\ settled = [j \in Jobs |-> FALSE]
    /\ spent = {} /\ runs = [j \in Jobs |-> 0]

JobKeys(j) == KeysOf[request[j].server]
Lane(j) == request[j].lane
GoTo(j, step) == jpc' = [jpc EXCEPT ![j] = step]

\* Writes use the signal's context: none succeeds once the signal came.
Saves == phase = "serving"

----------------------------------------------------------------------------
(* Enqueue *)

\* A repeated request key returns the earlier row, and a server with a queued
\* or running row refuses another; both leave the rows alone.
Enqueue(r) ==
    /\ phase \in {"recovering", "serving"}
    /\ r.key # NoKey => \A j \in Jobs : request[j] # NoRequest => request[j].key # r.key
    /\ \A j \in Jobs : status[j] \in {"queued", "running"} => request[j].server # r.server
    /\ \E j \in Jobs :
          /\ status[j] = "none"
          /\ \A i \in Jobs : i < j => status[i] # "none"
          /\ request' = [request EXCEPT ![j] = r]
          /\ status' = [status EXCEPT ![j] = "queued"]
    /\ wake' = TRUE
    /\ UNCHANGED <<tableVars, runnerVars, loopVars, jobVars, processVars, spent, runs>>

----------------------------------------------------------------------------
(* fill, in the goroutine of the loop *)

lanesFull == \A lane \in Lanes : laneLoad[lane] >= Capacity[lane]

FillCheck ==
    /\ loop = "select" /\ wake
    /\ wake' = FALSE
    /\ loop' = IF ~enabled \/ yielded # {} \/ lanesFull THEN "select" ELSE "read"
    /\ UNCHANGED <<tableVars, rowVars, runnerVars, snapshot, jobVars, processVars, spent, runs>>

\* The rows are read without Runner.mu.
FillRead ==
    /\ loop = "read" /\ Saves
    /\ snapshot' = {j \in Jobs : status[j] = "queued"}
    /\ loop' = "claim"
    /\ UNCHANGED <<tableVars, rowVars, runnerVars, wake, jobVars, processVars, spent, runs>>

\* retryFill
FillReadFails ==
    /\ loop = "read"
    /\ loop' = "select" /\ wake' = TRUE
    /\ UNCHANGED <<tableVars, rowVars, runnerVars, snapshot, jobVars, processVars, spent, runs>>

Eligible(j) == enabled /\ j \in snapshot /\ j \notin claimed /\ j \notin waiting

\* The rows the loop over the snapshot claims: in order, while their lane has
\* room.
Claimable ==
    {j \in Jobs :
        /\ Eligible(j)
        /\ laneLoad[Lane(j)] +
               Cardinality({i \in Jobs : i < j /\ Eligible(i) /\ Lane(i) = Lane(j)})
               < Capacity[Lane(j)]}

FillClaim ==
    /\ loop = "claim"
    /\ claimed' = claimed \cup Claimable
    /\ laneLoad' = [lane \in Lanes |->
                      laneLoad[lane] + Cardinality({j \in Claimable : Lane(j) = lane})]
    /\ jpc' = [j \in Jobs |-> IF j \in Claimable THEN "start" ELSE jpc[j]]
    /\ snapshot' = {}
    /\ loop' = "select"
    /\ UNCHANGED <<tableVars, rowVars, enabled, yielded, waiting, wake, result, blockers,
                   settled, processVars, spent, runs>>

----------------------------------------------------------------------------
(* run, in the goroutine of a job *)

\* Mutant: the job is not saved as running before its handler acts.
StartRowUnsaved(j) ==
    /\ jpc[j] = "start" /\ Saves
    /\ GoTo(j, IF status[j] = "queued" THEN "run" ELSE "exit")
    /\ UNCHANGED <<tableVars, rowVars, runnerVars, wake, loopVars, result, blockers,
                   settled, processVars, spent, runs>>

\* The row is claimed only if it is still queued: the snapshot may be stale.
StartRow(j) ==
    /\ jpc[j] = "start" /\ Saves
    /\ IF status[j] = "queued"
         THEN /\ status' = [status EXCEPT ![j] = "running"]
              /\ GoTo(j, "run")
         ELSE GoTo(j, "exit") /\ UNCHANGED status
    /\ UNCHANGED <<tableVars, request, runnerVars, wake, loopVars, result, blockers,
                   settled, processVars, spent, runs>>

\* persist gives up when the context is cancelled or the runner stops.
PersistGivesUp(j) ==
    /\ jpc[j] \in {"start", "finish", "requeue"} /\ ~Saves
    /\ GoTo(j, "exit")
    /\ UNCHANGED <<tableVars, rowVars, runnerVars, wake, loopVars, result, blockers,
                   settled, processVars, spent, runs>>

\* A damaged row, an unknown kind, or a handler that refuses before it needs
\* its locks.
RunRefuses(j) ==
    /\ jpc[j] = "run"
    /\ result' = [result EXCEPT ![j] = "failed"]
    /\ GoTo(j, "finish")
    /\ UNCHANGED <<tableVars, rowVars, runnerVars, wake, loopVars, blockers, settled,
                   processVars, spent, runs>>

\* WithLocks takes the next release's channel before it tries.
WithLocks(j) ==
    /\ jpc[j] = "run"
    /\ NextRelease(j)
    /\ GoTo(j, "acquire")
    /\ UNCHANGED <<active, background, cancelled, fences, rowVars, runnerVars, wake, loopVars,
                   result, blockers, settled, processVars, spent, runs>>

Acquired(j) ==
    /\ jpc[j] = "acquire"
    /\ Answer(JobKeys(j), FALSE) = "ok"
    /\ Take(j, JobKeys(j), FALSE)
    /\ GoTo(j, "locked")
    /\ UNCHANGED <<signalled, fences, rowVars, runnerVars, wake, loopVars, result, blockers,
                   settled, processVars, spent, runs>>

Refused(j) ==
    /\ jpc[j] = "acquire"
    /\ Answer(JobKeys(j), FALSE) # "ok"
    /\ result' = [result EXCEPT ![j] = Answer(JobKeys(j), FALSE)]
    /\ blockers' = [blockers EXCEPT ![j] = Conflicting(JobKeys(j))]
    /\ GoTo(j, "conflict")
    /\ UNCHANGED <<tableVars, rowVars, runnerVars, wake, loopVars, settled, processVars,
                   spent, runs>>

\* Keys were released since the attempt began: try again.
TryAgain(j) ==
    /\ jpc[j] = "conflict" /\ signalled[j]
    /\ NextRelease(j)
    /\ GoTo(j, "acquire")
    /\ UNCHANGED <<active, background, cancelled, fences, rowVars, runnerVars, wake, loopVars,
                   result, blockers, settled, processVars, spent, runs>>

\* Mutant: the channel is taken after the attempt, not before.
NothingReleasedLate(j) ==
    /\ jpc[j] = "conflict"
    /\ NextRelease(j)
    /\ GoTo(j, "decide")
    /\ UNCHANGED <<active, background, cancelled, fences, rowVars, runnerVars, wake, loopVars,
                   result, blockers, settled, processVars, spent, runs>>

NothingReleased(j) ==
    /\ jpc[j] = "conflict" /\ ~signalled[j]
    /\ GoTo(j, "decide")
    /\ UNCHANGED <<tableVars, rowVars, runnerVars, wake, loopVars, result, blockers, settled,
                   processVars, spent, runs>>

otherActive(j) == \E i \in claimed \ {j} : i \notin yielded

\* The critical section of Runner.mu after a conflict.
Decide(j) ==
    LET waits  == result[j] = "background"
        yields == result[j] = "conflict" /\ otherActive(j)
    IN  /\ jpc[j] = "decide"
        /\ settled' = [settled EXCEPT ![j] = FALSE]
        /\ yielded' = yielded \ {j}
        /\ wake' = (wake \/ (j \in yielded /\ ~yields))
        /\ cancelled' = IF waits THEN cancelled \cup (blockers[j] \cap background) ELSE cancelled
        /\ result' = [result EXCEPT ![j] = IF waits THEN "wait"
                                           ELSE IF yields THEN "yield" ELSE result[j]]
        /\ GoTo(j, IF waits \/ yields THEN "requeue" ELSE "finish")
        /\ UNCHANGED <<active, background, signalled, fences, rowVars, enabled, claimed, waiting,
                       laneLoad, loopVars, blockers, processVars, spent, runs>>

\* The job has its locks: it lets the queue go and its handler acts.
Locked(j) ==
    /\ jpc[j] = "locked"
    /\ yielded' = yielded \ {j}
    /\ wake' = (wake \/ j \in yielded)
    /\ runs' = [runs EXCEPT ![j] = @ + 1]
    /\ GoTo(j, "act")
    /\ UNCHANGED <<tableVars, rowVars, enabled, claimed, waiting, laneLoad, loopVars, result,
                   blockers, settled, processVars, spent>>

\* The handler ends, well or not, and its locks are released.
HandlerReturns(j) ==
    /\ jpc[j] = "act"
    /\ Release(j)
    /\ \E r \in {"succeeded", "failed"} : result' = [result EXCEPT ![j] = r]
    /\ GoTo(j, "finish")
    /\ UNCHANGED <<fences, rowVars, runnerVars, wake, loopVars, blockers, settled, processVars,
                   spent, runs>>

\* An error of Acquire is an error of the handler.
finish(j) ==
    /\ jpc[j] = "finish" /\ Saves
    /\ status' = [status EXCEPT ![j] = IF result[j] = "succeeded" THEN "succeeded" ELSE "failed"]
    /\ GoTo(j, "exit")
    /\ UNCHANGED <<tableVars, request, runnerVars, wake, loopVars, result, blockers, settled,
                   processVars, spent, runs>>

Requeue(j) ==
    /\ jpc[j] = "requeue" /\ Saves
    /\ status' = [status EXCEPT ![j] = "queued"]
    /\ GoTo(j, "park")
    /\ UNCHANGED <<tableVars, request, runnerVars, wake, loopVars, result, blockers, settled,
                   processVars, spent, runs>>

\* Behind another job it keeps its lane and holds the queue; behind background
\* work it leaves its lane.
Park(j) ==
    /\ jpc[j] = "park"
    /\ IF result[j] = "yield"
         THEN yielded' = yielded \cup {j} /\ GoTo(j, "yield") /\ UNCHANGED waiting
         ELSE waiting' = waiting \cup {j} /\ GoTo(j, "exit") /\ UNCHANGED yielded
    /\ UNCHANGED <<tableVars, rowVars, enabled, claimed, laneLoad, wake, loopVars, result,
                   blockers, settled, processVars, spent, runs>>

\* Mutant: the queue is not woken for the job that returns to it.
WaitEndsQuietly(j) ==
    /\ j \in waiting /\ signalled[j]
    /\ waiting' = waiting \ {j}
    /\ UNCHANGED <<tableVars, rowVars, enabled, claimed, yielded, laneLoad, wake, loopVars,
                   jobVars, processVars, spent, runs>>

\* The goroutine that returns a waiting job to the queue.
WaitEnds(j) ==
    /\ j \in waiting /\ signalled[j]
    /\ waiting' = waiting \ {j}
    /\ wake' = TRUE
    /\ UNCHANGED <<tableVars, rowVars, enabled, claimed, yielded, laneLoad, loopVars, jobVars,
                   processVars, spent, runs>>

YieldEnds(j) ==
    /\ jpc[j] = "yield"
    /\ signalled[j] \/ settled[j] \/ phase = "stopped"
    /\ GoTo(j, "reread")
    /\ UNCHANGED <<tableVars, rowVars, runnerVars, wake, loopVars, result, blockers, settled,
                   processVars, spent, runs>>

Reread(j) ==
    /\ jpc[j] = "reread" /\ Saves
    /\ GoTo(j, IF enabled /\ status[j] = "queued" THEN "start" ELSE "exit")
    /\ UNCHANGED <<tableVars, rowVars, runnerVars, wake, loopVars, result, blockers, settled,
                   processVars, spent, runs>>

RereadFails(j) ==
    /\ jpc[j] = "reread"
    /\ GoTo(j, "exit")
    /\ UNCHANGED <<tableVars, rowVars, runnerVars, wake, loopVars, result, blockers, settled,
                   processVars, spent, runs>>

\* The end of the goroutine that fill started.
Leave(j) ==
    /\ jpc[j] = "exit"
    /\ claimed' = claimed \ {j}
    /\ yielded' = yielded \ {j}
    /\ laneLoad' = [laneLoad EXCEPT ![Lane(j)] = @ - 1]
    /\ settled' = [i \in Jobs |-> TRUE]
    /\ wake' = TRUE
    /\ result' = [result EXCEPT ![j] = "none"]
    /\ blockers' = [blockers EXCEPT ![j] = {}]
    /\ GoTo(j, "none")
    /\ UNCHANGED <<tableVars, rowVars, enabled, waiting, loopVars, processVars, spent, runs>>

----------------------------------------------------------------------------
(* The process: App.Start, Runner.Start, the signal, Runner.Stop, a crash *)

\* Mutant: requests may take locks while operations are recovered.
LaunchUnfenced ==
    /\ phase = "down" /\ starts < MaxStarts
    /\ phase' = "recovering" /\ starts' = starts + 1
    /\ UNCHANGED <<tableVars, rowVars, runnerVars, wake, loopVars, jobVars, recovery, spent, runs>>

\* App.Start fences the lock table before the server listens.
Launch ==
    /\ phase = "down" /\ starts < MaxStarts
    /\ phase' = "recovering" /\ starts' = starts + 1
    /\ fences' = 1
    /\ UNCHANGED <<active, background, cancelled, signalled, rowVars, runnerVars, wake, loopVars,
                   jobVars, recovery, spent, runs>>

\* Runner.Start reads the rows a crash left running.
StartRunner ==
    /\ phase = "recovering" /\ recovery.at = "off"
    /\ enabled' = TRUE
    /\ recovery' = [at |-> "next", left |-> {j \in Jobs : status[j] = "running"}, job |-> 0]
    /\ UNCHANGED <<tableVars, rowVars, claimed, yielded, waiting, laneLoad, wake, loopVars,
                   jobVars, phase, starts, spent, runs>>

\* handler.Recover takes the operation's locks past the fence.  A kind
\* without Recover, or a damaged row, goes straight to its outcome.
RecoverTakes(j) ==
    /\ recovery.at = "next" /\ j \in recovery.left
    /\ Answer(JobKeys(j), TRUE) = "ok"
    /\ Take(j, JobKeys(j), FALSE)
    /\ recovery' = [recovery EXCEPT !.at = "reconcile", !.job = j]
    /\ UNCHANGED <<signalled, fences, rowVars, runnerVars, wake, loopVars, jobVars, phase,
                   starts, spent, runs>>

RecoverSkips(j) ==
    /\ recovery.at = "next" /\ j \in recovery.left
    /\ recovery' = [recovery EXCEPT !.at = "record", !.job = j]
    /\ UNCHANGED <<tableVars, rowVars, runnerVars, wake, loopVars, jobVars, phase, starts,
                   spent, runs>>

RecoverReleases ==
    /\ recovery.at = "reconcile"
    /\ Release(recovery.job)
    /\ recovery' = [recovery EXCEPT !.at = "record"]
    /\ UNCHANGED <<fences, rowVars, runnerVars, wake, loopVars, jobVars, phase, starts, spent,
                   runs>>

RecoverRecords ==
    /\ recovery.at = "record"
    /\ status' = [status EXCEPT ![recovery.job] = "interrupted"]
    /\ recovery' = [recovery EXCEPT !.at = "next", !.left = @ \ {recovery.job}, !.job = 0]
    /\ UNCHANGED <<tableVars, request, runnerVars, wake, loopVars, jobVars, phase, starts,
                   spent, runs>>

\* A failed write: Start returns an error and App tries it again.
RecoverFails ==
    /\ recovery.at = "record"
    /\ enabled' = FALSE
    /\ recovery' = NotRecovering
    /\ UNCHANGED <<tableVars, rowVars, claimed, yielded, waiting, laneLoad, wake, loopVars,
                   jobVars, phase, starts, spent, runs>>

\* Mutant: the queue is started before every running row is reconciled.
RecoveredEarly ==
    /\ recovery.at = "next"
    /\ phase' = "serving" /\ recovery' = NotRecovering
    /\ fences' = 0
    /\ loop' = "select" /\ wake' = TRUE
    /\ UNCHANGED <<active, background, cancelled, signalled, rowVars, runnerVars, snapshot,
                   jobVars, starts, spent, runs>>

\* Start lifts the fence, then begins the loop and wakes it.
Recovered ==
    /\ recovery.at = "next" /\ recovery.left = {}
    /\ phase' = "serving" /\ recovery' = NotRecovering
    /\ fences' = 0
    /\ loop' = "select" /\ wake' = TRUE
    /\ UNCHANGED <<active, background, cancelled, signalled, rowVars, runnerVars, snapshot,
                   jobVars, starts, spent, runs>>

\* A signal cancels the context of every job and of fill.
Signal ==
    /\ phase = "serving" /\ starts < MaxStarts
    /\ phase' = "signalled"
    /\ UNCHANGED <<tableVars, rowVars, runnerVars, wake, loopVars, jobVars, recovery, starts,
                   spent, runs>>

Stop ==
    /\ phase = "signalled"
    /\ phase' = "stopped"
    /\ enabled' = FALSE
    /\ settled' = [j \in Jobs |-> TRUE]
    /\ UNCHANGED <<tableVars, rowVars, claimed, yielded, waiting, laneLoad, wake, loopVars, jpc,
                   result, blockers, recovery, starts, spent, runs>>

\* The process ends: memory is gone, rows are not.
ProcessEnds ==
    /\ phase' = "down"
    /\ active' = NothingHeld /\ background' = {} /\ cancelled' = {} /\ fences' = 0
    /\ signalled' = [h \in Holders |-> FALSE]
    /\ enabled' = FALSE /\ claimed' = {} /\ yielded' = {} /\ waiting' = {} /\ laneLoad' = NoLoad
    /\ wake' = FALSE /\ loop' = "off" /\ snapshot' = {}
    /\ jpc' = NoProcess /\ result' = NoProcess /\ blockers' = Nobody
    /\ settled' = [j \in Jobs |-> FALSE]
    /\ recovery' = NotRecovering
    /\ UNCHANGED <<rowVars, starts, spent, runs>>

\* Stop waits for the loop and the jobs, App.Stop for the locks.
Exit ==
    /\ phase = "stopped" /\ loop = "select"
    /\ \A j \in Jobs : jpc[j] = "none"
    /\ \A k \in Keys : active[k] = NoHolder
    /\ ProcessEnds

Crash ==
    /\ phase # "down" /\ starts < MaxStarts
    /\ ProcessEnds

----------------------------------------------------------------------------
(* Work that takes locks without the runner *)

\* A request, refused while the table is fenced or the keys are held, or
\* background work.  Each takes its locks once (a bound).
OutsideTakes(h) ==
    /\ phase # "down" /\ h \notin spent
    /\ \E r \in Requests :
          /\ Answer(KeysOf[r.server], FALSE) = "ok"
          /\ Take(h, KeysOf[r.server], h \in Warnings)
    /\ spent' = spent \cup {h}
    /\ UNCHANGED <<signalled, fences, rowVars, runnerVars, wake, loopVars, jobVars, processVars,
                   runs>>

OutsideReleases(h) ==
    /\ \E k \in Keys : active[k] = h
    /\ Release(h)
    /\ UNCHANGED <<fences, rowVars, runnerVars, wake, loopVars, jobVars, processVars, spent,
                   runs>>

----------------------------------------------------------------------------
JobStep(j) ==
    \/ StartRow(j) \/ PersistGivesUp(j) \/ RunRefuses(j) \/ WithLocks(j) \/ Acquired(j)
    \/ Refused(j) \/ TryAgain(j) \/ NothingReleased(j) \/ Decide(j) \/ Locked(j)
    \/ HandlerReturns(j) \/ finish(j) \/ Requeue(j) \/ Park(j) \/ YieldEnds(j) \/ Reread(j)
    \/ RereadFails(j) \/ Leave(j)

Loop == FillCheck \/ FillRead \/ FillReadFails \/ FillClaim

Startup ==
    \/ StartRunner \/ RecoverReleases \/ RecoverRecords \/ RecoverFails \/ Recovered
    \/ \E j \in Jobs : RecoverTakes(j) \/ RecoverSkips(j)

Next ==
    \/ \E r \in Requests : Enqueue(r)
    \/ Loop
    \/ \E j \in Jobs : JobStep(j) \/ WaitEnds(j)
    \/ Launch \/ Startup \/ Signal \/ Stop \/ Exit \/ Crash
    \/ \E h \in Outside \cup Warnings : OutsideTakes(h) \/ OutsideReleases(h)

Spec == Init /\ [][Next]_vars

\* Goroutines run on, handlers return and other holders release.  A database
\* that fails now and then does not fail forever (SF): App and retryFill try
\* again each time.
Fairness ==
    /\ \A j \in Jobs : WF_vars(JobStep(j)) /\ WF_vars(WaitEnds(j))
    /\ WF_vars(FillCheck) /\ SF_vars(FillRead) /\ WF_vars(FillClaim)
    /\ WF_vars(Launch) /\ WF_vars(Startup) /\ SF_vars(RecoverRecords)
    /\ WF_vars(Stop) /\ WF_vars(Exit)
    /\ \A h \in Outside \cup Warnings : WF_vars(OutsideReleases(h))

LiveSpec == Spec /\ Fairness

----------------------------------------------------------------------------
(* Safety *)

\* A handler is acting on its server, to run or to reconcile an operation.
Acting(j) ==
    jpc[j] = "act" \/ (recovery.at = "reconcile" /\ recovery.job = j)

\* Two handlers never act at the same time on resources that overlap, however
\* the jobs, the startup recovery and crashes interleave.
EffectsExclusive ==
    \A i, j \in Jobs :
        i # j /\ Acting(i) /\ Acting(j) =>
            \A k \in JobKeys(i), l \in JobKeys(j) : ~Overlaps(k, l)

\* An operation acts at most once, over all restarts: it is saved as running
\* before its handler acts, and what is found running is reconciled, not run.
ActsOnce == \A j \in Jobs : runs[j] <= 1

\* No operation is left behind: once requests and jobs may take locks, every
\* running row belongs to a live goroutine.
NoOrphans ==
    phase = "serving" =>
        \A j \in Jobs : status[j] = "running" => jpc[j] # "none"

\* A server has at most one queued or running operation, requeued ones too.
OneOperationPerServer ==
    \A i, j \in Jobs :
        i # j /\ {status[i], status[j]} \subseteq {"queued", "running"} =>
            request[i].server # request[j].server

\* No lane runs more jobs than its capacity, and its load is what it runs.
LaneCapacity ==
    \A lane \in Lanes :
        /\ laneLoad[lane] <= Capacity[lane]
        /\ laneLoad[lane] = Cardinality({j \in Jobs : jpc[j] # "none" /\ Lane(j) = lane})

\* Startup recovery always gets the locks of the operation it reconciles: the
\* fence keeps everything else off until every interrupted operation is done.
RecoveryGetsLocks ==
    recovery.at = "next" =>
        \A j \in recovery.left : Answer(JobKeys(j), TRUE) = "ok"

\* Queued work never reaches the startup fence and fails there.
FenceIsUnseen == \A j \in Jobs : result[j] # "recovering"

\* A job that sleeps will be woken: while its channels are open, somebody
\* holds keys or another job is on its way, whose end closes one of them.
SleepersHaveWaker ==
    phase = "serving" =>
        \A j \in Jobs :
            /\ jpc[j] = "yield" /\ ~signalled[j] /\ ~settled[j] =>
                  \/ \E k \in Keys : active[k] # NoHolder
                  \/ \E i \in claimed : jpc[i] # "yield"
            /\ j \in waiting /\ ~signalled[j] => Conflicting(JobKeys(j)) # {}

\* The queue keeps moving: no lane is taken by jobs that left it, and no job
\* sleeps through the release it waits for.
LanesAreFree == LaneCapacity /\ SleepersHaveWaker

(* Liveness *)

\* Every queued operation is carried out or refused: the queue never wedges.
QueueDrains ==
    \A j \in Jobs : []<>(status[j] \notin {"queued", "running"})
============================================================================
