------------------------------- MODULE Update -------------------------------
(***************************************************************************)
(* An image update: runUpdate, the swap of the server's container for its  *)
(* replacement, undoing it and its recovery (internal/jobs/update.go), and *)
(* the stop and start around it (internal/jobs/data.go).                   *)
(*                                                                         *)
(* Ludock saves how far it is before each request to Docker.  A request    *)
(* may fail, or succeed with its response lost, and Ludock may crash       *)
(* between any two steps.  Meanwhile Docker restarts, and another manager  *)
(* starts, stops and removes containers.                                   *)
(*                                                                         *)
(* Simplifications: the server's own restart policy is one that restarts;  *)
(* permission checks, the backup, the rechecks of plan and image, and the  *)
(* new container's health are steps that succeed or fail; Docker has ended *)
(* a request when Ludock looks again.                                      *)
(***************************************************************************)
EXTENDS Naturals

CONSTANTS MaxCrashes,  \* bound: crashes of Ludock
          MaxExternal  \* bound: restarts of Docker and deeds of others

ASSUME UpdateAssumption == MaxCrashes \in Nat /\ MaxExternal \in Nat

VARIABLES
    \* saved in the operation's row: survives a crash
    row,    \* "running" or "finished"
    rec,    \* what ops.Recovery holds of the stop and the start
    stage,  \* swapState.Stage, or "none"
    \* Ludock's memory
    pc, mode,
    plan,   \* whether the plan found the server running
    \* Docker
    orig, repl,  \* the original and the replacement
    \* history
    reported,    \* a public error says what settling could not do
    crashes, externals

savedVars == <<row, rec, stage>>
dockerVars == <<orig, repl>>
boundVars == <<crashes, externals>>
updateVars == <<savedVars, pc, mode, plan, dockerVars, reported, boundVars>>

Stages == <<"none", "creating", "starting", "replacing", "replaced">>
reached(s) ==
    \E i, k \in DOMAIN Stages : i >= k /\ Stages[i] = stage /\ Stages[k] = s

RunSteps == {"check", "pull", "recordStop", "stop", "stopped", "backup", "creating", "policy",
             "create", "saveID", "image", "assertStopped", "starting", "start", "await",
             "confirm", "replacing"}
SettleSteps == {"settle", "removeReplacement", "inspectOriginal", "restorePolicy",
                "removeOriginal", "givePolicy", "rename", "replaced"}
EndSteps == {"undo", "restoreState", "restart", "restored", "finish"}

Containers == [state : {"none", "stopped", "running", "gone"}, policy : {"own", "no"},
               startedAt : Nat, starter : {"nobody", "ludock", "docker", "other"},
               ran : BOOLEAN, remover : {"nobody", "ludock", "other"}, name : {"server", "temporary"}]

UpdateTypeOK ==
    /\ row \in {"running", "finished"}
    /\ rec \in [initial : {"unset", "yes", "no"}, initialAt : Nat, settled : BOOLEAN,
                stoppedAt : Nat, startRequested : BOOLEAN, stateRestored : BOOLEAN]
    /\ \E i \in DOMAIN Stages : stage = Stages[i]
    /\ pc \in RunSteps \cup SettleSteps \cup EndSteps \cup {"down", "done"}
    /\ mode \in {"run", "undo", "recover"}
    /\ plan \in BOOLEAN
    /\ orig \in Containers /\ repl \in Containers
    /\ reported \in BOOLEAN
    /\ crashes \in 0..MaxCrashes /\ externals \in 0..MaxExternal

UpdateInit ==
    /\ row = "running" /\ stage = "none"
    /\ rec = [initial |-> "unset", initialAt |-> 0, settled |-> FALSE, stoppedAt |-> 0,
              startRequested |-> FALSE, stateRestored |-> FALSE]
    /\ pc = "check" /\ mode = "run" /\ plan = FALSE
    /\ \E s \in {"stopped", "running"} :
          orig = [state |-> s, policy |-> "own", startedAt |-> 1, starter |-> "nobody",
                  ran |-> FALSE, remover |-> "nobody", name |-> "server"]
    /\ repl = [state |-> "none", policy |-> "no", startedAt |-> 0, starter |-> "nobody",
               ran |-> FALSE, remover |-> "nobody", name |-> "temporary"]
    /\ reported = FALSE /\ crashes = 0 /\ externals = 0

----------------------------------------------------------------------------
(* What a request does to a container; `ran': Ludock ever started it. *)

Present(c) == c.state \in {"stopped", "running"}
Running(c) == c.state = "running"
Started(c, by) ==
    IF Running(c) THEN c
    ELSE [c EXCEPT !.state = "running", !.startedAt = @ + 1, !.starter = by,
                     !.ran = @ \/ by = "ludock"]
Stopped(c) == IF Present(c) THEN [c EXCEPT !.state = "stopped"] ELSE c
Removed(c, by) == IF Present(c) THEN [c EXCEPT !.state = "gone", !.remover = by] ELSE c

\* assertStillStopped: still the instance that was stopped.
StillStopped == orig.state = "stopped" /\ orig.startedAt = rec.stoppedAt

GoTo(step) == pc' = step
unchangedRest == UNCHANGED <<row, mode, reported, boundVars>>

----------------------------------------------------------------------------
(* runUpdate and update up to the swap.  Failures are in StepFails. *)

\* Updates.Check: the plan notes whether the server runs.
Check ==
    /\ pc = "check" /\ Present(orig)
    /\ plan' = Running(orig)
    /\ GoTo("pull")
    /\ UNCHANGED <<rec, stage, dockerVars>> /\ unchangedRest

\* The image may be current already, which ends the operation.
Pull ==
    /\ pc = "pull"
    /\ GoTo("recordStop") \/ GoTo("finish")
    /\ UNCHANGED <<rec, stage, plan, dockerVars>> /\ unchangedRest

\* stopForData: what it will stop is saved before the stop is sent.
RecordStop ==
    /\ pc = "recordStop" /\ Present(orig)
    /\ rec' = [rec EXCEPT !.initial = IF Running(orig) THEN "yes" ELSE "no",
                         !.initialAt = orig.startedAt]
    /\ GoTo("stop")
    /\ UNCHANGED <<stage, plan, dockerVars>> /\ unchangedRest

StopServer ==
    /\ pc = "stop" /\ Present(orig)
    /\ orig' = Stopped(orig)
    /\ GoTo("stopped")
    /\ UNCHANGED <<rec, stage, plan, repl>> /\ unchangedRest

SaveStopped ==
    /\ pc = "stopped" /\ orig.state = "stopped"
    /\ rec' = [rec EXCEPT !.settled = TRUE, !.stoppedAt = orig.startedAt]
    /\ GoTo("backup")
    /\ UNCHANGED <<stage, plan, dockerVars>> /\ unchangedRest

\* The backup, if one is wanted, and Updates.Recheck.
Backup ==
    /\ pc = "backup" /\ Present(orig)
    /\ GoTo("creating")
    /\ UNCHANGED <<rec, stage, plan, dockerVars>> /\ unchangedRest

----------------------------------------------------------------------------
(* swap *)

\* saveSwap: each stage is saved before the step it names.
SaveStage ==
    LET next == [creating |-> "policy", starting |-> "start", replacing |-> "settle"]
    IN  /\ pc \in DOMAIN next
        /\ stage' = pc
        /\ GoTo(next[pc])
        /\ UNCHANGED <<rec, plan, dockerVars>> /\ unchangedRest

\* Mutant: the original keeps its restart policy.
NoRestartSkipped ==
    /\ pc = "policy" /\ Present(orig)
    /\ GoTo("create")
    /\ UNCHANGED <<rec, stage, plan, dockerVars>> /\ unchangedRest

NoRestart ==
    /\ pc = "policy" /\ Present(orig)
    /\ orig' = [orig EXCEPT !.policy = "no"]
    /\ GoTo("create")
    /\ UNCHANGED <<rec, stage, plan, repl>> /\ unchangedRest

Create ==
    /\ pc = "create"
    /\ repl' = [repl EXCEPT !.state = "stopped"]
    /\ GoTo("saveID")
    /\ UNCHANGED <<rec, stage, plan, orig>> /\ unchangedRest

\* Recovery finds the replacement by its ID or, before the ID is saved, by its
\* temporary name and label, so the ID itself is not modelled.
SaveID ==
    /\ pc = "saveID"
    /\ GoTo("image")
    /\ UNCHANGED <<rec, stage, plan, dockerVars>> /\ unchangedRest

\* Only a server that the plan found running is tried out.
CheckImage ==
    /\ pc = "image" /\ Present(repl)
    /\ GoTo(IF plan THEN "assertStopped" ELSE "confirm")
    /\ UNCHANGED <<rec, stage, plan, dockerVars>> /\ unchangedRest

\* Before the replacement starts, and before the original's removal.
AssertStopped ==
    LET next == [assertStopped |-> "starting", confirm |-> "replacing"]
    IN  /\ pc \in DOMAIN next /\ StillStopped
        /\ GoTo(next[pc])
        /\ UNCHANGED <<rec, stage, plan, dockerVars>> /\ unchangedRest

StartReplacement ==
    /\ pc = "start" /\ Present(repl)
    /\ repl' = Started(repl, "ludock")
    /\ GoTo("await")
    /\ UNCHANGED <<rec, stage, plan, orig>> /\ unchangedRest

awaitReplacement ==
    /\ pc = "await" /\ Running(repl)
    /\ GoTo("confirm")
    /\ UNCHANGED <<rec, stage, plan, dockerVars>> /\ unchangedRest

----------------------------------------------------------------------------
(* settle, in every mode.  A Docker error is retried, which changes nothing. *)

\* Where settling returns to: swap, undoUpdate or recoverUpdate.
Settled == IF mode = "run" THEN "finish" ELSE "undo"

\* A public error ends settling; in a running update, undoing settles again.
Fails ==
    /\ reported' = TRUE
    /\ GoTo(IF mode = "run" THEN "settle" ELSE "finish")
    /\ mode' = IF mode = "run" THEN "undo" ELSE mode

\* settleSwap up to its first change: forward once the removal began, back
\* before.
settleSwap ==
    /\ pc = "settle"
    /\ \/ stage \in {"none", "replaced"} /\ GoTo(Settled) /\ UNCHANGED <<mode, reported>>
       \/ /\ stage \in {"creating", "starting"}
          /\ GoTo(IF Present(repl) THEN "removeReplacement" ELSE "inspectOriginal")
          /\ UNCHANGED <<mode, reported>>
       \/ stage = "replacing" /\ Present(repl) /\ GoTo("removeOriginal") /\ UNCHANGED <<mode, reported>>
       \/ stage = "replacing" /\ ~Present(repl) /\ Fails
    /\ UNCHANGED <<savedVars, plan, dockerVars, boundVars>>

\* removeUntilGone
RemoveReplacement ==
    /\ pc = "removeReplacement"
    /\ repl' = Removed(repl, "ludock")
    /\ GoTo("inspectOriginal")
    /\ UNCHANGED <<rec, stage, plan, orig>> /\ unchangedRest

InspectOriginal ==
    /\ pc = "inspectOriginal"
    /\ \/ Present(orig) /\ GoTo("restorePolicy") /\ UNCHANGED <<mode, reported>>
       \/ ~Present(orig) /\ Fails
    /\ UNCHANGED <<savedVars, plan, dockerVars, boundVars>>

\* A policy Docker refuses is reported, not retried.
RestorePolicy ==
    /\ pc = "restorePolicy"
    /\ \/ /\ Present(orig) /\ orig' = [orig EXCEPT !.policy = "own"]
          /\ GoTo(Settled) /\ UNCHANGED <<mode, reported>>
       \/ Fails /\ UNCHANGED orig
    /\ UNCHANGED <<savedVars, plan, repl, boundVars>>

RemoveOriginal ==
    /\ pc = "removeOriginal"
    /\ orig' = Removed(orig, "ludock")
    /\ GoTo("givePolicy")
    /\ UNCHANGED <<rec, stage, plan, repl>> /\ unchangedRest

\* The replacement takes over; what Docker refuses is reported.
GivePolicy ==
    /\ pc = "givePolicy"
    /\ \/ /\ Present(repl) /\ repl' = [repl EXCEPT !.policy = "own"]
          /\ GoTo("rename") /\ UNCHANGED <<mode, reported>>
       \/ Fails /\ UNCHANGED repl
    /\ UNCHANGED <<savedVars, plan, orig, boundVars>>

Rename ==
    /\ pc = "rename"
    /\ \/ /\ Present(repl) /\ repl' = [repl EXCEPT !.name = "server"]
          /\ GoTo("replaced") /\ UNCHANGED <<mode, reported>>
       \/ Fails /\ UNCHANGED repl
    /\ UNCHANGED <<savedVars, plan, orig, boundVars>>

\* A failed write makes settle begin again.
SaveReplaced ==
    /\ pc = "replaced"
    /\ \/ stage' = "replaced" /\ GoTo(Settled)
       \/ GoTo("settle") /\ UNCHANGED stage
    /\ UNCHANGED <<rec, plan, dockerVars>> /\ unchangedRest

----------------------------------------------------------------------------
(* undoUpdate and recoverUpdate after settling, and restoreInitialState *)

\* Once the replacement may have run, the original is left stopped.
Undo ==
    /\ pc = "undo"
    /\ GoTo(IF reached("starting") THEN "finish" ELSE "restoreState")
    /\ UNCHANGED <<rec, stage, plan, dockerVars>> /\ unchangedRest

StartNeeded == rec.initial = "yes" /\ ~rec.stateRestored

RestoreState ==
    /\ pc = "restoreState"
    /\ \/ /\ ~StartNeeded
          /\ GoTo("finish") /\ UNCHANGED rec
       \/ /\ StartNeeded /\ orig.state = "stopped" /\ ~rec.settled
          /\ rec' = [rec EXCEPT !.settled = TRUE] /\ GoTo("restoreState")
       \/ /\ StartNeeded /\ Running(orig) /\ (rec.settled \/ orig.startedAt # rec.initialAt)
          /\ rec' = [rec EXCEPT !.settled = TRUE] /\ GoTo("restored")
       \/ /\ StartNeeded /\ orig.state = "stopped" /\ rec.settled
          /\ IF rec.startRequested /\ orig.startedAt # rec.stoppedAt
               THEN GoTo("finish") /\ UNCHANGED rec
               ELSE GoTo("restart") /\ rec' = [rec EXCEPT !.startRequested = TRUE]
    /\ UNCHANGED <<stage, plan, dockerVars>> /\ unchangedRest

RestartOriginal ==
    /\ pc = "restart" /\ Present(orig)
    /\ orig' = Started(orig, "ludock")
    /\ GoTo("restored") \/ GoTo("finish")
    /\ UNCHANGED <<rec, stage, plan, repl>> /\ unchangedRest

SaveRestored ==
    /\ pc = "restored"
    /\ rec' = [rec EXCEPT !.stateRestored = TRUE]
    /\ GoTo("finish")
    /\ UNCHANGED <<stage, plan, dockerVars>> /\ unchangedRest

Finish ==
    /\ pc = "finish"
    /\ row' = "finished"
    /\ GoTo("done")
    /\ UNCHANGED <<rec, stage, mode, plan, dockerVars, reported, boundVars>>

----------------------------------------------------------------------------
(* Failures *)

\* What a request that reports an error may have done.
MayHaveHappened ==
    CASE pc = "stop"   -> orig' \in {orig, Stopped(orig)} /\ UNCHANGED repl
      [] pc = "policy" -> orig' \in {orig, [orig EXCEPT !.policy = "no"]} /\ UNCHANGED repl
      [] pc = "create" -> repl' \in {repl, [repl EXCEPT !.state = "stopped"]} /\ UNCHANGED orig
      [] pc = "start"  -> repl' \in {repl, IF Present(repl) THEN Started(repl, "ludock") ELSE repl}
                             /\ UNCHANGED orig
      [] OTHER -> UNCHANGED dockerVars

\* Any step of update and swap: undoUpdate follows.  The signal that ends
\* Ludock ends settling in swap, and undoing settles again.
StepFails ==
    /\ pc \in RunSteps \/ (mode = "run" /\ pc \in SettleSteps)
    /\ MayHaveHappened
    /\ GoTo(IF pc = "check" THEN "finish" ELSE IF stage = "none" THEN "restoreState" ELSE "settle")
    /\ mode' = "undo"
    /\ UNCHANGED <<savedVars, plan, reported, boundVars>>

\* An error of restoreInitialState ends the operation.
RestoreStateFails ==
    /\ pc \in {"restoreState", "restart", "restored"}
    /\ GoTo("finish")
    /\ UNCHANGED <<rec, stage, plan, dockerVars>> /\ unchangedRest

Crash ==
    /\ pc \notin {"down", "done"} /\ crashes < MaxCrashes
    /\ crashes' = crashes + 1
    /\ GoTo("down")
    /\ UNCHANGED <<savedVars, mode, plan, dockerVars, reported, externals>>

\* recoverUpdate
Recover ==
    /\ pc = "down"
    /\ mode' = "recover"
    /\ GoTo(IF stage # "none" THEN "settle" ELSE IF rec.initial = "unset" THEN "finish" ELSE "restoreState")
    /\ UNCHANGED <<savedVars, plan, dockerVars, reported, boundVars>>

\* Docker restarts: a container whose policy allows it may start again, the
\* others stay stopped.
DockerRestart ==
    LET After(c) == IF c.policy = "own" /\ Present(c)
                    THEN {Stopped(c), Started(Stopped(c), "docker")} ELSE {Stopped(c)}
    IN  /\ externals < MaxExternal
        /\ externals' = externals + 1
        /\ orig' \in After(orig) /\ repl' \in After(repl)
        /\ UNCHANGED <<savedVars, pc, mode, plan, reported, crashes>>

\* Another manager, or the game itself.
Outsider ==
    LET Deeds(c) == IF Present(c) THEN {Started(c, "other"), Stopped(c), Removed(c, "other")} ELSE {c}
    IN  /\ externals < MaxExternal
        /\ externals' = externals + 1
        /\ \/ orig' \in Deeds(orig) \ {orig} /\ UNCHANGED repl
           \/ repl' \in Deeds(repl) \ {repl} /\ UNCHANGED orig
        /\ UNCHANGED <<savedVars, pc, mode, plan, reported, crashes>>

----------------------------------------------------------------------------
LudockStep ==
    \/ Check \/ Pull \/ RecordStop \/ StopServer \/ SaveStopped \/ Backup \/ SaveStage \/ NoRestart
    \/ Create \/ SaveID \/ CheckImage \/ AssertStopped \/ StartReplacement \/ awaitReplacement
    \/ settleSwap \/ RemoveReplacement \/ InspectOriginal \/ RestorePolicy \/ RemoveOriginal
    \/ GivePolicy \/ Rename \/ SaveReplaced \/ Undo \/ RestoreState \/ RestartOriginal \/ SaveRestored
    \/ Finish \/ StepFails \/ RestoreStateFails \/ Recover

Done == pc = "done" /\ UNCHANGED updateVars

UpdateNext == LudockStep \/ Crash \/ DockerRestart \/ Outsider \/ Done

UpdateSpec == UpdateInit /\ [][UpdateNext]_updateVars

\* Ludock runs on; a database that fails now and then takes the last stage in
\* the end (SF), since settle tries again each time.
TakesLastStage == SaveReplaced /\ stage' = "replaced"
UpdateLiveSpec == UpdateSpec /\ WF_updateVars(LudockStep) /\ SF_updateVars(TakesLastStage)

----------------------------------------------------------------------------
(* Safety *)

\* Original and replacement never write the same data at once, unless someone
\* else started one of them: a restart of Docker does not run both either.
NeverBothRun ==
    Running(orig) /\ Running(repl) => "other" \in {orig.starter, repl.starter}

\* Ludock never removes both containers, whatever crashes and errors come
\* between the steps: it goes back or forward, not both.
NeverRemovesBoth == ~(orig.remover = "ludock" /\ repl.remover = "ludock")

\* The original is not started again on data the new version may have changed.
OldNeverFollowsNew == orig.ran => ~repl.ran

\* An update ends with one container that has the server's name and its own
\* restart policy, unless an error said that it could not.
EndsWithOneServer ==
    row = "finished" /\ ~reported /\ "other" \notin {orig.remover, repl.remover} =>
        \E c \in {orig, repl} :
            /\ Present(c) /\ c.name = "server" /\ c.policy = "own"
            /\ \A d \in {orig, repl} : Present(d) => d = c

\* All of these, in a typed state: what an update does to the server's containers.
OneServerRemains ==
    UpdateTypeOK /\ NeverBothRun /\ NeverRemovesBoth /\ OldNeverFollowsNew /\ EndsWithOneServer

(* Liveness *)

Over == row = "finished"

\* An update ends, undone or finished, and its recovery does too.
UpdateEnds == <>Over
============================================================================
