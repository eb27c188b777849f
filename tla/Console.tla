------------------------------- MODULE Console -------------------------------
(***************************************************************************)
(* One console session (internal/console/session.go and runtime.go), the   *)
(* helper that speaks a network console (internal/helper/netconsole.go)    *)
(* and the protocols themselves (internal/netconsole/netconsole.go).       *)
(*                                                                         *)
(* The browser's messages pass the reader and a bounded queue and run one  *)
(* at a time under the server's locks, to the end even if the browser      *)
(* leaves.  A shell command is a process in the game's container that      *)
(* outlives every connection; a network console runs in a helper container *)
(* or over a direct connection, a stdin console over an attached stream.   *)
(* Access can be revoked at any step, Docker can lose any answer, and the  *)
(* container can disappear.                                                *)
(*                                                                         *)
(* Simplifications: messages that are not commands, the contents of output *)
(* (Streams.tla) and the values of timers are left out; a timer that can   *)
(* end a wait is a step that can be taken.                                 *)
(***************************************************************************)
EXTENDS Naturals, Sequences

CONSTANTS MaxPending,    \* capacity of the queue, ten in the code
          MaxCommands,   \* bound: messages
          MaxEvents      \* bound: lost answers, failures, jobs

ASSUME ConsoleAssumption == MaxPending \in Nat /\ MaxCommands \in Nat /\ MaxEvents \in Nat

VARIABLES
    granted,   \* the session, both capabilities and the binding are current
    open,      \* the channel
    arrived, input, queue,
    command,   \* the command being run
    locked,    \* who holds the server's locks
    saved,     \* commands whose start is in the audit log
    proc,      \* the exec in the container
    asked,     \* cancelling: "off", "asking", "asked"
    speaker,   \* the network console helper and what it waits for
    reached,   \* commands that reached the game or the container, in order
    claimed,   \* commands reported as succeeded
    faults

chanVars == <<open, arrived, input, queue>>
consoleVars == <<granted, chanVars, command, locked, saved, proc, asked, speaker, reached, claimed, faults>>

NoCommand == [pc |-> "idle", id |-> 0, cancelled |-> FALSE, broken |-> FALSE, ok |-> FALSE]
NoProc == [at |-> "none", code |-> 0, killed |-> FALSE]

Paths == {"create", "hcreate", "direct", "stdin"}    \* shell, helper, host label, stdin
ConsoleTypeOK ==
    /\ granted \in BOOLEAN /\ open \in BOOLEAN /\ arrived \in 0..MaxCommands
    /\ input \in Seq(1..MaxCommands) /\ queue \in Seq(1..MaxCommands)
    /\ command \in [pc : {"idle", "lock", "refresh", "audit", "start", "stream", "wait", "hstart", "talk", "hremove",
                      "direct2", "result"} \cup Paths,
                id : 0..MaxCommands, cancelled : BOOLEAN, broken : BOOLEAN, ok : BOOLEAN]
    /\ locked \in {"none", "console", "job"} /\ saved \subseteq 1..MaxCommands
    /\ proc \in [at : {"none", "prepared", "dispatched", "running", "ended", "missing"}, code : {0, 1, 125}, killed : BOOLEAN]
    /\ asked \in {"off", "asking", "asked"}
    /\ speaker \in {"none", "late", "created", "live", "askCredential", "askCommand", "answered"}
    /\ reached \in Seq(1..MaxCommands) /\ claimed \subseteq 1..MaxCommands

ConsoleInit ==
    /\ granted = TRUE /\ open = TRUE /\ arrived = 0 /\ input = <<>> /\ queue = <<>>
    /\ command = NoCommand /\ locked = "none" /\ saved = {} /\ proc = NoProc /\ asked = "off" /\ speaker = "none"
    /\ reached = <<>> /\ claimed = {} /\ faults = 0

Fault == faults < MaxEvents /\ faults' = faults + 1
At(pc) == command.pc = pc
Goto(pc) == command' = [command EXCEPT !.pc = pc]

-----------------------------------------------------------------------------
(* The channel.  permitted closes it when access changed; the reader drops *)
(* what arrives then, and what finds the queue full.                       *)

Revoke ==
    /\ granted /\ granted' = FALSE
    /\ UNCHANGED <<chanVars, command, locked, saved, proc, asked, speaker, reached, claimed, faults>>

ClosesIfRefused == open' = (open /\ granted)

Watch ==
    /\ open /\ ~granted /\ ClosesIfRefused
    /\ UNCHANGED <<granted, arrived, input, queue, command, locked, saved, proc, asked, speaker, reached, claimed, faults>>

Leave ==
    /\ open /\ open' = FALSE
    /\ UNCHANGED <<granted, arrived, input, queue, command, locked, saved, proc, asked, speaker, reached, claimed, faults>>

Arrive ==
    /\ open /\ arrived < MaxCommands /\ arrived' = arrived + 1 /\ ClosesIfRefused
    /\ input' = IF granted THEN Append(input, arrived + 1) ELSE input
    /\ UNCHANGED <<granted, queue, command, locked, saved, proc, asked, speaker, reached, claimed, faults>>

Queue ==
    /\ input # <<>> /\ input' = Tail(input) /\ ClosesIfRefused
    /\ queue' = IF granted /\ Len(queue) < MaxPending THEN Append(queue, Head(input)) ELSE queue
    /\ UNCHANGED <<granted, arrived, command, locked, saved, proc, asked, speaker, reached, claimed, faults>>

Take ==
    /\ At("idle") /\ queue # <<>> /\ queue' = Tail(queue) /\ ClosesIfRefused
    /\ command' = IF granted THEN [NoCommand EXCEPT !.pc = "lock", !.id = Head(queue)] ELSE command
    /\ UNCHANGED <<granted, arrived, input, locked, saved, proc, asked, speaker, reached, claimed, faults>>

(* Every two seconds a running command's access is checked, and its        *)
(* context cancelled; the time limit of a command does the same.           *)
Asks == asked' = IF asked = "off" THEN "asking" ELSE asked

CancelCommand ==
    /\ ~At("idle") /\ ~command.cancelled
    /\ \/ ~granted /\ UNCHANGED faults
       \/ Fault
    /\ command' = [command EXCEPT !.cancelled = TRUE] /\ ClosesIfRefused
    /\ IF At("stream") THEN Asks ELSE UNCHANGED asked
    /\ UNCHANGED <<granted, arrived, input, queue, locked, saved, proc, speaker, reached, claimed>>

-----------------------------------------------------------------------------
(* execute: the locks, the binding, the audit entry, the command.          *)

AcquirePreempting ==
    /\ At("lock")
    /\ \/ locked = "none" /\ locked' = "console" /\ Goto("refresh")
       \/ command.cancelled /\ command' = NoCommand /\ UNCHANGED locked
    /\ UNCHANGED <<granted, chanVars, saved, proc, asked, speaker, reached, claimed, faults>>

Refresh ==
    /\ At("refresh") /\ ClosesIfRefused
    /\ \/ Goto(IF granted /\ ~command.cancelled THEN "audit" ELSE "result") /\ UNCHANGED faults
       \/ Goto("result") /\ Fault
    /\ UNCHANGED <<granted, arrived, input, queue, locked, saved, proc, asked, speaker, reached, claimed>>

Audit ==
    /\ At("audit")
    /\ \/ saved' = saved \cup {command.id} /\ (\E path \in Paths : Goto(path)) /\ UNCHANGED faults
       \/ Goto("result") /\ Fault /\ UNCHANGED saved
    /\ UNCHANGED <<granted, chanVars, locked, proc, asked, speaker, reached, claimed>>

(* The result is audited and the deferred release follows.                 *)
FinishCommand ==
    /\ At("result") /\ locked' = "none" /\ command' = NoCommand /\ asked' = "off"
    /\ proc' = IF proc.at \in {"dispatched", "running"} THEN proc ELSE NoProc
    /\ claimed' = IF command.ok THEN claimed \cup {command.id} ELSE claimed
    /\ UNCHANGED <<granted, chanVars, saved, speaker, reached, faults>>

-----------------------------------------------------------------------------
(* exec.  Creating prepares, starting dispatches; a lost answer to the     *)
(* start proves nothing.                                                   *)

Allowed == granted /\ ~command.cancelled

CreateExec ==
    /\ At("create") /\ ClosesIfRefused
    /\ \/ proc' = [NoProc EXCEPT !.at = "prepared"] /\ Goto(IF Allowed THEN "start" ELSE "result") /\ UNCHANGED faults
       \/ Goto("result") /\ Fault /\ UNCHANGED proc
    /\ UNCHANGED <<granted, arrived, input, queue, locked, saved, asked, speaker, reached, claimed>>

StartExec ==
    /\ At("start") /\ proc.at \in {"prepared", "missing"}
    /\ \/ proc.at = "prepared" /\ proc' = [proc EXCEPT !.at = "running"] /\ reached' = Append(reached, command.id)
          /\ (IF command.cancelled THEN Asks ELSE UNCHANGED asked) /\ Goto("stream") /\ UNCHANGED faults
       \/ proc.at = "missing" /\ Goto("result") /\ UNCHANGED <<proc, asked, reached, faults>>
       \/ Fault /\ Goto("result") /\ UNCHANGED <<proc, asked, reached>>
    /\ UNCHANGED <<granted, chanVars, locked, saved, speaker, claimed>>

(* The answer is lost: Docker has the request, or never received it.       *)
MutantRejected == command' = [command EXCEPT !.pc = "result", !.broken = TRUE]
AfterLostStart == command' = [command EXCEPT !.pc = "wait", !.broken = TRUE]

StartLost ==
    /\ At("start") /\ proc.at = "prepared" /\ Fault /\ AfterLostStart /\ Asks
    /\ \E at \in {"prepared", "dispatched"} : proc' = [proc EXCEPT !.at = at]
    /\ UNCHANGED <<granted, chanVars, locked, saved, speaker, reached, claimed>>

ProcStarts ==
    /\ proc.at = "dispatched" /\ proc' = [proc EXCEPT !.at = "running"] /\ reached' = Append(reached, command.id)
    /\ UNCHANGED <<granted, chanVars, command, locked, saved, asked, speaker, claimed, faults>>

(* The command ends by itself, at the watchdog's deadline, or when the     *)
(* watchdog finds it cancelled.                                            *)
ProcEnds ==
    /\ proc.at = "running"
    /\ \E code \in {0, 1} \cup (IF proc.killed THEN {125} ELSE {}) : proc' = [proc EXCEPT !.at = "ended", !.code = code]
    /\ UNCHANGED <<granted, chanVars, command, locked, saved, asked, speaker, reached, claimed, faults>>

(* A chunk of output: over the limit, or without access, it is dropped and *)
(* the command cancelled.                                                  *)
Deliver ==
    /\ At("stream") /\ proc.at = "running" /\ ~command.cancelled /\ ClosesIfRefused /\ Asks
    /\ \/ ~granted /\ UNCHANGED faults
       \/ Fault
    /\ command' = [command EXCEPT !.cancelled = TRUE]
    /\ UNCHANGED <<granted, arrived, input, queue, locked, saved, proc, speaker, reached, claimed>>

StreamEnds ==
    /\ At("stream")
    /\ \/ proc.at \in {"ended", "missing"} /\ Goto("wait") /\ UNCHANGED <<asked, faults>>
       \/ Fault /\ command' = [command EXCEPT !.pc = "wait", !.broken = TRUE] /\ Asks
    /\ UNCHANGED <<granted, chanVars, locked, saved, proc, speaker, reached, claimed>>

Succeeded == proc.at = "ended" /\ proc.code = 0 /\ ~command.cancelled /\ ~command.broken

ExitKnown == proc.at \in {"ended", "missing"}

WaitForExit ==
    /\ At("wait")
    /\ IF ExitKnown THEN command' = [command EXCEPT !.pc = "result", !.ok = Succeeded] /\ UNCHANGED asked
       ELSE asked = "off" /\ Asks /\ UNCHANGED command
    /\ UNCHANGED <<granted, chanVars, locked, saved, proc, speaker, reached, claimed, faults>>

(* cancel: a second exec writes the cancel file once the command is ready. *)
Cancel ==
    /\ asked = "asking"
    /\ \/ /\ asked' = "asked" /\ proc' \in {proc, [proc EXCEPT !.killed = (@ \/ proc.at = "running")]}
          /\ UNCHANGED faults
       \/ asked' = "off" /\ Fault /\ UNCHANGED proc
    /\ UNCHANGED <<granted, chanVars, command, locked, saved, speaker, reached, claimed>>

ContainerGone ==
    /\ Fault /\ proc.at # "none" /\ proc' = [proc EXCEPT !.at = "missing"]
    /\ UNCHANGED <<granted, chanVars, command, locked, saved, asked, speaker, reached, claimed>>

-----------------------------------------------------------------------------
(* networkHelper: the create ignores cancellation, and its name finds a    *)
(* helper whose creation was not answered; the helper asks before every    *)
(* write to the game, and is removed before the locks are released.        *)

CreateHelper ==
    /\ At("hcreate") /\ ClosesIfRefused
    /\ \/ ~Allowed /\ Goto("result") /\ UNCHANGED <<speaker, faults>>
       \/ Allowed /\ speaker' = "created" /\ Goto("hstart") /\ UNCHANGED faults
       \/ Allowed /\ Fault /\ speaker' \in {"none", "created", "late"} /\ Goto("hremove")
    /\ UNCHANGED <<granted, arrived, input, queue, locked, saved, proc, asked, reached, claimed>>

CreatedLate ==
    /\ speaker = "late" /\ speaker' = "created"
    /\ UNCHANGED <<granted, chanVars, command, locked, saved, proc, asked, reached, claimed, faults>>

StartConsoleHelper ==
    /\ At("hstart") /\ ClosesIfRefused
    /\ \/ ~Allowed /\ Goto("hremove") /\ UNCHANGED <<speaker, faults>>
       \/ Allowed /\ speaker' = "live" /\ Goto("talk") /\ UNCHANGED faults
       \/ Allowed /\ Fault /\ speaker' \in {"created", "live"} /\ Goto("hremove")
    /\ UNCHANGED <<granted, arrived, input, queue, locked, saved, proc, asked, reached, claimed>>

(* The helper's side: it received the request, then each authorization.    *)
HelperAsks ==
    /\ speaker = "live" /\ At("talk") /\ speaker' = "askCredential"
    /\ UNCHANGED <<granted, chanVars, command, locked, saved, proc, asked, reached, claimed, faults>>

Authorize ==
    /\ At("talk") /\ speaker \in {"askCredential", "askCommand"} /\ ClosesIfRefused
    /\ IF ~Allowed THEN Goto("hremove") /\ UNCHANGED <<speaker, reached>>
       ELSE /\ speaker' = IF speaker = "askCredential" THEN "askCommand" ELSE "answered"
            /\ reached' = IF speaker = "askCommand" THEN Append(reached, command.id) ELSE reached
            /\ UNCHANGED command
    /\ UNCHANGED <<granted, arrived, input, queue, locked, saved, proc, asked, claimed, faults>>

HelperResult ==
    /\ At("talk") /\ speaker = "answered" /\ command' = [command EXCEPT !.pc = "hremove", !.ok = Allowed] /\ ClosesIfRefused
    /\ UNCHANGED <<granted, arrived, input, queue, locked, saved, proc, asked, speaker, reached, claimed, faults>>

(* A refused login, a closed connection, a time limit, a change of access. *)
TalkFails ==
    /\ At("talk") /\ Goto("hremove")
    /\ \/ command.cancelled /\ UNCHANGED faults
       \/ Fault
    /\ UNCHANGED <<granted, chanVars, locked, saved, proc, asked, speaker, reached, claimed>>

RemoveConsoleHelper ==
    /\ At("hremove") /\ Goto("result") /\ speaker' = IF speaker = "late" THEN "late" ELSE "none"
    /\ UNCHANGED <<granted, chanVars, locked, saved, proc, asked, reached, claimed, faults>>

-----------------------------------------------------------------------------
(* A direct connection checks before the credential and before the         *)
(* command; stdin checks after it is attached.                             *)

Direct ==
    /\ At("direct") /\ ClosesIfRefused
    /\ \/ Goto(IF Allowed THEN "direct2" ELSE "result") /\ UNCHANGED faults
       \/ Goto("result") /\ Fault
    /\ UNCHANGED <<granted, arrived, input, queue, locked, saved, proc, asked, speaker, reached, claimed>>

Write ==
    /\ command.pc \in {"direct2", "stdin"} /\ ClosesIfRefused
    /\ \/ /\ Allowed /\ reached' = Append(reached, command.id) /\ UNCHANGED faults
          /\ command' = [command EXCEPT !.pc = "result", !.ok = TRUE]
       \/ Allowed /\ Fault /\ Goto("result") /\ reached' \in {reached, Append(reached, command.id)}
       \/ ~Allowed /\ Goto("result") /\ UNCHANGED <<reached, faults>>
    /\ UNCHANGED <<granted, arrived, input, queue, locked, saved, proc, asked, speaker, claimed>>

(* Another operation of the same server.                                   *)
Job ==
    /\ \/ locked = "none" /\ Fault /\ locked' = "job"
       \/ locked = "job" /\ locked' = "none" /\ UNCHANGED faults
    /\ UNCHANGED <<granted, chanVars, command, saved, proc, asked, speaker, reached, claimed>>

Progress ==
    \/ Queue \/ Take \/ AcquirePreempting \/ Refresh \/ Audit \/ FinishCommand
    \/ CreateExec \/ StartExec \/ ProcStarts \/ ProcEnds \/ StreamEnds \/ WaitForExit \/ Cancel
    \/ CreateHelper \/ StartConsoleHelper \/ HelperAsks \/ Authorize \/ HelperResult \/ RemoveConsoleHelper
    \/ Direct \/ Write

ConsoleNext ==
    \/ Progress \/ Revoke \/ Watch \/ Leave \/ Arrive \/ CancelCommand \/ StartLost \/ Deliver \/ ContainerGone
    \/ CreatedLate \/ TalkFails \/ Job

(* The command's goroutine, the processes and Docker go on; a job ends.    *)
JobReturns == locked = "job" /\ Job
ConsoleFairness == WF_consoleVars(Progress) /\ WF_consoleVars(JobReturns)

ConsoleSpec == ConsoleInit /\ [][ConsoleNext]_consoleVars /\ ConsoleFairness

-----------------------------------------------------------------------------
(* When the server's locks are free, or another operation's, no command of *)
(* the session runs or can still start: not after a lost answer to the     *)
(* start, an ended stream, a revocation or a helper created late           *)
(* (waitForExit and networkHelper keep the locks).  A command reaches the  *)
(* game only when its start is in the audit log, once, in the order it was *)
(* sent, and is reported as succeeded only if it reached the game; the     *)
(* queue is bounded.                                                       *)
CommandsConfined ==
    /\ ConsoleTypeOK
    /\ locked # "console" => proc.at \notin {"dispatched", "running"} /\ speaker \in {"none", "late", "created"}
    /\ \A i \in DOMAIN reached : reached[i] \in saved /\ \A j \in 1..(i - 1) : reached[j] < reached[i]
    /\ claimed \subseteq {reached[i] : i \in DOMAIN reached} /\ Len(queue) <= MaxPending

Occupied == ~At("idle")
Freed == At("idle") \/ (At("wait") /\ proc.at = "prepared")

(* Every command ends and gives the locks back, unless Docker lost the     *)
(* request that starts it without receiving it: such an exec stays         *)
(* prepared, has no exit code, and waitForExit waits for as long as the    *)
(* container exists.                                                       *)
CommandsEnd == Occupied ~> Freed

=============================================================================
