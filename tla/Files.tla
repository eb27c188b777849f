-------------------------------- MODULE Files --------------------------------
(***************************************************************************)
(* File access through helper containers (internal/files/storage.go,       *)
(* internal/launch/exec.go and mounts.go, internal/helper/file.go and      *)
(* internal/web/files.go).                                                 *)
(*                                                                         *)
(* A request holds the server's locks, acquires a helper whose mounts are  *)
(* proven to be the game's, and runs one command in it.  A helper used for *)
(* a listing is kept idle for the next one.  The command is a process of   *)
(* its own: it goes on when the connection to it is lost, until its helper *)
(* is removed.  The game writes the same folder at any time, an external   *)
(* manager may replace the game's container, access may be revoked, and    *)
(* the panel may crash.                                                    *)
(*                                                                         *)
(* Simplifications: one server, one root and one folder of a few names; a  *)
(* container's generation stands for its signature and for the directories *)
(* it mounts; an entry is a stamp, different after every change.           *)
(***************************************************************************)
EXTENDS Naturals

CONSTANTS Req, Helper, Names, Nothing,
          MaxRequests,   \* bound: requests
          MaxFileEvents  \* bound: changes by the game, its manager and an administrator, faults,
                         \* crashes

ASSUME FilesAssumption == Nothing \notin Req \cup Helper \cup Names

VARIABLES
    game,      \* the generation of the server's container
    linked,    \* the mounted path leads elsewhere through a symbolic link
    folder,    \* name -> the stamp of its entry, 0 when there is none
    staged,    \* requests whose staging file exists
    part,      \* stamps of files that are not whole
    helpers,   \* containers and the command each runs
    \* Service
    pool, timer,
    \* requests, the server's locks, the fence of startup
    file, holder, fence,
    allowed,   \* requests whose user has access
    calls, events,
    \* history: stamps given so far; an entry was replaced that should not
    \* have been; a change was made for a request that had lost its access
    stamp, replaced, trespass

dirVars == <<folder, staged, part, stamp, replaced, trespass>>
poolVars == <<pool, timer>>
hostVars == <<game, linked>>
fileVars == <<hostVars, dirVars, helpers, poolVars, file, holder, fence, allowed, calls, events>>

FileChanges == {"mkdir", "rename", "delete", "upload"}
FileOps == FileChanges \cup {"list", "download"}

NoCmd == [of |-> Nothing, op |-> "list", at |-> "none", input |-> "open", orig |-> 0]
Cmds == [of : Req \cup {Nothing}, op : FileOps,
         at : {"none", "open", "read", "compared", "linked", "done", "failed"},
         input : {"open", "ended", "trailer"}, orig : Nat]
NoHelper == [live |-> FALSE, gen |-> 0, elsewhere |-> FALSE, cmd |-> NoCmd]

NoReq == [pc |-> "idle", op |-> "list", name |-> Nothing, to |-> Nothing, want |-> 0,
          helper |-> Nothing, ok |-> FALSE, lost |-> FALSE]
Reqs == [pc : {"idle", "take", "reuse", "discard", "acquire", "prove", "create", "prepare", "exec",
               "created", "wait", "finish", "remove", "end"},
         op : FileOps, name : Names \cup {Nothing}, to : Names \cup {Nothing}, want : Nat,
         helper : Helper \cup {Nothing}, ok : BOOLEAN,
         lost : BOOLEAN]   \* history: access was lost before the last check

FilesTypeOK ==
    /\ game \in Nat /\ linked \in BOOLEAN /\ folder \in [Names -> Nat]
    /\ staged \in SUBSET Req /\ part \in SUBSET Nat
    /\ helpers \in [Helper -> [live : BOOLEAN, gen : Nat, elsewhere : BOOLEAN, cmd : Cmds]]
    /\ pool \in Helper \cup {Nothing} /\ timer \in [Helper -> {"off", "armed", "fired"}]
    /\ file \in [Req -> Reqs] /\ holder \in Req \cup {Nothing} /\ fence \in BOOLEAN
    /\ allowed \in SUBSET Req

FilesInit ==
    /\ game = 1 /\ linked = FALSE /\ stamp = 1 /\ folder \in [Names -> {0, 1}]
    /\ staged = {} /\ part = {}
    /\ helpers = [h \in Helper |-> NoHelper] /\ pool = Nothing /\ timer = [h \in Helper |-> "off"]
    /\ file = [r \in Req |-> NoReq] /\ holder = Nothing /\ fence = TRUE /\ allowed = Req
    /\ calls = 0 /\ events = 0 /\ replaced = FALSE /\ trespass = FALSE

FileEvent == events < MaxFileEvents /\ events' = events + 1
ReqAt(r, pc) == file[r].pc = pc
ReqGoto(r, pc) == file' = [file EXCEPT ![r].pc = pc]
ReqEnds(r, ok) == file' = [file EXCEPT ![r].pc = "finish", ![r].ok = ok]

-----------------------------------------------------------------------------
(* Helpers.  Cleanup stops the command with its container; without retry a *)
(* removal that fails is not tried again.                                  *)

HelperRemoved(h) == helpers' = [helpers EXCEPT ![h] = NoHelper]

CleanupHelper(h, retry) ==
    \/ HelperRemoved(h) /\ UNCHANGED events
    \/ ~retry /\ FileEvent /\ UNCHANGED helpers

(* The request begins: startAction asserts access, resolves the container  *)
(* and takes the locks; then the handlers, each with its own input.        *)
StartAction(r, op, n, to) ==
    /\ ReqAt(r, "idle") /\ fence /\ holder = Nothing /\ r \in allowed /\ calls < MaxRequests
    /\ holder' = r /\ calls' = calls + 1
    /\ file' = [file EXCEPT ![r] = [NoReq EXCEPT !.pc = IF op = "list" THEN "take" ELSE "acquire",
                                                 !.op = op, !.name = n, !.to = to, !.want = game]]
    /\ UNCHANGED <<hostVars, dirVars, helpers, poolVars, fence, allowed, events>>

FilesView(r) == StartAction(r, "list", Nothing, Nothing)
FileDownload(r) == \E n \in Names : StartAction(r, "download", n, Nothing)
FileUpload(r) == \E n \in Names : StartAction(r, "upload", n, Nothing)
FileChange(r) ==
    \/ \E op \in {"mkdir", "delete"}, n \in Names : StartAction(r, op, n, Nothing)
    \/ \E n \in Names, to \in Names : n # to /\ StartAction(r, "rename", n, to)

(* acquireLister takes the idle helper out of the map, so it is the        *)
(* caller's; a timer that already fired makes it unusable.                 *)
AcquireLister(r) ==
    /\ ReqAt(r, "take") /\ pool' = Nothing
    /\ IF pool = Nothing THEN ReqGoto(r, "acquire") /\ UNCHANGED timer
       ELSE /\ file' = [file EXCEPT ![r].pc = IF timer[pool] = "armed" THEN "reuse" ELSE "discard",
                                    ![r].helper = pool]
            /\ timer' = [timer EXCEPT ![pool] = IF @ = "armed" THEN "off" ELSE @]
    /\ UNCHANGED <<hostVars, dirVars, helpers, holder, fence, allowed, calls, events>>

Reusable(r) ==
    LET h == file[r].helper IN game = file[r].want /\ helpers[h].gen = game /\ helpers[h].live

ReuseLister(r) ==
    /\ ReqAt(r, "reuse") /\ ReqGoto(r, IF Reusable(r) THEN "exec" ELSE "discard")
    /\ UNCHANGED <<hostVars, dirVars, helpers, poolVars, holder, fence, allowed, calls, events>>

Discard(r) ==
    /\ ReqAt(r, "discard") /\ CleanupHelper(file[r].helper, FALSE)
    /\ file' = [file EXCEPT ![r].pc = "acquire", ![r].helper = Nothing]
    /\ UNCHANGED <<hostVars, dirVars, poolVars, holder, fence, allowed, calls>>

(* Acquire inspects the game, has the directory it mounts pinned, creates  *)
(* the helper with what is mounted then, and prepare compares the helper's *)
(* mount with the pinned directory and inspects the game again.            *)
Acquire(r) ==
    /\ ReqAt(r, "acquire") /\ ReqGoto(r, IF game = file[r].want THEN "prove" ELSE "end")
    /\ UNCHANGED <<hostVars, dirVars, helpers, poolVars, holder, fence, allowed, calls, events>>

(* The validator pins the directory without following links.               *)
MountProof(r) ==
    /\ ReqAt(r, "prove") /\ ReqGoto(r, IF linked THEN "end" ELSE "create")
    /\ UNCHANGED <<hostVars, dirVars, helpers, poolVars, holder, fence, allowed, calls, events>>

CreateHelper(r) ==
    /\ ReqAt(r, "create")
    /\ \E h \in Helper :
          /\ ~helpers[h].live /\ timer[h] = "off"
          /\ helpers' = [helpers EXCEPT ![h] = [NoHelper EXCEPT !.live = TRUE, !.gen = game,
                                                                       !.elsewhere = linked]]
          /\ file' = [file EXCEPT ![r].pc = "prepare", ![r].helper = h]
    /\ UNCHANGED <<hostVars, dirVars, poolVars, holder, fence, allowed, calls, events>>

GameUnchanged(r) == game = file[r].want

AssertMountIdentities(r) == ~helpers[file[r].helper].elsewhere

Prepare(r) ==
    /\ ReqAt(r, "prepare")
    /\ IF AssertMountIdentities(r) /\ GameUnchanged(r) THEN ReqGoto(r, "exec")
       ELSE file' = [file EXCEPT ![r].pc = "remove", ![r].ok = TRUE]
    /\ UNCHANGED <<hostVars, dirVars, helpers, poolVars, holder, fence, allowed, calls, events>>

-----------------------------------------------------------------------------
(* Exec: access is asserted before the command is created and before it is *)
(* started.                                                                *)

CreateExec(r) ==
    /\ ReqAt(r, "exec")
    /\ IF r \in allowed THEN ReqGoto(r, "created") ELSE ReqEnds(r, FALSE)
    /\ UNCHANGED <<hostVars, dirVars, helpers, poolVars, holder, fence, allowed, calls, events>>

StartExec(r) ==
    /\ ReqAt(r, "created")
    /\ IF r \in allowed
       THEN /\ helpers' = [helpers EXCEPT ![file[r].helper].cmd =
                             [NoCmd EXCEPT !.of = r, !.op = file[r].op, !.at = "open"]]
            /\ ReqGoto(r, "wait")
       ELSE ReqEnds(r, FALSE) /\ UNCHANGED helpers
    /\ UNCHANGED <<hostVars, dirVars, poolVars, holder, fence, allowed, calls, events>>

Cmd(r) == helpers[file[r].helper].cmd
CmdRunning(h) == helpers[h].live /\ helpers[h].cmd.at \notin {"none", "done", "failed"}

(* The input of an upload: the trailer that commits it follows the whole   *)
(* body and one more check; a lost input, a refusal and the deadline only  *)
(* end it.                                                                 *)
MutantPeriodic(r) == TRUE
SendsTrailer(r) == r \in allowed

SendTrailer(r) ==
    /\ ReqAt(r, "wait") /\ file[r].op = "upload" /\ Cmd(r).input = "open" /\ Cmd(r).at = "read"
    /\ helpers' = [helpers EXCEPT ![file[r].helper].cmd.input =
                                      IF SendsTrailer(r) THEN "trailer" ELSE "ended"]
    /\ UNCHANGED <<hostVars, dirVars, poolVars, file, holder, fence, allowed, calls, events>>

InputFails(r) ==
    /\ ReqAt(r, "wait") /\ file[r].op = "upload" /\ Cmd(r).input = "open" /\ FileEvent
    /\ helpers' = [helpers EXCEPT ![file[r].helper].cmd.input = "ended"]
    /\ UNCHANGED <<hostVars, dirVars, poolVars, file, holder, fence, allowed, calls>>

ExecEnds(r) ==
    /\ ReqAt(r, "wait") /\ Cmd(r).at \in {"done", "failed"} /\ ReqEnds(r, Cmd(r).at = "done")
    /\ UNCHANGED <<hostVars, dirVars, helpers, poolVars, holder, fence, allowed, calls, events>>

(* The connection is lost, or closed at the deadline or when the request   *)
(* is cancelled: the command's end is not known.                           *)
ConnectionLost(r) ==
    /\ ReqAt(r, "wait") /\ FileEvent /\ ReqEnds(r, FALSE)
    /\ helpers' = [helpers EXCEPT ![file[r].helper].cmd.input = IF @ = "open" THEN "ended" ELSE @]
    /\ UNCHANGED <<hostVars, dirVars, poolVars, holder, fence, allowed, calls>>

-----------------------------------------------------------------------------
(* After the command: an upload's staging file is cleaned up, which may    *)
(* fail; a listing's helper is kept when the listing succeeded; a change   *)
(* that failed may still be running, so its helper is removed however long *)
(* that takes.                                                             *)

Keeps(r) == file[r].ok /\ pool = Nothing

FinishList(r) ==
    /\ ReqAt(r, "finish") /\ file[r].op = "list"
    /\ IF Keeps(r)
       THEN /\ pool' = file[r].helper /\ timer' = [timer EXCEPT ![file[r].helper] = "armed"]
            /\ file' = [file EXCEPT ![r].pc = "end", ![r].helper = Nothing]
       ELSE ReqGoto(r, "remove") /\ UNCHANGED poolVars
    /\ UNCHANGED <<hostVars, dirVars, helpers, holder, fence, allowed, calls, events>>

FinishUpload(r) ==
    /\ ReqAt(r, "finish") /\ file[r].op = "upload" /\ ReqGoto(r, "remove")
    /\ \/ staged' = staged \ {r} /\ UNCHANGED events
       \/ r \in staged /\ FileEvent /\ UNCHANGED staged
    /\ UNCHANGED <<hostVars, folder, part, stamp, replaced, trespass, helpers, poolVars, holder,
                   fence, allowed, calls>>

FinishOther(r) ==
    /\ ReqAt(r, "finish") /\ file[r].op \notin {"list", "upload"} /\ ReqGoto(r, "remove")
    /\ UNCHANGED <<hostVars, dirVars, helpers, poolVars, holder, fence, allowed, calls, events>>

MutantNoRetry(r) == FALSE
Retries(r) == file[r].op \in FileChanges /\ ~file[r].ok

RemoveHelper(r) ==
    /\ ReqAt(r, "remove") /\ CleanupHelper(file[r].helper, Retries(r))
    /\ file' = [file EXCEPT ![r].pc = "end", ![r].helper = Nothing]
    /\ UNCHANGED <<hostVars, dirVars, poolVars, holder, fence, allowed, calls>>

ActionDone(r) ==
    /\ ReqAt(r, "end") /\ holder' = Nothing /\ file' = [file EXCEPT ![r] = NoReq]
    /\ UNCHANGED <<hostVars, dirVars, helpers, poolVars, fence, allowed, calls, events>>

(* The idle timer: its callback removes the helper only while it is still  *)
(* the one in the map.                                                     *)
TimerFires(h) ==
    /\ timer[h] = "armed" /\ timer' = [timer EXCEPT ![h] = "fired"]
    /\ UNCHANGED <<hostVars, dirVars, helpers, pool, file, holder, fence, allowed, calls, events>>

StillKept(h) == pool = h

TimerRuns(h) ==
    /\ timer[h] = "fired" /\ timer' = [timer EXCEPT ![h] = "off"]
    /\ IF StillKept(h) THEN pool' = Nothing /\ CleanupHelper(h, FALSE)
       ELSE UNCHANGED <<pool, helpers, events>>
    /\ UNCHANGED <<hostVars, dirVars, file, holder, fence, allowed, calls>>

CloseStorage ==
    /\ pool # Nothing /\ FileEvent /\ pool' = Nothing /\ HelperRemoved(pool)
    /\ timer' = [timer EXCEPT ![pool] = IF @ = "armed" THEN "off" ELSE @]
    /\ UNCHANGED <<hostVars, dirVars, file, holder, fence, allowed, calls>>

-----------------------------------------------------------------------------
(* The command in the helper, on the pinned directories of a container     *)
(* that may have been replaced meanwhile.                                  *)

CmdOf(h) == helpers[h].cmd.of
CmdOp(h) == helpers[h].cmd.op
CmdAt(h, at) == CmdRunning(h) /\ helpers[h].cmd.at = at
CmdGoto(h, at) == helpers' = [helpers EXCEPT ![h].cmd.at = at]
TargetName(h) == IF CmdOp(h) = "rename" THEN file[CmdOf(h)].to ELSE file[CmdOf(h)].name
ChangesLate(h) == trespass' = (trespass \/ file[CmdOf(h)].lost)

ReadFiles(h) ==
    /\ CmdAt(h, "open") /\ CmdOp(h) \in {"list", "download"}
    /\ \E at \in {"done", "failed"} : CmdGoto(h, at)
    /\ UNCHANGED <<hostVars, dirVars, poolVars, file, holder, fence, allowed, calls, events>>

(* Mkdirat fails on a name in use.                                         *)
Mkdir(h) ==
    /\ CmdAt(h, "open") /\ CmdOp(h) = "mkdir" /\ ChangesLate(h)
    /\ IF folder[TargetName(h)] = 0
       THEN /\ folder' = [folder EXCEPT ![TargetName(h)] = stamp + 1] /\ stamp' = stamp + 1
            /\ CmdGoto(h, "done")
       ELSE CmdGoto(h, "failed") /\ UNCHANGED <<folder, stamp>>
    /\ UNCHANGED <<hostVars, staged, part, replaced, poolVars, file, holder, fence, allowed, calls,
                   events>>

Delete(h) ==
    /\ CmdAt(h, "open") /\ CmdOp(h) = "delete" /\ ChangesLate(h)
    /\ folder' = [folder EXCEPT ![TargetName(h)] = 0]
    /\ CmdGoto(h, IF folder[TargetName(h)] = 0 THEN "failed" ELSE "done")
    /\ UNCHANGED <<hostVars, staged, part, stamp, replaced, poolVars, file, holder, fence, allowed,
                   calls, events>>

(* rename: the destination is looked at, and then renameNoReplace moves    *)
(* the entry at once or, without RENAME_NOREPLACE, by link and unlink.     *)
RenameCheck(h) ==
    /\ CmdAt(h, "open") /\ CmdOp(h) = "rename"
    /\ CmdGoto(h, IF folder[file[CmdOf(h)].name] = 0 \/ folder[TargetName(h)] # 0
                  THEN "failed" ELSE "compared")
    /\ UNCHANGED <<hostVars, dirVars, poolVars, file, holder, fence, allowed, calls, events>>

RenameAllowed(h) == folder[file[CmdOf(h)].name] # 0 /\ folder[TargetName(h)] = 0

RenameNoReplace(h) ==
    LET from == file[CmdOf(h)].name IN
    /\ CmdAt(h, "compared") /\ CmdOp(h) = "rename" /\ ChangesLate(h)
    /\ IF RenameAllowed(h)
       THEN /\ \/ /\ folder' = [folder EXCEPT ![TargetName(h)] = folder[from], ![from] = 0]
                  /\ CmdGoto(h, "done")
               \/ folder' = [folder EXCEPT ![TargetName(h)] = folder[from]] /\ CmdGoto(h, "linked")
            /\ replaced' = (replaced \/ folder[TargetName(h)] # 0)
       ELSE CmdGoto(h, "failed") /\ UNCHANGED <<folder, replaced>>
    /\ UNCHANGED <<hostVars, staged, part, stamp, poolVars, file, holder, fence, allowed, calls,
                   events>>

RenameUnlink(h) ==
    /\ CmdAt(h, "linked") /\ CmdGoto(h, "done")
    /\ folder' = [folder EXCEPT ![file[CmdOf(h)].name] = 0]
    /\ UNCHANGED <<hostVars, staged, part, stamp, replaced, trespass, poolVars, file, holder, fence,
                   allowed, calls, events>>

(* upload: the target is remembered and a staging file opened; when the    *)
(* input ends with the trailer, the target is compared and the file put in *)
(* its place, by a link when there was none.                               *)
UploadOpen(h) ==
    /\ CmdAt(h, "open") /\ CmdOp(h) = "upload" /\ staged' = staged \cup {CmdOf(h)}
    /\ helpers' = [helpers EXCEPT ![h].cmd.at = "read", ![h].cmd.orig = folder[TargetName(h)]]
    /\ UNCHANGED <<hostVars, folder, part, stamp, replaced, trespass, poolVars, file, holder, fence,
                   allowed, calls, events>>

WholeInput(h) == helpers[h].cmd.input = "trailer"

UploadRead(h) ==
    /\ CmdAt(h, "read") /\ helpers[h].cmd.input # "open"
    /\ IF WholeInput(h) /\ folder[TargetName(h)] = helpers[h].cmd.orig
       THEN CmdGoto(h, "compared") /\ UNCHANGED staged
       ELSE CmdGoto(h, "failed") /\ staged' = staged \ {CmdOf(h)}
    /\ UNCHANGED <<hostVars, folder, part, stamp, replaced, trespass, poolVars, file, holder, fence,
                   allowed, calls, events>>

UploadInstall(h) ==
    LET fresh == helpers[h].cmd.orig = 0 IN
    /\ CmdAt(h, "compared") /\ CmdOp(h) = "upload" /\ ChangesLate(h)
    /\ staged' = staged \ {CmdOf(h)}
    /\ IF CmdOf(h) \in staged /\ (fresh => folder[TargetName(h)] = 0)
       THEN /\ folder' = [folder EXCEPT ![TargetName(h)] = stamp + 1] /\ stamp' = stamp + 1
            /\ part' = IF helpers[h].cmd.input = "trailer" THEN part ELSE part \cup {stamp + 1}
            /\ replaced' = (replaced \/ (fresh /\ folder[TargetName(h)] # 0))
            /\ CmdGoto(h, "done")
       ELSE CmdGoto(h, "failed") /\ UNCHANGED <<folder, stamp, part, replaced>>
    /\ UNCHANGED <<hostVars, poolVars, file, holder, fence, allowed, calls, events>>

(* The helper's own limits: the deadline of RunFile, the idle timer of an  *)
(* upload.                                                                 *)
CommandEnds(h) ==
    /\ CmdRunning(h) /\ FileEvent /\ CmdGoto(h, "failed") /\ staged' = staged \ {CmdOf(h)}
    /\ UNCHANGED <<hostVars, folder, part, stamp, replaced, trespass, poolVars, file, holder, fence,
                   allowed, calls>>

-----------------------------------------------------------------------------
(* The environment.                                                        *)

GameWrites(n) ==
    /\ FileEvent /\ stamp' = stamp + 1
    /\ \E s \in {0, stamp + 1} : folder' = [folder EXCEPT ![n] = s]
    /\ UNCHANGED <<hostVars, staged, part, replaced, trespass, helpers, poolVars, file, holder,
                   fence, allowed, calls>>

Replaced ==
    /\ FileEvent /\ game' = game + 1
    /\ UNCHANGED <<linked, dirVars, helpers, poolVars, file, holder, fence, allowed, calls>>

(* On the host the mounted path is exchanged for a link, or put back.      *)
PathSwapped ==
    /\ FileEvent /\ linked' = ~linked
    /\ UNCHANGED <<game, dirVars, helpers, poolVars, file, holder, fence, allowed, calls>>

BeforeLastCheck(r) ==
    \/ file[r].pc \in {"take", "reuse", "discard", "acquire", "prove", "create", "prepare", "exec",
                       "created"}
    \/ ReqAt(r, "wait") /\ file[r].op = "upload" /\ Cmd(r).input # "trailer"

Revoke(r) ==
    /\ r \in allowed /\ FileEvent /\ allowed' = allowed \ {r}
    /\ file' = [file EXCEPT ![r].lost = BeforeLastCheck(r)]
    /\ UNCHANGED <<hostVars, dirVars, helpers, poolVars, holder, fence, calls>>

(* A crash loses what the panel holds; containers and their commands stay, *)
(* and the input of an upload ends.  Startup keeps the locks fenced until  *)
(* RemoveLeftovers has removed every helper.                               *)
CrashPanel ==
    /\ FileEvent /\ fence' = FALSE /\ holder' = Nothing /\ pool' = Nothing
    /\ timer' = [h \in Helper |-> "off"]
    /\ file' = [r \in Req |-> IF \E h \in Helper : CmdRunning(h) /\ CmdOf(h) = r
                              THEN [file[r] EXCEPT !.pc = "idle", !.helper = Nothing] ELSE NoReq]
    /\ helpers' = [h \in Helper |->
                     [helpers[h] EXCEPT !.cmd.input = IF @ = "open" THEN "ended" ELSE @]]
    /\ UNCHANGED <<hostVars, dirVars, allowed, calls>>

RemoveLeftovers(h) ==
    /\ ~fence /\ helpers[h].live /\ HelperRemoved(h)
    /\ UNCHANGED <<hostVars, dirVars, poolVars, file, holder, fence, allowed, calls, events>>

NoneLeft == \A h \in Helper : ~helpers[h].live

LiftFence ==
    /\ ~fence /\ NoneLeft /\ fence' = TRUE
    /\ UNCHANGED <<hostVars, dirVars, helpers, poolVars, file, holder, allowed, calls, events>>

FilesNext ==
    \/ \E r \in Req :
          \/ FilesView(r) \/ FileDownload(r) \/ FileUpload(r) \/ FileChange(r)
          \/ AcquireLister(r) \/ ReuseLister(r) \/ Discard(r)
          \/ Acquire(r) \/ MountProof(r) \/ CreateHelper(r) \/ Prepare(r)
          \/ CreateExec(r) \/ StartExec(r) \/ SendTrailer(r) \/ InputFails(r) \/ ExecEnds(r)
          \/ ConnectionLost(r) \/ FinishList(r) \/ FinishUpload(r) \/ FinishOther(r)
          \/ RemoveHelper(r) \/ ActionDone(r) \/ Revoke(r)
    \/ \E h \in Helper :
          \/ TimerFires(h) \/ TimerRuns(h) \/ ReadFiles(h) \/ Mkdir(h) \/ Delete(h)
          \/ RenameCheck(h) \/ RenameNoReplace(h) \/ RenameUnlink(h)
          \/ UploadOpen(h) \/ UploadRead(h) \/ UploadInstall(h) \/ CommandEnds(h)
          \/ RemoveLeftovers(h)
    \/ \E n \in Names : GameWrites(n)
    \/ Replaced \/ PathSwapped \/ CloseStorage \/ CrashPanel \/ LiftFence

FilesSpec == FilesInit /\ [][FilesNext]_fileVars

-----------------------------------------------------------------------------
(* A command works on the directories of the container its request was     *)
(* authorised for, reached without a symbolic link on the host, however a  *)
(* helper was reused, timed out, discarded and replaced meanwhile; a kept  *)
(* helper belongs to no request; and when a request's locks are free for   *)
(* another operation, no command that changes files is still running: not  *)
(* after a lost connection, and not after a crash once the fence is        *)
(* lifted.                                                                 *)
HelpersConfined ==
    /\ FilesTypeOK
    /\ \A r \in Req : file[r].pc \in {"exec", "created", "wait"} =>
          LET h == helpers[file[r].helper] IN h.gen = file[r].want /\ h.live /\ ~h.elsewhere
    /\ pool # Nothing => helpers[pool].live /\ \A r \in Req : file[r].helper # pool
    /\ \A h \in Helper : CmdRunning(h) /\ CmdOp(h) \in FileChanges => holder = CmdOf(h) \/ ~fence

(* Every uploaded file is whole; a new folder, a renamed entry or a new    *)
(* upload never takes the place of what the game created meanwhile; and    *)
(* nothing changes for a request that lost its access before its last      *)
(* check, which for an upload comes after the body.                        *)
ChangesAreWhole ==
    /\ \A n \in Names : folder[n] \notin part
    /\ ~replaced /\ ~trespass

=============================================================================
