----------------------------- MODULE Schedules -----------------------------
(***************************************************************************)
(* The schedules of one server: internal/schedules/schedules.go, with the  *)
(* check of Jobs.Actor that a scheduled operation meets when it runs.      *)
(*                                                                         *)
(* One ticker runs Run and then Announce (App.Tick); beside it an          *)
(* administrator creates, changes and deletes schedules, the owner loses   *)
(* and regains access, queued operations run and warnings are sent.  A     *)
(* transaction is one step; what is read before it is a step of its own.   *)
(*                                                                         *)
(* Simplifications: the schedules have one owner, and `access' stands for  *)
(* the owner's account, role and grants and for the server's binding,      *)
(* which authority and authorityState read; saved settings are valid; the  *)
(* limits on the number of schedules are left out.                         *)
(***************************************************************************)
EXTENDS SchedTime

CONSTANTS Ids,      \* schedules, in the order they are evaluated
          Inputs,   \* settings: kind, days, date, time, action, leads, enabled
          Zones,    \* time zones
          End, MaxLag, MaxEdits, MaxChanges,
          MaxFaults  \* bounds; a crash is a fault

ASSUME SchedulesAssumption ==
    /\ Ids \subseteq Nat
    /\ {End, MaxLag, MaxEdits, MaxChanges, MaxFaults} \subseteq Nat

\* Validate: a time of the day, and warnings some minutes before a run.
ASSUME InputsAssumption ==
    /\ Inputs # {}
    /\ \A i \in Inputs : i.date \in Int /\ i.time \in 0..Day - 1 /\ i.leads \subseteq Nat \ {0}

ASSUME ZonesAssumption ==
    \A z \in Zones : {z.before, z.after} \subseteq -Day..Day /\ z.change \in Int

VARIABLES
    zone, now,
    \* the database
    rows,      \* schedules
    access,    \* whether the owner may run them: "granted" or "revoked"
    ops,       \* the operations schedules queued, with the settings that did (history)
    announced, \* schedule_announcements
    \* the tick that runs; since counts the changes there were when access was read (history)
    tick,
    warning,   \* Service.announcing: the warning of the server
    edit,      \* the request of the administrator
    \* history and bounds
    sent,      \* how often each warning went out
    edits, changes, faults

dbVars == <<rows, ops, announced>>
boundVars == <<edits, changes, faults>>
scheduleVars == <<zone, now, access, dbVars, tick, warning, edit, sent, boundVars>>

NoInput == CHOOSE i \in Inputs : TRUE
NoRow == [state |-> "unused", input |-> NoInput, rev |-> 0, last |-> NoSlot]
NoTick == [at |-> "idle", now |-> 0, saved |-> [id \in Ids |-> NoRow], todo |-> {}, slot |-> NoSlot,
           access |-> "revoked", since |-> 0]
NoWarning == [at |-> "none", id |-> 0, rev |-> 0, slot |-> NoSlot, lead |-> 0, runAt |-> 0]
NoEdit == [at |-> "none", what |-> "create", id |-> 0, rev |-> 0, input |-> NoInput,
           access |-> "revoked"]

Slots == {NoSlot} \cup (Int \X (0..Day - 1))
Rows == [state : {"unused", "saved", "deleted"}, input : Inputs, rev : Nat, last : Slots]
Operations == [id : Ids, slot : Slots, action : {i.action : i \in Inputs}, rev : Nat,
               input : Inputs, status : {"queued", "done", "refused"}]

SchedulesTypeOK ==
    /\ zone \in Zones /\ now \in 0..End
    /\ rows \in [Ids -> Rows]
    /\ access \in {"granted", "revoked"}
    /\ ops \subseteq Operations
    /\ announced \subseteq Ids \X Slots \X Nat
    /\ tick \in [at : {"idle", "run", "authority", "commit", "skip", "announce"}, now : 0..End,
                 saved : [Ids -> Rows], todo : SUBSET Ids, slot : Slots,
                 access : {"granted", "revoked"}, since : 0..MaxChanges]
    /\ warning \in [at : {"none", "check", "send"}, id : Ids \cup {0}, rev : Nat, slot : Slots,
                    lead : Nat, runAt : Nat]
    /\ edit \in [at : {"none", "commit"}, what : {"create", "update", "pause", "delete"},
                 id : Ids \cup {0}, rev : Nat, input : Inputs, access : {"granted", "revoked"}]
    /\ DOMAIN sent \subseteq Ids \X Slots \X Nat
    /\ edits \in 0..MaxEdits /\ changes \in 0..MaxChanges
    /\ faults \in 0..MaxFaults

SchedulesInit ==
    /\ zone \in Zones /\ now = 0
    /\ rows \in [Ids -> {NoRow} \cup [state : {"saved"}, input : Inputs, rev : {1}, last : {NoSlot}]]
    /\ access = "granted"
    /\ ops = {} /\ announced = {}
    /\ tick = NoTick /\ warning = NoWarning /\ edit = NoEdit
    /\ sent = [w \in {} |-> 0]
    /\ edits = 0 /\ changes = 0 /\ faults = 0

oneTimeCompleted(r) == r.input.kind = "once" /\ r.last = OneTimeSlot(r.input)

----------------------------------------------------------------------------
(* Create, Update, SetEnabled and Delete *)

\* assertRunAhead
RunAhead(i) == i.kind = "once" => OneTimeRun(zone, i) # Never /\ OneTimeRun(zone, i) >= now

\* What is read before the transaction: the row, the authority state and the
\* checks.  What is not to stop a schedule needs the access of its owner.
EditRead(id, what, i) ==
    /\ edit.at = "none" /\ edits < MaxEdits
    /\ rows[id].state = (IF what = "create" THEN "unused" ELSE "saved")
    /\ what = "create" => RunAhead(i)
    /\ what = "pause" => rows[id].input = [i EXCEPT !.enabled = TRUE] /\ ~i.enabled
    /\ what = "delete" => i = rows[id].input
    /\ what \in {"create", "update"} => access = "granted"
    /\ edit' = [at |-> "commit", what |-> what, id |-> id, rev |-> rows[id].rev, input |-> i,
                access |-> access]
    /\ edits' = edits + 1
    /\ UNCHANGED <<zone, now, access, dbVars, tick, warning, sent, changes, faults>>

\* The transaction: the revision and the access are those that were checked.
EditAccepted ==
    LET r == rows[edit.id]
    IN  /\ r.state = (IF edit.what = "create" THEN "unused" ELSE "saved")
        /\ edit.what # "delete" => r.rev = edit.rev /\ access = edit.access
        /\ edit.what = "update" => RunAhead(edit.input)

\* A deletion takes the announcements along.  It may be refused because the
\* binding changed, which `access' does not tell from the owner's grants.
EditCommit ==
    LET r == rows[edit.id]
    IN  /\ edit.at = "commit"
        /\ edit' = NoEdit
        /\ \/ /\ EditAccepted /\ edit.what = "delete"
              /\ rows' = [rows EXCEPT ![edit.id].state = "deleted"]
              /\ announced' = {c \in announced : c[1] # edit.id}
           \/ /\ EditAccepted /\ edit.what # "delete"
              /\ rows' = IF r.input = edit.input /\ edit.what # "create" THEN rows
                         ELSE [rows EXCEPT ![edit.id].state = "saved", ![edit.id].input = edit.input,
                                           ![edit.id].rev = @ + 1]
              /\ UNCHANGED announced
           \/ /\ ~EditAccepted \/ access # edit.access
              /\ UNCHANGED <<rows, announced>>
        /\ UNCHANGED <<zone, now, access, ops, tick, warning, sent, boundVars>>

\* The owner's account, grants or the server's binding change.
SetAccess ==
    /\ changes < MaxChanges
    /\ access' = (IF access = "granted" THEN "revoked" ELSE "granted")
    /\ changes' = changes + 1
    /\ UNCHANGED <<zone, now, dbVars, tick, warning, edit, sent, edits, faults>>

----------------------------------------------------------------------------
(* Run *)

Saved(r) == r.state = "saved"
Cur == First(tick.todo)
Read == tick.saved[Cur]

\* The next schedule of the list, if this was not the last.
NextOne ==
    tick' = [tick EXCEPT !.at = "run", !.todo = @ \ {Cur}, !.saved[Cur] = NoRow, !.slot = NoSlot,
                         !.access = "revoked", !.since = 0]
RunUnchanged == UNCHANGED <<zone, now, access, warning, edit, sent, edits, changes>>

StartTick ==
    /\ tick.at = "idle"
    /\ tick' = [NoTick EXCEPT !.at = "run", !.now = now, !.saved = rows,
                              !.todo = {id \in Ids : Saved(rows[id])}]
    /\ UNCHANGED <<dbVars, faults>> /\ RunUnchanged

\* A schedule as the list has it: nothing is due, or a one-time run was missed,
\* or the authority state is read.
RunOne ==
    LET i == Read.input
        slot == Slot(zone, i, tick.now)
        runAt == OneTimeRun(zone, i)
    IN  /\ tick.at = "run" /\ tick.todo # {}
        /\ IF ~i.enabled \/ oneTimeCompleted(Read) THEN NextOne
           ELSE IF i.kind = "once" /\ slot = NoSlot
           THEN IF runAt # Never /\ tick.now < runAt + Grace THEN NextOne
                ELSE tick' = [tick EXCEPT !.at = "skip", !.slot = OneTimeSlot(i)]
           ELSE IF slot \in {NoSlot, Read.last} THEN NextOne
           ELSE tick' = [tick EXCEPT !.at = "authority", !.slot = slot, !.access = access,
                                     !.since = changes]
        /\ UNCHANGED <<dbVars, faults>> /\ RunUnchanged

\* authority
CheckAuthority ==
    /\ tick.at = "authority"
    /\ tick' = [tick EXCEPT !.at = IF access = "granted" THEN "commit" ELSE "skip"]
    /\ UNCHANGED <<dbVars, faults>> /\ RunUnchanged

NewOperation == [id |-> Cur, slot |-> tick.slot, action |-> Read.input.action, rev |-> Read.rev,
                 input |-> Read.input, status |-> "queued"]

\* The operation of the same request key: schedule, slot and kind.
Prior == {o \in ops : o.id = Cur /\ o.slot = tick.slot /\ o.action = Read.input.action}

\* Mutant: what was checked is taken for granted.
RunCommitUnchecked ==
    LET r == rows[Cur]
    IN  /\ tick.at = "commit"
        /\ NextOne
        /\ IF Saved(r) /\ r.rev = Read.rev /\ Prior = {} /\ \A o \in ops : o.status # "queued"
             THEN rows' = [rows EXCEPT ![Cur].last = tick.slot] /\ ops' = ops \cup {NewOperation}
             ELSE UNCHANGED <<rows, ops>>
        /\ UNCHANGED <<announced, faults>> /\ RunUnchanged

\* The transaction of runOne, which queues and marks the slot, or does neither.
\* The server may have an operation of somebody else under way.
RunCommit ==
    LET r == rows[Cur]
        current == Saved(r) /\ r.rev = Read.rev
        marked == [rows EXCEPT ![Cur].last = tick.slot]
    IN  /\ tick.at = "commit"
        /\ \/ /\ access # tick.access
              /\ NextOne /\ UNCHANGED <<rows, ops>>
           \/ /\ access = tick.access /\ Prior # {}
              /\ IF \E o \in Prior : o.rev # Read.rev
                   THEN tick' = [tick EXCEPT !.at = "skip"] /\ UNCHANGED <<rows, ops>>
                   ELSE NextOne /\ rows' = (IF current THEN marked ELSE rows) /\ UNCHANGED ops
           \/ /\ access = tick.access /\ Prior = {}
              /\ tick' = [tick EXCEPT !.at = "skip"] /\ UNCHANGED <<rows, ops>>
           \/ /\ access = tick.access /\ Prior = {} /\ \A o \in ops : o.status # "queued"
              /\ NextOne
              /\ IF current THEN rows' = marked /\ ops' = ops \cup {NewOperation}
                 ELSE UNCHANGED <<rows, ops>>
        /\ UNCHANGED <<announced, faults>> /\ RunUnchanged

\* A run that was missed, suspended or refused uses up its slot.
RecordSkip ==
    LET r == rows[Cur]
    IN  /\ tick.at = "skip"
        /\ rows' = IF Saved(r) /\ r.rev = Read.rev THEN [rows EXCEPT ![Cur].last = tick.slot] ELSE rows
        /\ NextOne
        /\ UNCHANGED <<ops, announced, faults>> /\ RunUnchanged

\* An internal failure leaves the slot open to the next tick.
RunFails ==
    /\ tick.at \in {"authority", "commit", "skip"}
    /\ faults < MaxFaults
    /\ faults' = faults + 1
    /\ NextOne
    /\ UNCHANGED dbVars /\ RunUnchanged

----------------------------------------------------------------------------
(* Announce *)

StartAnnounce ==
    /\ tick.at = "run" /\ tick.todo = {}
    /\ tick' = [tick EXCEPT !.at = "announce", !.saved = rows,
                            !.todo = {id \in Ids : Saved(rows[id])}]
    /\ UNCHANGED <<dbVars, faults>> /\ RunUnchanged

EndTick ==
    /\ tick.at = "announce" /\ tick.todo = {}
    /\ tick' = NoTick
    /\ UNCHANGED <<dbVars, faults>> /\ RunUnchanged

NextAnnounced == tick' = [tick EXCEPT !.todo = @ \ {Cur}, !.saved[Cur] = NoRow]

RunAt == NextRun(zone, Read.input, tick.now, Read.last)
LeadDue == RunAt - tick.now
Announcement == <<Cur, Slot(zone, Read.input, RunAt), LeadDue>>

\* A warning of the schedule is due, and no other is on its way.
Announces ==
    /\ warning.at = "none"
    /\ Read.input.enabled /\ ~oneTimeCompleted(Read)
    /\ RunAt # Never /\ LeadDue \in Read.input.leads
    /\ Announcement[2] # NoSlot

\* Also a minute's warning that is due but has less than thirty seconds left.
AnnounceNothing ==
    /\ tick.at = "announce" /\ tick.todo # {}
    /\ ~Announces \/ LeadDue = 1
    /\ NextAnnounced
    /\ UNCHANGED <<dbVars, faults>> /\ RunUnchanged

\* Claims of slots that have passed are deleted, two days later.
Spent(c) == c[1] = Cur /\ c[2][1] < (tick.now - 2 * Day) \div Day

NewWarning == [at |-> "check", id |-> Cur, rev |-> Read.rev, slot |-> Announcement[2],
               lead |-> LeadDue, runAt |-> RunAt]

\* Mutant: whether the claim was there already is not looked at.
ClaimAnnouncementAgain ==
    /\ tick.at = "announce" /\ tick.todo # {} /\ Announces
    /\ NextAnnounced
    /\ IF Saved(rows[Cur]) /\ rows[Cur].rev = Read.rev
         THEN /\ announced' = {c \in announced \cup {Announcement} : ~Spent(c)}
              /\ warning' = NewWarning
         ELSE UNCHANGED <<warning, announced>>
    /\ UNCHANGED <<zone, now, access, rows, ops, edit, sent, boundVars>>

\* claimAnnouncement, and the start of the warning it was claimed for.
ClaimAnnouncement ==
    /\ tick.at = "announce" /\ tick.todo # {} /\ Announces
    /\ NextAnnounced
    /\ IF Saved(rows[Cur]) /\ rows[Cur].rev = Read.rev /\ Announcement \notin announced
         THEN /\ announced' = {c \in announced \cup {Announcement} : ~Spent(c)}
              /\ warning' = NewWarning
         ELSE UNCHANGED <<warning, announced>>
    /\ UNCHANGED <<zone, now, access, rows, ops, edit, sent, boundVars>>

----------------------------------------------------------------------------
(* announce: the goroutine of a warning *)

\* assertCurrent
WarningCurrent ==
    /\ Saved(rows[warning.id]) /\ rows[warning.id].rev = warning.rev
    /\ access = "granted"
    /\ now < warning.runAt

\* The locks are not to be had, the console is not there, or time ran out.
WarningEnds ==
    /\ warning.at # "none"
    /\ warning' = NoWarning
    /\ UNCHANGED <<zone, now, access, dbVars, tick, edit, sent, boundVars>>

WarningChecked ==
    /\ warning.at = "check" /\ WarningCurrent
    /\ warning' = [warning EXCEPT !.at = "send"]
    /\ UNCHANGED <<zone, now, access, dbVars, tick, edit, sent, boundVars>>

\* Broadcast asks again while the command is in progress.
WarningSent ==
    /\ warning.at = "send" /\ WarningCurrent
    /\ LET w == <<warning.id, warning.slot, warning.lead>>
       IN  sent' = [x \in DOMAIN sent \cup {w} |-> (IF x \in DOMAIN sent THEN sent[x] ELSE 0)
                                                  + (IF x = w THEN 1 ELSE 0)]
    /\ warning' = NoWarning
    /\ UNCHANGED <<zone, now, access, dbVars, tick, edit, boundVars>>

----------------------------------------------------------------------------
(* The operation a schedule queued *)

\* Jobs.Actor: the schedule is as it was, and the owner may still run it.
Actor(o) ==
    LET r == rows[o.id]
    IN  /\ access = "granted"
        /\ Saved(r) /\ r.rev = o.rev /\ r.input.enabled /\ r.input.action = o.action

RunOperation(o) ==
    /\ o.status = "queued"
    /\ ops' = (ops \ {o}) \cup {[o EXCEPT !.status = IF Actor(o) THEN "done" ELSE "refused"]}
    /\ UNCHANGED <<zone, now, access, rows, announced, tick, warning, edit, sent, boundVars>>

----------------------------------------------------------------------------
\* A tick is over within MaxLag minutes.
TimePasses ==
    /\ now < End
    /\ tick.at # "idle" => now - tick.now < MaxLag
    /\ now' = now + 1
    /\ UNCHANGED <<zone, access, dbVars, tick, warning, edit, sent, boundVars>>

ScheduleCrash ==
    /\ faults < MaxFaults
    /\ faults' = faults + 1
    /\ tick' = NoTick /\ warning' = NoWarning /\ edit' = NoEdit
    /\ UNCHANGED <<zone, now, access, dbVars, sent, edits, changes>>

Ticker ==
    \/ StartTick \/ RunOne \/ CheckAuthority \/ RunCommit \/ RecordSkip \/ RunFails
    \/ StartAnnounce \/ AnnounceNothing \/ ClaimAnnouncement \/ EndTick

SchedulesNext ==
    \/ \E id \in Ids, what \in {"create", "update", "pause", "delete"}, i \in Inputs :
          EditRead(id, what, i)
    \/ EditCommit \/ SetAccess
    \/ Ticker
    \/ WarningEnds \/ WarningChecked \/ WarningSent
    \/ \E o \in ops : RunOperation(o)
    \/ TimePasses \/ ScheduleCrash

SchedulesSpec == SchedulesInit /\ [][SchedulesNext]_scheduleVars

----------------------------------------------------------------------------
(* Properties *)

\* However the clock is set back, the settings are edited and the process
\* restarts, an action of a schedule is queued once for a slot.
OncePerSlot ==
    \A o, p \in ops : o.id = p.id /\ o.slot = p.slot /\ o.action = p.action => o = p

\* What runOne queues is what the schedule says now, for an owner who may run
\* it now: nothing changed between the list it was read from and the commit.
\* Only an owner whose access comes and goes again in between, each time before
\* runOne looks, is taken for one who has it.  A slot that was used is not run
\* later: a skipped or missed run is never caught up, nor when a clock that is
\* set back repeats it.
RunsAreCurrent ==
    [][\A o \in ops' \ ops : o.status = "queued" =>
          LET r == rows[o.id]
          IN  /\ Saved(r) /\ r.input.enabled
              /\ access = "granted" \/ changes >= tick.since + 2
              /\ r.input.action = o.action /\ r.last # o.slot
              /\ Slot(zone, r.input, tick.now) = o.slot]_scheduleVars

\* An operation acts only under the settings that queued it: an edit, a pause
\* or a deletion in between stops it.
StaleWorkStops ==
    [][\A o \in ops' \ ops : o.status = "done" =>
          Saved(rows[o.id]) /\ rows[o.id].input = o.input]_scheduleVars

\* Each warning of a run goes out at most once, restarts and edits that
\* return to an earlier slot included.
WarnedOnce == \A w \in DOMAIN sent : sent[w] <= 1

\* Announce counts down to the first run there is, over a change of the
\* clock, and Run goes by the first instant of a one-time schedule's local time.
CountsToFirst ==
    tick.todo # {} =>
        IF Read.input.kind = "once"
        THEN OneTimeRun(zone, Read.input)
               = First({n \in 0 .. End + Day : /\ LocalDate(zone, n) = Read.input.date
                                               /\ LocalTime(zone, n) = Read.input.time})
        ELSE tick.at = "announce" => RunAt = FirstRun(zone, Read.input, tick.now, Read.last)

\* Each slot of a schedule is warned of and run once.
SlotsAreKept == SchedulesTypeOK /\ OncePerSlot /\ WarnedOnce

\* Nothing a schedule does goes by settings or rights that are no longer so,
\* neither when it is queued nor when it runs.
WorkIsCurrent == RunsAreCurrent /\ StaleWorkStops
============================================================================
