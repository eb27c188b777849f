----------------------------- MODULE Deliveries -----------------------------
(***************************************************************************)
(* The delivery of notifications: the queue of internal/notify/notify.go   *)
(* (Notify, QueueTest, Configure, Retry, Deliver) and the loop of          *)
(* internal/app/app.go that runs Deliver (App.deliver).                    *)
(*                                                                         *)
(* One process calls App.deliver, on a tick or when it is woken; the       *)
(* workers it starts share one mutex and run Deliver under it.  Deliver is *)
(* modelled one read, write or critical section of Service.mu at a time,   *)
(* beside administrators who retry deliveries and change the settings.     *)
(*                                                                         *)
(* Simplifications: a delivery exists once per event and destination; the  *)
(* numbers of deliveries stand for the order of created_at; no two   *)
(* claims of a delivery share a millisecond;                               *)
(* a write and the end of its send under Service.mu are one step; Deliver's*)
(* own flag is left out, since only App.deliver calls it, one at a time.   *)
(***************************************************************************)
EXTENDS Naturals, FiniteSets

CONSTANTS Last,          \* how many deliveries there can be
          DestOf,        \* the destination of each
          EventOf,       \* the event, or test, it tells of
          Configs,       \* settings of a destination that can send
          Limit,         \* how many deliveries a pass takes: 10 in the code
          MaxCycle,      \* attempts before a delivery fails: 5 in the code
          Workers,       \* bound: goroutines of App.deliver at a time
          MaxEdits, MaxClicks, MaxFaults, MaxCrashes  \* bounds

ASSUME DeliveriesAssumption ==
    /\ Last \in Nat /\ Limit \in Nat \ {0} /\ MaxCycle \in Nat \ {0}
    /\ "off" \notin Configs /\ "free" \notin Workers
    /\ {MaxEdits, MaxClicks, MaxFaults, MaxCrashes} \subseteq Nat

Deliveries == 1..Last
Destinations == {DestOf[d] : d \in Deliveries}
Events == {EventOf[d] : d \in Deliveries}

VARIABLES
    \* the database
    rows,      \* notification_deliveries
    settings,  \* the saved settings: "off" is a destination that is not ready
    \* App
    caller,    \* where the goroutine that calls App.deliver is
    wake,      \* Service.wake holds a token
    again,     \* App.deliverAgain
    mutex,     \* who holds App.delivering: a worker, or "free"
    pc,        \* where each worker is
    \* the pass of the worker that holds the mutex
    ready, batch, cur, read, config, claimedAt, outcome,
    \* Service
    active,      \* the delivery being sent, or 0
    cancelSend,  \* "none", "armed" or "cancelled"
    \* administrators
    editing,     \* how many saves of each destination have yet to cancel its send
    click,       \* the Retry that runs
    \* history, and bounds
    told,        \* the sends of each that ended well, less those whose record was lost
    edits, clicks, faults, crashes

dbVars == <<rows, settings>>
appVars == <<caller, again, mutex>>
turnVars == <<cur, read, config, claimedAt, outcome>>
passVars == <<ready, batch, turnVars>>
sendVars == <<active, cancelSend>>
adminVars == <<editing, click, edits, clicks>>
vars == <<dbVars, appVars, wake, pc, passVars, sendVars, adminVars, told, faults, crashes>>

\* last_attempt_at: a stamp, 0 for none.  Three are enough, since a claim only
\* has to differ from the stamps somebody remembers.
Stamps == 0..3
FreshStamp(d) == CHOOSE n \in Stamps \ {0} : n \notin {rows[d].last, click.row.last}

\* `due' says whether next_attempt_at has come: "now" when something made it
\* come, "late" when time did, or when an error left it to the next tick.
Rows == [state : {"absent", "queued", "delivered", "failed", "purged"}, attempts : Nat,
         retries : 0..MaxCycle, last : Stamps, due : {"no", "now", "late"}]
NoRow == [state |-> "absent", attempts |-> 0, retries |-> 0, last |-> 0, due |-> "no"]
NoClick == [at |-> "idle", id |-> 0, row |-> NoRow]

InFlight == {"arm", "reread", "send", "record", "release"}
Steps == InFlight \cup {"idle", "swap", "ready", "list", "next", "activate", "claim",
                        "unlock", "load", "trylock"}

TypeOK ==
    /\ rows \in [Deliveries -> Rows]
    /\ settings \in [Destinations -> Configs \cup {"off"}]
    /\ caller \in {"idle", "stored"}
    /\ wake \in BOOLEAN /\ again \in BOOLEAN
    /\ mutex \in Workers \cup {"free"}
    /\ pc \in [Workers -> Steps]
    /\ ready \in SUBSET Destinations
    /\ batch \in SUBSET Deliveries
    /\ cur \in 0..Last
    /\ read \in Rows
    /\ config \in Configs \cup {"off"}
    /\ claimedAt \in Stamps
    /\ outcome \in {"none", "ok", "failure"}
    /\ active \in 0..Last
    /\ cancelSend \in {"none", "armed", "cancelled"}
    /\ editing \in [Destinations -> 0..MaxEdits]
    /\ click \in [at : {"idle", "read", "checked"}, id : 0..Last, row : Rows]
    /\ told \in [Deliveries -> Nat]
    /\ edits \in 0..MaxEdits /\ clicks \in 0..MaxClicks
    /\ faults \in 0..MaxFaults /\ crashes \in 0..MaxCrashes

Init ==
    /\ rows = [d \in Deliveries |-> NoRow]
    /\ settings \in [Destinations -> Configs \cup {"off"}]
    /\ caller = "idle" /\ wake = FALSE /\ again = FALSE /\ mutex = "free"
    /\ pc = [w \in Workers |-> "idle"]
    /\ ready = {} /\ batch = {} /\ cur = 0 /\ read = NoRow
    /\ config = "off" /\ claimedAt = 0 /\ outcome = "none"
    /\ active = 0 /\ cancelSend = "none"
    /\ editing = [t \in Destinations |-> 0] /\ click = NoClick
    /\ told = [d \in Deliveries |-> 0]
    /\ edits = 0 /\ clicks = 0 /\ faults = 0 /\ crashes = 0

Ready(d) == settings[DestOf[d]] # "off"
GoTo(w, step) == pc' = [pc EXCEPT ![w] = step]

\* What an error leaves to the next tick.
Late(r) == IF r.due = "now" THEN [r EXCEPT !.due = "late"] ELSE r

----------------------------------------------------------------------------
(* Queueing *)

\* queueEvent, from Notify or from its retries, and QueueTest: one
\* transaction reads the settings and inserts what is not there yet.  One
\* that fails changes nothing; a retry of it is another Notify.
Notify(e) ==
    /\ rows' = [d \in Deliveries |->
                  IF EventOf[d] = e /\ Ready(d) /\ rows[d].state = "absent"
                  THEN [rows[d] EXCEPT !.state = "queued", !.due = "now"] ELSE rows[d]]
    /\ wake' = (wake \/ \E d \in Deliveries : EventOf[d] = e /\ Ready(d))
    /\ UNCHANGED <<settings, appVars, pc, passVars, sendVars, adminVars, told,
                   faults, crashes>>

----------------------------------------------------------------------------
(* Configure *)

SaveSettings(t, c) ==
    /\ edits < MaxEdits
    /\ settings[t] # c
    /\ settings' = [settings EXCEPT ![t] = c]
    /\ editing' = [editing EXCEPT ![t] = @ + 1] /\ edits' = edits + 1
    /\ UNCHANGED <<rows, appVars, wake, pc, passVars, sendVars, click, clicks, told, faults, crashes>>

\* The critical section of Service.mu after the save, and the poke.
CancelSend(t) ==
    /\ editing[t] > 0
    /\ cancelSend' = IF cancelSend # "none" /\ DestOf[active] = t THEN "cancelled" ELSE cancelSend
    /\ editing' = [editing EXCEPT ![t] = @ - 1]
    /\ wake' = TRUE
    /\ UNCHANGED <<dbVars, appVars, pc, passVars, active, click, edits, clicks, told, faults, crashes>>

----------------------------------------------------------------------------
(* Retry *)

RetryRead(d) ==
    /\ click.at = "idle" /\ clicks < MaxClicks
    /\ rows[d].state \notin {"absent", "purged"}
    /\ click' = [at |-> "read", id |-> d, row |-> rows[d]]
    /\ clicks' = clicks + 1
    /\ UNCHANGED <<dbVars, appVars, wake, pc, passVars, sendVars, editing, edits, told, faults, crashes>>

\* Delivery.Retryable, from the row as read and what is active now.
Retryable ==
    /\ Ready(click.id)
    /\ active # click.id
    /\ \/ click.row.state = "failed"
       \/ click.row.state = "queued" /\ click.row.retries > 0

RetryCheck ==
    /\ click.at = "read"
    /\ click' = IF Retryable THEN [click EXCEPT !.at = "checked"] ELSE NoClick
    /\ UNCHANGED <<dbVars, appVars, wake, pc, passVars, sendVars, editing, edits, clicks,
                   told, faults, crashes>>

\* The row is the one that was read.
SameRow(r, s) ==
    /\ r.state = s.state /\ r.attempts = s.attempts
    /\ r.retries = s.retries /\ r.last = s.last

RetryCommit ==
    LET d == click.id
    IN  /\ click.at = "checked"
        /\ IF Ready(d) /\ SameRow(rows[d], click.row)
             THEN /\ rows' = [rows EXCEPT ![d].state = "queued", ![d].retries = 0, ![d].due = "now"]
                  /\ wake' = TRUE
             ELSE UNCHANGED <<rows, wake>>
        /\ click' = NoClick
        /\ UNCHANGED <<settings, appVars, pc, passVars, sendVars, editing, edits, clicks,
                       told, faults, crashes>>

----------------------------------------------------------------------------
(* App.deliver *)

\* On a tick, or on a token of Wake, which it takes.
CallDeliver ==
    /\ caller = "idle"
    /\ wake' \in {FALSE, wake}
    /\ again' = TRUE
    /\ caller' = "stored"
    /\ UNCHANGED <<dbVars, mutex, pc, passVars, sendVars, adminVars, told,
                   faults, crashes>>

\* TryLock: the worker that holds the mutex will see deliverAgain.
StartWorker ==
    /\ caller = "stored"
    /\ caller' = "idle"
    /\ IF mutex = "free"
         THEN \E w \in Workers : pc[w] = "idle" /\ mutex' = w /\ GoTo(w, "swap")
         ELSE UNCHANGED <<mutex, pc>>
    /\ UNCHANGED <<dbVars, again, wake, passVars, sendVars, adminVars, told, faults, crashes>>

unchangedButWorker ==
    UNCHANGED <<dbVars, caller, wake, passVars, sendVars, adminVars, told,
                faults, crashes>>

Swap(w) ==
    /\ pc[w] = "swap"
    /\ again' = FALSE
    /\ GoTo(w, IF again THEN "ready" ELSE "unlock")
    /\ UNCHANGED mutex /\ unchangedButWorker

\* Mutant: the worker ends and keeps the mutex.
UnlockNever(w) ==
    /\ pc[w] = "unlock"
    /\ GoTo(w, "idle")
    /\ UNCHANGED <<again, mutex>> /\ unchangedButWorker

Unlock(w) ==
    /\ pc[w] = "unlock"
    /\ mutex' = "free"
    /\ GoTo(w, "load")
    /\ UNCHANGED again /\ unchangedButWorker

\* A call between the last pass and the unlock found the mutex held.
Load(w) ==
    /\ pc[w] = "load"
    /\ GoTo(w, IF again THEN "trylock" ELSE "idle")
    /\ UNCHANGED <<again, mutex>> /\ unchangedButWorker

TryLock(w) ==
    /\ pc[w] = "trylock"
    /\ IF mutex = "free" THEN mutex' = w /\ GoTo(w, "swap")
       ELSE GoTo(w, "idle") /\ UNCHANGED mutex
    /\ UNCHANGED again /\ unchangedButWorker

----------------------------------------------------------------------------
(* Deliver: one pass of the worker that holds the mutex *)

unchangedButPass ==
    UNCHANGED <<settings, appVars, wake, adminVars, crashes>>
quiet == UNCHANGED <<rows, told, faults>>

ReadReady(w) ==
    /\ pc[w] = "ready"
    /\ ready' = {t \in Destinations : settings[t] # "off"}
    /\ GoTo(w, IF ready' = {} THEN "swap" ELSE "list")
    /\ UNCHANGED <<batch, turnVars, sendVars>> /\ unchangedButPass /\ quiet

\* The oldest deliveries that are due, at most Limit of them.
Listed ==
    LET due == {d \in Deliveries : rows[d].state = "queued" /\ rows[d].due # "no" /\ DestOf[d] \in ready}
    IN  {d \in due : Cardinality({e \in due : e < d}) < Limit}

List(w) ==
    /\ pc[w] = "list"
    /\ batch' = Listed
    /\ GoTo(w, "next")
    /\ UNCHANGED <<ready, turnVars, sendVars>> /\ unchangedButPass /\ quiet

\* The variables of one turn of the loop, which end with it.
EndTurn ==
    cur' = 0 /\ read' = NoRow /\ config' = "off" /\ claimedAt' = 0 /\ outcome' = "none"

\* The list is in the order of created_at.
Oldest(d) == d \in batch /\ \A e \in batch : d <= e

\* The row as it is now decides, not the one that was listed.
NextRow(w) ==
    /\ pc[w] = "next"
    /\ \E d \in Deliveries :
        /\ Oldest(d) /\ batch' = batch \ {d}
        /\ IF rows[d].state = "queued" /\ rows[d].due # "no"
             THEN GoTo(w, "activate") /\ cur' = d /\ read' = rows[d]
             ELSE UNCHANGED <<pc, cur, read>>
    /\ UNCHANGED <<ready, config, claimedAt, outcome, sendVars>> /\ unchangedButPass /\ quiet

\* The end of the pass deletes what was delivered thirty days ago.
EndPass(w) ==
    /\ pc[w] = "next" /\ batch = {}
    /\ \E old \in SUBSET {d \in Deliveries : rows[d].state = "delivered"} :
         rows' = [d \in Deliveries |->
                    IF d \in old THEN [rows[d] EXCEPT !.state = "purged"] ELSE rows[d]]
    /\ ready' = {}
    /\ GoTo(w, "swap")
    /\ UNCHANGED <<batch, turnVars, sendVars, told, faults>> /\ unchangedButPass

Activate(w) ==
    /\ pc[w] = "activate"
    /\ IF Ready(cur)
         THEN /\ GoTo(w, "claim")
              /\ config' = settings[DestOf[cur]] /\ active' = cur
              /\ UNCHANGED <<cur, read, claimedAt, outcome>>
         ELSE GoTo(w, "next") /\ EndTurn /\ UNCHANGED active
    /\ UNCHANGED <<ready, batch, cancelSend>> /\ unchangedButPass /\ quiet

\* Mutant: the row is claimed whatever it is now.
ClaimAnyway(w) ==
    /\ pc[w] = "claim"
    /\ claimedAt' = FreshStamp(cur)
    /\ rows' = [rows EXCEPT ![cur].last = claimedAt', ![cur].due = "no"]
    /\ GoTo(w, "arm")
    /\ UNCHANGED <<ready, batch, cur, read, config, outcome, sendVars, told, faults>>
    /\ unchangedButPass

\* Only the row as read is claimed: a retry that already reset it wins.
Claim(w) ==
    /\ pc[w] = "claim"
    /\ IF SameRow(rows[cur], read)
         THEN /\ claimedAt' = FreshStamp(cur)
              /\ rows' = [rows EXCEPT ![cur].last = claimedAt', ![cur].due = "no"]
              /\ GoTo(w, "arm") /\ UNCHANGED <<cur, read, config, outcome, active>>
         ELSE /\ GoTo(w, "next") /\ EndTurn /\ active' = 0
              /\ UNCHANGED rows
    /\ UNCHANGED <<ready, batch, cancelSend, told, faults>> /\ unchangedButPass

Arm(w) ==
    /\ pc[w] = "arm"
    /\ cancelSend' = "armed"
    /\ GoTo(w, "reread")
    /\ UNCHANGED <<passVars, active>> /\ unchangedButPass /\ quiet

Reread(w) ==
    /\ pc[w] = "reread"
    /\ GoTo(w, IF settings[DestOf[cur]] = config THEN "send" ELSE "release")
    /\ UNCHANGED <<passVars, sendVars>> /\ unchangedButPass /\ quiet

\* A failure may be reported of a message the destination took: a timeout, or
\* a request that was cancelled.
Send(w) ==
    /\ pc[w] = "send"
    /\ outcome' \in {"ok", "failure"}
    /\ told' = [told EXCEPT ![cur] = @ + (IF outcome' = "ok" THEN 1 ELSE 0)]
    /\ GoTo(w, IF outcome' = "failure" /\ cancelSend = "cancelled" THEN "release" ELSE "record")
    /\ UNCHANGED <<rows, faults, ready, batch, cur, read, config, claimedAt, sendVars>>
    /\ unchangedButPass

finishSend == active' = 0 /\ cancelSend' = "none" /\ EndTurn

\* The row is again what it was before the claim.
Release(w) ==
    /\ pc[w] = "release"
    /\ rows' = IF rows[cur].last = claimedAt
               THEN [rows EXCEPT ![cur].last = read.last, ![cur].due = read.due] ELSE rows
    /\ finishSend
    /\ GoTo(w, "next")
    /\ UNCHANGED <<told, faults, ready, batch>>
    /\ unchangedButPass

\* The counters are those of the row as read, plus one.
Record(w) ==
    /\ pc[w] = "record"
    /\ rows' = [rows EXCEPT ![cur].attempts = read.attempts + 1, ![cur].retries = read.retries + 1,
                            ![cur].due = "no",
                            ![cur].state = IF outcome = "ok" THEN "delivered"
                                           ELSE IF read.retries + 1 >= MaxCycle THEN "failed"
                                           ELSE "queued"]
    /\ finishSend
    /\ GoTo(w, "next")
    /\ UNCHANGED <<told, faults, ready, batch>>
    /\ unchangedButPass

(* A read or write of the pass that fails: what it was about waits for the *)
(* next tick.  An unreadable setting counts as off.                        *)
PassFails(w) ==
    /\ faults < MaxFaults
    /\ faults' = faults + 1
    /\ \/ /\ pc[w] \in {"ready", "list"}
          /\ rows' = [d \in Deliveries |-> Late(rows[d])]
          /\ ready' = {} /\ GoTo(w, "swap")
          /\ UNCHANGED <<batch, turnVars, sendVars, told>>
       \/ /\ pc[w] = "next"
          /\ \E d \in Deliveries :
                Oldest(d) /\ batch' = batch \ {d} /\ rows' = [rows EXCEPT ![d] = Late(@)]
          /\ UNCHANGED <<pc, ready, turnVars, sendVars, told>>
       \/ /\ pc[w] \in {"activate", "claim"}
          /\ rows' = [rows EXCEPT ![cur] = Late(@)]
          /\ active' = 0
          /\ GoTo(w, "next") /\ EndTurn /\ UNCHANGED <<ready, batch, cancelSend, told>>
       \/ /\ pc[w] = "reread"
          /\ read' = Late(read)
          /\ GoTo(w, "release")
          /\ UNCHANGED <<rows, ready, batch, cur, config, claimedAt, outcome, sendVars, told>>
       \/ /\ pc[w] \in {"release", "record"}
          /\ told' = [told EXCEPT ![cur] = @ - (IF outcome = "ok" THEN 1 ELSE 0)]
          /\ finishSend
          /\ GoTo(w, "next") /\ UNCHANGED <<rows, ready, batch>>
    /\ unchangedButPass

----------------------------------------------------------------------------
(* Time, and the end of the process *)

TimePasses(d) ==
    /\ rows[d].state = "queued" /\ rows[d].due = "no"
    /\ rows' = [rows EXCEPT ![d].due = "late"]
    /\ UNCHANGED <<settings, appVars, wake, pc, passVars, sendVars, adminVars, told, faults, crashes>>

\* What is in memory is lost, the outcome of a send with it; the loop that
\* starts again begins with a tick.
Crash ==
    /\ crashes < MaxCrashes
    /\ crashes' = crashes + 1
    /\ told' = [d \in Deliveries |->
                  told[d] - (IF outcome = "ok" /\ d = cur THEN 1 ELSE 0)]
    /\ rows' = [d \in Deliveries |-> Late(rows[d])]
    /\ caller' = "idle" /\ wake' = FALSE /\ again' = FALSE /\ mutex' = "free"
    /\ pc' = [w \in Workers |-> "idle"]
    /\ ready' = {} /\ batch' = {} /\ EndTurn
    /\ active' = 0 /\ cancelSend' = "none"
    /\ editing' = [t \in Destinations |-> 0] /\ click' = NoClick
    /\ UNCHANGED <<settings, edits, clicks, faults>>

----------------------------------------------------------------------------
Pass(w) ==
    \/ ReadReady(w) \/ List(w) \/ NextRow(w) \/ EndPass(w) \/ Activate(w) \/ Claim(w) \/ Arm(w)
    \/ Reread(w) \/ Send(w) \/ Release(w) \/ Record(w) \/ PassFails(w)

Worker(w) == Swap(w) \/ Unlock(w) \/ Load(w) \/ TryLock(w) \/ Pass(w)

Next ==
    \/ \E e \in Events : Notify(e)
    \/ \E t \in Destinations : CancelSend(t) \/ \E c \in Configs \cup {"off"} : SaveSettings(t, c)
    \/ \E d \in Deliveries : RetryRead(d) \/ TimePasses(d)
    \/ RetryCheck \/ RetryCommit
    \/ CallDeliver \/ StartWorker
    \/ \E w \in Workers : Worker(w)
    \/ Crash

Spec == Init /\ [][Next]_vars

\* The loop ticks, its goroutines run on, and the backoff of a queued
\* delivery comes to an end.
FairSpec ==
    /\ Spec
    /\ WF_vars(CallDeliver) /\ WF_vars(StartWorker)
    /\ \A w \in Workers : WF_vars(Worker(w))
    /\ \A d \in Deliveries : WF_vars(TimePasses(d))

----------------------------------------------------------------------------
(* Properties *)

\* Between its claim and its record, a send has the row to itself: nobody
\* else ends, retries or claims it, so the unconditional write of Deliver
\* loses no retry an administrator was granted.
SendOwnsRow ==
    \A w \in Workers : pc[w] \in InFlight =>
        /\ active = cur
        /\ rows[cur].state = "queued" /\ rows[cur].last = claimedAt
        /\ rows[cur].attempts = read.attempts /\ rows[cur].retries = read.retries

\* A message that was sent, and whose success Deliver could record, is never
\* sent again with success: neither a retry nor another pass takes it up.
NoDuplicates == \A d \in Deliveries : told[d] <= 1

\* Nothing goes out under settings that were replaced, but what Configure is
\* about to cancel or has cancelled.
OldSettingsEnd ==
    \A w \in Workers : pc[w] = "send" /\ config # settings[DestOf[cur]] =>
        cancelSend = "cancelled" \/ editing[DestOf[cur]] > 0

Idle ==
    /\ ~wake /\ caller = "idle"
    /\ \A w \in Workers : pc[w] = "idle"
    /\ \A t \in Destinations : editing[t] = 0

\* A call of App.deliver is not lost, whenever it comes, and a released row is
\* looked at again: when nothing moves but the clock, no delivery that was
\* queued, retried or released waits.  It was sent, or its destination is off.
\* This holds while no more are due than a pass takes.
NothingWaitsForTick ==
    Idle /\ Last <= Limit => \A d \in Deliveries : rows[d].state = "queued" /\ Ready(d) => rows[d].due # "now"

\* What a pass, an administrator's retry, a change of the settings and a crash
\* do to a delivery fits together, in whatever order they come.
SendsAreSingle ==
    TypeOK /\ SendOwnsRow /\ NoDuplicates /\ OldSettingsEnd /\ NothingWaitsForTick

Queued(d) == rows[d].state = "queued"

\* A queued delivery is delivered or fails in the end, unless its destination
\* is turned off: neither releases, lost claims nor other deliveries keep it.
DeliveryEnds ==
    \A d \in Deliveries : []<>(~Queued(d) \/ ~Ready(d))
============================================================================
