------------------------------ MODULE Monitor -------------------------------
(***************************************************************************)
(* Outage monitoring of one server (internal/monitor/monitor.go): its row  *)
(* in availability, which operations and an administrator write at any     *)
(* time, and the tick that compares the row with Docker and raises alerts. *)
(*                                                                         *)
(* Times are told apart only as far as the code compares them: whether the *)
(* grace period of an outage is over, and whether a suppression still      *)
(* lasts, both at the moment the tick took as now.  An outage and a        *)
(* suppression carry a stamp, for the times that the row holds.            *)
(***************************************************************************)
EXTENDS Naturals

CONSTANT None

VARIABLES
    avail,   \* the row of the server, or None
    lasts,   \* suppressed_until is in the future
    due,     \* the outage is older than its grace period
    check,   \* the tick's progress
    srv,     \* Docker: the container is "up" or "down"
    told,    \* history: stamp of an outage -> messages sent about it
    lost     \* history: outages whose alert was saved and then lost in a crash

monitorVars == <<avail, lasts, due, check, told, lost>>

Stamps == 1..3
Rows == [watched : BOOLEAN, outage : 0..3, notified : BOOLEAN, sup : 0..3, stopped : BOOLEAN]
Checks == [pc : {"idle", "seen", "rows", "decided", "alert", "recovery"},
           saw : {"up", "sick", "down"}, lasted : BOOLEAN, sup : 0..3, due : BOOLEAN,
           row : Rows \union {None}]
NoCheck == [pc |-> "idle", saw |-> "up", lasted |-> FALSE, sup |-> 0, due |-> FALSE, row |-> None]

ASSUME MonitorAssumption == None \notin Rows

MonitorTypeOK ==
    /\ avail \in Rows \union {None}
    /\ lasts \in BOOLEAN /\ due \in BOOLEAN
    /\ check \in Checks
    /\ srv \in {"up", "down"}
    /\ told \in [Stamps -> {"nothing", "outage", "recovered", "again"}]
    /\ lost \subseteq Stamps

Row(watched) == [watched |-> watched, outage |-> 0, notified |-> FALSE, sup |-> 0, stopped |-> FALSE]

MonitorInit ==
    /\ avail \in {None, Row(TRUE)}
    /\ lasts = FALSE /\ due = FALSE
    /\ check = NoCheck
    /\ srv \in {"up", "down"}
    /\ told = [k \in Stamps |-> "nothing"] /\ lost = {}

(* A stamp that no row still read has.                                     *)
FreshSup == CHOOSE k \in Stamps :
    k \notin {r.sup : r \in {avail, check.row} \ {None}} \union {check.sup}
FreshOutage == CHOOSE k \in Stamps : k \notin {r.outage : r \in {avail, check.row} \ {None}}

-----------------------------------------------------------------------------
(* What others write.                                                      *)

EnsureRow == IF avail = None THEN Row(FALSE) ELSE avail

(* Suppress: tracking pauses for one grace period.                         *)
Suppress ==
    /\ avail' = [EnsureRow EXCEPT !.sup = FreshSup, !.outage = 0, !.notified = FALSE]
    /\ lasts' = TRUE /\ due' = FALSE
    /\ UNCHANGED <<check, told, lost>>

SetIntentionalStop(stopped) ==
    /\ avail' = [EnsureRow EXCEPT !.stopped = stopped, !.outage = 0, !.notified = FALSE]
    /\ due' = FALSE
    /\ UNCHANGED <<lasts, check, told, lost>>

(* Configure: an administrator turns monitoring or maintenance on or off.  *)
Configure ==
    /\ \E watched \in BOOLEAN :
         avail' = [EnsureRow EXCEPT !.watched = watched, !.outage = 0, !.notified = FALSE]
    /\ avail' # avail
    /\ due' = FALSE
    /\ UNCHANGED <<lasts, check, srv, told, lost>>

SuppressionEnds ==
    /\ lasts /\ lasts' = FALSE
    /\ UNCHANGED <<avail, due, check, srv, told, lost>>

GraceEnds ==
    /\ avail # None /\ avail.outage # 0 /\ ~due /\ due' = TRUE
    /\ UNCHANGED <<avail, lasts, check, srv, told, lost>>

-----------------------------------------------------------------------------
(* The tick.                                                               *)

(* The discovery of the tick, or its failure, and the time taken as now.   *)
(* A running server may be seen as not healthy ("sick").                   *)
Observe ==
    /\ check.pc = "idle"
    /\ \E saw \in {srv, "down"} \union (IF srv = "up" THEN {"sick"} ELSE {}) :
         check' = [NoCheck EXCEPT !.pc = "seen", !.saw = saw, !.lasted = lasts, !.due = due,
                                  !.sup = IF avail = None THEN 0 ELSE avail.sup]
    \* history of past outages is forgotten
    /\ told' = [k \in Stamps |-> IF avail # None /\ avail.outage = k THEN told[k] ELSE "nothing"]
    /\ lost' = {k \in lost : avail # None /\ avail.outage = k}
    /\ UNCHANGED <<avail, lasts, due, srv>>

(* suppressed, by policy and time: until is later than now also when it    *)
(* was set after now.                                                      *)
MutantSuppressedForGood == ~avail.watched \/ avail.sup # 0 \/ check.lasted
Suppressed == ~avail.watched \/ avail.sup # check.sup \/ check.lasted

(* The rows are read before the operations are.                            *)
ReadRows ==
    /\ check.pc = "seen"
    /\ check' = IF avail = None \/ Suppressed THEN NoCheck
                ELSE [NoCheck EXCEPT !.pc = "rows", !.row = avail, !.saw = check.saw, !.due = check.due]
    /\ UNCHANGED <<avail, lasts, due, srv, told, lost>>

(* suppressed, by an operation or a lock.                                  *)
ReadActive(busy) ==
    /\ check.pc = "rows"
    /\ check' = IF busy THEN NoCheck ELSE [check EXCEPT !.pc = "decided"]
    /\ UNCHANGED <<avail, lasts, due, srv, told, lost>>

(* transition: only if the row is still the one read.                      *)
Transition(new) == IF avail = check.row THEN new ELSE avail

Running == check.saw # "down"

(* The owner started the server outside Ludock.                            *)
ClearStopped ==
    /\ check.pc = "decided" /\ Running /\ check.row.stopped
    /\ LET new == [check.row EXCEPT !.stopped = FALSE]
       IN  /\ avail' = Transition(new)
           /\ check' = IF avail = check.row THEN [check EXCEPT !.row = new] ELSE NoCheck
    /\ UNCHANGED <<lasts, due, srv, told, lost>>

SaveHealthy ==
    /\ check.pc = "decided" /\ check.saw = "up" /\ ~check.row.stopped
    /\ avail' = Transition([check.row EXCEPT !.outage = 0, !.notified = FALSE])
    /\ due' = (due /\ avail' = avail)
    /\ check' = IF avail = check.row /\ check.row.notified
                THEN [check EXCEPT !.pc = "recovery"] ELSE NoCheck
    /\ UNCHANGED <<lasts, srv, told, lost>>

(* The outage starts now, or its grace period is over and the alert is     *)
(* saved before it is sent.                                                *)
Raises == check.row.outage # 0 /\ check.due /\ ~check.row.notified

SaveOutage ==
    /\ check.pc = "decided" /\ check.saw # "up" /\ ~(Running /\ check.row.stopped)
    /\ IF check.row.stopped THEN check' = NoCheck /\ UNCHANGED <<avail, due, told, lost>>
       ELSE LET k == IF check.row.outage = 0 THEN FreshOutage ELSE check.row.outage
                new == [check.row EXCEPT !.outage = k, !.notified = @ \/ Raises]
            IN  /\ avail' = Transition(new)
                /\ due' = (due /\ (avail # check.row \/ check.row.outage # 0))
                /\ told' = IF avail = check.row /\ check.row.outage = 0
                           THEN [told EXCEPT ![k] = "nothing"] ELSE told
                /\ lost' = IF avail = check.row /\ check.row.outage = 0 THEN lost \ {k} ELSE lost
                /\ check' = IF avail = check.row /\ Raises
                            THEN [check EXCEPT !.pc = "alert"] ELSE NoCheck
    /\ UNCHANGED <<lasts, srv>>

Notify ==
    /\ check.pc \in {"alert", "recovery"}
    /\ told' = [told EXCEPT ![check.row.outage] = IF check.pc = "recovery" THEN "recovered"
                                                  ELSE IF @ = "nothing" THEN "outage" ELSE "again"]
    /\ check' = NoCheck
    /\ UNCHANGED <<avail, lasts, due, srv, lost>>

(* The process ends between any two steps.                                 *)
MonitorCrash ==
    /\ check' = NoCheck
    /\ lost' = IF check.pc = "alert" THEN lost \union {check.row.outage} ELSE lost
    /\ UNCHANGED <<avail, lasts, due, told>>

Check(busy) ==
    \/ Observe \/ ReadRows \/ ReadActive(busy) \/ ClearStopped \/ SaveHealthy \/ SaveOutage
    \/ Notify
=============================================================================
