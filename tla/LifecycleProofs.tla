-------------------------- MODULE LifecycleProofs --------------------------
(***************************************************************************)
(* Proofs about start, stop and restart with the monitoring of the server. *)
(* The inductive invariant IInv says which step of an operation a stop     *)
(* that Docker carries out is owed to, why an observation made before that *)
(* stop cannot undo what Ludock recorded about it, and what has been told  *)
(* of the outage in the row.  The second part is about the files of a      *)
(* server, whose helpers have a life of their own.                         *)
(***************************************************************************)
EXTENDS Lifecycle, Files, TLAPS

\* An operation that may yet start the server counts as one start.
ToStart == {"none", "suppress", "save", "record", "dispatch", "await", "verify", "start"}

StartsCounted ==
    /\ inst <= MaxStarts + asked
    /\ job.status # "none" /\ job.pc \in ToStart => inst < MaxStarts + asked
    /\ job.status # "none" => asked > 0

\* The locks are held by the handler, from the first step to the last but one.
JobFits ==
    /\ job.status = "none" => job = NoJob
    /\ job.status = "queued" => job.pc = "none"
    /\ job.status = "running" => job.pc # "none"
    /\ held <=> job.status = "running" /\ job.pc \notin {"recover", "finish"}
    /\ job.pc \in {"none", "suppress", "save", "record"} => ~job.stopStarted
    /\ job.pc \in {"none", "suppress", "save", "record", "dispatch", "await", "verify"} => ~job.settled

\* The steps at which the operation still answers for a stop that it sent.
Answering == {"await", "recover", "resolve", "reconcile", "deadline", "lastDeadline"}

StopIsOwed ==
    /\ stopping => Up
    /\ stopping /\ ~excused /\ ~late =>
          /\ job.status = "running" /\ job.pc \in Answering
          /\ Unsettled /\ job.inst = inst

\* A row is notified of an outage it has; a tick keeps the suppression it saw
\* until it has read the row.
Fits(row) == row.notified => row.outage # 0
TickFits ==
    /\ avail # None => Fits(avail)
    /\ check.pc \in {"idle", "seen"} => check.row = None
    /\ check.pc \notin {"idle", "seen"} => check.row # None /\ Fits(check.row) /\ check.sup = 0

\* Nothing was told of an outage that is not notified yet; of one that is, an
\* outage was told, or is about to be, or its alert is lost.
ToldFits ==
    /\ avail # None /\ avail.outage # 0 /\ ~avail.notified => told[avail.outage] = "nothing"
    /\ avail # None /\ avail.notified =>
          \/ told[avail.outage] = "outage" \/ avail.outage \in lost
          \/ check.pc = "alert" /\ check.row.outage = avail.outage
    /\ check.pc = "alert" =>
          /\ check.row.outage # 0 /\ told[check.row.outage] = "nothing"
          /\ avail # None /\ avail.outage = check.row.outage => avail.notified
    /\ check.pc = "recovery" =>
          /\ check.row.outage # 0
          /\ told[check.row.outage] = "outage" \/ check.row.outage \in lost
          /\ avail # None => avail.outage # check.row.outage

\* A step between the first and the last pause of tracking.
Paused == job.status = "running" /\ job.pc \notin {"none", "suppress", "finish"}
ToPause == job.status = "running" /\ job.pc \in {"verify", "end"}

\* While the server is down since Ludock's stop, its row says so.  A tick that
\* saw it running is one the last pause outdates, or has outdated.
OwnFits ==
    /\ own /\ job.pc = "verify" => job.kind = "stop"
    /\ own => srv = "down" /\ avail # None /\ avail.stopped
    /\ Paused /\ check.pc = "decided" => avail # None /\ avail.sup # check.row.sup
    /\ own /\ ~ToPause /\ check.saw # "down" =>
          /\ check.pc = "seen" => avail.sup # check.sup
          /\ check.pc \in {"rows", "decided"} => avail.sup # check.row.sup

IInv == TypeOK /\ StartsCounted /\ JobFits /\ StopIsOwed /\ TickFits /\ ToldFits /\ OwnFits

----------------------------------------------------------------------------
(* What writes the row, and stamps that are fresh *)

LEMMA EnsureRowIs ==
    ASSUME MonitorTypeOK
    PROVE  EnsureRow \in Rows /\ (avail # None => EnsureRow = avail)
           /\ (avail = None => EnsureRow = Row(FALSE))
BY DEF MonitorTypeOK, EnsureRow, Row, Rows

LEMMA FreshSupIs ==
    ASSUME MonitorTypeOK, TickFits
    PROVE  /\ FreshSup \in Stamps /\ FreshSup # check.sup
           /\ avail # None => FreshSup # avail.sup
           /\ check.row # None => FreshSup # check.row.sup
<1> DEFINE S == {r.sup : r \in {avail, check.row} \ {None}} \union {check.sup}
<1>1. CASE check.row = None
  <2> DEFINE a == IF avail = None THEN 0 ELSE avail.sup
  <2>1. PICK k \in Stamps : k # a /\ k # check.sup
    BY Z3 DEF Stamps
  <2>2. k \notin S
    BY <1>1, <2>1
  <2> QED BY <1>1, <2>2 DEF FreshSup
<1>2. CASE check.row # None
  <2> DEFINE a == IF avail = None THEN 0 ELSE avail.sup
  <2>1. check.sup = 0
    BY <1>2 DEF TickFits, MonitorTypeOK, Checks
  <2>2. PICK k \in Stamps : k # a /\ k # check.row.sup
    BY Z3 DEF Stamps
  <2>3. k \notin S
    BY <2>1, <2>2 DEF Stamps
  <2> QED BY <1>2, <2>3 DEF FreshSup
<1> QED BY <1>1, <1>2

LEMMA FreshOutageIs ==
    ASSUME MonitorTypeOK
    PROVE  /\ FreshOutage \in Stamps
           /\ check.row # None => FreshOutage # check.row.outage
<1> DEFINE S == {r.outage : r \in {avail, check.row} \ {None}}
           a == IF avail = None THEN 0 ELSE avail.outage
           b == IF check.row = None THEN 0 ELSE check.row.outage
<1>1. PICK k \in Stamps : k # a /\ k # b
  BY Z3 DEF Stamps
<1>2. k \notin S
  BY <1>1
<1>3. FreshOutage \in Stamps \ S
  BY <1>2 DEF FreshOutage
<1> QED BY <1>3

\* A row as Suppress leaves it.
LEMMA SuppressIs ==
    ASSUME MonitorTypeOK, TickFits, Suppress
    PROVE  /\ avail' \in Rows /\ avail' # None
           /\ avail'.sup \in Stamps /\ avail'.sup # check.sup
           /\ check.row # None => avail'.sup # check.row.sup
           /\ avail'.outage = 0 /\ ~avail'.notified
           /\ avail # None => avail'.stopped = avail.stopped
<1>1. avail' = [EnsureRow EXCEPT !.sup = FreshSup, !.outage = 0, !.notified = FALSE]
  BY DEF Suppress
<1>2. EnsureRow \in Rows /\ FreshSup \in 0..3
  BY EnsureRowIs, FreshSupIs DEF Stamps
<1>3. avail' = [watched |-> EnsureRow.watched, outage |-> 0, notified |-> FALSE, sup |-> FreshSup,
                stopped |-> EnsureRow.stopped]
  BY <1>1, <1>2, Zenon DEF Rows
<1>4. avail' \in Rows
  BY <1>2, <1>3 DEF Rows
<1>5. avail'.sup = FreshSup /\ avail'.outage = 0 /\ ~avail'.notified
      /\ avail'.stopped = EnsureRow.stopped
  BY <1>3
<1> QED BY <1>4, <1>5, EnsureRowIs, FreshSupIs, MonitorAssumption

LEMMA IntentIs ==
    ASSUME MonitorTypeOK, NEW stopped \in BOOLEAN, SetIntentionalStop(stopped)
    PROVE  /\ avail' \in Rows /\ avail' # None
           /\ avail'.outage = 0 /\ ~avail'.notified /\ (avail'.stopped <=> stopped)
           /\ avail # None => avail'.sup = avail.sup
<1>1. EnsureRow \in Rows
  BY EnsureRowIs
<1>2. avail' = [watched |-> EnsureRow.watched, outage |-> 0, notified |-> FALSE,
                sup |-> EnsureRow.sup, stopped |-> stopped]
  BY <1>1, Zenon DEF Rows, SetIntentionalStop
<1>3. avail' \in Rows
  BY <1>1, <1>2 DEF Rows
<1>4. avail'.sup = EnsureRow.sup /\ avail'.outage = 0 /\ ~avail'.notified
      /\ (avail'.stopped <=> stopped)
  BY <1>2
<1> QED BY <1>3, <1>4, EnsureRowIs, MonitorAssumption

LEMMA ConfigureIs ==
    ASSUME MonitorTypeOK, Configure
    PROVE  /\ avail' \in Rows /\ avail' # None
           /\ avail'.outage = 0 /\ ~avail'.notified
           /\ avail # None => avail'.sup = avail.sup /\ avail'.stopped = avail.stopped
<1>1. EnsureRow \in Rows
  BY EnsureRowIs
<1>2. PICK watched \in BOOLEAN :
        avail' = [EnsureRow EXCEPT !.watched = watched, !.outage = 0, !.notified = FALSE]
  BY Zenon DEF Configure
<1>3. avail' = [watched |-> watched, outage |-> 0, notified |-> FALSE,
                sup |-> EnsureRow.sup, stopped |-> EnsureRow.stopped]
  BY <1>1, <1>2, Zenon DEF Rows
<1>4. avail' \in Rows
  BY <1>1, <1>3 DEF Rows
<1>5. avail'.sup = EnsureRow.sup /\ avail'.outage = 0 /\ ~avail'.notified
      /\ avail'.stopped = EnsureRow.stopped
  BY <1>3
<1> QED BY <1>4, <1>5, EnsureRowIs, MonitorAssumption

----------------------------------------------------------------------------
(* The steps of the tick *)

LEMMA NoCheckIs == NoCheck \in Checks /\ NoCheck.pc = "idle" /\ NoCheck.row = None
BY DEF NoCheck, Checks

LEMMA ObserveIs ==
    ASSUME MonitorTypeOK, Observe
    PROVE  /\ check' \in Checks /\ check'.pc = "seen" /\ check'.row = None
           /\ srv = "down" => check'.saw = "down"
           /\ avail' = avail /\ srv' = srv
           /\ told' \in [Stamps -> {"nothing", "outage", "recovered", "again"}]
           /\ lost' \subseteq Stamps
           /\ \A k \in Stamps : /\ avail # None /\ avail.outage = k => told'[k] = told[k]
                                /\ told'[k] \in {told[k], "nothing"}
           /\ avail # None /\ avail.outage \in lost => avail.outage \in lost'
<1>1. PICK saw \in {srv, "down"} \union (IF srv = "up" THEN {"sick"} ELSE {}) :
        check' = [NoCheck EXCEPT !.pc = "seen", !.saw = saw, !.lasted = lasts, !.due = due,
                                 !.sup = IF avail = None THEN 0 ELSE avail.sup]
  BY Zenon DEF Observe
<1> DEFINE sup == IF avail = None THEN 0 ELSE avail.sup
<1>2. sup \in 0..3 /\ lasts \in BOOLEAN /\ due \in BOOLEAN /\ saw \in {"up", "sick", "down"}
  BY DEF MonitorTypeOK, Rows
<1>3. check' = [pc |-> "seen", saw |-> saw, lasted |-> lasts, sup |-> sup, due |-> due, row |-> None]
  BY <1>1, Zenon DEF NoCheck
<1> HIDE DEF sup
<1>4. check' \in Checks /\ check'.pc = "seen" /\ check'.row = None /\ check'.saw = saw
  BY <1>2, <1>3 DEF Checks
<1> QED BY <1>4 DEF Observe, MonitorTypeOK

LEMMA ReadRowsIs ==
    ASSUME MonitorTypeOK, ReadRows
    PROVE  /\ check' \in Checks /\ UNCHANGED <<avail, srv, told, lost>> /\ check.pc = "seen"
           /\ \/ check'.pc = "idle" /\ check'.row = None
              \/ /\ check'.pc = "rows" /\ check'.row = avail /\ check'.sup = 0 /\ check'.saw = check.saw
                 /\ avail # None /\ avail.sup = check.sup
<1>1. CASE check' = NoCheck
  BY <1>1, NoCheckIs DEF ReadRows
<1>2. CASE /\ avail # None /\ ~Suppressed
           /\ check' = [NoCheck EXCEPT !.pc = "rows", !.row = avail, !.saw = check.saw, !.due = check.due]
  <2>1. check' = [pc |-> "rows", saw |-> check.saw, lasted |-> FALSE, sup |-> 0, due |-> check.due,
                  row |-> avail]
    BY <1>2, Zenon DEF NoCheck
  <2>2. check.saw \in {"up", "sick", "down"} /\ check.due \in BOOLEAN /\ avail \in Rows
    BY <1>2 DEF MonitorTypeOK, Checks
  <2>3. check' \in Checks
    BY <2>1, <2>2 DEF Checks
  <2>4. check.pc = "seen" /\ UNCHANGED <<avail, srv, told, lost>> /\ avail.sup = check.sup
    BY <1>2 DEF ReadRows, Suppressed
  <2>5. check'.pc = "rows" /\ check'.row = avail /\ check'.sup = 0 /\ check'.saw = check.saw
    BY <2>1
  <2> QED BY <1>2, <2>3, <2>4, <2>5
<1> QED BY <1>1, <1>2, Zenon DEF ReadRows

\* The row the tick read, while it works on it.
LEMMA RowReadIs ==
    ASSUME MonitorTypeOK, TickFits, check.pc \notin {"idle", "seen"}
    PROVE  /\ check.row \in Rows /\ check.row # None /\ check.sup = 0
           /\ check.row.outage \in 0..3 /\ check.row.sup \in 0..3
           /\ check.row.notified => check.row.outage # 0
BY DEF MonitorTypeOK, TickFits, Fits, Checks, Rows

LEMMA ReadActiveIs ==
    ASSUME MonitorTypeOK, TickFits, NEW busy \in BOOLEAN, ReadActive(busy)
    PROVE  /\ check' \in Checks /\ UNCHANGED <<avail, srv, told, lost>> /\ check.pc = "rows"
           /\ \/ check'.pc = "idle" /\ check'.row = None
              \/ /\ ~busy /\ check'.pc = "decided" /\ check'.row = check.row /\ check'.sup = 0
                 /\ check'.saw = check.saw
<1>1. CASE check' = NoCheck
  BY <1>1, NoCheckIs DEF ReadActive
<1>2. CASE ~busy /\ check' = [check EXCEPT !.pc = "decided"]
  BY <1>2, RowReadIs DEF ReadActive, MonitorTypeOK, Checks
<1> QED BY <1>1, <1>2, Zenon DEF ReadActive

LEMMA UnstoppedIs ==
    ASSUME NEW r \in Rows
    PROVE  LET new == [r EXCEPT !.stopped = FALSE]
           IN  /\ new \in Rows /\ new.outage = r.outage /\ new.notified = r.notified
               /\ new.sup = r.sup
BY DEF Rows

LEMMA ClearStoppedIs ==
    ASSUME MonitorTypeOK, TickFits, ClearStopped
    PROVE  /\ check' \in Checks /\ UNCHANGED <<srv, told, lost>> /\ check.pc = "decided"
           /\ check.saw # "down" /\ check.row.stopped
           /\ \/ /\ avail # check.row /\ avail' = avail /\ check'.pc = "idle" /\ check'.row = None
              \/ /\ avail = check.row /\ avail' \in Rows /\ avail' # None
                 /\ avail'.outage = avail.outage /\ avail'.notified = avail.notified
                 /\ avail'.sup = avail.sup
                 /\ check'.pc = "decided" /\ check'.row = avail' /\ check'.sup = 0
                 /\ check'.saw = check.saw
<1> DEFINE new == [check.row EXCEPT !.stopped = FALSE]
<1>1. check.row \in Rows /\ check.sup = 0
  BY RowReadIs DEF ClearStopped
<1>2. new \in Rows /\ new.outage = check.row.outage /\ new.notified = check.row.notified
      /\ new.sup = check.row.sup
  BY <1>1, UnstoppedIs
<1>3. /\ check.pc = "decided" /\ check.saw # "down" /\ check.row.stopped
      /\ UNCHANGED <<srv, told, lost>>
      /\ \/ avail # check.row /\ avail' = avail /\ check' = NoCheck
         \/ avail = check.row /\ avail' = new /\ check' = [check EXCEPT !.row = new]
  BY Zenon DEF ClearStopped, Transition, Running
<1> HIDE DEF new
<1>4. CASE avail # check.row /\ avail' = avail /\ check' = NoCheck
  BY <1>3, <1>4, NoCheckIs
<1>5. CASE avail = check.row /\ avail' = new /\ check' = [check EXCEPT !.row = new]
  <2>1. check' \in Checks /\ check'.pc = "decided" /\ check'.row = new /\ check'.sup = 0
        /\ check'.saw = check.saw
    BY <1>1, <1>2, <1>3, <1>5 DEF MonitorTypeOK, Checks
  <2> QED BY <1>2, <1>3, <1>5, <2>1, MonitorAssumption
<1> QED BY <1>3, <1>4, <1>5

WithOutage(r, k, b) == [r EXCEPT !.outage = k, !.notified = b]

LEMMA WithOutageIs ==
    ASSUME NEW r \in Rows, NEW k \in 0..3, NEW b \in BOOLEAN
    PROVE  /\ WithOutage(r, k, b) \in Rows
           /\ WithOutage(r, k, b).outage = k /\ WithOutage(r, k, b).notified = b
           /\ WithOutage(r, k, b).sup = r.sup
<1> DEFINE n == [r EXCEPT !.outage = k, !.notified = b]
<1>1. CASE b = TRUE
  <2>1. n = [r EXCEPT !.outage = k, !.notified = TRUE]
    BY <1>1
  <2> QED BY <1>1, <2>1 DEF Rows, WithOutage
<1>2. CASE b = FALSE
  <2>1. n = [r EXCEPT !.outage = k, !.notified = FALSE]
    BY <1>2
  <2> QED BY <1>2, <2>1 DEF Rows, WithOutage
<1> QED BY <1>1, <1>2

\* A healthy server: the outage is over, if the row is the one that was read.
LEMMA SaveHealthyIs ==
    ASSUME MonitorTypeOK, TickFits, SaveHealthy
    PROVE  /\ check' \in Checks /\ UNCHANGED <<srv, told, lost>> /\ check.pc = "decided"
           /\ ~check.row.stopped
           /\ \/ avail # check.row /\ avail' = avail
              \/ /\ avail = check.row /\ avail' \in Rows /\ avail' # None
                 /\ avail'.outage = 0 /\ ~avail'.notified
           /\ \/ check'.pc = "idle" /\ check'.row = None
              \/ /\ check'.pc = "recovery" /\ check'.row = check.row /\ check'.sup = 0
                 /\ avail = check.row /\ check.row.notified
<1> DEFINE new == [check.row EXCEPT !.outage = 0, !.notified = FALSE]
<1>1. check.row \in Rows /\ check.sup = 0
  BY RowReadIs DEF SaveHealthy
<1>2. new \in Rows /\ new.outage = 0 /\ ~new.notified
  <2>1. 0 \in 0..3 /\ FALSE \in BOOLEAN
    OBVIOUS
  <2>2. new = WithOutage(check.row, 0, FALSE)
    BY DEF WithOutage
  <2> HIDE DEF new
  <2> QED BY <1>1, <2>1, <2>2, WithOutageIs
<1>3. /\ check.pc = "decided" /\ ~check.row.stopped /\ UNCHANGED <<srv, told, lost>>
      /\ \/ avail # check.row /\ avail' = avail /\ check' = NoCheck
         \/ avail = check.row /\ avail' = new /\ check' = NoCheck
         \/ avail = check.row /\ avail' = new /\ check.row.notified
            /\ check' = [check EXCEPT !.pc = "recovery"]
  BY Zenon DEF SaveHealthy, Transition
<1> HIDE DEF new
<1>4. check' = [check EXCEPT !.pc = "recovery"] =>
        check' \in Checks /\ check'.pc = "recovery" /\ check'.row = check.row /\ check'.sup = 0
  BY <1>1 DEF MonitorTypeOK, Checks
<1> QED BY <1>2, <1>3, <1>4, NoCheckIs, MonitorAssumption

\* A server that is down or sick: an outage begins, is notified, or goes on.
LEMMA SaveOutageIs ==
    ASSUME MonitorTypeOK, TickFits, SaveOutage
    PROVE  /\ check' \in Checks /\ srv' = srv /\ check.pc = "decided"
           /\ \/ /\ avail' = avail /\ UNCHANGED <<told, lost>>
                 /\ check'.pc = "idle" /\ check'.row = None
              \/ /\ avail = check.row /\ ~check.row.stopped /\ check.row.outage = 0
                 /\ avail' \in Rows /\ avail' # None
                 /\ avail'.outage \in Stamps /\ ~avail'.notified /\ avail'.sup = avail.sup
                 /\ told' = [told EXCEPT ![avail'.outage] = "nothing"]
                 /\ lost' = lost \ {avail'.outage}
                 /\ check'.pc = "idle" /\ check'.row = None
              \/ /\ avail = check.row /\ ~check.row.stopped /\ check.row.outage # 0
                 /\ avail' \in Rows /\ avail' # None
                 /\ avail'.outage = avail.outage /\ avail'.sup = avail.sup
                 /\ UNCHANGED <<told, lost>>
                 /\ \/ /\ check'.pc = "idle" /\ check'.row = None
                       /\ avail'.notified = avail.notified
                    \/ /\ ~avail.notified /\ avail'.notified
                       /\ check'.pc = "alert" /\ check'.row = check.row /\ check'.sup = 0
<1> DEFINE k == IF check.row.outage = 0 THEN FreshOutage ELSE check.row.outage
           new == [check.row EXCEPT !.outage = k, !.notified = @ \/ Raises]
<1>1. check.row \in Rows /\ check.sup = 0 /\ (check.row.notified => check.row.outage # 0)
  BY RowReadIs DEF SaveOutage
<1>2. k \in Stamps
  BY <1>1, FreshOutageIs DEF Rows, Stamps
<1>3. new \in Rows /\ new.outage = k /\ (new.notified <=> check.row.notified \/ Raises)
      /\ new.sup = check.row.sup
  <2>1. k \in 0..3
    BY <1>2 DEF Stamps
  <2>2. CASE check.row.notified \/ Raises
    <3>1. new = [check.row EXCEPT !.outage = k, !.notified = TRUE]
      BY <2>2
    <3> HIDE DEF k, new
    <3> QED BY <1>1, <2>1, <2>2, <3>1 DEF Rows
  <2>3. CASE ~(check.row.notified \/ Raises)
    <3>1. new = [check.row EXCEPT !.outage = k, !.notified = FALSE]
      BY <2>3
    <3> HIDE DEF k, new
    <3> QED BY <1>1, <2>1, <2>3, <3>1 DEF Rows
  <2> QED BY <2>2, <2>3
<1>4. /\ check.pc = "decided" /\ srv' = srv
      /\ \/ avail' = avail /\ UNCHANGED <<told, lost>> /\ check' = NoCheck
         \/ /\ ~check.row.stopped /\ avail = check.row /\ avail' = new
            /\ told' = IF check.row.outage = 0 THEN [told EXCEPT ![k] = "nothing"] ELSE told
            /\ lost' = IF check.row.outage = 0 THEN lost \ {k} ELSE lost
            /\ check' = IF Raises THEN [check EXCEPT !.pc = "alert"] ELSE NoCheck
  BY Zenon DEF SaveOutage, Transition
<1>5. Raises => check.row.outage # 0 /\ ~check.row.notified
  BY DEF Raises
<1>6. check.row.outage # 0 => k = check.row.outage
  OBVIOUS
<1> HIDE DEF new, k
<1>7. check' = [check EXCEPT !.pc = "alert"] =>
        check' \in Checks /\ check'.pc = "alert" /\ check'.row = check.row /\ check'.sup = 0
  BY <1>1 DEF MonitorTypeOK, Checks
<1>8. CASE avail' = avail /\ UNCHANGED <<told, lost>> /\ check' = NoCheck
  BY <1>4, <1>8, NoCheckIs
<1>9. ASSUME ~check.row.stopped, avail = check.row, avail' = new,
             told' = IF check.row.outage = 0 THEN [told EXCEPT ![k] = "nothing"] ELSE told,
             lost' = IF check.row.outage = 0 THEN lost \ {k} ELSE lost,
             check' = IF Raises THEN [check EXCEPT !.pc = "alert"] ELSE NoCheck
      PROVE  /\ check' \in Checks
             /\ \/ /\ check.row.outage = 0 /\ avail' \in Rows /\ avail' # None
                   /\ avail'.outage \in Stamps /\ ~avail'.notified /\ avail'.sup = avail.sup
                   /\ told' = [told EXCEPT ![avail'.outage] = "nothing"]
                   /\ lost' = lost \ {avail'.outage}
                   /\ check'.pc = "idle" /\ check'.row = None
                \/ /\ check.row.outage # 0 /\ avail' \in Rows /\ avail' # None
                   /\ avail'.outage = avail.outage /\ avail'.sup = avail.sup
                   /\ UNCHANGED <<told, lost>>
                   /\ \/ /\ check'.pc = "idle" /\ check'.row = None
                         /\ avail'.notified = avail.notified
                      \/ /\ ~avail.notified /\ avail'.notified
                         /\ check'.pc = "alert" /\ check'.row = check.row /\ check'.sup = 0
  <2>1. CASE check.row.outage = 0
    BY <1>1, <1>2, <1>3, <1>5, <1>9, <2>1, NoCheckIs, MonitorAssumption
  <2>2. CASE check.row.outage # 0 /\ Raises
    BY <1>1, <1>3, <1>5, <1>6, <1>7, <1>9, <2>2, MonitorAssumption
  <2>3. CASE check.row.outage # 0 /\ ~Raises
    <3>1. avail'.notified = avail.notified
      BY <1>1, <1>3, <1>9, <2>3 DEF Rows
    <3> QED BY <1>1, <1>3, <1>6, <1>9, <2>3, <3>1, NoCheckIs, MonitorAssumption
  <2> QED BY <2>1, <2>2, <2>3
<1> QED BY <1>4, <1>8, <1>9

LEMMA NotifyIs ==
    ASSUME MonitorTypeOK, TickFits, ToldFits, Notify
    PROVE  /\ check' \in Checks /\ check'.pc = "idle" /\ check'.row = None
           /\ UNCHANGED <<avail, srv, lost>> /\ check.row.outage \in Stamps
           /\ \/ /\ check.pc = "alert" /\ told' = [told EXCEPT ![check.row.outage] = "outage"]
              \/ /\ check.pc = "recovery" /\ told' = [told EXCEPT ![check.row.outage] = "recovered"]
<1>1. check.pc \in {"alert", "recovery"} /\ check' = NoCheck /\ UNCHANGED <<avail, srv, lost>>
  BY DEF Notify
<1>2. check.row.outage \in Stamps
  BY <1>1, RowReadIs DEF ToldFits, Stamps
<1>3. CASE check.pc = "alert"
  <2>1. told[check.row.outage] = "nothing"
    BY <1>3 DEF ToldFits
  <2>2. told' = [told EXCEPT ![check.row.outage] = "outage"]
    BY <1>2, <1>3, <2>1 DEF Notify, MonitorTypeOK
  <2> QED BY <1>1, <1>2, <1>3, <2>2, NoCheckIs
<1>4. CASE check.pc = "recovery"
  <2>1. told' = [told EXCEPT ![check.row.outage] = "recovered"]
    BY <1>2, <1>4 DEF Notify, MonitorTypeOK
  <2> QED BY <1>1, <1>2, <1>4, <2>1, NoCheckIs
<1> QED BY <1>1, <1>3, <1>4

----------------------------------------------------------------------------
(* What a step does to the monitoring, and to the operation *)

\* A step leaves the monitoring alone, or is one of its operations.
MonitorIsLeft == UNCHANGED <<avail, lasts, due, check, told, lost>>
OthersWrite ==
    \/ MonitorIsLeft \/ Suppress \/ SetIntentionalStop(TRUE) \/ SetIntentionalStop(FALSE)
    \/ Configure \/ MonitorCrash \/ SuppressionEnds \/ GraceEnds
TickMoves ==
    \/ Observe \/ ReadRows \/ ReadActive(Busy) \/ ClearStopped \/ SaveHealthy \/ SaveOutage \/ Notify

LEMMA MonitorMoves ==
    ASSUME IInv, [Next]_vars
    PROVE  OthersWrite \/ TickMoves
<1>1. \A stopped \in BOOLEAN : SetIntentionalStop(stopped) => OthersWrite
  BY Zenon DEF OthersWrite
<1>2. (job.kind = "stop") \in BOOLEAN
  OBVIOUS
<1>3. SetIntentionalStop(job.kind = "stop") => OthersWrite
  BY <1>1, <1>2, Zenon
<1>4. ASSUME Next
      PROVE  OthersWrite \/ TickMoves
  BY <1>3, <1>4, Zenon DEF Next, Run, StopCompletes, GameExits, OwnerStarts, Enqueue, Begin,
     SuppressFirst, saveWorld, recordStop, DispatchStop, StopUnheard, RecordIntent, VerifyStop,
     DispatchStart, ClearIntent, Fails, FailsFirst, SuppressLast, Finish, Crash, DeadlinePasses,
     RecoverLocks, RecoverResolve, awaitStopDeadline, Reconcile, PolicySaved, Tick, Check,
     OthersWrite, TickMoves, MonitorIsLeft, monitorVars
<1>5. CASE UNCHANGED vars
  BY <1>5 DEF vars, monitorVars, OthersWrite, MonitorIsLeft
<1> QED BY <1>4, <1>5

\* Docker's part of a step: the server is up or down, and goes up only at a start.
LEMMA ServerMoves ==
    ASSUME IInv, [Next]_vars
    PROVE  srv' \in {"up", "down"}
<1>1. ASSUME Next
      PROVE  srv' = srv \/ srv' = "up" \/ srv' = "down"
  BY <1>1, Zenon DEF Next, Run, StopCompletes, GameExits, OwnerStarts, Started, Enqueue, Begin,
     SuppressFirst, saveWorld, recordStop, DispatchStop, StopUnheard, RecordIntent, VerifyStop,
     DispatchStart, ClearIntent, Fails, FailsFirst, SuppressLast, Finish, Crash, DeadlinePasses,
     RecoverLocks, RecoverResolve, awaitStopDeadline, Reconcile, PolicySaved, Configure, Tick, Check,
     Observe, ReadRows, ReadActive, ClearStopped, SaveHealthy, SaveOutage, Notify,
     SuppressionEnds, GraceEnds, monitorVars
<1>2. srv' = srv \/ srv' = "up" \/ srv' = "down"
  BY <1>1 DEF vars
<1> QED BY <1>2 DEF IInv, TypeOK, MonitorTypeOK

LEMMA GotoIs ==
    ASSUME job \in Jobs, NEW pc \in Pcs, Goto(pc)
    PROVE  /\ job' \in Jobs /\ job'.pc = pc /\ job'.status = job.status /\ job'.kind = job.kind
           /\ job'.stopStarted = job.stopStarted /\ job'.settled = job.settled
           /\ job'.inst = job.inst
BY DEF Goto, Jobs

----------------------------------------------------------------------------
(* The monitoring after a step *)

MonitorFits == MonitorTypeOK /\ TickFits /\ ToldFits

LEMMA MonitorFitsAfterOthers ==
    ASSUME MonitorFits, srv' \in {"up", "down"}, OthersWrite
    PROVE  MonitorFits'
<1> USE DEF MonitorFits
<1>1. CASE MonitorIsLeft
  BY <1>1 DEF MonitorIsLeft, MonitorTypeOK, TickFits, ToldFits, Fits
<1>2. CASE Suppress
  BY <1>2, SuppressIs DEF Suppress, MonitorTypeOK, TickFits, ToldFits, Fits
<1>3. CASE SetIntentionalStop(TRUE) \/ SetIntentionalStop(FALSE)
  <2>1. UNCHANGED <<lasts, check, told, lost>> /\ due' = FALSE
    BY <1>3 DEF SetIntentionalStop
  <2>2. avail' \in Rows /\ avail' # None /\ avail'.outage = 0 /\ ~avail'.notified
    BY <1>3, IntentIs
  <2> QED BY <2>1, <2>2 DEF MonitorTypeOK, TickFits, ToldFits, Fits
<1>4. CASE Configure
  <2>1. UNCHANGED <<lasts, check, told, lost>> /\ due' = FALSE
    BY <1>4 DEF Configure
  <2>2. avail' \in Rows /\ avail' # None /\ avail'.outage = 0 /\ ~avail'.notified
    BY <1>4, ConfigureIs
  <2> QED BY <2>1, <2>2 DEF MonitorTypeOK, TickFits, ToldFits, Fits
<1>5. CASE MonitorCrash
  <2>1. check' \in Checks /\ check'.pc = "idle" /\ check'.row = None
    BY <1>5, NoCheckIs DEF MonitorCrash
  <2>2. UNCHANGED <<avail, lasts, due, told>>
    BY <1>5 DEF MonitorCrash
  <2>3. lost \subseteq lost' /\ lost' \subseteq Stamps
        /\ (check.pc = "alert" => check.row.outage \in lost')
    <3>1. check.pc = "alert" => check.row.outage \in Stamps
      BY RowReadIs DEF ToldFits, Stamps
    <3> QED BY <1>5, <3>1 DEF MonitorCrash, MonitorTypeOK
  <2>4. MonitorTypeOK' /\ TickFits'
    BY <2>1, <2>2, <2>3 DEF MonitorTypeOK, TickFits, Fits
  <2>5. ToldFits'
    BY <2>1, <2>2, <2>3 DEF ToldFits
  <2> QED BY <2>4, <2>5
<1>6. CASE SuppressionEnds \/ GraceEnds
  BY <1>6 DEF SuppressionEnds, GraceEnds, MonitorTypeOK, TickFits, ToldFits, Fits
<1> QED BY <1>1, <1>2, <1>3, <1>4, <1>5, <1>6, Zenon DEF OthersWrite

LEMMA MonitorFitsAfterTick ==
    ASSUME MonitorFits, srv' \in {"up", "down"}, TickMoves
    PROVE  MonitorFits'
<1> USE DEF MonitorFits
<1> DEFINE Typed == lasts' \in BOOLEAN /\ due' \in BOOLEAN
<1>0. Typed
  BY Zenon DEF TickMoves, Observe, ReadRows, ReadActive, ClearStopped, SaveHealthy, SaveOutage,
     Notify, MonitorTypeOK
<1>1. CASE Observe
  <2>1. MonitorTypeOK'
    BY <1>0, <1>1, ObserveIs DEF MonitorTypeOK
  <2>2. TickFits'
    BY <1>1, ObserveIs DEF TickFits, Fits
  <2>3. avail' = avail /\ check'.pc = "seen"
    BY <1>1, ObserveIs
  <2>4. avail # None /\ avail.outage # 0 => avail.outage \in Stamps
    BY DEF MonitorTypeOK, Rows, Stamps
  <2>5. avail # None /\ avail.outage # 0 => told'[avail.outage] = told[avail.outage]
    BY <1>1, <2>4, ObserveIs
  <2>6. avail # None /\ avail.outage \in lost => avail.outage \in lost'
    BY <1>1, ObserveIs
  <2>7. avail # None /\ avail.notified => avail.outage # 0
    BY DEF TickFits, Fits
  <2>8. check.pc = "idle"
    BY <1>1 DEF Observe
  <2>9. ToldFits'
    BY <2>3, <2>5, <2>6, <2>7, <2>8 DEF ToldFits
  <2> QED BY <2>1, <2>2, <2>9
<1>2. CASE ReadRows
  BY <1>0, <1>2, ReadRowsIs DEF MonitorTypeOK, TickFits, ToldFits, Fits
<1>3. CASE ReadActive(Busy)
  <2>1. Busy \in BOOLEAN
    BY DEF Busy
  <2> QED BY <1>0, <1>3, <2>1, ReadActiveIs, RowReadIs DEF MonitorTypeOK, TickFits, ToldFits, Fits
<1>4. CASE ClearStopped
  BY <1>0, <1>4, ClearStoppedIs DEF MonitorTypeOK, TickFits, ToldFits, Fits
<1>5. CASE SaveHealthy
  BY <1>0, <1>5, SaveHealthyIs, RowReadIs DEF MonitorTypeOK, TickFits, ToldFits, Fits
<1>6. CASE SaveOutage
  <2>1. MonitorTypeOK'
    BY <1>0, <1>6, SaveOutageIs DEF MonitorTypeOK
  <2>2. TickFits'
    BY <1>6, SaveOutageIs, RowReadIs DEF TickFits, Fits, Stamps
  <2>3. ToldFits'
    BY <1>6, SaveOutageIs, RowReadIs DEF MonitorTypeOK, ToldFits, Stamps
  <2> QED BY <2>1, <2>2, <2>3
<1>7. CASE Notify
  <2>1. MonitorTypeOK'
    BY <1>0, <1>7, NotifyIs DEF MonitorTypeOK
  <2>2. TickFits'
    BY <1>7, NotifyIs DEF TickFits, Fits
  <2>3. ToldFits'
    BY <1>7, NotifyIs DEF MonitorTypeOK, ToldFits, TickFits, Fits, Rows, Stamps
  <2> QED BY <2>1, <2>2, <2>3
<1> QED BY <1>1, <1>2, <1>3, <1>4, <1>5, <1>6, <1>7 DEF TickMoves

----------------------------------------------------------------------------
(* The operation after a step *)

JobTyped ==
    /\ job \in Jobs /\ held \in BOOLEAN /\ stopping \in BOOLEAN /\ late \in BOOLEAN
    /\ inst \in 0..(MaxStarts + MaxAsked) /\ own \in BOOLEAN /\ excused \in BOOLEAN
    /\ asked \in 0..MaxAsked /\ policies \in 0..MaxPolicies /\ crashes \in 0..MaxCrashes

JobInv == JobTyped /\ StartsCounted /\ JobFits /\ StopIsOwed

\* What a step of the operation that only goes on may rely on.
LEMMA GoesOn ==
    ASSUME JobInv, NEW from \in Pcs, NEW to \in Pcs, At(from), from # "none", to # "none", Goto(to),
           own' \in BOOLEAN, UNCHANGED <<stopping, inst, late, excused, asked, policies, crashes>>,
           UNCHANGED srv,
           held' = (to \notin {"recover", "finish"}),
           from \in Answering => to \in Answering \/ late \/ ~stopping \/ excused,
           from \notin ToStart => to \notin ToStart,
           to \in {"suppress", "save", "record"} => ~job.stopStarted,
           to \in {"suppress", "save", "record", "dispatch", "await", "verify"} => ~job.settled
    PROVE  JobInv'
<1>1. /\ job' \in Jobs /\ job'.pc = to /\ job'.status = job.status /\ job'.kind = job.kind
      /\ job'.stopStarted = job.stopStarted /\ job'.settled = job.settled /\ job'.inst = job.inst
  BY GotoIs DEF JobInv, JobTyped
<1>2. job.status = "running" /\ job.pc = from
  BY DEF At
<1>3. held' \in BOOLEAN
  OBVIOUS
<1>4. JobTyped'
  BY <1>1, <1>3 DEF JobInv, JobTyped
<1>5. StartsCounted'
  BY <1>1, <1>2 DEF JobInv, StartsCounted
<1>6. JobFits'
  BY <1>1, <1>2 DEF JobInv, JobFits, NoJob
<1>7. StopIsOwed'
  BY <1>1, <1>2 DEF JobInv, StopIsOwed, Unsettled, Up
<1> QED BY <1>4, <1>5, <1>6, <1>7 DEF JobInv

LEMMA HeldWhen ==
    ASSUME JobInv, NEW pc \in Pcs, At(pc)
    PROVE  held = (pc \notin {"recover", "finish"})
BY DEF JobInv, JobTyped, JobFits, At

LEMMA JobAfterRun ==
    ASSUME JobInv, Run \/ StopUnheard \/ Fails \/ FailsFirst
    PROVE  JobInv'
<1>1. CASE SuppressFirst
  <2>1. CASE At("suppress") /\ Goto("start")
    BY <1>1, <2>1, GoesOn, HeldWhen DEF Pcs, Answering, ToStart, At, JobInv, JobTyped, JobFits,
       SuppressFirst, Suppress
  <2>2. CASE At("suppress") /\ Goto("save")
    BY <1>1, <2>2, GoesOn, HeldWhen DEF Pcs, Answering, ToStart, At, JobInv, JobTyped, JobFits,
       SuppressFirst, Suppress
  <2> QED BY <1>1, <2>1, <2>2 DEF SuppressFirst, Suppress
<1>2. CASE saveWorld
  <2>1. CASE At("save") /\ Goto("record")
    BY <1>2, <2>1, GoesOn, HeldWhen DEF Pcs, Answering, ToStart, At, JobInv, JobTyped, JobFits,
       saveWorld
  <2> QED BY <1>2, <2>1 DEF saveWorld
<1>3. CASE ClearIntent
  <2>1. CASE At("started") /\ Goto("end")
    BY <1>3, <2>1, GoesOn, HeldWhen DEF Pcs, Answering, ToStart, At, JobInv, JobTyped, JobFits,
       ClearIntent, SetIntentionalStop
  <2> QED BY <1>3, <2>1 DEF ClearIntent, SetIntentionalStop
<1>4. CASE Fails
  <2>1. CASE At("save") /\ Goto("end")
    BY <1>4, <2>1, GoesOn, HeldWhen DEF Pcs, Answering, ToStart, At, JobInv, JobTyped, JobFits,
       Fails
  <2>2. CASE At("record") /\ Goto("end")
    BY <1>4, <2>2, GoesOn, HeldWhen DEF Pcs, Answering, ToStart, At, JobInv, JobTyped, JobFits,
       Fails
  <2>3. CASE At("dispatch") /\ Goto("end")
    BY <1>4, <2>3, GoesOn, HeldWhen DEF Pcs, Answering, ToStart, At, JobInv, JobTyped, JobFits,
       Fails
  <2>4. CASE At("verify") /\ Goto("end")
    BY <1>4, <2>4, GoesOn, HeldWhen DEF Pcs, Answering, ToStart, At, JobInv, JobTyped, JobFits,
       Fails
  <2>5. CASE At("start") /\ Goto("end")
    BY <1>4, <2>5, GoesOn, HeldWhen DEF Pcs, Answering, ToStart, At, JobInv, JobTyped, JobFits,
       Fails
  <2> QED BY <1>4, <2>1, <2>2, <2>3, <2>4, <2>5 DEF Fails
<1>5. CASE FailsFirst
  <2>1. CASE At("suppress") /\ Goto("finish")
    BY <1>5, <2>1, GoesOn, HeldWhen DEF Pcs, Answering, ToStart, At, JobInv, JobTyped, JobFits,
       FailsFirst
  <2> QED BY <1>5, <2>1 DEF FailsFirst
<1>6. CASE SuppressLast
  <2>1. CASE At("end") /\ Goto("finish")
    <3>1. /\ held' = FALSE /\ own' \in BOOLEAN /\ UNCHANGED srv
          /\ UNCHANGED <<stopping, inst, late, excused, asked, policies, crashes>>
      BY <1>6 DEF SuppressLast, JobInv, JobTyped
    <3>2. {"end", "finish"} \subseteq Pcs /\ "end" \notin Answering /\ "finish" \notin ToStart
      BY DEF Pcs, Answering, ToStart
    <3> QED BY <2>1, <3>1, <3>2, GoesOn
  <2> QED BY <1>6, <2>1 DEF SuppressLast, Suppress
<1>7. CASE RecoverLocks
  <2>1. CASE At("recover") /\ held' = TRUE /\ Goto("resolve")
    BY <1>7, <2>1, GoesOn, HeldWhen DEF Pcs, Answering, ToStart, At, JobInv, JobTyped, JobFits,
       StopIsOwed, RecoverLocks
  <2>2. CASE At("recover") /\ ~Unsettled /\ Goto("finish") /\ UNCHANGED held
    BY <1>7, <2>2, GoesOn, HeldWhen DEF Pcs, Answering, ToStart, At, JobInv, JobTyped, JobFits,
       StopIsOwed, RecoverLocks, Unsettled
  <2> QED BY <1>7, <2>1, <2>2, Zenon DEF RecoverLocks
<1>8. CASE RecoverResolve
  <2>1. CASE At("resolve") /\ Unsettled /\ Goto("reconcile") /\ UNCHANGED held
    BY <1>8, <2>1, GoesOn, HeldWhen DEF Pcs, Answering, ToStart, At, JobInv, JobTyped, JobFits,
       StopIsOwed, RecoverResolve, Unsettled
  <2>2. CASE At("resolve") /\ ~Unsettled /\ Goto("end") /\ UNCHANGED held
    BY <1>8, <2>2, GoesOn, HeldWhen DEF Pcs, Answering, ToStart, At, JobInv, JobTyped, JobFits,
       StopIsOwed, RecoverResolve, Unsettled
  <2>3. CASE At("resolve") /\ Unsettled /\ Goto("deadline") /\ UNCHANGED held
    BY <1>8, <2>3, GoesOn, HeldWhen DEF Pcs, Answering, ToStart, At, JobInv, JobTyped, JobFits,
       StopIsOwed, RecoverResolve, Unsettled
  <2>4. CASE At("resolve") /\ ~Unsettled /\ Goto("finish") /\ held' = FALSE
    BY <1>8, <2>4, GoesOn, HeldWhen DEF Pcs, Answering, ToStart, At, JobInv, JobTyped, JobFits,
       StopIsOwed, RecoverResolve, Unsettled
  <2> QED BY <1>8, <2>1, <2>2, <2>3, <2>4, Zenon DEF RecoverResolve
<1>9. CASE awaitStopDeadline
  <2>1. CASE At("deadline") /\ Goto("finish")
    BY <1>9, <2>1, GoesOn, HeldWhen DEF Pcs, Answering, ToStart, At, JobInv, JobTyped, JobFits,
       awaitStopDeadline
  <2>2. CASE At("lastDeadline") /\ Goto("end")
    BY <1>9, <2>2, GoesOn, HeldWhen DEF Pcs, Answering, ToStart, At, JobInv, JobTyped, JobFits,
       awaitStopDeadline
  <2> QED BY <1>9, <2>1, <2>2 DEF awaitStopDeadline
<1>10. CASE Begin
  <2>1. job' = [job EXCEPT !.status = "running", !.pc = "suppress"] /\ job.status = "queued" /\ job.pc = "none"
    BY <1>10 DEF Begin
  <2>2. /\ job' \in Jobs /\ job'.status = "running" /\ job'.pc = "suppress"
        /\ job'.kind = job.kind /\ job'.stopStarted = job.stopStarted
        /\ job'.settled = job.settled /\ job'.inst = job.inst
    BY <2>1 DEF JobInv, JobTyped, Jobs, Pcs
  <2> QED BY <1>10, <2>1, <2>2 DEF JobInv, JobTyped, StartsCounted, JobFits, StopIsOwed, ToStart,
             Answering, Unsettled, Up, At, Pcs, Begin
<1>11. CASE recordStop
  <2>1. job' = [job EXCEPT !.pc = "dispatch", !.stopStarted = Up, !.inst = inst] /\ At("record")
    BY <1>11 DEF recordStop
  <2>2. /\ job' \in Jobs /\ job'.status = job.status /\ job'.pc = "dispatch"
        /\ job'.settled = job.settled
    <3>1. CASE Up = TRUE
      <4>1. job' = [job EXCEPT !.pc = "dispatch", !.stopStarted = TRUE, !.inst = inst]
        BY <2>1, <3>1
      <4> QED BY <4>1 DEF JobInv, JobTyped, Jobs, Pcs
    <3>2. CASE Up = FALSE
      <4>1. job' = [job EXCEPT !.pc = "dispatch", !.stopStarted = FALSE, !.inst = inst]
        BY <2>1, <3>2, Zenon
      <4> QED BY <4>1 DEF JobInv, JobTyped, Jobs, Pcs
    <3> QED BY <3>1, <3>2 DEF Up
  <2> QED BY <1>11, <2>1, <2>2 DEF JobInv, JobTyped, StartsCounted, JobFits, StopIsOwed, ToStart,
             Answering, Unsettled, Up, At, Pcs, recordStop
<1>12. CASE DispatchStop
  BY <1>12, GotoIs, LifecycleAssumption DEF JobInv, JobTyped, StartsCounted, JobFits, StopIsOwed,
     ToStart, Answering, Unsettled, Up, At, Pcs, NoJob, DispatchStop
<1>13. CASE StopUnheard
  BY <1>13, GotoIs, LifecycleAssumption DEF JobInv, JobTyped, StartsCounted, JobFits, StopIsOwed,
     ToStart, Answering, Unsettled, Up, At, Pcs, NoJob, StopUnheard
<1>14. CASE RecordIntent
  BY <1>14, GotoIs, LifecycleAssumption DEF JobInv, JobTyped, StartsCounted, JobFits, StopIsOwed,
     ToStart, Answering, Unsettled, Up, At, Pcs, NoJob, RecordIntent, SetIntentionalStop
<1>15. CASE VerifyStop
  <2> DEFINE pc == IF job.kind = "restart" THEN "start" ELSE "end"
  <2>1. At("verify") /\ job' = [job EXCEPT !.pc = pc, !.settled = TRUE] /\ pc \in {"start", "end"}
    BY <1>15 DEF VerifyStop
  <2> HIDE DEF pc
  <2>2. /\ job' \in Jobs /\ job'.status = job.status /\ job'.pc \in {"start", "end"}
        /\ job'.stopStarted = job.stopStarted /\ job'.inst = job.inst
    BY <2>1 DEF JobInv, JobTyped, Jobs, Pcs
  <2> QED BY <1>15, <2>1, <2>2 DEF JobInv, JobTyped, StartsCounted, JobFits, StopIsOwed, ToStart,
             Answering, Unsettled, Up, At, Pcs, VerifyStop
<1>16. CASE DispatchStart
  <2>1. /\ job' \in Jobs /\ job'.pc = "started" /\ job'.status = job.status
        /\ job'.stopStarted = job.stopStarted /\ job'.settled = job.settled
        /\ job.status = "running" /\ job.pc = "start"
    BY <1>16, GotoIs DEF DispatchStart, JobInv, JobTyped, Pcs, At
  <2>2. inst' \in 0..(MaxStarts + MaxAsked) /\ inst' <= MaxStarts + asked /\ own' \in BOOLEAN
    <3>1. inst \in Nat /\ asked \in 0..MaxAsked /\ own \in BOOLEAN /\ inst < MaxStarts + asked
      BY <2>1, LifecycleAssumption DEF JobInv, JobTyped, StartsCounted, ToStart
    <3>2. (inst' = inst /\ own' = own) \/ (inst' = inst + 1 /\ own' = FALSE)
      BY <1>16, Zenon DEF DispatchStart, Started
    <3>3. inst' = inst \/ inst' = inst + 1
      BY <3>2
    <3>4. inst' \in 0..(MaxStarts + MaxAsked) /\ inst' <= MaxStarts + asked
      BY <3>1, <3>3, LifecycleAssumption
    <3> QED BY <3>1, <3>2, <3>4
  <2>3. stopping => Up /\ UNCHANGED <<srv, inst>>
    BY <1>16 DEF DispatchStart, JobInv, StopIsOwed
  <2> QED BY <1>16, <2>1, <2>2, <2>3 DEF JobInv, JobTyped, StartsCounted, JobFits, StopIsOwed,
             ToStart, Answering, Unsettled, Up, At, Pcs, DispatchStart
<1>17. CASE Finish
  <2>1. job' = NoJob /\ NoJob \in Jobs /\ job.status = "running" /\ job.pc = "finish"
    BY <1>17, LifecycleAssumption DEF Finish, NoJob, Jobs, Kinds, Pcs, At
  <2>2. job'.status = "none" /\ job'.pc = "none" /\ ~job'.stopStarted /\ ~job'.settled
    BY <2>1 DEF NoJob
  <2>3. held = FALSE
    BY <2>1 DEF JobInv, JobTyped, JobFits
  <2> QED BY <1>17, <2>1, <2>2, <2>3 DEF JobInv, JobTyped, StartsCounted, JobFits, StopIsOwed,
             ToStart, Answering, Unsettled, Up, At, Pcs, Finish
<1>18. CASE Reconcile
  <2>1. At("reconcile") /\ UNCHANGED <<srv, held, stopping, inst, late, excused, asked, policies, crashes>>
        /\ own' \in BOOLEAN
    BY <1>18 DEF Reconcile, JobInv, JobTyped
  <2>2. CASE ~Up /\ job' = [job EXCEPT !.settled = TRUE, !.pc = "end"]
    <3>1. /\ job' \in Jobs /\ job'.status = job.status /\ job'.pc = "end"
      BY <2>2 DEF JobInv, JobTyped, Jobs, Pcs
    <3> QED BY <2>1, <2>2, <3>1 DEF JobInv, JobTyped, StartsCounted, JobFits, StopIsOwed, ToStart,
               Answering, Unsettled, Up, At, Pcs
  <2>3. CASE Up /\ (inst # job.inst \/ late) /\ Goto("end")
    BY <2>1, <2>3, GoesOn, HeldWhen DEF Pcs, Answering, ToStart, At, JobInv, JobTyped, JobFits,
       StopIsOwed
  <2>4. CASE Goto("lastDeadline")
    BY <2>1, <2>4, GoesOn, HeldWhen DEF Pcs, Answering, ToStart, At, JobInv, JobTyped, JobFits,
       StopIsOwed
  <2> QED BY <1>18, <2>2, <2>3, <2>4 DEF Reconcile
<1> QED BY <1>1, <1>2, <1>3, <1>4, <1>5, <1>6, <1>7, <1>8, <1>9, <1>10, <1>11, <1>12, <1>13,
           <1>14, <1>15, <1>16, <1>17, <1>18 DEF Run

LEMMA JobAfterOthers ==
    ASSUME JobInv, [Next]_vars, ~(Run \/ StopUnheard \/ Fails \/ FailsFirst)
    PROVE  JobInv'
<1>1. CASE StopCompletes \/ GameExits
  <2>1. stopping' = FALSE /\ UNCHANGED <<job, held, inst, late, own, excused, asked, policies, crashes>>
    BY <1>1 DEF StopCompletes, GameExits, jobVars, JobInv, JobTyped
  <2> QED BY <2>1 DEF JobInv, JobTyped, StartsCounted, JobFits, StopIsOwed
<1>2. CASE OwnerStarts
  <2>1. inst' = inst + 1 /\ inst < MaxStarts /\ ~stopping /\ own' = FALSE
        /\ UNCHANGED <<job, held, stopping, late, excused, asked, policies, crashes>>
    BY <1>2 DEF OwnerStarts, Started
  <2>2. asked \in Nat /\ inst \in Nat /\ (job.status # "none" => asked > 0)
    BY LifecycleAssumption DEF JobInv, JobTyped, StartsCounted
  <2>3. inst' \in 0..(MaxStarts + MaxAsked) /\ inst' <= MaxStarts + asked
        /\ (job.status # "none" => inst' < MaxStarts + asked)
    BY <2>1, <2>2, LifecycleAssumption DEF JobInv, JobTyped
  <2> QED BY <2>1, <2>2, <2>3 DEF JobInv, JobTyped, StartsCounted, JobFits, StopIsOwed, Unsettled
<1>3. CASE \E kind \in Kinds : Enqueue(kind)
  <2>1. PICK kind \in Kinds : Enqueue(kind)
    BY <1>3
  <2>2. job' = [NoJob EXCEPT !.status = "queued", !.kind = kind] /\ job = NoJob
    BY <2>1 DEF Enqueue, JobInv, JobFits
  <2>3. job' \in Jobs /\ job'.status = "queued" /\ job'.pc = "none" /\ ~job'.stopStarted /\ ~job'.settled
    <3>1. job' = [status |-> "queued", kind |-> kind, pc |-> "none", stopStarted |-> FALSE,
                  settled |-> FALSE, inst |-> 0]
      BY <2>2, Zenon DEF NoJob
    <3> QED BY <3>1, LifecycleAssumption DEF Jobs, Pcs
  <2>4. UNCHANGED <<srv, held, stopping, inst, late, own, excused, policies, crashes>>
        /\ asked' = asked + 1 /\ asked < MaxAsked /\ job.status = "none"
    BY <2>1 DEF Enqueue
  <2>5. JobTyped' /\ StartsCounted'
    BY <2>3, <2>4, LifecycleAssumption DEF JobInv, JobTyped, StartsCounted
  <2>6. JobFits' /\ StopIsOwed'
    BY <2>3, <2>4 DEF JobInv, JobTyped, JobFits, StopIsOwed, Up
  <2> QED BY <2>5, <2>6 DEF JobInv
<1>4. CASE Crash
  <2>1. /\ job' \in Jobs /\ job'.status = job.status /\ job'.stopStarted = job.stopStarted
        /\ job'.settled = job.settled /\ job'.inst = job.inst
        /\ job.status = "running" => job'.pc = "recover"
        /\ job.status # "running" => job' = job
    BY <1>4, GotoIs DEF Crash, Goto, JobInv, JobTyped, Pcs
  <2>2. UNCHANGED <<srv, stopping, inst, late, own, excused, asked, policies>> /\ held' = FALSE
        /\ crashes' \in 0..MaxCrashes
    BY <1>4, LifecycleAssumption DEF Crash, JobInv, JobTyped
  <2>3. job.status \in {"none", "queued", "running"}
    BY DEF JobInv, JobTyped, Jobs
  <2>4. JobTyped' /\ StartsCounted'
    BY <2>1, <2>2 DEF JobInv, JobTyped, StartsCounted, ToStart
  <2>5. JobFits'
    BY <2>1, <2>2, <2>3 DEF JobInv, JobFits, NoJob
  <2>6. StopIsOwed'
    BY <2>1, <2>2, <2>3 DEF JobInv, StopIsOwed, Up, Unsettled, Answering
  <2> QED BY <2>4, <2>5, <2>6 DEF JobInv
<1>5. CASE DeadlinePasses
  BY <1>5 DEF DeadlinePasses, JobInv, JobTyped, StartsCounted, JobFits, StopIsOwed, Up, Unsettled
<1>6. CASE Tick \/ ((SuppressionEnds \/ GraceEnds) /\ UNCHANGED jobVars) \/ UNCHANGED vars
  <2>1. UNCHANGED srv
    BY <1>6, Zenon DEF Tick, Check, Observe, ReadRows, ReadActive, ClearStopped, SaveHealthy,
       SaveOutage, Notify, SuppressionEnds, GraceEnds, vars
  <2>2. UNCHANGED jobVars
    BY <1>6, Zenon DEF Tick, vars
  <2> QED BY <2>1, <2>2 DEF jobVars, JobInv, JobTyped, StartsCounted, JobFits, StopIsOwed, Up,
             Unsettled
<1>7. CASE PolicySaved
  <2>1. UNCHANGED <<srv, job, held, stopping, inst, late, own, excused, asked, crashes>>
        /\ policies' \in 0..MaxPolicies
    BY <1>7, LifecycleAssumption DEF PolicySaved, Configure, JobInv, JobTyped
  <2> QED BY <2>1 DEF JobInv, JobTyped, StartsCounted, JobFits, StopIsOwed, Up, Unsettled
<1> QED BY <1>1, <1>2, <1>3, <1>4, <1>5, <1>6, <1>7, Zenon DEF Next

----------------------------------------------------------------------------
(* What Ludock recorded about its stop, after a step *)

\* A step that leaves the row and the tick alone.
LEMMA OwnFitsIfLeft ==
    ASSUME IInv, UNCHANGED <<avail, check>>,
           own' => own /\ srv' = "down",
           Paused' => Paused, own' /\ ~ToPause' => ~ToPause,
           own' /\ job'.pc = "verify" => job.pc = "verify" /\ job'.kind = job.kind
    PROVE  OwnFits'
BY DEF IInv, OwnFits

\* A step that pauses tracking anew.
LEMMA OwnFitsIfSuppressed ==
    ASSUME IInv, Suppress, UNCHANGED <<srv, own>>, job'.pc # "verify"
    PROVE  OwnFits'
<1>1. check' = check
  BY DEF Suppress
<1>2. /\ avail' # None /\ avail'.sup # check.sup
      /\ check.row # None => avail'.sup # check.row.sup
      /\ avail # None => avail'.stopped = avail.stopped
  BY SuppressIs DEF IInv, TypeOK
<1>3. check.pc \in {"rows", "decided"} => check.row # None
  BY DEF IInv, TickFits
<1> QED BY <1>1, <1>2, <1>3 DEF IInv, OwnFits

\* A step that records what was meant of a stop.
LEMMA OwnFitsIfIntended ==
    ASSUME IInv, NEW stopped \in BOOLEAN, SetIntentionalStop(stopped), srv' = srv,
           own' => stopped /\ srv = "down" /\ ToPause',
           Paused' => Paused,
           own' /\ job'.pc = "verify" => job'.kind = "stop"
    PROVE  OwnFits'
<1>1. check' = check
  BY DEF SetIntentionalStop
<1>2. /\ avail' # None /\ (avail'.stopped <=> stopped)
      /\ avail # None => avail'.sup = avail.sup
  BY IntentIs DEF IInv, TypeOK
<1> QED BY <1>1, <1>2 DEF IInv, OwnFits

LEMMA OwnFitsAfterRun ==
    ASSUME IInv, JobInv', Run \/ StopUnheard \/ Fails \/ FailsFirst
    PROVE  OwnFits'
<1>1. job \in Jobs /\ srv \in {"up", "down"}
  BY DEF IInv, TypeOK, MonitorTypeOK
<1>2. ASSUME NEW pc \in Pcs, Goto(pc)
      PROVE  job'.pc = pc /\ job'.status = job.status /\ job'.kind = job.kind
  BY <1>1, <1>2, GotoIs
<1>3. CASE SuppressFirst \/ SuppressLast
  <2>1. job'.pc \in {"start", "save", "finish"} /\ Suppress /\ UNCHANGED <<srv, own>>
    BY <1>2, <1>3 DEF SuppressFirst, SuppressLast, Pcs
  <2> QED BY <2>1, OwnFitsIfSuppressed
<1>4. CASE \/ saveWorld \/ recordStop \/ DispatchStop \/ StopUnheard \/ Fails \/ FailsFirst
           \/ RecoverLocks \/ RecoverResolve \/ awaitStopDeadline
  <2>1. UNCHANGED <<avail, check, srv, own>> /\ job.status = "running"
    BY <1>4, Zenon DEF saveWorld, recordStop, DispatchStop, StopUnheard, Fails, FailsFirst,
       RecoverLocks, RecoverResolve, awaitStopDeadline, monitorVars, At
  <2>2. job'.status = job.status /\ job'.kind = job.kind
    BY <1>1, <1>2, <1>4 DEF saveWorld, recordStop, DispatchStop, StopUnheard, Fails, FailsFirst,
       RecoverLocks, RecoverResolve, awaitStopDeadline, Pcs, Jobs
  <2>3. job'.pc # "verify" /\ (job.pc = "suppress" => job'.pc = "finish")
        /\ (job.pc \in {"verify", "end"} => job'.pc = "end")
        /\ job.pc \notin {"none", "finish"}
    BY <1>1, <1>2, <1>4 DEF saveWorld, recordStop, DispatchStop, StopUnheard, Fails, FailsFirst,
       RecoverLocks, RecoverResolve, awaitStopDeadline, At, Pcs, Jobs
  <2>4. Paused' => Paused
    BY <2>1, <2>2, <2>3 DEF Paused
  <2>5. ~ToPause' => ~ToPause
    BY <2>1, <2>2, <2>3 DEF ToPause
  <2>6. own => srv = "down"
    BY DEF IInv, OwnFits
  <2> QED BY <2>1, <2>3, <2>4, <2>5, <2>6, OwnFitsIfLeft
<1>5. CASE RecordIntent
  <2>1. At("await") /\ SetIntentionalStop(job.kind = "stop") /\ srv' = srv
        /\ job'.pc = "verify" /\ job'.status = job.status /\ job'.kind = job.kind
    BY <1>2, <1>5 DEF RecordIntent, Pcs
  <2>2. own' => job.kind = "stop" /\ srv = "down"
    BY <1>1, <1>5 DEF RecordIntent, Up
  <2>3. (job.kind = "stop") \in BOOLEAN
    OBVIOUS
  <2>4. Paused /\ ToPause'
    BY <2>1 DEF Paused, ToPause, At
  <2> QED BY <2>1, <2>2, <2>3, <2>4, OwnFitsIfIntended
<1>6. CASE VerifyStop
  <2>1. job'.pc = (IF job.kind = "restart" THEN "start" ELSE "end") /\ job'.status = job.status
        /\ At("verify") /\ UNCHANGED <<avail, check, srv, own>>
    BY <1>1, <1>6 DEF VerifyStop, Jobs, monitorVars
  <2>2. own => job.kind = "stop" /\ srv = "down"
    BY <2>1 DEF IInv, OwnFits, At
  <2>3. Paused /\ (own => ToPause') /\ job'.pc # "verify"
    BY <2>1, <2>2 DEF Paused, ToPause, At
  <2> QED BY <2>1, <2>2, <2>3, OwnFitsIfLeft
<1>7. CASE DispatchStart
  <2>1. job'.pc = "started" /\ job'.status = job.status /\ At("start") /\ UNCHANGED <<avail, check>>
        /\ (own' => own /\ srv' = srv)
    BY <1>2, <1>7 DEF DispatchStart, Started, Pcs, monitorVars
  <2>2. own => srv = "down"
    BY DEF IInv, OwnFits
  <2>3. Paused /\ ~ToPause
    BY <2>1 DEF Paused, ToPause, At
  <2> QED BY <2>1, <2>2, <2>3, OwnFitsIfLeft
<1>8. CASE ClearIntent
  <2>1. job'.pc = "end" /\ At("started") /\ SetIntentionalStop(FALSE) /\ srv' = srv /\ own' = FALSE
    BY <1>2, <1>8 DEF ClearIntent, Pcs
  <2>2. Paused
    BY <2>1 DEF Paused, At
  <2> QED BY <2>1, <2>2, OwnFitsIfIntended
<1>9. CASE Finish
  <2>1. job'.status = "none" /\ job'.pc = "none" /\ job.pc = "finish" /\ UNCHANGED <<avail, check, srv, own>>
    BY <1>9 DEF Finish, NoJob, At, monitorVars
  <2>2. ~Paused' /\ ~ToPause
    BY <2>1 DEF Paused, ToPause
  <2>3. own => srv = "down"
    BY DEF IInv, OwnFits
  <2> QED BY <2>1, <2>2, <2>3, OwnFitsIfLeft
<1>10. CASE Reconcile
  <2>1. At("reconcile") /\ srv' = srv
    BY <1>10 DEF Reconcile
  <2>2. Paused /\ ~ToPause
    BY <2>1 DEF Paused, ToPause, At
  <2>3. CASE /\ ~Up /\ SetIntentionalStop(job.kind = "stop") /\ own' = (job.kind = "stop")
             /\ job' = [job EXCEPT !.settled = TRUE, !.pc = "end"]
    <3>1. job'.pc = "end" /\ job'.status = "running" /\ (job.kind = "stop") \in BOOLEAN
      BY <1>1, <2>1, <2>3 DEF At, Jobs
    <3>2. srv = "down" /\ ToPause'
      BY <1>1, <2>3, <3>1 DEF Up, ToPause
    <3> QED BY <2>1, <2>2, <2>3, <3>1, <3>2, OwnFitsIfIntended
  <2>4. CASE SetIntentionalStop(FALSE) /\ own' = FALSE /\ Goto("end")
    <3>1. job'.pc = "end"
      BY <1>2, <2>4 DEF Pcs
    <3> QED BY <2>1, <2>2, <2>4, <3>1, OwnFitsIfIntended
  <2>5. CASE (Goto("end") \/ Goto("lastDeadline")) /\ UNCHANGED <<monitorVars, own>>
    <3>1. job'.pc # "verify" /\ UNCHANGED <<avail, check, own>>
      BY <1>2, <2>5 DEF Pcs, monitorVars
    <3>2. own => srv = "down"
      BY DEF IInv, OwnFits
    <3> QED BY <2>1, <2>2, <3>1, <3>2, OwnFitsIfLeft
  <2> QED BY <1>10, <2>3, <2>4, <2>5, Zenon DEF Reconcile
<1>11. CASE Begin
  <2>1. job'.pc = "suppress" /\ job.pc = "none" /\ UNCHANGED <<avail, check, srv, own>>
    BY <1>1, <1>11 DEF Begin, Jobs, monitorVars
  <2>2. ~Paused' /\ ~ToPause
    BY <2>1 DEF Paused, ToPause
  <2>3. own => srv = "down"
    BY DEF IInv, OwnFits
  <2> QED BY <2>1, <2>2, <2>3, OwnFitsIfLeft
<1> QED BY <1>3, <1>4, <1>5, <1>6, <1>7, <1>8, <1>9, <1>10, <1>11, Zenon DEF Run

\* A step of the tick: only the row it read may be changed, and that one does
\* not say that Ludock stopped the server.
LEMMA OwnFitsAfterTick ==
    ASSUME IInv, TickMoves, UNCHANGED jobVars, UNCHANGED srv
    PROVE  OwnFits'
<1>1. UNCHANGED <<job, own>>
  BY DEF jobVars
<1>2. MonitorTypeOK /\ TickFits /\ ToldFits /\ OwnFits
  BY DEF IInv, TypeOK
<1>3. Paused' = Paused /\ ToPause' = ToPause
  BY <1>1 DEF Paused, ToPause
<1>4. ASSUME check.pc = "decided", avail = check.row, check.saw # "down" \/ ~check.row.stopped
      PROVE  ~own /\ ~Paused
  <2>1. ~Paused
    BY <1>2, <1>4 DEF OwnFits
  <2>2. ~own
    BY <1>2, <1>4, <2>1 DEF OwnFits, ToPause, Paused
  <2> QED BY <2>1, <2>2
<1>5. CASE Observe
  <2>1. check'.pc = "seen" /\ avail' = avail /\ (srv = "down" => check'.saw = "down")
    BY <1>2, <1>5, ObserveIs
  <2> QED BY <1>1, <1>2, <1>3, <2>1 DEF OwnFits
<1>6. CASE ReadRows
  BY <1>1, <1>2, <1>3, <1>6, ReadRowsIs DEF OwnFits
<1>7. CASE ReadActive(Busy)
  <2>1. Busy \in BOOLEAN
    BY DEF Busy
  <2>2. ~Busy => ~Paused
    BY DEF Busy, Paused
  <2>3. /\ UNCHANGED avail /\ check.pc = "rows"
        /\ \/ check'.pc = "idle"
           \/ ~Busy /\ check'.pc = "decided" /\ check'.row = check.row /\ check'.saw = check.saw
    BY <1>2, <1>7, <2>1, ReadActiveIs
  <2> QED BY <1>1, <1>2, <1>3, <2>2, <2>3 DEF OwnFits
<1>8. CASE ClearStopped
  <2>1. /\ check.pc = "decided" /\ check.saw # "down"
        /\ \/ avail # check.row /\ avail' = avail /\ check'.pc = "idle"
           \/ avail = check.row /\ avail' # None
    BY <1>2, <1>8, ClearStoppedIs
  <2>2. CASE avail = check.row
    <3>1. ~own /\ ~Paused
      BY <1>4, <2>1, <2>2
    <3> QED BY <1>1, <1>3, <3>1 DEF OwnFits
  <2>3. CASE avail # check.row
    BY <1>1, <1>2, <1>3, <2>1, <2>3 DEF OwnFits
  <2> QED BY <2>2, <2>3
<1>9. CASE SaveHealthy \/ SaveOutage
  <2>1. /\ check.pc = "decided" /\ check'.pc \in {"idle", "alert", "recovery"}
        /\ avail' = avail \/ (avail = check.row /\ ~check.row.stopped)
    BY <1>2, <1>9, SaveHealthyIs, SaveOutageIs
  <2>2. CASE avail' = avail
    BY <1>1, <1>2, <1>3, <2>1, <2>2 DEF OwnFits
  <2>3. CASE avail = check.row /\ ~check.row.stopped
    <3>1. ~own /\ ~Paused
      BY <1>4, <2>1, <2>3
    <3> QED BY <1>1, <1>3, <2>1, <3>1 DEF OwnFits
  <2> QED BY <2>1, <2>2, <2>3
<1>10. CASE Notify
  <2>1. avail' = avail /\ check'.pc = "idle"
    BY <1>2, <1>10, NotifyIs
  <2> QED BY <1>1, <1>2, <1>3, <2>1 DEF OwnFits
<1> QED BY <1>5, <1>6, <1>7, <1>8, <1>9, <1>10 DEF TickMoves

LEMMA OwnFitsAfterOthers ==
    ASSUME IInv, JobInv', [Next]_vars, ~(Run \/ StopUnheard \/ Fails \/ FailsFirst)
    PROVE  OwnFits'
<1>1. own => srv = "down"
  BY DEF IInv, OwnFits
<1>2. CASE StopCompletes \/ GameExits \/ OwnerStarts \/ DeadlinePasses
  <2>1. UNCHANGED <<avail, check, job>> /\ (own' => own /\ srv' = "down")
    BY <1>1, <1>2 DEF StopCompletes, GameExits, OwnerStarts, Started, DeadlinePasses,
       monitorVars, jobVars
  <2>2. Paused' = Paused /\ ToPause' = ToPause
    BY <2>1 DEF Paused, ToPause
  <2> QED BY <2>1, <2>2, OwnFitsIfLeft
<1>3. CASE \E kind \in Kinds : Enqueue(kind)
  <2>1. UNCHANGED <<avail, check, own, srv>> /\ job.pc = "none" /\ job'.pc = "none"
    BY <1>3 DEF Enqueue, NoJob, monitorVars
  <2>2. ~Paused' /\ ~ToPause
    BY <2>1 DEF Paused, ToPause
  <2> QED BY <1>1, <2>1, <2>2, OwnFitsIfLeft
<1>4. CASE Crash
  <2>1. UNCHANGED <<avail, own, srv>> /\ check' = NoCheck
    BY <1>4 DEF Crash, MonitorCrash
  <2>2. job'.pc = "verify" => job' = job
    BY <1>4 DEF Crash, IInv, TypeOK, Jobs
  <2> QED BY <1>1, <2>1, <2>2, NoCheckIs DEF IInv, OwnFits
<1>5. CASE Tick
  <2>1. TickMoves /\ UNCHANGED jobVars
    BY <1>5, Zenon DEF Tick, Check, TickMoves
  <2>2. UNCHANGED srv
    BY <1>5, Zenon DEF Tick, Check, Observe, ReadRows, ReadActive, ClearStopped, SaveHealthy,
       SaveOutage, Notify
  <2> QED BY <2>1, <2>2, OwnFitsAfterTick
<1>6. CASE PolicySaved
  <2>0. Configure /\ UNCHANGED <<job, own>>
    BY <1>6, Zenon DEF PolicySaved
  <2>1. UNCHANGED <<check, srv, job, own>>
    BY <2>0 DEF Configure
  <2>2. Paused' = Paused /\ ToPause' = ToPause
    BY <2>1 DEF Paused, ToPause
  <2>3. avail' # None /\ (avail # None => avail'.sup = avail.sup /\ avail'.stopped = avail.stopped)
    BY <2>0, ConfigureIs DEF IInv, TypeOK
  <2> QED BY <2>1, <2>2, <2>3 DEF IInv, OwnFits
<1>7. CASE ((SuppressionEnds \/ GraceEnds) /\ UNCHANGED jobVars) \/ UNCHANGED vars
  <2>1. UNCHANGED <<avail, check, srv, job, own>>
    BY <1>7 DEF SuppressionEnds, GraceEnds, vars, monitorVars, jobVars
  <2>2. Paused' = Paused /\ ToPause' = ToPause
    BY <2>1 DEF Paused, ToPause
  <2> QED BY <1>1, <2>1, <2>2, OwnFitsIfLeft
<1> QED BY <1>2, <1>3, <1>4, <1>5, <1>6, <1>7, Zenon DEF Next

----------------------------------------------------------------------------
(* The invariant *)

LEMMA InitFits == Init => IInv
<1> SUFFICES ASSUME Init PROVE IInv
  OBVIOUS
<1>1. check = NoCheck /\ job = NoJob /\ ~own /\ ~stopping /\ held = FALSE /\ inst = 0 /\ asked = 0
      /\ (avail = None \/ avail = Row(TRUE))
  BY DEF Init, MonitorInit
<1>2. Row(TRUE) \in Rows /\ Row(TRUE).outage = 0 /\ ~Row(TRUE).notified
  BY DEF Row, Rows
<1>3. check.pc = "idle" /\ check.row = None /\ check \in Checks
  BY <1>1, NoCheckIs
<1>4. job.status = "none" /\ job.pc = "none" /\ ~job.stopStarted /\ ~job.settled
  BY <1>1 DEF NoJob
<1>5. job \in Jobs
  BY <1>1, LifecycleAssumption DEF NoJob, Jobs, Kinds, Pcs
<1>6. TypeOK
  <2>1. told \in [Stamps -> {"nothing", "outage", "recovered", "again"}] /\ lost \subseteq Stamps
    BY DEF Init, MonitorInit
  <2>2. lasts \in BOOLEAN /\ due \in BOOLEAN /\ srv \in {"up", "down"}
    BY DEF Init, MonitorInit
  <2>3. MonitorTypeOK
    BY <1>1, <1>2, <1>3, <2>1, <2>2 DEF MonitorTypeOK
  <2>4. late \in BOOLEAN /\ excused \in BOOLEAN /\ own \in BOOLEAN /\ held \in BOOLEAN
        /\ stopping \in BOOLEAN
    BY DEF Init
  <2>5. /\ inst \in 0..(MaxStarts + MaxAsked) /\ asked \in 0..MaxAsked
        /\ policies \in 0..MaxPolicies /\ crashes \in 0..MaxCrashes
    BY LifecycleAssumption DEF Init
  <2> QED BY <1>5, <2>3, <2>4, <2>5 DEF TypeOK
<1>7. StartsCounted /\ JobFits /\ StopIsOwed
  BY <1>1, <1>4, LifecycleAssumption DEF StartsCounted, JobFits, StopIsOwed
<1>8. TickFits /\ ToldFits
  BY <1>1, <1>2, <1>3, MonitorAssumption DEF TickFits, ToldFits, Fits
<1>9. OwnFits
  BY <1>1, <1>3, <1>4 DEF OwnFits, Paused
<1> QED BY <1>6, <1>7, <1>8, <1>9 DEF IInv

LEMMA StepFits == IInv /\ [Next]_vars => IInv'
<1> SUFFICES ASSUME IInv, [Next]_vars PROVE IInv'
  OBVIOUS
<1>1. MonitorFits /\ JobInv /\ OwnFits
  BY DEF IInv, TypeOK, MonitorFits, JobInv, JobTyped
<1>2. MonitorFits'
  BY <1>1, MonitorMoves, ServerMoves, MonitorFitsAfterOthers, MonitorFitsAfterTick
<1>3. JobInv'
  BY <1>1, JobAfterRun, JobAfterOthers
<1>4. OwnFits'
  BY <1>3, OwnFitsAfterRun, OwnFitsAfterOthers
<1> QED BY <1>2, <1>3, <1>4 DEF IInv, TypeOK, MonitorFits, JobInv, JobTyped

\* The locks of a stop are kept (see StopKeepsLocks), for any number of
\* operations, policies, crashes and starts.
THEOREM LocksOfStopsAreKept == Spec => []StopKeepsLocks
<1>1. IInv => StopKeepsLocks
  BY DEF IInv, StopIsOwed, JobFits, StopKeepsLocks, Answering, At
<1> QED BY <1>1, InitFits, StepFits, PTL DEF Spec

----------------------------------------------------------------------------
(* What is told *)

\* Only the tick notifies a row, which does not say that Ludock stopped the
\* server.
LEMMA QuietStep ==
    ASSUME IInv, [Next]_vars, avail' # None, avail'.notified, avail = None \/ ~avail.notified
    PROVE  ~own
<1>1. MonitorTypeOK /\ TickFits /\ ToldFits /\ OwnFits
  BY DEF IInv, TypeOK
<1>2. ~OthersWrite
  <2>1. avail' # avail
    OBVIOUS
  <2>2. ~MonitorIsLeft /\ ~MonitorCrash /\ ~SuppressionEnds /\ ~GraceEnds
    BY <2>1 DEF MonitorIsLeft, MonitorCrash, SuppressionEnds, GraceEnds
  <2>3. ~Suppress /\ ~Configure
    BY <1>1, SuppressIs, ConfigureIs
  <2>4. ~SetIntentionalStop(TRUE) /\ ~SetIntentionalStop(FALSE)
    BY <1>1, IntentIs
  <2> QED BY <2>2, <2>3, <2>4, Zenon DEF OthersWrite
<1>3. avail = check.row /\ ~check.row.stopped /\ avail # None
  <2>1. ~Observe /\ ~ReadRows /\ ~ReadActive(Busy) /\ ~Notify
    <3>1. avail' # avail
      OBVIOUS
    <3> QED BY <3>1, Zenon DEF Observe, ReadRows, ReadActive, Notify
  <2>2. ~ClearStopped /\ ~SaveHealthy
    <3>1. ~ClearStopped
      BY <1>1, ClearStoppedIs, RowReadIs
    <3>2. ~SaveHealthy
      BY <1>1, SaveHealthyIs
    <3> QED BY <3>1, <3>2
  <2>3. SaveOutage
    BY <1>2, <2>1, <2>2, MonitorMoves DEF TickMoves
  <2>4. check.row # None
    BY <1>1, <2>3, RowReadIs DEF SaveOutage
  <2> QED BY <1>1, <2>3, <2>4, SaveOutageIs
<1> QED BY <1>1, <1>3 DEF OwnFits

\* An outage is told by the tick that saved it, and its recovery by the one
\* that ended it.
LEMMA ToldStep ==
    ASSUME IInv, [Next]_vars, NEW k \in Stamps, told'[k] # told[k]
    PROVE  \/ told'[k] = "nothing"
           \/ told'[k] = "outage" /\ told[k] = "nothing"
           \/ told'[k] = "recovered" /\ (told[k] = "outage" \/ k \in lost)
<1>1. MonitorTypeOK /\ TickFits /\ ToldFits
  BY DEF IInv, TypeOK
<1>2. ~OthersWrite
  <2>1. told' # told
    OBVIOUS
  <2> QED BY <2>1, Zenon DEF OthersWrite, MonitorIsLeft, Suppress, SetIntentionalStop, Configure,
             MonitorCrash, SuppressionEnds, GraceEnds
<1>3. ~ReadRows /\ ~ReadActive(Busy) /\ ~ClearStopped /\ ~SaveHealthy
  BY DEF ReadRows, ReadActive, ClearStopped, SaveHealthy
<1>4. Observe \/ SaveOutage \/ Notify
  BY <1>2, <1>3, MonitorMoves DEF TickMoves
<1>5. CASE Observe
  BY <1>1, <1>5, ObserveIs
<1>6. CASE SaveOutage
  BY <1>1, <1>6, SaveOutageIs DEF MonitorTypeOK
<1>7. CASE Notify
  <2>1. check.pc = "alert" => told[check.row.outage] = "nothing"
    BY <1>1 DEF ToldFits
  <2>2. check.pc = "recovery" => told[check.row.outage] = "outage" \/ check.row.outage \in lost
    BY <1>1 DEF ToldFits
  <2> QED BY <1>1, <1>7, <2>1, <2>2, NotifyIs DEF MonitorTypeOK
<1> QED BY <1>4, <1>5, <1>6, <1>7

\* Who is told of an outage is told the truth, and in order (see
\* AlertsAreRight), for any number of operations, policies, crashes and starts.
THEOREM AlertsAreRightHolds == Spec => AlertsAreRight
<1> DEFINE Quiet == avail' # None /\ avail'.notified /\ (avail = None \/ ~avail.notified) => ~own
           InOrder == \A k \in Stamps : told'[k] # told[k] =>
                        \/ told'[k] = "nothing"
                        \/ told'[k] = "outage" /\ told[k] = "nothing"
                        \/ told'[k] = "recovered" /\ (told[k] = "outage" \/ k \in lost)
<1>1. IInv /\ [Next]_vars => [Quiet]_vars
  BY QuietStep
<1>2. IInv /\ [Next]_vars => [InOrder]_vars
  BY ToldStep
<1>3. Spec => []IInv
  BY InitFits, StepFits, PTL DEF Spec
<1> QED BY <1>1, <1>2, <1>3, PTL DEF Spec, AlertsAreRight, OwnStopIsQuiet, ToldInOrder


-----------------------------------------------------------------------------
(* Files.  Only the request that has the server's locks moves, so its      *)
(* steps need to be looked at alone (LockedStep); a command goes on when   *)
(* its request does not hear from it any more, but the request keeps the   *)
(* locks until the helper is removed (CmdOwned), and a crash fences them.  *)

USE FilesAssumption

\* The records of commands, helpers and requests.
CmdStates == {"none", "open", "read", "compared", "linked", "done", "failed"}
CmdInputs == {"open", "ended", "trailer"}
HelperRecords == [live : BOOLEAN, gen : Nat, elsewhere : BOOLEAN, cmd : Cmds]
ReqStates == {"idle", "take", "reuse", "discard", "acquire", "prove", "create", "prepare", "exec",
              "created", "wait", "finish", "remove", "end"}
UsingSteps == {"reuse", "discard", "prepare", "exec", "created", "wait", "finish", "remove"}

\* A command that may still change files.
CmdChanging(h) == CmdRunning(h) /\ CmdOp(h) \in FileChanges

\* The folder: what a command does to it, it does whole and in time.
DirFits ==
    /\ folder \in [Names -> Nat] /\ staged \subseteq Req /\ part = {} /\ stamp \in Nat
    /\ ~replaced /\ ~trespass

\* The types of the rest.
FileTyped ==
    /\ game \in Nat /\ linked \in BOOLEAN /\ helpers \in [Helper -> HelperRecords]
    /\ pool \in Helper \cup {Nothing} /\ timer \in [Helper -> {"off", "armed", "fired"}]
    /\ file \in [Req -> Reqs] /\ holder \in Req \cup {Nothing} /\ fence \in BOOLEAN
    /\ allowed \subseteq Req

\* One request has the locks; while startup fences them none has, and no helper is kept.
LocksFit ==
    /\ \A r \in Req : file[r].pc # "idle" <=> holder = r
    /\ ~fence => holder = Nothing /\ pool = Nothing

\* A request has a helper at the steps that use one; its server has had its generation.
AskFits(r) ==
    LET q == file[r] IN
    /\ q.helper # Nothing <=> q.pc \in UsingSteps
    /\ q.want <= game
    /\ q.op \in FileChanges => q.name \in Names /\ (q.op = "rename" => q.to \in Names)
    /\ q.lost => r \notin allowed

\* The helper of a request: no timer runs on it; from its proof on it is the right one; and a
\* command of a request that failed may still be running.
UsesFit(r) ==
    LET q == file[r] k == helpers[q.helper] IN
    /\ q.pc \in UsingSteps \ {"discard"} => timer[q.helper] = "off"
    /\ q.pc \in {"reuse", "prepare", "exec", "created", "wait", "finish"} => k.live
    /\ q.pc \in {"reuse", "exec", "created", "wait", "finish"} => ~k.elsewhere
    /\ q.pc = "prepare" => q.want <= k.gen /\ k.gen <= game
    /\ q.pc \in {"exec", "created", "wait"} => k.gen = q.want
    /\ q.pc = "wait" => k.cmd.of = r /\ k.cmd.op = q.op
    /\ q.pc \in {"reuse", "discard", "prepare", "exec", "created"} => ~CmdChanging(q.helper)
    /\ q.pc \in {"finish", "remove"} /\ CmdChanging(q.helper) => ~q.ok

\* The helper that is kept: no request has it, no command changes files in it, and a timer
\* that may still fire is its own.
KeptFits ==
    /\ pool # Nothing => /\ helpers[pool].live /\ ~helpers[pool].elsewhere /\ ~CmdChanging(pool)
                         /\ timer[pool] # "off" /\ \A r \in Req : file[r].helper # pool
    /\ \A h \in Helper : timer[h] = "armed" => pool = h

\* A command that changes files: its request still has the locks and this helper, or startup
\* fences the locks; it has its access, for an upload at the latest when it gets the trailer.
CmdOwned(h) == LET r == CmdOf(h) IN
    holder = r /\ file[r].helper = h /\ file[r].pc \in {"wait", "finish", "remove"}
ChangeFits(h) ==
    CmdChanging(h) =>
        /\ CmdOf(h) \in Req /\ file[CmdOf(h)].op = CmdOp(h)
        /\ CmdOwned(h) \/ ~fence
        /\ CmdOp(h) # "upload" \/ WholeInput(h) => ~file[CmdOf(h)].lost
        /\ CmdOp(h) = "upload" /\ helpers[h].cmd.at = "compared" => WholeInput(h)

\* The invariant.
FilesFit ==
    /\ FileTyped /\ LocksFit /\ KeptFits
    /\ \A r \in Req : AskFits(r) /\ (file[r].pc \in UsingSteps => UsesFit(r))
    /\ \A h \in Helper : ChangeFits(h)
FilesInv == DirFits /\ FilesFit

-----------------------------------------------------------------------------
\* What the records hold.
LEMMA ReqRecordIs ==
    ASSUME NEW q \in Reqs
    PROVE  /\ q.pc \in ReqStates /\ q.op \in FileOps /\ q.name \in Names \cup {Nothing}
           /\ q.to \in Names \cup {Nothing} /\ q.want \in Nat
           /\ q.helper \in Helper \cup {Nothing} /\ q.ok \in BOOLEAN /\ q.lost \in BOOLEAN
  BY DEF Reqs, ReqStates

LEMMA HelperRecordIs ==
    ASSUME NEW k \in HelperRecords
    PROVE  /\ k.live \in BOOLEAN /\ k.gen \in Nat /\ k.elsewhere \in BOOLEAN /\ k.cmd \in Cmds
           /\ k.cmd.of \in Req \cup {Nothing} /\ k.cmd.op \in FileOps /\ k.cmd.at \in CmdStates
           /\ k.cmd.input \in CmdInputs /\ k.cmd.orig \in Nat
  BY DEF HelperRecords, Cmds, CmdStates, CmdInputs

\* The one request that holds the locks.
LEMMA LockHolderIs ==
    ASSUME FilesFit, NEW r \in Req, file[r].pc # "idle"
    PROVE  /\ holder = r /\ fence /\ \A s \in Req : s # r => file[s].pc = "idle"
           /\ \A h \in Helper : CmdChanging(h) =>
                 /\ CmdOf(h) = r /\ CmdOp(h) = file[r].op /\ file[r].helper = h
                 /\ file[r].pc \in {"wait", "finish", "remove"}
  <1>1. holder = r /\ fence
    BY DEF FilesFit, LocksFit, FileTyped
  <1>2. \A s \in Req : s # r => file[s].pc = "idle"
    BY <1>1 DEF FilesFit, LocksFit
  <1>3. \A h \in Helper : CmdChanging(h) =>
            /\ CmdOf(h) = r /\ CmdOp(h) = file[r].op /\ file[r].helper = h
            /\ file[r].pc \in {"wait", "finish", "remove"}
    <2> SUFFICES ASSUME NEW h \in Helper, CmdChanging(h)
                 PROVE  /\ CmdOf(h) = r /\ CmdOp(h) = file[r].op /\ file[r].helper = h
                        /\ file[r].pc \in {"wait", "finish", "remove"}
      OBVIOUS
    <2>1. CmdOwned(h) /\ file[CmdOf(h)].op = CmdOp(h)
      BY <1>1 DEF FilesFit, ChangeFits
    <2> QED
      BY <1>1, <2>1 DEF CmdOwned
  <1> QED
    BY <1>1, <1>2, <1>3

\* Nobody holds the locks: nothing is changed behind them.
LEMMA NoHolderIs ==
    ASSUME FilesFit, holder = Nothing
    PROVE  /\ \A r \in Req : file[r].pc = "idle" /\ file[r].helper = Nothing
           /\ fence => \A h \in Helper : ~CmdChanging(h)
  <1>1. \A r \in Req : file[r].pc = "idle"
    BY DEF FilesFit, LocksFit
  <1>2. \A r \in Req : file[r].helper = Nothing
    BY <1>1 DEF FilesFit, AskFits, UsingSteps
  <1>3. ASSUME fence, NEW h \in Helper, CmdChanging(h) PROVE FALSE
    <2>1. CmdOwned(h) /\ CmdOf(h) \in Req
      BY <1>3 DEF FilesFit, ChangeFits
    <2> QED
      BY <2>1 DEF CmdOwned
  <1> QED
    BY <1>1, <1>2, <1>3

-----------------------------------------------------------------------------
\* What changes in a request's record.
SameRequest(r) ==
    /\ file' \in [Req -> Reqs] /\ \A s \in Req : s # r => file'[s] = file[s]
    /\ file'[r].op = file[r].op /\ file'[r].name = file[r].name /\ file'[r].to = file[r].to
    /\ file'[r].want = file[r].want /\ file'[r].lost = file[r].lost

\* A step of the request that holds the locks.
LockedStep(r) ==
    /\ UNCHANGED <<game, holder, fence, allowed>> /\ linked' \in BOOLEAN
    /\ SameRequest(r) /\ file[r].pc # "idle" /\ file'[r].pc # "idle"
    /\ file'[r].helper # Nothing <=> file'[r].pc \in UsingSteps
    /\ helpers' \in [Helper -> HelperRecords] /\ pool' \in Helper \cup {Nothing}
    /\ timer' \in [Helper -> {"off", "armed", "fired"}]

\* Such a step keeps what it does not say itself.
LEMMA LockedKeeps ==
    ASSUME FilesFit, NEW r \in Req, LockedStep(r), KeptFits',
           file'[r].pc \in UsingSteps => UsesFit(r)',
           \A h \in Helper : ChangeFits(h)'
    PROVE  FilesFit'
  <1>1. FileTyped'
    BY DEF FilesFit, FileTyped, LockedStep, SameRequest
  <1>2. holder = r /\ fence /\ \A s \in Req : s # r => file[s].pc = "idle"
    BY LockHolderIs DEF LockedStep, SameRequest
  <1>3. LocksFit'
    BY <1>2 DEF FilesFit, LocksFit, LockedStep, SameRequest
  <1>4. \A s \in Req : AskFits(s)'
    BY DEF FilesFit, AskFits, LockedStep, SameRequest
  <1>5. \A s \in Req : file'[s].pc \in UsingSteps => UsesFit(s)'
    BY <1>2 DEF LockedStep, UsingSteps, SameRequest
  <1> QED
    BY <1>1, <1>3, <1>4, <1>5 DEF FilesFit

\* The commands that change files are those there were.
LEMMA ChangesStay ==
    ASSUME FilesFit, NEW r \in Req, LockedStep(r), UNCHANGED helpers,
           \A h \in Helper : CmdChanging(h) =>
               file'[r].helper = h /\ file'[r].pc \in {"wait", "finish", "remove"}
    PROVE  \A h \in Helper : ChangeFits(h)'
  <1> SUFFICES ASSUME NEW h \in Helper, CmdChanging(h)
               PROVE  ChangeFits(h)'
    BY DEF ChangeFits, CmdChanging, CmdRunning, CmdOp
  <1>1. holder = r /\ CmdOf(h) = r
    BY LockHolderIs DEF LockedStep, SameRequest
  <1>2. CmdOwned(h)'
    BY <1>1 DEF CmdOwned, CmdOf, LockedStep, SameRequest
  <1>3. file'[r].op = file[r].op /\ file'[r].lost = file[r].lost
    BY DEF LockedStep, SameRequest
  <1>4. ChangeFits(h)
    BY DEF FilesFit
  <1> QED
    BY <1>1, <1>2, <1>3, <1>4 DEF ChangeFits, CmdOf, CmdOp, WholeInput

\* The helper that is kept is not the request's.
LEMMA PoolStays ==
    ASSUME FilesFit, NEW r \in Req, LockedStep(r), UNCHANGED <<helpers, pool, timer>>,
           file'[r].helper \in {file[r].helper, Nothing}
    PROVE  KeptFits'
  <1>1. KeptFits
    BY DEF FilesFit
  <1>2. \A s \in Req : file'[s].helper \in {file[s].helper, Nothing}
    BY DEF LockedStep, SameRequest
  <1> QED
    BY <1>1, <1>2 DEF KeptFits, CmdChanging, CmdRunning, CmdOp

LEMMA ReqGotoIs ==
    ASSUME FileTyped, NEW r \in Req, NEW x \in ReqStates, ReqGoto(r, x)
    PROVE  /\ SameRequest(r) /\ file'[r].pc = x /\ file'[r].helper = file[r].helper
           /\ file'[r].ok = file[r].ok
  BY DEF FileTyped, ReqGoto, Reqs, ReqStates, SameRequest

\* An updated record in its place.
LEMMA PlacedIs ==
    ASSUME FileTyped, NEW r \in Req, NEW q \in Reqs, file' = [file EXCEPT ![r] = q],
           q.op = file[r].op, q.name = file[r].name, q.to = file[r].to,
           q.want = file[r].want, q.lost = file[r].lost
    PROVE  SameRequest(r) /\ file'[r] = q
  BY DEF FileTyped, SameRequest

LEMMA ReqEndsIs ==
    ASSUME FileTyped, NEW r \in Req, NEW b \in BOOLEAN, ReqEnds(r, b)
    PROVE  /\ SameRequest(r) /\ file'[r].pc = "finish" /\ file'[r].helper = file[r].helper
           /\ file'[r].ok = b
  <1> DEFINE q == [file[r] EXCEPT !.pc = "finish", !.ok = b]
  <1>1. file[r] \in Reqs
    BY DEF FileTyped
  <1>2. file' = [file EXCEPT ![r] = q]
    BY DEF FileTyped, ReqEnds
  <1>3. /\ q \in Reqs /\ q.pc = "finish" /\ q.helper = file[r].helper /\ q.ok = b
        /\ q.op = file[r].op /\ q.name = file[r].name /\ q.to = file[r].to
        /\ q.want = file[r].want /\ q.lost = file[r].lost
    <2>1. CASE b = TRUE
      <3>1. q = [file[r] EXCEPT !.pc = "finish", !.ok = TRUE]
        BY <2>1
      <3> QED
        BY <1>1, <2>1, <3>1 DEF Reqs
    <2>2. CASE b = FALSE
      <3>1. q = [file[r] EXCEPT !.pc = "finish", !.ok = FALSE]
        BY <2>2
      <3> QED
        BY <1>1, <2>2, <3>1 DEF Reqs
    <2> QED
      BY <2>1, <2>2
  <1> HIDE DEF q
  <1> QED
    BY <1>2, <1>3, PlacedIs

ReqTurns(r, x, h) == file' = [file EXCEPT ![r].pc = x, ![r].helper = h]

LEMMA TurnsIs ==
    ASSUME FileTyped, NEW r \in Req, NEW x \in ReqStates, NEW h \in Helper \cup {Nothing},
           ReqTurns(r, x, h)
    PROVE  /\ SameRequest(r) /\ file'[r].pc = x /\ file'[r].helper = h
           /\ file'[r].ok = file[r].ok
  <1> DEFINE q == [file[r] EXCEPT !.pc = x, !.helper = h]
  <1>1. file[r] \in Reqs
    BY DEF FileTyped
  <1>2. file' = [file EXCEPT ![r] = q]
    BY DEF FileTyped, ReqTurns
  <1>3. /\ q \in Reqs /\ q.pc = x /\ q.helper = h /\ q.ok = file[r].ok
        /\ q.op = file[r].op /\ q.name = file[r].name /\ q.to = file[r].to
        /\ q.want = file[r].want /\ q.lost = file[r].lost
    BY <1>1 DEF Reqs, ReqStates
  <1> HIDE DEF q
  <1> QED
    BY <1>2, <1>3, PlacedIs

\* A step that changes no more than the record of the request.
LEMMA RequestKeeps ==
    ASSUME FilesFit, NEW r \in Req, file[r].pc # "idle", file'[r].pc # "idle", SameRequest(r),
           UNCHANGED <<game, linked, helpers, pool, timer, holder, fence, allowed>>,
           file'[r].helper \in {file[r].helper, Nothing},
           file'[r].helper # Nothing <=> file'[r].pc \in UsingSteps,
           file[r].pc \in {"wait", "finish", "remove"} =>
               file'[r].helper = file[r].helper /\ file'[r].pc \in {"wait", "finish", "remove"},
           file'[r].pc \in UsingSteps => UsesFit(r)'
    PROVE  FilesFit'
  <1>1. FileTyped
    BY DEF FilesFit
  <1>2. LockedStep(r)
    BY <1>1 DEF LockedStep, SameRequest, FileTyped
  <1>3. KeptFits'
    BY <1>2, PoolStays
  <1>4. \A h \in Helper : CmdChanging(h) =>
               file'[r].helper = h /\ file'[r].pc \in {"wait", "finish", "remove"}
    BY LockHolderIs
  <1>5. \A h \in Helper : ChangeFits(h)'
    BY <1>2, <1>4, ChangesStay
  <1> QED
    BY <1>2, <1>3, <1>5, LockedKeeps

-----------------------------------------------------------------------------
\* The steps of a request that change its record only.
LEMMA ReuseKeeps ==
    ASSUME FilesFit, NEW r \in Req, ReuseLister(r)
    PROVE  FilesFit'
  <1>a. PICK h : h = file[r].helper
    OBVIOUS
  <1> DEFINE x == IF Reusable(r) THEN "exec" ELSE "discard"
  <1>1. /\ file[r].pc = "reuse" /\ ReqGoto(r, x) /\ x \in ReqStates
        /\ UNCHANGED <<game, linked, helpers, pool, timer, holder, fence, allowed>>
    BY DEF ReuseLister, ReqAt, hostVars, poolVars, ReqStates
  <1>2. FileTyped /\ AskFits(r) /\ UsesFit(r)
    BY <1>1 DEF FilesFit, UsingSteps
  <1>3. /\ SameRequest(r) /\ file'[r].pc = x /\ file'[r].helper = file[r].helper
        /\ file'[r].ok = file[r].ok
    BY <1>a, <1>1, <1>2, ReqGotoIs
  <1>4. file'[r].helper # Nothing /\ x \in {"exec", "discard"}
    BY <1>a, <1>1, <1>2, <1>3 DEF AskFits, UsingSteps
  <1>5. x = "exec" => helpers[h].gen = file[r].want
    BY <1>a DEF Reusable
  <1>6. ~CmdChanging(h) /\ helpers[h].live /\ ~helpers[h].elsewhere /\ timer[h] = "off"
    BY <1>a, <1>1, <1>2 DEF UsesFit, UsingSteps
  <1> HIDE DEF x
  <1>7. UsesFit(r)'
    BY <1>a, <1>1, <1>3, <1>4, <1>5, <1>6 DEF UsesFit, SameRequest, CmdChanging, CmdRunning, CmdOp
  <1> QED
    BY <1>a, <1>1, <1>3, <1>4, <1>7, RequestKeeps DEF UsingSteps

LEMMA AcquireKeeps ==
    ASSUME FilesFit, NEW r \in Req, Acquire(r) \/ MountProof(r)
    PROVE  FilesFit'
  <1>1. PICK x \in {"prove", "end", "create"} :
             /\ file[r].pc \in {"acquire", "prove"} /\ ReqGoto(r, x) /\ x \in ReqStates
             /\ UNCHANGED <<game, linked, helpers, pool, timer, holder, fence, allowed>>
    BY DEF Acquire, MountProof, ReqAt, hostVars, poolVars, ReqStates
  <1>2. FileTyped /\ AskFits(r)
    BY <1>1 DEF FilesFit
  <1>3. SameRequest(r) /\ file'[r].pc = x /\ file'[r].helper = file[r].helper
    BY <1>1, <1>2, ReqGotoIs
  <1>4. file'[r].helper = Nothing
    BY <1>1, <1>2, <1>3 DEF AskFits, UsingSteps
  <1> QED
    BY <1>1, <1>3, <1>4, RequestKeeps DEF UsingSteps

LEMMA PrepareKeeps ==
    ASSUME FilesFit, NEW r \in Req, Prepare(r)
    PROVE  FilesFit'
  <1>a. PICK h : h = file[r].helper
    OBVIOUS
  <1>1. /\ file[r].pc = "prepare"
        /\ UNCHANGED <<game, linked, helpers, pool, timer, holder, fence, allowed>>
    BY DEF Prepare, ReqAt, hostVars, poolVars
  <1>2. FileTyped /\ AskFits(r) /\ UsesFit(r)
    BY <1>1 DEF FilesFit, UsingSteps
  <1>3. h \in Helper /\ helpers[h] \in HelperRecords /\ file[r] \in Reqs
    BY <1>a, <1>1, <1>2, ReqRecordIs DEF AskFits, UsingSteps, FileTyped
  <1>4. /\ ~CmdChanging(h) /\ helpers[h].live /\ timer[h] = "off"
        /\ file[r].want <= helpers[h].gen /\ helpers[h].gen <= game
    BY <1>a, <1>1, <1>2 DEF UsesFit, CmdChanging, CmdRunning, CmdOp, UsingSteps
  <1>5. CASE AssertMountIdentities(r) /\ GameUnchanged(r)
    <2>1. ReqGoto(r, "exec") /\ "exec" \in ReqStates
      BY <1>5 DEF Prepare, ReqStates
    <2>2. SameRequest(r) /\ file'[r].pc = "exec" /\ file'[r].helper = h
      BY <1>a, <1>2, <2>1, ReqGotoIs
    <2>3. helpers[h].gen = file[r].want /\ ~helpers[h].elsewhere
      <3>1. helpers[h].gen \in Nat /\ file[r].want \in Nat /\ game = file[r].want
        BY <1>3, <1>5, HelperRecordIs, ReqRecordIs DEF GameUnchanged
      <3> QED
        BY <1>a, <1>4, <1>5, <3>1 DEF AssertMountIdentities
    <2>4. UsesFit(r)'
      BY <1>a, <1>1, <1>4, <2>2, <2>3 DEF UsesFit, SameRequest, CmdChanging, CmdRunning, CmdOp
    <2> QED
      BY <1>a, <1>1, <1>3, <2>2, <2>4, RequestKeeps DEF UsingSteps
  <1>6. CASE ~(AssertMountIdentities(r) /\ GameUnchanged(r))
    <2>1. file' = [file EXCEPT ![r].pc = "remove", ![r].ok = TRUE]
      BY <1>6 DEF Prepare
    <2>2. SameRequest(r) /\ file'[r].pc = "remove" /\ file'[r].helper = h
      <3> DEFINE q == [file[r] EXCEPT !.pc = "remove", !.ok = TRUE]
      <3>1. file' = [file EXCEPT ![r] = q]
        BY <1>2, <2>1 DEF FileTyped
      <3>2. /\ q \in Reqs /\ q.pc = "remove" /\ q.helper = file[r].helper
            /\ q.op = file[r].op /\ q.name = file[r].name /\ q.to = file[r].to
            /\ q.want = file[r].want /\ q.lost = file[r].lost
        BY <1>3 DEF Reqs
      <3> HIDE DEF q
      <3> QED
        BY <1>a, <1>2, <3>1, <3>2, PlacedIs
    <2>3. UsesFit(r)'
      BY <1>a, <1>1, <1>4, <2>2 DEF UsesFit, CmdChanging, CmdRunning, CmdOp
    <2> QED
      BY <1>a, <1>1, <1>3, <2>2, <2>3, RequestKeeps DEF UsingSteps
  <1> QED
    BY <1>5, <1>6

LEMMA CreateExecKeeps ==
    ASSUME FilesFit, NEW r \in Req, CreateExec(r)
    PROVE  FilesFit'
  <1>a. PICK h : h = file[r].helper
    OBVIOUS
  <1>1. /\ file[r].pc = "exec" /\ (ReqGoto(r, "created") \/ ReqEnds(r, FALSE))
        /\ UNCHANGED <<game, linked, helpers, pool, timer, holder, fence, allowed>>
    BY DEF CreateExec, ReqAt, hostVars, poolVars
  <1>2. FileTyped /\ AskFits(r) /\ UsesFit(r) /\ "created" \in ReqStates
    BY <1>1 DEF FilesFit, UsingSteps, ReqStates
  <1>3. h # Nothing
    BY <1>a, <1>1, <1>2 DEF AskFits, UsingSteps
  <1>4. /\ SameRequest(r) /\ file'[r].pc \in {"created", "finish"} /\ file'[r].helper = h
    BY <1>a, <1>1, <1>2, ReqGotoIs, ReqEndsIs
  <1>5. /\ ~CmdChanging(h) /\ helpers[h].live /\ timer[h] = "off"
        /\ helpers[h].gen = file[r].want /\ ~helpers[h].elsewhere
    BY <1>a, <1>1, <1>2 DEF UsesFit, CmdChanging, CmdRunning, CmdOp, UsingSteps
  <1>6. UsesFit(r)'
    BY <1>a, <1>1, <1>4, <1>5 DEF UsesFit, SameRequest, CmdChanging, CmdRunning, CmdOp
  <1> QED
    BY <1>a, <1>1, <1>3, <1>4, <1>6, RequestKeeps DEF UsingSteps

LEMMA ExecEndsKeeps ==
    ASSUME FilesFit, NEW r \in Req, ExecEnds(r)
    PROVE  FilesFit'
  <1>a. PICK h : h = file[r].helper
    OBVIOUS
  <1> DEFINE b == Cmd(r).at = "done"
  <1>1. /\ file[r].pc = "wait" /\ ReqEnds(r, b) /\ helpers[h].cmd.at \in {"done", "failed"}
        /\ UNCHANGED <<game, linked, helpers, pool, timer, holder, fence, allowed>>
    BY <1>a DEF ExecEnds, ReqAt, hostVars, poolVars, Cmd
  <1>2. FileTyped /\ AskFits(r) /\ UsesFit(r)
    BY <1>1 DEF FilesFit, UsingSteps
  <1>3. h # Nothing
    BY <1>a, <1>1, <1>2 DEF AskFits, UsingSteps
  <1>4. SameRequest(r) /\ file'[r].pc = "finish" /\ file'[r].helper = h
    <2> HIDE DEF b
    <2>1. b \in BOOLEAN
      BY DEF b
    <2> QED
      BY <1>a, <1>1, <1>2, <2>1, ReqEndsIs
  <1>5. /\ ~CmdChanging(h) /\ helpers[h].live /\ timer[h] = "off" /\ ~helpers[h].elsewhere
    BY <1>a, <1>1, <1>2 DEF UsesFit, CmdChanging, CmdRunning, UsingSteps
  <1>6. UsesFit(r)'
    BY <1>a, <1>1, <1>4, <1>5 DEF UsesFit, SameRequest, CmdChanging, CmdRunning, CmdOp
  <1> QED
    BY <1>a, <1>1, <1>3, <1>4, <1>6, RequestKeeps DEF UsingSteps

LEMMA FinishKeeps ==
    ASSUME FilesFit, NEW r \in Req, FinishUpload(r) \/ FinishOther(r)
    PROVE  FilesFit'
  <1>a. PICK h : h = file[r].helper
    OBVIOUS
  <1>1. /\ file[r].pc = "finish" /\ ReqGoto(r, "remove") /\ "remove" \in ReqStates
        /\ UNCHANGED <<game, linked, helpers, pool, timer, holder, fence, allowed>>
    BY DEF FinishUpload, FinishOther, ReqAt, hostVars, poolVars, ReqStates
  <1>2. FileTyped /\ AskFits(r) /\ UsesFit(r)
    BY <1>1 DEF FilesFit, UsingSteps
  <1>3. h # Nothing
    BY <1>a, <1>1, <1>2 DEF AskFits, UsingSteps
  <1>4. /\ SameRequest(r) /\ file'[r].pc = "remove" /\ file'[r].helper = h
        /\ file'[r].ok = file[r].ok
    BY <1>a, <1>1, <1>2, ReqGotoIs
  <1>5. (CmdChanging(h) => ~file[r].ok) /\ timer[h] = "off"
    BY <1>a, <1>1, <1>2 DEF UsesFit, CmdChanging, CmdRunning, CmdOp, UsingSteps
  <1>6. UsesFit(r)'
    BY <1>a, <1>1, <1>4, <1>5 DEF UsesFit, CmdChanging, CmdRunning, CmdOp
  <1> QED
    BY <1>a, <1>1, <1>3, <1>4, <1>6, RequestKeeps DEF UsingSteps

-----------------------------------------------------------------------------
\* A helper is removed.
LEMMA HelperRemovedIs ==
    ASSUME FileTyped, NEW h \in Helper, HelperRemoved(h)
    PROVE  /\ helpers' \in [Helper -> HelperRecords] /\ ~CmdChanging(h)'
           /\ \A k \in Helper : k # h => helpers'[k] = helpers[k]
  <1>1. NoHelper \in HelperRecords
    BY DEF NoHelper, NoCmd, HelperRecords, Cmds, FileOps, FileChanges
  <1>2. helpers' = [helpers EXCEPT ![h] = NoHelper]
    BY DEF HelperRemoved
  <1>3. helpers' \in [Helper -> HelperRecords] /\ helpers'[h] = NoHelper
    BY <1>1, <1>2 DEF FileTyped
  <1>4. \A k \in Helper : k # h => helpers'[k] = helpers[k]
    BY <1>2 DEF FileTyped
  <1> QED
    BY <1>3, <1>4 DEF CmdChanging, CmdRunning, NoHelper

\* A helper is removed, or not.
LEMMA CleanupIs ==
    ASSUME FileTyped, NEW h \in Helper, NEW b \in BOOLEAN, CleanupHelper(h, b)
    PROVE  /\ helpers' \in [Helper -> HelperRecords]
           /\ \A k \in Helper : k # h => helpers'[k] = helpers[k]
           /\ CmdChanging(h)' => ~b /\ CmdChanging(h) /\ helpers'[h] = helpers[h]
  <1>2. CASE HelperRemoved(h)
    BY <1>2, HelperRemovedIs
  <1>3. CASE ~b /\ UNCHANGED helpers
    BY <1>3 DEF FileTyped, CmdChanging, CmdRunning, CmdOp
  <1> QED
    BY <1>2, <1>3 DEF CleanupHelper

\* The pool and the removal of another helper.
LEMMA PoolKept ==
    ASSUME FilesFit, NEW h, h # pool, \A k \in Helper : k # h => helpers'[k] = helpers[k],
           UNCHANGED <<pool, timer>>,
           \A s \in Req : file'[s].helper \in {file[s].helper, Nothing, h}
    PROVE  KeptFits'
  <1>1. KeptFits /\ pool \in Helper \cup {Nothing}
    BY DEF FilesFit, FileTyped
  <1>2. pool # Nothing => helpers'[pool] = helpers[pool] /\ \A s \in Req : file'[s].helper # pool
    BY <1>1 DEF KeptFits
  <1> QED
    BY <1>1, <1>2 DEF KeptFits, CmdChanging, CmdRunning, CmdOp

\* The steps of a request that remove its helper, take one or give it back.
LEMMA DiscardKeeps ==
    ASSUME FilesFit, NEW r \in Req, Discard(r)
    PROVE  FilesFit'
  <1>a. PICK h : h = file[r].helper
    OBVIOUS
  <1>1. /\ file[r].pc = "discard" /\ CleanupHelper(h, FALSE)
        /\ ReqTurns(r, "acquire", Nothing)
        /\ UNCHANGED <<game, linked, pool, timer, holder, fence, allowed>>
    BY <1>a DEF Discard, ReqTurns, ReqAt, hostVars, poolVars
  <1>2. FileTyped /\ AskFits(r) /\ "acquire" \in ReqStates
    BY <1>1 DEF FilesFit, UsingSteps, ReqStates
  <1>3. h \in Helper /\ h # Nothing
    BY <1>a, <1>1, <1>2, ReqRecordIs DEF AskFits, UsingSteps, FileTyped
  <1>4. SameRequest(r) /\ file'[r].pc = "acquire" /\ file'[r].helper = Nothing
    BY <1>1, <1>2, TurnsIs
  <1>5. /\ helpers' \in [Helper -> HelperRecords] /\ (CmdChanging(h)' => CmdChanging(h))
        /\ \A k \in Helper : k # h => helpers'[k] = helpers[k]
    BY <1>1, <1>2, <1>3, CleanupIs
  <1>6. LockedStep(r)
    BY <1>1, <1>2, <1>4, <1>5 DEF LockedStep, SameRequest, UsingSteps, FileTyped
  <1>7. h # pool
    BY <1>a, <1>3 DEF FilesFit, KeptFits
  <1>8. \A s \in Req : file'[s].helper \in {file[s].helper, Nothing, h}
    BY <1>4 DEF SameRequest
  <1>9. KeptFits'
    BY <1>1, <1>5, <1>7, <1>8, PoolKept
  <1>10. \A k \in Helper : ~CmdChanging(k)
    BY <1>1, LockHolderIs
  <1>11. \A k \in Helper : ~CmdChanging(k)'
    BY <1>5, <1>10 DEF CmdChanging, CmdRunning, CmdOp
  <1> QED
    BY <1>4, <1>6, <1>9, <1>11, LockedKeeps DEF UsingSteps, ChangeFits

LEMMA RemoveKeeps ==
    ASSUME FilesFit, NEW r \in Req, RemoveHelper(r)
    PROVE  FilesFit'
  <1>a. PICK h, b : h = file[r].helper /\ b = Retries(r)
    OBVIOUS
  <1>1. /\ file[r].pc = "remove" /\ CleanupHelper(h, b)
        /\ ReqTurns(r, "end", Nothing)
        /\ UNCHANGED <<game, linked, pool, timer, holder, fence, allowed>>
    BY <1>a DEF RemoveHelper, ReqTurns, ReqAt, hostVars, poolVars
  <1>2. FileTyped /\ AskFits(r) /\ UsesFit(r) /\ "end" \in ReqStates /\ b \in BOOLEAN
    BY <1>a, <1>1 DEF FilesFit, UsingSteps, ReqStates, Retries
  <1>3. h \in Helper /\ h # Nothing
    BY <1>a, <1>1, <1>2, ReqRecordIs DEF AskFits, UsingSteps, FileTyped
  <1>4. SameRequest(r) /\ file'[r].pc = "end" /\ file'[r].helper = Nothing
    BY <1>1, <1>2, TurnsIs
  <1>5. /\ helpers' \in [Helper -> HelperRecords] /\ (CmdChanging(h)' => ~b /\ CmdChanging(h))
        /\ \A k \in Helper : k # h => helpers'[k] = helpers[k]
    BY <1>1, <1>2, <1>3, CleanupIs
  <1>6. LockedStep(r)
    BY <1>1, <1>2, <1>4, <1>5 DEF LockedStep, SameRequest, UsingSteps, FileTyped
  <1>7. h # pool
    BY <1>a, <1>3 DEF FilesFit, KeptFits
  <1>8. \A s \in Req : file'[s].helper \in {file[s].helper, Nothing, h}
    BY <1>4 DEF SameRequest
  <1>9. KeptFits'
    BY <1>1, <1>5, <1>7, <1>8, PoolKept
  <1>10. \A k \in Helper : CmdChanging(k) => k = h /\ CmdOp(h) = file[r].op
    BY <1>a, <1>1, LockHolderIs
  <1>11. CmdChanging(h) => b
    <2>1. CmdChanging(h) => ~file[r].ok
      BY <1>a, <1>1, <1>2 DEF UsesFit
    <2> QED
      BY <1>a, <1>3, <1>10, <2>1 DEF Retries, CmdChanging
  <1>12. \A k \in Helper : ~CmdChanging(k)'
    <2>1. \A k \in Helper : k # h => ~CmdChanging(k)'
      BY <1>5, <1>10 DEF CmdChanging, CmdRunning, CmdOp
    <2> QED
      BY <1>5, <1>11, <2>1
  <1> QED
    BY <1>4, <1>6, <1>9, <1>12, LockedKeeps DEF UsingSteps, ChangeFits

LEMMA AcquireListerKeeps ==
    ASSUME FilesFit, NEW r \in Req, AcquireLister(r)
    PROVE  FilesFit'
  <1>1. /\ file[r].pc = "take" /\ pool' = Nothing
        /\ UNCHANGED <<game, linked, helpers, holder, fence, allowed>>
    BY DEF AcquireLister, ReqAt, hostVars
  <1>2. FileTyped /\ AskFits(r) /\ KeptFits
    BY DEF FilesFit
  <1>3. \A k \in Helper : ~CmdChanging(k)
    BY <1>1, LockHolderIs
  <1>4. \A k \in Helper : ~CmdChanging(k)'
    BY <1>1, <1>3 DEF CmdChanging, CmdRunning, CmdOp
  <1>5. CASE pool = Nothing
    <2>1. ReqGoto(r, "acquire") /\ UNCHANGED timer /\ "acquire" \in ReqStates
      BY <1>5 DEF AcquireLister, ReqStates
    <2>2. SameRequest(r) /\ file'[r].pc = "acquire" /\ file'[r].helper = file[r].helper
      BY <1>2, <2>1, ReqGotoIs
    <2>3. file[r].helper = Nothing
      BY <1>1, <1>2 DEF AskFits, UsingSteps
    <2> QED
      BY <1>1, <1>5, <2>1, <2>2, <2>3, RequestKeeps DEF UsingSteps
  <1>6. CASE pool # Nothing
    <2>a. PICK h : h = pool
      OBVIOUS
    <2> DEFINE x == IF timer[h] = "armed" THEN "reuse" ELSE "discard"
    <2>1. /\ ReqTurns(r, x, h) /\ x \in ReqStates
          /\ timer' = [timer EXCEPT ![h] = IF @ = "armed" THEN "off" ELSE @]
      BY <1>6, <2>a DEF AcquireLister, ReqStates, ReqTurns
    <2>2. /\ h \in Helper /\ helpers[h].live /\ ~helpers[h].elsewhere /\ ~CmdChanging(h)'
          /\ x \in {"reuse", "discard"}
      BY <1>2, <1>4, <1>6, <2>a DEF KeptFits, FileTyped
    <2>3. /\ timer' \in [Helper -> {"off", "armed", "fired"}]
          /\ x = "reuse" => timer'[h] = "off"
          /\ \A k \in Helper : timer'[k] # "armed"
      BY <1>2, <2>a, <2>1, <2>2 DEF FileTyped, KeptFits
    <2> HIDE DEF x
    <2>4. SameRequest(r) /\ file'[r].pc = x /\ file'[r].helper = h
      BY <1>2, <2>1, <2>2, TurnsIs
    <2>5. LockedStep(r)
      BY <1>1, <1>2, <1>6, <2>a, <2>2, <2>3, <2>4 DEF LockedStep, SameRequest, UsingSteps,
         FileTyped
    <2>6. KeptFits'
      BY <1>1, <2>3 DEF KeptFits
    <2>7. UsesFit(r)'
      BY <1>1, <2>2, <2>3, <2>4 DEF UsesFit, UsingSteps, CmdChanging, CmdRunning, CmdOp
    <2> QED
      BY <1>4, <2>5, <2>6, <2>7, LockedKeeps DEF ChangeFits
  <1> QED
    BY <1>5, <1>6

LEMMA CreateKeeps ==
    ASSUME FilesFit, NEW r \in Req, CreateHelper(r)
    PROVE  FilesFit'
  <1>1. PICK h \in Helper :
            /\ ~helpers[h].live /\ timer[h] = "off" /\ ReqTurns(r, "prepare", h)
            /\ helpers' = [helpers EXCEPT ![h] = [NoHelper EXCEPT !.live = TRUE, !.gen = game,
                                                                  !.elsewhere = linked]]
    BY DEF CreateHelper, ReqTurns
  <1>2. file[r].pc = "create" /\ UNCHANGED <<game, linked, pool, timer, holder, fence, allowed>>
    BY DEF CreateHelper, ReqAt, hostVars, poolVars
  <1>3. FileTyped /\ AskFits(r) /\ KeptFits /\ "prepare" \in ReqStates
    BY DEF FilesFit, ReqStates
  <1>4. SameRequest(r) /\ file'[r].pc = "prepare" /\ file'[r].helper = h
    BY <1>1, <1>3, TurnsIs
  <1> DEFINE k == [NoHelper EXCEPT !.live = TRUE, !.gen = game, !.elsewhere = linked]
  <1>5. helpers' = [helpers EXCEPT ![h] = k]
    BY <1>1
  <1>6. NoHelper \in HelperRecords /\ NoHelper.cmd.at = "none" /\ game \in Nat
    BY <1>3 DEF NoHelper, NoCmd, HelperRecords, Cmds, FileOps, FileChanges, FileTyped
  <1>7. k \in HelperRecords /\ k.live /\ k.gen = game /\ k.cmd = NoHelper.cmd
    <2>1. CASE linked = TRUE
      <3>1. k = [NoHelper EXCEPT !.live = TRUE, !.gen = game, !.elsewhere = TRUE]
        BY <2>1
      <3> QED
        BY <1>6, <3>1 DEF HelperRecords
    <2>2. CASE linked = FALSE
      <3>1. k = [NoHelper EXCEPT !.live = TRUE, !.gen = game, !.elsewhere = FALSE]
        BY <2>2
      <3> QED
        BY <1>6, <3>1 DEF HelperRecords
    <2> QED
      BY <1>3, <2>1, <2>2 DEF FileTyped
  <1> HIDE DEF k
  <1>8. /\ helpers' \in [Helper -> HelperRecords] /\ helpers'[h] = k
        /\ \A j \in Helper : j # h => helpers'[j] = helpers[j]
    BY <1>3, <1>5, <1>7 DEF FileTyped
  <1>9. ~CmdChanging(h)'
    BY <1>6, <1>7, <1>8 DEF CmdChanging, CmdRunning
  <1>10. h # pool /\ h # Nothing
    BY <1>1, <1>3 DEF KeptFits
  <1>11. LockedStep(r)
    BY <1>2, <1>3, <1>4, <1>8, <1>10 DEF LockedStep, SameRequest, UsingSteps, FileTyped
  <1>12. \A s \in Req : file'[s].helper \in {file[s].helper, Nothing, h}
    BY <1>4 DEF SameRequest
  <1>13. KeptFits'
    BY <1>2, <1>8, <1>10, <1>12, PoolKept
  <1>14. \A j \in Helper : ~CmdChanging(j)
    BY <1>2, LockHolderIs
  <1>15. \A j \in Helper : ~CmdChanging(j)'
    BY <1>8, <1>9, <1>14 DEF CmdChanging, CmdRunning, CmdOp
  <1>16. UsesFit(r)'
    <2>1. file[r].want <= game /\ game \in Nat
      BY <1>3 DEF AskFits, FileTyped
    <2> QED
      BY <1>1, <1>2, <1>4, <1>7, <1>8, <1>9, <2>1 DEF UsesFit, UsingSteps, SameRequest,
         CmdChanging, CmdRunning, CmdOp
  <1> QED
    BY <1>11, <1>13, <1>15, <1>16, LockedKeeps DEF ChangeFits

\* A command of the request's own begins or is told that its input ended.
Commanded(r, h, c) ==
    /\ helpers' \in [Helper -> HelperRecords]
    /\ \A k \in Helper : k # h => helpers'[k] = helpers[k]
    /\ helpers'[h].live = helpers[h].live /\ helpers'[h].gen = helpers[h].gen
    /\ helpers'[h].elsewhere = helpers[h].elsewhere /\ helpers'[h].cmd = c

LEMMA CommandedIs ==
    ASSUME FileTyped, NEW r, NEW h \in Helper, NEW c \in Cmds,
           helpers' = [helpers EXCEPT ![h].cmd = c]
    PROVE  Commanded(r, h, c)
  <1> DEFINE k == [helpers[h] EXCEPT !.cmd = c]
  <1>1. helpers[h] \in HelperRecords
    BY DEF FileTyped
  <1>2. /\ k \in HelperRecords /\ k.live = helpers[h].live /\ k.gen = helpers[h].gen
        /\ k.elsewhere = helpers[h].elsewhere /\ k.cmd = c
    BY <1>1 DEF HelperRecords
  <1>3. helpers' = [helpers EXCEPT ![h] = k]
    BY DEF FileTyped
  <1> HIDE DEF k
  <1> QED
    BY <1>2, <1>3 DEF FileTyped, Commanded

LEMMA StartExecKeeps ==
    ASSUME FilesFit, NEW r \in Req, StartExec(r)
    PROVE  FilesFit'
  <1>a. PICK h : h = file[r].helper
    OBVIOUS
  <1>1. file[r].pc = "created" /\ UNCHANGED <<game, linked, pool, timer, holder, fence, allowed>>
    BY DEF StartExec, ReqAt, hostVars, poolVars
  <1>2. FileTyped /\ AskFits(r) /\ UsesFit(r) /\ KeptFits /\ "wait" \in ReqStates
    BY <1>1 DEF FilesFit, UsingSteps, ReqStates
  <1>3. h \in Helper /\ h # Nothing /\ file[r].op \in FileOps
    BY <1>a, <1>1, <1>2, ReqRecordIs DEF AskFits, UsingSteps, FileTyped
  <1>4. /\ ~CmdChanging(h) /\ helpers[h].live /\ timer[h] = "off"
        /\ helpers[h].gen = file[r].want /\ ~helpers[h].elsewhere
    BY <1>a, <1>1, <1>2 DEF UsesFit, UsingSteps
  <1>5. CASE r \notin allowed
    <2>1. ReqEnds(r, FALSE) /\ UNCHANGED helpers
      BY <1>5 DEF StartExec
    <2>2. SameRequest(r) /\ file'[r].pc = "finish" /\ file'[r].helper = h
      BY <1>a, <1>2, <2>1, ReqEndsIs
    <2>3. UsesFit(r)'
      BY <1>a, <1>1, <1>4, <2>1, <2>2 DEF UsesFit, SameRequest, CmdChanging, CmdRunning, CmdOp
    <2> QED
      BY <1>a, <1>1, <1>3, <2>1, <2>2, <2>3, RequestKeeps DEF UsingSteps
  <1>6. CASE r \in allowed
    <2> DEFINE c == [NoCmd EXCEPT !.of = r, !.op = file[r].op, !.at = "open"]
    <2>1. ReqGoto(r, "wait") /\ helpers' = [helpers EXCEPT ![h].cmd = c]
      BY <1>a, <1>6 DEF StartExec
    <2>2. NoCmd \in Cmds
      BY DEF NoCmd, Cmds, FileOps, FileChanges
    <2>3. c \in Cmds /\ c.of = r /\ c.op = file[r].op /\ c.at = "open"
      BY <1>3, <2>2 DEF Cmds
    <2> HIDE DEF c
    <2>4. Commanded(r, h, c)
      BY <1>2, <1>3, <2>1, <2>3, CommandedIs
    <2>5. SameRequest(r) /\ file'[r].pc = "wait" /\ file'[r].helper = h
      BY <1>a, <1>2, <2>1, ReqGotoIs
    <2>6. LockedStep(r)
      BY <1>1, <1>2, <1>3, <2>4, <2>5 DEF LockedStep, SameRequest, UsingSteps, FileTyped,
         Commanded
    <2>7. KeptFits'
      <3>1. h # pool
        BY <1>a, <1>3, <1>2 DEF KeptFits
      <3>2. \A s \in Req : file'[s].helper \in {file[s].helper, Nothing, h}
        BY <2>5 DEF SameRequest
      <3> QED
        BY <1>1, <2>4, <3>1, <3>2, PoolKept DEF Commanded
    <2>8. UsesFit(r)'
      <3>1. /\ helpers'[h].live /\ ~helpers'[h].elsewhere /\ helpers'[h].gen = file'[r].want
            /\ timer'[h] = "off"
        BY <1>1, <1>4, <2>4, <2>5 DEF SameRequest, Commanded
      <3>2. helpers'[h].cmd.of = r /\ helpers'[h].cmd.op = file'[r].op
        BY <2>3, <2>4, <2>5 DEF SameRequest, Commanded
      <3> QED
        BY <2>5, <3>1, <3>2 DEF UsesFit
    <2>9. ChangeFits(h)'
      <3>1. CmdOwned(h)' /\ CmdOf(h)' = r
        BY <1>1, <2>3, <2>4, <2>5, LockHolderIs DEF CmdOwned, CmdOf, Commanded
      <3>2. ~file'[r].lost /\ file'[r].op = CmdOp(h)'
        BY <1>2, <1>6, <2>3, <2>4, <2>5 DEF AskFits, SameRequest, CmdOp, Commanded
      <3>3. helpers'[h].cmd.at = "open"
        BY <2>3, <2>4 DEF Commanded
      <3> QED
        BY <3>1, <3>2, <3>3 DEF ChangeFits
    <2>10. \A k \in Helper : k # h => ~CmdChanging(k)'
      <3>1. \A k \in Helper : ~CmdChanging(k)
        BY <1>1, LockHolderIs
      <3> QED
        BY <2>4, <3>1 DEF CmdChanging, CmdRunning, CmdOp, Commanded
    <2> QED
      BY <2>6, <2>7, <2>8, <2>9, <2>10, LockedKeeps DEF ChangeFits
  <1> QED
    BY <1>5, <1>6

LEMMA ConnectionLostKeeps ==
    ASSUME FilesFit, NEW r \in Req, ConnectionLost(r)
    PROVE  FilesFit'
  <1>a. PICK h, i : /\ h = file[r].helper
                    /\ i = IF helpers[h].cmd.input = "open" THEN "ended"
                           ELSE helpers[h].cmd.input
    OBVIOUS
  <1>1. file[r].pc = "wait" /\ UNCHANGED <<game, linked, pool, timer, holder, fence, allowed>>
        /\ ReqEnds(r, FALSE)
    BY DEF ConnectionLost, ReqAt, hostVars, poolVars
  <1>2. FileTyped /\ AskFits(r) /\ UsesFit(r) /\ KeptFits
    BY <1>1 DEF FilesFit, UsingSteps
  <1>3. h \in Helper /\ h # Nothing /\ helpers[h] \in HelperRecords
    BY <1>a, <1>1, <1>2, ReqRecordIs DEF AskFits, UsingSteps, FileTyped
  <1>4. helpers[h].live /\ timer[h] = "off" /\ ~helpers[h].elsewhere
    BY <1>a, <1>1, <1>2 DEF UsesFit, UsingSteps
  <1>5. SameRequest(r) /\ file'[r].pc = "finish" /\ file'[r].helper = h /\ file'[r].ok = FALSE
    BY <1>a, <1>1, <1>2, ReqEndsIs
  <1> DEFINE c == [helpers[h].cmd EXCEPT !.input = i]
  <1>6. helpers' = [helpers EXCEPT ![h].cmd = c]
    BY <1>a, <1>2, <1>3 DEF ConnectionLost, FileTyped, HelperRecords, Cmds
  <1>7. /\ c \in Cmds /\ c.of = helpers[h].cmd.of /\ c.op = helpers[h].cmd.op
        /\ c.at = helpers[h].cmd.at /\ (c.input = "trailer" <=> helpers[h].cmd.input = "trailer")
    <2>1. helpers[h].cmd \in Cmds /\ i \in CmdInputs
      BY <1>a, <1>3, HelperRecordIs DEF CmdInputs
    <2> QED
      BY <1>a, <2>1 DEF Cmds, CmdInputs
  <1> HIDE DEF c
  <1>8. Commanded(r, h, c)
    BY <1>2, <1>3, <1>6, <1>7, CommandedIs
  <1>9. LockedStep(r)
    BY <1>1, <1>2, <1>3, <1>5, <1>8 DEF LockedStep, SameRequest, UsingSteps, FileTyped, Commanded
  <1>10. KeptFits'
    <2>1. h # pool
      BY <1>a, <1>3, <1>2 DEF KeptFits
    <2>2. \A s \in Req : file'[s].helper \in {file[s].helper, Nothing, h}
      BY <1>5 DEF SameRequest
    <2> QED
      BY <1>1, <1>8, <2>1, <2>2, PoolKept DEF Commanded
  <1>11. UsesFit(r)'
    BY <1>1, <1>4, <1>5, <1>8 DEF UsesFit, SameRequest, Commanded, UsingSteps
  <1>12. ChangeFits(h)'
    <2> SUFFICES ASSUME CmdChanging(h)' PROVE ChangeFits(h)'
      BY DEF ChangeFits
    <2>1. CmdChanging(h) /\ ChangeFits(h)
      BY <1>3, <1>7, <1>8 DEF CmdChanging, CmdRunning, CmdOp, Commanded, FilesFit
    <2>2. holder = r /\ CmdOf(h) = r
      BY <1>1, <1>3, <2>1, LockHolderIs
    <2>3. /\ helpers'[h].cmd.of = r /\ CmdOp(h)' = CmdOp(h) /\ WholeInput(h)' = WholeInput(h)
          /\ helpers'[h].cmd.at = helpers[h].cmd.at
      BY <1>7, <1>8, <2>2 DEF CmdOp, CmdOf, WholeInput, Commanded
    <2>4. CmdOwned(h)' /\ CmdOf(h)' = r
      BY <1>1, <1>5, <2>2, <2>3 DEF CmdOwned, CmdOf
    <2>5. file'[r].op = file[r].op /\ file'[r].lost = file[r].lost
      BY <1>5 DEF SameRequest
    <2> QED
      BY <2>1, <2>2, <2>3, <2>4, <2>5 DEF ChangeFits
  <1>13. \A k \in Helper : k # h => ~CmdChanging(k)'
    <2>1. \A k \in Helper : k # h => ~CmdChanging(k)
      BY <1>a, <1>1, LockHolderIs
    <2> QED
      BY <1>8, <2>1 DEF CmdChanging, CmdRunning, CmdOp, Commanded
  <1> QED
    BY <1>9, <1>10, <1>11, <1>12, <1>13, LockedKeeps DEF ChangeFits

LEMMA FinishListKeeps ==
    ASSUME FilesFit, NEW r \in Req, FinishList(r)
    PROVE  FilesFit'
  <1>a. PICK h : h = file[r].helper
    OBVIOUS
  <1>1. /\ file[r].pc = "finish" /\ file[r].op = "list"
        /\ UNCHANGED <<game, linked, helpers, holder, fence, allowed>>
    BY DEF FinishList, ReqAt, hostVars
  <1>2. FileTyped /\ AskFits(r) /\ UsesFit(r) /\ KeptFits /\ "end" \in ReqStates
        /\ "remove" \in ReqStates
    BY <1>1 DEF FilesFit, UsingSteps, ReqStates
  <1>3. h \in Helper /\ h # Nothing
    BY <1>a, <1>1, <1>2, ReqRecordIs DEF AskFits, UsingSteps, FileTyped
  <1>4. \A k \in Helper : ~CmdChanging(k)
    BY <1>1, LockHolderIs DEF FileChanges, CmdChanging
  <1>5. helpers[h].live /\ timer[h] = "off" /\ ~helpers[h].elsewhere
    BY <1>a, <1>1, <1>2 DEF UsesFit, UsingSteps
  <1>6. CASE Keeps(r)
    <2>1. /\ pool = Nothing /\ pool' = h /\ timer' = [timer EXCEPT ![h] = "armed"]
          /\ ReqTurns(r, "end", Nothing)
      BY <1>a, <1>6 DEF FinishList, Keeps, ReqTurns
    <2>2. SameRequest(r) /\ file'[r].pc = "end" /\ file'[r].helper = Nothing
      BY <1>2, <2>1, TurnsIs
    <2>3. /\ timer' \in [Helper -> {"off", "armed", "fired"}] /\ timer'[h] = "armed"
          /\ \A k \in Helper : k # h => timer'[k] = timer[k]
      BY <1>2, <1>3, <2>1 DEF FileTyped
    <2>4. LockedStep(r)
      BY <1>1, <1>2, <1>3, <2>1, <2>2, <2>3 DEF LockedStep, SameRequest, UsingSteps, FileTyped
    <2>5. \A s \in Req : file'[s].helper = Nothing
      <3>1. \A s \in Req : s # r => file[s].helper = Nothing
        BY <1>1, LockHolderIs DEF FilesFit, AskFits, UsingSteps
      <3> QED
        BY <2>2, <3>1 DEF SameRequest
    <2>6. KeptFits'
      <3>1. helpers'[h].live /\ ~helpers'[h].elsewhere /\ ~CmdChanging(h)'
        BY <1>1, <1>3, <1>4, <1>5 DEF CmdChanging, CmdRunning, CmdOp
      <3>2. \A k \in Helper : timer'[k] = "armed" => h = k
        BY <1>2, <2>1, <2>3 DEF KeptFits
      <3> QED
        BY <1>3, <2>1, <2>3, <2>5, <3>1, <3>2 DEF KeptFits, CmdChanging, CmdRunning, CmdOp
    <2>7. \A k \in Helper : ~CmdChanging(k)'
      BY <1>1, <1>4 DEF CmdChanging, CmdRunning, CmdOp
    <2> QED
      BY <2>2, <2>4, <2>6, <2>7, LockedKeeps DEF UsingSteps, ChangeFits
  <1>7. CASE ~Keeps(r)
    <2>1. ReqGoto(r, "remove") /\ UNCHANGED <<pool, timer>>
      BY <1>7 DEF FinishList, poolVars
    <2>2. SameRequest(r) /\ file'[r].pc = "remove" /\ file'[r].helper = h
      BY <1>a, <1>2, <2>1, ReqGotoIs
    <2>3. UsesFit(r)'
      BY <1>1, <1>3, <1>4, <1>5, <2>1, <2>2 DEF UsesFit, CmdChanging, CmdRunning, CmdOp
    <2> QED
      BY <1>a, <1>1, <1>3, <2>1, <2>2, <2>3, RequestKeeps DEF UsingSteps
  <1> QED
    BY <1>6, <1>7

-----------------------------------------------------------------------------
\* A command goes on, or what it reads.
CmdAdvances(h) ==
    /\ helpers' \in [Helper -> HelperRecords]
    /\ \A k \in Helper : k # h => helpers'[k] = helpers[k]
    /\ helpers'[h].live = helpers[h].live /\ helpers'[h].gen = helpers[h].gen
    /\ helpers'[h].elsewhere = helpers[h].elsewhere
    /\ helpers'[h].cmd.of = helpers[h].cmd.of /\ helpers'[h].cmd.op = helpers[h].cmd.op

LEMMA AdvanceKeeps ==
    ASSUME FilesFit, NEW h \in Helper, CmdAdvances(h),
           UNCHANGED <<game, linked, pool, timer, file, holder, fence, allowed>>,
           CmdChanging(h)' => CmdChanging(h),
           CmdChanging(h)' => (CmdOp(h) = "upload" /\ WholeInput(h)' => ~file[CmdOf(h)].lost),
           CmdChanging(h)' => (CmdOp(h) = "upload" /\ helpers'[h].cmd.at = "compared"
                                  => WholeInput(h)')
    PROVE  FilesFit'
  <1>1. FileTyped' /\ LocksFit'
    BY DEF FilesFit, FileTyped, LocksFit, CmdAdvances
  <1>2. \A k \in Helper : helpers'[k].live = helpers[k].live /\ helpers'[k].gen = helpers[k].gen
                          /\ helpers'[k].elsewhere = helpers[k].elsewhere
                          /\ helpers'[k].cmd.of = helpers[k].cmd.of
                          /\ helpers'[k].cmd.op = helpers[k].cmd.op
    BY DEF CmdAdvances
  <1>3. \A k \in Helper : CmdChanging(k)' => CmdChanging(k)
    BY DEF CmdAdvances, CmdChanging, CmdRunning, CmdOp
  <1>4. KeptFits'
    <2>1. KeptFits /\ pool \in Helper \cup {Nothing}
      BY DEF FilesFit, FileTyped
    <2>2. PICK p : p = pool
      OBVIOUS
    <2>3. p # Nothing => helpers'[p].live /\ ~helpers'[p].elsewhere /\ ~CmdChanging(p)'
      BY <1>2, <1>3, <2>1, <2>2 DEF KeptFits
    <2> QED
      BY <2>1, <2>2, <2>3 DEF KeptFits, CmdChanging, CmdRunning, CmdOp
  <1>5. \A r \in Req : AskFits(r)'
    BY DEF FilesFit, AskFits
  <1>6. ASSUME NEW r \in Req, file'[r].pc \in UsingSteps PROVE UsesFit(r)'
    <2>1. PICK k : k = file[r].helper
      OBVIOUS
    <2>2. UsesFit(r) /\ k \in Helper
      BY <1>6, <2>1, ReqRecordIs DEF FilesFit, FileTyped, AskFits
    <2>3. CmdChanging(k)' => CmdChanging(k)
      BY <1>3, <2>2
    <2>4. /\ helpers'[k].live = helpers[k].live /\ helpers'[k].gen = helpers[k].gen
          /\ helpers'[k].elsewhere = helpers[k].elsewhere
          /\ helpers'[k].cmd.of = helpers[k].cmd.of
          /\ helpers'[k].cmd.op = helpers[k].cmd.op
      BY <1>2, <2>2
    <2> QED
      BY <2>1, <2>2, <2>3, <2>4 DEF UsesFit, CmdChanging, CmdRunning, CmdOp
  <1>7. ASSUME NEW k \in Helper PROVE ChangeFits(k)'
    <2>1. ChangeFits(k)
      BY DEF FilesFit
    <2>2. CASE k # h
      BY <2>1, <2>2 DEF CmdAdvances, ChangeFits, CmdChanging, CmdRunning, CmdOp, CmdOf, CmdOwned,
         WholeInput
    <2>3. CASE k = h /\ CmdChanging(h)'
      <3>1. CmdChanging(h) /\ CmdOf(h)' = CmdOf(h) /\ CmdOp(h)' = CmdOp(h)
        BY <2>3 DEF CmdAdvances, CmdOf, CmdOp
      <3>2. /\ CmdOf(h) \in Req /\ file[CmdOf(h)].op = CmdOp(h) /\ (CmdOwned(h) \/ ~fence)
            /\ CmdOp(h) # "upload" => ~file[CmdOf(h)].lost
        BY <2>1, <2>3, <3>1 DEF ChangeFits
      <3>3. CmdOwned(h) => CmdOwned(h)'
        BY <3>1 DEF CmdOwned
      <3> QED
        BY <2>3, <3>1, <3>2, <3>3 DEF ChangeFits
    <2> QED
      BY <2>2, <2>3 DEF ChangeFits
  <1> QED
    BY <1>1, <1>4, <1>5, <1>6, <1>7 DEF FilesFit

LEMMA AtIs ==
    ASSUME FileTyped, NEW h \in Helper, NEW x \in CmdStates, CmdGoto(h, x)
    PROVE  /\ CmdAdvances(h) /\ helpers'[h].cmd.at = x
           /\ helpers'[h].cmd.input = helpers[h].cmd.input
  <1> DEFINE c == [helpers[h].cmd EXCEPT !.at = x]
  <1>1. helpers[h] \in HelperRecords /\ helpers[h].cmd \in Cmds
    BY HelperRecordIs DEF FileTyped
  <1>2. /\ c \in Cmds /\ c.of = helpers[h].cmd.of /\ c.op = helpers[h].cmd.op
        /\ c.at = x /\ c.input = helpers[h].cmd.input
    BY <1>1 DEF Cmds, CmdStates
  <1>3. helpers' = [helpers EXCEPT ![h].cmd = c]
    BY <1>1 DEF CmdGoto, FileTyped, HelperRecords
  <1> HIDE DEF c
  <1>4. Commanded(0, h, c)
    BY <1>2, <1>3, CommandedIs
  <1> QED
    BY <1>2, <1>4 DEF Commanded, CmdAdvances

CmdTold(h, i) == helpers' = [helpers EXCEPT ![h].cmd.input = i]

LEMMA ToldIs ==
    ASSUME FileTyped, NEW h \in Helper, NEW i \in CmdInputs, CmdTold(h, i)
    PROVE  CmdAdvances(h) /\ helpers'[h].cmd.at = helpers[h].cmd.at /\ helpers'[h].cmd.input = i
  <1> DEFINE c == [helpers[h].cmd EXCEPT !.input = i]
  <1>1. helpers[h] \in HelperRecords /\ helpers[h].cmd \in Cmds
    BY HelperRecordIs DEF FileTyped
  <1>2. /\ c \in Cmds /\ c.of = helpers[h].cmd.of /\ c.op = helpers[h].cmd.op
        /\ c.at = helpers[h].cmd.at /\ c.input = i
    BY <1>1 DEF Cmds, CmdInputs
  <1>3. helpers' = [helpers EXCEPT ![h].cmd = c]
    BY <1>1 DEF CmdTold, FileTyped, HelperRecords
  <1> HIDE DEF c
  <1>4. Commanded(0, h, c)
    BY <1>2, <1>3, CommandedIs
  <1> QED
    BY <1>2, <1>4 DEF Commanded, CmdAdvances

\* A command that goes on without more input.
LEMMA GoesOnKeeps ==
    ASSUME FilesFit, NEW h \in Helper, NEW x \in CmdStates, CmdGoto(h, x), CmdRunning(h),
           UNCHANGED <<game, linked, pool, timer, file, holder, fence, allowed>>,
           CmdOp(h) = "upload" /\ x = "compared" => WholeInput(h)
    PROVE  FilesFit'
  <1>1. CmdAdvances(h) /\ helpers'[h].cmd.at = x /\ helpers'[h].cmd.input = helpers[h].cmd.input
    BY AtIs DEF FilesFit
  <1>2. WholeInput(h)' = WholeInput(h) /\ CmdOp(h)' = CmdOp(h) /\ ChangeFits(h)
    BY <1>1 DEF WholeInput, CmdOp, CmdAdvances, FilesFit
  <1>3. CmdChanging(h)' => CmdChanging(h)
    BY <1>2 DEF CmdChanging
  <1>4. CmdChanging(h)' => (CmdOp(h) = "upload" /\ WholeInput(h)' => ~file[CmdOf(h)].lost)
    BY <1>2, <1>3 DEF ChangeFits
  <1>5. CmdChanging(h)' => (CmdOp(h) = "upload" /\ helpers'[h].cmd.at = "compared"
                               => WholeInput(h)')
    BY <1>1, <1>2
  <1> QED
    BY <1>1, <1>3, <1>4, <1>5, AdvanceKeeps

CommandSteps(h) ==
    \/ ReadFiles(h) \/ Mkdir(h) \/ Delete(h)
    \/ RenameCheck(h) \/ RenameNoReplace(h) \/ RenameUnlink(h)
    \/ UploadRead(h) \/ UploadInstall(h) \/ CommandEnds(h)

\* The steps of a command.
LEMMA CommandsKeep ==
    ASSUME FilesFit, NEW h \in Helper, CommandSteps(h)
    PROVE  FilesFit'
  <1> DEFINE Rest == UNCHANGED <<game, linked, pool, timer, file, holder, fence, allowed>>
  <1>1. ASSUME ReadFiles(h) PROVE FilesFit'
    <2>1. PICK x \in {"done", "failed"} : CmdGoto(h, x) /\ CmdRunning(h) /\ Rest
      BY <1>1 DEF ReadFiles, CmdAt, hostVars, poolVars
    <2> QED
      BY <2>1, GoesOnKeeps DEF CmdStates
  <1>2. ASSUME Mkdir(h) PROVE FilesFit'
    <2>1. PICK x \in {"done", "failed"} : CmdGoto(h, x) /\ CmdRunning(h) /\ Rest
      BY <1>2 DEF Mkdir, CmdAt, hostVars, poolVars
    <2> QED
      BY <2>1, GoesOnKeeps DEF CmdStates
  <1>3. ASSUME Delete(h) PROVE FilesFit'
    <2>1. PICK x \in {"done", "failed"} : CmdGoto(h, x) /\ CmdRunning(h) /\ Rest
      BY <1>3 DEF Delete, CmdAt, hostVars, poolVars
    <2> QED
      BY <2>1, GoesOnKeeps DEF CmdStates
  <1>4. ASSUME RenameCheck(h) PROVE FilesFit'
    <2>1. PICK x \in {"failed", "compared"} :
              CmdGoto(h, x) /\ CmdRunning(h) /\ Rest /\ CmdOp(h) = "rename"
      BY <1>4 DEF RenameCheck, CmdAt, hostVars, poolVars
    <2> QED
      BY <2>1, GoesOnKeeps DEF CmdStates
  <1>5. ASSUME RenameNoReplace(h) PROVE FilesFit'
    <2>1. PICK x \in {"done", "linked", "failed"} : CmdGoto(h, x) /\ CmdRunning(h) /\ Rest
      BY <1>5 DEF RenameNoReplace, CmdAt, hostVars, poolVars
    <2> QED
      BY <2>1, GoesOnKeeps DEF CmdStates
  <1>6. ASSUME RenameUnlink(h) PROVE FilesFit'
    <2>1. CmdGoto(h, "done") /\ CmdRunning(h) /\ Rest
      BY <1>6 DEF RenameUnlink, CmdAt, hostVars, poolVars
    <2> QED
      BY <2>1, GoesOnKeeps DEF CmdStates
  <1>7. ASSUME UploadRead(h) PROVE FilesFit'
    <2>1. PICK x \in {"compared", "failed"} :
              CmdGoto(h, x) /\ CmdRunning(h) /\ Rest /\ (x = "compared" => WholeInput(h))
      BY <1>7 DEF UploadRead, CmdAt, hostVars, poolVars
    <2> QED
      BY <2>1, GoesOnKeeps DEF CmdStates
  <1>8. ASSUME UploadInstall(h) PROVE FilesFit'
    <2>1. PICK x \in {"done", "failed"} : CmdGoto(h, x) /\ CmdRunning(h) /\ Rest
      BY <1>8 DEF UploadInstall, CmdAt, hostVars, poolVars
    <2> QED
      BY <2>1, GoesOnKeeps DEF CmdStates
  <1>9. ASSUME CommandEnds(h) PROVE FilesFit'
    <2>1. CmdGoto(h, "failed") /\ CmdRunning(h) /\ Rest
      BY <1>9 DEF CommandEnds, hostVars, poolVars
    <2> QED
      BY <2>1, GoesOnKeeps DEF CmdStates
  <1> QED
    BY <1>1, <1>2, <1>3, <1>4, <1>5, <1>6, <1>7, <1>8, <1>9 DEF CommandSteps

\* The entries a command works on.
LEMMA TargetIs ==
    ASSUME FilesFit, NEW h \in Helper, CmdChanging(h)
    PROVE  /\ CmdOf(h) \in Req /\ file[CmdOf(h)].name \in Names /\ TargetName(h) \in Names
           /\ CmdOp(h) = "rename" => TargetName(h) = file[CmdOf(h)].to
  <1>1. PICK r : r = CmdOf(h)
    OBVIOUS
  <1>2. r \in Req /\ file[r].op = CmdOp(h) /\ AskFits(r) /\ CmdOp(h) \in FileChanges
    BY <1>1 DEF FilesFit, ChangeFits, CmdChanging
  <1>3. file[r].name \in Names /\ (CmdOp(h) = "rename" => file[r].to \in Names)
    BY <1>2 DEF AskFits
  <1> QED
    BY <1>1, <1>2, <1>3 DEF TargetName

LEMMA UploadOpenKeeps ==
    ASSUME FilesInv, NEW h \in Helper, UploadOpen(h)
    PROVE  FilesFit'
  <1>a. PICK o : o = folder[TargetName(h)]
    OBVIOUS
  <1>1. /\ UNCHANGED <<game, linked, pool, timer, file, holder, fence, allowed>> /\ CmdChanging(h)
        /\ helpers' = [helpers EXCEPT ![h].cmd.at = "read", ![h].cmd.orig = o]
    BY <1>a DEF UploadOpen, CmdAt, hostVars, poolVars, CmdChanging, FileChanges
  <1>2. FilesFit /\ FileTyped /\ helpers[h] \in HelperRecords /\ helpers[h].cmd \in Cmds
    BY HelperRecordIs DEF FilesInv, FilesFit, FileTyped
  <1>3. o \in Nat
    BY <1>a, <1>1, <1>2, TargetIs DEF FilesInv, DirFits
  <1> DEFINE c == [helpers[h].cmd EXCEPT !.at = "read", !.orig = o]
  <1>4. /\ c \in Cmds /\ c.of = helpers[h].cmd.of /\ c.op = helpers[h].cmd.op
        /\ c.at = "read" /\ c.input = helpers[h].cmd.input
    BY <1>2, <1>3 DEF Cmds
  <1>5. helpers' = [helpers EXCEPT ![h].cmd = c]
    BY <1>1, <1>2 DEF FileTyped, HelperRecords
  <1> HIDE DEF c
  <1>6. Commanded(0, h, c)
    BY <1>2, <1>4, <1>5, CommandedIs
  <1>7. /\ CmdAdvances(h) /\ helpers'[h].cmd.at = "read"
        /\ helpers'[h].cmd.input = helpers[h].cmd.input
    BY <1>4, <1>6 DEF Commanded, CmdAdvances
  <1>8. WholeInput(h)' = WholeInput(h) /\ ChangeFits(h)
    BY <1>2, <1>7 DEF WholeInput, FilesFit
  <1>9. CmdOp(h) = "upload" /\ WholeInput(h)' => ~file[CmdOf(h)].lost
    BY <1>1, <1>8 DEF ChangeFits
  <1> QED
    BY <1>1, <1>2, <1>7, <1>9, AdvanceKeeps

\* The input of an upload.
LEMMA InputKeeps ==
    ASSUME FilesFit, NEW r \in Req, SendTrailer(r) \/ InputFails(r)
    PROVE  FilesFit'
  <1>a. PICK h : h = file[r].helper
    OBVIOUS
  <1>1. PICK i \in {"trailer", "ended"} :
            /\ file[r].pc = "wait" /\ file[r].op = "upload" /\ CmdTold(h, i)
            /\ i = "trailer" => r \in allowed
            /\ helpers[h].cmd.at = "read" \/ i # "trailer"
            /\ helpers[h].cmd.input = "open"
            /\ UNCHANGED <<game, linked, pool, timer, file, holder, fence, allowed>>
    BY <1>a DEF SendTrailer, InputFails, SendsTrailer, ReqAt, CmdTold, hostVars, poolVars, Cmd
  <1>2. FileTyped /\ AskFits(r) /\ UsesFit(r)
    BY <1>1 DEF FilesFit, UsingSteps
  <1>3. h \in Helper /\ h # Nothing
    BY <1>a, <1>1, <1>2, ReqRecordIs DEF AskFits, UsingSteps, FileTyped
  <1>4. CmdAdvances(h) /\ helpers'[h].cmd.at = helpers[h].cmd.at /\ helpers'[h].cmd.input = i
    BY <1>1, <1>2, <1>3, ToldIs DEF CmdInputs
  <1>5. CmdOf(h) = r
    BY <1>a, <1>1, <1>2 DEF UsesFit, CmdOf
  <1>6. (CmdChanging(h)' => CmdChanging(h)) /\ ChangeFits(h)
    BY <1>3, <1>4 DEF CmdAdvances, CmdChanging, CmdRunning, CmdOp, FilesFit
  <1>7. CmdChanging(h)' => (CmdOp(h) = "upload" /\ WholeInput(h)' => ~file[CmdOf(h)].lost)
    BY <1>1, <1>2, <1>4, <1>5 DEF AskFits, WholeInput
  <1>8. CmdChanging(h)' => (CmdOp(h) = "upload" /\ helpers'[h].cmd.at = "compared"
                               => WholeInput(h)')
    BY <1>1, <1>4, <1>6 DEF ChangeFits, WholeInput
  <1> QED
    BY <1>1, <1>3, <1>4, <1>6, <1>7, <1>8, AdvanceKeeps

-----------------------------------------------------------------------------
\* A request that does not run.
LEMMA NoReqIs ==
    /\ NoReq \in Reqs /\ NoReq.helper = Nothing /\ NoReq.lost = FALSE /\ NoReq.pc = "idle"
    /\ NoReq.op \notin FileChanges /\ NoReq.want = 0
  BY DEF NoReq, Reqs, FileOps, FileChanges

\* A request begins.
LEMMA BeginKeeps ==
    ASSUME FilesFit, NEW r \in Req, NEW op \in FileOps, NEW n, NEW t, StartAction(r, op, n, t),
           n \in Names \/ (n = Nothing /\ op \notin FileChanges),
           t \in Names \/ (t = Nothing /\ op # "rename")
    PROVE  FilesFit'
  <1> DEFINE x == IF op = "list" THEN "take" ELSE "acquire"
             q == [NoReq EXCEPT !.pc = x, !.op = op, !.name = n, !.to = t, !.want = game]
  <1>1. /\ file[r].pc = "idle" /\ fence /\ holder = Nothing /\ holder' = r
        /\ UNCHANGED <<game, linked, helpers, pool, timer, fence, allowed>>
        /\ file' = [file EXCEPT ![r] = q]
    BY DEF StartAction, ReqAt, hostVars, poolVars
  <1>2. FileTyped /\ KeptFits
    BY DEF FilesFit
  <1>4. /\ q \in Reqs /\ q.pc \in {"take", "acquire"} /\ q.op = op /\ q.name = n /\ q.to = t
        /\ q.want = game /\ q.helper = Nothing /\ q.lost = FALSE
    <2>1. NoReq \in Reqs /\ NoReq.helper = Nothing /\ NoReq.lost = FALSE /\ game \in Nat
      BY <1>2, NoReqIs DEF FileTyped
    <2>2. /\ n \in Names \cup {Nothing} /\ t \in Names \cup {Nothing}
          /\ x \in {"take", "acquire"}
      OBVIOUS
    <2> HIDE DEF x
    <2> QED
      BY <2>1, <2>2 DEF Reqs
  <1> HIDE DEF q
  <1>5. file' \in [Req -> Reqs] /\ file'[r] = q /\ \A s \in Req : s # r => file'[s] = file[s]
    BY <1>1, <1>2, <1>4 DEF FileTyped
  <1>6. /\ \A s \in Req : file[s].pc = "idle" /\ file[s].helper = Nothing
        /\ \A k \in Helper : ~CmdChanging(k)
    BY <1>1, NoHolderIs
  <1>7. FileTyped'
    BY <1>1, <1>2, <1>5 DEF FileTyped
  <1>8. LocksFit'
    BY <1>1, <1>4, <1>5, <1>6 DEF LocksFit
  <1>9. KeptFits'
    <2>1. \A s \in Req : file'[s].helper = Nothing
      BY <1>4, <1>5, <1>6
    <2> QED
      BY <1>1, <1>2, <2>1 DEF KeptFits, CmdChanging, CmdRunning, CmdOp
  <1>10. \A s \in Req : AskFits(s)'
    <2>1. AskFits(r)'
      <3>1. game' = game /\ game \in Nat
        BY <1>1, <1>2 DEF FileTyped
      <3> QED
        BY <1>4, <1>5, <3>1 DEF AskFits, UsingSteps
    <2>2. ASSUME NEW s \in Req, s # r PROVE AskFits(s)'
      <3>1. AskFits(s) /\ file'[s] = file[s]
        BY <1>5, <2>2 DEF FilesFit
      <3> QED
        BY <1>1, <3>1 DEF AskFits
    <2> QED
      BY <2>1, <2>2
  <1>11. \A s \in Req : file'[s].pc \notin UsingSteps
    BY <1>4, <1>5, <1>6 DEF UsingSteps
  <1>12. \A k \in Helper : ~CmdChanging(k)'
    BY <1>1, <1>6 DEF CmdChanging, CmdRunning, CmdOp
  <1> QED
    BY <1>7, <1>8, <1>9, <1>10, <1>11, <1>12 DEF FilesFit, ChangeFits

LEMMA StartsKeep ==
    ASSUME FilesFit, NEW r \in Req,
           FilesView(r) \/ FileDownload(r) \/ FileUpload(r) \/ FileChange(r)
    PROVE  FilesFit'
  <1>1. CASE FilesView(r)
    BY <1>1, BeginKeeps DEF FilesView, FileOps, FileChanges
  <1>2. CASE FileDownload(r)
    BY <1>2, BeginKeeps DEF FileDownload, FileOps, FileChanges
  <1>3. CASE FileUpload(r)
    BY <1>3, BeginKeeps DEF FileUpload, FileOps, FileChanges
  <1>4. CASE FileChange(r)
    BY <1>4, BeginKeeps DEF FileChange, FileOps, FileChanges
  <1> QED
    BY <1>1, <1>2, <1>3, <1>4

\* It ends.
LEMMA ActionDoneKeeps ==
    ASSUME FilesFit, NEW r \in Req, ActionDone(r)
    PROVE  FilesFit'
  <1>1. /\ file[r].pc = "end" /\ holder' = Nothing /\ file' = [file EXCEPT ![r] = NoReq]
        /\ UNCHANGED <<game, linked, helpers, pool, timer, fence, allowed>>
    BY DEF ActionDone, ReqAt, hostVars, poolVars
  <1>2. FileTyped /\ KeptFits /\ fence
    BY <1>1, LockHolderIs DEF FilesFit
  <1>4. file' \in [Req -> Reqs] /\ file'[r] = NoReq /\ \A s \in Req : s # r => file'[s] = file[s]
    BY <1>1, <1>2, NoReqIs DEF FileTyped
  <1>5. \A s \in Req : s # r => file[s].pc = "idle"
    BY <1>1, LockHolderIs
  <1>6. \A k \in Helper : ~CmdChanging(k)
    BY <1>1, LockHolderIs
  <1>7. FileTyped'
    BY <1>1, <1>2, <1>4 DEF FileTyped
  <1>8. \A s \in Req : file'[s].pc = "idle"
    BY NoReqIs, <1>4, <1>5
  <1>9. LocksFit'
    BY <1>1, <1>2, <1>8 DEF LocksFit
  <1>10. \A s \in Req : AskFits(s)'
    <2>1. AskFits(r)'
      <3>1. game' = game /\ game \in Nat
        BY <1>1, <1>2 DEF FileTyped
      <3> QED
        BY NoReqIs, <1>4, <3>1 DEF AskFits, UsingSteps
    <2>2. ASSUME NEW s \in Req, s # r PROVE AskFits(s)'
      <3>1. AskFits(s) /\ file'[s] = file[s]
        BY <1>4, <2>2 DEF FilesFit
      <3> QED
        BY <1>1, <3>1 DEF AskFits
    <2> QED
      BY <2>1, <2>2
  <1>11. KeptFits'
    <2>1. \A s \in Req : file'[s].helper \in {file[s].helper, Nothing}
      BY NoReqIs, <1>4
    <2> QED
      BY <1>1, <1>2, <2>1 DEF KeptFits, CmdChanging, CmdRunning, CmdOp
  <1>12. \A k \in Helper : ~CmdChanging(k)'
    BY <1>1, <1>6 DEF CmdChanging, CmdRunning, CmdOp
  <1> QED
    BY <1>7, <1>8, <1>9, <1>10, <1>11, <1>12 DEF FilesFit, ChangeFits, UsingSteps

-----------------------------------------------------------------------------
(* The other actors.                                                       *)

LEMMA RevokeKeeps ==
    ASSUME FilesFit, NEW r \in Req, Revoke(r)
    PROVE  FilesFit'
  <1> DEFINE b == BeforeLastCheck(r)
  <1>1. /\ r \in allowed /\ allowed' = allowed \ {r} /\ file' = [file EXCEPT ![r].lost = b]
        /\ UNCHANGED <<game, linked, helpers, pool, timer, holder, fence>>
    BY DEF Revoke, hostVars, poolVars
  <1>2. FileTyped /\ KeptFits /\ LocksFit /\ b \in BOOLEAN
    BY DEF FilesFit, BeforeLastCheck
  <1> HIDE DEF b
  <1> DEFINE q == [file[r] EXCEPT !.lost = b]
  <1>3. /\ q \in Reqs /\ q.pc = file[r].pc /\ q.op = file[r].op /\ q.name = file[r].name
        /\ q.to = file[r].to /\ q.want = file[r].want /\ q.helper = file[r].helper
        /\ q.ok = file[r].ok /\ q.lost = b
    <2>1. file[r] \in Reqs
      BY <1>2 DEF FileTyped
    <2>2. CASE b = TRUE
      <3>1. q = [file[r] EXCEPT !.lost = TRUE]
        BY <2>2
      <3> QED
        BY <2>1, <2>2, <3>1 DEF Reqs
    <2>3. CASE b = FALSE
      <3>1. q = [file[r] EXCEPT !.lost = FALSE]
        BY <2>3
      <3> QED
        BY <2>1, <2>3, <3>1 DEF Reqs
    <2> QED
      BY <1>2, <2>2, <2>3
  <1>4. file' = [file EXCEPT ![r] = q]
    BY <1>1, <1>2 DEF FileTyped
  <1> HIDE DEF q
  <1>5. file' \in [Req -> Reqs] /\ file'[r] = q /\ \A s \in Req : s # r => file'[s] = file[s]
    BY <1>2, <1>3, <1>4 DEF FileTyped
  <1>6. \A s \in Req : /\ file'[s].pc = file[s].pc /\ file'[s].op = file[s].op
                       /\ file'[s].name = file[s].name /\ file'[s].to = file[s].to
                       /\ file'[s].want = file[s].want /\ file'[s].helper = file[s].helper
                       /\ file'[s].ok = file[s].ok
    BY <1>3, <1>5
  <1>7. FileTyped'
    BY <1>1, <1>2, <1>5 DEF FileTyped
  <1>8. LocksFit' /\ KeptFits'
    BY <1>1, <1>2, <1>6 DEF LocksFit, KeptFits, CmdChanging, CmdRunning, CmdOp
  <1>9. ASSUME NEW s \in Req PROVE AskFits(s)'
    <2>1. AskFits(s)
      BY DEF FilesFit
    <2>2. file'[s].lost => s \notin allowed'
      <3>1. CASE s = r
        BY <1>1, <3>1
      <3>2. CASE s # r
        BY <1>1, <1>5, <2>1, <3>2 DEF AskFits
      <3> QED
        BY <3>1, <3>2
    <2> QED
      BY <1>1, <1>6, <2>1, <2>2 DEF AskFits
  <1>10. ASSUME NEW s \in Req, file'[s].pc \in UsingSteps PROVE UsesFit(s)'
    <2>1. UsesFit(s)
      BY <1>6, <1>10 DEF FilesFit
    <2> QED
      BY <1>1, <1>6, <2>1 DEF UsesFit, CmdChanging, CmdRunning, CmdOp
  <1>11. ASSUME NEW k \in Helper, CmdChanging(k)' PROVE ChangeFits(k)'
    <2>1. PICK s : s = CmdOf(k)
      OBVIOUS
    <2>2. /\ CmdChanging(k) /\ CmdOp(k)' = CmdOp(k) /\ WholeInput(k)' = WholeInput(k)
          /\ CmdOf(k)' = s /\ helpers' = helpers
      BY <1>1, <1>11, <2>1 DEF CmdChanging, CmdRunning, CmdOp, CmdOf, WholeInput
    <2>3. ChangeFits(k) /\ s \in Req
      BY <2>1, <2>2 DEF FilesFit, ChangeFits
    <2>4. file'[s].op = CmdOp(k) /\ (CmdOwned(k)' \/ ~fence')
      BY <1>1, <1>6, <2>1, <2>2, <2>3 DEF ChangeFits, CmdOwned
    <2>5. CmdOp(k) # "upload" \/ WholeInput(k) => ~file'[s].lost
      <3>1. CASE s # r
        BY <1>5, <2>1, <2>2, <2>3, <3>1 DEF ChangeFits
      <3>2. CASE s = r
        <4>1. ASSUME CmdOp(k) # "upload" \/ WholeInput(k) PROVE ~b
          <5>1. CASE ~fence
            BY <1>2, <5>1 DEF b, BeforeLastCheck, LocksFit, ReqAt
          <5>2. CASE fence
            <6>1. /\ file[r].helper = k /\ file[r].pc \in {"wait", "finish", "remove"}
                  /\ file[r].op = CmdOp(k)
              BY <2>1, <2>2, <2>3, <3>2, <5>2 DEF ChangeFits, CmdOwned
            <6> QED
              BY <4>1, <6>1 DEF b, BeforeLastCheck, ReqAt, Cmd, WholeInput
          <5> QED
            BY <1>2, <5>1, <5>2
        <4> QED
          BY <1>3, <1>5, <3>2, <4>1
      <3> QED
        BY <3>1, <3>2
    <2> QED
      BY <2>2, <2>3, <2>4, <2>5 DEF ChangeFits
  <1> QED
    BY <1>7, <1>8, <1>9, <1>10, <1>11 DEF FilesFit, ChangeFits

\* The pool and its timers.
LEMMA TimerFiresKeeps ==
    ASSUME FilesFit, NEW h \in Helper, TimerFires(h)
    PROVE  FilesFit'
  <1>1. /\ timer[h] = "armed" /\ timer' = [timer EXCEPT ![h] = "fired"]
        /\ UNCHANGED <<game, linked, helpers, pool, file, holder, fence, allowed>>
    BY DEF TimerFires, hostVars
  <1>2. FileTyped /\ KeptFits /\ pool = h
    BY <1>1 DEF FilesFit, KeptFits
  <1>3. /\ timer' \in [Helper -> {"off", "armed", "fired"}] /\ timer'[h] = "fired"
        /\ \A k \in Helper : k # h => timer'[k] = timer[k]
    BY <1>1, <1>2 DEF FileTyped
  <1>4. FileTyped' /\ LocksFit'
    BY <1>1, <1>2, <1>3 DEF FilesFit, FileTyped, LocksFit
  <1>5. KeptFits'
    BY <1>1, <1>2, <1>3 DEF KeptFits, CmdChanging, CmdRunning, CmdOp
  <1>6. \A s \in Req : AskFits(s)'
    BY <1>1 DEF FilesFit, AskFits
  <1>7. ASSUME NEW s \in Req, file'[s].pc \in UsingSteps PROVE UsesFit(s)'
    <2>1. PICK k : k = file[s].helper
      OBVIOUS
    <2>2. UsesFit(s) /\ k \in Helper /\ k # h
      BY <1>1, <1>2, <1>7, <2>1, ReqRecordIs DEF FilesFit, FileTyped, AskFits, KeptFits
    <2>3. timer'[k] = timer[k]
      BY <1>3, <2>2
    <2> QED
      BY <1>1, <2>1, <2>2, <2>3 DEF UsesFit, CmdChanging, CmdRunning, CmdOp
  <1>8. \A k \in Helper : ChangeFits(k)'
    BY <1>1 DEF FilesFit, ChangeFits, CmdChanging, CmdRunning, CmdOp, CmdOf, CmdOwned, WholeInput
  <1> QED
    BY <1>4, <1>5, <1>6, <1>7, <1>8 DEF FilesFit

\* A helper that no request uses goes, and with it its command.
HelperGoes(h) ==
    /\ helpers' \in [Helper -> HelperRecords]
    /\ CmdChanging(h)' => CmdChanging(h) /\ helpers'[h] = helpers[h]
    /\ \A k \in Helper : k # h => helpers'[k] = helpers[k]
    /\ timer' \in [Helper -> {"off", "armed", "fired"}]
    /\ \A k \in Helper : k # h => timer'[k] = timer[k]
    /\ timer'[h] # "armed"
    /\ UNCHANGED <<game, linked, file, holder, fence, allowed>>

LEMMA GoesKeeps ==
    ASSUME FilesFit, NEW h \in Helper, HelperGoes(h), \A r \in Req : file[r].helper # h,
           pool' = Nothing, pool \in {h, Nothing}
    PROVE  FilesFit'
  <1>1. FileTyped /\ KeptFits /\ LocksFit
    BY DEF FilesFit
  <1>2. FileTyped' /\ LocksFit'
    BY <1>1 DEF FileTyped, LocksFit, HelperGoes
  <1>3. KeptFits'
    BY <1>1 DEF KeptFits, HelperGoes
  <1>4. \A s \in Req : AskFits(s)'
    BY DEF FilesFit, AskFits, HelperGoes
  <1>5. ASSUME NEW s \in Req, file'[s].pc \in UsingSteps PROVE UsesFit(s)'
    <2>1. PICK k : k = file[s].helper
      OBVIOUS
    <2>2. UsesFit(s) /\ k \in Helper /\ k # h
      BY <1>1, <1>5, <2>1, ReqRecordIs DEF FilesFit, FileTyped, AskFits, HelperGoes
    <2>3. timer'[k] = timer[k] /\ helpers'[k] = helpers[k]
      BY <2>2 DEF HelperGoes
    <2> QED
      BY <2>1, <2>2, <2>3 DEF UsesFit, CmdChanging, CmdRunning, CmdOp, HelperGoes
  <1>6. ASSUME NEW k \in Helper, CmdChanging(k)' PROVE ChangeFits(k)'
    <2>1. CmdChanging(k) /\ helpers'[k] = helpers[k] /\ ChangeFits(k)
      BY <1>6 DEF HelperGoes, CmdChanging, CmdRunning, CmdOp, FilesFit
    <2> QED
      BY <2>1 DEF HelperGoes, ChangeFits, CmdChanging, CmdRunning, CmdOp, CmdOf, CmdOwned,
         WholeInput
  <1> QED
    BY <1>2, <1>3, <1>4, <1>5, <1>6 DEF FilesFit, ChangeFits

LEMMA TimerRunsKeeps ==
    ASSUME FilesFit, NEW h \in Helper, TimerRuns(h)
    PROVE  FilesFit'
  <1>1. /\ timer[h] = "fired" /\ timer' = [timer EXCEPT ![h] = "off"]
        /\ UNCHANGED <<game, linked, file, holder, fence, allowed>>
    BY DEF TimerRuns, hostVars
  <1>2. FileTyped /\ KeptFits
    BY DEF FilesFit
  <1>3. /\ timer' \in [Helper -> {"off", "armed", "fired"}] /\ timer'[h] = "off"
        /\ \A k \in Helper : k # h => timer'[k] = timer[k]
    BY <1>1, <1>2 DEF FileTyped
  <1>4. CASE pool = h
    <2>1. pool' = Nothing /\ CleanupHelper(h, FALSE)
      BY <1>4 DEF TimerRuns, StillKept
    <2>2. /\ helpers' \in [Helper -> HelperRecords]
          /\ \A k \in Helper : k # h => helpers'[k] = helpers[k]
          /\ CmdChanging(h)' => CmdChanging(h) /\ helpers'[h] = helpers[h]
      BY <1>2, <2>1, CleanupIs
    <2>3. \A r \in Req : file[r].helper # h
      BY <1>2, <1>4 DEF KeptFits
    <2> QED
      BY <1>1, <1>3, <1>4, <2>1, <2>2, <2>3, GoesKeeps DEF HelperGoes
  <1>5. CASE pool # h
    <2>1. UNCHANGED <<helpers, pool>>
      BY <1>5 DEF TimerRuns, StillKept
    <2>2. FileTyped' /\ LocksFit'
      BY <1>1, <1>2, <1>3, <2>1 DEF FilesFit, FileTyped, LocksFit
    <2>3. KeptFits'
      BY <1>1, <1>2, <1>3, <1>5, <2>1 DEF FileTyped, KeptFits, CmdChanging, CmdRunning, CmdOp
    <2>4. \A s \in Req : AskFits(s)'
      BY <1>1 DEF FilesFit, AskFits
    <2>5. ASSUME NEW s \in Req, file'[s].pc \in UsingSteps PROVE UsesFit(s)'
      <3>1. PICK k : k = file[s].helper
        OBVIOUS
      <3>2. UsesFit(s) /\ k \in Helper
        BY <1>1, <1>2, <2>5, <3>1, ReqRecordIs DEF FilesFit, FileTyped, AskFits
      <3>3. timer'[k] = timer[k] \/ timer'[k] = "off"
        BY <1>3, <3>2
      <3> QED
        BY <1>1, <2>1, <3>1, <3>2, <3>3 DEF UsesFit, CmdChanging, CmdRunning, CmdOp
    <2>6. \A k \in Helper : ChangeFits(k)'
      BY <1>1, <2>1 DEF FilesFit, ChangeFits, CmdChanging, CmdRunning, CmdOp, CmdOf, CmdOwned,
         WholeInput
    <2> QED
      BY <2>2, <2>3, <2>4, <2>5, <2>6 DEF FilesFit
  <1> QED
    BY <1>4, <1>5

LEMMA CloseStorageKeeps ==
    ASSUME FilesFit, CloseStorage
    PROVE  FilesFit'
  <1>1. PICK h : h = pool
    OBVIOUS
  <1>2. /\ h # Nothing /\ pool' = Nothing /\ HelperRemoved(h)
        /\ timer' = [timer EXCEPT ![h] = IF @ = "armed" THEN "off" ELSE @]
        /\ UNCHANGED <<game, linked, file, holder, fence, allowed>>
    BY <1>1 DEF CloseStorage, hostVars
  <1>3. FileTyped /\ KeptFits /\ h \in Helper
    BY <1>1, <1>2 DEF FilesFit, FileTyped
  <1>4. /\ timer' \in [Helper -> {"off", "armed", "fired"}] /\ timer'[h] # "armed"
        /\ \A k \in Helper : k # h => timer'[k] = timer[k]
    BY <1>2, <1>3 DEF FileTyped
  <1>5. /\ helpers' \in [Helper -> HelperRecords]
        /\ \A k \in Helper : k # h => helpers'[k] = helpers[k]
        /\ ~CmdChanging(h)'
    BY <1>2, <1>3, HelperRemovedIs
  <1>6. \A r \in Req : file[r].helper # h
    BY <1>1, <1>2, <1>3 DEF KeptFits
  <1> QED
    BY <1>1, <1>2, <1>3, <1>4, <1>5, <1>6, GoesKeeps DEF HelperGoes

LEMMA LeftoverKeeps ==
    ASSUME FilesFit, NEW h \in Helper, RemoveLeftovers(h)
    PROVE  FilesFit'
  <1>1. /\ ~fence /\ HelperRemoved(h)
        /\ UNCHANGED <<game, linked, pool, timer, file, holder, fence, allowed>>
    BY DEF RemoveLeftovers, hostVars, poolVars
  <1>2. FileTyped /\ KeptFits /\ holder = Nothing /\ pool = Nothing
    BY <1>1 DEF FilesFit, LocksFit
  <1>3. /\ timer' \in [Helper -> {"off", "armed", "fired"}] /\ timer'[h] # "armed"
        /\ \A k \in Helper : k # h => timer'[k] = timer[k]
    BY <1>1, <1>2 DEF FileTyped, KeptFits
  <1>5. /\ helpers' \in [Helper -> HelperRecords]
        /\ \A k \in Helper : k # h => helpers'[k] = helpers[k]
        /\ ~CmdChanging(h)'
    BY <1>1, <1>2, HelperRemovedIs
  <1>6. \A r \in Req : file[r].helper # h
    BY <1>2, NoHolderIs
  <1> QED
    BY <1>1, <1>2, <1>3, <1>5, <1>6, GoesKeeps DEF HelperGoes

\* The panel crashes: what it holds is lost, what it asked for is remembered with its commands.
Remembered(r) == [file[r] EXCEPT !.pc = "idle", !.helper = Nothing]
InputGone(h) == [helpers[h] EXCEPT !.cmd.input = IF @ = "open" THEN "ended" ELSE @]

LEMMA KeptIs ==
    ASSUME FileTyped, NEW r \in Req
    PROVE  /\ Remembered(r) \in Reqs /\ Remembered(r).pc = "idle"
           /\ Remembered(r).helper = Nothing /\ Remembered(r).op = file[r].op
           /\ Remembered(r).name = file[r].name /\ Remembered(r).to = file[r].to
           /\ Remembered(r).want = file[r].want /\ Remembered(r).lost = file[r].lost
  <1>1. file[r] \in Reqs
    BY DEF FileTyped
  <1> QED
    BY <1>1 DEF Remembered, Reqs

LEMMA UnheardIs ==
    ASSUME FileTyped, NEW h \in Helper
    PROVE  /\ InputGone(h) \in HelperRecords /\ InputGone(h).live = helpers[h].live
           /\ InputGone(h).cmd.of = helpers[h].cmd.of /\ InputGone(h).cmd.op = helpers[h].cmd.op
           /\ InputGone(h).cmd.at = helpers[h].cmd.at
           /\ InputGone(h).cmd.input = "trailer" <=> helpers[h].cmd.input = "trailer"
  <1>1. helpers[h] \in HelperRecords
    BY DEF FileTyped
  <1>2. PICK k, i : k = helpers[h] /\ i = IF k.cmd.input = "open" THEN "ended" ELSE k.cmd.input
    OBVIOUS
  <1> DEFINE c == [k.cmd EXCEPT !.input = i]
  <1>3. k.cmd \in Cmds /\ i \in CmdInputs
    BY <1>1, <1>2, HelperRecordIs DEF CmdInputs
  <1>4. /\ c \in Cmds /\ c.of = k.cmd.of /\ c.op = k.cmd.op /\ c.at = k.cmd.at
        /\ c.input = "trailer" <=> k.cmd.input = "trailer"
    BY <1>2, <1>3 DEF Cmds, CmdInputs
  <1>5. InputGone(h) = [k EXCEPT !.cmd = c]
    BY <1>1, <1>2 DEF InputGone, HelperRecords, Cmds
  <1> HIDE DEF c
  <1>6. [k EXCEPT !.cmd = c] \in HelperRecords /\ [k EXCEPT !.cmd = c].cmd = c
        /\ [k EXCEPT !.cmd = c].live = k.live
    BY <1>1, <1>2, <1>4 DEF HelperRecords
  <1> QED
    BY <1>2, <1>4, <1>5, <1>6

LEMMA CrashPanelKeeps ==
    ASSUME FilesFit, CrashPanel
    PROVE  FilesFit'
  <1>1. /\ fence' = FALSE /\ holder' = Nothing /\ pool' = Nothing
        /\ timer' = [h \in Helper |-> "off"] /\ UNCHANGED <<game, linked, allowed>>
    BY DEF CrashPanel, hostVars
  <1>2. FileTyped
    BY DEF FilesFit
  <1>4. file' = [r \in Req |-> IF \E h \in Helper : CmdRunning(h) /\ CmdOf(h) = r
                               THEN Remembered(r) ELSE NoReq]
    BY DEF CrashPanel, Remembered
  <1>5. helpers' = [h \in Helper |-> InputGone(h)]
    BY DEF CrashPanel, InputGone
  <1>6. /\ file' \in [Req -> Reqs]
        /\ \A r \in Req : file'[r].pc = "idle" /\ file'[r].helper = Nothing
    BY <1>2, NoReqIs, <1>4, KeptIs
  <1>7. \A h \in Helper : helpers'[h] = InputGone(h)
    BY <1>5
  <1>8. helpers' \in [Helper -> HelperRecords]
    BY <1>2, <1>5, UnheardIs
  <1>9. FileTyped'
    BY <1>1, <1>2, <1>6, <1>8 DEF FileTyped
  <1>10. LocksFit' /\ KeptFits'
    BY <1>1, <1>6 DEF LocksFit, KeptFits
  <1>11. ASSUME NEW r \in Req PROVE AskFits(r)'
    <2>1. CASE file'[r] = Remembered(r)
      BY <1>1, <1>2, <1>6, <2>1, KeptIs DEF FilesFit, AskFits, UsingSteps
    <2>2. CASE file'[r] = NoReq
      <3>1. game' \in Nat
        BY <1>9 DEF FileTyped
      <3> QED
        BY NoReqIs, <2>2, <3>1 DEF AskFits, UsingSteps
    <2> QED
      BY <1>4, <2>1, <2>2
  <1>12. ASSUME NEW h \in Helper, CmdChanging(h)' PROVE ChangeFits(h)'
    <2>1. PICK r : r = CmdOf(h)
      OBVIOUS
    <2>2. /\ helpers'[h].live = helpers[h].live /\ helpers'[h].cmd.of = helpers[h].cmd.of
          /\ helpers'[h].cmd.op = helpers[h].cmd.op /\ helpers'[h].cmd.at = helpers[h].cmd.at
          /\ helpers'[h].cmd.input = "trailer" <=> helpers[h].cmd.input = "trailer"
      BY <1>2, <1>7, UnheardIs
    <2>3. CmdChanging(h) /\ CmdRunning(h)
      BY <1>12, <2>2 DEF CmdChanging, CmdRunning, CmdOp
    <2>4. ChangeFits(h) /\ r \in Req
      BY <2>1, <2>3 DEF FilesFit, ChangeFits
    <2>5. file'[r] = Remembered(r)
      BY <1>4, <2>1, <2>3, <2>4
    <2>6. file'[r].op = file[r].op /\ file'[r].lost = file[r].lost
      BY <1>2, <2>4, <2>5, KeptIs
    <2>7. CmdOf(h)' = r /\ CmdOp(h)' = CmdOp(h) /\ (WholeInput(h)' <=> WholeInput(h))
      BY <2>1, <2>2 DEF CmdOf, CmdOp, WholeInput
    <2> QED
      BY <1>1, <2>1, <2>2, <2>3, <2>4, <2>6, <2>7 DEF ChangeFits
  <1> QED
    BY <1>6, <1>9, <1>10, <1>11, <1>12 DEF FilesFit, ChangeFits, UsingSteps

\* Startup lifts the fence when no helper is left.
LEMMA LiftKeeps ==
    ASSUME FilesFit, LiftFence
    PROVE  FilesFit'
  <1>1. /\ ~fence /\ fence' = TRUE /\ \A h \in Helper : ~helpers[h].live
        /\ UNCHANGED <<game, linked, helpers, pool, timer, file, holder, allowed>>
    BY DEF LiftFence, NoneLeft, hostVars, poolVars
  <1>2. FileTyped' /\ LocksFit'
    BY <1>1 DEF FilesFit, FileTyped, LocksFit
  <1>3. KeptFits' /\ \A r \in Req : AskFits(r)'
    BY <1>1 DEF FilesFit, KeptFits, AskFits, CmdChanging, CmdRunning, CmdOp
  <1>4. \A r \in Req : file'[r].pc \notin UsingSteps
    <2>1. holder = Nothing
      BY <1>1 DEF FilesFit, LocksFit
    <2> QED
      BY <1>1, <2>1, NoHolderIs DEF UsingSteps
  <1>5. \A h \in Helper : ~CmdChanging(h)'
    BY <1>1 DEF CmdChanging, CmdRunning
  <1> QED
    BY <1>2, <1>3, <1>4, <1>5 DEF FilesFit, ChangeFits

\* The container is replaced, or the path to its files.
LEMMA FileHostKeeps ==
    ASSUME FilesFit, game' = game \/ game' = game + 1, linked' \in BOOLEAN,
           UNCHANGED <<helpers, pool, timer, file, holder, fence, allowed>>
    PROVE  FilesFit'
  <1>1. game \in Nat /\ game' \in Nat /\ game <= game'
    BY DEF FilesFit, FileTyped
  <1>2. FileTyped' /\ LocksFit'
    BY <1>1 DEF FilesFit, FileTyped, LocksFit
  <1>3. KeptFits'
    BY DEF FilesFit, KeptFits, CmdChanging, CmdRunning, CmdOp
  <1>4. ASSUME NEW r \in Req PROVE AskFits(r)'
    <2>1. AskFits(r) /\ file[r].want \in Nat
      BY ReqRecordIs DEF FilesFit, FileTyped
    <2>2. file'[r].want <= game'
      BY <1>1, <2>1 DEF AskFits
    <2> QED
      BY <2>1, <2>2 DEF AskFits
  <1>5. ASSUME NEW r \in Req, file'[r].pc \in UsingSteps PROVE UsesFit(r)'
    <2>1. PICK h : h = file[r].helper
      OBVIOUS
    <2>2. UsesFit(r) /\ h \in Helper
      BY <1>5, <2>1, ReqRecordIs DEF FilesFit, FileTyped, AskFits
    <2>3. helpers[h].gen \in Nat
      BY <2>2, HelperRecordIs DEF FilesFit, FileTyped
    <2>4. helpers[h].gen <= game => helpers'[h].gen <= game'
      BY <1>1, <2>3
    <2> QED
      BY <2>1, <2>2, <2>4 DEF UsesFit, CmdChanging, CmdRunning, CmdOp
  <1>6. \A h \in Helper : ChangeFits(h)'
    BY DEF FilesFit, ChangeFits, CmdChanging, CmdRunning, CmdOp, CmdOf, CmdOwned, WholeInput
  <1> QED
    BY <1>2, <1>3, <1>4, <1>5, <1>6 DEF FilesFit

-----------------------------------------------------------------------------
(* The folder.                                                             *)

\* What a command changes it changes for a request that has its access.
LEMMA InTime ==
    ASSUME FilesInv, NEW h \in Helper, CmdChanging(h), ChangesLate(h),
           CmdOp(h) # "upload" \/ WholeInput(h)
    PROVE  ~trespass'
  BY DEF FilesInv, FilesFit, DirFits, ChangeFits, ChangesLate

\* A step of a command, and of the others.
LEMMA CommandDirs ==
    ASSUME FilesInv, NEW h \in Helper, CommandSteps(h) \/ UploadOpen(h)
    PROVE  DirFits'
  <1>1. DirFits /\ FilesFit
    BY DEF FilesInv
  <1>2. PICK n, f, r : n = TargetName(h) /\ r = CmdOf(h) /\ f = file[r].name
    OBVIOUS
  <1>3. CmdChanging(h) => /\ n \in Names /\ f \in Names /\ r \in Req
    BY <1>1, <1>2, TargetIs
  <1>4. CASE ReadFiles(h)
    BY <1>1, <1>4 DEF ReadFiles, dirVars, DirFits
  <1>5. CASE Mkdir(h)
    <2>1. CmdChanging(h) /\ ~trespass'
      BY <1>5, InTime DEF Mkdir, CmdAt, CmdChanging, FileChanges
    <2>2. /\ UNCHANGED <<staged, part, replaced>>
          /\ \/ folder' = [folder EXCEPT ![n] = stamp + 1] /\ stamp' = stamp + 1
             \/ UNCHANGED <<folder, stamp>>
      BY <1>2, <1>5 DEF Mkdir
    <2> QED
      BY <1>1, <1>3, <2>1, <2>2 DEF DirFits
  <1>6. CASE Delete(h)
    <2>1. CmdChanging(h) /\ ~trespass'
      BY <1>6, InTime DEF Delete, CmdAt, CmdChanging, FileChanges
    <2>2. UNCHANGED <<staged, part, replaced, stamp>> /\ folder' = [folder EXCEPT ![n] = 0]
      BY <1>2, <1>6 DEF Delete
    <2> QED
      BY <1>1, <1>3, <2>1, <2>2 DEF DirFits
  <1>7. CASE RenameCheck(h)
    BY <1>1, <1>7 DEF RenameCheck, dirVars, DirFits
  <1>8. CASE RenameNoReplace(h)
    <2>1. CmdChanging(h) /\ ~trespass'
      BY <1>8, InTime DEF RenameNoReplace, CmdAt, CmdChanging, FileChanges
    <2>2. UNCHANGED <<staged, part, stamp>>
      BY <1>8 DEF RenameNoReplace
    <2>3. \/ folder' = [folder EXCEPT ![n] = folder[f], ![f] = 0]
          \/ folder' = [folder EXCEPT ![n] = folder[f]]
          \/ UNCHANGED folder
      BY <1>2, <1>8 DEF RenameNoReplace
    <2>4. folder' \in [Names -> Nat]
      BY <1>1, <1>3, <2>1, <2>3 DEF DirFits
    <2>5. ~replaced'
      BY <1>1, <1>8 DEF RenameNoReplace, RenameAllowed, DirFits
    <2> QED
      BY <1>1, <2>1, <2>2, <2>4, <2>5 DEF DirFits
  <1>9. CASE RenameUnlink(h)
    <2>1. /\ UNCHANGED <<staged, part, stamp, replaced, trespass>>
          /\ folder' = [folder EXCEPT ![f] = 0]
      BY <1>2, <1>9 DEF RenameUnlink
    <2> QED
      BY <1>1, <2>1 DEF DirFits
  <1>10. CASE UploadOpen(h)
    <2>1. CmdChanging(h)
      BY <1>10 DEF UploadOpen, CmdAt, CmdChanging, FileChanges
    <2>2. UNCHANGED <<folder, part, stamp, replaced, trespass>> /\ staged' = staged \cup {r}
      BY <1>2, <1>10 DEF UploadOpen
    <2> QED
      BY <1>1, <1>3, <2>1, <2>2 DEF DirFits
  <1>11. CASE UploadRead(h) \/ CommandEnds(h)
    <2>1. /\ UNCHANGED <<folder, part, stamp, replaced, trespass>>
          /\ staged' = staged \/ staged' = staged \ {r}
      BY <1>2, <1>11 DEF UploadRead, CommandEnds
    <2> QED
      BY <1>1, <2>1 DEF DirFits
  <1>12. CASE UploadInstall(h)
    <2>1. /\ CmdChanging(h) /\ helpers[h].cmd.at = "compared" /\ CmdOp(h) = "upload"
          /\ ChangesLate(h)
      BY <1>12 DEF UploadInstall, CmdAt, CmdChanging, FileChanges
    <2>2. WholeInput(h)
      BY <1>1, <2>1 DEF FilesFit, ChangeFits
    <2>3. ~trespass'
      BY <2>1, <2>2, InTime
    <2>4. part' = part /\ staged' = staged \ {r}
      BY <1>2, <1>12, <2>2 DEF UploadInstall, WholeInput
    <2>5. ~replaced'
      BY <1>1, <1>12 DEF UploadInstall, DirFits
    <2>6. \/ folder' = [folder EXCEPT ![n] = stamp + 1] /\ stamp' = stamp + 1
          \/ UNCHANGED <<folder, stamp>>
      BY <1>2, <1>12 DEF UploadInstall
    <2> QED
      BY <1>1, <1>3, <2>1, <2>3, <2>4, <2>5, <2>6 DEF DirFits
  <1> QED
    BY <1>4, <1>5, <1>6, <1>7, <1>8, <1>9, <1>10, <1>11, <1>12 DEF CommandSteps

LEMMA OtherDirs ==
    ASSUME DirFits,
           \/ UNCHANGED dirVars
           \/ \E n \in Names : GameWrites(n)
           \/ \E r \in Req : FinishUpload(r)
    PROVE  DirFits'
  <1>1. CASE UNCHANGED dirVars
    BY <1>1 DEF DirFits, dirVars
  <1>2. ASSUME NEW n \in Names, GameWrites(n) PROVE DirFits'
    <2>1. PICK s \in {0, stamp + 1} :
              folder' = [folder EXCEPT ![n] = s] /\ stamp' = stamp + 1
              /\ UNCHANGED <<staged, part, replaced, trespass>>
      BY <1>2 DEF GameWrites
    <2> QED
      BY <2>1 DEF DirFits
  <1>3. ASSUME NEW r \in Req, FinishUpload(r) PROVE DirFits'
    BY <1>3 DEF FinishUpload, DirFits
  <1> QED
    BY <1>1, <1>2, <1>3

-----------------------------------------------------------------------------
\* The invariant holds at first, in a stutter and after every step.
LEMMA FilesStart == FilesInit => FilesInv
  <1> SUFFICES ASSUME FilesInit
               PROVE  FilesInv
    OBVIOUS
  <1>1. DirFits
    BY DEF FilesInit, DirFits
  <1>2. NoHelper \in HelperRecords
    BY DEF NoHelper, NoCmd, HelperRecords, Cmds, FileOps, FileChanges
  <1>3. FileTyped
    BY <1>2, NoReqIs DEF FilesInit, FileTyped
  <1>4. \A r \in Req : file[r] = NoReq
    BY DEF FilesInit
  <1>5. \A r \in Req : file[r].pc = "idle" /\ file[r].helper = Nothing
    BY <1>4, NoReqIs
  <1>6. LocksFit /\ KeptFits
    BY <1>5 DEF FilesInit, LocksFit, KeptFits
  <1>7. ASSUME NEW r \in Req PROVE AskFits(r)
    <2>1. game = 1 /\ file[r] = NoReq
      BY <1>4 DEF FilesInit
    <2>2. NoReq.pc \notin UsingSteps
      BY NoReqIs DEF UsingSteps
    <2> QED
      BY <2>1, <2>2, NoReqIs DEF AskFits
  <1>8. \A h \in Helper : ~CmdChanging(h)
    BY DEF FilesInit, NoHelper, CmdChanging, CmdRunning
  <1> QED
    BY <1>1, <1>3, <1>5, <1>6, <1>7, <1>8 DEF FilesInv, FilesFit, ChangeFits, UsingSteps

LEMMA FilesStutter == FilesInv /\ UNCHANGED fileVars => FilesInv'
  <1> SUFFICES ASSUME FilesInv, UNCHANGED fileVars
               PROVE  FilesInv'
    OBVIOUS
  <1>1. /\ UNCHANGED dirVars /\ game' = game /\ linked' = linked
        /\ UNCHANGED <<helpers, pool, timer, file, holder, fence, allowed>>
    BY DEF fileVars, hostVars, poolVars
  <1>2. linked' \in BOOLEAN
    BY <1>1 DEF FilesInv, FilesFit, FileTyped
  <1>3. FilesFit'
    BY <1>1, <1>2, FileHostKeeps DEF FilesInv
  <1>4. DirFits'
    BY <1>1, OtherDirs DEF FilesInv
  <1> QED
    BY <1>3, <1>4 DEF FilesInv

LEMMA FilesKeep == FilesInv /\ FilesNext => FilesInv'
  <1> SUFFICES ASSUME FilesInv, FilesNext
               PROVE  FilesInv'
    OBVIOUS
  <1>1. FilesFit /\ DirFits
    BY DEF FilesInv
  <1>2. ASSUME NEW r \in Req,
               FilesView(r) \/ FileDownload(r) \/ FileUpload(r) \/ FileChange(r)
        PROVE  FilesInv'
    <2>1. UNCHANGED dirVars
      BY <1>2 DEF FilesView, FileDownload, FileUpload, FileChange, StartAction
    <2> QED
      BY <1>1, <1>2, <2>1, StartsKeep, OtherDirs DEF FilesInv
  <1>3. ASSUME NEW r \in Req,
               AcquireLister(r) \/ ReuseLister(r) \/ Discard(r) \/ Acquire(r) \/ MountProof(r)
               \/ CreateHelper(r) \/ Prepare(r)
        PROVE  FilesInv'
    <2>1. UNCHANGED dirVars
      BY <1>3 DEF AcquireLister, ReuseLister, Discard, Acquire, MountProof, CreateHelper, Prepare
    <2>2. DirFits'
      BY <1>1, <2>1, OtherDirs
    <2>3. FilesFit'
      BY <1>1, <1>3, AcquireListerKeeps, ReuseKeeps, DiscardKeeps, AcquireKeeps, CreateKeeps,
         PrepareKeeps
    <2> QED
      BY <2>2, <2>3 DEF FilesInv
  <1>4. ASSUME NEW r \in Req,
               CreateExec(r) \/ StartExec(r) \/ SendTrailer(r) \/ InputFails(r) \/ ExecEnds(r)
               \/ ConnectionLost(r)
        PROVE  FilesInv'
    <2>1. UNCHANGED dirVars
      BY <1>4 DEF CreateExec, StartExec, SendTrailer, InputFails, ExecEnds, ConnectionLost
    <2>2. DirFits'
      BY <1>1, <2>1, OtherDirs
    <2>3. FilesFit'
      BY <1>1, <1>4, CreateExecKeeps, StartExecKeeps, InputKeeps, ExecEndsKeeps,
         ConnectionLostKeeps
    <2> QED
      BY <2>2, <2>3 DEF FilesInv
  <1>5. ASSUME NEW r \in Req,
               FinishList(r) \/ FinishOther(r) \/ RemoveHelper(r) \/ ActionDone(r) \/ Revoke(r)
        PROVE  FilesInv'
    <2>1. UNCHANGED dirVars
      BY <1>5 DEF FinishList, FinishOther, RemoveHelper, ActionDone, Revoke
    <2>2. DirFits'
      BY <1>1, <2>1, OtherDirs
    <2>3. FilesFit'
      BY <1>1, <1>5, FinishListKeeps, FinishKeeps, RemoveKeeps, ActionDoneKeeps, RevokeKeeps
    <2> QED
      BY <2>2, <2>3 DEF FilesInv
  <1>6. ASSUME NEW r \in Req, FinishUpload(r)
        PROVE  FilesInv'
    BY <1>1, <1>6, FinishKeeps, OtherDirs DEF FilesInv
  <1>7. ASSUME NEW h \in Helper, TimerFires(h) \/ TimerRuns(h) \/ RemoveLeftovers(h)
        PROVE  FilesInv'
    <2>1. UNCHANGED dirVars
      BY <1>7 DEF TimerFires, TimerRuns, RemoveLeftovers
    <2>2. DirFits'
      BY <1>1, <2>1, OtherDirs
    <2>3. FilesFit'
      BY <1>1, <1>7, TimerFiresKeeps, TimerRunsKeeps, LeftoverKeeps
    <2> QED
      BY <2>2, <2>3 DEF FilesInv
  <1>8. ASSUME NEW h \in Helper, CommandSteps(h) \/ UploadOpen(h)
        PROVE  FilesInv'
    BY <1>1, <1>8, CommandDirs, CommandsKeep, UploadOpenKeeps DEF FilesInv
  <1>9. ASSUME NEW n \in Names, GameWrites(n)
        PROVE  FilesInv'
    <2>1. /\ game' = game /\ linked' = linked
          /\ UNCHANGED <<helpers, pool, timer, file, holder, fence, allowed>>
      BY <1>9 DEF GameWrites, hostVars, poolVars
    <2>2. linked' \in BOOLEAN
      BY <1>1, <2>1 DEF FilesFit, FileTyped
    <2> QED
      BY <1>1, <1>9, <2>1, <2>2, FileHostKeeps, OtherDirs DEF FilesInv
  <1>10. ASSUME Replaced \/ PathSwapped
         PROVE  FilesInv'
    <2>1. /\ game' = game \/ game' = game + 1
          /\ linked' = linked \/ linked' = ~linked
          /\ UNCHANGED <<helpers, pool, timer, file, holder, fence, allowed>>
          /\ UNCHANGED dirVars
      BY <1>10 DEF Replaced, PathSwapped, poolVars
    <2>2. linked' \in BOOLEAN
      BY <1>1, <2>1 DEF FilesFit, FileTyped
    <2> QED
      BY <1>1, <2>1, <2>2, FileHostKeeps, OtherDirs DEF FilesInv
  <1>11. ASSUME CloseStorage \/ CrashPanel \/ LiftFence
         PROVE  FilesInv'
    <2>1. UNCHANGED dirVars
      BY <1>11 DEF CloseStorage, CrashPanel, LiftFence
    <2> QED
      BY <1>1, <1>11, <2>1, CloseStorageKeeps, CrashPanelKeeps, LiftKeeps, OtherDirs DEF FilesInv
  <1> QED
    BY <1>2, <1>3, <1>4, <1>5, <1>6, <1>7, <1>8, <1>9, <1>10, <1>11 DEF FilesNext, CommandSteps

\* The invariant implies what is promised.
LEMMA HelpersAreConfined == FilesInv => HelpersConfined
  <1> SUFFICES ASSUME FilesInv
               PROVE  HelpersConfined
    OBVIOUS
  <1>1. FilesFit /\ DirFits /\ FileTyped
    BY DEF FilesInv, FilesFit
  <1>2. FilesTypeOK
    BY <1>1 DEF FileTyped, DirFits, FilesTypeOK, HelperRecords
  <1>3. ASSUME NEW r \in Req, file[r].pc \in {"exec", "created", "wait"}
        PROVE  LET h == helpers[file[r].helper] IN
               h.gen = file[r].want /\ h.live /\ ~h.elsewhere
    BY <1>1, <1>3 DEF FilesFit, UsesFit, UsingSteps
  <1>4. pool # Nothing => helpers[pool].live /\ \A r \in Req : file[r].helper # pool
    BY <1>1 DEF FilesFit, KeptFits
  <1>5. \A h \in Helper : CmdRunning(h) /\ CmdOp(h) \in FileChanges => holder = CmdOf(h) \/ ~fence
    BY <1>1 DEF FilesFit, ChangeFits, CmdChanging, CmdOwned
  <1> QED
    BY <1>2, <1>3, <1>4, <1>5 DEF HelpersConfined

LEMMA ChangesAreWholeThen == FilesInv => ChangesAreWhole
  BY DEF FilesInv, DirFits, ChangesAreWhole

LEMMA FilesInvHolds == FilesSpec => []FilesInv
  BY FilesStart, FilesStutter, FilesKeep, PTL DEF FilesSpec

(* A file request works on the container it was authorised for, and no     *)
(* command that changes files outlives its request's locks, through lost   *)
(* connections, failed removals, idle helpers and crashes (Files): for any *)
(* numbers of requests, helpers and names, and however often the           *)
(* environment interferes.                                                 *)
THEOREM HelpersConfinedHolds == FilesSpec => []HelpersConfined
  BY FilesInvHolds, HelpersAreConfined, PTL

(* For the same, uploads are whole, nothing the game created meanwhile is  *)
(* replaced, and nothing changes for a request that lost its access before *)
(* its last check (Files).                                                 *)
THEOREM ChangesAreWholeHolds == FilesSpec => []ChangesAreWhole
  BY FilesInvHolds, ChangesAreWholeThen, PTL

=============================================================================
