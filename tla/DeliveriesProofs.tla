-------------------------- MODULE DeliveriesProofs --------------------------
(***************************************************************************)
(* Proofs about the delivery of notifications, for any number of           *)
(* deliveries, destinations, settings, workers, faults and crashes.  The   *)
(* inductive invariant IInv says what the worker that holds the mutex      *)
(* knows of the row it carries, and who will look at a row that is due.    *)
(***************************************************************************)
EXTENDS Deliveries, FiniteSetTheorems, TLAPS

\* The steps of a worker that holds the mutex, and those of a turn of the loop.
Turn == {"activate", "claim"} \cup InFlight
Holding == {"swap", "ready", "list", "next", "unlock"} \cup Turn

\* The mutex belongs to the one worker that is in a pass.
OneHolder == \A w \in Workers : pc[w] \in Holding <=> mutex = w

\* The variables of a turn are set in it, step by step, and reset after it.
TurnIsWhole ==
    /\ (\A w \in Workers : pc[w] \notin Turn) =>
          cur = 0 /\ outcome = "none" /\ active = 0 /\ cancelSend = "none"
    /\ \A w \in Workers : pc[w] \in Turn =>
          /\ cur \in Deliveries
          /\ active = IF pc[w] = "activate" THEN 0 ELSE cur
          /\ cancelSend = "none" <=> pc[w] \in {"activate", "claim", "arm"}
          /\ outcome = "ok" => pc[w] = "record"
          /\ pc[w] \in {"activate", "claim"} => read.state = "queued"

\* A row that may still be sent has attempts left, and editing counts edits.
CountersFit ==
    /\ \A d \in Deliveries : rows[d].state \in {"absent", "queued"} => rows[d].retries < MaxCycle
    /\ \A t \in Destinations : editing[t] <= edits

\* A retry that may still commit read a row that nobody has claimed since.
ClickIsOlder ==
    /\ click.at # "idle" => click.id \in Deliveries
    /\ click.at = "checked" =>
          /\ click.row.state \in {"failed", "queued"}
          /\ \A w \in Workers : pc[w] \in InFlight /\ click.id = cur => click.row.last # claimedAt

\* The messages told are those of ended rows and the one about to be recorded.
ToldOnce ==
    \A d \in Deliveries :
        told[d] = IF rows[d].state \in {"delivered", "purged"} \/ (outcome = "ok" /\ cur = d)
                  THEN 1 ELSE 0

\* Something has still to make App.deliver look, at a destination or at all.
Awake(t) == wake \/ again \/ editing[t] > 0

\* Whoever goes through with an old setting, or gives a row back, is followed
\* by another pass.
ReleaseIsSeen ==
    \A w \in Workers :
        /\ pc[w] \in Turn \ {"activate", "release"} /\ config # settings[DestOf[cur]] => Awake(DestOf[cur])
        /\ pc[w] \in Turn /\ cancelSend = "cancelled" => Awake(DestOf[cur])
        /\ pc[w] = "release" /\ read.due = "now" => Awake(DestOf[cur])

\* The worker will come to the row in the pass it is in.
ComesTo(w, d) ==
    \/ pc[w] = "ready"
    \/ pc[w] = "list" /\ DestOf[d] \in ready
    \/ pc[w] \in {"next"} \cup Turn /\ d \in batch
    \/ pc[w] \in {"activate", "claim"} /\ cur = d /\ SameRow(rows[d], read)

DueIsSeen ==
    Last <= Limit =>
        \A d \in Deliveries :
            rows[d].state = "queued" /\ Ready(d) /\ rows[d].due = "now" =>
                Awake(DestOf[d]) \/ \E w \in Workers : ComesTo(w, d)

\* App.deliverAgain is set for somebody who will read it.
AgainIsRead ==
    again => \/ caller = "stored" \/ mutex # "free"
             \/ \E w \in Workers : pc[w] \in {"load", "trylock"}

IInv ==
    /\ TypeOK
    /\ OneHolder
    /\ TurnIsWhole
    /\ CountersFit
    /\ SendOwnsRow
    /\ ClickIsOlder
    /\ ToldOnce
    /\ OldSettingsEnd
    /\ ReleaseIsSeen
    /\ DueIsSeen
    /\ AgainIsRead

----------------------------------------------------------------------------
(* Operators                                                               *)

\* Of three stamps one is neither the row's nor remembered by a retry.
LEMMA FreshStampFits ==
    ASSUME TypeOK, NEW d \in Deliveries
    PROVE  FreshStamp(d) \in Stamps \ {0} /\ FreshStamp(d) \notin {rows[d].last, click.row.last}
<1>1. \E n \in Stamps \ {0} : n \notin {rows[d].last, click.row.last}
  BY DEF Stamps
<1> QED BY <1>1 DEF FreshStamp

\* A pass that takes as many deliveries as there are takes all that are due.
LEMMA AllListed ==
    ASSUME TypeOK, DeliveriesAssumption, Last <= Limit, NEW d \in Deliveries,
           rows[d].state = "queued", rows[d].due # "no", DestOf[d] \in ready
    PROVE  d \in Listed
<1> DEFINE due == {e \in Deliveries : rows[e].state = "queued" /\ rows[e].due # "no" /\ DestOf[e] \in ready}
<1>1. {e \in due : e < d} \in SUBSET (1..(d - 1)) /\ d - 1 \in Nat
  BY DEF Deliveries
<1>2. IsFiniteSet(1..(d - 1)) /\ Cardinality(1..(d - 1)) = d - 1
  BY <1>1, FS_Interval
<1>3. Cardinality({e \in due : e < d}) <= d - 1 /\ Cardinality({e \in due : e < d}) \in Nat
  BY <1>1, <1>2, FS_Subset, FS_CardinalityType
<1>4. Cardinality({e \in due : e < d}) < Limit
  BY <1>1, <1>3 DEF Deliveries
<1> QED BY <1>4 DEF Listed

----------------------------------------------------------------------------
(* Queueing, and administrators.                                           *)

LEMMA NotifyKeeps == ASSUME IInv, NEW e \in Events, Notify(e) PROVE IInv'
<1> USE DeliveriesAssumption DEF IInv, Notify, appVars, turnVars, passVars, sendVars, adminVars,
    Ready
<1>1. TypeOK'
  <2>1. rows' \in [Deliveries -> Rows] /\ read' \in Rows
    BY DEF TypeOK, Rows
  <2>2. wake' \in BOOLEAN /\ again' \in BOOLEAN
    BY DEF TypeOK
  <2> QED BY <2>1, <2>2 DEF TypeOK
<1>2. OneHolder' BY DEF OneHolder
<1>3. TurnIsWhole' BY DEF TurnIsWhole
<1>4. CountersFit' BY DEF CountersFit, TypeOK, Rows
<1>5. SendOwnsRow' BY DEF SendOwnsRow, TurnIsWhole, Turn
<1>6. ClickIsOlder' BY DEF ClickIsOlder
<1>7. ToldOnce'
  <2>1. \A d \in Deliveries : \/ rows'[d].state = rows[d].state
                               \/ {rows[d].state, rows'[d].state} = {"absent", "queued"}
    BY DEF TypeOK, Rows
  <2> QED BY <2>1 DEF ToldOnce
<1>8. OldSettingsEnd' BY DEF OldSettingsEnd
<1>9. ReleaseIsSeen' BY DEF ReleaseIsSeen, Awake
<1>10. DueIsSeen'
  <2>1. \A d \in Deliveries : rows'[d] = rows[d] \/ wake'
    OBVIOUS
  <2> QED BY <2>1 DEF DueIsSeen, ComesTo, Awake
<1>11. AgainIsRead' BY DEF AgainIsRead
<1> QED BY <1>1, <1>2, <1>3, <1>4, <1>5, <1>6, <1>7, <1>8, <1>9, <1>10, <1>11

LEMMA SaveSettingsKeeps ==
    ASSUME IInv, NEW t \in Destinations, NEW c \in Configs \cup {"off"}, SaveSettings(t, c)
    PROVE  IInv'
<1> USE DeliveriesAssumption DEF IInv, SaveSettings, appVars, turnVars, passVars, sendVars, Ready
<1>1. TypeOK'
  BY DEF TypeOK, CountersFit
<1>2. OneHolder' BY DEF OneHolder
<1>3. TurnIsWhole' BY DEF TurnIsWhole
<1>4. CountersFit' BY DEF CountersFit, TypeOK
<1>5. SendOwnsRow' BY DEF SendOwnsRow
<1>6. ClickIsOlder' BY DEF ClickIsOlder
<1>7. ToldOnce' BY DEF ToldOnce
<1>8. OldSettingsEnd' BY DEF OldSettingsEnd, TypeOK
<1>9. ReleaseIsSeen' BY DEF ReleaseIsSeen, Awake, TypeOK
<1>10. DueIsSeen' BY DEF DueIsSeen, ComesTo, Awake, TypeOK
<1>11. AgainIsRead' BY DEF AgainIsRead
<1> QED BY <1>1, <1>2, <1>3, <1>4, <1>5, <1>6, <1>7, <1>8, <1>9, <1>10, <1>11

LEMMA CancelSendKeeps == ASSUME IInv, NEW t \in Destinations, CancelSend(t) PROVE IInv'
<1> USE DeliveriesAssumption DEF IInv, CancelSend, dbVars, appVars, turnVars, passVars, Ready
<1>1. TypeOK'
  BY DEF TypeOK
<1>2. OneHolder' BY DEF OneHolder
<1>3. TurnIsWhole' BY DEF TurnIsWhole
<1>4. CountersFit' BY DEF CountersFit, TypeOK
<1>5. SendOwnsRow' BY DEF SendOwnsRow
<1>6. ClickIsOlder' BY DEF ClickIsOlder
<1>7. ToldOnce' BY DEF ToldOnce
<1>8. OldSettingsEnd' BY DEF OldSettingsEnd, TurnIsWhole, InFlight, Turn
<1>9. ReleaseIsSeen' BY DEF ReleaseIsSeen, Awake
<1>10. DueIsSeen' BY DEF DueIsSeen, Awake
<1>11. AgainIsRead' BY DEF AgainIsRead
<1> QED BY <1>1, <1>2, <1>3, <1>4, <1>5, <1>6, <1>7, <1>8, <1>9, <1>10, <1>11

LEMMA RetryReadKeeps == ASSUME IInv, NEW d \in Deliveries, RetryRead(d) PROVE IInv'
<1> USE DeliveriesAssumption DEF IInv, RetryRead, dbVars, appVars, turnVars, passVars, sendVars,
    Ready
<1>1. TypeOK'
  <2>1. click' \in [at : {"idle", "read", "checked"}, id : 0..Last, row : Rows]
    BY DEF TypeOK, Deliveries
  <2> QED BY <2>1 DEF TypeOK
<1>2. OneHolder' BY DEF OneHolder
<1>3. TurnIsWhole' BY DEF TurnIsWhole
<1>4. CountersFit' BY DEF CountersFit
<1>5. SendOwnsRow' BY DEF SendOwnsRow
<1>6. ClickIsOlder' BY DEF ClickIsOlder
<1>7. ToldOnce' BY DEF ToldOnce
<1>8. OldSettingsEnd' BY DEF OldSettingsEnd
<1>9. ReleaseIsSeen' BY DEF ReleaseIsSeen, Awake
<1>10. DueIsSeen' BY DEF DueIsSeen, ComesTo, Awake
<1>11. AgainIsRead' BY DEF AgainIsRead
<1> QED BY <1>1, <1>2, <1>3, <1>4, <1>5, <1>6, <1>7, <1>8, <1>9, <1>10, <1>11

LEMMA TimePassesKeeps == ASSUME IInv, NEW d \in Deliveries, TimePasses(d) PROVE IInv'
<1> USE DeliveriesAssumption DEF IInv, TimePasses, appVars, turnVars, passVars, sendVars,
    adminVars, Ready
<1>1. TypeOK'
  <2>1. rows' \in [Deliveries -> Rows] /\ read' \in Rows
    BY DEF TypeOK, Rows
  <2> QED BY <2>1 DEF TypeOK
<1>2. OneHolder' BY DEF OneHolder
<1>3. TurnIsWhole' BY DEF TurnIsWhole
<1>4. CountersFit' BY DEF CountersFit
<1>5. SendOwnsRow' BY DEF SendOwnsRow
<1>6. ClickIsOlder' BY DEF ClickIsOlder
<1>7. ToldOnce' BY DEF ToldOnce
<1>8. OldSettingsEnd' BY DEF OldSettingsEnd
<1>9. ReleaseIsSeen' BY DEF ReleaseIsSeen, Awake
<1>10. DueIsSeen' BY DEF DueIsSeen, ComesTo, Awake
<1>11. AgainIsRead' BY DEF AgainIsRead
<1> QED BY <1>1, <1>2, <1>3, <1>4, <1>5, <1>6, <1>7, <1>8, <1>9, <1>10, <1>11

LEMMA RetryCheckKeeps == ASSUME IInv, RetryCheck PROVE IInv'
<1> USE DeliveriesAssumption DEF IInv, RetryCheck, dbVars, appVars, turnVars, passVars, sendVars,
    Ready
<1>1. TypeOK'
  BY DEF TypeOK, Rows, NoRow, NoClick, Stamps
<1>2. OneHolder' BY DEF OneHolder
<1>3. TurnIsWhole' BY DEF TurnIsWhole
<1>4. CountersFit' BY DEF CountersFit
<1>5. SendOwnsRow' BY DEF SendOwnsRow
<1>6. ClickIsOlder' BY DEF ClickIsOlder, TurnIsWhole, Retryable, NoClick, InFlight, Turn
<1>7. ToldOnce' BY DEF ToldOnce
<1>8. OldSettingsEnd' BY DEF OldSettingsEnd
<1>9. ReleaseIsSeen' BY DEF ReleaseIsSeen, Awake
<1>10. DueIsSeen' BY DEF DueIsSeen, ComesTo, Awake
<1>11. AgainIsRead' BY DEF AgainIsRead
<1> QED BY <1>1, <1>2, <1>3, <1>4, <1>5, <1>6, <1>7, <1>8, <1>9, <1>10, <1>11

LEMMA RetryCommitKeeps == ASSUME IInv, RetryCommit PROVE IInv'
<1> USE DeliveriesAssumption DEF IInv, RetryCommit, appVars, turnVars, passVars, sendVars, Ready
<1>1. TypeOK'
  <2>1. rows' \in [Deliveries -> Rows] /\ read' \in Rows
    BY DEF TypeOK, Rows
  <2>2. click' \in [at : {"idle", "read", "checked"}, id : 0..Last, row : Rows]
    BY DEF NoClick, NoRow, Rows, Stamps
  <2>3. wake' \in BOOLEAN /\ again' \in BOOLEAN
    BY DEF TypeOK
  <2> QED BY <2>1, <2>2, <2>3 DEF TypeOK
<1>2. OneHolder' BY DEF OneHolder
<1>3. TurnIsWhole' BY DEF TurnIsWhole
<1>4. CountersFit' BY DEF CountersFit, TypeOK, Rows
<1>5. SendOwnsRow' BY DEF SendOwnsRow, TurnIsWhole, ClickIsOlder, SameRow, TypeOK, Turn
<1>6. ClickIsOlder' BY DEF ClickIsOlder, NoClick
<1>7. ToldOnce' BY DEF ToldOnce, ClickIsOlder, SameRow, TypeOK, Rows
<1>8. OldSettingsEnd' BY DEF OldSettingsEnd
<1>9. ReleaseIsSeen' BY DEF ReleaseIsSeen, Awake
<1>10. DueIsSeen' BY DEF DueIsSeen, ComesTo, Awake
<1>11. AgainIsRead' BY DEF AgainIsRead
<1> QED BY <1>1, <1>2, <1>3, <1>4, <1>5, <1>6, <1>7, <1>8, <1>9, <1>10, <1>11

----------------------------------------------------------------------------
(* App.deliver.                                                            *)

LEMMA CallDeliverKeeps == ASSUME IInv, CallDeliver PROVE IInv'
<1> USE DeliveriesAssumption DEF IInv, CallDeliver, dbVars, turnVars, passVars, sendVars,
    adminVars, Ready
<1>1. TypeOK'
  <2>1. wake' \in BOOLEAN /\ again' \in BOOLEAN
    BY DEF TypeOK
  <2> QED BY <2>1 DEF TypeOK
<1>2. OneHolder' BY DEF OneHolder
<1>3. TurnIsWhole' BY DEF TurnIsWhole
<1>4. CountersFit' BY DEF CountersFit
<1>5. SendOwnsRow' BY DEF SendOwnsRow
<1>6. ClickIsOlder' BY DEF ClickIsOlder
<1>7. ToldOnce' BY DEF ToldOnce
<1>8. OldSettingsEnd' BY DEF OldSettingsEnd
<1>9. ReleaseIsSeen' BY DEF ReleaseIsSeen, Awake
<1>10. DueIsSeen' BY DEF DueIsSeen, Awake
<1>11. AgainIsRead' BY DEF AgainIsRead
<1> QED BY <1>1, <1>2, <1>3, <1>4, <1>5, <1>6, <1>7, <1>8, <1>9, <1>10, <1>11

LEMMA StartWorkerKeeps == ASSUME IInv, StartWorker PROVE IInv'
<1> USE DeliveriesAssumption DEF IInv, StartWorker, dbVars, turnVars, passVars, sendVars,
    adminVars, GoTo, Ready
<1>1. TypeOK'
  BY DEF TypeOK, Steps
<1>2. OneHolder' BY DEF OneHolder, TypeOK, Holding
<1>3. TurnIsWhole' BY DEF TurnIsWhole, TypeOK, InFlight, Turn
<1>4. CountersFit' BY DEF CountersFit
<1>5. SendOwnsRow' BY DEF SendOwnsRow, TypeOK, InFlight
<1>6. ClickIsOlder' BY DEF ClickIsOlder, TypeOK, InFlight
<1>7. ToldOnce' BY DEF ToldOnce
<1>8. OldSettingsEnd' BY DEF OldSettingsEnd, TypeOK
<1>9. ReleaseIsSeen' BY DEF ReleaseIsSeen, Awake, TypeOK, InFlight, Turn
<1>10. DueIsSeen' BY DEF DueIsSeen, ComesTo, Awake, TypeOK, InFlight, Turn
<1>11. AgainIsRead' BY DEF AgainIsRead
<1> QED BY <1>1, <1>2, <1>3, <1>4, <1>5, <1>6, <1>7, <1>8, <1>9, <1>10, <1>11

LEMMA CrashKeeps == ASSUME IInv, Crash PROVE IInv'
<1> USE DeliveriesAssumption DEF IInv, Crash, EndTurn, Ready, Late
<1>1. TypeOK'
  <2>1. rows' \in [Deliveries -> Rows] /\ read' \in Rows
    BY DEF TypeOK, Rows, NoRow, Stamps, CountersFit, TurnIsWhole
  <2>2. click' \in [at : {"idle", "read", "checked"}, id : 0..Last, row : Rows]
    BY DEF NoClick, NoRow, Rows, Stamps
  <2>3. wake' \in BOOLEAN /\ again' \in BOOLEAN
    OBVIOUS
  <2>4. pc' \in [Workers -> Steps]
    BY DEF Steps
  <2>5. told' \in [Deliveries -> Nat]
    BY DEF ToldOnce
  <2>6. cur' \in 0..Last /\ active' \in 0..Last
    <3>1. cur' \in Deliveries \cup {0, cur}
      OBVIOUS
    <3> QED BY <3>1
  <2>7. batch' \in SUBSET Deliveries /\ ready' \in SUBSET Destinations
    OBVIOUS
  <2>8. claimedAt' \in Stamps /\ config' \in Configs \cup {"off"}
    BY DEF Stamps
  <2> QED BY <2>1, <2>2, <2>3, <2>4, <2>5, <2>6, <2>7, <2>8 DEF TypeOK
<1>2. OneHolder' BY DEF OneHolder, InFlight, Turn, Holding
<1>3. TurnIsWhole' BY DEF TurnIsWhole, InFlight, Turn
<1>4. CountersFit' BY DEF CountersFit, TypeOK
<1>5. SendOwnsRow' BY DEF SendOwnsRow, InFlight
<1>6. ClickIsOlder' BY DEF ClickIsOlder, NoClick
<1>7. ToldOnce' BY DEF ToldOnce, TurnIsWhole, SendOwnsRow, Turn
<1>8. OldSettingsEnd' BY DEF OldSettingsEnd
<1>9. ReleaseIsSeen' BY DEF ReleaseIsSeen, InFlight, Turn
<1>10. DueIsSeen' BY DEF DueIsSeen
<1>11. AgainIsRead' BY DEF AgainIsRead
<1> QED BY <1>1, <1>2, <1>3, <1>4, <1>5, <1>6, <1>7, <1>8, <1>9, <1>10, <1>11

LEMMA SwapKeeps == ASSUME IInv, NEW w \in Workers, Swap(w) PROVE IInv'
<1> USE DeliveriesAssumption DEF IInv, Swap, dbVars, turnVars, passVars, sendVars, adminVars,
    unchangedButWorker, GoTo, Ready
<1>1. TypeOK'
  <2>1. wake' \in BOOLEAN /\ again' \in BOOLEAN
    BY DEF TypeOK
  <2>2. pc' \in [Workers -> Steps]
    BY DEF TypeOK, Steps
  <2> QED BY <2>1, <2>2 DEF TypeOK
<1>2. OneHolder' BY DEF OneHolder, Holding
<1>3. TurnIsWhole' BY DEF TurnIsWhole, InFlight, Turn
<1>4. CountersFit' BY DEF CountersFit
<1>5. SendOwnsRow' BY DEF SendOwnsRow, InFlight
<1>6. ClickIsOlder' BY DEF ClickIsOlder, InFlight
<1>7. ToldOnce' BY DEF ToldOnce
<1>8. OldSettingsEnd' BY DEF OldSettingsEnd
<1>9. ReleaseIsSeen' BY DEF OneHolder, ReleaseIsSeen, InFlight, Turn, Holding
<1>10. DueIsSeen' BY DEF DueIsSeen, ComesTo, Awake, TypeOK, InFlight, Turn
<1>11. AgainIsRead' BY DEF AgainIsRead
<1> QED BY <1>1, <1>2, <1>3, <1>4, <1>5, <1>6, <1>7, <1>8, <1>9, <1>10, <1>11

LEMMA UnlockKeeps == ASSUME IInv, NEW w \in Workers, Unlock(w) PROVE IInv'
<1> USE DeliveriesAssumption DEF IInv, Unlock, dbVars, turnVars, passVars, sendVars, adminVars,
    unchangedButWorker, GoTo, Ready
<1>1. TypeOK'
  BY DEF TypeOK, Steps
<1>2. OneHolder' BY DEF OneHolder, TypeOK, InFlight, Turn, Holding
<1>3. TurnIsWhole' BY DEF TurnIsWhole, InFlight, Turn
<1>4. CountersFit' BY DEF CountersFit
<1>5. SendOwnsRow' BY DEF SendOwnsRow, InFlight
<1>6. ClickIsOlder' BY DEF ClickIsOlder, InFlight
<1>7. ToldOnce' BY DEF ToldOnce
<1>8. OldSettingsEnd' BY DEF OldSettingsEnd
<1>9. ReleaseIsSeen' BY DEF ReleaseIsSeen, Awake, InFlight, Turn
<1>10. DueIsSeen' BY DEF DueIsSeen, ComesTo, Awake, InFlight, Turn
<1>11. AgainIsRead' BY DEF AgainIsRead, TypeOK
<1> QED BY <1>1, <1>2, <1>3, <1>4, <1>5, <1>6, <1>7, <1>8, <1>9, <1>10, <1>11

LEMMA LoadKeeps == ASSUME IInv, NEW w \in Workers, Load(w) PROVE IInv'
<1> USE DeliveriesAssumption DEF IInv, Load, dbVars, turnVars, passVars, sendVars, adminVars,
    unchangedButWorker, GoTo, Ready
<1>1. TypeOK'
  BY DEF TypeOK, Steps
<1>2. OneHolder' BY DEF OneHolder, InFlight, Turn, Holding
<1>3. TurnIsWhole' BY DEF TurnIsWhole, InFlight, Turn
<1>4. CountersFit' BY DEF CountersFit
<1>5. SendOwnsRow' BY DEF SendOwnsRow, InFlight
<1>6. ClickIsOlder' BY DEF ClickIsOlder, InFlight
<1>7. ToldOnce' BY DEF ToldOnce
<1>8. OldSettingsEnd' BY DEF OldSettingsEnd
<1>9. ReleaseIsSeen' BY DEF ReleaseIsSeen, Awake, InFlight, Turn
<1>10. DueIsSeen' BY DEF DueIsSeen, ComesTo, Awake, InFlight, Turn
<1>11. AgainIsRead' BY DEF AgainIsRead
<1> QED BY <1>1, <1>2, <1>3, <1>4, <1>5, <1>6, <1>7, <1>8, <1>9, <1>10, <1>11

LEMMA TryLockKeeps == ASSUME IInv, NEW w \in Workers, TryLock(w) PROVE IInv'
<1> USE DeliveriesAssumption DEF IInv, TryLock, dbVars, turnVars, passVars, sendVars, adminVars,
    unchangedButWorker, GoTo, Ready
<1>1. TypeOK'
  BY DEF TypeOK, Steps
<1>2. OneHolder' BY DEF OneHolder, TypeOK, InFlight, Turn, Holding
<1>3. TurnIsWhole' BY DEF TurnIsWhole, TypeOK, InFlight, Turn
<1>4. CountersFit' BY DEF CountersFit
<1>5. SendOwnsRow' BY DEF SendOwnsRow, TypeOK, InFlight
<1>6. ClickIsOlder' BY DEF ClickIsOlder, TypeOK, InFlight
<1>7. ToldOnce' BY DEF ToldOnce
<1>8. OldSettingsEnd' BY DEF OldSettingsEnd, TypeOK
<1>9. ReleaseIsSeen' BY DEF ReleaseIsSeen, Awake, TypeOK, InFlight, Turn
<1>10. DueIsSeen' BY DEF DueIsSeen, ComesTo, Awake, TypeOK, InFlight, Turn
<1>11. AgainIsRead' BY DEF AgainIsRead
<1> QED BY <1>1, <1>2, <1>3, <1>4, <1>5, <1>6, <1>7, <1>8, <1>9, <1>10, <1>11

----------------------------------------------------------------------------
(* A pass.                                                                 *)

LEMMA ReadReadyKeeps == ASSUME IInv, NEW w \in Workers, ReadReady(w) PROVE IInv'
<1> USE DeliveriesAssumption DEF IInv, ReadReady, appVars, turnVars, sendVars, adminVars,
    unchangedButPass, quiet, GoTo, Ready
<1>1. TypeOK'
  BY DEF TypeOK, Steps
<1>2. OneHolder' BY DEF OneHolder, Holding
<1>3. TurnIsWhole' BY DEF TurnIsWhole, InFlight, Turn
<1>4. CountersFit' BY DEF CountersFit
<1>5. SendOwnsRow' BY DEF SendOwnsRow, InFlight
<1>6. ClickIsOlder' BY DEF ClickIsOlder, InFlight
<1>7. ToldOnce' BY DEF ToldOnce
<1>8. OldSettingsEnd' BY DEF OldSettingsEnd
<1>9. ReleaseIsSeen' BY DEF ReleaseIsSeen, Awake, InFlight, Turn
<1>10. DueIsSeen' BY DEF DueIsSeen, ComesTo, Destinations
<1>11. AgainIsRead' BY DEF AgainIsRead
<1> QED BY <1>1, <1>2, <1>3, <1>4, <1>5, <1>6, <1>7, <1>8, <1>9, <1>10, <1>11

LEMMA ListKeeps == ASSUME IInv, NEW w \in Workers, List(w) PROVE IInv'
<1> USE DeliveriesAssumption DEF IInv, List, appVars, turnVars, sendVars, adminVars,
    unchangedButPass, quiet, GoTo, Ready
<1>1. TypeOK'
  <2>1. pc' \in [Workers -> Steps]
    BY DEF TypeOK, Steps
  <2>2. batch' \in SUBSET Deliveries /\ ready' \in SUBSET Destinations
    BY DEF TypeOK, Listed
  <2> QED BY <2>1, <2>2 DEF TypeOK
<1>2. OneHolder' BY DEF OneHolder, Holding
<1>3. TurnIsWhole' BY DEF TurnIsWhole, InFlight, Turn
<1>4. CountersFit' BY DEF CountersFit
<1>5. SendOwnsRow' BY DEF SendOwnsRow, InFlight
<1>6. ClickIsOlder' BY DEF ClickIsOlder, InFlight
<1>7. ToldOnce' BY DEF ToldOnce
<1>8. OldSettingsEnd' BY DEF OldSettingsEnd
<1>9. ReleaseIsSeen' BY DEF ReleaseIsSeen, Awake, InFlight, Turn
<1>10. DueIsSeen'
  <2> SUFFICES ASSUME Last <= Limit, NEW d \in Deliveries, rows[d].state = "queued", Ready(d),
      rows[d].due = "now"
               PROVE  Awake(DestOf[d])' \/ \E v \in Workers : ComesTo(v, d)'
    BY DEF DueIsSeen
  <2>1. pc' = [pc EXCEPT ![w] = "next"] /\ mutex = w /\ batch' = Listed
    BY DEF OneHolder, Holding
  <2>2. CASE Awake(DestOf[d])
    BY <2>2 DEF Awake
  <2>3. CASE \E v \in Workers : ComesTo(v, d)
    <3>1. DestOf[d] \in ready
      BY <2>1, <2>3 DEF ComesTo, OneHolder, Holding, Turn, InFlight
    <3>2. d \in Listed
      BY <3>1, AllListed
    <3>3. ComesTo(w, d)'
      BY <2>1, <3>2 DEF ComesTo, TypeOK
    <3> QED BY <3>3
  <2> QED BY <2>2, <2>3 DEF DueIsSeen
<1>11. AgainIsRead' BY DEF AgainIsRead
<1> QED BY <1>1, <1>2, <1>3, <1>4, <1>5, <1>6, <1>7, <1>8, <1>9, <1>10, <1>11

LEMMA NextRowKeeps == ASSUME IInv, NEW w \in Workers, NextRow(w) PROVE IInv'
<1> USE DeliveriesAssumption DEF IInv, NextRow, appVars, sendVars, adminVars, unchangedButPass,
    quiet, GoTo, Ready
<1>1. TypeOK'
  <2>1. rows' \in [Deliveries -> Rows] /\ read' \in Rows
    BY DEF TypeOK
  <2>2. pc' \in [Workers -> Steps]
    BY DEF TypeOK, Steps
  <2>3. cur' \in 0..Last /\ active' \in 0..Last
    <3>1. cur' \in Deliveries \cup {0, cur}
      OBVIOUS
    <3> QED BY <3>1 DEF TypeOK, Deliveries
  <2>4. batch' \in SUBSET Deliveries /\ ready' \in SUBSET Destinations
    BY DEF TypeOK
  <2> QED BY <2>1, <2>2, <2>3, <2>4 DEF TypeOK
<1>2. OneHolder' BY DEF OneHolder, TypeOK, Turn, Holding
<1>3. TurnIsWhole' BY DEF OneHolder, TurnIsWhole, TypeOK, InFlight, Turn, Holding
<1>4. CountersFit' BY DEF CountersFit
<1>5. SendOwnsRow' BY DEF OneHolder, SendOwnsRow, TypeOK, InFlight, Turn, Holding
<1>6. ClickIsOlder' BY DEF OneHolder, ClickIsOlder, TypeOK, InFlight, Turn, Holding
<1>7. ToldOnce' BY DEF OneHolder, ToldOnce, TurnIsWhole, Holding
<1>8. OldSettingsEnd' BY DEF OneHolder, OldSettingsEnd, TypeOK, InFlight, Turn, Holding
<1>9. ReleaseIsSeen' BY DEF OneHolder, ReleaseIsSeen, TurnIsWhole, TypeOK, InFlight, Turn, Holding
<1>10. DueIsSeen' BY DEF OneHolder, DueIsSeen, ComesTo, Awake, SameRow, TypeOK, Turn, Holding
<1>11. AgainIsRead' BY DEF AgainIsRead, TypeOK
<1> QED BY <1>1, <1>2, <1>3, <1>4, <1>5, <1>6, <1>7, <1>8, <1>9, <1>10, <1>11

LEMMA EndPassKeeps == ASSUME IInv, NEW w \in Workers, EndPass(w) PROVE IInv'
<1> USE DeliveriesAssumption DEF IInv, EndPass, appVars, turnVars, sendVars, adminVars,
    unchangedButPass, GoTo, Ready
<1>1. TypeOK'
  <2>1. rows' \in [Deliveries -> Rows] /\ read' \in Rows
    BY DEF TypeOK, Rows
  <2>2. pc' \in [Workers -> Steps]
    BY DEF TypeOK, Steps
  <2>3. batch' \in SUBSET Deliveries /\ ready' \in SUBSET Destinations
    OBVIOUS
  <2> QED BY <2>1, <2>2, <2>3 DEF TypeOK
<1>2. OneHolder' BY DEF OneHolder, Holding
<1>3. TurnIsWhole' BY DEF TurnIsWhole, InFlight, Turn
<1>4. CountersFit' BY DEF CountersFit
<1>5. SendOwnsRow' BY DEF SendOwnsRow, TurnIsWhole, InFlight, Turn
<1>6. ClickIsOlder' BY DEF ClickIsOlder, InFlight
<1>7. ToldOnce' BY DEF ToldOnce
<1>8. OldSettingsEnd' BY DEF OldSettingsEnd
<1>9. ReleaseIsSeen' BY DEF ReleaseIsSeen, Awake, InFlight, Turn
<1>10. DueIsSeen' BY DEF OneHolder, DueIsSeen, ComesTo, Awake, Holding
<1>11. AgainIsRead' BY DEF AgainIsRead
<1> QED BY <1>1, <1>2, <1>3, <1>4, <1>5, <1>6, <1>7, <1>8, <1>9, <1>10, <1>11

LEMMA ActivateKeeps == ASSUME IInv, NEW w \in Workers, Activate(w) PROVE IInv'
<1> USE DeliveriesAssumption DEF IInv, Activate, appVars, adminVars, unchangedButPass, quiet,
    EndTurn, GoTo, Ready
<1>1. TypeOK'
  <2>1. rows' \in [Deliveries -> Rows] /\ read' \in Rows
    BY DEF TypeOK, Rows, NoRow, Stamps
  <2>2. pc' \in [Workers -> Steps]
    BY DEF TypeOK, Steps
  <2>3. cur' \in 0..Last /\ active' \in 0..Last
    <3>1. cur' \in Deliveries \cup {0, cur}
      OBVIOUS
    <3> QED BY <3>1 DEF TypeOK
  <2>4. claimedAt' \in Stamps /\ config' \in Configs \cup {"off"}
    BY DEF TypeOK, TurnIsWhole, Turn, Stamps, Destinations
  <2> QED BY <2>1, <2>2, <2>3, <2>4 DEF TypeOK
<1>2. OneHolder' BY DEF OneHolder, TypeOK, Turn, Holding
<1>3. TurnIsWhole' BY DEF OneHolder, TurnIsWhole, TypeOK, InFlight, Turn, Holding
<1>4. CountersFit' BY DEF CountersFit
<1>5. SendOwnsRow' BY DEF OneHolder, SendOwnsRow, TypeOK, InFlight, Turn, Holding
<1>6. ClickIsOlder' BY DEF OneHolder, ClickIsOlder, TypeOK, InFlight, Turn, Holding
<1>7. ToldOnce' BY DEF ToldOnce, TurnIsWhole, Turn
<1>8. OldSettingsEnd' BY DEF OldSettingsEnd, TurnIsWhole, TypeOK, InFlight, Turn
<1>9. ReleaseIsSeen' BY DEF ReleaseIsSeen, TurnIsWhole, TypeOK, InFlight, Turn
<1>10. DueIsSeen' BY DEF DueIsSeen, ComesTo, Awake, TypeOK, Turn
<1>11. AgainIsRead' BY DEF AgainIsRead, TypeOK
<1> QED BY <1>1, <1>2, <1>3, <1>4, <1>5, <1>6, <1>7, <1>8, <1>9, <1>10, <1>11

LEMMA RowMoves ==
    ASSUME NEW r \in Rows, NEW stamp \in Stamps, NEW due \in {"no", "now", "late"}
    PROVE  [r EXCEPT !.last = stamp, !.due = due] \in Rows
BY DEF Rows

LEMMA ClaimKeeps == ASSUME IInv, NEW w \in Workers, Claim(w) PROVE IInv'
<1> USE DeliveriesAssumption DEF IInv, Claim, appVars, adminVars, unchangedButPass, EndTurn, GoTo,
    Ready
<1>0. cur \in Deliveries /\ (claimedAt' = FreshStamp(cur) => claimedAt' # click.row.last)
  BY FreshStampFits DEF TurnIsWhole, Turn
<1>1. TypeOK'
  <2>1. cur \in Deliveries BY DEF TurnIsWhole, Turn
  <2>2. claimedAt' \in Stamps BY <2>1, FreshStampFits DEF Stamps
  <2>3. rows' \in [Deliveries -> Rows]
    <3>1. rows[cur] \in Rows
      BY <2>1 DEF TypeOK
    <3>2. [rows[cur] EXCEPT !.last = claimedAt', !.due = "no"] \in Rows
      BY <2>2, <3>1, RowMoves
    <3> QED BY <2>1, <3>2 DEF TypeOK
  <2>4. pc' \in [Workers -> Steps] BY DEF TypeOK, Steps, InFlight
  <2>5. read' \in Rows /\ cur' \in 0..Last /\ active' \in 0..Last
    BY DEF TypeOK, Rows, NoRow, Stamps
  <2> QED BY <2>2, <2>3, <2>4, <2>5 DEF TypeOK
<1>2. OneHolder' BY DEF OneHolder, TypeOK, InFlight, Turn, Holding
<1>3. TurnIsWhole' BY DEF OneHolder, TurnIsWhole, TypeOK, InFlight, Turn, Holding
<1>4. CountersFit' BY DEF CountersFit, TypeOK, Rows
<1>5. SendOwnsRow'
  BY DEF OneHolder, SendOwnsRow, TurnIsWhole, SameRow, TypeOK, Rows, InFlight, Turn, Holding
<1>6. ClickIsOlder' BY <1>0 DEF OneHolder, ClickIsOlder, TypeOK, InFlight, Turn, Holding
<1>7. ToldOnce' BY DEF ToldOnce, TurnIsWhole, TypeOK, Rows, Steps, Turn
<1>8. OldSettingsEnd' BY DEF OldSettingsEnd, TurnIsWhole, TypeOK, InFlight, Turn
<1>9. ReleaseIsSeen' BY DEF OneHolder, ReleaseIsSeen, Awake, TypeOK, InFlight, Turn, Holding
<1>10. DueIsSeen' BY DEF DueIsSeen, ComesTo, Awake, TypeOK, Rows, InFlight, Turn
<1>11. AgainIsRead' BY DEF AgainIsRead, TypeOK
<1> QED BY <1>1, <1>2, <1>3, <1>4, <1>5, <1>6, <1>7, <1>8, <1>9, <1>10, <1>11

LEMMA ArmKeeps == ASSUME IInv, NEW w \in Workers, Arm(w) PROVE IInv'
<1> USE DeliveriesAssumption DEF IInv, Arm, appVars, turnVars, passVars, adminVars,
    unchangedButPass, quiet, GoTo, Ready
<1>1. TypeOK'
  BY DEF TypeOK, Steps, InFlight
<1>2. OneHolder' BY DEF OneHolder, InFlight, Turn, Holding
<1>3. TurnIsWhole' BY DEF OneHolder, TurnIsWhole, TypeOK, InFlight, Turn, Holding
<1>4. CountersFit' BY DEF CountersFit
<1>5. SendOwnsRow' BY DEF SendOwnsRow, InFlight
<1>6. ClickIsOlder' BY DEF ClickIsOlder, InFlight
<1>7. ToldOnce' BY DEF ToldOnce
<1>8. OldSettingsEnd' BY DEF OldSettingsEnd, TurnIsWhole, InFlight, Turn
<1>9. ReleaseIsSeen' BY DEF ReleaseIsSeen, Awake, InFlight, Turn
<1>10. DueIsSeen' BY DEF DueIsSeen, ComesTo, Awake, InFlight, Turn
<1>11. AgainIsRead' BY DEF AgainIsRead
<1> QED BY <1>1, <1>2, <1>3, <1>4, <1>5, <1>6, <1>7, <1>8, <1>9, <1>10, <1>11

LEMMA RereadKeeps == ASSUME IInv, NEW w \in Workers, Reread(w) PROVE IInv'
<1> USE DeliveriesAssumption DEF IInv, Reread, appVars, turnVars, passVars, sendVars, adminVars,
    unchangedButPass, quiet, GoTo, Ready
<1>1. TypeOK'
  BY DEF TypeOK, Steps, InFlight
<1>2. OneHolder' BY DEF OneHolder, InFlight, Turn, Holding
<1>3. TurnIsWhole' BY DEF TurnIsWhole, InFlight, Turn
<1>4. CountersFit' BY DEF CountersFit
<1>5. SendOwnsRow' BY DEF SendOwnsRow, InFlight
<1>6. ClickIsOlder' BY DEF ClickIsOlder, InFlight
<1>7. ToldOnce' BY DEF ToldOnce
<1>8. OldSettingsEnd' BY DEF OldSettingsEnd
<1>9. ReleaseIsSeen' BY DEF ReleaseIsSeen, Awake, InFlight, Turn
<1>10. DueIsSeen' BY DEF DueIsSeen, ComesTo, Awake, InFlight, Turn
<1>11. AgainIsRead' BY DEF AgainIsRead
<1> QED BY <1>1, <1>2, <1>3, <1>4, <1>5, <1>6, <1>7, <1>8, <1>9, <1>10, <1>11

LEMMA SendKeeps == ASSUME IInv, NEW w \in Workers, Send(w) PROVE IInv'
<1> USE DeliveriesAssumption DEF IInv, Send, appVars, sendVars, adminVars, unchangedButPass, GoTo,
    Ready
<1>1. TypeOK'
  <2>1. pc' \in [Workers -> Steps]
    BY DEF TypeOK, Steps, InFlight
  <2>2. told' \in [Deliveries -> Nat]
    BY DEF TypeOK, ToldOnce, TurnIsWhole, Turn, InFlight
  <2> QED BY <2>1, <2>2 DEF TypeOK
<1>2. OneHolder' BY DEF OneHolder, InFlight, Turn, Holding
<1>3. TurnIsWhole' BY DEF OneHolder, TurnIsWhole, TypeOK, InFlight, Turn, Holding
<1>4. CountersFit' BY DEF CountersFit
<1>5. SendOwnsRow' BY DEF SendOwnsRow, InFlight
<1>6. ClickIsOlder' BY DEF ClickIsOlder, InFlight
<1>7. ToldOnce' BY DEF ToldOnce, TurnIsWhole, SendOwnsRow, TypeOK, InFlight, Turn
<1>8. OldSettingsEnd' BY DEF OldSettingsEnd
<1>9. ReleaseIsSeen' BY DEF ReleaseIsSeen, Awake, InFlight, Turn
<1>10. DueIsSeen' BY DEF DueIsSeen, ComesTo, Awake, InFlight, Turn
<1>11. AgainIsRead' BY DEF AgainIsRead
<1> QED BY <1>1, <1>2, <1>3, <1>4, <1>5, <1>6, <1>7, <1>8, <1>9, <1>10, <1>11

LEMMA ReleaseKeeps == ASSUME IInv, NEW w \in Workers, Release(w) PROVE IInv'
<1> USE DeliveriesAssumption DEF IInv, Release, appVars, adminVars, unchangedButPass, finishSend,
    EndTurn, GoTo, Ready
<1>1. TypeOK'
  <2>1. rows' \in [Deliveries -> Rows] /\ read' \in Rows
    BY DEF TypeOK, Rows, NoRow, Stamps, TurnIsWhole, Turn, InFlight
  <2>2. pc' \in [Workers -> Steps]
    BY DEF TypeOK, Steps
  <2>3. cur' \in 0..Last /\ active' \in 0..Last
    <3>1. cur' \in Deliveries \cup {0, cur}
      OBVIOUS
    <3> QED BY <3>1
  <2>4. claimedAt' \in Stamps /\ config' \in Configs \cup {"off"}
    BY DEF Stamps
  <2> QED BY <2>1, <2>2, <2>3, <2>4 DEF TypeOK
<1>2. OneHolder' BY DEF OneHolder, InFlight, Turn, Holding
<1>3. TurnIsWhole' BY DEF OneHolder, TurnIsWhole, TypeOK, InFlight, Turn, Holding
<1>4. CountersFit' BY DEF CountersFit, TypeOK
<1>5. SendOwnsRow' BY DEF OneHolder, SendOwnsRow, TypeOK, InFlight, Turn, Holding
<1>6. ClickIsOlder' BY DEF OneHolder, ClickIsOlder, TypeOK, InFlight, Turn, Holding
<1>7. ToldOnce' BY DEF ToldOnce, TurnIsWhole, TypeOK, InFlight, Turn
<1>8. OldSettingsEnd' BY DEF OneHolder, OldSettingsEnd, InFlight, Turn, Holding
<1>9. ReleaseIsSeen' BY DEF OneHolder, ReleaseIsSeen, TypeOK, InFlight, Turn, Holding
<1>10. DueIsSeen'
  BY DEF DueIsSeen, ReleaseIsSeen, TurnIsWhole, ComesTo, Awake, TypeOK, InFlight, Turn
<1>11. AgainIsRead' BY DEF AgainIsRead
<1> QED BY <1>1, <1>2, <1>3, <1>4, <1>5, <1>6, <1>7, <1>8, <1>9, <1>10, <1>11

LEMMA RecordKeeps == ASSUME IInv, NEW w \in Workers, Record(w) PROVE IInv'
<1> USE DeliveriesAssumption DEF IInv, Record, appVars, adminVars, unchangedButPass, finishSend,
    EndTurn, GoTo, Ready
<1>1. TypeOK'
  <2>1. rows' \in [Deliveries -> Rows] /\ read' \in Rows
    BY DEF TypeOK, Rows, TurnIsWhole, SendOwnsRow, InFlight, Turn
  <2>2. pc' \in [Workers -> Steps]
    BY DEF TypeOK, Steps
  <2>3. cur' \in 0..Last /\ active' \in 0..Last
    <3>1. cur' \in Deliveries \cup {0, cur}
      OBVIOUS
    <3> QED BY <3>1
  <2>4. claimedAt' \in Stamps /\ config' \in Configs \cup {"off"}
    BY DEF Stamps
  <2> QED BY <2>1, <2>2, <2>3, <2>4 DEF TypeOK
<1>2. OneHolder' BY DEF OneHolder, InFlight, Turn, Holding
<1>3. TurnIsWhole' BY DEF OneHolder, TurnIsWhole, TypeOK, InFlight, Turn, Holding
<1>4. CountersFit' BY DEF CountersFit, TypeOK, Rows
<1>5. SendOwnsRow' BY DEF OneHolder, SendOwnsRow, TypeOK, InFlight, Turn, Holding
<1>6. ClickIsOlder' BY DEF OneHolder, ClickIsOlder, TypeOK, InFlight, Turn, Holding
<1>7. ToldOnce' BY DEF ToldOnce, SendOwnsRow, TypeOK, InFlight
<1>8. OldSettingsEnd' BY DEF OneHolder, OldSettingsEnd, InFlight, Turn, Holding
<1>9. ReleaseIsSeen' BY DEF OneHolder, ReleaseIsSeen, TypeOK, InFlight, Turn, Holding
<1>10. DueIsSeen' BY DEF DueIsSeen, ComesTo, Awake, TypeOK
<1>11. AgainIsRead' BY DEF AgainIsRead
<1> QED BY <1>1, <1>2, <1>3, <1>4, <1>5, <1>6, <1>7, <1>8, <1>9, <1>10, <1>11

LEMMA PassFailsKeeps == ASSUME IInv, NEW w \in Workers, PassFails(w) PROVE IInv'
<1> USE DeliveriesAssumption DEF IInv, PassFails, appVars, turnVars, sendVars, adminVars,
    unchangedButPass, finishSend, EndTurn, GoTo, Ready, Late
<1>1. TypeOK'
  <2>1. rows' \in [Deliveries -> Rows] /\ read' \in Rows
    BY DEF TypeOK, Rows, NoRow, Stamps, TurnIsWhole
  <2>2. pc' \in [Workers -> Steps]
    BY DEF TypeOK, Steps, InFlight
  <2>3. told' \in [Deliveries -> Nat]
    BY DEF TypeOK, ToldOnce
  <2>4. cur' \in 0..Last /\ active' \in 0..Last
    <3>1. cur' \in Deliveries \cup {0, cur}
      OBVIOUS
    <3> QED BY <3>1 DEF TypeOK
  <2>5. batch' \in SUBSET Deliveries /\ ready' \in SUBSET Destinations
    BY DEF TypeOK
  <2>6. claimedAt' \in Stamps /\ config' \in Configs \cup {"off"}
    BY DEF TypeOK, Stamps
  <2> QED BY <2>1, <2>2, <2>3, <2>4, <2>5, <2>6 DEF TypeOK
<1>2. OneHolder' BY DEF OneHolder, TypeOK, InFlight, Turn, Holding
<1>3. TurnIsWhole' BY DEF OneHolder, TurnIsWhole, TypeOK, InFlight, Turn, Holding
<1>4. CountersFit'
  <2>1. \A d \in Deliveries : rows'[d] = rows[d] \/ rows'[d] = [rows[d] EXCEPT !.due = "late"]
    BY DEF TypeOK
  <2>2. \A d \in Deliveries : rows'[d].state = rows[d].state /\ rows'[d].retries = rows[d].retries
    BY <2>1 DEF TypeOK, Rows
  <2> QED BY <2>2 DEF CountersFit
<1>5. SendOwnsRow' BY DEF OneHolder, SendOwnsRow, TypeOK, Rows, InFlight, Turn, Holding
<1>6. ClickIsOlder' BY DEF OneHolder, ClickIsOlder, TypeOK, InFlight, Turn, Holding
<1>7. ToldOnce'
  <2>1. \A d \in Deliveries : rows'[d].state = rows[d].state
    <3>1. \A d \in Deliveries : rows'[d] = rows[d] \/ rows'[d] = [rows[d] EXCEPT !.due = "late"]
      BY DEF TypeOK
    <3> QED BY <3>1 DEF TypeOK, Rows
  <2>2. CASE pc[w] \in {"release", "record"}
    <3>1. cur \in Deliveries /\ rows[cur].state = "queued"
      BY <2>2 DEF TurnIsWhole, SendOwnsRow, InFlight, Turn
    <3>2. told' = [told EXCEPT ![cur] = @ - (IF outcome = "ok" THEN 1 ELSE 0)] /\ outcome' = "none"
      BY <2>2
    <3>3. told[cur] = IF outcome = "ok" THEN 1 ELSE 0
      BY <3>1 DEF ToldOnce
    <3> QED BY <2>1, <3>1, <3>2, <3>3 DEF ToldOnce, TypeOK
  <2>3. CASE pc[w] \in {"activate", "claim"}
    <3>1. outcome # "ok" /\ outcome' = "none" /\ told' = told
      BY <2>3 DEF TurnIsWhole, Turn
    <3> QED BY <2>1, <3>1 DEF ToldOnce
  <2>4. CASE pc[w] \notin {"release", "record", "activate", "claim"}
    <3>1. UNCHANGED <<outcome, cur, told>>
      BY <2>4
    <3> QED BY <2>1, <3>1 DEF ToldOnce
  <2> QED BY <2>2, <2>3, <2>4
<1>8. OldSettingsEnd' BY DEF OneHolder, OldSettingsEnd, TypeOK, InFlight, Turn, Holding
<1>9. ReleaseIsSeen'
  <2>1. UNCHANGED <<settings, wake, again, editing, config, cancelSend>> \/ \A v \in Workers : pc'[v] \notin Turn
    BY DEF OneHolder, TypeOK, Holding, Turn, InFlight
  <2>2. CASE \A v \in Workers : pc'[v] \notin Turn
    BY <2>2 DEF ReleaseIsSeen, Turn, InFlight
  <2>3. CASE \E v \in Workers : pc'[v] \in Turn
    <3>1. pc[w] = "reread" /\ pc' = [pc EXCEPT ![w] = "release"] /\ read' = Late(read) /\
        UNCHANGED <<cur, config, cancelSend>>
      BY <2>3 DEF OneHolder, TypeOK, Holding, Turn, InFlight
    <3>2. read'.due # "now"
      BY <3>1
    <3> QED BY <3>1, <3>2 DEF ReleaseIsSeen, Awake, Turn, InFlight
  <2> QED BY <2>2, <2>3
<1>10. DueIsSeen'
  <2> SUFFICES ASSUME Last <= Limit, NEW d \in Deliveries,
                      rows'[d].state = "queued", Ready(d)', rows'[d].due = "now"
               PROVE  Awake(DestOf[d])' \/ \E v \in Workers : ComesTo(v, d)'
    BY DEF DueIsSeen
  <2>1. rows'[d] = rows[d]
    BY DEF TypeOK, Rows
  <2>2. Awake(DestOf[d])' \/ \E v \in Workers : ComesTo(v, d)
    BY <2>1 DEF DueIsSeen, Awake
  <2>3. ASSUME NEW v \in Workers, ComesTo(v, d), v # w PROVE ComesTo(v, d)'
    <3>1. pc'[v] = pc[v] /\ pc[v] \in Holding /\ pc[w] \in Holding
      BY <2>3 DEF ComesTo, TypeOK, Holding, Turn, InFlight
    <3> QED BY <2>3, <3>1 DEF OneHolder
  <2>4. ASSUME ComesTo(w, d) PROVE ComesTo(w, d)'
    <3>0. rows'[d] # Late(rows[d])
      BY DEF TypeOK, Rows
    <3>1. pc[w] \notin {"ready", "list"}
      BY <3>0
    <3>2. CASE pc[w] = "next"
      <4>1. PICK e \in Deliveries : batch' = batch \ {e} /\ rows' = [rows EXCEPT ![e] = Late(@)] /\ pc' = pc
        BY <3>2
      <4>2. e # d
        BY <3>0, <4>1 DEF TypeOK
      <4> QED BY <2>4, <3>2, <4>1, <4>2 DEF ComesTo, Turn, InFlight
    <3>3. CASE pc[w] \in {"activate", "claim"}
      <4>1. cur # d
        BY <3>0, <3>3 DEF TypeOK
      <4>2. pc'[w] = "next" /\ batch' = batch
        BY <3>3 DEF TypeOK
      <4> QED BY <2>4, <3>3, <4>1, <4>2 DEF ComesTo
    <3>4. CASE pc[w] \in {"reread", "release", "record"}
      <4>1. pc'[w] \in {"next", "release"} /\ batch' = batch /\ d \in batch
        BY <2>4, <3>4 DEF ComesTo, TypeOK
      <4> QED BY <4>1 DEF ComesTo, Turn, InFlight
    <3> QED BY <3>1, <3>2, <3>3, <3>4
  <2> QED BY <2>2, <2>3, <2>4
<1>11. AgainIsRead' BY DEF AgainIsRead, TypeOK
<1> QED BY <1>1, <1>2, <1>3, <1>4, <1>5, <1>6, <1>7, <1>8, <1>9, <1>10, <1>11

----------------------------------------------------------------------------
(* The invariant of the specification.                                     *)

LEMMA InitIInv == Init => IInv
<1> SUFFICES ASSUME Init PROVE IInv
  OBVIOUS
<1> USE DeliveriesAssumption DEF Init
<1>1. TypeOK
  <2>1. NoRow \in Rows
    BY DEF NoRow, Rows, Stamps
  <2>2. NoClick \in [at : {"idle", "read", "checked"}, id : 0..Last, row : Rows]
    BY <2>1 DEF NoClick
  <2>3. Last \in Nat /\ MaxEdits \in Nat /\ MaxClicks \in Nat /\ MaxFaults \in Nat
        /\ MaxCrashes \in Nat
    BY DEF DeliveriesAssumption
  <2>4. cur \in 0..Last /\ active \in 0..Last /\ edits \in 0..MaxEdits /\ clicks \in 0..MaxClicks
    BY <2>3
  <2>5. faults \in 0..MaxFaults /\ crashes \in 0..MaxCrashes
    BY <2>3
  <2>6. editing \in [Destinations -> 0..MaxEdits] /\ told \in [Deliveries -> Nat]
    BY <2>3
  <2>7. rows \in [Deliveries -> Rows] /\ pc \in [Workers -> Steps]
    BY <2>1 DEF Steps
  <2>8. wake \in BOOLEAN /\ again \in BOOLEAN
    OBVIOUS
  <2>9. ready \in SUBSET Destinations /\ batch \in SUBSET Deliveries
    OBVIOUS
  <2>10. click \in [at : {"idle", "read", "checked"}, id : 0..Last, row : Rows]
    BY <2>2
  <2>11. settings \in [Destinations -> Configs \cup {"off"}] /\ mutex \in Workers \cup {"free"}
    OBVIOUS
  <2> QED BY <2>1, <2>4, <2>5, <2>6, <2>7, <2>8, <2>9, <2>10, <2>11 DEF TypeOK, Stamps
<1>2. OneHolder /\ TurnIsWhole
  BY DEF OneHolder, TurnIsWhole, Holding, Turn, InFlight
<1>3. CountersFit /\ SendOwnsRow /\ ClickIsOlder /\ ToldOnce
  BY DEF CountersFit, SendOwnsRow, ClickIsOlder, ToldOnce, NoRow, NoClick, Turn, InFlight
<1>4. OldSettingsEnd /\ ReleaseIsSeen /\ DueIsSeen /\ AgainIsRead
  BY DEF OldSettingsEnd, ReleaseIsSeen, DueIsSeen, AgainIsRead, NoRow, Turn, InFlight
<1> QED BY <1>1, <1>2, <1>3, <1>4 DEF IInv

LEMMA PassKeeps == ASSUME IInv, NEW w \in Workers, Pass(w) PROVE IInv'
  BY ReadReadyKeeps, ListKeeps, NextRowKeeps, EndPassKeeps, ActivateKeeps, ClaimKeeps, ArmKeeps,
     RereadKeeps, SendKeeps, ReleaseKeeps, RecordKeeps, PassFailsKeeps
  DEF Pass

LEMMA WorkerKeeps == ASSUME IInv, NEW w \in Workers, Worker(w) PROVE IInv'
  BY SwapKeeps, UnlockKeeps, LoadKeeps, TryLockKeeps, PassKeeps DEF Worker

LEMMA StutterKeeps == ASSUME IInv, UNCHANGED vars PROVE IInv'
<1> USE DEF vars, dbVars, appVars, turnVars, passVars, sendVars, adminVars, IInv
<1>1. TypeOK'
  BY DEF TypeOK
<1>2. OneHolder' /\ TurnIsWhole' /\ CountersFit' /\ SendOwnsRow'
  BY DEF OneHolder, TurnIsWhole, CountersFit, SendOwnsRow
<1>3. ClickIsOlder' /\ ToldOnce' /\ OldSettingsEnd'
  BY DEF ClickIsOlder, ToldOnce, OldSettingsEnd
<1>4. ReleaseIsSeen' /\ DueIsSeen' /\ AgainIsRead'
  BY DEF ReleaseIsSeen, DueIsSeen, AgainIsRead, Awake, ComesTo, Ready, SameRow
<1> QED BY <1>1, <1>2, <1>3, <1>4

LEMMA NextIInv == IInv /\ [Next]_vars => IInv'
<1> SUFFICES ASSUME IInv, [Next]_vars PROVE IInv'
  OBVIOUS
<1>1. CASE \E e \in Events : Notify(e)
  BY <1>1, NotifyKeeps
<1>2. CASE \E t \in Destinations : CancelSend(t) \/ \E c \in Configs \cup {"off"} : SaveSettings(t, c)
  BY <1>2, CancelSendKeeps, SaveSettingsKeeps
<1>3. CASE \E d \in Deliveries : RetryRead(d) \/ TimePasses(d)
  BY <1>3, RetryReadKeeps, TimePassesKeeps
<1>4. CASE RetryCheck \/ RetryCommit
  BY <1>4, RetryCheckKeeps, RetryCommitKeeps
<1>5. CASE CallDeliver \/ StartWorker
  BY <1>5, CallDeliverKeeps, StartWorkerKeeps
<1>6. CASE \E w \in Workers : Worker(w)
  BY <1>6, WorkerKeeps
<1>7. CASE Crash
  BY <1>7, CrashKeeps
<1>8. CASE UNCHANGED vars
  BY <1>8, StutterKeeps
<1> QED BY <1>1, <1>2, <1>3, <1>4, <1>5, <1>6, <1>7, <1>8 DEF Next

LEMMA Invariance == Spec => []IInv
  BY InitIInv, NextIInv, PTL DEF Spec

\* What the invariant says of a state in which nothing moves but the clock.
LEMMA IdleHasNothingDue == IInv => NothingWaitsForTick
<1> SUFFICES ASSUME IInv, Idle, Last <= Limit, NEW d \in Deliveries,
                    rows[d].state = "queued", Ready(d), rows[d].due = "now"
             PROVE  FALSE
  BY DEF NothingWaitsForTick
<1>1. mutex = "free"
  BY DEF IInv, TypeOK, OneHolder, Idle, Holding, Turn, InFlight
<1>2. ~again
  BY <1>1 DEF IInv, AgainIsRead, Idle
<1>3. \A w \in Workers : ~ComesTo(w, d)
  BY DEF ComesTo, Idle, Turn, InFlight
<1>4. Awake(DestOf[d])
  BY <1>3 DEF IInv, DueIsSeen
<1> QED BY <1>2, <1>4 DEF Awake, Idle, Destinations

\* Between its claim and its record a send owns its row, no message that
\* Deliver could record is sent twice, nothing goes out under settings that
\* were replaced but what Configure cancels, and no delivery that is due waits
\* for a tick while the loop of App.deliver is idle: for any number of
\* deliveries, workers, edits, clicks, faults and crashes.
THEOREM SendsAreSingleHolds == Spec => []SendsAreSingle
<1>1. IInv => SendsAreSingle
  <2> SUFFICES ASSUME IInv PROVE SendsAreSingle
    OBVIOUS
  <2>1. NoDuplicates
    BY DEF NoDuplicates, IInv, ToldOnce
  <2> QED BY <2>1, IdleHasNothingDue DEF SendsAreSingle, IInv
<1> QED BY <1>1, Invariance, PTL
=============================================================================
