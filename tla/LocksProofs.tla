----------------------------- MODULE LocksProofs -----------------------------
(***************************************************************************)
(* Proofs about the lock table, its callers (LockClients) and the          *)
(* operation queue (Runner), for every set of keys and callers and for any *)
(* number of jobs, requests, lanes and restarts.                           *)
(*                                                                         *)
(* The inductive invariant of the callers is ClientsInv: besides the       *)
(* properties it says what a caller that is about to sleep knows           *)
(* (AskedStillHold).  That of the queue is IInv: it relates a row to the   *)
(* goroutine that carries it out, the locks to the handlers that act, and  *)
(* says what a starting process may find.                                  *)
(***************************************************************************)
EXTENDS LockClients, Runner, TLAPS, FiniteSetTheorems

----------------------------------------------------------------------------
(* The lock table: what overlaps, and what Acquire and a release preserve *)

\* overlaps answers the same whichever key comes first, and every key
\* overlaps itself.
LEMMA OverlapsSymmetric ==
    ASSUME NEW k, NEW l
    PROVE  Overlaps(k, l) <=> Overlaps(l, k)
BY DEF Overlaps

LEMMA OverlapsReflexive ==
    ASSUME NEW k
    PROVE  Overlaps(k, k)
BY DEF Overlaps

\* Acquire succeeds only on keys that nobody holds, nor anything they overlap.
LEMMA OkMeansFree ==
    ASSUME NEW keys \in SUBSET Keys, NEW recovering \in BOOLEAN,
           Answer(keys, recovering) = "ok"
    PROVE  \A k \in Keys, w \in keys : Overlaps(w, k) => active[k] = NoHolder
BY DEF Answer, Conflicting

\* The holders in someone's way are holders.
LEMMA ConflictingAreHolders ==
    ASSUME TableTypeOK, NEW keys
    PROVE  Conflicting(keys) \in SUBSET Holders
BY DEF TableTypeOK, Conflicting

\* What Take does whether or not the holder passed a cancel function.
Takes(h, keys) ==
    /\ active' = [k \in Keys |-> IF k \in keys THEN h ELSE active[k]]
    /\ background' \in {background \cup {h}, background \ {h}}
    /\ cancelled' = cancelled \ {h}

\* A successful Acquire by a holder of nothing takes no key away from anyone.
LEMMA TakeKeeps ==
    ASSUME TableTypeOK,
           NEW h \in Holders, NEW keys \in SUBSET Keys,
           NEW recovering \in BOOLEAN, Answer(keys, recovering) = "ok",
           Takes(h, keys), Held(h) = {},
           NEW w
    PROVE  /\ Conflicting(w) \subseteq Conflicting(w)'
           /\ h \notin Conflicting(w)
<1>1. \A k \in Keys : active[k] # NoHolder => active'[k] = active[k]
  <2>1. \A k \in keys : active[k] = NoHolder
    BY OkMeansFree, OverlapsReflexive
  <2> QED BY <2>1 DEF Takes
<1>2. Conflicting(w) \subseteq Conflicting(w)'
  BY <1>1 DEF Conflicting
<1>3. h \notin Conflicting(w)
  BY DEF Conflicting, Held
<1> QED BY <1>2, <1>3

\* Acquire keeps overlapping keys with one holder.
LEMMA TakeExcludes ==
    ASSUME TableTypeOK, Exclusion,
           NEW h \in Holders, NEW keys \in SUBSET Keys,
           NEW recovering \in BOOLEAN, Answer(keys, recovering) = "ok",
           Takes(h, keys)
    PROVE  Exclusion'
<1> SUFFICES ASSUME NEW k \in Keys, NEW l \in Keys,
                    active'[k] # NoHolder, active'[l] # NoHolder, Overlaps(k, l)
             PROVE  active'[k] = active'[l]
  BY DEF Exclusion, Overlaps, IsPath, IsPrefixOf
<1>1. \A i \in Keys : active'[i] = IF i \in keys THEN h ELSE active[i]
  BY DEF Takes
<1>2. \A i \in Keys, w \in keys : Overlaps(w, i) => active[i] = NoHolder
  BY OkMeansFree
<1>3. CASE k \in keys
  BY <1>1, <1>2, <1>3
<1>4. CASE l \in keys
  BY <1>1, <1>2, <1>4, OverlapsSymmetric
<1>5. CASE k \notin keys /\ l \notin keys
  BY <1>1, <1>5 DEF Exclusion
<1> QED BY <1>3, <1>4, <1>5

\* A release keeps overlapping keys with one holder.
LEMMA ReleaseExcludes ==
    ASSUME TableTypeOK, Exclusion, NEW h \in Holders,
           active' = [k \in Keys |-> IF active[k] = h THEN NoHolder ELSE active[k]]
    PROVE  Exclusion'
BY DEF TableTypeOK, Exclusion, Overlaps, IsPath, IsPrefixOf

----------------------------------------------------------------------------
(* The callers of the table *)

\* A caller that met only background work, and has seen no release since, is
\* about to cancel a holder that is still in its way.
AskedStillHold ==
    \A c \in Clients :
        pc[c] = "cancel" /\ ~signalled[c] => Conflicting(want[c]) \cap asked[c] # {}

ClientsInv ==
    /\ ClientsTypeOK
    /\ Exclusion
    /\ AllOrNothing
    /\ AskedStillHold
    /\ SleepsOnCancelledWork
    /\ DrainIsTold

----------------------------------------------------------------------------
(* The invariant *)

\* The constants are as the code uses them.
LEMMA ClientsFit ==
    /\ Clients \subseteq Holders /\ Recovery \in Holders
    /\ \A keys \in KeySets : keys \in SUBSET Keys
BY ClientsAssumption

LEMMA ClientsInvInit == ClientsInit => ClientsInv
BY HoldersAssumption, ClientsFit
   DEF ClientsInit, TableInit, ClientsInv, ClientsTypeOK, TableTypeOK, Exclusion, AllOrNothing, Held,
       AskedStillHold, SleepsOnCancelledWork, DrainIsTold

\* A client that holds nothing takes all of the keys it asked for.
LEMMA TakePreserves ==
    ASSUME ClientsInv, NEW h \in Holders, NEW keys \in SUBSET Keys, NEW recovering \in BOOLEAN,
           pc[h] \in {"idle", "try"},
           Answer(keys, recovering) = "ok",
           Takes(h, keys),
           pc' = [pc EXCEPT ![h] = "hold"],
           want' = [want EXCEPT ![h] = keys],
           UNCHANGED <<signalled, fences, asked, drain>>
    PROVE  ClientsInv'
<1>1. ClientsTypeOK'
  BY DEF ClientsInv, ClientsTypeOK, TableTypeOK, Takes
<1>2. Exclusion'
  BY TakeExcludes DEF ClientsInv, ClientsTypeOK
<1>3. \A k \in Keys : active[k] # h
  BY DEF ClientsInv, AllOrNothing, Held
<1>4. \A k \in keys : active[k] = NoHolder
  BY OkMeansFree, OverlapsReflexive
<1>5. AllOrNothing'
  BY <1>3, <1>4, HoldersAssumption DEF ClientsInv, ClientsTypeOK, TableTypeOK, AllOrNothing, Held, Takes
<1>6. \A w : Conflicting(w) \subseteq Conflicting(w)' /\ h \notin Conflicting(w)
  BY <1>3, TakeKeeps DEF ClientsInv, ClientsTypeOK, Held
<1>7. AskedStillHold'
  BY <1>6, ClientsFit DEF ClientsInv, ClientsTypeOK, AskedStillHold
<1>8. SleepsOnCancelledWork'
  BY <1>6, ClientsFit DEF ClientsInv, ClientsTypeOK, SleepsOnCancelledWork, Takes
<1>9. DrainIsTold'
  BY <1>4 DEF ClientsInv, DrainIsTold, ClientsTypeOK, TableTypeOK, Takes
<1> QED BY <1>1, <1>2, <1>5, <1>7, <1>8, <1>9 DEF ClientsInv

\* Every step of a caller, of the startup recovery and of shutdown.
LEMMA ClientsInvNext == ClientsInv /\ [ClientsNext]_clientVars => ClientsInv'
<1> SUFFICES ASSUME ClientsInv, [ClientsNext]_clientVars PROVE ClientsInv'
  OBVIOUS
<1> USE ClientsFit
<1>1. ASSUME NEW c \in Clients, Acquire(c) PROVE ClientsInv'
  <2>1. PICK keys \in KeySets : /\ pc[c] = "idle"
                                /\ Answer(keys, FALSE) = "ok"
                                /\ Take(c, keys, c \in Background)
                                /\ pc' = [pc EXCEPT ![c] = "hold"]
                                /\ want' = [want EXCEPT ![c] = keys]
                                /\ UNCHANGED <<signalled, fences, asked, drain>>
    BY <1>1 DEF Acquire
  <2>2. Takes(c, keys) BY <2>1 DEF Take, Takes
  <2> QED BY <2>1, <2>2, TakePreserves
<1>2. CASE AcquireForRecovery
  <2>1. PICK keys \in KeySets : /\ pc[Recovery] = "idle"
                                /\ Answer(keys, TRUE) = "ok"
                                /\ Take(Recovery, keys, FALSE)
                                /\ pc' = [pc EXCEPT ![Recovery] = "hold"]
                                /\ want' = [want EXCEPT ![Recovery] = keys]
                                /\ UNCHANGED <<signalled, fences, asked, drain>>
    BY <1>2 DEF AcquireForRecovery
  <2>2. Takes(Recovery, keys) BY <2>1 DEF Take, Takes
  <2> QED BY <2>1, <2>2, TakePreserves
<1>3. ASSUME NEW c \in Clients, TryOK(c) PROVE ClientsInv'
  <2>1. want' = [want EXCEPT ![c] = want[c]] /\ want[c] \in SUBSET Keys
    BY <1>3 DEF TryOK, ClientsInv, ClientsTypeOK
  <2>2. Takes(c, want[c]) BY <1>3 DEF TryOK, Take, Takes
  <2> QED BY <1>3, <2>1, <2>2, TakePreserves DEF TryOK
<1>4. ASSUME NEW c \in Clients, Begin(c) PROVE ClientsInv'
  <2> USE <1>4 DEF Begin, NextRelease, ClientsInv
  <2>1. ClientsTypeOK' BY DEF ClientsTypeOK, TableTypeOK
  <2>2. Exclusion' BY DEF Exclusion
  <2>3. AllOrNothing' BY DEF AllOrNothing, Held, ClientsTypeOK
  <2>4. AskedStillHold' BY DEF AskedStillHold, Conflicting, ClientsTypeOK, TableTypeOK
  <2>5. SleepsOnCancelledWork' BY DEF SleepsOnCancelledWork, Conflicting, ClientsTypeOK, TableTypeOK
  <2>6. DrainIsTold' BY DEF DrainIsTold
  <2> QED BY <2>1, <2>2, <2>3, <2>4, <2>5, <2>6
<1>5. ASSUME NEW c \in Clients, TryRefused(c) PROVE ClientsInv'
  <2> USE <1>5 DEF TryRefused, tableVars, ClientsInv
  <2>1. ClientsTypeOK' BY DEF ClientsTypeOK, TableTypeOK
  <2>2. Exclusion' BY DEF Exclusion
  <2>3. AllOrNothing' BY DEF AllOrNothing, Held, ClientsTypeOK
  <2>4. AskedStillHold' BY DEF AskedStillHold, Conflicting, ClientsTypeOK
  <2>5. SleepsOnCancelledWork' BY DEF SleepsOnCancelledWork, Conflicting, ClientsTypeOK
  <2>6. DrainIsTold' BY DEF DrainIsTold
  <2> QED BY <2>1, <2>2, <2>3, <2>4, <2>5, <2>6
<1>6. ASSUME NEW c \in Clients, TryBackground(c) PROVE ClientsInv'
  <2> USE <1>6 DEF TryBackground, tableVars, ClientsInv
  <2>1. ClientsTypeOK' BY ConflictingAreHolders DEF ClientsTypeOK, TableTypeOK
  <2>2. Exclusion' BY DEF Exclusion
  <2>3. AllOrNothing' BY DEF AllOrNothing, Held, ClientsTypeOK
  <2>4. Conflicting(want[c]) # {} BY DEF Answer
  <2>5. AskedStillHold' BY <2>4 DEF AskedStillHold, Conflicting, ClientsTypeOK
  <2>6. SleepsOnCancelledWork' BY DEF SleepsOnCancelledWork, Conflicting, ClientsTypeOK
  <2>7. DrainIsTold' BY DEF DrainIsTold
  <2> QED BY <2>1, <2>2, <2>3, <2>5, <2>6, <2>7
<1>7. ASSUME NEW c \in Clients, CancelHolders(c) PROVE ClientsInv'
  <2> USE <1>7 DEF CancelHolders, ClientsInv
  <2>1. ClientsTypeOK' BY DEF ClientsTypeOK, TableTypeOK
  <2>2. Exclusion' BY DEF Exclusion
  <2>3. AllOrNothing' BY DEF AllOrNothing, Held, ClientsTypeOK
  <2>4. AskedStillHold' BY DEF AskedStillHold, Conflicting, ClientsTypeOK
  <2>5. SleepsOnCancelledWork'
    BY DEF SleepsOnCancelledWork, AskedStillHold, Conflicting, ClientsTypeOK
  <2>6. DrainIsTold' BY DEF DrainIsTold
  <2> QED BY <2>1, <2>2, <2>3, <2>4, <2>5, <2>6
<1>8. ASSUME NEW c \in Clients, Woken(c) PROVE ClientsInv'
  <2> USE <1>8 DEF Woken, NextRelease, ClientsInv
  <2>1. ClientsTypeOK' BY DEF ClientsTypeOK, TableTypeOK
  <2>2. Exclusion' BY DEF Exclusion
  <2>3. AllOrNothing' BY DEF AllOrNothing, Held, ClientsTypeOK
  <2>4. AskedStillHold' BY DEF AskedStillHold, Conflicting, ClientsTypeOK, TableTypeOK
  <2>5. SleepsOnCancelledWork' BY DEF SleepsOnCancelledWork, Conflicting, ClientsTypeOK, TableTypeOK
  <2>6. DrainIsTold' BY DEF DrainIsTold
  <2> QED BY <2>1, <2>2, <2>3, <2>4, <2>5, <2>6
<1>9. ASSUME NEW c \in Clients, GiveUp(c) PROVE ClientsInv'
  <2> USE <1>9 DEF GiveUp, tableVars, ClientsInv
  <2>1. ClientsTypeOK' BY DEF ClientsTypeOK, TableTypeOK
  <2>2. Exclusion' BY DEF Exclusion
  <2>3. AllOrNothing' BY DEF AllOrNothing, Held, ClientsTypeOK
  <2>4. AskedStillHold' BY DEF AskedStillHold, Conflicting, ClientsTypeOK
  <2>5. SleepsOnCancelledWork' BY DEF SleepsOnCancelledWork, Conflicting, ClientsTypeOK
  <2>6. DrainIsTold' BY DEF DrainIsTold
  <2> QED BY <2>1, <2>2, <2>3, <2>4, <2>5, <2>6
<1>10. ASSUME NEW c \in Holders, Done(c) PROVE ClientsInv'
  <2> USE <1>10 DEF Done, Release, ClientsInv
  <2>1. ClientsTypeOK' BY DEF ClientsTypeOK, TableTypeOK
  <2>2. Exclusion' BY DEF Exclusion, ClientsTypeOK, TableTypeOK
  <2>3. AllOrNothing' BY HoldersAssumption DEF AllOrNothing, Held, ClientsTypeOK, TableTypeOK
  <2>4. AskedStillHold' BY DEF AskedStillHold
  <2>5. SleepsOnCancelledWork' BY DEF SleepsOnCancelledWork
  <2>6. DrainIsTold' BY DEF DrainIsTold
  <2> QED BY <2>1, <2>2, <2>3, <2>4, <2>5, <2>6
<1>11. CASE Fence \/ Lift
  BY <1>11 DEF Fence, Lift, ClientsInv, ClientsTypeOK, TableTypeOK, Exclusion, AllOrNothing, Held,
             AskedStillHold, SleepsOnCancelledWork, DrainIsTold, Conflicting
<1>12. CASE Drained
  BY <1>12 DEF Drained, tableVars, ClientsInv, ClientsTypeOK, TableTypeOK, Exclusion, AllOrNothing, Held,
             AskedStillHold, SleepsOnCancelledWork, DrainIsTold, Conflicting
<1>13. CASE UNCHANGED clientVars
  BY <1>13 DEF clientVars, tableVars, ClientsInv, ClientsTypeOK, TableTypeOK, Exclusion, AllOrNothing, Held,
             AskedStillHold, SleepsOnCancelledWork, DrainIsTold, Conflicting
<1> QED
  BY <1>1, <1>2, <1>3, <1>4, <1>5, <1>6, <1>7, <1>8, <1>9, <1>10, <1>11, <1>12, <1>13 DEF ClientsNext

\* The invariant holds in every state, however callers interleave.
LEMMA ClientsInvariance == ClientsSpec => []ClientsInv
BY ClientsInvInit, ClientsInvNext, PTL DEF ClientsSpec

----------------------------------------------------------------------------
(* Results *)

\* The table and its callers keep their types.
THEOREM ClientsTypeCorrect == ClientsSpec => []ClientsTypeOK
<1>1. ClientsInv => ClientsTypeOK BY DEF ClientsInv
<1> QED BY <1>1, ClientsInvariance, PTL

\* Overlapping keys never have two holders, for any keys and any number of
\* callers: the check in acquire covers parents and children of a path.
THEOREM KeysExclusive == ClientsSpec => []Exclusion
<1>1. ClientsInv => Exclusion BY DEF ClientsInv
<1> QED BY <1>1, ClientsInvariance, PTL

\* A caller holds all the keys of its call or none of them.
THEOREM HoldsAllOrNothing == ClientsSpec => []AllOrNothing
<1>1. ClientsInv => AllOrNothing BY DEF ClientsInv
<1> QED BY <1>1, ClientsInvariance, PTL

\* No wakeup is lost in AcquirePreempting: whoever sleeps is blocked by work
\* that was asked to stop and has not released yet.  And shutdown does not
\* wait for a table that is empty already.
THEOREM NoLostWakeup == ClientsSpec => []WaitersAreTold
<1>1. ClientsInv => WaitersAreTold BY DEF ClientsInv, WaitersAreTold
<1> QED BY <1>1, ClientsInvariance, PTL

----------------------------------------------------------------------------
(* The promise *)

\* Nothing is held at first.
LEMMA PromiseInit == ClientsInit => Promise!Init
BY HoldersAssumption DEF ClientsInit, TableInit, Promise!Init, Held

\* A successful acquire is a grant: the caller had nothing, everything it asked
\* for was free, and nobody else's keys change.
LEMMA TakeGrants ==
    ASSUME ClientsInv, NEW h \in Holders, NEW keys \in SUBSET Keys, NEW recovering \in BOOLEAN,
           pc[h] \in {"idle", "try"},
           Answer(keys, recovering) = "ok",
           Takes(h, keys)
    PROVE  Promise!Next
<1>1. \A k \in Keys : active[k] # h
  BY DEF ClientsInv, AllOrNothing, Held
<1>2. \A k \in keys : active[k] = NoHolder
  BY OkMeansFree, OverlapsReflexive
<1>3. Held(h) = {}
  BY <1>1 DEF Held
<1>4. \A o \in Holders \ {h} : \A k \in keys, l \in Held(o) : ~Overlaps(k, l)
  BY OkMeansFree, HoldersAssumption DEF Held
<1>5. \A o \in Holders : Held(o)' = IF o = h THEN keys ELSE Held(o)
  BY <1>1, <1>2, HoldersAssumption DEF Held, Takes, ClientsInv, ClientsTypeOK, TableTypeOK
<1>6. Promise!Free(h, keys)
  BY <1>4 DEF Promise!Free
<1>7. [c \in Holders |-> Held(c)]' = [[c \in Holders |-> Held(c)] EXCEPT ![h] = keys]
  BY <1>5
<1>8. Promise!Grant(h, keys)
  BY <1>3, <1>6, <1>7 DEF Promise!Grant
<1> QED BY <1>8 DEF Promise!Next

\* Every step is a grant, a return or nothing at all to those who hold keys.
LEMMA PromiseNext ==
    ClientsInv /\ [ClientsNext]_clientVars => [Promise!Next]_([c \in Holders |-> Held(c)])
<1> SUFFICES ASSUME ClientsInv, [ClientsNext]_clientVars
             PROVE  Promise!Next \/ UNCHANGED [c \in Holders |-> Held(c)]
  OBVIOUS
<1> USE ClientsFit
<1>1. ASSUME NEW c \in Clients, Acquire(c) PROVE Promise!Next
  <2>1. PICK keys \in KeySets : /\ pc[c] = "idle"
                                /\ Answer(keys, FALSE) = "ok"
                                /\ Take(c, keys, c \in Background)
    BY <1>1 DEF Acquire
  <2>2. Takes(c, keys) BY <2>1 DEF Take, Takes
  <2> QED BY <2>1, <2>2, TakeGrants
<1>2. CASE AcquireForRecovery
  <2>1. PICK keys \in KeySets : /\ pc[Recovery] = "idle"
                                /\ Answer(keys, TRUE) = "ok"
                                /\ Take(Recovery, keys, FALSE)
    BY <1>2 DEF AcquireForRecovery
  <2>2. Takes(Recovery, keys) BY <2>1 DEF Take, Takes
  <2> QED BY <2>1, <2>2, TakeGrants
<1>3. ASSUME NEW c \in Clients, TryOK(c) PROVE Promise!Next
  <2>1. want[c] \in SUBSET Keys BY DEF ClientsInv, ClientsTypeOK
  <2>2. Takes(c, want[c]) BY <1>3 DEF TryOK, Take, Takes
  <2> QED BY <1>3, <2>1, <2>2, TakeGrants DEF TryOK
<1>4. ASSUME NEW c \in Holders, Done(c) PROVE Promise!Next
  <2>1. \A o \in Holders : Held(o)' = IF o = c THEN {} ELSE Held(o)
    BY <1>4, HoldersAssumption DEF Done, Release, Held, ClientsInv, ClientsTypeOK, TableTypeOK
  <2>2. Promise!Return(c)
    BY <2>1 DEF Promise!Return
  <2> QED BY <2>2 DEF Promise!Next
<1>5. ASSUME active' = active PROVE UNCHANGED [c \in Holders |-> Held(c)]
  BY <1>5 DEF Held
<1>6. ASSUME NEW c \in Clients,
             Begin(c) \/ TryRefused(c) \/ TryBackground(c) \/ CancelHolders(c)
                 \/ Woken(c) \/ GiveUp(c)
      PROVE  active' = active
  BY <1>6 DEF Begin, TryRefused, TryBackground, CancelHolders, Woken, GiveUp, tableVars
<1>7. ASSUME Fence \/ Lift \/ Drained \/ UNCHANGED clientVars PROVE active' = active
  BY <1>7 DEF Fence, Lift, Drained, clientVars, tableVars
<1> QED BY <1>1, <1>2, <1>3, <1>4, <1>5, <1>6, <1>7 DEF ClientsNext

\* The lock table implements what it promises: seen from outside, its callers
\* are granted whole sets of keys, one at a time and only while they are free.
THEOREM TableKeepsPromise == ClientsSpec => ImplementsExclusive
BY PromiseInit, PromiseNext, ClientsInvariance, PTL DEF ClientsSpec, ImplementsExclusive, Promise!Spec
----------------------------------------------------------------------------
(* The operation queue *)

\* The steps of a goroutine whose row says running, those before its handler
\* acts, and those of a job that was sent back to the queue.
Busy == {"run", "acquire", "conflict", "decide", "locked", "act", "finish", "requeue"}
Early == {"run", "acquire", "conflict", "decide", "locked", "requeue"}
Returned == {"park", "yield", "reread"}

\* A goroutine agrees with its row.
RowsAgree ==
    \A j \in Jobs :
        /\ status[j] = "none" <=> request[j] = NoRequest
        /\ jpc[j] \in Busy => status[j] = "running"
        /\ jpc[j] \in Returned => status[j] = "queued"
        /\ jpc[j] # "none" => status[j] # "none"
        /\ j \in snapshot => status[j] # "none"

\* What has not acted yet, and may still act.
Fresh ==
    \A j \in Jobs :
        /\ runs[j] <= 1
        /\ status[j] \in {"none", "queued"} => runs[j] = 0
        /\ jpc[j] \in Early => runs[j] = 0

\* Whoever acts, or is about to, holds its keys.
ActorsHold ==
    \A j \in Jobs :
        jpc[j] = "locked" \/ Acting(j) => \A k \in JobKeys(j) : active[k] = j

\* Before the process serves, nothing runs and nothing is held but what
\* recovery took; recovery has before it exactly the rows left running.
StartsAlone ==
    /\ fences = IF phase = "recovering" THEN 1 ELSE 0
    /\ recovery.at # "off" => phase = "recovering"
    /\ phase \in {"down", "recovering"} =>
          /\ loop = "off"
          /\ \A j \in Jobs : jpc[j] = "none"
          /\ \A k \in Keys :
                active[k] = NoHolder \/ (recovery.at = "reconcile" /\ active[k] = recovery.job)
    /\ recovery.at # "off" => recovery.left = {j \in Jobs : status[j] = "running"}
    /\ recovery.at \in {"reconcile", "record"} => recovery.job \in recovery.left

\* While the process serves, a running row has a goroutine that will end it.
RunningIsBusy ==
    phase = "serving" =>
        \A j \in Jobs : status[j] = "running" => jpc[j] \in Busy

\* A lane's load counts the goroutines in it.
InLane(lane) == {j \in Jobs : jpc[j] # "none" /\ Lane(j) = lane}
LoadIsCount ==
    /\ claimed = {j \in Jobs : jpc[j] # "none"}
    /\ \A lane \in Lanes : laneLoad[lane] = Cardinality(InLane(lane))

IInv ==
    /\ TypeOK
    /\ Exclusion
    /\ RowsAgree
    /\ Fresh
    /\ ActorsHold
    /\ StartsAlone
    /\ RunningIsBusy
    /\ LoadIsCount
    /\ OneOperationPerServer
    /\ FenceIsUnseen


----------------------------------------------------------------------------
(* The constants and the initial state *)

LEMMA ConstantsFit ==
    /\ Jobs \subseteq Nat /\ IsFiniteSet(Jobs)
    /\ Jobs \subseteq Holders /\ Outside \cup Warnings \subseteq Holders
    /\ Jobs \cap (Outside \cup Warnings) = {}
    /\ NoHolder \notin Holders
    /\ NoRequest \notin Requests
    /\ \A r \in Requests : KeysOf[r.server] \in SUBSET Keys /\ r.lane \in Lanes
    /\ MaxStarts \in Nat
BY RunnerAssumption, HoldersAssumption DEF Lanes

LEMMA InitIInv == Init => IInv
<1> SUFFICES ASSUME Init PROVE IInv
  OBVIOUS
<1> USE ConstantsFit DEF Init, TableInit, NoProcess, NotRecovering, NoLoad, Nobody
<1>1. TypeOK
  <2>1. TableTypeOK BY DEF TableTypeOK
  <2>2. /\ jpc \in [Jobs -> JobSteps] /\ result \in [Jobs -> Results]
        /\ status \in [Jobs -> Statuses]
    BY DEF JobSteps, Results, Statuses
  <2>3. recovery \in [at : {"off", "next", "reconcile", "record"},
                      left : SUBSET Jobs, job : Jobs \cup {0}]
    OBVIOUS
  <2>4. starts \in 0..MaxStarts OBVIOUS
  <2>5. laneLoad \in [Lanes -> Nat] /\ runs \in [Jobs -> Nat] OBVIOUS
  <2>6. blockers \in [Jobs -> SUBSET Holders] /\ settled \in [Jobs -> BOOLEAN] OBVIOUS
  <2> QED BY <2>1, <2>2, <2>3, <2>4, <2>5, <2>6 DEF TypeOK
<1>2. Exclusion BY DEF Exclusion
<1>3. RowsAgree BY DEF RowsAgree, Busy, Returned
<1>4. Fresh BY DEF Fresh, Early
<1>5. ActorsHold BY DEF ActorsHold, Acting
<1>6. StartsAlone BY DEF StartsAlone
<1>7. RunningIsBusy BY DEF RunningIsBusy
<1>8. LoadIsCount
  <2>1. \A lane \in Lanes : InLane(lane) = {} BY DEF InLane
  <2> QED BY <2>1, FS_EmptySet DEF LoadIsCount
<1>9. OneOperationPerServer /\ FenceIsUnseen BY DEF OneOperationPerServer, FenceIsUnseen
<1> QED BY <1>1, <1>2, <1>3, <1>4, <1>5, <1>6, <1>7, <1>8, <1>9 DEF IInv

----------------------------------------------------------------------------
(* Steps of a job *)

\* A goroutine moves on, and changes neither rows nor locks.
LEMMA JobMoves ==
    ASSUME IInv, TypeOK', FenceIsUnseen',
           NEW j \in Jobs, NEW s \in JobSteps,
           jpc' = [jpc EXCEPT ![j] = s],
           jpc[j] # "none", s \notin {"none", "locked", "act"},
           s \in Busy => jpc[j] \in Busy,
           s \in Early => jpc[j] \in Early,
           s \in Returned => jpc[j] \in Returned,
           phase = "serving" /\ jpc[j] \in Busy => s \in Busy,
           UNCHANGED <<active, fences, rowVars, claimed, laneLoad, loopVars, processVars, runs>>
    PROVE  IInv'
<1> USE DEF IInv, rowVars, loopVars, processVars
<1>1. \A i \in Jobs : jpc'[i] = IF i = j THEN s ELSE jpc[i]
  BY DEF TypeOK
<1>2. Exclusion' BY DEF Exclusion
<1>3. RowsAgree' BY <1>1 DEF RowsAgree
<1>4. Fresh' BY <1>1 DEF Fresh
<1>5. ActorsHold' BY <1>1 DEF ActorsHold, Acting, JobKeys
<1>6. StartsAlone' BY <1>1 DEF StartsAlone
<1>7. RunningIsBusy' BY <1>1 DEF RunningIsBusy
<1>8. LoadIsCount'
  <2>1. {i \in Jobs : jpc'[i] # "none"} = {i \in Jobs : jpc[i] # "none"} BY <1>1
  <2>2. \A lane \in Lanes : InLane(lane)' = InLane(lane) BY <1>1 DEF InLane, Lane
  <2> QED BY <2>1, <2>2 DEF LoadIsCount
<1>9. OneOperationPerServer' BY DEF OneOperationPerServer
<1> QED BY <1>2, <1>3, <1>4, <1>5, <1>6, <1>7, <1>8, <1>9

\* The steps between two writes, under the conditions of JobMoves.
LEMMA JobMovesOn ==
    ASSUME IInv, NEW j \in Jobs,
           \/ PersistGivesUp(j) \/ RunRefuses(j) \/ WithLocks(j) \/ Refused(j) \/ TryAgain(j)
           \/ NothingReleased(j) \/ Decide(j) \/ Park(j) \/ YieldEnds(j) \/ Reread(j)
           \/ RereadFails(j)
    PROVE  IInv'
<1> USE ConstantsFit DEF IInv, GoTo, tableVars, runnerVars, loopVars, jobVars
<1>1. CASE PersistGivesUp(j)
  <2> USE <1>1 DEF PersistGivesUp
  <2>1. TypeOK' BY DEF TypeOK, TableTypeOK, rowVars, processVars, JobSteps
  <2>2. FenceIsUnseen' BY DEF FenceIsUnseen
  <2>3. "exit" \in JobSteps BY DEF JobSteps
  <2> QED BY <2>1, <2>2, <2>3, JobMoves DEF Busy, Early, Returned, Saves
<1>2. CASE RunRefuses(j)
  <2> USE <1>2 DEF RunRefuses
  <2>1. TypeOK' BY DEF TypeOK, TableTypeOK, rowVars, processVars, JobSteps, Results
  <2>2. FenceIsUnseen' BY DEF FenceIsUnseen, TypeOK
  <2>3. "finish" \in JobSteps BY DEF JobSteps
  <2> QED BY <2>1, <2>2, <2>3, JobMoves DEF Busy, Early, Returned
<1>3. CASE WithLocks(j)
  <2> USE <1>3 DEF WithLocks, NextRelease
  <2>1. TypeOK' BY DEF TypeOK, TableTypeOK, rowVars, processVars, JobSteps
  <2>2. FenceIsUnseen' BY DEF FenceIsUnseen
  <2>3. "acquire" \in JobSteps BY DEF JobSteps
  <2> QED BY <2>1, <2>2, <2>3, JobMoves DEF Busy, Early, Returned
<1>4. CASE TryAgain(j)
  <2> USE <1>4 DEF TryAgain, NextRelease
  <2>1. TypeOK' BY DEF TypeOK, TableTypeOK, rowVars, processVars, JobSteps
  <2>2. FenceIsUnseen' BY DEF FenceIsUnseen
  <2>3. "acquire" \in JobSteps BY DEF JobSteps
  <2> QED BY <2>1, <2>2, <2>3, JobMoves DEF Busy, Early, Returned
<1>5. CASE NothingReleased(j)
  <2> USE <1>5 DEF NothingReleased
  <2>1. TypeOK' BY DEF TypeOK, TableTypeOK, rowVars, processVars, JobSteps
  <2>2. FenceIsUnseen' BY DEF FenceIsUnseen
  <2>3. "decide" \in JobSteps BY DEF JobSteps
  <2> QED BY <2>1, <2>2, <2>3, JobMoves DEF Busy, Early, Returned
<1>6. CASE YieldEnds(j)
  <2> USE <1>6 DEF YieldEnds
  <2>1. TypeOK' BY DEF TypeOK, TableTypeOK, rowVars, processVars, JobSteps
  <2>2. FenceIsUnseen' BY DEF FenceIsUnseen
  <2>3. "reread" \in JobSteps BY DEF JobSteps
  <2> QED BY <2>1, <2>2, <2>3, JobMoves DEF Busy, Early, Returned
<1>7. CASE RereadFails(j)
  <2> USE <1>7 DEF RereadFails
  <2>1. TypeOK' BY DEF TypeOK, TableTypeOK, rowVars, processVars, JobSteps
  <2>2. FenceIsUnseen' BY DEF FenceIsUnseen
  <2>3. "exit" \in JobSteps BY DEF JobSteps
  <2> QED BY <2>1, <2>2, <2>3, JobMoves DEF Busy, Early, Returned
<1>8. CASE Refused(j)
  <2> USE <1>8 DEF Refused
  <2>1. Answer(JobKeys(j), FALSE) \in {"conflict", "background"}
    BY DEF Answer, StartsAlone
  <2>2. TypeOK'
    <3>1. blockers' \in [Jobs -> SUBSET Holders]
      BY ConflictingAreHolders DEF TypeOK
    <3>2. result' \in [Jobs -> Results]
      BY <2>1 DEF TypeOK, Results
    <3>3. jpc' \in [Jobs -> JobSteps] BY DEF TypeOK, JobSteps
    <3> QED BY <3>1, <3>2, <3>3 DEF TypeOK, TableTypeOK, rowVars, processVars
  <2>3. FenceIsUnseen' BY <2>1 DEF FenceIsUnseen, TypeOK
  <2>4. "conflict" \in JobSteps BY DEF JobSteps
  <2> QED BY <2>2, <2>3, <2>4, JobMoves DEF Busy, Early, Returned
<1>9. CASE Decide(j)
  <2>1. PICK s \in {"requeue", "finish"} : jpc' = [jpc EXCEPT ![j] = s]
    BY <1>9 DEF Decide
  <2>2. PICK r \in {"wait", "yield", result[j]} : result' = [result EXCEPT ![j] = r]
    BY <1>9 DEF Decide
  <2>3. TypeOK'
    <3>1. jpc' \in [Jobs -> JobSteps] BY <2>1 DEF TypeOK, JobSteps
    <3>2. result' \in [Jobs -> Results] BY <2>2 DEF TypeOK, Results
    <3>3. /\ yielded' \in SUBSET Jobs /\ cancelled' \in SUBSET Holders
          /\ wake' \in BOOLEAN /\ settled' \in [Jobs -> BOOLEAN]
      <4>1. yielded \in SUBSET Jobs /\ cancelled \in SUBSET Holders /\ background \in SUBSET Holders
            /\ settled \in [Jobs -> BOOLEAN]
        BY DEF TypeOK, TableTypeOK
      <4>2. wake' \in BOOLEAN BY <1>9 DEF Decide, TypeOK
      <4> QED BY <1>9, <4>1, <4>2 DEF Decide
    <3> QED BY <1>9, <3>1, <3>2, <3>3 DEF Decide, TypeOK, TableTypeOK, rowVars, processVars
  <2>4. FenceIsUnseen' BY <2>2 DEF FenceIsUnseen, TypeOK
  <2>5. s \in JobSteps BY DEF JobSteps
  <2> QED BY <1>9, <2>1, <2>3, <2>4, <2>5, JobMoves DEF Decide, Busy, Early, Returned
<1>10. CASE Park(j)
  <2>1. PICK s \in {"yield", "exit"} : jpc' = [jpc EXCEPT ![j] = s]
    BY <1>10 DEF Park
  <2>2. yielded' \in SUBSET Jobs /\ waiting' \in SUBSET Jobs
    <3>1. yielded \in SUBSET Jobs /\ waiting \in SUBSET Jobs
      BY DEF TypeOK
    <3>2. yielded' \in {yielded, yielded \cup {j}} /\ waiting' \in {waiting, waiting \cup {j}}
      BY <1>10 DEF Park
    <3> QED BY <3>1, <3>2
  <2>3. jpc' \in [Jobs -> JobSteps] BY <2>1 DEF TypeOK, JobSteps
  <2>4. TypeOK' BY <1>10, <2>2, <2>3 DEF Park, TypeOK, TableTypeOK, rowVars, processVars
  <2>5. FenceIsUnseen' BY <1>10 DEF Park, FenceIsUnseen
  <2>6. s \in JobSteps BY DEF JobSteps
  <2> QED BY <1>10, <2>1, <2>4, <2>5, <2>6, JobMoves DEF Park, Busy, Early, Returned
<1>11. CASE Reread(j)
  <2>1. PICK s \in {"start", "exit"} : jpc' = [jpc EXCEPT ![j] = s]
    BY <1>11 DEF Reread
  <2>2. TypeOK' BY <1>11, <2>1 DEF Reread, TypeOK, TableTypeOK, rowVars, processVars, JobSteps
  <2>3. FenceIsUnseen' BY <1>11 DEF Reread, FenceIsUnseen
  <2>4. s \in JobSteps BY DEF JobSteps
  <2> QED BY <1>11, <2>1, <2>2, <2>3, <2>4, JobMoves DEF Reread, Busy, Early, Returned
<1> QED BY <1>1, <1>2, <1>3, <1>4, <1>5, <1>6, <1>7, <1>8, <1>9, <1>10, <1>11

\* A goroutine writes its row: it claims a queued one, ends a running one or
\* sends it back.
LEMMA JobSaves ==
    ASSUME IInv, NEW j \in Jobs, StartRow(j) \/ finish(j) \/ Requeue(j)
    PROVE  IInv'
<1> USE ConstantsFit DEF IInv, GoTo, Saves, tableVars, runnerVars, loopVars, processVars
<1>1. PICK s \in JobSteps \ {"none"}, t \in Statuses \ {"none"} :
         /\ jpc' = [jpc EXCEPT ![j] = s] /\ status' = [status EXCEPT ![j] = t]
         /\ \/ jpc[j] = "start" /\ status[j] = "queued" /\ s = "run" /\ t = "running"
            \/ jpc[j] = "start" /\ status[j] # "queued" /\ s = "exit" /\ t = status[j]
            \/ jpc[j] = "finish" /\ s = "exit" /\ t \in {"succeeded", "failed"}
            \/ jpc[j] = "requeue" /\ s = "park" /\ t = "queued"
  <2>1. CASE StartRow(j) /\ status[j] = "queued"
    BY <2>1 DEF StartRow, TypeOK, Statuses, JobSteps
  <2>2. CASE StartRow(j) /\ status[j] # "queued"
    <3>1. status[j] \in Statuses \ {"none"} BY <2>2 DEF StartRow, RowsAgree, TypeOK
    <3>2. status' = [status EXCEPT ![j] = status[j]] BY <2>2 DEF StartRow, TypeOK
    <3> QED BY <2>2, <3>1, <3>2 DEF StartRow, JobSteps
  <2>3. CASE finish(j)
    BY <2>3 DEF finish, TypeOK, Statuses, JobSteps
  <2>4. CASE Requeue(j)
    BY <2>4 DEF Requeue, TypeOK, Statuses, JobSteps
  <2> QED BY <2>1, <2>2, <2>3, <2>4
<1>2. /\ phase = "serving"
      /\ UNCHANGED <<tableVars, request, runnerVars, wake, loopVars, result, blockers,
                     settled, processVars, spent, runs>>
  BY DEF StartRow, finish, Requeue
<1>3. \A i \in Jobs : /\ jpc'[i] = IF i = j THEN s ELSE jpc[i]
                      /\ status'[i] = IF i = j THEN t ELSE status[i]
  BY <1>1 DEF TypeOK
<1>4. jpc[j] # "none" /\ jpc[j] \notin {"locked", "act"} /\ s \notin {"locked", "act"}
  BY <1>1
<1>5. TypeOK'
  <2>1. jpc' \in [Jobs -> JobSteps] /\ status' \in [Jobs -> Statuses]
    BY <1>1 DEF TypeOK
  <2> QED BY <1>2, <2>1 DEF TypeOK, TableTypeOK
<1>6. Exclusion' BY <1>2 DEF Exclusion
<1>7. RowsAgree' BY <1>1, <1>2, <1>3 DEF RowsAgree, Busy, Returned
<1>8. Fresh' BY <1>1, <1>2, <1>3 DEF Fresh, Early
<1>9. ActorsHold' BY <1>2, <1>3, <1>4 DEF ActorsHold, Acting, JobKeys
<1>10. StartsAlone' BY <1>2, <1>4 DEF StartsAlone
<1>11. RunningIsBusy'
  <2>1. t = "running" => s \in Busy
    BY <1>1, <1>2 DEF RunningIsBusy, Busy
  <2> QED BY <1>2, <1>3, <2>1 DEF RunningIsBusy
<1>12. LoadIsCount'
  <2>1. {i \in Jobs : jpc'[i] # "none"} = {i \in Jobs : jpc[i] # "none"} BY <1>3, <1>4
  <2>2. \A lane \in Lanes : InLane(lane)' = InLane(lane) BY <1>2, <1>3, <1>4 DEF InLane, Lane
  <2> QED BY <1>2, <2>1, <2>2 DEF LoadIsCount
<1>13. OneOperationPerServer'
  <2>1. t \in {"queued", "running"} => status[j] \in {"queued", "running"}
    BY <1>1 DEF RowsAgree, Busy
  <2> QED BY <1>2, <1>3, <2>1 DEF OneOperationPerServer
<1>14. FenceIsUnseen' BY <1>2 DEF FenceIsUnseen
<1> QED BY <1>5, <1>6, <1>7, <1>8, <1>9, <1>10, <1>11, <1>12, <1>13, <1>14

\* Whoever acts has a row, whose server has keys.
LEMMA ActorsHaveKeys ==
    ASSUME IInv, NEW j \in Jobs, jpc[j] = "locked" \/ Acting(j)
    PROVE  JobKeys(j) \in SUBSET Keys
<1>1. status[j] = "running"
  BY DEF IInv, Acting, RowsAgree, StartsAlone, Busy
<1>2. request[j] \in Requests BY <1>1 DEF IInv, RowsAgree, TypeOK
<1> QED BY <1>2, ConstantsFit DEF JobKeys

\* A handler acts under its locks and releases them.
LEMMA JobActs ==
    ASSUME IInv, NEW j \in Jobs, Acquired(j) \/ Locked(j) \/ HandlerReturns(j)
    PROVE  IInv'
<1> USE ConstantsFit DEF IInv, GoTo, rowVars, runnerVars, loopVars, processVars
<1>1. PICK s \in {"locked", "act", "finish"} :
         /\ jpc' = [jpc EXCEPT ![j] = s]
         /\ s = "locked" => Acquired(j) /\ jpc[j] = "acquire"
         /\ s = "act" => Locked(j) /\ jpc[j] = "locked"
         /\ s = "finish" => HandlerReturns(j) /\ jpc[j] = "act"
  BY DEF Acquired, Locked, HandlerReturns
<1>2. UNCHANGED <<rowVars, enabled, claimed, waiting, laneLoad, loopVars, processVars, fences>>
  BY DEF Acquired, Locked, HandlerReturns, tableVars
<1>3. \A i \in Jobs : jpc'[i] = IF i = j THEN s ELSE jpc[i]
  BY <1>1 DEF TypeOK
<1>4. jpc[j] \in Busy /\ s \in Busy /\ JobKeys(j) \in SUBSET Keys /\ jpc[j] # "none"
  BY <1>1 DEF Busy, RowsAgree, JobKeys, TypeOK
<1>5. TypeOK'
  <2>1. jpc' \in [Jobs -> JobSteps] BY <1>1 DEF TypeOK, JobSteps
  <2>2. CASE Acquired(j)
    BY <1>2, <1>4, <2>1, <2>2 DEF Acquired, Take, TypeOK, TableTypeOK
  <2>3. CASE Locked(j)
    BY <1>2, <2>1, <2>3 DEF Locked, tableVars, TypeOK, TableTypeOK
  <2>4. CASE HandlerReturns(j)
    BY <1>2, <2>1, <2>4 DEF HandlerReturns, Release, TypeOK, TableTypeOK, Results
  <2> QED BY <2>2, <2>3, <2>4
<1>6. Exclusion' /\ ActorsHold'
  <2>1. CASE Acquired(j)
    <3>1. Takes(j, JobKeys(j)) BY <2>1 DEF Acquired, Take, Takes
    <3>2. Answer(JobKeys(j), FALSE) = "ok" BY <2>1 DEF Acquired
    <3>3. Exclusion' BY <1>4, <3>1, <3>2, TakeExcludes DEF TypeOK
    <3>4. \A k \in JobKeys(j) : active[k] = NoHolder
      BY <1>4, <3>2, OkMeansFree, OverlapsReflexive
    <3>5. \A k \in Keys : active'[k] = IF k \in JobKeys(j) THEN j ELSE active[k]
      BY <3>1 DEF Takes
    <3>6. \A i \in Jobs, k \in Keys : active[k] = i => active'[k] = i
      BY <3>4, <3>5
    <3>7. ASSUME NEW i \in Jobs, (jpc[i] = "locked" \/ Acting(i))'
          PROVE  \A k \in JobKeys(i)' : active'[k] = i
      <4>1. JobKeys(i)' = JobKeys(i) BY <1>2 DEF JobKeys
      <4>2. CASE i = j BY <1>4, <3>5, <4>1, <4>2
      <4>3. CASE i # j
        <5>1. jpc[i] = "locked" \/ Acting(i) BY <1>2, <1>3, <3>7, <4>3 DEF Acting
        <5>2. \A k \in JobKeys(i) : k \in Keys /\ active[k] = i
          BY <5>1, ActorsHaveKeys DEF ActorsHold
        <5> QED BY <3>6, <4>1, <5>2
      <4> QED BY <4>2, <4>3
    <3>8. ActorsHold' BY <3>7 DEF ActorsHold
    <3> QED BY <3>3, <3>8
  <2>2. CASE Locked(j)
    BY <1>1, <1>2, <1>3, <2>2 DEF Locked, tableVars, Exclusion, ActorsHold, Acting, JobKeys
  <2>3. CASE HandlerReturns(j)
    <3>1. active' = [k \in Keys |-> IF active[k] = j THEN NoHolder ELSE active[k]]
      BY <2>3 DEF HandlerReturns, Release
    <3>2. Exclusion' BY <3>1, ReleaseExcludes DEF TypeOK
    <3>3. recovery.at # "reconcile" /\ s = "finish"
      BY <1>1, <2>3 DEF HandlerReturns, StartsAlone, Acquired, Locked
    <3>4. ASSUME NEW i \in Jobs, (jpc[i] = "locked" \/ Acting(i))'
          PROVE  \A k \in JobKeys(i)' : active'[k] = i
      <4>1. i # j /\ jpc[i] \in {"locked", "act"} /\ JobKeys(i)' = JobKeys(i)
        BY <1>2, <1>3, <3>3, <3>4 DEF Acting, JobKeys
      <4>2. \A k \in JobKeys(i) : k \in Keys /\ active[k] = i
        BY <4>1, ActorsHaveKeys DEF ActorsHold, Acting
      <4> QED BY <3>1, <4>1, <4>2
    <3>5. ActorsHold' BY <3>4 DEF ActorsHold
    <3> QED BY <3>2, <3>5
  <2> QED BY <2>1, <2>2, <2>3
<1>7. RowsAgree' BY <1>1, <1>2, <1>3, <1>4 DEF RowsAgree, Busy, Returned
<1>8. Fresh'
  <2>1. CASE Locked(j)
    BY <1>1, <1>2, <1>3, <2>1 DEF Locked, Fresh, Early, TypeOK, RowsAgree, Busy
  <2>2. CASE ~Locked(j)
    BY <1>1, <1>2, <1>3, <2>2 DEF Acquired, HandlerReturns, Fresh, Early
  <2> QED BY <2>1, <2>2
<1>9. phase \notin {"down", "recovering"} /\ recovery.at = "off"
  BY <1>4 DEF StartsAlone
<1>10. StartsAlone' BY <1>2, <1>9 DEF StartsAlone
<1>11. RunningIsBusy' BY <1>2, <1>3, <1>4 DEF RunningIsBusy
<1>12. LoadIsCount'
  <2>1. {i \in Jobs : jpc'[i] # "none"} = {i \in Jobs : jpc[i] # "none"}
    BY <1>1, <1>3, <1>4
  <2>2. \A lane \in Lanes : InLane(lane)' = InLane(lane)
    BY <1>2, <1>3, <1>4 DEF InLane, Lane, Busy
  <2> QED BY <1>2, <2>1, <2>2 DEF LoadIsCount
<1>13. OneOperationPerServer' BY <1>2 DEF OneOperationPerServer
<1>14. FenceIsUnseen'
  BY DEF Acquired, Locked, HandlerReturns, FenceIsUnseen, TypeOK
<1> QED BY <1>5, <1>6, <1>7, <1>8, <1>10, <1>11, <1>12, <1>13, <1>14

\* The end of a goroutine: the load of its lane falls by one.
LEMMA JobLeaves ==
    ASSUME IInv, NEW j \in Jobs, Leave(j)
    PROVE  IInv'
<1> USE ConstantsFit DEF IInv, Leave, GoTo, tableVars, rowVars, loopVars, processVars
<1>1. \A i \in Jobs : jpc'[i] = IF i = j THEN "none" ELSE jpc[i]
  BY DEF TypeOK
<1>2. request[j] \in Requests /\ Lane(j) \in Lanes
  BY DEF RowsAgree, TypeOK, Lane
<1>3. \A lane \in Lanes :
         /\ IsFiniteSet(InLane(lane)) /\ Cardinality(InLane(lane)) \in Nat
         /\ IsFiniteSet(InLane(lane) \ {j}) /\ Cardinality(InLane(lane) \ {j}) \in Nat
         /\ Cardinality(InLane(lane) \ {j}) =
               IF j \in InLane(lane) THEN Cardinality(InLane(lane)) - 1
               ELSE Cardinality(InLane(lane))
  <2> TAKE lane \in Lanes
  <2>1. InLane(lane) \in SUBSET Jobs BY DEF InLane
  <2>2. IsFiniteSet(InLane(lane)) BY <2>1, FS_Subset
  <2> QED BY <2>2, FS_RemoveElement, FS_CardinalityType
<1>4. \A lane \in Lanes : j \in InLane(lane) <=> Lane(j) = lane
  BY DEF InLane
<1>5. \A lane \in Lanes : InLane(lane)' = InLane(lane) \ {j}
  BY <1>1 DEF InLane, Lane
<1>6. \A lane \in Lanes : laneLoad'[lane] = Cardinality(InLane(lane)')
  BY <1>2, <1>3, <1>4, <1>5 DEF LoadIsCount, TypeOK
<1>7. laneLoad' \in [Lanes -> Nat]
  <2>1. laneLoad[Lane(j)] - 1 \in Nat BY <1>2, <1>3, <1>4 DEF LoadIsCount
  <2> QED BY <2>1 DEF TypeOK
<1>8. TypeOK'
  BY <1>7 DEF TypeOK, TableTypeOK, JobSteps, Results
<1>9. claimed' = {i \in Jobs : jpc'[i] # "none"}
  BY <1>1 DEF LoadIsCount
<1>10. LoadIsCount' BY <1>6, <1>9 DEF LoadIsCount
<1>11. Exclusion' BY DEF Exclusion
<1>12. RowsAgree' BY <1>1 DEF RowsAgree, Busy, Returned
<1>13. Fresh' BY <1>1 DEF Fresh, Early
<1>14. ActorsHold'
  <2>1. \A i \in Jobs : (jpc[i] = "locked" \/ Acting(i))' => jpc[i] = "locked" \/ Acting(i)
    BY <1>1 DEF Acting
  <2>2. \A i \in Jobs : JobKeys(i)' = JobKeys(i) BY DEF JobKeys
  <2> QED BY <2>1, <2>2 DEF ActorsHold
<1>15. StartsAlone' BY <1>1 DEF StartsAlone
<1>16. RunningIsBusy' BY <1>1 DEF RunningIsBusy, Busy
<1>17. OneOperationPerServer' /\ FenceIsUnseen'
  BY DEF OneOperationPerServer, FenceIsUnseen, TypeOK
<1> QED BY <1>8, <1>10, <1>11, <1>12, <1>13, <1>14, <1>15, <1>16, <1>17

----------------------------------------------------------------------------
(* The loop *)

\* fill claims rows it read earlier: each has a row still, and none has a
\* goroutine already.
LEMMA FillClaims ==
    ASSUME IInv, FillClaim
    PROVE  IInv'
<1> USE ConstantsFit DEF IInv, FillClaim, tableVars, rowVars, processVars
<1>1. /\ Claimable \in SUBSET Jobs
      /\ \A j \in Claimable : j \in snapshot /\ jpc[j] = "none" /\ status[j] # "none"
  BY DEF Claimable, Eligible, LoadIsCount, RowsAgree
<1>2. \A i \in Jobs : jpc'[i] = IF i \in Claimable THEN "start" ELSE jpc[i]
  OBVIOUS
<1>3. \A lane \in Lanes : InLane(lane)' = InLane(lane) \cup {j \in Claimable : Lane(j) = lane}
  BY <1>1, <1>2 DEF InLane, Lane
<1>4. \A lane \in Lanes :
         /\ Cardinality({j \in Claimable : Lane(j) = lane}) \in Nat
         /\ laneLoad'[lane] = Cardinality(InLane(lane)')
  <2> TAKE lane \in Lanes
  <2> DEFINE C == {j \in Claimable : Lane(j) = lane}
  <2>1. InLane(lane) \in SUBSET Jobs /\ C \in SUBSET Jobs BY <1>1 DEF InLane
  <2>2. IsFiniteSet(InLane(lane)) /\ IsFiniteSet(C) BY <2>1, FS_Subset
  <2>3. InLane(lane) \cap C = {} BY <1>1 DEF InLane
  <2>4. Cardinality(InLane(lane)) \in Nat /\ Cardinality(C) \in Nat
    BY <2>2, FS_CardinalityType
  <2>5. Cardinality(InLane(lane) \cap C) = 0 BY <2>3, FS_EmptySet
  <2>6. Cardinality(InLane(lane) \cup C) =
          Cardinality(InLane(lane)) + Cardinality(C) - Cardinality(InLane(lane) \cap C)
    BY <2>2, FS_Union
  <2>7. laneLoad'[lane] = laneLoad[lane] + Cardinality(C) OBVIOUS
  <2>8. laneLoad[lane] = Cardinality(InLane(lane)) BY DEF LoadIsCount
  <2>9. InLane(lane)' = InLane(lane) \cup C BY <1>3
  <2> HIDE DEF C
  <2>10. Cardinality(C) \in Nat /\ laneLoad'[lane] = Cardinality(InLane(lane)')
    BY <2>4, <2>5, <2>6, <2>7, <2>8, <2>9
  <2> QED BY <2>10 DEF C
<1>5. laneLoad' \in [Lanes -> Nat] BY <1>4 DEF TypeOK
<1>6. TypeOK'
  <2>1. jpc' \in [Jobs -> JobSteps] BY DEF TypeOK, JobSteps
  <2>2. claimed' \in SUBSET Jobs BY <1>1 DEF TypeOK
  <2> QED BY <1>5, <2>1, <2>2 DEF TypeOK, TableTypeOK
<1>7. claimed' = {i \in Jobs : jpc'[i] # "none"}
  BY <1>1, <1>2 DEF LoadIsCount
<1>8. LoadIsCount' BY <1>4, <1>7 DEF LoadIsCount
<1>9. Exclusion' BY DEF Exclusion
<1>10. RowsAgree' BY <1>1, <1>2 DEF RowsAgree, Busy, Returned
<1>11. Fresh' BY <1>1, <1>2 DEF Fresh, Early
<1>12. ActorsHold' BY <1>1, <1>2 DEF ActorsHold, Acting, JobKeys
<1>13. StartsAlone' BY DEF StartsAlone
<1>14. RunningIsBusy' BY <1>1, <1>2 DEF RunningIsBusy, Busy
<1>15. OneOperationPerServer' /\ FenceIsUnseen'
  BY DEF OneOperationPerServer, FenceIsUnseen
<1> QED BY <1>6, <1>8, <1>9, <1>10, <1>11, <1>12, <1>13, <1>14, <1>15

\* Steps that change neither rows, goroutines nor locks.
LEMMA OthersMove ==
    ASSUME IInv, TypeOK', StartsAlone', FenceIsUnseen',
           UNCHANGED <<active, rowVars, claimed, laneLoad, jpc, recovery, runs>>,
           snapshot' \subseteq snapshot \cup {j \in Jobs : status[j] = "queued"},
           phase' = "serving" => phase = "serving"
    PROVE  IInv'
<1> USE DEF IInv, rowVars
<1>1. Exclusion' BY DEF Exclusion
<1>2. RowsAgree' BY DEF RowsAgree
<1>3. Fresh' BY DEF Fresh
<1>4. ActorsHold' BY DEF ActorsHold, Acting, JobKeys
<1>5. RunningIsBusy' BY DEF RunningIsBusy
<1>6. LoadIsCount' BY DEF LoadIsCount, InLane, Lane
<1>7. OneOperationPerServer' BY DEF OneOperationPerServer
<1> QED BY <1>1, <1>2, <1>3, <1>4, <1>5, <1>6, <1>7

\* The loop's other steps, and the goroutine of a waiting job.
LEMMA LoopMoves ==
    ASSUME IInv,
           FillCheck \/ FillRead \/ FillReadFails \/ \E j \in Jobs : WaitEnds(j)
    PROVE  IInv'
<1> USE DEF IInv, tableVars, rowVars, runnerVars, loopVars, jobVars, processVars
<1>1. CASE FillCheck
  <2>1. TypeOK' BY <1>1 DEF FillCheck, TypeOK, TableTypeOK
  <2>2. StartsAlone' BY <1>1 DEF FillCheck, StartsAlone
  <2>3. FenceIsUnseen' BY <1>1 DEF FillCheck, FenceIsUnseen
  <2> QED BY <1>1, <2>1, <2>2, <2>3, OthersMove DEF FillCheck
<1>2. CASE FillRead
  <2>1. TypeOK' BY <1>2 DEF FillRead, TypeOK, TableTypeOK
  <2>2. StartsAlone' BY <1>2 DEF FillRead, StartsAlone
  <2>3. FenceIsUnseen' BY <1>2 DEF FillRead, FenceIsUnseen
  <2> QED BY <1>2, <2>1, <2>2, <2>3, OthersMove DEF FillRead
<1>3. CASE FillReadFails
  <2>1. TypeOK' BY <1>3 DEF FillReadFails, TypeOK, TableTypeOK
  <2>2. StartsAlone' BY <1>3 DEF FillReadFails, StartsAlone
  <2>3. FenceIsUnseen' BY <1>3 DEF FillReadFails, FenceIsUnseen
  <2> QED BY <1>3, <2>1, <2>2, <2>3, OthersMove DEF FillReadFails
<1>4. ASSUME NEW j \in Jobs, WaitEnds(j) PROVE IInv'
  <2>1. TypeOK' BY <1>4 DEF WaitEnds, TypeOK, TableTypeOK
  <2>2. StartsAlone' BY <1>4 DEF WaitEnds, StartsAlone
  <2>3. FenceIsUnseen' BY <1>4 DEF WaitEnds, FenceIsUnseen
  <2> QED BY <1>4, <2>1, <2>2, <2>3, OthersMove DEF WaitEnds
<1> QED BY <1>1, <1>2, <1>3, <1>4

----------------------------------------------------------------------------
(* Requests *)

\* A new row has no goroutine and has not acted; its server has no other
\* operation under way.
LEMMA EnqueueKeeps ==
    ASSUME IInv, NEW r \in Requests, Enqueue(r)
    PROVE  IInv'
<1> USE ConstantsFit DEF IInv, tableVars, runnerVars, loopVars, jobVars, processVars
<1>1. PICK j \in Jobs : /\ status[j] = "none"
                        /\ request' = [request EXCEPT ![j] = r]
                        /\ status' = [status EXCEPT ![j] = "queued"]
  BY DEF Enqueue
<1>2. /\ UNCHANGED <<tableVars, runnerVars, loopVars, jobVars, processVars, spent, runs>>
      /\ wake' = TRUE
      /\ \A i \in Jobs : status[i] \in {"queued", "running"} => request[i].server # r.server
  BY DEF Enqueue
<1>3. \A i \in Jobs : /\ request'[i] = IF i = j THEN r ELSE request[i]
                      /\ status'[i] = IF i = j THEN "queued" ELSE status[i]
  BY <1>1 DEF TypeOK
<1>4. jpc[j] = "none" /\ j \notin snapshot
  BY <1>1 DEF RowsAgree
<1>5. TypeOK'
  <2>1. request' \in [Jobs -> Requests \cup {NoRequest}] /\ status' \in [Jobs -> Statuses]
    BY <1>1 DEF TypeOK, Statuses
  <2> QED BY <1>2, <2>1 DEF TypeOK, TableTypeOK
<1>6. Exclusion' BY <1>2 DEF Exclusion
<1>7. RowsAgree' BY <1>1, <1>2, <1>3, <1>4 DEF RowsAgree, Busy, Returned
<1>8. Fresh' BY <1>1, <1>2, <1>3 DEF Fresh
<1>9. ActorsHold'
  <2>1. ~(jpc[j] = "locked" \/ Acting(j))
    BY <1>1, <1>4 DEF Acting, StartsAlone
  <2>2. \A i \in Jobs : (jpc[i] = "locked" \/ Acting(i))' <=> jpc[i] = "locked" \/ Acting(i)
    BY <1>2 DEF Acting
  <2>3. \A i \in Jobs : i # j => JobKeys(i)' = JobKeys(i) BY <1>3 DEF JobKeys
  <2> QED BY <1>2, <2>1, <2>2, <2>3 DEF ActorsHold
<1>10. StartsAlone'
  <2>1. {i \in Jobs : status'[i] = "running"} = {i \in Jobs : status[i] = "running"}
    BY <1>1, <1>3
  <2> QED BY <1>2, <2>1 DEF StartsAlone
<1>11. RunningIsBusy' BY <1>2, <1>3 DEF RunningIsBusy
<1>12. LoadIsCount'
  <2>1. \A lane \in Lanes : InLane(lane)' = InLane(lane) BY <1>2, <1>3, <1>4 DEF InLane, Lane
  <2> QED BY <1>2, <2>1 DEF LoadIsCount
<1>13. OneOperationPerServer' BY <1>2, <1>3 DEF OneOperationPerServer
<1>14. FenceIsUnseen' BY <1>2 DEF FenceIsUnseen
<1> QED BY <1>5, <1>6, <1>7, <1>8, <1>9, <1>10, <1>11, <1>12, <1>13, <1>14

\* Work outside the runner takes keys that are free, and gives back its own.
LEMMA OutsideKeeps ==
    ASSUME IInv, NEW h \in Outside \cup Warnings, OutsideTakes(h) \/ OutsideReleases(h)
    PROVE  IInv'
<1> USE ConstantsFit DEF IInv, rowVars, runnerVars, loopVars, jobVars, processVars
<1>1. h \in Holders /\ h \notin Jobs /\ h # NoHolder
  OBVIOUS
<1>2. UNCHANGED <<fences, rowVars, runnerVars, wake, loopVars, jobVars, processVars, runs>>
  BY DEF OutsideTakes, OutsideReleases
<1>3. /\ TypeOK' /\ Exclusion'
      /\ \A k \in Keys : active[k] \in Jobs => active'[k] = active[k]
      /\ phase \notin {"down", "recovering"} \/ active' = active
  <2>1. CASE OutsideTakes(h)
    <3>1. PICK r \in Requests : /\ Answer(KeysOf[r.server], FALSE) = "ok"
                                /\ Take(h, KeysOf[r.server], h \in Warnings)
      BY <2>1 DEF OutsideTakes
    <3>2. KeysOf[r.server] \in SUBSET Keys OBVIOUS
    <3>3. Takes(h, KeysOf[r.server]) BY <3>1 DEF Take, Takes
    <3>4. Exclusion' BY <1>1, <3>1, <3>2, <3>3, TakeExcludes DEF TypeOK
    <3>5. \A k \in KeysOf[r.server] : active[k] = NoHolder
      BY <3>1, <3>2, OkMeansFree, OverlapsReflexive
    <3>6. TypeOK'
      <4>1. /\ active' \in [Keys -> Holders \cup {NoHolder}]
            /\ background' \in SUBSET Holders /\ cancelled' \in SUBSET Holders
        BY <1>1, <3>3 DEF Takes, TypeOK, TableTypeOK
      <4> QED BY <1>2, <2>1, <4>1 DEF OutsideTakes, TypeOK, TableTypeOK
    <3>7. phase \notin {"down", "recovering"}
      BY <2>1, <3>1 DEF OutsideTakes, Answer, StartsAlone
    <3> QED BY <3>3, <3>4, <3>5, <3>6, <3>7 DEF Takes
  <2>2. CASE OutsideReleases(h)
    <3>1. active' = [k \in Keys |-> IF active[k] = h THEN NoHolder ELSE active[k]]
      BY <2>2 DEF OutsideReleases, Release
    <3>2. Exclusion' BY <1>1, <3>1, ReleaseExcludes DEF TypeOK
    <3>3. TypeOK'
      <4>1. /\ active' \in [Keys -> Holders \cup {NoHolder}]
            /\ background' \in SUBSET Holders /\ cancelled' \in SUBSET Holders
            /\ signalled' \in [Holders -> BOOLEAN]
        BY <2>2, <3>1 DEF OutsideReleases, Release, TypeOK, TableTypeOK
      <4> QED BY <1>2, <2>2, <4>1 DEF OutsideReleases, TypeOK, TableTypeOK
    <3>4. phase \notin {"down", "recovering"}
      BY <1>1, <2>2 DEF OutsideReleases, StartsAlone
    <3> QED BY <1>1, <3>1, <3>2, <3>3, <3>4
  <2> QED BY <2>1, <2>2
<1>4. RowsAgree' BY <1>2 DEF RowsAgree
<1>5. Fresh' BY <1>2 DEF Fresh
<1>6. ActorsHold'
  <2>1. \A i \in Jobs : (jpc[i] = "locked" \/ Acting(i))' <=> jpc[i] = "locked" \/ Acting(i)
    BY <1>2 DEF Acting
  <2>2. \A i \in Jobs : JobKeys(i)' = JobKeys(i) BY <1>2 DEF JobKeys
  <2> QED BY <1>3, <2>1, <2>2, ActorsHaveKeys DEF ActorsHold
<1>7. StartsAlone' BY <1>2, <1>3 DEF StartsAlone
<1>8. RunningIsBusy' BY <1>2 DEF RunningIsBusy
<1>9. LoadIsCount' BY <1>2 DEF LoadIsCount, InLane, Lane
<1>10. OneOperationPerServer' /\ FenceIsUnseen'
  BY <1>2 DEF OneOperationPerServer, FenceIsUnseen
<1> QED BY <1>3, <1>4, <1>5, <1>6, <1>7, <1>8, <1>9, <1>10

----------------------------------------------------------------------------
(* The process *)

\* A signal and Stop change no rows, goroutines or locks.
LEMMA ShutdownKeeps ==
    ASSUME IInv, Signal \/ Stop
    PROVE  IInv'
<1> USE DEF IInv, tableVars, rowVars, runnerVars, loopVars, jobVars, Signal, Stop
<1>1. TypeOK' BY DEF TypeOK, TableTypeOK
<1>2. StartsAlone' BY DEF StartsAlone
<1>3. FenceIsUnseen' BY DEF FenceIsUnseen
<1> QED BY <1>1, <1>2, <1>3, OthersMove

\* The memory of a process that ends is gone, and its rows are kept.
LEMMA EndKeeps ==
    ASSUME IInv, Exit \/ Crash
    PROVE  IInv'
<1> USE ConstantsFit DEF IInv, rowVars, NothingHeld, NoProcess, Nobody, NoLoad, NotRecovering
<1>1. ProcessEnds BY DEF Exit, Crash
<1> USE <1>1 DEF ProcessEnds
<1>2. TypeOK'
  <2>1. TableTypeOK' BY DEF TypeOK, TableTypeOK
  <2>2. /\ jpc' \in [Jobs -> JobSteps] /\ result' \in [Jobs -> Results]
    BY DEF JobSteps, Results
  <2>3. recovery' \in [at : {"off", "next", "reconcile", "record"},
                       left : SUBSET Jobs, job : Jobs \cup {0}]
    OBVIOUS
  <2>4. laneLoad' \in [Lanes -> Nat] OBVIOUS
  <2>5. blockers' \in [Jobs -> SUBSET Holders] /\ settled' \in [Jobs -> BOOLEAN] OBVIOUS
  <2> QED BY <2>1, <2>2, <2>3, <2>4, <2>5 DEF TypeOK
<1>3. Exclusion' BY DEF Exclusion
<1>4. RowsAgree' BY DEF RowsAgree, Busy, Returned
<1>5. Fresh' BY DEF Fresh, Early
<1>6. ActorsHold' BY DEF ActorsHold, Acting
<1>7. StartsAlone' BY DEF StartsAlone
<1>8. RunningIsBusy' BY DEF RunningIsBusy
<1>9. LoadIsCount'
  <2>1. \A lane \in Lanes : InLane(lane)' = {} BY DEF InLane
  <2> QED BY <2>1, FS_EmptySet DEF LoadIsCount
<1>10. OneOperationPerServer' /\ FenceIsUnseen' BY DEF OneOperationPerServer, FenceIsUnseen
<1> QED BY <1>2, <1>3, <1>4, <1>5, <1>6, <1>7, <1>8, <1>9, <1>10

\* A start changes neither rows nor goroutines until it takes locks.
LEMMA StartMoves ==
    ASSUME IInv, TypeOK', StartsAlone', RunningIsBusy',
           UNCHANGED <<active, rowVars, claimed, laneLoad, snapshot, jobVars, runs>>,
           recovery'.at # "reconcile"
    PROVE  IInv'
<1> USE DEF IInv, rowVars, jobVars
<1>1. Exclusion' BY DEF Exclusion
<1>2. RowsAgree' BY DEF RowsAgree
<1>3. Fresh' BY DEF Fresh
<1>4. ActorsHold'
  <2>1. \A i \in Jobs : (jpc[i] = "locked" \/ Acting(i))' => jpc[i] = "locked" \/ Acting(i)
    BY DEF Acting
  <2>2. \A i \in Jobs : JobKeys(i)' = JobKeys(i) BY DEF JobKeys
  <2> QED BY <2>1, <2>2 DEF ActorsHold
<1>5. LoadIsCount' BY DEF LoadIsCount, InLane, Lane
<1>6. OneOperationPerServer' /\ FenceIsUnseen' BY DEF OneOperationPerServer, FenceIsUnseen
<1> QED BY <1>1, <1>2, <1>3, <1>4, <1>5, <1>6

LEMMA StartKeeps ==
    ASSUME IInv,
           \/ Launch \/ StartRunner \/ RecoverFails \/ Recovered
           \/ \E j \in Jobs : RecoverSkips(j)
    PROVE  IInv'
<1> USE ConstantsFit DEF IInv, tableVars, rowVars, runnerVars, loopVars, jobVars, NotRecovering
<1>1. CASE Launch
  <2> USE <1>1 DEF Launch
  <2>1. TypeOK' BY DEF TypeOK, TableTypeOK
  <2>2. StartsAlone' BY DEF StartsAlone
  <2>3. RunningIsBusy' BY DEF RunningIsBusy
  <2>4. recovery'.at # "reconcile" BY DEF StartsAlone
  <2> QED BY <2>1, <2>2, <2>3, <2>4, StartMoves
<1>2. CASE StartRunner
  <2> USE <1>2 DEF StartRunner
  <2>1. TypeOK' BY DEF TypeOK, TableTypeOK
  <2>2. StartsAlone' BY DEF StartsAlone
  <2>3. RunningIsBusy' BY DEF RunningIsBusy
  <2> QED BY <2>1, <2>2, <2>3, StartMoves
<1>3. CASE RecoverFails
  <2> USE <1>3 DEF RecoverFails
  <2>1. TypeOK' BY DEF TypeOK, TableTypeOK
  <2>2. StartsAlone' BY DEF StartsAlone
  <2>3. RunningIsBusy' BY DEF RunningIsBusy
  <2> QED BY <2>1, <2>2, <2>3, StartMoves
<1>4. CASE Recovered
  <2> USE <1>4 DEF Recovered
  <2>1. TypeOK' BY DEF TypeOK, TableTypeOK
  <2>2. StartsAlone' BY DEF StartsAlone
  <2>3. RunningIsBusy' BY DEF RunningIsBusy, StartsAlone
  <2> QED BY <2>1, <2>2, <2>3, StartMoves
<1>5. ASSUME NEW j \in Jobs, RecoverSkips(j) PROVE IInv'
  <2> USE <1>5 DEF RecoverSkips
  <2>1. recovery'.at = "record" /\ recovery'.left = recovery.left /\ recovery'.job = j
    BY DEF TypeOK
  <2>2. TypeOK' BY DEF TypeOK, TableTypeOK
  <2>3. StartsAlone' BY <2>1 DEF StartsAlone
  <2>4. RunningIsBusy' BY DEF RunningIsBusy
  <2> QED BY <2>1, <2>2, <2>3, <2>4, StartMoves
<1> QED BY <1>1, <1>2, <1>3, <1>4, <1>5

\* Recovery takes the keys of an interrupted operation, on an empty table.
LEMMA RecoveryTakes ==
    ASSUME IInv, NEW j \in Jobs, RecoverTakes(j)
    PROVE  IInv'
<1> USE ConstantsFit DEF IInv, RecoverTakes, rowVars, runnerVars, loopVars, jobVars
<1>1. /\ recovery'.at = "reconcile" /\ recovery'.left = recovery.left /\ recovery'.job = j
      /\ phase = "recovering" /\ status[j] = "running"
  BY DEF TypeOK, StartsAlone
<1>2. JobKeys(j) \in SUBSET Keys /\ JobKeys(j)' = JobKeys(j)
  BY <1>1 DEF RowsAgree, JobKeys, TypeOK
<1>3. Takes(j, JobKeys(j)) BY DEF Take, Takes
<1>4. \A k \in Keys : active[k] = NoHolder /\ active'[k] = IF k \in JobKeys(j) THEN j ELSE NoHolder
  BY <1>1, <1>3 DEF StartsAlone, Takes
<1>5. TypeOK'
  <2>1. /\ active' \in [Keys -> Holders \cup {NoHolder}]
        /\ background' \in SUBSET Holders /\ cancelled' \in SUBSET Holders
    BY <1>3 DEF Takes, TypeOK, TableTypeOK
  <2>2. recovery' \in [at : {"off", "next", "reconcile", "record"},
                       left : SUBSET Jobs, job : Jobs \cup {0}]
    BY DEF TypeOK
  <2> QED BY <2>1, <2>2 DEF TypeOK, TableTypeOK
<1>6. Exclusion' BY <1>2, <1>3, TakeExcludes DEF TypeOK
<1>7. RowsAgree' BY DEF RowsAgree
<1>8. Fresh' BY DEF Fresh
<1>9. ActorsHold'
  <2>1. \A i \in Jobs : (jpc[i] = "locked" \/ Acting(i))' => i = j
    BY <1>1 DEF Acting, StartsAlone
  <2> QED BY <1>2, <1>4, <2>1 DEF ActorsHold
<1>10. StartsAlone' BY <1>1, <1>4 DEF StartsAlone
<1>11. RunningIsBusy' BY DEF RunningIsBusy
<1>12. LoadIsCount' BY DEF LoadIsCount, InLane, Lane
<1>13. OneOperationPerServer' /\ FenceIsUnseen' BY DEF OneOperationPerServer, FenceIsUnseen
<1> QED BY <1>5, <1>6, <1>7, <1>8, <1>9, <1>10, <1>11, <1>12, <1>13

\* Recovery releases them, and records the outcome.
LEMMA RecoveryEnds ==
    ASSUME IInv, RecoverReleases \/ RecoverRecords
    PROVE  IInv'
<1> USE ConstantsFit DEF IInv, tableVars, rowVars, runnerVars, loopVars, jobVars
<1>1. /\ recovery.job \in Jobs /\ phase = "recovering"
      /\ recovery.job \in recovery.left /\ status[recovery.job] = "running"
  BY DEF RecoverReleases, RecoverRecords, StartsAlone, TypeOK
<1>2. CASE RecoverReleases
  <2> USE <1>2 DEF RecoverReleases, Release
  <2>1. recovery'.at = "record" /\ recovery'.left = recovery.left /\ recovery'.job = recovery.job
    BY DEF TypeOK
  <2>2. \A k \in Keys : active'[k] = NoHolder BY <1>1 DEF StartsAlone
  <2>3. TypeOK'
    <3>1. recovery' \in [at : {"off", "next", "reconcile", "record"},
                         left : SUBSET Jobs, job : Jobs \cup {0}]
      BY DEF TypeOK
    <3> QED BY <3>1 DEF TypeOK, TableTypeOK
  <2>4. Exclusion' BY <2>2 DEF Exclusion
  <2>5. RowsAgree' BY DEF RowsAgree
  <2>6. Fresh' BY DEF Fresh
  <2>7. ActorsHold' BY <1>1, <2>1 DEF ActorsHold, Acting, StartsAlone
  <2>8. StartsAlone' BY <1>1, <2>1, <2>2 DEF StartsAlone
  <2>9. RunningIsBusy' BY DEF RunningIsBusy
  <2>10. LoadIsCount' BY DEF LoadIsCount, InLane, Lane
  <2>11. OneOperationPerServer' /\ FenceIsUnseen' BY DEF OneOperationPerServer, FenceIsUnseen
  <2> QED BY <2>3, <2>4, <2>5, <2>6, <2>7, <2>8, <2>9, <2>10, <2>11
<1>3. CASE RecoverRecords
  <2> USE <1>3 DEF RecoverRecords
  <2>1. /\ recovery'.at = "next" /\ recovery'.left = recovery.left \ {recovery.job}
        /\ recovery'.job = 0
    BY DEF TypeOK
  <2>2. \A i \in Jobs :
           status'[i] = IF i = recovery.job THEN "interrupted" ELSE status[i]
    BY DEF TypeOK
  <2>3. TypeOK'
    <3>1. recovery' \in [at : {"off", "next", "reconcile", "record"},
                         left : SUBSET Jobs, job : Jobs \cup {0}]
      BY DEF TypeOK
    <3>2. status' \in [Jobs -> Statuses] BY DEF TypeOK, Statuses
    <3> QED BY <3>1, <3>2 DEF TypeOK, TableTypeOK
  <2>4. Exclusion' BY DEF Exclusion
  <2>5. RowsAgree' BY <1>1, <2>2 DEF RowsAgree, StartsAlone, Busy, Returned
  <2>6. Fresh' BY <1>1, <2>2 DEF Fresh
  <2>7. ActorsHold' BY <1>1, <2>1 DEF ActorsHold, Acting, StartsAlone
  <2>8. StartsAlone'
    <3>1. recovery'.left = {i \in Jobs : status'[i] = "running"}
      BY <1>1, <2>1, <2>2 DEF StartsAlone
    <3> QED BY <1>1, <2>1, <3>1 DEF StartsAlone
  <2>9. RunningIsBusy' BY <1>1 DEF RunningIsBusy
  <2>10. LoadIsCount' BY DEF LoadIsCount, InLane, Lane
  <2>11. OneOperationPerServer' /\ FenceIsUnseen'
    BY <2>2 DEF OneOperationPerServer, FenceIsUnseen
  <2> QED BY <2>3, <2>4, <2>5, <2>6, <2>7, <2>8, <2>9, <2>10, <2>11
<1> QED BY <1>2, <1>3

----------------------------------------------------------------------------
(* The invariant *)

LEMMA NextIInv == IInv /\ [Next]_vars => IInv'
<1> SUFFICES ASSUME IInv, [Next]_vars PROVE IInv'
  OBVIOUS
<1>1. ASSUME NEW r \in Requests, Enqueue(r) PROVE IInv'
  BY <1>1, EnqueueKeeps
<1>2. CASE Loop
  BY <1>2, LoopMoves, FillClaims DEF Loop
<1>3. ASSUME NEW j \in Jobs, JobStep(j) PROVE IInv'
  BY <1>3, JobMovesOn, JobSaves, JobActs, JobLeaves DEF JobStep
<1>4. ASSUME NEW j \in Jobs, WaitEnds(j) PROVE IInv'
  BY <1>4, LoopMoves
<1>5. CASE Launch \/ Startup
  BY <1>5, StartKeeps, RecoveryTakes, RecoveryEnds DEF Startup
<1>6. CASE Signal \/ Stop
  BY <1>6, ShutdownKeeps
<1>7. CASE Exit \/ Crash
  BY <1>7, EndKeeps
<1>8. ASSUME NEW h \in Outside \cup Warnings, OutsideTakes(h) \/ OutsideReleases(h) PROVE IInv'
  BY <1>8, OutsideKeeps
<1>9. CASE UNCHANGED vars
  <2> USE <1>9 DEF vars, tableVars, rowVars, runnerVars, loopVars, jobVars, processVars, IInv
  <2>1. TypeOK' BY DEF TypeOK, TableTypeOK
  <2>2. StartsAlone' BY DEF StartsAlone
  <2>3. FenceIsUnseen' BY DEF FenceIsUnseen
  <2> QED BY <2>1, <2>2, <2>3, OthersMove
<1> QED BY <1>1, <1>2, <1>3, <1>4, <1>5, <1>6, <1>7, <1>8, <1>9 DEF Next

\* The invariant holds in every state, over all restarts.
LEMMA Invariance == Spec => []IInv
BY InitIInv, NextIInv, PTL DEF Spec

----------------------------------------------------------------------------
(* Results *)

\* Rows, runner and lock table keep their types; no lane's load falls below
\* zero.
THEOREM TypeCorrect == Spec => []TypeOK
<1>1. IInv => TypeOK BY DEF IInv
<1> QED BY <1>1, Invariance, PTL

\* Handlers that act at the same time, to run or to reconcile an operation,
\* act on resources that do not overlap.
THEOREM EffectsAreExclusive == Spec => []EffectsExclusive
<1>1. IInv => EffectsExclusive
  <2> SUFFICES ASSUME IInv, NEW i \in Jobs, NEW j \in Jobs, i # j, Acting(i), Acting(j),
                      NEW k \in JobKeys(i), NEW l \in JobKeys(j)
               PROVE  ~Overlaps(k, l)
    BY DEF EffectsExclusive
  <2>1. k \in Keys /\ l \in Keys BY ActorsHaveKeys
  <2>2. active[k] = i /\ active[l] = j BY DEF IInv, ActorsHold
  <2> QED BY <2>1, <2>2, ConstantsFit DEF IInv, Exclusion
<1> QED BY <1>1, Invariance, PTL

\* No operation acts twice, however often the process crashes and restarts.
THEOREM NothingActsTwice == Spec => []ActsOnce
<1>1. IInv => ActsOnce BY DEF IInv, Fresh, ActsOnce
<1> QED BY <1>1, Invariance, PTL

\* While the process serves, every running row has a goroutine.
THEOREM NothingIsOrphaned == Spec => []NoOrphans
<1>1. IInv => NoOrphans BY DEF IInv, RunningIsBusy, NoOrphans, Busy
<1> QED BY <1>1, Invariance, PTL

\* A server never has two operations queued or running.
THEOREM ServersHaveOneOperation == Spec => []OneOperationPerServer
<1>1. IInv => OneOperationPerServer BY DEF IInv
<1> QED BY <1>1, Invariance, PTL

\* Recovery is never refused the keys of the operation it reconciles.
THEOREM RecoveryIsNotRefused == Spec => []RecoveryGetsLocks
<1>1. IInv => RecoveryGetsLocks
  <2> SUFFICES ASSUME IInv, recovery.at = "next", NEW j \in recovery.left
               PROVE  Answer(JobKeys(j), TRUE) = "ok"
    BY DEF RecoveryGetsLocks
  <2>1. \A k \in Keys : active[k] = NoHolder BY DEF IInv, StartsAlone
  <2>2. Conflicting(JobKeys(j)) = {} BY <2>1 DEF Conflicting
  <2> QED BY <2>2 DEF Answer
<1> QED BY <1>1, Invariance, PTL

\* No job ever meets the fence of the startup.
THEOREM JobsMeetNoFence == Spec => []FenceIsUnseen
<1>1. IInv => FenceIsUnseen BY DEF IInv
<1> QED BY <1>1, Invariance, PTL

----------------------------------------------------------------------------
(* The queue keeps moving.  QInv rests on IInv.                            *)

\* A job that met a conflict, until it is woken or gives up.
Sleeping(j) ==
    jpc[j] \in {"conflict", "decide", "requeue", "park", "yield"} \/ j \in waiting

\* What a job waits for stays in its way until it is signalled.
ConflictLasts ==
    \A j \in Jobs : Sleeping(j) /\ ~signalled[j] => Conflicting(JobKeys(j)) # {}

\* A job that waits outside its lane has no goroutine, or one that ends.
WaitersLeft ==
    \A j \in waiting : status[j] # "none" /\ jpc[j] \in {"none", "exit"}

LaneBound == \A lane \in Lanes : laneLoad[lane] <= Capacity[lane]

QInv == ConflictLasts /\ WaitersLeft /\ LaneBound

\* The rows that fill claims fit into what is left of their lane: each has
\* fewer than that before it, and no two have equally many.
LEMMA ClaimableFits ==
    ASSUME IInv, LaneBound, NEW lane \in Lanes
    PROVE  laneLoad[lane] + Cardinality({j \in Claimable : Lane(j) = lane}) <= Capacity[lane]
<1> DEFINE C == {j \in Claimable : Lane(j) = lane}
           Before(j) == {i \in Jobs : i < j /\ Eligible(i) /\ Lane(i) = Lane(j)}
           room == Capacity[lane] - laneLoad[lane]
           rank == [j \in C |-> Cardinality(Before(j))]
<1>1. laneLoad[lane] \in Nat /\ Capacity[lane] \in Nat /\ room \in Nat
  BY RunnerAssumption DEF LaneBound, IInv, TypeOK, Lanes
<1>2. \A j \in Jobs : IsFiniteSet(Before(j)) /\ Cardinality(Before(j)) \in Nat
  <2>1. \A j \in Jobs : Before(j) \in SUBSET Jobs
    OBVIOUS
  <2> QED BY <2>1, ConstantsFit, FS_Subset, FS_CardinalityType
<1>3. \A j \in C : j \in Nat /\ j \in Jobs /\ Eligible(j) /\ Lane(j) = lane /\ Cardinality(Before(j)) < room
  <2> SUFFICES ASSUME NEW j \in C
               PROVE  /\ j \in Nat /\ j \in Jobs /\ Eligible(j) /\ Lane(j) = lane
                      /\ Cardinality(Before(j)) < room
    OBVIOUS
  <2>1. j \in Jobs /\ Eligible(j) /\ Lane(j) = lane /\ laneLoad[lane] + Cardinality(Before(j)) < Capacity[lane]
    BY DEF Claimable
  <2>2. Cardinality(Before(j)) \in Nat /\ j \in Nat
    BY <1>2, <2>1, ConstantsFit
  <2> HIDE DEF Before, C
  <2> QED BY <1>1, <2>1, <2>2
<1>4. \A i, j \in C : i < j => Cardinality(Before(i)) < Cardinality(Before(j))
  <2> SUFFICES ASSUME NEW i \in C, NEW j \in C, i < j
               PROVE  Cardinality(Before(i)) < Cardinality(Before(j))
    OBVIOUS
  <2>1. i \in Nat /\ j \in Nat /\ i \in Jobs /\ j \in Jobs
    BY <1>3
  <2>2. i \notin Before(i) /\ Before(i) \cup {i} \in SUBSET Before(j)
    <3>1. i \notin Before(i) /\ i \in Before(j)
      <4>1. Eligible(i) /\ Lane(i) = Lane(j) /\ ~(i < i)
        <5> HIDE DEF C, Before
        <5> QED BY <1>3, <2>1
      <4> QED BY <2>1, <4>1
    <3>2. ASSUME NEW x \in Before(i) PROVE x \in Before(j)
      <4>1. x \in Jobs /\ x \in Nat /\ x < i /\ Eligible(x) /\ Lane(x) = Lane(i)
        BY ConstantsFit
      <4>2. x < j
        BY <2>1, <4>1
      <4> QED BY <1>3, <4>1, <4>2
    <3> QED BY <3>1, <3>2
  <2>3. Cardinality(Before(i) \cup {i}) = Cardinality(Before(i)) + 1
    BY <1>2, <2>1, <2>2, FS_AddElement
  <2>4. Cardinality(Before(i) \cup {i}) <= Cardinality(Before(j))
    BY <1>2, <2>1, <2>2, FS_Subset
  <2> HIDE DEF Before
  <2> QED BY <1>2, <2>1, <2>3, <2>4
<1>5. rank \in [C -> 0..(room - 1)]
  <2> SUFFICES ASSUME NEW j \in C PROVE Cardinality(Before(j)) \in 0..(room - 1)
    OBVIOUS
  <2> HIDE DEF Before, C, room
  <2> QED BY <1>1, <1>2, <1>3
<1>6. \A i, j \in C : rank[i] = rank[j] => i = j
  <2> SUFFICES ASSUME NEW i \in C, NEW j \in C, i # j PROVE rank[i] # rank[j]
    OBVIOUS
  <2>1. i < j \/ j < i
    <3> HIDE DEF C, Before
    <3> QED BY <1>3
  <2> HIDE DEF C, Before
  <2>2. Cardinality(Before(i)) \in Nat /\ Cardinality(Before(j)) \in Nat
    BY <1>2, <1>3
  <2> QED BY <1>4, <2>1, <2>2
<1>7. rank \in Injection(C, 0..(room - 1))
  <2> HIDE DEF C, rank, room
  <2> QED BY <1>5, <1>6 DEF Injection, IsInjective
<1>8. IsFiniteSet(0..(room - 1)) /\ Cardinality(0..(room - 1)) = room
  <2> HIDE DEF room
  <2>1. 0 \in Int /\ room - 1 \in Int
    BY <1>1
  <2>2. /\ IsFiniteSet(0..(room - 1))
        /\ Cardinality(0..(room - 1)) = IF 0 > room - 1 THEN 0 ELSE (room - 1) - 0 + 1
    BY <2>1, FS_Interval
  <2> QED BY <1>1, <2>2
<1>9. IsFiniteSet(C) /\ Cardinality(C) <= room
  <2> HIDE DEF C, rank, room
  <2> QED BY <1>7, <1>8, FS_Injection
<1>10. Cardinality(C) \in Nat
  <2> HIDE DEF C
  <2> QED BY <1>9, FS_CardinalityType
<1> HIDE DEF C
<1>11. laneLoad[lane] + Cardinality(C) <= Capacity[lane]
  BY <1>1, <1>9, <1>10
<1> QED BY <1>11 DEF C

\* Nobody starts to sleep, and what was held stays held.
LEMMA ConflictsStay ==
    ASSUME ConflictLasts,
           \A j \in Jobs : (Sleeping(j) /\ ~signalled[j])' =>
               Sleeping(j) /\ ~signalled[j] /\ request'[j] = request[j],
           \A k \in Keys : active[k] # NoHolder => active'[k] = active[k]
    PROVE  ConflictLasts'
<1> SUFFICES ASSUME NEW j \in Jobs, (Sleeping(j) /\ ~signalled[j])'
             PROVE  (Conflicting(JobKeys(j)) # {})'
  BY DEF ConflictLasts
<1>1. Conflicting(JobKeys(j)) # {}
  BY DEF ConflictLasts
<1>2. JobKeys(j)' = JobKeys(j)
  BY DEF JobKeys
<1>3. PICK k \in Keys : active[k] # NoHolder /\ \E w \in JobKeys(j) : Overlaps(w, k)
  BY <1>1 DEF Conflicting
<1>4. active'[k] # NoHolder /\ \E w \in JobKeys(j)' : Overlaps(w, k)
  BY <1>2, <1>3
<1> QED BY <1>4 DEF Conflicting

\* A release, or the end of the process, signals everybody.
LEMMA SignalWakes ==
    ASSUME \A j \in Jobs : signalled'[j] \/ ~Sleeping(j)'
    PROVE  ConflictLasts'
BY DEF ConflictLasts

\* An answer other than ok, with no fence in the way, names somebody.
LEMMA RefusedConflicts ==
    ASSUME IInv, NEW j \in Jobs, Refused(j)
    PROVE  Conflicting(JobKeys(j)) # {}
<1>1. fences = 0
  BY DEF IInv, StartsAlone, Refused
<1> QED BY <1>1 DEF Refused, Answer

\* A step of one goroutine.
LEMMA JobStepKeepsQ ==
    ASSUME IInv, QInv, NEW j \in Jobs, JobStep(j)
    PROVE  QInv'
<1> USE ConstantsFit DEF QInv, GoTo
<1>1. PICK s \in JobSteps : jpc' = [jpc EXCEPT ![j] = s]
  BY DEF JobStep, StartRow, PersistGivesUp, RunRefuses, WithLocks, Acquired, Refused, TryAgain,
         NothingReleased, Decide, Locked, HandlerReturns, finish, Requeue, Park, YieldEnds, Reread,
         RereadFails, Leave, JobSteps
<1>2. \A i \in Jobs : jpc'[i] = IF i = j THEN s ELSE jpc[i]
  BY <1>1 DEF IInv, TypeOK
<1>3. request' = request /\ \A i \in Jobs : status[i] # "none" => status'[i] # "none"
  BY DEF JobStep, StartRow, PersistGivesUp, RunRefuses, WithLocks, Acquired, Refused, TryAgain,
         NothingReleased, Decide, Locked, HandlerReturns, finish, Requeue, Park, YieldEnds, Reread,
         RereadFails, Leave, rowVars, IInv, TypeOK
<1>4. LaneBound'
  <2>1. CASE Leave(j)
    <3>1. Lane(j) \in Lanes
      BY <2>1 DEF Leave, IInv, RowsAgree, TypeOK, Lane
    <3> QED BY <2>1, <3>1, RunnerAssumption DEF Leave, LaneBound, IInv, TypeOK, Lanes
  <2>2. CASE ~Leave(j)
    <3>1. laneLoad' = laneLoad
      BY <2>2 DEF JobStep, StartRow, PersistGivesUp, RunRefuses, WithLocks, Acquired, Refused,
             TryAgain, NothingReleased, Decide, Locked, HandlerReturns, finish, Requeue, Park,
             YieldEnds, Reread, RereadFails, runnerVars
    <3> QED BY <3>1 DEF LaneBound
  <2> QED BY <2>1, <2>2
<1>5. jpc[j] \in {"none", "exit"} => Leave(j)
  BY DEF JobStep, StartRow, PersistGivesUp, RunRefuses, WithLocks, Acquired, Refused, TryAgain,
         NothingReleased, Decide, Locked, HandlerReturns, finish, Requeue, Park, YieldEnds, Reread,
         RereadFails
<1>6. WaitersLeft'
  <2>1. CASE Park(j)
    BY <1>2, <1>3, <1>5, <2>1 DEF Park, WaitersLeft, IInv, RowsAgree, TypeOK
  <2>2. CASE ~Park(j)
    <3>1. waiting' = waiting
      BY <2>2 DEF JobStep, StartRow, PersistGivesUp, RunRefuses, WithLocks, Acquired, Refused,
             TryAgain, NothingReleased, Decide, Locked, HandlerReturns, finish, Requeue, Leave,
             YieldEnds, Reread, RereadFails, runnerVars
    <3>2. jpc[j] \in {"none", "exit"} => s = "none"
      BY <1>1, <1>5 DEF Leave, IInv, TypeOK
    <3> QED BY <1>2, <1>3, <3>1, <3>2 DEF WaitersLeft, IInv, TypeOK
  <2> QED BY <2>1, <2>2
<1>7. ConflictLasts'
  <2>1. CASE Refused(j)
    <3>1. active' = active /\ signalled' = signalled /\ waiting' = waiting
      BY <2>1 DEF Refused, tableVars, runnerVars
    <3>2. Conflicting(JobKeys(j))' = Conflicting(JobKeys(j)) /\ Conflicting(JobKeys(j)) # {}
      BY <1>3, <2>1, <3>1, RefusedConflicts DEF Conflicting, JobKeys
    <3>3. \A i \in Jobs \ {j} : Sleeping(i)' => Sleeping(i)
      BY <1>2, <3>1 DEF Sleeping
    <3>4. \A i \in Jobs : Conflicting(JobKeys(i))' = Conflicting(JobKeys(i))
      BY <1>3, <3>1 DEF Conflicting, JobKeys
    <3> QED BY <3>1, <3>2, <3>3, <3>4 DEF ConflictLasts
  <2>2. CASE WithLocks(j) \/ TryAgain(j)
    <3>1. /\ s = "acquire" /\ waiting' = waiting /\ active' = active
          /\ \A i \in Jobs \ {j} : signalled'[i] = signalled[i]
      BY <1>1, <2>2 DEF WithLocks, TryAgain, NextRelease, runnerVars, IInv, TypeOK, TableTypeOK
    <3>2. j \notin waiting
      BY <2>2 DEF WithLocks, TryAgain, WaitersLeft
    <3> QED BY <1>2, <1>3, <3>1, <3>2, ConflictsStay DEF Sleeping
  <2>3. CASE HandlerReturns(j)
    <3>1. \A i \in Jobs : signalled'[i]
      BY <2>3 DEF HandlerReturns, Release
    <3> QED BY <3>1, SignalWakes
  <2>4. CASE Acquired(j)
    <3>1. \A k \in Keys : active[k] # NoHolder => active'[k] = active[k]
      <4>1. JobKeys(j) \in SUBSET Keys
        BY <2>4 DEF Acquired, IInv, RowsAgree, JobKeys, TypeOK
      <4>2. \A k \in JobKeys(j) : active[k] = NoHolder
        BY <2>4, <4>1, OkMeansFree, OverlapsReflexive DEF Acquired
      <4> QED BY <2>4, <4>2 DEF Acquired, Take
    <3>2. waiting' = waiting /\ signalled' = signalled /\ s = "locked"
      BY <1>1, <2>4 DEF Acquired, runnerVars, IInv, TypeOK
    <3> QED BY <1>2, <1>3, <3>1, <3>2, ConflictsStay DEF Sleeping
  <2>5. CASE ~Refused(j) /\ ~WithLocks(j) /\ ~TryAgain(j) /\ ~HandlerReturns(j) /\ ~Acquired(j)
    <3>1. active' = active /\ signalled' = signalled
      BY <2>5 DEF JobStep, StartRow, PersistGivesUp, RunRefuses, NothingReleased, Decide, Locked,
             finish, Requeue, Park, YieldEnds, Reread, RereadFails, Leave, tableVars
    <3>2. s \in {"conflict", "decide", "requeue", "park", "yield"} \/ j \in waiting' => Sleeping(j)
      BY <1>1, <2>5 DEF JobStep, StartRow, PersistGivesUp, RunRefuses, NothingReleased, Decide,
             Locked, finish, Requeue, Park, YieldEnds, Reread, RereadFails, Leave, runnerVars,
             Sleeping, IInv, TypeOK
    <3>3. \A i \in Jobs \ {j} : i \in waiting' => i \in waiting
      BY <2>5 DEF JobStep, StartRow, PersistGivesUp, RunRefuses, NothingReleased, Decide,
             Locked, finish, Requeue, Park, YieldEnds, Reread, RereadFails, Leave, runnerVars
    <3> QED BY <1>2, <1>3, <3>1, <3>2, <3>3, ConflictsStay DEF Sleeping
  <2> QED BY <2>1, <2>2, <2>3, <2>4, <2>5
<1> QED BY <1>4, <1>6, <1>7

\* The loop, a waiting job that returns, and requests.
LEMMA LoopKeepsQ ==
    ASSUME IInv, QInv,
           Loop \/ (\E j \in Jobs : WaitEnds(j)) \/ (\E r \in Requests : Enqueue(r))
    PROVE  QInv'
<1> USE ConstantsFit DEF QInv
<1>1. active' = active /\ signalled' = signalled /\ waiting' \subseteq waiting
  BY DEF Loop, FillCheck, FillRead, FillReadFails, FillClaim, WaitEnds, Enqueue, tableVars,
       runnerVars
<1>2. \A i \in Jobs : jpc'[i] # jpc[i] => jpc'[i] = "start" /\ i \notin waiting
  BY DEF Loop, FillCheck, FillRead, FillReadFails, FillClaim, WaitEnds, Enqueue, Claimable,
       Eligible,
         jobVars, IInv, TypeOK
<1>3. \A i \in Jobs : status[i] # "none" => request'[i] = request[i] /\ status'[i] # "none"
  BY DEF Loop, FillCheck, FillRead, FillReadFails, FillClaim, WaitEnds, Enqueue, rowVars, IInv,
       TypeOK
<1>4. \A i \in Jobs : Sleeping(i)' => Sleeping(i) /\ status[i] # "none"
  BY <1>1, <1>2 DEF Sleeping, WaitersLeft, IInv, RowsAgree
<1>5. ConflictLasts'
  BY <1>1, <1>3, <1>4, ConflictsStay
<1>6. WaitersLeft'
  BY <1>1, <1>2, <1>3 DEF WaitersLeft, IInv, TypeOK
<1>7. LaneBound'
  <2>1. CASE FillClaim
    BY <2>1, ClaimableFits DEF FillClaim, LaneBound
  <2>2. CASE ~FillClaim
    <3>1. laneLoad' = laneLoad
      BY <2>2 DEF Loop, FillCheck, FillRead, FillReadFails, WaitEnds, Enqueue, runnerVars
    <3> QED BY <3>1 DEF LaneBound
  <2> QED BY <2>1, <2>2
<1> QED BY <1>5, <1>6, <1>7

\* The process, and work outside the runner.
LEMMA OthersKeepQ ==
    ASSUME IInv, QInv,
           \/ Launch \/ Startup \/ Signal \/ Stop \/ Exit \/ Crash
           \/ \E h \in Outside \cup Warnings : OutsideTakes(h) \/ OutsideReleases(h)
    PROVE  QInv'
<1> USE ConstantsFit DEF QInv
<1>1. CASE Exit \/ Crash
  <2>1. /\ waiting' = {} /\ \A j \in Jobs : jpc'[j] = "none"
        /\ \A lane \in Lanes : laneLoad'[lane] = 0
    BY <1>1 DEF Exit, Crash, ProcessEnds, NoProcess, NoLoad
  <2>2. LaneBound'
    BY <2>1, RunnerAssumption DEF LaneBound, Lanes
  <2> QED BY <2>1, <2>2 DEF ConflictLasts, Sleeping, WaitersLeft
<1>2. CASE ~(Exit \/ Crash)
  <2>1. /\ laneLoad' = laneLoad /\ waiting' = waiting /\ jpc' = jpc /\ request' = request
        /\ \A i \in Jobs : status[i] # "none" => status'[i] # "none"
    <3>1. CASE Startup
      <4>1. CASE RecoverRecords
        BY <4>1 DEF RecoverRecords, runnerVars, jobVars, IInv, TypeOK
      <4>2. CASE StartRunner \/ RecoverReleases \/ RecoverFails \/ Recovered
        BY <4>2 DEF StartRunner, RecoverReleases, RecoverFails, Recovered, rowVars, runnerVars,
           jobVars
      <4>3. CASE \E j \in Jobs : RecoverTakes(j) \/ RecoverSkips(j)
        BY <4>3 DEF RecoverTakes, RecoverSkips, rowVars, runnerVars, jobVars
      <4> QED BY <3>1, <4>1, <4>2, <4>3 DEF Startup
    <3>2. CASE Launch \/ Signal \/ Stop
      BY <3>2 DEF Launch, Signal, Stop, rowVars, runnerVars, jobVars
    <3>3. ASSUME NEW h \in Outside \cup Warnings, OutsideTakes(h) \/ OutsideReleases(h)
          PROVE  UNCHANGED <<rowVars, runnerVars, jobVars>>
      BY <3>3 DEF OutsideTakes, OutsideReleases
    <3> QED BY <1>2, <3>1, <3>2, <3>3 DEF rowVars, runnerVars, jobVars
  <2>2. LaneBound' /\ WaitersLeft'
    BY <2>1 DEF LaneBound, WaitersLeft, IInv, TypeOK
  <2>3. ConflictLasts'
    <3>1. CASE RecoverReleases \/ \E h \in Outside \cup Warnings : OutsideReleases(h)
      <4>1. \A i \in Jobs : signalled'[i]
        BY <3>1 DEF RecoverReleases, OutsideReleases, Release
      <4> QED BY <4>1, SignalWakes
    <3>2. ASSUME NEW j \in Jobs, RecoverTakes(j) PROVE ConflictLasts'
      <4>1. \A k \in Keys : active[k] = NoHolder
        BY <3>2 DEF RecoverTakes, IInv, StartsAlone
      <4>2. signalled' = signalled
        BY <3>2 DEF RecoverTakes
      <4> QED BY <2>1, <4>1, <4>2, ConflictsStay DEF Sleeping
    <3>3. ASSUME NEW h \in Outside \cup Warnings, OutsideTakes(h) PROVE ConflictLasts'
      <4>1. PICK r \in Requests : /\ Answer(KeysOf[r.server], FALSE) = "ok"
                                  /\ Take(h, KeysOf[r.server], h \in Warnings)
        BY <3>3 DEF OutsideTakes
      <4>2. \A k \in KeysOf[r.server] : active[k] = NoHolder
        BY <4>1, OkMeansFree, OverlapsReflexive
      <4>3. \A k \in Keys : active[k] # NoHolder => active'[k] = active[k]
        BY <4>1, <4>2 DEF Take
      <4>4. signalled' = signalled
        BY <3>3 DEF OutsideTakes
      <4> QED BY <2>1, <4>3, <4>4, ConflictsStay DEF Sleeping
    <3>4. CASE \/ Launch \/ StartRunner \/ RecoverRecords \/ RecoverFails \/ Recovered
               \/ Signal \/ Stop \/ \E j \in Jobs : RecoverSkips(j)
      <4>1. active' = active /\ signalled' = signalled
        <5>1. CASE Launch \/ Recovered \/ Signal \/ Stop
          BY <5>1 DEF Launch, Recovered, Signal, Stop, tableVars
        <5>2. CASE StartRunner \/ RecoverRecords \/ RecoverFails
          BY <5>2 DEF StartRunner, RecoverRecords, RecoverFails, tableVars
        <5>3. ASSUME NEW j \in Jobs, RecoverSkips(j) PROVE active' = active /\ signalled' = signalled
          BY <5>3 DEF RecoverSkips, tableVars
        <5> QED BY <3>4, <5>1, <5>2, <5>3
      <4> QED BY <2>1, <4>1, ConflictsStay DEF Sleeping
    <3> QED BY <1>2, <3>1, <3>2, <3>3, <3>4 DEF Startup
  <2> QED BY <2>2, <2>3
<1> QED BY <1>1, <1>2

LEMMA QInvariance == Spec => [](IInv /\ QInv)
<1>1. Init => QInv
  <2> SUFFICES ASSUME Init PROVE QInv
    OBVIOUS
  <2> QED BY RunnerAssumption
          DEF Init, QInv, ConflictLasts, Sleeping, WaitersLeft, LaneBound, NoProcess, NoLoad, Lanes
<1>2. QInv /\ IInv /\ [Next]_vars => QInv'
  <2> SUFFICES ASSUME QInv, IInv, [Next]_vars PROVE QInv'
    OBVIOUS
  <2>1. CASE UNCHANGED vars
    BY <2>1 DEF vars, tableVars, rowVars, runnerVars, jobVars, QInv, ConflictLasts, Sleeping,
           WaitersLeft, LaneBound, Conflicting, JobKeys
  <2>2. CASE Next
    BY <2>2, JobStepKeepsQ, LoopKeepsQ, OthersKeepQ DEF Next
  <2> QED BY <2>1, <2>2
<1> QED BY <1>1, <1>2, Invariance, PTL DEF Spec

\* No lane is overfull or taken by jobs that left it, and no job sleeps with
\* nothing in its way, unless its channel was closed.
THEOREM LanesStayFree == Spec => []LanesAreFree
<1>1. IInv /\ QInv => LaneCapacity
  BY DEF IInv, QInv, LaneBound, LoadIsCount, InLane, LaneCapacity
<1>2. IInv /\ QInv => SleepersHaveWaker
  <2> SUFFICES ASSUME QInv, NEW j \in Jobs, Sleeping(j), ~signalled[j]
               PROVE  Conflicting(JobKeys(j)) # {} /\ \E k \in Keys : active[k] # NoHolder
    BY DEF SleepersHaveWaker, Sleeping
  <2> QED BY DEF QInv, ConflictLasts, Conflicting
<1> QED BY <1>1, <1>2, QInvariance, PTL DEF LanesAreFree

============================================================================
