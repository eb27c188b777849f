---------------------------- MODULE LockClients ----------------------------
(***************************************************************************)
(* Callers of the lock table (internal/locks/locks.go): plain Acquire,     *)
(* AcquirePreempting, AcquireForRecovery, Fence and Drained, interleaved   *)
(* at the critical sections of Table.mu.                                   *)
(*                                                                         *)
(* A client may call either form of Acquire with any of the KeySets, again *)
(* and again; a client of Background passes a cancel function.             *)
(***************************************************************************)
EXTENDS Locks

CONSTANTS Clients,     \* requests, the schedule countdown, player polls
          Background,  \* the clients that pass a cancel function
          KeySets,     \* the sets of keys calls ask for
          Recovery     \* the startup recovery, which a fence does not stop

ASSUME ClientsAssumption ==
    /\ Holders = Clients \cup {Recovery}
    /\ Background \subseteq Clients
    /\ KeySets \subseteq SUBSET Keys
    /\ Recovery \notin Clients

VARIABLES pc,     \* where each client is in its call
          want,   \* the keys of its call
          asked,  \* the holders whose cancel functions a refused call returned
          drain   \* the channel of App.Stop's call of Drained

clientVars == <<tableVars, pc, want, asked, drain>>

ClientsTypeOK ==
    /\ TableTypeOK
    /\ pc \in [Holders -> {"idle", "try", "cancel", "wait", "hold"}]
    /\ want \in [Holders -> SUBSET Keys]
    /\ asked \in [Holders -> SUBSET Holders]
    /\ drain \in {"none", "open", "closed"}

ClientsInit ==
    /\ TableInit
    /\ pc = [c \in Holders |-> "idle"]
    /\ want = [c \in Holders |-> {}]
    /\ asked = [c \in Holders |-> {}]
    /\ drain = "none"

----------------------------------------------------------------------------
\* Acquire: refused calls leave the table alone.
Acquire(c) ==
    \E keys \in KeySets :
        /\ pc[c] = "idle"
        /\ Answer(keys, FALSE) = "ok"
        /\ Take(c, keys, c \in Background)
        /\ pc' = [pc EXCEPT ![c] = "hold"]
        /\ want' = [want EXCEPT ![c] = keys]
        /\ UNCHANGED <<signalled, fences, asked, drain>>

AcquireForRecovery ==
    \E keys \in KeySets :
        /\ pc[Recovery] = "idle"
        /\ Answer(keys, TRUE) = "ok"
        /\ Take(Recovery, keys, FALSE)
        /\ pc' = [pc EXCEPT ![Recovery] = "hold"]
        /\ want' = [want EXCEPT ![Recovery] = keys]
        /\ UNCHANGED <<signalled, fences, asked, drain>>

\* AcquirePreempting takes the next release's channel before it tries.
Begin(c) ==
    \E keys \in KeySets :
        /\ pc[c] = "idle"
        /\ NextRelease(c)
        /\ pc' = [pc EXCEPT ![c] = "try"]
        /\ want' = [want EXCEPT ![c] = keys]
        /\ UNCHANGED <<active, background, cancelled, fences, asked, drain>>

TryOK(c) ==
    /\ pc[c] = "try"
    /\ Answer(want[c], FALSE) = "ok"
    /\ Take(c, want[c], c \in Background)
    /\ pc' = [pc EXCEPT ![c] = "hold"]
    /\ UNCHANGED <<signalled, fences, want, asked, drain>>

\* A foreground holder or a fence ends the call with an error.
TryRefused(c) ==
    /\ pc[c] = "try"
    /\ Answer(want[c], FALSE) \in {"conflict", "recovering"}
    /\ pc' = [pc EXCEPT ![c] = "idle"]
    /\ want' = [want EXCEPT ![c] = {}]
    /\ UNCHANGED <<tableVars, asked, drain>>

\* Only background work is in the way: keep its cancel functions.
TryBackground(c) ==
    /\ pc[c] = "try"
    /\ Answer(want[c], FALSE) = "background"
    /\ asked' = [asked EXCEPT ![c] = Conflicting(want[c])]
    /\ pc' = [pc EXCEPT ![c] = "cancel"]
    /\ UNCHANGED <<tableVars, want, drain>>

\* Mutant: the channel is taken after the attempt, not before.
CancelHoldersLate(c) ==
    /\ pc[c] = "cancel"
    /\ cancelled' = cancelled \cup asked[c]
    /\ NextRelease(c)
    /\ asked' = [asked EXCEPT ![c] = {}]
    /\ pc' = [pc EXCEPT ![c] = "wait"]
    /\ UNCHANGED <<active, background, fences, want, drain>>

\* Cancel runs after the table is unlocked, so a holder may have released
\* since; a cancel function does nothing to a later acquisition.
CancelHolders(c) ==
    /\ pc[c] = "cancel"
    /\ cancelled' = cancelled \cup asked[c]
    /\ asked' = [asked EXCEPT ![c] = {}]
    /\ pc' = [pc EXCEPT ![c] = "wait"]
    /\ UNCHANGED <<active, background, signalled, fences, want, drain>>

\* Mutant: a woken caller sleeps on while its keys are held by anyone.
WokenWhenFree(c) ==
    /\ pc[c] = "wait" /\ signalled[c] /\ Conflicting(want[c]) = {}
    /\ NextRelease(c)
    /\ pc' = [pc EXCEPT ![c] = "try"]
    /\ UNCHANGED <<active, background, cancelled, fences, want, asked, drain>>

\* A release was seen: take the next channel and try again.
Woken(c) ==
    /\ pc[c] = "wait" /\ signalled[c]
    /\ NextRelease(c)
    /\ pc' = [pc EXCEPT ![c] = "try"]
    /\ UNCHANGED <<active, background, cancelled, fences, want, asked, drain>>

\* backgroundYield has passed, or the caller has gone.
GiveUp(c) ==
    /\ pc[c] = "wait"
    /\ pc' = [pc EXCEPT ![c] = "idle"]
    /\ want' = [want EXCEPT ![c] = {}]
    /\ UNCHANGED <<tableVars, asked, drain>>

Done(c) ==
    /\ pc[c] = "hold"
    /\ Release(c)
    /\ pc' = [pc EXCEPT ![c] = "idle"]
    /\ want' = [want EXCEPT ![c] = {}]
    /\ asked' = [o \in Holders |-> asked[o] \ {c}]
    /\ drain' = IF drain = "open" /\ \A k \in Keys : active'[k] = NoHolder
                THEN "closed" ELSE drain
    /\ UNCHANGED fences

\* App.Start takes one fence before the server listens and lifts it once.
Fence ==
    /\ fences = 0
    /\ \A c \in Holders : pc[c] = "idle"
    /\ fences' = 1
    /\ UNCHANGED <<active, background, cancelled, signalled, pc, want, asked, drain>>

\* The function Fence returns: a second call does nothing.
Lift ==
    /\ fences = 1
    /\ fences' = 0
    /\ UNCHANGED <<active, background, cancelled, signalled, pc, want, asked, drain>>

\* Drained, called by App.Stop.  Requests that outlived the HTTP server's
\* shutdown timeout may still be calling Acquire.
Drained ==
    /\ drain = "none"
    /\ drain' = IF \A k \in Keys : active[k] = NoHolder THEN "closed" ELSE "open"
    /\ UNCHANGED <<tableVars, pc, want, asked>>

ClientsNext ==
    \/ \E c \in Clients :
          Acquire(c) \/ Begin(c) \/ TryOK(c) \/ TryRefused(c) \/ TryBackground(c)
              \/ CancelHolders(c) \/ Woken(c) \/ GiveUp(c)
    \/ \E c \in Holders : Done(c)
    \/ AcquireForRecovery \/ Fence \/ Lift \/ Drained

\* Background work that was cancelled cleans up and releases; a caller that
\* was woken runs on.  Neither a deadline nor new calls are relied on.
ClientsFairness ==
    /\ \A c \in Holders : WF_clientVars(Done(c))
    /\ \A c \in Clients : WF_clientVars(Woken(c))

ClientsSpec == ClientsInit /\ [][ClientsNext]_clientVars /\ ClientsFairness

----------------------------------------------------------------------------
\* A client holds all the keys of its call or none: a refused Acquire takes
\* nothing, and a release leaves nothing behind and nobody else's keys free.
AllOrNothing ==
    \A c \in Holders : Held(c) = IF pc[c] = "hold" THEN want[c] ELSE {}

\* The table keeps its promise: for its clients an acquire that succeeded is
\* one step that gives them all of their keys, whichever critical sections,
\* refusals and cancellations led to it.
Promise == INSTANCE Exclusive
    WITH Resource <- Keys, Holder <- Holders, Clash <- Overlaps,
         uses <- [c \in Holders |-> Held(c)]

ImplementsExclusive == Promise!Spec

\* A preempting caller that sleeps has a reason to: something it waits for is
\* still held by background work that was asked to stop, so a release will
\* wake it.  It is why NextRelease is taken before Acquire is tried.
SleepsOnCancelledWork ==
    \A c \in Clients :
        pc[c] = "wait" /\ ~signalled[c] => Conflicting(want[c]) \cap cancelled # {}

\* Shutdown does not sleep on an empty table: whoever asked for Drained is
\* told by the release that frees the last key.
DrainIsTold == drain = "open" => \E k \in Keys : active[k] # NoHolder

\* Whoever waits for the table will be told: nobody sleeps on work that is
\* over, or on a table that has drained.
WaitersAreTold == SleepsOnCancelledWork /\ DrainIsTold

\* A sleeping caller wakes without its deadline: cancelled background work
\* always releases.
SleepersWake ==
    \A c \in Clients : []<>(pc[c] # "wait")
============================================================================
