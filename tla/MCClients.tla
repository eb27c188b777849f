----------------------------- MODULE MCClients -----------------------------
(***************************************************************************)
(* Instances of the callers of the lock table and of the schedules.  They  *)
(* are independent of each other: every behaviour is one of one of them,   *)
(* named by component, and leaves the variables of the other as they are.  *)
(* Only the callers have fairness, and a property that needs it.           *)
(*                                                                         *)
(* The locks are a path, its parent and a server's key.  The schedules     *)
(* have days of four minutes and weeks of two days.                        *)
(***************************************************************************)
EXTENDS LockClients, Schedules

CONSTANTS countdown, request, other, recovery,
          MaxInAll,      \* bound: edits, changes of access, faults and crashes of Schedules in all
          MaxAtMidnight  \* bound: edits of a schedule that runs at midnight, or becomes one

VARIABLE component

MCKeys == {<<"server", "a">>, <<"path", "srv">>, <<"path", "srv", "a">>}
\* A server with its data folder, the folder's parent alone, the server alone.
MCKeySets == {{<<"server", "a">>, <<"path", "srv", "a">>}, {<<"path", "srv">>}, {<<"server", "a">>}}
MCClients == {countdown, request, other}
MCHolders == MCClients \cup {recovery}
MCBackground == {countdown}

Recurring(days, time, on) ==
    [kind |-> "recurring", days |-> days, date |-> 0, time |-> time, action |-> "restart",
     leads |-> {1}, enabled |-> on]
OneTime(date, time, on) ==
    [kind |-> "once", days |-> {}, date |-> date, time |-> time, action |-> "restart",
     leads |-> {}, enabled |-> on]

\* Forward: the last minute of day 0 is missing.  Back: it comes twice, with the
\* first of day 1 between.
Forward == [before |-> 0, after |-> 1, change |-> 3]
Back == [before |-> 2, after |-> 0, change |-> 3]
MCZones == {Forward, Back}
MCInputs == {Recurring({0}, 3, TRUE), Recurring({0}, 3, FALSE), Recurring({0, 1}, 0, TRUE),
             OneTime(0, 3, TRUE)}

-----------------------------------------------------------------------------
AtMidnight ==
    \/ edit'.at # "none" /\ edit'.input.time = 0
    \/ \E id \in Ids : Saved(rows'[id]) /\ rows'[id].input.time = 0

(* While callers take locks there are no schedules.                        *)
EitherInit ==
    /\ ClientsInit /\ SchedulesInit
    /\ \/ component = "callers" /\ zone = Forward /\ rows = [id \in Ids |-> NoRow]
       \/ component = "schedules"

EitherNext ==
    /\ UNCHANGED component
    /\ \/ component = "callers" /\ ClientsNext /\ UNCHANGED scheduleVars
       \/ /\ component = "schedules" /\ SchedulesNext
          /\ edits' + changes' + faults' <= MaxInAll
          /\ AtMidnight => edits' <= MaxAtMidnight
          /\ UNCHANGED clientVars

eitherVars == <<component, clientVars, scheduleVars>>
AmongCallers(A) == component = "callers" /\ A /\ UNCHANGED <<component, scheduleVars>>

(* The fairness of LockClients.                                            *)
EitherSpec ==
    /\ EitherInit /\ [][EitherNext]_eitherVars
    /\ \A c \in Holders : WF_eitherVars(AmongCallers(Done(c)))
    /\ \A c \in Clients : WF_eitherVars(AmongCallers(Woken(c)))
=============================================================================
