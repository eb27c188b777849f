------------------------------- MODULE MCWork -------------------------------
(***************************************************************************)
(* Instances of the parts of Ludock that are checked for liveness as well. *)
(* They are independent of each other: every behaviour is one of one part, *)
(* named by component, which keeps its state in the first of the variables *)
(* v1 to v14 and leaves the others as they are; Restore and Console, whose *)
(* invariants are proved, have variables and constants of their own.       *)
(***************************************************************************)
EXTENDS Restore, Console, Sequences

CONSTANT MaxInAll    \* bound: crashes during a restore and deeds of others in all

VARIABLES component, v1, v2, v3, v4, v5, v6, v7, v8, v9, v10, v11, v12, v13, v14

\* Two crashes and one deed of others (run parts has more of both).
Upd == INSTANCE Update WITH
    row <- v1, rec <- v2, stage <- v3, pc <- v4, mode <- v5, plan <- v6, orig <- v7,
    repl <- v8, reported <- v9, crashes <- v10, externals <- v11,
    MaxCrashes <- 2, MaxExternal <- 1

\* Two viewers, the second of whom needs a new stream; they are alike, so
\* v is the first to subscribe (BesideV).
Eve == INSTANCE Events WITH
    joined <- v1, subs <- v2, current <- v3, down <- v4, stream <- v5, real <- v6,
    known <- v7, grants <- v8, valid <- v9, telling <- v10, owed <- v11, stale <- v12,
    events <- v13, taken <- v14,
    Viewer <- {"v", "w"}, Container <- {"c"}, MaxPending <- 1,
    MaxStreams <- 2, MaxChanges <- 3, MaxEvents <- 3

\* Bound: alone, v sees three events; with w beside it there is one, or there
\* are two changes of the container and no Stop.
BesideV ==
    "w" \in v1' => /\ "v" \in v1'
                   /\ v13' <= 1 \/ (v13' = 2 /\ v6'["c"].ver = 2 /\ v4' = "no")

\* Two servers that wait for one slot.
Pla == INSTANCE Players WITH
    game <- v1, readings <- v2, reading <- v3, again <- v4, next <- v5, polling <- v6,
    stopped <- v7, wanted <- v8, events <- v9,
    Server <- {"s", "t"}, Parallel <- 1, MaxVersion <- 3, MaxEvents <- 4

-----------------------------------------------------------------------------
(* The variables a part does not use.                                      *)
Unused12 == v12 = 0 /\ v13 = 0 /\ v14 = 0
Unused10 == v10 = 0 /\ v11 = 0 /\ Unused12
Unused == v1 = 0 /\ v2 = 0 /\ v3 = 0 /\ v4 = 0 /\ v5 = 0 /\ v6 = 0 /\ v7 = 0 /\ v8 = 0 /\ v9 = 0
            /\ Unused10
rest12 == <<v12, v13, v14>>
rest10 == <<v10, v11, rest12>>
rest == <<v1, v2, v3, v4, v5, v6, v7, v8, v9, rest10>>

(* The variables of Restore while another part runs; those of Console are  *)
(* as it starts.                                                           *)
NoRestore == Init /\ ~running

OtherInit ==
    \/ component = "update" /\ Upd!UpdateInit /\ Unused12
    \/ component = "events" /\ Eve!Init
    \/ component = "players" /\ Pla!Init /\ Unused10

OtherNext ==
    \/ component = "update" /\ Upd!UpdateNext /\ UNCHANGED rest12
    \/ component = "events" /\ Eve!Next /\ BesideV
    \/ component = "players" /\ Pla!Next /\ UNCHANGED rest10

WorkInit ==
    /\ ConsoleInit
    /\ \/ component = "restore" /\ Init /\ Unused
       \/ component = "console" /\ NoRestore /\ Unused
       \/ NoRestore /\ OtherInit

WorkNext ==
    /\ UNCHANGED component
    /\ \/ component = "restore" /\ Next /\ crashes' + externals' <= MaxInAll
          /\ UNCHANGED <<consoleVars, rest>>
       \/ component = "console" /\ ConsoleNext /\ UNCHANGED <<vars, rest>>
       \/ OtherNext /\ UNCHANGED <<vars, consoleVars>>

(* The fairness of each part, as its module states it.  A behaviour has    *)
(* steps of one part only, so conditions of several parts share an action. *)
Other1 ==
    \/ component = "update" /\ Upd!LudockStep /\ UNCHANGED rest12
    \/ component = "events" /\ Eve!Progress
    \/ component = "players" /\ Pla!Progress /\ UNCHANGED rest10
Fair1 ==
    /\ UNCHANGED component
    /\ \/ component = "restore" /\ LudockStep /\ UNCHANGED <<consoleVars, rest>>
       \/ component = "console" /\ Progress /\ UNCHANGED <<vars, rest>>
       \/ Other1 /\ UNCHANGED <<vars, consoleVars>>
Fair2 ==
    /\ UNCHANGED component
    /\ \/ component = "restore" /\ HelperStep /\ UNCHANGED <<consoleVars, rest>>
       \/ component = "console" /\ JobReturns /\ UNCHANGED <<vars, rest>>
Fair3 ==
    /\ UNCHANGED component
    /\ component = "update" /\ Upd!TakesLastStage
    /\ UNCHANGED <<vars, consoleVars, rest12>>

workVars == <<component, vars, consoleVars, rest>>

WorkSpec ==
    /\ WorkInit /\ [][WorkNext]_workVars
    /\ WF_workVars(Fair1) /\ WF_workVars(Fair2) /\ SF_workVars(Fair3)

-----------------------------------------------------------------------------
(* Properties: each is stated, with what it takes, in its part's module;   *)
(* DataSurvives and RestoreIsAtomic are those of Restore, CommandsConfined *)
(* is that of Console.                                                     *)
In(c, p) == component = c /\ p

(* A restore and an update end, whatever fails and however often Ludock    *)
(* crashes; a console command ends and gives the locks back; and the event *)
(* hub and the player readings stop when they are asked to.                *)
WorkEnds ==
    []<>(/\ component = "restore" => Over
         /\ component = "update" => Upd!Over
         /\ component = "console" => Freed
         /\ component = "events" => ~Eve!Stopping
         /\ component = "players" => ~Pla!Stopping)

ChangesAreSeen ==
    []<>(/\ component = "events" => ~Eve!Owed("v", "c") /\ ~Eve!Owed("w", "c")
         /\ component = "players" => ~Pla!Asked("s"))

(* What is begun ends and what is changed is seen: a viewer's list is made *)
(* after the change, a reading begins after the check it answers, and      *)
(* readings never go back.                                                 *)
WorkIsDone ==
    /\ WorkEnds /\ ChangesAreSeen
    /\ [](component = "events" => Eve!DeliveriesAreFresh)
    /\ [](component = "players" => Pla!ReadingsInOrder)
=============================================================================
