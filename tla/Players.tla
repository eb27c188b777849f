------------------------------- MODULE Players -------------------------------
(***************************************************************************)
(* Who is online (internal/players/players.go): readings of running        *)
(* servers by the tick's Poll and by Check after a console command, one at *)
(* a time per server and a few at a time over all, as background work that *)
(* gives way to anything that needs the server.                            *)
(*                                                                         *)
(* What the game would answer is a version that grows with every change;   *)
(* a reading takes it at one moment.  Simplifications: the interval        *)
(* between readings is left out, so Poll may read whenever it runs; what a *)
(* failed reading says is not told apart from an answer.                   *)
(***************************************************************************)
EXTENDS Naturals, FiniteSets

CONSTANTS Server, Parallel,
          MaxVersion, MaxEvents    \* bounds

VARIABLES
    game,       \* of each server: does it run, which run of its container, what it would answer
    readings,   \* the latest reading
    reading,    \* the goroutine reading it
    again, next,    \* a Check that came meanwhile, and one about to begin
    polling,    \* Poll: the servers it has listed and waits for
    stopped,    \* Stop: "no", "waiting", "returned"
    wanted,     \* the version a Check is to see
    events

vars == <<game, readings, reading, again, next, polling, stopped, wanted, events>>

None == [run |-> 0, ver |-> 0]
Idle == [pc |-> "none", polled |-> FALSE, got |-> None]

TypeOK ==
    /\ game \in [Server -> [running : BOOLEAN, run : 1..MaxVersion, ver : 1..MaxVersion]]
    /\ readings \in [Server -> [run : 0..MaxVersion, ver : 0..MaxVersion]]
    /\ \A s \in Server : reading[s].pc \in {"none", "slot", "lock", "query", "store", "end"}
    /\ again \subseteq Server /\ next \subseteq Server /\ polling \subseteq Server /\ stopped \in {"no", "waiting", "returned"}
    /\ wanted \in [Server -> 0..MaxVersion] /\ events \in 0..MaxEvents

Init ==
    /\ game = [s \in Server |-> [running |-> TRUE, run |-> 1, ver |-> 1]]
    /\ readings = [s \in Server |-> None] /\ reading = [s \in Server |-> Idle] /\ again = {} /\ next = {} /\ polling = {}
    /\ stopped = "no" /\ wanted = [s \in Server |-> 0] /\ events = 0

At(s, pc) == reading[s].pc = pc
Goto(s, pc) == reading' = [reading EXCEPT ![s].pc = pc]
Event == events < MaxEvents /\ events' = events + 1
Slots == {s \in Server : reading[s].pc \in {"lock", "query", "store"}}

(* Players come and go; the server stops, and starts as another run.       *)
Plays(s) ==
    /\ Event /\ game[s].ver < MaxVersion
    /\ \/ game[s].running /\ game' = [game EXCEPT ![s].ver = @ + 1]
       \/ game[s].running /\ game' = [game EXCEPT ![s].ver = @ + 1, ![s].running = FALSE]
       \/ ~game[s].running /\ game' = [game EXCEPT ![s] = [running |-> TRUE, run |-> @.run + 1, ver |-> @.ver + 1]]
    /\ wanted' = [wanted EXCEPT ![s] = IF game[s].running /\ ~game'[s].running THEN 0 ELSE @]
    /\ UNCHANGED <<readings, reading, again, next, polling, stopped>>

-----------------------------------------------------------------------------
(* start: a reading under way is not joined; a Check that finds one is     *)
(* kept for when it ends.                                                  *)

Remembers(s) == again \cup {s}

Begin(s) ==
    \/ stopped # "no" /\ UNCHANGED <<reading, again>>
    \/ stopped = "no" /\ At(s, "none") /\ reading' = [reading EXCEPT ![s] = [Idle EXCEPT !.pc = "slot"]] /\ UNCHANGED again
    \/ stopped = "no" /\ ~At(s, "none") /\ again' = Remembers(s) /\ UNCHANGED reading

Check(s) ==
    /\ Event
    /\ wanted' = [wanted EXCEPT ![s] = IF stopped = "no" /\ game[s].running THEN game[s].ver ELSE @]
    /\ Begin(s)
    /\ UNCHANGED <<game, readings, next, polling, stopped>>

(* Poll: a reading for every running server, and the end of the others'.   *)
Poll ==
    LET listed == {s \in Server : game[s].running}
        begun == {s \in listed : stopped = "no" /\ At(s, "none")} IN
    /\ polling = {} /\ Event
    /\ reading' = [s \in Server |-> IF s \in begun THEN [Idle EXCEPT !.pc = "slot", !.polled = TRUE] ELSE reading[s]]
    /\ readings' = [s \in Server |-> IF s \in listed THEN readings[s] ELSE None]
    /\ polling' = begun
    /\ UNCHANGED <<game, again, next, stopped, wanted>>

(* A free slot, or the end of Ludock's context.                            *)
TakeSlot(s) ==
    /\ At(s, "slot")
    /\ \/ Cardinality(Slots) < Parallel /\ Goto(s, "lock") /\ UNCHANGED wanted
       \/ stopped # "no" /\ Goto(s, "end") /\ UNCHANGED wanted
    /\ UNCHANGED <<game, readings, again, next, polling, stopped, events>>

(* read: the lock, the container, the console; a reading that is cancelled *)
(* says nothing.                                                           *)
Lock(s) ==
    /\ At(s, "lock")
    /\ \/ game[s].running /\ Goto(s, "query") /\ UNCHANGED <<wanted, events>>
       \/ ~game[s].running /\ Goto(s, "end") /\ UNCHANGED <<wanted, events>>
       \/ Event /\ Goto(s, "end") /\ wanted' = [wanted EXCEPT ![s] = 0]
    /\ UNCHANGED <<game, readings, again, next, polling, stopped>>

Query(s) ==
    /\ At(s, "query")
    /\ reading' = [reading EXCEPT ![s].pc = "store", ![s].got = [run |-> game[s].run, ver |-> game[s].ver]]
    /\ UNCHANGED <<game, readings, again, next, polling, stopped, wanted, events>>

(* Work that needs the server preempts the reading's lock, or Ludock stops. *)
Preempt(s) ==
    /\ reading[s].pc \in {"query", "store"} /\ IF stopped # "no" THEN UNCHANGED events ELSE Event
    /\ Goto(s, "end") /\ wanted' = [wanted EXCEPT ![s] = 0]
    /\ UNCHANGED <<game, readings, again, next, polling, stopped>>

Store(s) ==
    /\ At(s, "store") /\ readings' = [readings EXCEPT ![s] = reading[s].got] /\ Goto(s, "end")
    /\ wanted' = [wanted EXCEPT ![s] = IF reading[s].got.ver >= @ THEN 0 ELSE @]
    /\ UNCHANGED <<game, again, next, polling, stopped, events>>

(* The goroutine ends; the Check it took begins, by another step, before   *)
(* it is done.  (Two goroutines about to begin one are not told apart.)    *)
Ends(s) ==
    /\ At(s, "end") /\ s \notin next
    /\ again' = again \ {s} /\ next' = next \cup ({s} \cap again)
    /\ polling' = polling \ (IF reading[s].polled THEN {s} ELSE {})
    /\ reading' = [reading EXCEPT ![s] = Idle]
    /\ UNCHANGED <<game, readings, stopped, wanted, events>>

BeginKept(s) ==
    /\ s \in next /\ next' = next \ {s} /\ Begin(s)
    /\ UNCHANGED <<game, readings, polling, stopped, wanted, events>>

Stop ==
    /\ stopped = "no" /\ stopped' = "waiting" /\ wanted' = [s \in Server |-> 0]
    /\ UNCHANGED <<game, readings, reading, again, next, polling, events>>

StopReturns ==
    /\ stopped = "waiting" /\ (\A s \in Server : At(s, "none")) /\ next = {} /\ stopped' = "returned"
    /\ UNCHANGED <<game, readings, reading, again, next, polling, wanted, events>>

Work(s) == TakeSlot(s) \/ Lock(s) \/ Query(s) \/ Store(s) \/ Ends(s) \/ BeginKept(s)
Next ==
    \/ \E s \in Server : Plays(s) \/ Check(s) \/ Work(s) \/ Preempt(s)
    \/ Poll \/ Stop \/ StopReturns

(* As long as a goroutine that reads can go on, one does.                  *)
Progress == StopReturns \/ \E s \in Server : Work(s)
Spec == Init /\ [][Next]_vars /\ WF_vars(Progress)

-----------------------------------------------------------------------------
(* Get: what a page shows of a server.                                     *)
Get(s) == IF game[s].running /\ readings[s].run = game[s].run THEN readings[s] ELSE None

(* No more readings at once than the limit; a server is read by one        *)
(* goroutine at a time, so an older answer never replaces a newer one; a   *)
(* page is never shown the players of an earlier run; a kept Check has a   *)
(* goroutine that will begin it; and none runs when Stop has returned.     *)
ReadingsInOrder ==
    /\ TypeOK /\ Cardinality(Slots) <= Parallel
    /\ \A s \in Server : At(s, "store") => reading[s].got.ver >= readings[s].ver
    /\ \A s \in Server : Get(s).ver <= game[s].ver /\ (s \in again => ~At(s, "none") \/ s \in next) /\ (s \in polling => reading[s].polled)
    /\ stopped = "returned" => \A s \in Server : At(s, "none")

Asked(s) == wanted[s] # 0
Stopping == stopped = "waiting"
Stopped == stopped = "returned"

(* A Check is answered by a reading that began after it, even if it came   *)
(* while one was under way, unless that is preempted or fails, the server  *)
(* stops, or Ludock does; Stop returns; and readings stay in order.        *)
ChecksAreSeen ==
    /\ []ReadingsInOrder
    /\ \A s \in Server : Asked(s) ~> ~Asked(s)
    /\ Stopping ~> Stopped

=============================================================================
