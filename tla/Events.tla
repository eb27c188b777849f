-------------------------------- MODULE Events --------------------------------
(***************************************************************************)
(* The event hub (internal/events/events.go): Docker's container events,   *)
(* coalesced and turned into what each viewer may know.                    *)
(*                                                                         *)
(* A stream runs while anyone listens.  It has a reader, which queues at   *)
(* most one change per container, and a drainer, which takes the queue as  *)
(* a batch, reads who could see what, refreshes discovery, and tells each  *)
(* viewer what it may see now.  The last viewer to leave takes the cancel  *)
(* function of the stream and calls it when it has unlocked the hub: until *)
(* then, and until it has finished its batch, the stream runs beside one   *)
(* that the next viewer starts.  Stop waits for every stream and delivery. *)
(*                                                                         *)
(* Simplifications: an event that is not a state action is not modelled;   *)
(* the delay before a reconnection is a step that can be taken; the grants *)
(* of all viewers are read together when the batch is taken, and one by    *)
(* one after the refresh.                                                  *)
(***************************************************************************)
EXTENDS Naturals, Sequences, SequencesExt

CONSTANTS Viewer,        \* connections, each with its Subscriber
          Container,
          MaxPending,    \* queued containers, 1024 in the code
          MaxStreams, MaxChanges, MaxEvents    \* bounds

VARIABLES
    joined, subs,     \* connections so far, h.subscribers
    current,          \* the stream h.cancel belongs to
    taken,            \* the streams whose cancel function was taken and is yet to be called
    down,             \* Stop: "no", "stopping", "stopped"
    stream,
    real, known,      \* the containers: in Docker, in the identity store
    grants, valid,    \* who may view what, whose session is alive
    telling,          \* Changed: the viewers left, and the server
    owed,             \* changes a viewer is still to hear of
    stale,            \* a server was named from a list older than the change
    events

vars == <<joined, subs, current, taken, down, stream, real, known, grants, valid, telling, owed, stale, events>>

Streams == 1..MaxStreams
NoStream == [pc |-> "off", cancelled |-> FALSE, order |-> <<>>, wake |-> FALSE,
             drainer |-> "gone", batch |-> {}, left |-> {}, before |-> {}, list |-> {}]
NoTelling == [left |-> {}, of |-> {}]

TypeOK ==
    /\ subs \subseteq joined /\ joined \subseteq Viewer /\ current \in {0} \cup Streams
    /\ taken \subseteq Streams /\ down \in {"no", "stopping", "stopped"}
    /\ \A g \in Streams :
          /\ stream[g].pc \in {"off", "connect", "follow", "closing", "done"}
          /\ stream[g].drainer \in {"gone", "wait", "drain", "looked", "refresh", "deliver"}
          /\ ToSet(stream[g].order) \subseteq Container /\ Len(stream[g].order) <= MaxPending
          /\ stream[g].before \subseteq Viewer \X Container /\ stream[g].left \subseteq Viewer
    /\ real \in [Container -> [managed : BOOLEAN, ver : 0..MaxChanges]]
    /\ known \in [Container -> [managed : BOOLEAN, ver : 0..MaxChanges]]
    /\ grants \subseteq Viewer \X Container /\ valid \subseteq Viewer /\ owed \subseteq Viewer \X Container
    /\ telling.left \subseteq Viewer /\ telling.of \subseteq Container
    /\ stale \in BOOLEAN /\ events \in 0..MaxEvents

Init ==
    /\ joined = {} /\ subs = {} /\ current = 0 /\ taken = {} /\ down = "no" /\ stream = [g \in Streams |-> NoStream]
    /\ real = [c \in Container |-> [managed |-> TRUE, ver |-> 0]] /\ known = real
    /\ grants = Viewer \X Container /\ valid = Viewer /\ telling = NoTelling
    /\ owed = {} /\ stale = FALSE /\ events = 0

Event == events < MaxEvents /\ events' = events + 1
Set(g, s) == stream' = [stream EXCEPT ![g] = s]
Sees(v, c, list) == v \in valid /\ <<v, c>> \in grants /\ list[c].managed
OwedTo(v) == {o \in owed : o[1] = v}
OwedOf(cs) == {o \in owed : o[2] \in cs}

-----------------------------------------------------------------------------
(* Subscribe starts a stream if none runs; the last to leave cancels it.   *)

Starts == current = 0 /\ down = "no"

Subscribe(v) ==
    /\ v \notin joined /\ joined' = joined \cup {v} /\ subs' = subs \cup {v}
    /\ IF ~Starts THEN UNCHANGED <<current, stream>>
       ELSE \E g \in Streams : stream[g].pc = "off" /\ (\A h \in 1..(g - 1) : stream[h].pc # "off")
               /\ Set(g, [NoStream EXCEPT !.pc = "connect"]) /\ current' = g
    /\ UNCHANGED <<taken, down, real, known, grants, valid, telling, owed, stale, events>>

TakeCancel == current' = 0 /\ taken' = taken \cup ({current} \ {0})

Unsubscribe(v) ==
    /\ v \in subs /\ subs' = subs \ {v} /\ owed' = owed \ OwedTo(v)
    /\ IF subs = {v} THEN TakeCancel ELSE UNCHANGED <<current, taken>>
    /\ UNCHANGED <<joined, down, stream, real, known, grants, valid, telling, stale, events>>

StopBegins ==
    /\ down = "no" /\ down' = "stopping" /\ TakeCancel /\ owed' = {}
    /\ UNCHANGED <<joined, subs, stream, real, known, grants, valid, telling, stale, events>>

(* The function is called without the hub's mutex; a cancelled stream      *)
(* drops what it has queued.                                               *)
Cancel(g) ==
    /\ g \in taken /\ taken' = taken \ {g} /\ Set(g, [stream[g] EXCEPT !.cancelled = TRUE])
    /\ UNCHANGED <<joined, subs, current, down, real, known, grants, valid, telling, owed, stale, events>>

StopReturns ==
    /\ down = "stopping" /\ down' = "stopped"
    /\ \A g \in Streams : stream[g].pc \in {"off", "done"}
    /\ telling.left = {}
    /\ UNCHANGED <<joined, subs, current, taken, stream, real, known, grants, valid, telling, owed, stale, events>>

-----------------------------------------------------------------------------
(* run: the reader's side.                                                 *)

Connect(g) ==
    LET s == stream[g] IN
    /\ s.pc = "connect"
    /\ \/ s.cancelled /\ Set(g, [NoStream EXCEPT !.pc = "done"]) /\ UNCHANGED events
       \/ ~s.cancelled /\ Set(g, [s EXCEPT !.pc = "follow", !.drainer = "wait"]) /\ UNCHANGED events
       \/ ~s.cancelled /\ Event /\ UNCHANGED stream
    /\ UNCHANGED <<joined, subs, current, taken, down, real, known, grants, valid, telling, owed, stale>>

(* Docker's event of a container: queued, or taken for the one already     *)
(* queued, and the drainer woken through a channel that keeps one wake.    *)
MutantUnbuffered(s) == s.wake \/ s.drainer = "wait"
Wakes(s) == TRUE

Queued(s, c) ==
    IF s.pc # "follow" \/ (c \notin ToSet(s.order) /\ Len(s.order) >= MaxPending) THEN s
    ELSE [s EXCEPT !.order = IF c \in ToSet(@) THEN @ ELSE Append(@, c), !.wake = Wakes(s)]

Hears(c) == current # 0 /\ c \in ToSet(Queued(stream[current], c).order)

Change(c) ==
    /\ Event /\ real[c].ver < MaxChanges
    /\ \E managed \in BOOLEAN : real' = [real EXCEPT ![c] = [managed |-> managed, ver |-> @.ver + 1]]
    /\ stream' = [g \in Streams |-> Queued(stream[g], c)]
    /\ owed' = IF Hears(c) THEN owed \cup {<<v, c>> : v \in {w \in subs : Sees(w, c, known)}} ELSE owed
    /\ UNCHANGED <<joined, subs, current, taken, down, known, grants, valid, telling, stale>>

(* The stream ends, fails or is cancelled: the reader closes the channel   *)
(* and waits for the drainer, which takes a wake that is still there.      *)
StreamEnds(g) ==
    LET s == stream[g] IN
    /\ s.pc = "follow" /\ Set(g, [s EXCEPT !.pc = "closing"])
    /\ IF s.cancelled THEN UNCHANGED events ELSE Event
    /\ UNCHANGED <<joined, subs, current, taken, down, real, known, grants, valid, telling, owed, stale>>

Drained(g) ==
    LET s == stream[g] IN
    /\ s.pc = "closing" /\ s.drainer = "gone"
    /\ Set(g, [NoStream EXCEPT !.pc = IF s.cancelled THEN "done" ELSE "connect"])
    /\ UNCHANGED <<joined, subs, current, taken, down, real, known, grants, valid, telling, owed, stale, events>>

-----------------------------------------------------------------------------
(* The drainer.                                                            *)

TakeWake(g) ==
    LET s == stream[g] IN
    /\ s.drainer = "wait"
    /\ \/ s.cancelled /\ Set(g, [s EXCEPT !.drainer = "gone"])
       \/ s.wake /\ Set(g, [s EXCEPT !.drainer = "drain", !.wake = FALSE])
       \/ s.pc = "closing" /\ ~s.wake /\ Set(g, [s EXCEPT !.drainer = "gone"])
    /\ UNCHANGED <<joined, subs, current, taken, down, real, known, grants, valid, telling, owed, stale, events>>

Of(batch) == {b.of : b \in batch}
BatchOver(s) == [s EXCEPT !.drainer = "drain", !.batch = {}, !.left = {}, !.before = {}, !.list = {}]

(* The queue is taken; then dispatch reads the viewers and what they see.  *)
Drain(g) ==
    LET s == stream[g]
        batch == {[of |-> c, ver |-> real[c].ver] : c \in ToSet(s.order)} IN
    /\ \/ s.drainer = "drain" /\ s.order = <<>> /\ Set(g, [s EXCEPT !.drainer = "looked"])
       \/ s.drainer = "looked" /\ Set(g, [s EXCEPT !.drainer = "wait"])
       \/ /\ s.drainer = "drain" /\ s.order # <<>>
          /\ Set(g, [s EXCEPT !.drainer = "refresh", !.order = <<>>, !.batch = batch, !.left = subs,
                              !.before = {o \in subs \X Of(batch) : Sees(o[1], o[2], known)}])
    /\ UNCHANGED <<joined, subs, current, taken, down, real, known, grants, valid, telling, owed, stale, events>>

(* The stream that h.cancel belongs to has queued another change of c, or  *)
(* has one in its batch: it will be delivered after what g delivers.       *)
(* Debts are the current stream's: who takes its cancel function leaves no *)
(* viewer, or no hub.                                                      *)
Coming(g, c) ==
    /\ current # 0
    /\ c \in ToSet(stream[current].order) \/ (g # current /\ c \in Of(stream[current].batch))

(* A failed read or refresh drops the batch: its viewers are not told.     *)
BatchLost(g) ==
    LET s == stream[g] IN
    /\ s.drainer = "refresh"
    /\ IF s.cancelled THEN UNCHANGED events ELSE Event
    /\ Set(g, BatchOver(s)) /\ owed' = owed \ OwedOf({c \in Of(s.batch) : ~Coming(g, c)})
    /\ UNCHANGED <<joined, subs, current, taken, down, real, known, grants, valid, telling, stale>>

(* A refresh that finds a server gone removes it from the list that the    *)
(* next dispatch reads first: a viewer this batch does not tell will not   *)
(* be told.  Every part of Ludock refreshes, not only the hub.             *)
Unnoticed == OwedOf({c \in Container : ~real[c].managed})

OtherRefresh ==
    /\ Event /\ known # real /\ known' = real
    /\ owed' = owed \ Unnoticed
    /\ UNCHANGED <<joined, subs, current, taken, down, stream, real, grants, valid, telling, stale>>

(* The refresh, and the list read after it.                                *)
ListAfter == known'

Refresh(g) ==
    LET s == stream[g] IN
    /\ s.drainer = "refresh" /\ ~s.cancelled
    /\ known' = real /\ owed' = owed \ {o \in Unnoticed : o[1] \notin s.left \/ o[2] \notin Of(s.batch)}
    /\ Set(g, [s EXCEPT !.drainer = "deliver", !.list = {[of |-> c, at |-> ListAfter[c]] : c \in Of(s.batch)}])
    /\ UNCHANGED <<joined, subs, current, taken, down, real, grants, valid, telling, stale, events>>

(* One viewer: its session and grants are read again; it is told of the    *)
(* server, told to refresh, closed, or, if the read fails, passed over.  A *)
(* newer change that is still to be delivered remains owed; one that came  *)
(* while the reader was away, or met a full queue, is not heard of.        *)
Deliver(g, v) ==
    LET s == stream[g]
        list == [c \in Of(s.batch) |-> (CHOOSE l \in s.list : l.of = c).at]
        shown == {b \in s.batch : Sees(v, b.of, list)}
        told == IF v \in valid THEN Of(shown) \cup {c \in Of(s.batch) : <<v, c>> \in s.before} ELSE Container
        newer == {c \in Of(s.batch) : v \in valid /\ list[c].managed /\ list[c].ver < real[c].ver /\ Coming(g, c)} IN
    /\ s.drainer = "deliver" /\ v \in s.left
    /\ Set(g, [s EXCEPT !.left = @ \ {v}])
    /\ \/ /\ ~s.cancelled /\ UNCHANGED events
          /\ stale' = (stale \/ \E b \in shown : list[b.of].ver < b.ver)
       \/ (IF s.cancelled THEN UNCHANGED events ELSE Event) /\ UNCHANGED stale
    /\ owed' = owed \ {<<v, c>> : c \in told \ newer}
    /\ UNCHANGED <<joined, subs, current, taken, down, real, known, grants, valid, telling>>

BatchEnds(g) ==
    /\ stream[g].drainer = "deliver" /\ stream[g].left = {} /\ Set(g, BatchOver(stream[g]))
    /\ UNCHANGED <<joined, subs, current, taken, down, real, known, grants, valid, telling, owed, stale, events>>

-----------------------------------------------------------------------------
(* Changed: something Ludock itself reads changed.                         *)

MayTell == down = "no"

Changed(c) ==
    /\ MayTell /\ Event /\ telling.left = {}
    /\ telling' = IF subs = {} THEN NoTelling ELSE [left |-> subs, of |-> {c}]
    /\ UNCHANGED <<joined, subs, current, taken, down, stream, real, known, grants, valid, owed, stale>>

TellChanged(v) ==
    /\ v \in telling.left
    /\ telling' = IF telling.left = {v} THEN NoTelling ELSE [telling EXCEPT !.left = @ \ {v}]
    /\ UNCHANGED <<joined, subs, current, taken, down, stream, real, known, grants, valid, owed, stale, events>>

(* A viewer's session ends, or its grant.                                  *)
Revoke(v) ==
    /\ Event /\ owed' = owed \ OwedTo(v)
    /\ \/ v \in valid /\ valid' = valid \ {v} /\ UNCHANGED grants
       \/ \E c \in Container : <<v, c>> \in grants /\ grants' = grants \ {<<v, c>>} /\ UNCHANGED valid
    /\ UNCHANGED <<joined, subs, current, taken, down, stream, real, known, telling, stale>>

Work(g) ==
    \/ Cancel(g) \/ Connect(g) \/ Drained(g) \/ TakeWake(g) \/ Drain(g) \/ Refresh(g)
    \/ (\E v \in Viewer : Deliver(g, v)) \/ BatchEnds(g)

Next ==
    \/ \E v \in Viewer : Subscribe(v) \/ Unsubscribe(v) \/ Revoke(v) \/ TellChanged(v)
    \/ \E c \in Container : Change(c) \/ Changed(c)
    \/ \E g \in Streams : Work(g) \/ StreamEnds(g) \/ BatchLost(g)
    \/ StopBegins \/ StopReturns \/ OtherRefresh

(* As long as a goroutine of Ludock can go on, one does; a stream that was *)
(* cancelled ends.                                                         *)
Ends(g) == stream[g].cancelled /\ (StreamEnds(g) \/ BatchLost(g))
Progress ==
    \/ \E g \in Streams : Work(g) \/ Ends(g)
    \/ \E v \in Viewer : TellChanged(v)
    \/ StopReturns

Spec == Init /\ [][Next]_vars /\ WF_vars(Progress)

-----------------------------------------------------------------------------
(* A server is named to a viewer only from a list that discovery made      *)
(* after the change arrived, whatever else arrives meanwhile (dispatch     *)
(* lists again after its refresh).  No stream is left behind: each that    *)
(* runs and is not cancelled is the hub's own, while somebody listens, or  *)
(* its cancel function is in the hands of who took it, though viewers come *)
(* and go in between.  When Stop has returned nothing is being delivered,  *)
(* so the database can be closed (Stop, Changed).                          *)
DeliveriesAreFresh ==
    /\ TypeOK /\ ~stale
    /\ \A g \in Streams : stream[g].pc \notin {"off", "done"} /\ ~stream[g].cancelled => g = current \/ g \in taken
    /\ current # 0 => subs # {} /\ down = "no" /\ current \notin taken
    /\ down = "stopped" => telling.left = {} /\ \A g \in Streams : stream[g].pc \in {"off", "done"}

Owed(v, c) == <<v, c>> \in owed
Stopping == down = "stopping"
Stopped == down = "stopped"

(* A change that was queued while a viewer of the server was subscribed    *)
(* reaches that viewer, however it falls between the drainer's look at the *)
(* queue and its wait, unless the viewer leaves, its access ends, the      *)
(* batch is lost to a failed refresh, or Ludock stops (run's wake          *)
(* channel); Stop returns; and deliveries are fresh.                       *)
ViewersHear ==
    /\ []DeliveriesAreFresh
    /\ \A v \in Viewer, c \in Container : Owed(v, c) ~> ~Owed(v, c)
    /\ Stopping ~> Stopped

=============================================================================
