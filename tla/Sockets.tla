------------------------------- MODULE Sockets -------------------------------
(***************************************************************************)
(* The console connections of the web interface                            *)
(* (internal/web/sockets.go): admission before the upgrade, the bounded    *)
(* output queue of a channel, its closing, and shutdown.                   *)
(*                                                                         *)
(* A connection is counted as a placeholder from admission, replaced by    *)
(* its channel after the upgrade, and removed when its handler returns.    *)
(* Shutdown marks the table, takes the channels it holds, and closes them  *)
(* one by one.                                                             *)
(*                                                                         *)
(* Simplifications: one session per user, so the limit per session is the  *)
(* limit per user; a message is one unit of the buffer; a connection may   *)
(* close before the writer is done, as it does two seconds after Close.    *)
(***************************************************************************)
EXTENDS Naturals, FiniteSets

CONSTANTS Conn, UserOf, Administrators,
          MaxSockets, MaxPerUser, Reserved, MaxBuffer     \* Reserved: for administrators

ASSUME SocketsAssumption ==
    /\ IsFiniteSet(Conn)
    /\ MaxSockets \in Nat /\ MaxPerUser \in Nat /\ MaxBuffer \in Nat
    /\ Reserved \in 0..MaxSockets

VARIABLES
    conn,      \* the handler of each connection and its channel
    shutdown, closing   \* CloseSockets: the mark, the channels it took and has not closed

socketVars == <<conn, shutdown, closing>>

NoConn == [pc |-> "new", closed |-> FALSE, buffered |-> 0, drained |-> FALSE]

SocketsTypeOK ==
    /\ conn \in [Conn -> [pc : {"new", "refused", "pending", "upgraded", "serving", "ending", "done"},
                          closed : BOOLEAN, buffered : Nat, drained : BOOLEAN]]
    /\ shutdown \in BOOLEAN /\ closing \subseteq Conn

SocketsInit ==
    /\ conn = [c \in Conn |-> NoConn] /\ shutdown = FALSE /\ closing = {}

ConnAt(c, pc) == conn[c].pc = pc
ConnGoto(c, pc) == conn' = [conn EXCEPT ![c].pc = pc]
Return(c) == conn' = [conn EXCEPT ![c] = [NoConn EXCEPT !.pc = "done"]]

(* The table: placeholders and channels.                                   *)
Open == {c \in Conn : conn[c].pc \in {"pending", "upgraded", "serving", "ending"}}
OfUser(u) == {c \in Open : UserOf[c] = u}
NotAdmin == {c \in Open : UserOf[c] \notin Administrators}

MutantCountsServing(c) ==
    LET counted == {d \in Open : conn[d].pc # "pending"} IN
    /\ ~shutdown /\ Cardinality(counted) < MaxSockets
    /\ Cardinality({d \in counted : UserOf[d] = UserOf[c]}) < MaxPerUser
    /\ \/ UserOf[c] \in Administrators
       \/ Cardinality({d \in counted : UserOf[d] \notin Administrators}) < MaxSockets - Reserved
Admits(c) ==
    /\ ~shutdown /\ Cardinality(OfUser(UserOf[c])) < MaxPerUser /\ Cardinality(Open) < MaxSockets
    /\ UserOf[c] \in Administrators \/ Cardinality(NotAdmin) < MaxSockets - Reserved

Admit(c) ==
    /\ ConnAt(c, "new") /\ ConnGoto(c, IF Admits(c) THEN "pending" ELSE "refused")
    /\ UNCHANGED <<shutdown, closing>>

(* The upgrade; then the channel takes the placeholder's place, and the    *)
(* handler looks whether shutdown began.                                   *)
Accept(c) ==
    /\ ConnAt(c, "pending") /\ (ConnGoto(c, "upgraded") \/ Return(c))
    /\ UNCHANGED <<shutdown, closing>>

Swap(c) ==
    /\ ConnAt(c, "upgraded") /\ IF shutdown THEN Return(c) ELSE ConnGoto(c, "serving")
    /\ UNCHANGED <<shutdown, closing>>

-----------------------------------------------------------------------------
(* The channel.  Send on a full buffer closes it.                          *)

Send(c) ==
    /\ ConnAt(c, "serving") /\ ~conn[c].closed
    /\ conn' = [conn EXCEPT ![c].closed = (conn[c].buffered >= MaxBuffer),
                            ![c].buffered = IF @ < MaxBuffer THEN @ + 1 ELSE @]
    /\ UNCHANGED <<shutdown, closing>>

(* write: what is queued goes out, or fails and closes the channel; once   *)
(* closed, the last batch was taken after the mark.                        *)
WriteQueue(c) ==
    /\ conn[c].pc \in {"serving", "ending"} /\ ~conn[c].drained /\ (conn[c].buffered > 0 \/ conn[c].closed)
    /\ \/ conn' = [conn EXCEPT ![c].buffered = 0, ![c].drained = conn[c].closed]
       \/ conn' = [conn EXCEPT ![c].buffered = 0, ![c].drained = TRUE, ![c].closed = TRUE]
    /\ UNCHANGED <<shutdown, closing>>

(* Closed by the browser, the console session, a revoked session, or the   *)
(* end of the handler.                                                     *)
Close(c) ==
    /\ ConnAt(c, "serving") /\ ~conn[c].closed /\ conn' = [conn EXCEPT ![c].closed = TRUE]
    /\ UNCHANGED <<shutdown, closing>>

HandlerEnds(c) ==
    /\ ConnAt(c, "serving") /\ conn' = [conn EXCEPT ![c].pc = "ending", ![c].closed = TRUE]
    /\ UNCHANGED <<shutdown, closing>>

(* The connection closes when the writer is done, or two seconds later;    *)
(* the handler waits for it.                                               *)
ConnCloses(c) ==
    /\ ConnAt(c, "ending") /\ Return(c)
    /\ UNCHANGED <<shutdown, closing>>

(* CloseSockets.                                                           *)
StopSockets ==
    /\ ~shutdown /\ shutdown' = TRUE /\ closing' = Open
    /\ UNCHANGED conn

CloseSocket(c) ==
    /\ c \in closing /\ closing' = closing \ {c}
    /\ conn' = [conn EXCEPT ![c].closed = (@ \/ conn[c].pc \in {"serving", "ending"})]
    /\ UNCHANGED shutdown

SocketsNext ==
    \/ \E c \in Conn : Admit(c) \/ Accept(c) \/ Swap(c) \/ Send(c) \/ WriteQueue(c) \/ Close(c) \/ HandlerEnds(c)
                       \/ ConnCloses(c) \/ CloseSocket(c)
    \/ StopSockets

SocketsSpec == SocketsInit /\ [][SocketsNext]_socketVars

-----------------------------------------------------------------------------
(* Concurrent handshakes never pass the limits together: the table never   *)
(* holds more than its size, more than a user's share, or so many of other *)
(* users that the administrators' reserve is gone.  Once CloseSockets has  *)
(* closed what it took, no connection stays open to its browser unless it  *)
(* is being closed, not even one that was being upgraded meanwhile; and    *)
(* the output held for a browser that does not read is bounded.            *)
SocketsBounded ==
    /\ SocketsTypeOK
    /\ Cardinality(Open) <= MaxSockets /\ Cardinality(NotAdmin) <= MaxSockets - Reserved
    /\ \A u \in {UserOf[c] : c \in Conn} : Cardinality(OfUser(u)) <= MaxPerUser
    /\ shutdown /\ closing = {} => \A c \in Conn : ConnAt(c, "serving") => conn[c].closed
    /\ \A c \in Conn : conn[c].buffered <= MaxBuffer

=============================================================================
