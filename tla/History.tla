------------------------------- MODULE History -------------------------------
(***************************************************************************)
(* What a viewer reads of the past: the pages of the operation history and *)
(* of the audit log (internal/history), one request after the other, and   *)
(* the list of what needs attention (internal/attention), which reads one  *)
(* server after the other.  Meanwhile rows are written and the viewer's    *)
(* access changes.                                                         *)
(*                                                                         *)
(* A row's identifier is random, so rows of one millisecond are in no      *)
(* order of time.  The filters are the server's; binding and availability  *)
(* problems are one saved problem per server.                              *)
(***************************************************************************)
EXTENDS Naturals, FiniteSets, Sequences

CONSTANTS Server,
          Limit,        \* rows on a page
          Recent,       \* the operations of a server whose failures are listed
          MaxRows, MaxTime, MaxChanges, MaxPages    \* bounds: rows written, times, changes of access, pages read

VARIABLES rows, time,
    access,     \* of the viewer: per server "none", "view", "manage"
    page,       \* the listing that is read, and its cursor
    list,       \* the attention list that is put together
    changes

vars == <<rows, time, access, page, list, changes>>

Id == 1..MaxRows
All == "all"
Sees == {s \in Server : access[s] # "none"}
NoPage == [pc |-> "idle", kind |-> "operations", filter |-> All, cursor |-> <<>>, scope |-> All, visible |-> {},
           shown |-> <<>>, owed |-> {}, ended |-> "no", n |-> 0]
NoList == [pc |-> "idle", todo |-> {}, saw |-> [s \in Server |-> "none"], items |-> {}, seen |-> {}]

TypeOK ==
    /\ rows \subseteq [at : 0..MaxTime, id : Id, server : Server, failed : BOOLEAN]
    /\ access \in [Server -> {"none", "view", "manage"}] /\ time \in 0..MaxTime /\ changes \in 0..MaxChanges
    /\ page.pc \in {"idle", "check", "query"} /\ list.pc \in {"idle", "server", "operations", "end"}

Init ==
    /\ rows = {} /\ time = 0 /\ access \in [Server -> {"view", "manage"}] /\ page = NoPage /\ list = NoList /\ changes = 0

-----------------------------------------------------------------------------
Unused == Id \ {r.id : r \in rows}

(* An operation is enqueued, or an event is recorded.                      *)
Insert(s, i) ==
    /\ rows' = rows \cup {[at |-> time, id |-> i, server |-> s, failed |-> FALSE]}
    /\ UNCHANGED <<time, access, page, list, changes>>
Fail(r) ==
    /\ list.pc # "idle" /\ ~r.failed       \* only the attention list tells failures apart
    /\ rows' = (rows \ {r}) \cup {[r EXCEPT !.failed = TRUE]}
    /\ UNCHANGED <<time, access, page, list, changes>>
(* The audit log drops its oldest rows.                                    *)
Trim(r) ==
    /\ page.kind = "audit" /\ \A q \in rows : r.at <= q.at
    /\ rows' = rows \ {r} /\ page' = [page EXCEPT !.owed = @ \ {r.id}]
    /\ UNCHANGED <<time, access, list, changes>>
Passes == time < MaxTime /\ time' = time + 1 /\ UNCHANGED <<rows, access, page, list, changes>>

(* Access changes; what the viewer loses meanwhile is not owed, and the    *)
(* turn of a server whose schedules the viewer manages is yet to come.     *)
Change(s, a) ==
    /\ access[s] # a /\ changes < MaxChanges /\ changes' = changes + 1
    /\ access' = [access EXCEPT ![s] = a]
    /\ page' = IF a = "none" /\ page.kind = "operations"
               THEN [page EXCEPT !.owed = @ \ {r.id : r \in {q \in rows : q.server = s}}] ELSE page
    /\ list' = IF s \notin list.todo \/ list.saw[s] # "manage" THEN list
               ELSE [list EXCEPT !.seen = IF a = "none" THEN @ \ {s} ELSE @ \cup {s}]
    /\ UNCHANGED <<rows, time>>

-----------------------------------------------------------------------------
(* Paging.                                                                 *)

Candidates(filter) == IF filter = All THEN Server ELSE {filter}
Matches(kind, filter) == {r \in rows : r.server \in Candidates(filter) /\ (kind = "operations" => r.server \in Sees)}

Begin(kind, filter) ==
    /\ page.pc = "idle" /\ page.n = 0 /\ list.pc = "idle"     \* the viewer reads one or the other
    /\ page' = [NoPage EXCEPT !.pc = "check", !.kind = kind, !.filter = filter, !.n = 1,
                              !.owed = {r.id : r \in Matches(kind, filter)}]
    /\ UNCHANGED <<rows, time, access, list, changes>>

(* The next page, whose request carries the cursor and maybe other filters.*)
NextPage(filter) ==
    /\ page.pc = "idle" /\ page.n \in 1..MaxPages - 1 /\ page.cursor # <<>> /\ page.ended = "no"
    /\ page' = [page EXCEPT !.pc = "check", !.filter = filter, !.n = @ + 1]
    /\ UNCHANGED <<rows, time, access, list, changes>>

(* page: a cursor is valid for its filters only.  Operations: the servers  *)
(* are looked at before the query.                                         *)
CheckPage ==
    LET visible == IF page.kind = "audit" THEN Candidates(page.filter) ELSE Candidates(page.filter) \cap Sees
    IN  /\ page.pc = "check"
        /\ page' = IF page.cursor # <<>> /\ page.scope # page.filter THEN [page EXCEPT !.pc = "idle", !.ended = "refused"]
                   ELSE IF visible = {} THEN [page EXCEPT !.pc = "idle", !.ended = "yes"]
                   ELSE [page EXCEPT !.pc = "query", !.visible = visible]
        /\ UNCHANGED <<rows, time, access, list, changes>>

MutantByTime(r, q) == r.at < q.at
After(r, q) == r.at < q.at \/ (r.at = q.at /\ r.id < q.id)

(* ORDER BY created_at DESC, id DESC LIMIT                                 *)
Found == {r \in rows : r.server \in page.visible /\ (page.cursor = <<>> \/ After(r, page.cursor[1]))}
Newer(set, r) == {q \in set : r.at < q.at \/ (r.at = q.at /\ r.id < q.id)}
Ordered(set) == [i \in 1..Cardinality(set) |-> CHOOSE r \in set : Cardinality(Newer(set, r)) = i - 1]
Key(r) == [at |-> r.at, id |-> r.id]

QueryPage ==
    LET found == Ordered(Found)
        more == Len(found) > Limit
        result == IF more THEN SubSeq(found, 1, Limit) ELSE found
    IN  /\ page.pc = "query"
        /\ page' = [page EXCEPT !.pc = "idle", !.shown = @ \o [i \in DOMAIN result |-> Key(result[i])], !.visible = {},
                                !.cursor = IF more THEN <<Key(result[Limit])>> ELSE <<>>, !.scope = page.filter,
                                !.ended = IF more THEN "no" ELSE "yes"]
        /\ UNCHANGED <<rows, time, access, list, changes>>

-----------------------------------------------------------------------------
(* List of attention: access is read for all servers at once, the saved    *)
(* problems too; then schedules, which check access again, and operations. *)

BeginList ==
    /\ list.pc = "idle" /\ page.n = 0
    /\ list' = [pc |-> "server", todo |-> Sees, saw |-> access, items |-> {}, seen |-> Sees]
    /\ UNCHANGED <<rows, time, access, page, changes>>

(* A viewer who lost the server meanwhile sees nothing of it; one who lost *)
(* only the schedules sees the rest.                                       *)
Loses(s) == list.saw[s] = "manage" /\ access[s] = "none"

Saved(s) == {[kind |-> "problem", server |-> s, id |-> 0]}
Schedules(s) == IF list.saw[s] = "manage" /\ access[s] = "manage" THEN {[kind |-> "schedule", server |-> s, id |-> 0]} ELSE {}

ListServer(s) ==
    /\ list.pc = "server" /\ s \in list.todo
    /\ list' = IF Loses(s) THEN [list EXCEPT !.todo = @ \ {s}]
               ELSE [list EXCEPT !.pc = "operations", !.items = @ \cup Saved(s) \cup Schedules(s), !.todo = {s} \cup @,
                                 !.saw[s] = "none"]     \* s is the one at hand
    /\ UNCHANGED <<rows, time, access, page, changes>>

(* Recent work is limited before the failures are picked.                  *)
Failures(s) ==
    LET of == {r \in rows : r.server = s}
    IN  {r \in of : r.failed /\ Cardinality(Newer(of, r)) < Recent}

ListOperations(s) ==
    /\ list.pc = "operations" /\ s \in list.todo /\ list.saw[s] = "none"
    /\ list' = [list EXCEPT !.pc = "server", !.todo = @ \ {s},
                            !.items = @ \cup {[kind |-> "operation", server |-> s, id |-> r.id] : r \in Failures(s)}]
    /\ UNCHANGED <<rows, time, access, page, changes>>

ListEnd ==
    /\ list.pc = "server" /\ list.todo = {} /\ list' = [list EXCEPT !.pc = "end", !.saw = [s \in Server |-> "none"]]
    /\ UNCHANGED <<rows, time, access, page, changes>>

(* What happens after the listing or the list has ended does not matter. *)
Next ==
    /\ page.ended = "no" /\ list.pc # "end"
    /\ \/ \E s \in Server, i \in Unused : Insert(s, i)
       \/ \E r \in rows : Fail(r) \/ Trim(r)
       \/ Passes
       \/ \E s \in Server, a \in {"none", "view", "manage"} : Change(s, a)
       \/ \E kind \in {"operations", "audit"}, f \in Server \cup {All} : Begin(kind, f)
       \/ \E f \in Server \cup {All} : NextPage(f)
       \/ CheckPage \/ QueryPage
       \/ BeginList \/ ListEnd
       \/ \E s \in Server : ListServer(s) \/ ListOperations(s)

Spec == Init /\ [][Next]_vars

-----------------------------------------------------------------------------
(* Read to its end, a listing has shown every row that was there when it   *)
(* began and that the viewer could see throughout, though rows of the same *)
(* millisecond were written between its pages; none is shown twice or out  *)
(* of order; a cursor never continues under other filters.  An attention   *)
(* list shows nothing of a server that a manager of its schedules lost     *)
(* before its turn came (page, Operations, Audit, attention's List).       *)
ListingsAreWhole ==
    /\ TypeOK
    /\ page.ended = "yes" => \A i \in page.owed : \E k \in DOMAIN page.shown : page.shown[k].id = i
    /\ \A i, k \in DOMAIN page.shown : i < k => Newer({page.shown[i]}, page.shown[k]) # {}
    /\ \A item \in list.items : item.server \in list.seen
=============================================================================
