------------------------------- MODULE Fleet --------------------------------
(***************************************************************************)
(* Discovery of the fleet and the binding of logical servers to containers *)
(* (internal/servers/servers.go, internal/servers/docker.go,               *)
(* internal/identity/identity.go), with the requests that use a binding:   *)
(* an action on the server, its page, and an administrator's review of a   *)
(* changed container (internal/web/action.go and server_detail.go).        *)
(*                                                                         *)
(* Docker changes at any time.  Callers of refresh share one discovery,    *)
(* which lists the containers, inspects them one by one and reconciles the *)
(* saved servers in a transaction.  Every step of a request may come       *)
(* between.                                                                *)
(*                                                                         *)
(* Simplifications: a container's configuration is its fingerprint; an     *)
(* inspection kept for 30 s may expire at any time; a page always asks for *)
(* statistics; sharing a sample of them is left out.                       *)
(***************************************************************************)
EXTENDS Naturals, FiniteSets

CONSTANTS Cont, Ident,   \* containers, external identities
          identOf,       \* the external identity of a container
          fpOf,          \* its binding fingerprint
          Proc,          \* concurrent requests
          None,
          MaxChanges,    \* bound: changes of Docker
          MaxDiscoveries \* bound: discoveries

ASSUME FleetAssumption ==
    /\ identOf \in [Cont -> Ident] /\ Ident # {}
    /\ None \notin Cont /\ \A c \in Cont : fpOf[c] # None
    /\ MaxChanges \in Nat /\ MaxDiscoveries \in Nat

VARIABLES
    docker,     \* container -> "none", "temporary" (an update's), "live", "gone"
    \* Service and Observer
    discoveries, running, last,
    cache,      \* containers whose kept inspection is reused
    writes,     \* requests to change Docker that Ludock counted
    \* the database
    row,        \* logical_servers, by external identity
    bindings,   \* server_bindings
    \* requests in progress
    req,
    \* history: Docker's changes, and how many a counted request had made
    changes, written

fleetVars == <<discoveries, running, last, cache>>
dbVars == <<row, bindings>>
pastVars == <<changes, written>>
vars == <<docker, fleetVars, writes, dbVars, req, pastVars>>

Kinds == {"act", "view", "review"}
Statuses == {"active", "missing", "ambiguous", "review_required"}
Fps == {fpOf[c] : c \in Cont}

Rows == [cont : Cont \union {None}, status : Statuses, rev : Nat, fp : Fps \union {None},
         pend : Fps \union {None}, review : BOOLEAN]
NoRow == [cont |-> None, status |-> "missing", rev |-> 0, fp |-> None, pend |-> None,
          review |-> FALSE]

\* No row is None, which marks an identity without one.
ASSUME RowsAssumption == None \notin Rows

(* A discovery: its number, what it read of writes when it started, the    *)
(* containers listed, still to inspect and observed, and the changes it    *)
(* saw.                                                                    *)
Discoveries == [seq : Nat, writes : Nat, step : {"list", "inspect"},
                todo : SUBSET Cont, seen : SUBSET Cont, at : Nat]

Steps == {"idle", "ask", "wait", "lead", "answered", "resolved", "authorized", "sent",
          "read", "sampled", "page", "accept"}
Requests == [pc : Steps, kind : Kinds, forced : BOOLEAN, after : Nat, on : Nat,
             id : Ident, row : Rows, got : SUBSET Cont, stats : Cont \union {None},
             want : Fps \union {None},
             \* history: Docker's changes when it asked, and those of the requests
             \* counted when it reused an answer
             asked : Nat, wrote : Nat, at : Nat]
Idle == [pc |-> "idle", kind |-> "view", forced |-> FALSE, after |-> 0, on |-> 0,
         id |-> CHOOSE x \in Ident : TRUE, row |-> NoRow, got |-> {}, stats |-> None, want |-> None,
         asked |-> 0, wrote |-> 0, at |-> 0]

TypeOK ==
    /\ docker \in [Cont -> {"none", "temporary", "live", "gone"}]
    /\ discoveries \in Nat /\ writes \in Nat
    /\ running \in Discoveries \union {None}
    /\ last \in [writes : Nat, result : SUBSET Cont, recent : BOOLEAN, at : Nat] \union {None}
    /\ cache \subseteq Cont
    /\ row \in [Ident -> Rows \union {None}]
    /\ bindings \subseteq [id : Ident, rev : Nat, cont : Cont, fp : Fps, accepted : BOOLEAN]
    /\ req \in [Proc -> Requests]
    /\ changes \in Nat /\ written \in Nat

(* One container is there, bound by an earlier run of Ludock or not yet.   *)
FirstRow(c) == [cont |-> c, status |-> "active", rev |-> 1, fp |-> fpOf[c], pend |-> None,
                review |-> FALSE]

Init ==
    /\ \E first \in Cont :
         /\ docker = [c \in Cont |-> IF c = first THEN "live" ELSE "none"]
         /\ \/ row = [x \in Ident |-> None] /\ bindings = {}
            \/ /\ row = [x \in Ident |-> IF x = identOf[first] THEN FirstRow(first) ELSE None]
               /\ bindings = {[id |-> identOf[first], rev |-> 1, cont |-> first,
                               fp |-> fpOf[first], accepted |-> TRUE]}
    /\ discoveries = 0 /\ running = None /\ last = None /\ cache = {} /\ writes = 0
    /\ req = [p \in Proc |-> Idle]
    /\ changes = 0 /\ written = 0

-----------------------------------------------------------------------------
(* Docker, changed by its owner.                                           *)

NextState == [none |-> {"temporary", "live"}, temporary |-> {"live", "gone"},
              live |-> {"gone"}, gone |-> {}]

DockerChanges(c) ==
    /\ changes < MaxChanges
    /\ \E s \in NextState[docker[c]] : docker' = [docker EXCEPT ![c] = s]
    /\ changes' = changes + 1
    /\ UNCHANGED <<fleetVars, writes, dbVars, req, written>>

-----------------------------------------------------------------------------
(* The shared discovery.                                                   *)

(* Docker's list of the eligible containers.  A replacement keeps its      *)
(* temporary name until the update ends, and is left out.                  *)
ListContainers ==
    /\ running # None /\ running.step = "list"
    /\ running' = [running EXCEPT !.step = "inspect", !.at = changes,
                                  !.todo = {c \in Cont : docker[c] = "live"}]
    /\ UNCHANGED <<docker, discoveries, last, cache, writes, dbVars, req, pastVars>>

(* observeSummary: a kept inspection is used while the summary is the      *)
(* same, and any other container is inspected.  One that vanished is       *)
(* skipped.                                                                *)
observeSummary(c) ==
    /\ running # None /\ running.step = "inspect" /\ c \in running.todo
    /\ \E reuse \in BOOLEAN :
         /\ reuse => c \in cache
         /\ running' = [running EXCEPT !.todo = @ \ {c},
                                       !.seen = IF reuse \/ docker[c] = "live" THEN @ \union {c} ELSE @]
    /\ UNCHANGED <<docker, discoveries, last, cache, writes, dbVars, req, pastVars>>

(* A server's configuration is another than the one accepted, whether its  *)
(* container was replaced or came back after it was missing.               *)
MutantReturned(old, c) == old.cont # None /\ old.fp # None /\ fpOf[c] # old.fp
Material(old, c) == old.fp # None /\ fpOf[c] # old.fp

(* What Apply makes of a server row whose only container observed is c.    *)
Bind(old, c) ==
    LET review == old.review \/ Material(old, c)
        changed == \/ old.cont # c
                   \/ fpOf[c] # (IF review THEN old.pend ELSE old.fp)
        rev == IF changed THEN old.rev + 1 ELSE old.rev
    IN  IF review
        THEN [old EXCEPT !.cont = c, !.status = "review_required", !.rev = rev,
                         !.pend = fpOf[c], !.review = TRUE]
        ELSE [old EXCEPT !.cont = c, !.status = "active", !.rev = rev, !.fp = fpOf[c]]

(* The row of an identity after the containers seen: none, one, or several *)
(* of it.                                                                  *)
Reconciled(x, seen) ==
    LET group == {c \in seen : identOf[c] = x}
        old == IF row[x] = None THEN NoRow ELSE row[x]
    IN  IF group = {} THEN (IF row[x] = None THEN None
                            ELSE [old EXCEPT !.status = "missing", !.cont = None])
        ELSE IF Cardinality(group) > 1 THEN [old EXCEPT !.status = "ambiguous", !.cont = None]
        ELSE Bind(old, CHOOSE c \in group : TRUE)

Recorded(x, new) == [id |-> x, rev |-> new.rev, cont |-> new.cont,
                     fp |-> IF new.review THEN new.pend ELSE new.fp, accepted |-> ~new.review]

(* Apply's transaction.                                                    *)
Apply(seen) ==
    /\ row' = [x \in Ident |-> Reconciled(x, seen)]
    /\ bindings' = bindings \union
         {Recorded(x, row'[x]) : x \in {y \in Ident :
             row'[y] # None /\ row'[y].cont # None /\ (row[y] = None \/ row'[y].rev # row[y].rev)}}

(* Only a complete listing replaces the kept inspections.                  *)
Kept(seen) == cache' = seen

(* The end of discover: every request that waits for it, and the one that  *)
(* led it, continue.                                                       *)
AnsweredBy(seq) == {p \in Proc : req[p].pc \in {"wait", "lead"} /\ req[p].on = seq}

MutantAnyDiscovery(r, seq) == TRUE
SeqSuffices(r, seq) == ~r.forced \/ seq > r.after

AfterDone(p, result, at) ==
    LET r == req[p]
    IN  IF r.pc = "lead" \/ SeqSuffices(r, running.seq)
        THEN [r EXCEPT !.pc = "answered", !.got = result, !.at = at, !.on = 0]
        ELSE [r EXCEPT !.pc = "ask", !.on = 0]

DiscoverDone ==
    /\ running # None /\ running.step = "inspect" /\ running.todo = {}
    /\ Kept(running.seen)
    /\ Apply(running.seen)
    /\ last' = [writes |-> running.writes, result |-> running.seen, recent |-> TRUE, at |-> running.at]
    /\ running' = None
    /\ req' = [p \in Proc |-> IF p \in AnsweredBy(running.seq)
                              THEN AfterDone(p, running.seen, running.at) ELSE req[p]]
    /\ UNCHANGED <<docker, discoveries, writes, pastVars>>

AfterFail(p) ==
    LET r == req[p]
    IN  IF r.pc = "wait" /\ ~SeqSuffices(r, running.seq) THEN [r EXCEPT !.pc = "ask", !.on = 0]
        ELSE IF r.kind = "view" THEN [r EXCEPT !.pc = "answered", !.on = 0] ELSE Idle

(* A read of Docker or the database fails, or discoveryTimeout passes: the *)
(* callers get the error, and a page is shown from what is saved.          *)
DiscoverFails ==
    /\ running # None
    /\ running' = None
    /\ UNCHANGED cache \/ (running.step = "inspect" /\ running.todo = {} /\ Kept(running.seen))
    /\ req' = [p \in Proc |-> IF p \in AnsweredBy(running.seq) THEN AfterFail(p) ELSE req[p]]
    /\ UNCHANGED <<docker, discoveries, last, writes, dbVars, pastVars>>

(* discoveryReuse passes.                                                  *)
ReuseEnds ==
    /\ last # None /\ last.recent
    /\ last' = [last EXCEPT !.recent = FALSE]
    /\ UNCHANGED <<docker, discoveries, running, cache, writes, dbVars, req, pastVars>>

-----------------------------------------------------------------------------
(* refresh: a page may reuse, others must see Docker as it is now.         *)

Ask(p, kind, x) ==
    /\ req[p].pc = "idle" /\ discoveries < MaxDiscoveries
    /\ req' = [req EXCEPT ![p] = [Idle EXCEPT !.pc = "ask", !.kind = kind, !.id = x,
                                  !.forced = kind # "view", !.after = discoveries,
                                  !.asked = changes]]
    /\ UNCHANGED <<docker, fleetVars, writes, dbVars, pastVars>>

Reusable == last # None /\ last.recent /\ last.writes = writes

RefreshReuse(p) ==
    /\ req[p].pc = "ask" /\ ~req[p].forced /\ Reusable
    /\ req' = [req EXCEPT ![p].pc = "answered", ![p].got = last.result, ![p].at = last.at,
                          ![p].wrote = written]
    /\ UNCHANGED <<docker, fleetVars, writes, dbVars, pastVars>>

RefreshLead(p) ==
    /\ req[p].pc = "ask" /\ ~(~req[p].forced /\ Reusable)
    /\ running = None
    /\ discoveries' = discoveries + 1
    /\ running' = [seq |-> discoveries + 1, writes |-> writes, step |-> "list", todo |-> {},
                   seen |-> {}, at |-> 0]
    /\ req' = [req EXCEPT ![p].pc = "lead", ![p].on = discoveries + 1]
    /\ UNCHANGED <<docker, last, cache, writes, dbVars, pastVars>>

RefreshJoin(p) ==
    /\ req[p].pc = "ask" /\ ~(~req[p].forced /\ Reusable)
    /\ running # None
    /\ req' = [req EXCEPT ![p].pc = "wait", ![p].on = running.seq]
    /\ UNCHANGED <<docker, fleetVars, writes, dbVars, pastVars>>

(* The caller's context ends while it waits.                               *)
Leave(p) ==
    /\ req[p].pc = "wait"
    /\ req' = [req EXCEPT ![p] = Idle]
    /\ UNCHANGED <<docker, fleetVars, writes, dbVars, pastVars>>

-----------------------------------------------------------------------------
(* VerifyAuthorized and the mutation it is for.                            *)

Usable(x) == row[x] # None /\ row[x].status = "active" /\ ~row[x].review /\ row[x].cont # None

(* ResolveBinding without a pin: the request remembers the row.            *)
ResolveBinding(p) ==
    /\ req[p].pc = "answered" /\ req[p].kind = "act"
    /\ req' = [req EXCEPT ![p] = IF Usable(req[p].id)
                  THEN [Idle EXCEPT !.pc = "resolved", !.kind = "act", !.id = req[p].id,
                                    !.row = row[req[p].id]]
                  ELSE Idle]
    /\ UNCHANGED <<docker, fleetVars, writes, dbVars, pastVars>>

(* AssertObservedBinding of a fresh inspection of container c, pinned to   *)
(* the revision of the row the request remembers.                          *)
AssertObservedBinding(r, c) ==
    /\ Usable(r.id) /\ row[r.id].rev = r.row.rev
    /\ row[r.id].cont = c /\ identOf[c] = r.id /\ row[r.id].fp = fpOf[c]

(* VerifyAuthorized: a fresh inspection, which may fail, then the check.   *)
VerifyAuthorized(p) ==
    /\ req[p].pc = "resolved"
    /\ \E inspected \in BOOLEAN :
         req' = [req EXCEPT ![p] = IF inspected /\ AssertObservedBinding(@, @.row.cont)
                                   THEN [@ EXCEPT !.pc = "authorized"] ELSE Idle]
    /\ UNCHANGED <<docker, fleetVars, writes, dbVars, pastVars>>

(* ChangeState: a fresh inspection and the same check just before the      *)
(* request that changes Docker, which is counted when its answer comes.    *)
ChangeState(p) ==
    /\ req[p].pc = "authorized" /\ changes < MaxChanges
    /\ \E inspected \in BOOLEAN :
         IF inspected /\ AssertObservedBinding(req[p], req[p].row.cont)
         THEN /\ req' = [req EXCEPT ![p].pc = "sent", ![p].at = changes + 1]
              /\ changes' = changes + 1
         ELSE req' = [req EXCEPT ![p] = Idle] /\ UNCHANGED changes
    /\ UNCHANGED <<docker, fleetVars, writes, dbVars, written>>

WriteCounted(p) ==
    /\ req[p].pc = "sent"
    /\ writes' = writes + 1
    /\ written' = req[p].at
    /\ req' = [req EXCEPT ![p] = Idle]
    /\ UNCHANGED <<docker, fleetVars, dbVars, changes>>

-----------------------------------------------------------------------------
(* The server page: snapshot.                                              *)

(* The first read of the row, and the statistics of a running container    *)
(* with their own check of the binding.                                    *)
SnapshotRead(p) ==
    /\ req[p].pc = "answered" /\ req[p].kind = "view"
    /\ req' = [req EXCEPT ![p] = IF row[req[p].id] = None THEN Idle
                  ELSE [Idle EXCEPT !.pc = "read", !.id = req[p].id, !.row = row[req[p].id],
                                    !.got = req[p].got]]
    /\ UNCHANGED <<docker, fleetVars, writes, dbVars, pastVars>>

Asks(r) == r.row.status = "active" /\ r.row.cont \in r.got

(* The container sampled, if it runs and the binding holds.                *)
Sampled(r) == {c \in {r.row.cont} :
                 Asks(r) /\ docker[c] = "live" /\ AssertObservedBinding(r, c)}

(* A failed check also invalidates the earlier live snapshot.              *)
StillLive(r) == IF Asks(r) /\ Sampled(r) = {} THEN {} ELSE r.got

SnapshotStats(p) ==
    /\ req[p].pc = "read"
    /\ \E stats \in {None} \union Sampled(req[p]) :
         req' = [req EXCEPT ![p] = [@ EXCEPT !.pc = "sampled", !.stats = stats,
                                             !.got = StillLive(req[p])]]
    /\ UNCHANGED <<docker, fleetVars, writes, dbVars, pastVars>>

(* What the page shows: the second read decides whether the live state     *)
(* still belongs to the binding.  shown is the container whose state it    *)
(* shows, or None.                                                         *)
SameBinding(r) == LET now == row[r.id]
                  IN  /\ now.cont = r.row.cont /\ now.rev = r.row.rev /\ now.fp = r.row.fp
                      /\ now.status = r.row.status /\ now.review = r.row.review

SnapshotShow(p) ==
    /\ req[p].pc = "sampled"
    /\ LET r == req[p]
           live == SameBinding(r) /\ r.row.cont \in r.got
       IN  req' = [req EXCEPT ![p] =
                          [r EXCEPT !.pc = "page", !.row = row[r.id],
                                    !.got = IF live THEN {r.row.cont} ELSE {},
                                    !.stats = IF SameBinding(r) THEN @ ELSE None]]
    /\ UNCHANGED <<docker, fleetVars, writes, dbVars, pastVars>>

(* The page is closed, or an administrator reviews the binding it shows.   *)
PageLeft(p) ==
    /\ req[p].pc = "page"
    /\ req' = [req EXCEPT ![p] = Idle]
    /\ UNCHANGED <<docker, fleetVars, writes, dbVars, pastVars>>

-----------------------------------------------------------------------------
(* reviewBinding.                                                          *)

(* The form carries the page's revision.                                   *)
ReviewAsk(p) ==
    /\ req[p].pc = "page" /\ req[p].row.status = "review_required"
    /\ req' = [req EXCEPT ![p] = [Idle EXCEPT !.pc = "ask", !.kind = "review", !.id = req[p].id,
                                  !.row = req[p].row, !.forced = TRUE, !.after = discoveries,
                                  !.asked = changes]]
    /\ UNCHANGED <<docker, fleetVars, writes, dbVars, pastVars>>

(* After the refresh the row is read once more; the fingerprint to accept  *)
(* is the one it has now, if the revision is the page's.                   *)
ReviewRead(p) ==
    /\ req[p].pc = "answered" /\ req[p].kind = "review"
    /\ LET now == row[req[p].id]
       IN  req' = [req EXCEPT ![p] = IF now.pend # None /\ now.rev = req[p].row.rev
                                     THEN [Idle EXCEPT !.pc = "accept", !.kind = "review", !.id = req[p].id,
                                                       !.row = req[p].row, !.want = now.pend]
                                     ELSE Idle]
    /\ UNCHANGED <<docker, fleetVars, writes, dbVars, pastVars>>

(* ReviewBinding, under the server's lock and in a transaction that checks *)
(* the administrator again.                                                *)
ReviewMatches(r) ==
    LET now == row[r.id]
    IN  /\ now.status = "review_required" /\ now.cont # None
        /\ now.pend = r.want /\ now.rev = r.row.rev

Accepted(now) == [now EXCEPT !.status = "active", !.rev = @ + 1, !.fp = now.pend,
                             !.pend = None, !.review = FALSE]

ReviewBinding(p) ==
    /\ req[p].pc = "accept"
    /\ LET r == req[p]
           now == row[r.id]
           new == Accepted(now)
       IN  IF ReviewMatches(r)
           THEN /\ row' = [row EXCEPT ![r.id] = new]
                /\ bindings' = bindings \union {[id |-> r.id, rev |-> new.rev, cont |-> now.cont,
                                                 fp |-> now.pend, accepted |-> TRUE]}
           ELSE UNCHANGED dbVars
    /\ req' = [req EXCEPT ![p] = Idle]
    /\ UNCHANGED <<docker, fleetVars, writes, pastVars>>

Request(p) ==
    \/ \E kind \in {"act", "view"}, x \in Ident : Ask(p, kind, x)
    \/ RefreshReuse(p) \/ RefreshLead(p) \/ RefreshJoin(p) \/ Leave(p)
    \/ ResolveBinding(p) \/ VerifyAuthorized(p) \/ ChangeState(p) \/ WriteCounted(p)
    \/ SnapshotRead(p) \/ SnapshotStats(p) \/ SnapshotShow(p) \/ PageLeft(p)
    \/ ReviewAsk(p) \/ ReviewRead(p) \/ ReviewBinding(p)

Next ==
    \/ \E c \in Cont : DockerChanges(c) \/ observeSummary(c)
    \/ ListContainers \/ DiscoverDone \/ DiscoverFails \/ ReuseEnds
    \/ \E p \in Proc : Request(p)

Spec == Init /\ [][Next]_vars

-----------------------------------------------------------------------------
(* Properties.                                                             *)

(* A request that must see a change that just happened is answered by a    *)
(* discovery that listed Docker after the request began, and a page that   *)
(* reuses one sees everything Ludock's own counted requests did.           *)
FreshAnswers ==
    \A p \in Proc : LET r == req[p] IN
        r.pc = "answered" /\ (r.kind # "view" \/ r.wrote # 0) =>
            r.at >= IF r.forced THEN r.asked ELSE r.wrote

(* Docker is asked to change only the container of an accepted binding, of *)
(* the fingerprint accepted, at the revision the caller was authorized     *)
(* for; no revision ever names two bindings; and the state is typed.       *)
PinnedBinding ==
    /\ TypeOK
    /\ \A p \in Proc : LET r == req[p] IN
          r.pc = "sent" => \E b \in bindings :
              /\ b.accepted /\ b.id = r.id /\ b.rev = r.row.rev
              /\ b.cont = r.row.cont /\ b.fp = fpOf[r.row.cont]
    /\ \A a, b \in bindings : a.id = b.id /\ a.rev = b.rev => a = b

(* Whatever discovery sees and however late, the fingerprint a server is   *)
(* trusted with changes only when an administrator accepts the container   *)
(* and fingerprint that the review page showed.                            *)
AcceptedOnlyByReview ==
    [][\A x \in Ident :
        row[x] # None /\ row[x].fp # None /\ row'[x].fp # row[x].fp =>
            \E p \in Proc : /\ req[p].pc = "accept" /\ req'[p].pc = "idle"
                            /\ req[p].row.cont = row'[x].cont /\ req[p].row.pend = row'[x].fp]_vars

(* The page never shows the statistics or the state of one container under *)
(* the binding of another.                                                 *)
PageIsCoherent ==
    \A p \in Proc : LET r == req[p] IN
        r.pc = "page" =>
            /\ r.got \subseteq {r.row.cont}
            /\ r.stats # None => r.got = {r.stats} /\ fpOf[r.stats] = r.row.fp

(* What a request is answered with is new enough and belongs together, and *)
(* what it asks Docker for is the binding that was accepted.               *)
RequestsAreSound == FreshAnswers /\ PageIsCoherent /\ PinnedBinding
=============================================================================
