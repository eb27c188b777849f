---------------------------- MODULE FleetProofs ----------------------------
(***************************************************************************)
(* Proofs about discovery and bindings, for any number of containers,      *)
(* identities and requests.  The inductive invariant IInv says what the    *)
(* revision of a server's row stands for, what a request that remembers a  *)
(* row may conclude from its revision, and how new a discovery is.         *)
(***************************************************************************)
EXTENDS Fleet, TLAPS

\* A row has a container while it is active or under review, a pending
\* fingerprint while it is reviewed, and a binding recorded for its revision.
RowFits(x) ==
    row[x] # None =>
        /\ row[x].rev = 0 => row[x].cont = None
        /\ row[x].review <=> row[x].pend # None
        /\ row[x].cont # None <=> row[x].status \in {"active", "review_required"}
        /\ row[x].status = "active" => ~row[x].review
        /\ row[x].status = "review_required" => row[x].review
        /\ row[x].cont # None => Recorded(x, row[x]) \in bindings

\* No binding is ahead of its row, and no revision names two.
BindingsFit ==
    /\ \A b \in bindings : row[b.id] # None /\ b.rev <= row[b.id].rev
    /\ \A a, b \in bindings : a.id = b.id /\ a.rev = b.rev => a = b

\* A discovery that read the present number of counted requests listed Docker
\* after the last of them.
NewerThanWrites(d) == d.writes <= writes /\ (d.writes = writes => d.at >= written)

DiscoveryFits ==
    /\ written <= changes
    /\ running # None =>
          /\ running.seq <= discoveries /\ running.writes <= writes
          /\ running.step = "inspect" => NewerThanWrites(running)
    /\ last # None => NewerThanWrites(last)

\* A later row of the same revision is trusted with the same fingerprint,
\* waits for the same review and has the same container, if any.
Later(old, now) ==
    /\ now # None /\ old.rev <= now.rev
    /\ old.rev = now.rev =>
          now.fp = old.fp /\ now.pend = old.pend /\ now.cont \in {old.cont, None}

\* What a request remembers of a row; revision 0 is a row without bindings.
MemoryFits(r) ==
    /\ r.row.rev # 0 => Later(r.row, row[r.id])
    /\ r.row.status \in {"active", "review_required"} => r.row.rev # 0 /\ r.row.cont # None
    /\ r.pc \in {"read", "sampled"} => row[r.id] # None
    /\ r.pc = "accept" \/ (r.kind = "review" /\ r.pc \in {"ask", "wait", "lead", "answered"}) =>
          r.row.rev # 0 /\ r.row.cont # None

\* The discovery that answers a request that must see Docker as it is began
\* after it asked.
OrderFits(r) ==
    /\ r.pc \in {"ask", "wait", "lead", "answered"} => (r.forced <=> r.kind # "view")
    /\ r.pc \in {"ask", "wait", "lead"} =>
          /\ r.after <= discoveries /\ r.asked <= changes /\ r.wrote = 0
          /\ running # None /\ running.step = "inspect" /\ running.seq > r.after =>
                running.at >= r.asked
    /\ r.pc = "lead" => r.on > r.after
    /\ r.pc = "answered" /\ (r.kind # "view" \/ r.wrote # 0) =>
          r.at >= IF r.forced THEN r.asked ELSE r.wrote
    /\ r.pc = "sent" => r.at <= changes

\* What a page shows, or is about to show, is of one container; what Docker
\* was asked to change is of an accepted binding.
ShownFits(r) ==
    /\ r.pc = "sampled" /\ r.stats # None =>
          r.stats = r.row.cont /\ r.stats \in r.got /\ fpOf[r.stats] = r.row.fp
    /\ r.pc = "page" =>
          /\ r.got \subseteq {r.row.cont}
          /\ r.stats # None => r.got = {r.stats} /\ fpOf[r.stats] = r.row.fp
    /\ r.pc = "sent" => \E b \in bindings :
          /\ b.accepted /\ b.id = r.id /\ b.rev = r.row.rev
          /\ b.cont = r.row.cont /\ b.fp = fpOf[r.row.cont]

RequestFits(r) == MemoryFits(r) /\ OrderFits(r) /\ ShownFits(r)

IInv ==
    /\ TypeOK
    /\ \A x \in Ident : RowFits(x)
    /\ BindingsFit
    /\ DiscoveryFits
    /\ \A p \in Proc : RequestFits(req[p])

----------------------------------------------------------------------------
(* Constants, and requests as they begin                                   *)

LEMMA ConstantsFit ==
    /\ \A c \in Cont : identOf[c] \in Ident /\ fpOf[c] \in Fps /\ fpOf[c] # None
    /\ None \notin Cont /\ None \notin Fps
    /\ NoRow \in Rows /\ None \notin Rows
    /\ Idle \in Requests
<1>1. /\ \A c \in Cont : identOf[c] \in Ident /\ fpOf[c] \in Fps /\ fpOf[c] # None
      /\ None \notin Cont /\ None \notin Fps
  BY FleetAssumption DEF Fps
<1>2. NoRow \in Rows /\ None \notin Rows
  BY RowsAssumption DEF NoRow, Rows, Statuses
<1>3. (CHOOSE x \in Ident : TRUE) \in Ident
  BY FleetAssumption
<1>4. Idle \in Requests
  BY <1>2, <1>3 DEF Idle, Requests, Steps, Kinds
<1> QED BY <1>1, <1>2, <1>4

LEMMA InitIInv == Init => IInv
<1> SUFFICES ASSUME Init PROVE IInv
  OBVIOUS
<1> USE ConstantsFit
<1>1. PICK first \in Cont :
         /\ docker = [c \in Cont |-> IF c = first THEN "live" ELSE "none"]
         /\ \/ row = [x \in Ident |-> None] /\ bindings = {}
            \/ /\ row = [x \in Ident |-> IF x = identOf[first] THEN FirstRow(first) ELSE None]
               /\ bindings = {[id |-> identOf[first], rev |-> 1, cont |-> first,
                               fp |-> fpOf[first], accepted |-> TRUE]}
  BY DEF Init
<1> DEFINE b == Recorded(identOf[first], FirstRow(first))
<1>2. /\ FirstRow(first) \in Rows /\ identOf[first] \in Ident
      /\ b = [id |-> identOf[first], rev |-> 1, cont |-> first, fp |-> fpOf[first], accepted |-> TRUE]
      /\ b \in [id : Ident, rev : Nat, cont : Cont, fp : Fps, accepted : BOOLEAN]
  BY DEF FirstRow, Rows, Statuses, Recorded
<1>3. \/ row = [x \in Ident |-> None] /\ bindings = {}
      \/ /\ \A x \in Ident : row[x] = IF x = identOf[first] THEN FirstRow(first) ELSE None
         /\ row \in [Ident -> Rows \cup {None}] /\ bindings = {b}
  BY <1>1, <1>2
<1>4. TypeOK
  <2>1. docker \in [Cont -> {"none", "temporary", "live", "gone"}]
    BY <1>1
  <2>2. row \in [Ident -> Rows \cup {None}]
    BY <1>3
  <2>3. bindings \subseteq [id : Ident, rev : Nat, cont : Cont, fp : Fps, accepted : BOOLEAN]
    BY <1>2, <1>3
  <2> QED BY <2>1, <2>2, <2>3 DEF Init, TypeOK
<1>5. (\A x \in Ident : RowFits(x)) /\ BindingsFit
  <2> HIDE DEF b
  <2>1. CASE row = [x \in Ident |-> None] /\ bindings = {}
    BY <2>1 DEF RowFits, BindingsFit
  <2>2. CASE /\ \A x \in Ident : row[x] = IF x = identOf[first] THEN FirstRow(first) ELSE None
             /\ bindings = {b}
    <3>1. b.id = identOf[first] /\ b.rev = 1 /\ FirstRow(first).rev = 1
      BY <1>2 DEF FirstRow
    <3>2. RowFits(identOf[first])
      <4>1. Recorded(identOf[first], FirstRow(first)) = b
        BY DEF b
      <4>2. /\ FirstRow(first).rev = 1 /\ FirstRow(first).status = "active"
            /\ FirstRow(first).cont = first /\ FirstRow(first).pend = None
            /\ ~FirstRow(first).review
        BY DEF FirstRow
      <4> QED BY <1>2, <2>2, <4>1, <4>2 DEF RowFits
    <3>3. \A x \in Ident : RowFits(x)
      BY <2>2, <3>2 DEF RowFits
    <3>4. BindingsFit
      BY <1>2, <2>2, <3>1, ConstantsFit DEF BindingsFit
    <3> QED BY <3>3, <3>4
  <2> QED BY <1>3, <2>1, <2>2
<1>6. DiscoveryFits
  BY DEF Init, DiscoveryFits
<1>7. ASSUME NEW p \in Proc PROVE RequestFits(req[p])
  BY DEF Init, Idle, NoRow, RequestFits, MemoryFits, OrderFits, ShownFits
<1> QED BY <1>4, <1>5, <1>6, <1>7 DEF IInv

----------------------------------------------------------------------------
(* What a step leaves of a request that it does not concern                *)

\* Revisions only grow, so that what a request remembers stays later.
LEMMA LaterOn ==
    ASSUME NEW a \in Rows, NEW b \in Rows \cup {None}, NEW c \in Rows \cup {None},
           Later(a, b), b # None => Later(b, c)
    PROVE  Later(a, c)
BY DEF Later, Rows

LEMMA MemoryStays ==
    ASSUME IInv, TypeOK', NEW q \in Proc, MemoryFits(req[q]),
           req'[q].row = req[q].row, req'[q].id = req[q].id,
           req'[q].kind = req[q].kind,
           \/ req'[q].pc = req[q].pc
           \/ req'[q].pc \in {"ask", "answered"} /\ req[q].pc \in {"wait", "lead"},
           row[req[q].id] # None => Later(row[req[q].id], row'[req[q].id])
    PROVE  MemoryFits(req[q])'
<1>1. req[q].row \in Rows /\ req[q].id \in Ident
  BY DEF IInv, TypeOK, Requests
<1>2. row[req[q].id] \in Rows \cup {None} /\ row'[req[q].id] \in Rows \cup {None}
  BY <1>1 DEF IInv, TypeOK
<1>3. req[q].row.rev # 0 => Later(req[q].row, row'[req[q].id])
  BY <1>1, <1>2, LaterOn DEF MemoryFits
<1> QED BY <1>3 DEF MemoryFits, Later

\* What a discovery has to keep for those that wait for it.
DiscoveryGoesOn ==
    /\ discoveries <= discoveries' /\ changes <= changes'
    /\ running' # None /\ running'.step = "inspect" =>
          \/ running'.at >= changes
          \/ /\ running # None /\ running.step = "inspect"
             /\ running'.seq = running.seq /\ running'.at = running.at

LEMMA RequestStays ==
    ASSUME IInv, TypeOK', NEW q \in Proc, req'[q] = req[q], DiscoveryGoesOn,
           bindings \subseteq bindings',
           \A x \in Ident : row[x] # None => Later(row[x], row'[x])
    PROVE  RequestFits(req[q])'
<1>1. MemoryFits(req[q]) /\ OrderFits(req[q]) /\ ShownFits(req[q]) /\ req[q] \in Requests
  BY DEF IInv, RequestFits, TypeOK
<1>2. MemoryFits(req[q])'
  <2>1. req[q].id \in Ident
    BY <1>1 DEF Requests
  <2> QED BY <1>1, <2>1, MemoryStays
<1>3. OrderFits(req[q])'
  <2>1. /\ discoveries \in Nat /\ discoveries' \in Nat /\ changes \in Nat /\ changes' \in Nat
        /\ req[q].after \in Nat /\ req[q].asked \in Nat /\ req[q].at \in Nat
        /\ running' # None => running'.at \in Nat
    BY <1>1 DEF IInv, TypeOK, Requests, Discoveries
  <2> QED BY <1>1, <2>1 DEF OrderFits, DiscoveryGoesOn
<1>4. ShownFits(req[q])'
  BY <1>1 DEF ShownFits
<1> QED BY <1>2, <1>3, <1>4 DEF RequestFits

\* A row that does not change is its own successor.
LEMMA RowsStay ==
    ASSUME TypeOK, row' = row
    PROVE  \A x \in Ident : row[x] # None => Later(row[x], row'[x])
BY DEF TypeOK, Later, Rows

\* A step of one request that changes nothing else.
LEMMA RequestMoves ==
    ASSUME IInv, NEW p \in Proc,
           req' = [req EXCEPT ![p] = req'[p]], req'[p] \in Requests, RequestFits(req[p])',
           UNCHANGED <<docker, fleetVars, writes, dbVars, pastVars>>
    PROVE  IInv'
<1> USE DEF fleetVars, dbVars, pastVars
<1>1. TypeOK' /\ \A q \in Proc \ {p} : req'[q] = req[q]
  BY DEF IInv, TypeOK
<1>2. (\A x \in Ident : RowFits(x))' /\ BindingsFit' /\ DiscoveryFits'
  BY DEF IInv, RowFits, BindingsFit, DiscoveryFits, NewerThanWrites
<1>3. DiscoveryGoesOn
  BY DEF DiscoveryGoesOn, IInv, TypeOK
<1>4. ASSUME NEW q \in Proc PROVE RequestFits(req[q])'
  BY <1>1, <1>3, <1>4, RequestStays, RowsStay DEF IInv
<1> QED BY <1>1, <1>2, <1>4 DEF IInv

----------------------------------------------------------------------------
(* Steps of one request                                                    *)

LEMMA IdleFits ==
    ASSUME NEW p \in Proc, req'[p] = Idle
    PROVE  RequestFits(req[p])'
BY DEF RequestFits, MemoryFits, OrderFits, ShownFits, Idle, NoRow

\* A request asks: for an action, for a page, or for a review of a page.
LEMMA AskKeeps ==
    ASSUME IInv, NEW p \in Proc, NEW kind \in {"act", "view"}, NEW x \in Ident, Ask(p, kind, x)
    PROVE  IInv'
<1>1. /\ req[p] \in Requests /\ req \in [Proc -> Requests]
      /\ discoveries \in Nat /\ changes \in Nat
  BY DEF IInv, TypeOK
<1> DEFINE r == [Idle EXCEPT !.pc = "ask", !.kind = kind, !.id = x, !.forced = kind # "view",
                             !.after = discoveries, !.asked = changes]
<1>2. r \in Requests
  <2>1. discoveries \in Nat /\ changes \in Nat /\ Idle \in Requests
    BY <1>1, ConstantsFit
  <2> QED BY <2>1 DEF Requests, Steps, Kinds
<1>3. /\ req' = [req EXCEPT ![p] = r] /\ req' = [req EXCEPT ![p] = req'[p]] /\ req'[p] = r
      /\ UNCHANGED <<docker, fleetVars, writes, dbVars, pastVars>>
  BY <1>1 DEF Ask
<1>4. /\ r.pc = "ask" /\ r.kind = kind /\ r.row = NoRow /\ (r.forced <=> kind # "view")
      /\ r.after = discoveries /\ r.asked = changes /\ r.wrote = 0
  BY DEF Idle
<1> HIDE DEF r
<1>5. MemoryFits(req[p])'
  BY <1>3, <1>4 DEF MemoryFits, NoRow
<1>6. OrderFits(req[p])'
  <2>1. running # None => running.seq \in Nat /\ running.seq <= discoveries
    BY DEF IInv, TypeOK, Discoveries, DiscoveryFits
  <2> QED BY <1>1, <1>3, <1>4, <2>1 DEF OrderFits, fleetVars, pastVars
<1>7. ShownFits(req[p])'
  BY <1>3, <1>4 DEF ShownFits
<1> QED BY <1>2, <1>3, <1>5, <1>6, <1>7, RequestMoves DEF RequestFits

\* It reuses an answer.
LEMMA ReuseKeeps ==
    ASSUME IInv, NEW p \in Proc, RefreshReuse(p)
    PROVE  IInv'
<1>1. /\ req[p] \in Requests /\ req \in [Proc -> Requests] /\ RequestFits(req[p])
      /\ last # None /\ last.result \in SUBSET Cont /\ last.at \in Nat /\ written \in Nat
      /\ last.at >= written
  BY DEF IInv, TypeOK, RefreshReuse, Reusable, DiscoveryFits, NewerThanWrites
<1> DEFINE r == [req[p] EXCEPT !.pc = "answered", !.got = last.result, !.at = last.at, !.wrote = written]
<1>2. r \in Requests
  BY <1>1 DEF Requests, Steps
<1>3. /\ req' = [req EXCEPT ![p] = r] /\ req' = [req EXCEPT ![p] = req'[p]] /\ req'[p] = r
      /\ UNCHANGED <<docker, fleetVars, writes, dbVars, pastVars>>
      /\ req[p].pc = "ask" /\ ~req[p].forced
  BY <1>1 DEF RefreshReuse
<1>4. /\ r.pc = "answered" /\ r.kind = req[p].kind /\ r.row = req[p].row /\ r.id = req[p].id
      /\ r.forced = req[p].forced /\ r.at = last.at /\ r.wrote = written
  BY <1>1 DEF Requests
<1> HIDE DEF r
<1>5. MemoryFits(req[p])'
  BY <1>1, <1>3, <1>4 DEF RequestFits, MemoryFits, dbVars
<1>6. OrderFits(req[p])'
  BY <1>1, <1>3, <1>4 DEF RequestFits, OrderFits
<1>7. ShownFits(req[p])'
  BY <1>3, <1>4 DEF ShownFits
<1> QED BY <1>2, <1>3, <1>5, <1>6, <1>7, RequestMoves DEF RequestFits

\* It waits for the discovery that runs.
LEMMA JoinKeeps ==
    ASSUME IInv, NEW p \in Proc, RefreshJoin(p)
    PROVE  IInv'
<1>1. /\ req[p] \in Requests /\ req \in [Proc -> Requests] /\ RequestFits(req[p])
      /\ running.seq \in Nat
  BY DEF IInv, TypeOK, RefreshJoin, Discoveries
<1> DEFINE r == [req[p] EXCEPT !.pc = "wait", !.on = running.seq]
<1>2. r \in Requests
  BY <1>1 DEF Requests, Steps
<1>3. /\ req' = [req EXCEPT ![p] = r] /\ req' = [req EXCEPT ![p] = req'[p]] /\ req'[p] = r
      /\ UNCHANGED <<docker, fleetVars, writes, dbVars, pastVars>>
      /\ req[p].pc = "ask"
  BY <1>1 DEF RefreshJoin
<1>4. /\ r.pc = "wait" /\ r.kind = req[p].kind /\ r.row = req[p].row /\ r.id = req[p].id
      /\ r.forced = req[p].forced /\ r.after = req[p].after /\ r.asked = req[p].asked
      /\ r.wrote = req[p].wrote
  BY <1>1 DEF Requests
<1> HIDE DEF r
<1>5. MemoryFits(req[p])'
  BY <1>1, <1>3, <1>4 DEF RequestFits, MemoryFits, dbVars
<1>6. OrderFits(req[p])'
  BY <1>1, <1>3, <1>4 DEF RequestFits, OrderFits, fleetVars, pastVars
<1>7. ShownFits(req[p])'
  BY <1>3, <1>4 DEF ShownFits
<1> QED BY <1>2, <1>3, <1>5, <1>6, <1>7, RequestMoves DEF RequestFits

\* A request that ends, or is refused, is forgotten.
LEMMA EndKeeps ==
    ASSUME IInv, NEW p \in Proc, req' = [req EXCEPT ![p] = Idle],
           UNCHANGED <<docker, fleetVars, writes, dbVars, pastVars>>
    PROVE  IInv'
<1>1. req'[p] = Idle /\ req' = [req EXCEPT ![p] = req'[p]]
  BY DEF IInv, TypeOK
<1> QED BY <1>1, ConstantsFit, IdleFits, RequestMoves

\* It remembers the row it reads, to act on it or to show it.
LEMMA RowIsRemembered ==
    ASSUME IInv, NEW p \in Proc, row' = row, row[req[p].id] # None,
           req'[p].row = row[req[p].id], req'[p].id = req[p].id,
           req'[p].pc \in {"resolved", "read", "page"}
    PROVE  MemoryFits(req[p])' /\ row[req[p].id] \in Rows
<1>1. req[p].id \in Ident
  BY DEF IInv, TypeOK, Requests
<1>2. row[req[p].id] \in Rows /\ row[req[p].id].rev \in Nat /\ RowFits(req[p].id)
  BY <1>1 DEF IInv, TypeOK, Rows
<1>3. Later(row[req[p].id], row[req[p].id])
  BY <1>2 DEF Later
<1> QED BY <1>2, <1>3 DEF MemoryFits, RowFits

LEMMA ResolveKeeps ==
    ASSUME IInv, NEW p \in Proc, ResolveBinding(p)
    PROVE  IInv'
<1>1. req[p] \in Requests /\ req \in [Proc -> Requests] /\ req[p].id \in Ident
  BY DEF IInv, TypeOK, Requests
<1>2. UNCHANGED <<docker, fleetVars, writes, dbVars, pastVars>>
  BY DEF ResolveBinding
<1>3. CASE ~Usable(req[p].id)
  BY <1>2, <1>3, EndKeeps DEF ResolveBinding
<1>4. CASE Usable(req[p].id)
  <2> DEFINE r == [Idle EXCEPT !.pc = "resolved", !.kind = "act", !.id = req[p].id,
                               !.row = row[req[p].id]]
  <2>1. req' = [req EXCEPT ![p] = req'[p]] /\ req'[p] = r
    BY <1>1, <1>4 DEF ResolveBinding
  <2>2. r.pc = "resolved" /\ r.row = row[req[p].id] /\ r.id = req[p].id
    BY DEF Idle
  <2>3. MemoryFits(req[p])' /\ row[req[p].id] \in Rows
    <3> HIDE DEF r
    <3> QED BY <1>2, <1>4, <2>1, <2>2, RowIsRemembered DEF Usable, dbVars
  <2>4. r \in Requests
    BY <1>1, <2>3, ConstantsFit DEF Requests, Steps, Kinds
  <2> HIDE DEF r
  <2>5. OrderFits(req[p])' /\ ShownFits(req[p])'
    BY <2>1, <2>2 DEF OrderFits, ShownFits
  <2> QED BY <1>2, <2>1, <2>3, <2>4, <2>5, RequestMoves DEF RequestFits
<1> QED BY <1>3, <1>4

LEMMA SnapshotReadKeeps ==
    ASSUME IInv, NEW p \in Proc, SnapshotRead(p)
    PROVE  IInv'
<1>1. /\ req[p] \in Requests /\ req \in [Proc -> Requests] /\ req[p].id \in Ident
      /\ req[p].got \in SUBSET Cont
  BY DEF IInv, TypeOK, Requests
<1>2. UNCHANGED <<docker, fleetVars, writes, dbVars, pastVars>>
  BY DEF SnapshotRead
<1>3. CASE row[req[p].id] = None
  BY <1>2, <1>3, EndKeeps DEF SnapshotRead
<1>4. CASE row[req[p].id] # None
  <2> DEFINE r == [Idle EXCEPT !.pc = "read", !.id = req[p].id, !.row = row[req[p].id],
                               !.got = req[p].got]
  <2>1. req' = [req EXCEPT ![p] = req'[p]] /\ req'[p] = r
    BY <1>1, <1>4 DEF SnapshotRead
  <2>2. r.pc = "read" /\ r.row = row[req[p].id] /\ r.id = req[p].id
    BY DEF Idle
  <2>3. MemoryFits(req[p])' /\ row[req[p].id] \in Rows
    <3> HIDE DEF r
    <3> QED BY <1>2, <1>4, <2>1, <2>2, RowIsRemembered DEF dbVars
  <2>4. r \in Requests
    BY <1>1, <2>3, ConstantsFit DEF Requests, Steps
  <2> HIDE DEF r
  <2>5. OrderFits(req[p])' /\ ShownFits(req[p])'
    BY <2>1, <2>2 DEF OrderFits, ShownFits
  <2> QED BY <1>2, <2>1, <2>3, <2>4, <2>5, RequestMoves DEF RequestFits
<1> QED BY <1>3, <1>4

\* The binding is verified.
LEMMA VerifyKeeps ==
    ASSUME IInv, NEW p \in Proc, VerifyAuthorized(p)
    PROVE  IInv'
<1>1. /\ req[p] \in Requests /\ req \in [Proc -> Requests] /\ MemoryFits(req[p])
  BY DEF IInv, TypeOK, RequestFits
<1>2. UNCHANGED <<docker, fleetVars, writes, dbVars, pastVars>>
  BY DEF VerifyAuthorized
<1>3. CASE req' = [req EXCEPT ![p] = Idle]
  BY <1>2, <1>3, EndKeeps
<1>4. CASE req' = [req EXCEPT ![p] = [@ EXCEPT !.pc = "authorized"]]
  <2> DEFINE r == [req[p] EXCEPT !.pc = "authorized"]
  <2>1. req' = [req EXCEPT ![p] = req'[p]] /\ req'[p] = r
    BY <1>1, <1>4
  <2>2. r \in Requests /\ r.pc = "authorized" /\ r.row = req[p].row /\ r.id = req[p].id
    BY <1>1 DEF Requests, Steps
  <2> HIDE DEF r
  <2>3. MemoryFits(req[p])'
    BY <1>1, <1>2, <2>1, <2>2 DEF MemoryFits, dbVars
  <2>4. OrderFits(req[p])' /\ ShownFits(req[p])'
    BY <2>1, <2>2 DEF OrderFits, ShownFits
  <2> QED BY <1>2, <2>1, <2>2, <2>3, <2>4, RequestMoves DEF RequestFits
<1> QED BY <1>3, <1>4 DEF VerifyAuthorized

\* Statistics are of the container the page's row names, of the fingerprint
\* it was accepted with: the row had its revision when they were asked for.
LEMMA StatsKeeps ==
    ASSUME IInv, NEW p \in Proc, SnapshotStats(p)
    PROVE  IInv'
<1>1. /\ req[p] \in Requests /\ req \in [Proc -> Requests] /\ MemoryFits(req[p])
      /\ req[p].got \in SUBSET Cont /\ req[p].pc = "read"
  BY DEF IInv, TypeOK, RequestFits, SnapshotStats, Requests
<1>2. UNCHANGED <<docker, fleetVars, writes, dbVars, pastVars>>
  BY DEF SnapshotStats
<1> DEFINE got == StillLive(req[p])
<1>3. PICK stats \in {None} \cup Sampled(req[p]) :
         req' = [req EXCEPT ![p] = [req[p] EXCEPT !.pc = "sampled", !.stats = stats, !.got = got]]
  BY Zenon DEF SnapshotStats
<1>A. /\ got \in SUBSET Cont /\ stats \in Cont \cup {None}
      /\ stats # None => /\ stats = req[p].row.cont /\ stats \in got
                         /\ AssertObservedBinding(req[p], stats)
                         /\ req[p].row.status = "active"
  BY <1>1, <1>3 DEF Sampled, Asks, StillLive
<1> HIDE DEF got
<1> DEFINE r == [req[p] EXCEPT !.pc = "sampled", !.stats = stats, !.got = got]
<1>4. req' = [req EXCEPT ![p] = req'[p]] /\ req'[p] = r
  BY <1>1, <1>3
<1>5. r \in Requests /\ r.pc = "sampled" /\ r.row = req[p].row /\ r.id = req[p].id
      /\ r.stats = stats /\ r.got = got
  BY <1>1, <1>A DEF Requests, Steps
<1> HIDE DEF r
<1>6. MemoryFits(req[p])'
  BY <1>1, <1>2, <1>4, <1>5 DEF MemoryFits, dbVars
<1>7. stats # None => fpOf[stats] = req[p].row.fp
  BY <1>1, <1>A DEF AssertObservedBinding, MemoryFits, Later
<1>8. OrderFits(req[p])' /\ ShownFits(req[p])'
  BY <1>A, <1>4, <1>5, <1>7 DEF OrderFits, ShownFits
<1> QED BY <1>2, <1>4, <1>5, <1>6, <1>8, RequestMoves DEF RequestFits

\* The page shows what its two readings of the row agree on.
LEMMA ShowKeeps ==
    ASSUME IInv, NEW p \in Proc, SnapshotShow(p)
    PROVE  IInv'
<1> DEFINE now == row[req[p].id]
           live == SameBinding(req[p]) /\ req[p].row.cont \in req[p].got
           got == IF live THEN {req[p].row.cont} ELSE {}
           stats == IF SameBinding(req[p]) THEN req[p].stats ELSE None
           r == [req[p] EXCEPT !.pc = "page", !.row = now, !.got = got, !.stats = stats]
<1>1. /\ req[p] \in Requests /\ req \in [Proc -> Requests] /\ MemoryFits(req[p])
      /\ ShownFits(req[p])
      /\ req[p].got \in SUBSET Cont /\ req[p].stats \in Cont \cup {None} /\ req[p].pc = "sampled"
  BY DEF IInv, TypeOK, RequestFits, SnapshotShow, Requests
<1>2. req' = [req EXCEPT ![p] = req'[p]] /\ req'[p] = r
      /\ UNCHANGED <<docker, fleetVars, writes, dbVars, pastVars>>
  BY <1>1 DEF SnapshotShow
<1>3. r.pc = "page" /\ r.row = now /\ r.id = req[p].id /\ r.got = got /\ r.stats = stats
  BY <1>1 DEF Requests
<1>4. MemoryFits(req[p])' /\ now \in Rows
  <2> HIDE DEF r
  <2> QED BY <1>1, <1>2, <1>3, RowIsRemembered DEF MemoryFits, dbVars
<1>5. got \in SUBSET Cont /\ stats \in Cont \cup {None}
  BY <1>1
<1>6. r \in Requests
  <2> HIDE DEF got, stats, now
  <2> QED BY <1>1, <1>4, <1>5 DEF Requests, Steps
<1>7. /\ got \subseteq {now.cont}
      /\ stats # None => got = {stats} /\ fpOf[stats] = now.fp
  BY <1>1 DEF SameBinding, ShownFits
<1> HIDE DEF r, got, stats, now
<1>8. OrderFits(req[p])' /\ ShownFits(req[p])'
  BY <1>2, <1>3, <1>7 DEF OrderFits, ShownFits
<1> QED BY <1>2, <1>4, <1>6, <1>8, RequestMoves DEF RequestFits

\* The administrator asks for a review of the row the page shows.
LEMMA ReviewAskKeeps ==
    ASSUME IInv, NEW p \in Proc, ReviewAsk(p)
    PROVE  IInv'
<1> DEFINE r == [Idle EXCEPT !.pc = "ask", !.kind = "review", !.id = req[p].id,
                             !.row = req[p].row, !.forced = TRUE, !.after = discoveries,
                             !.asked = changes]
<1>1. /\ req \in [Proc -> Requests] /\ MemoryFits(req[p])
      /\ discoveries \in Nat /\ changes \in Nat /\ req[p].id \in Ident /\ req[p].row \in Rows
  BY DEF IInv, TypeOK, RequestFits, Requests
<1>2. r \in Requests
  BY <1>1, ConstantsFit DEF Requests, Steps, Kinds
<1>3. req' = [req EXCEPT ![p] = req'[p]] /\ req'[p] = r /\ req[p].row.status = "review_required"
      /\ UNCHANGED <<docker, fleetVars, writes, dbVars, pastVars>>
  BY <1>1 DEF ReviewAsk
<1>4. /\ r.pc = "ask" /\ r.kind = "review" /\ r.row = req[p].row /\ r.id = req[p].id /\ r.forced
      /\ r.after = discoveries /\ r.asked = changes /\ r.wrote = 0
  BY DEF Idle
<1> HIDE DEF r
<1>5. MemoryFits(req[p])'
  BY <1>1, <1>3, <1>4 DEF MemoryFits, dbVars
<1>6. OrderFits(req[p])'
  <2>1. running # None => running.seq \in Nat /\ running.seq <= discoveries
    BY DEF IInv, TypeOK, Discoveries, DiscoveryFits
  <2> QED BY <1>1, <1>3, <1>4, <2>1 DEF OrderFits, fleetVars, pastVars
<1>7. ShownFits(req[p])'
  BY <1>3, <1>4 DEF ShownFits
<1> QED BY <1>2, <1>3, <1>5, <1>6, <1>7, RequestMoves DEF RequestFits

\* The fingerprint to accept is read when the review was asked for of the
\* revision the row still has.
LEMMA ReviewReadKeeps ==
    ASSUME IInv, NEW p \in Proc, ReviewRead(p)
    PROVE  IInv'
<1> DEFINE now == row[req[p].id]
           r == [Idle EXCEPT !.pc = "accept", !.kind = "review", !.id = req[p].id,
                             !.row = req[p].row, !.want = now.pend]
<1>1. /\ req \in [Proc -> Requests] /\ MemoryFits(req[p]) /\ req[p].id \in Ident
      /\ req[p].row \in Rows
  BY DEF IInv, TypeOK, RequestFits, Requests
<1>2. UNCHANGED <<docker, fleetVars, writes, dbVars, pastVars>>
  BY DEF ReviewRead
<1>3. CASE ~(now.pend # None /\ now.rev = req[p].row.rev)
  BY <1>2, <1>3, EndKeeps DEF ReviewRead
<1>4. CASE now.pend # None /\ now.rev = req[p].row.rev
  <2>1. req' = [req EXCEPT ![p] = req'[p]] /\ req'[p] = r /\ req[p].pc = "answered" /\ req[p].kind = "review"
    BY <1>1, <1>4 DEF ReviewRead
  <2>2. now \in Rows
    BY <1>1, <2>1 DEF MemoryFits, Later, IInv, TypeOK
  <2>3. r \in Requests
    <3>1. now.pend \in Fps \cup {None}
      BY <2>2 DEF Rows
    <3> HIDE DEF now
    <3> QED BY <1>1, <3>1, ConstantsFit DEF Requests, Steps, Kinds
  <2>4. r.pc = "accept" /\ r.kind = "review" /\ r.row = req[p].row /\ r.id = req[p].id
    BY DEF Idle
  <2> HIDE DEF r
  <2>5. MemoryFits(req[p])'
    BY <1>1, <1>2, <2>1, <2>4 DEF MemoryFits, dbVars
  <2>6. OrderFits(req[p])' /\ ShownFits(req[p])'
    BY <2>1, <2>4 DEF OrderFits, ShownFits
  <2> QED BY <1>2, <2>1, <2>3, <2>5, <2>6, RequestMoves DEF RequestFits
<1> QED BY <1>3, <1>4

----------------------------------------------------------------------------
(* Docker and the discovery that reads it                                  *)

\* A step that leaves the database and the requests alone.
LEMMA DiscoveryMoves ==
    ASSUME IInv, TypeOK', DiscoveryFits', DiscoveryGoesOn, UNCHANGED <<dbVars, req>>
    PROVE  IInv'
<1> USE DEF dbVars
<1>1. (\A x \in Ident : RowFits(x))' /\ BindingsFit'
  BY DEF IInv, RowFits, BindingsFit
<1>2. ASSUME NEW q \in Proc PROVE RequestFits(req[q])'
  BY <1>2, RequestStays, RowsStay DEF IInv
<1> QED BY <1>1, <1>2 DEF IInv

LEMMA DockerKeeps ==
    ASSUME IInv, NEW c \in Cont, DockerChanges(c)
    PROVE  IInv'
<1> USE DEF DockerChanges, fleetVars, dbVars
<1>1. docker' \in [Cont -> {"none", "temporary", "live", "gone"}]
  <2>1. PICK s \in NextState[docker[c]] : docker' = [docker EXCEPT ![c] = s]
    OBVIOUS
  <2>2. docker[c] \in {"none", "temporary", "live", "gone"}
    BY DEF IInv, TypeOK
  <2>3. s \in {"temporary", "live", "gone"}
    BY <2>1, <2>2 DEF NextState
  <2> QED BY <2>1, <2>3 DEF IInv, TypeOK
<1>2. TypeOK' /\ changes' = changes + 1 /\ changes \in Nat /\ written \in Nat
  BY <1>1 DEF IInv, TypeOK
<1>3. DiscoveryFits'
  BY <1>2 DEF IInv, DiscoveryFits, NewerThanWrites
<1>4. DiscoveryGoesOn
  BY <1>2 DEF DiscoveryGoesOn, IInv, TypeOK
<1> QED BY <1>2, <1>3, <1>4, DiscoveryMoves

\* The listing is newer than every counted request.
LEMMA ListKeeps == IInv /\ ListContainers => IInv'
<1> SUFFICES ASSUME IInv, ListContainers PROVE IInv'
  OBVIOUS
<1> DEFINE todo == {c \in Cont : docker[c] = "live"}
           d == [running EXCEPT !.step = "inspect", !.at = changes, !.todo = todo]
<1>1. /\ running \in Discoveries /\ running # None /\ running' = d
      /\ changes \in Nat /\ discoveries \in Nat /\ writes \in Nat /\ todo \in SUBSET Cont
  BY DEF ListContainers, IInv, TypeOK
<1>2. d \in Discoveries /\ d.at = changes /\ d.seq = running.seq /\ d.writes = running.writes
  <2> HIDE DEF todo
  <2> QED BY <1>1 DEF Discoveries
<1> HIDE DEF d
<1>3. TypeOK' /\ UNCHANGED <<dbVars, req>>
  BY <1>1, <1>2 DEF ListContainers, IInv, TypeOK, dbVars, pastVars
<1>4. DiscoveryFits' /\ DiscoveryGoesOn
  BY <1>1, <1>2 DEF ListContainers, IInv, DiscoveryFits, NewerThanWrites, DiscoveryGoesOn, pastVars
<1> QED BY <1>3, <1>4, DiscoveryMoves

LEMMA ObserveKeeps ==
    ASSUME IInv, NEW c \in Cont, observeSummary(c)
    PROVE  IInv'
<1>1. PICK reuse \in BOOLEAN :
         running' = [running EXCEPT !.todo = @ \ {c},
                                    !.seen = IF reuse \/ docker[c] = "live" THEN @ \union {c} ELSE @]
  BY Zenon DEF observeSummary
<1>2. /\ running \in Discoveries /\ running # None /\ running.step = "inspect"
      /\ changes \in Nat /\ discoveries \in Nat
  BY DEF observeSummary, IInv, TypeOK
<1>3. /\ running' \in Discoveries /\ running'.seq = running.seq /\ running'.at = running.at
      /\ running'.writes = running.writes /\ running'.step = running.step
  BY <1>1, <1>2 DEF Discoveries
<1>4. TypeOK' /\ UNCHANGED <<dbVars, req>>
  BY <1>2, <1>3 DEF observeSummary, IInv, TypeOK, dbVars, pastVars
<1>5. DiscoveryFits' /\ DiscoveryGoesOn
  BY <1>2, <1>3 DEF observeSummary, IInv, DiscoveryFits, NewerThanWrites, DiscoveryGoesOn, pastVars
<1> QED BY <1>4, <1>5, DiscoveryMoves

LEMMA ReuseEndKeeps == IInv /\ ReuseEnds => IInv'
<1> SUFFICES ASSUME IInv, ReuseEnds PROVE IInv'
  OBVIOUS
<1>1. /\ last \in [writes : Nat, result : SUBSET Cont, recent : BOOLEAN, at : Nat]
      /\ last' = [last EXCEPT !.recent = FALSE]
  BY DEF ReuseEnds, IInv, TypeOK
<1>2. /\ last' \in [writes : Nat, result : SUBSET Cont, recent : BOOLEAN, at : Nat]
      /\ last'.writes = last.writes /\ last'.at = last.at
  BY <1>1
<1>3. TypeOK' /\ UNCHANGED <<dbVars, req>>
  BY <1>2 DEF ReuseEnds, IInv, TypeOK, dbVars, pastVars
<1>4. DiscoveryFits' /\ DiscoveryGoesOn
  BY <1>2 DEF ReuseEnds, IInv, TypeOK, DiscoveryFits, NewerThanWrites, DiscoveryGoesOn, pastVars
<1> QED BY <1>3, <1>4, DiscoveryMoves

----------------------------------------------------------------------------
(* Reconciling a row                                                       *)

\* What Bind makes of a row that fits: the row goes on, and its revision
\* grows unless the binding is the one recorded for it.
LEMMA BindFits ==
    ASSUME IInv, NEW old \in Rows, NEW c \in Cont, NEW x,
           old.review <=> old.pend # None, old.rev = 0 => old.cont = None
    PROVE  LET new == Bind(old, c)
           IN  /\ new \in Rows /\ Later(old, new) /\ new.rev # 0 /\ new.cont = c
               /\ (new.review <=> new.pend # None)
               /\ new.status = IF new.review THEN "review_required" ELSE "active"
               /\ new.rev = old.rev => old.cont = c /\ Recorded(x, new) = Recorded(x, old)
               /\ old.fp # None => new.fp = old.fp
               /\ new.review \/ new.fp # None
<1> DEFINE review == old.review \/ Material(old, c)
           changed == old.cont # c \/ fpOf[c] # (IF review THEN old.pend ELSE old.fp)
           rev == IF changed THEN old.rev + 1 ELSE old.rev
           new == Bind(old, c)
<1>1. /\ fpOf[c] \in Fps /\ fpOf[c] # None /\ c # None /\ None \notin Rows
      /\ old.rev \in Nat /\ old.review \in BOOLEAN
  BY ConstantsFit DEF Rows
<1>2. /\ rev \in Nat /\ rev # 0 /\ old.rev <= rev
      /\ rev = old.rev => old.cont = c /\ fpOf[c] = (IF review THEN old.pend ELSE old.fp)
  BY <1>1
<1>3. ~review => ~old.review /\ (old.fp # None => fpOf[c] = old.fp)
  BY DEF Material
<1>4. new = IF review
            THEN [old EXCEPT !.cont = c, !.status = "review_required", !.rev = rev,
                             !.pend = fpOf[c], !.review = TRUE]
            ELSE [old EXCEPT !.cont = c, !.status = "active", !.rev = rev, !.fp = fpOf[c]]
  BY DEF Bind
<1> HIDE DEF review, new, rev, changed
<1>5. CASE review
  <2>1. /\ new \in Rows /\ new.cont = c /\ new.rev = rev /\ new.pend = fpOf[c] /\ new.review
        /\ new.status = "review_required" /\ new.fp = old.fp
    BY <1>1, <1>2, <1>4, <1>5 DEF Rows, Statuses
  <2>2. rev = old.rev => old.review /\ old.pend = fpOf[c]
    BY <1>1, <1>2, <1>5
  <2>3. Later(old, new)
    BY <1>1, <1>2, <2>1, <2>2 DEF Later
  <2> QED BY <1>1, <1>2, <2>1, <2>2, <2>3 DEF Recorded, new
<1>6. CASE ~review
  <2>1. /\ new \in Rows /\ new.cont = c /\ new.rev = rev /\ new.fp = fpOf[c]
        /\ new.review = old.review
        /\ new.status = "active" /\ new.pend = old.pend
    BY <1>1, <1>2, <1>4, <1>6 DEF Rows, Statuses
  <2>2. rev = old.rev => old.fp = fpOf[c]
    BY <1>2, <1>6
  <2>3. Later(old, new)
    BY <1>1, <1>2, <2>1, <2>2 DEF Later
  <2> QED BY <1>1, <1>2, <1>3, <1>6, <2>1, <2>2, <2>3 DEF Recorded, new
<1> QED BY <1>5, <1>6

\* What a discovery makes of an identity's row.
LEMMA ReconciledFits ==
    ASSUME IInv, NEW x \in Ident, NEW seen, seen \in SUBSET Cont
    PROVE  LET new == Reconciled(x, seen)
           IN  /\ new \in Rows \cup {None}
               /\ row[x] # None => Later(row[x], new)
               /\ row[x] # None /\ row[x].fp # None => new.fp = row[x].fp
               /\ new # None =>
                    /\ new.rev = 0 => new.cont = None
                    /\ new.review <=> new.pend # None
                    /\ new.cont # None <=> new.status \in {"active", "review_required"}
                    /\ new.status = "active" => ~new.review
                    /\ new.status = "review_required" => new.review
                    /\ new.cont # None /\ row[x] # None /\ new.rev = row[x].rev =>
                          row[x].cont # None /\ Recorded(x, new) = Recorded(x, row[x])
                    /\ new.cont # None => new.rev # 0 /\ (new.review \/ new.fp # None)
<1> DEFINE group == {c \in seen : identOf[c] = x}
           old == IF row[x] = None THEN NoRow ELSE row[x]
           new == Reconciled(x, seen)
<1>1. /\ row[x] \in Rows \cup {None} /\ RowFits(x) /\ None \notin Rows /\ None \notin Cont
  BY ConstantsFit DEF IInv, TypeOK
<1>2. /\ old \in Rows /\ (old.review <=> old.pend # None) /\ (old.rev = 0 => old.cont = None)
      /\ row[x] # None => old = row[x]
  BY <1>1, ConstantsFit DEF RowFits, NoRow
<1>3. CASE group = {} /\ row[x] = None
  BY <1>3 DEF Reconciled
<1>4. CASE \/ group = {} /\ row[x] # None
           \/ group # {} /\ Cardinality(group) > 1
  <2>1. PICK status \in {"missing", "ambiguous"} : new = [old EXCEPT !.status = status, !.cont = None]
    BY <1>4 DEF Reconciled
  <2> HIDE DEF new, old, group
  <2>2. /\ new \in Rows /\ new.status = status /\ new.cont = None /\ new.rev = old.rev
        /\ new.fp = old.fp
        /\ new.pend = old.pend /\ new.review = old.review /\ old.rev \in Nat
    BY <1>2, <2>1 DEF Rows, Statuses
  <2>3. Later(old, new)
    BY <1>1, <2>2 DEF Later
  <2> QED BY <1>2, <2>2, <2>3 DEF new
<1>5. CASE group # {} /\ ~(Cardinality(group) > 1)
  <2>1. PICK c \in Cont : new = Bind(old, c)
    BY <1>5 DEF Reconciled
  <2> HIDE DEF new, old, group
  <2>2. /\ new \in Rows /\ Later(old, new) /\ new.rev # 0 /\ new.cont = c
        /\ (new.review <=> new.pend # None)
        /\ new.status = IF new.review THEN "review_required" ELSE "active"
        /\ new.rev = old.rev => old.cont = c /\ Recorded(x, new) = Recorded(x, old)
        /\ old.fp # None => new.fp = old.fp
        /\ new.review \/ new.fp # None
    BY <1>2, <2>1, BindFits
  <2> QED BY <1>1, <1>2, <2>2 DEF new
<1> QED BY <1>3, <1>4, <1>5

----------------------------------------------------------------------------
(* The end of a discovery                                                  *)

\* A request that waits, or leads, and is then answered or asks again.
LEMMA AnswerFits ==
    ASSUME IInv, TypeOK', NEW q \in Proc, req[q].pc \in {"wait", "lead"},
           \A x \in Ident : row[x] # None => Later(row[x], row'[x]),
           req'[q].row = req[q].row, req'[q].id = req[q].id, req'[q].kind = req[q].kind,
           req'[q].forced = req[q].forced, req'[q].wrote = req[q].wrote,
           req'[q].asked = req[q].asked, req'[q].after = req[q].after,
           running' = None, UNCHANGED <<discoveries, changes>>,
           \/ req'[q].pc = "ask"
           \/ req'[q].pc = "answered" /\ (req[q].kind # "view" => req'[q].at >= req[q].asked)
    PROVE  RequestFits(req[q])'
<1>1. RequestFits(req[q]) /\ req[q].id \in Ident
  BY DEF IInv, TypeOK, Requests
<1>2. MemoryFits(req[q])'
  BY <1>1, MemoryStays DEF RequestFits
<1>3. OrderFits(req[q])'
  BY <1>1 DEF RequestFits, OrderFits
<1>4. ShownFits(req[q])'
  BY DEF ShownFits
<1> QED BY <1>2, <1>3, <1>4 DEF RequestFits

\* A discovery that is complete answers whoever asked before it began.
LEMMA AfterDoneFits ==
    ASSUME IInv, NEW q \in Proc, running # None, running.step = "inspect",
           q \in AnsweredBy(running.seq)
    PROVE  LET r == req[q]
               new == AfterDone(q, running.seen, running.at)
           IN  /\ new \in Requests
               /\ new.row = r.row /\ new.id = r.id /\ new.kind = r.kind /\ new.forced = r.forced
               /\ new.wrote = r.wrote /\ new.asked = r.asked /\ new.after = r.after
               /\ \/ new.pc = "ask"
                  \/ new.pc = "answered" /\ (r.kind # "view" => new.at >= r.asked)
<1> DEFINE r == req[q]
           new == AfterDone(q, running.seen, running.at)
<1>1. /\ r \in Requests /\ r.pc \in {"wait", "lead"} /\ r.on = running.seq /\ OrderFits(r)
      /\ running.at \in Nat /\ running.seen \in SUBSET Cont
  BY DEF IInv, TypeOK, Discoveries, AnsweredBy, RequestFits
<1>2. CASE r.pc = "lead" \/ SeqSuffices(r, running.seq)
  <2>1. new = [r EXCEPT !.pc = "answered", !.got = running.seen, !.at = running.at, !.on = 0]
    BY <1>2 DEF AfterDone
  <2>2. r.kind # "view" => running.at >= r.asked
    BY <1>1, <1>2 DEF OrderFits, SeqSuffices
  <2> HIDE DEF new, r
  <2>3. /\ new \in Requests /\ new.row = r.row /\ new.id = r.id /\ new.kind = r.kind
        /\ new.forced = r.forced /\ new.wrote = r.wrote /\ new.asked = r.asked
        /\ new.after = r.after /\ new.pc = "answered" /\ new.at = running.at
    BY <1>1, <2>1 DEF Requests, Steps
  <2> QED BY <2>2, <2>3 DEF new, r
<1>3. CASE ~(r.pc = "lead" \/ SeqSuffices(r, running.seq))
  <2>1. new = [r EXCEPT !.pc = "ask", !.on = 0]
    BY <1>3 DEF AfterDone
  <2> HIDE DEF new, r
  <2>2. /\ new \in Requests /\ new.row = r.row /\ new.id = r.id /\ new.kind = r.kind
        /\ new.forced = r.forced /\ new.wrote = r.wrote /\ new.asked = r.asked
        /\ new.after = r.after /\ new.pc = "ask"
    BY <1>1, <2>1 DEF Requests, Steps
  <2> QED BY <2>2 DEF new, r
<1> QED BY <1>2, <1>3

\* The rows and bindings that the transaction of a discovery leaves.
LEMMA ApplyFits ==
    ASSUME IInv, NEW seen, seen \in SUBSET Cont, Apply(seen)
    PROVE  /\ row' \in [Ident -> Rows \cup {None}]
           /\ bindings' \subseteq [id : Ident, rev : Nat, cont : Cont, fp : Fps, accepted : BOOLEAN]
           /\ \A x \in Ident : row[x] # None => Later(row[x], row'[x])
           /\ bindings \subseteq bindings'
           /\ \A x \in Ident : RowFits(x)'
           /\ BindingsFit'
<1> DEFINE moved == {y \in Ident : row'[y] # None /\ row'[y].cont # None
                                     /\ (row[y] = None \/ row'[y].rev # row[y].rev)}
           added == {Recorded(x, row'[x]) : x \in moved}
<1>1. /\ row' = [x \in Ident |-> Reconciled(x, seen)] /\ bindings' = bindings \cup added
  BY DEF Apply
<1>2. ASSUME NEW x \in Ident
      PROVE  /\ row'[x] \in Rows \cup {None}
             /\ row[x] # None => Later(row[x], row'[x])
             /\ row'[x] # None =>
                  /\ row'[x].rev = 0 => row'[x].cont = None
                  /\ row'[x].review <=> row'[x].pend # None
                  /\ row'[x].cont # None <=> row'[x].status \in {"active", "review_required"}
                  /\ row'[x].status = "active" => ~row'[x].review
                  /\ row'[x].status = "review_required" => row'[x].review
                  /\ row'[x].cont # None /\ row[x] # None /\ row'[x].rev = row[x].rev =>
                        row[x].cont # None /\ Recorded(x, row'[x]) = Recorded(x, row[x])
                  /\ row'[x].cont # None => row'[x].review \/ row'[x].fp # None
  <2>1. row'[x] = Reconciled(x, seen)
    BY <1>1
  <2> QED BY <2>1, ReconciledFits
<1>3. row' \in [Ident -> Rows \cup {None}]
  BY <1>1, <1>2
<1>4. /\ \A x \in Ident : RowFits(x) /\ row[x] \in Rows \cup {None}
      /\ BindingsFit
      /\ bindings \subseteq [id : Ident, rev : Nat, cont : Cont, fp : Fps, accepted : BOOLEAN]
  BY DEF IInv, TypeOK
<1> HIDE DEF moved
<1>5. ASSUME NEW x \in moved
      PROVE  /\ x \in Ident /\ row'[x] \in Rows /\ row'[x].cont # None
             /\ row[x] = None \/ (row[x] \in Rows /\ row'[x].rev # row[x].rev /\ row[x].rev <= row'[x].rev)
             /\ Recorded(x, row'[x]) \in [id : Ident, rev : Nat, cont : Cont, fp : Fps, accepted : BOOLEAN]
             /\ Recorded(x, row'[x]).id = x /\ Recorded(x, row'[x]).rev = row'[x].rev
  <2>1. /\ x \in Ident /\ row'[x] \in Rows /\ row'[x].cont # None
        /\ row[x] = None \/ (row[x] \in Rows /\ row'[x].rev # row[x].rev /\ row[x].rev <= row'[x].rev)
    BY <1>2, <1>4 DEF moved, Later
  <2>2. (row'[x].review <=> row'[x].pend # None) /\ (row'[x].review \/ row'[x].fp # None)
    BY <1>2, <2>1, ConstantsFit
  <2>3. row'[x].cont \in Cont /\ row'[x].rev \in Nat
    BY <2>1 DEF Rows
  <2>4. (IF row'[x].review THEN row'[x].pend ELSE row'[x].fp) \in Fps
    BY <2>1, <2>2, ConstantsFit DEF Rows
  <2> QED BY <2>1, <2>3, <2>4 DEF Recorded
<1> HIDE DEF added
<1>6. \A b \in added : \E x \in moved : b = Recorded(x, row'[x])
  BY DEF added
<1>7. ASSUME NEW x \in Ident PROVE RowFits(x)'
  <2>1. row'[x] # None /\ row'[x].cont # None => Recorded(x, row'[x]) \in bindings'
    <3> SUFFICES ASSUME row'[x] # None, row'[x].cont # None, x \notin moved
                 PROVE  Recorded(x, row'[x]) \in bindings
      BY <1>1 DEF added
    <3>1. row[x] # None /\ row'[x].rev = row[x].rev
      BY DEF moved
    <3> QED BY <1>2, <1>4, <3>1 DEF RowFits
  <2> QED BY <1>2, <2>1 DEF RowFits, Recorded
<1>8. BindingsFit'
  <2>1. ASSUME NEW b \in bindings
        PROVE  row'[b.id] # None /\ row[b.id] # None /\ b.rev <= row[b.id].rev /\ b.rev <= row'[b.id].rev
               /\ b.id \in Ident
    <3>1. b.id \in Ident /\ b.rev \in Nat /\ row[b.id] # None /\ b.rev <= row[b.id].rev
      BY <1>4 DEF BindingsFit
    <3>2. row[b.id].rev <= row'[b.id].rev /\ row'[b.id] # None /\ row[b.id] \in Rows /\ row'[b.id] \in Rows
      BY <1>2, <1>4, <3>1 DEF Later
    <3> QED BY <3>1, <3>2 DEF Rows
  <2>2. ASSUME NEW b \in added PROVE row'[b.id] # None /\ b.rev <= row'[b.id].rev
    BY <1>5, <1>6, ConstantsFit DEF Rows
  <2>3. ASSUME NEW a \in bindings, NEW b \in added, a.id = b.id PROVE a.rev # b.rev
    <3>1. PICK x \in moved : b = Recorded(x, row'[x])
      BY <1>6
    <3>2. b.id = x /\ b.rev = row'[x].rev /\ row[x] # None /\ a.rev <= row[x].rev
      BY <1>5, <2>1, <2>3, <3>1
    <3>3. row[x].rev # row'[x].rev /\ row[x].rev <= row'[x].rev /\ row[x] \in Rows /\ row'[x] \in Rows
      BY <1>5, <3>2
    <3>4. a.rev \in Nat
      BY <1>4
    <3> QED BY <3>2, <3>3, <3>4 DEF Rows
  <2>4. ASSUME NEW a \in added, NEW b \in added, a.id = b.id PROVE a = b
    BY <1>5, <1>6, <2>4
  <2> QED BY <1>1, <1>4, <2>1, <2>2, <2>3, <2>4 DEF BindingsFit
<1> QED
  <2>1. bindings' \subseteq [id : Ident, rev : Nat, cont : Cont, fp : Fps, accepted : BOOLEAN]
    BY <1>1, <1>4, <1>5, <1>6
  <2> QED BY <1>1, <1>2, <1>3, <1>7, <1>8, <2>1

LEMMA DoneKeeps == IInv /\ DiscoverDone => IInv'
<1> SUFFICES ASSUME IInv, DiscoverDone PROVE IInv'
  OBVIOUS
<1>1. /\ running # None /\ running.step = "inspect" /\ running \in Discoveries
      /\ running.seen \in SUBSET Cont
      /\ Apply(running.seen) /\ running' = None /\ req \in [Proc -> Requests]
      /\ last' = [writes |-> running.writes, result |-> running.seen, recent |-> TRUE, at |-> running.at]
      /\ UNCHANGED <<docker, discoveries, writes, changes, written>>
  BY DEF DiscoverDone, IInv, TypeOK, Discoveries, pastVars
<1>2. \A q \in Proc : req'[q] = IF q \in AnsweredBy(running.seq)
                                THEN AfterDone(q, running.seen, running.at) ELSE req[q]
  BY DEF DiscoverDone
<1>3. req' \in [Proc -> Requests]
  <2>1. \A q \in Proc : req'[q] \in Requests
    BY <1>1, <1>2, AfterDoneFits
  <2> QED BY <2>1 DEF DiscoverDone
<1>4. /\ last' \in [writes : Nat, result : SUBSET Cont, recent : BOOLEAN, at : Nat]
      /\ last'.writes = running.writes /\ last'.at = running.at
  BY <1>1 DEF Discoveries
<1>5. TypeOK'
  <2>1. cache' \subseteq Cont
    BY <1>1 DEF DiscoverDone, Kept
  <2> QED BY <1>1, <1>3, <1>4, <2>1, ApplyFits DEF IInv, TypeOK
<1>6. DiscoveryFits' /\ DiscoveryGoesOn
  <2>1. discoveries \in Nat /\ changes \in Nat
    BY DEF IInv, TypeOK
  <2> QED BY <1>1, <1>4, <2>1 DEF IInv, DiscoveryFits, NewerThanWrites, DiscoveryGoesOn
<1>7. ASSUME NEW q \in Proc PROVE RequestFits(req[q])'
  <2>1. CASE q \notin AnsweredBy(running.seq)
    BY <1>1, <1>2, <1>5, <1>6, <2>1, ApplyFits, RequestStays
  <2>2. CASE q \in AnsweredBy(running.seq)
    <3>1. req[q].pc \in {"wait", "lead"}
      BY <2>2 DEF AnsweredBy
    <3> QED BY <1>1, <1>2, <1>5, <2>2, <3>1, ApplyFits, AfterDoneFits, AnswerFits
  <2> QED BY <2>1, <2>2
<1> QED BY <1>1, <1>5, <1>6, <1>7, ApplyFits DEF IInv

\* One that fails ends the requests that must see Docker, and shows a page
\* from what is saved.
LEMMA AfterFailFits ==
    ASSUME IInv, NEW q \in Proc
    PROVE  LET r == req[q]
               new == AfterFail(q)
           IN  \/ new = Idle
               \/ /\ new \in Requests
                  /\ new.row = r.row /\ new.id = r.id /\ new.kind = r.kind /\ new.forced = r.forced
                  /\ new.wrote = r.wrote /\ new.asked = r.asked /\ new.after = r.after
                  /\ new.pc = "ask" \/ (new.pc = "answered" /\ r.kind = "view")
<1> DEFINE r == req[q]
           new == AfterFail(q)
<1>1. r \in Requests
  BY DEF IInv, TypeOK
<1>2. \/ new = Idle
      \/ \E pc \in {"ask", "answered"} : /\ new = [r EXCEPT !.pc = pc, !.on = 0]
                                         /\ pc = "answered" => r.kind = "view"
  BY DEF AfterFail
<1> HIDE DEF new, r
<1>3. ASSUME NEW pc \in {"ask", "answered"}, new = [r EXCEPT !.pc = pc, !.on = 0]
      PROVE  /\ new \in Requests /\ new.pc = pc
             /\ new.row = r.row /\ new.id = r.id /\ new.kind = r.kind /\ new.forced = r.forced
             /\ new.wrote = r.wrote /\ new.asked = r.asked /\ new.after = r.after
  BY <1>1, <1>3 DEF Requests, Steps
<1>4. CASE new # Idle
  <2>1. PICK pc \in {"ask", "answered"} : /\ new = [r EXCEPT !.pc = pc, !.on = 0]
                                          /\ pc = "answered" => r.kind = "view"
    BY <1>2, <1>4
  <2>2. /\ new \in Requests /\ new.pc = pc
        /\ new.row = r.row /\ new.id = r.id /\ new.kind = r.kind /\ new.forced = r.forced
        /\ new.wrote = r.wrote /\ new.asked = r.asked /\ new.after = r.after
    BY <1>3, <2>1
  <2> QED BY <2>1, <2>2 DEF new, r
<1>5. CASE new = Idle
  BY <1>5 DEF new
<1> QED BY <1>4, <1>5

LEMMA FailKeeps == IInv /\ DiscoverFails => IInv'
<1> SUFFICES ASSUME IInv, DiscoverFails PROVE IInv'
  OBVIOUS
<1>1. /\ running # None /\ running \in Discoveries /\ running' = None
      /\ req \in [Proc -> Requests]
      /\ UNCHANGED <<docker, discoveries, last, writes, dbVars, pastVars>>
      /\ UNCHANGED cache \/ cache' = running.seen
  BY DEF DiscoverFails, Kept, IInv, TypeOK
<1>2. \A q \in Proc : req'[q] = IF q \in AnsweredBy(running.seq) THEN AfterFail(q) ELSE req[q]
  BY DEF DiscoverFails
<1>4. TypeOK'
  <2>1. \A q \in Proc : req'[q] \in Requests
    BY <1>1, <1>2, AfterFailFits, ConstantsFit
  <2>2. req' \in [Proc -> Requests]
    BY <2>1 DEF DiscoverFails
  <2>3. cache' \subseteq Cont
    BY <1>1 DEF IInv, TypeOK, Discoveries
  <2> QED BY <1>1, <2>2, <2>3 DEF IInv, TypeOK, dbVars, pastVars
<1>5. DiscoveryFits' /\ DiscoveryGoesOn
  <2>1. discoveries \in Nat /\ changes \in Nat
    BY DEF IInv, TypeOK
  <2> QED BY <1>1, <2>1 DEF IInv, DiscoveryFits, NewerThanWrites, DiscoveryGoesOn, pastVars
<1>6. (\A x \in Ident : RowFits(x))' /\ BindingsFit' /\ bindings \subseteq bindings'
      /\ \A x \in Ident : row[x] # None => Later(row[x], row'[x])
  BY <1>1, RowsStay DEF IInv, RowFits, BindingsFit, dbVars
<1>7. ASSUME NEW q \in Proc PROVE RequestFits(req[q])'
  <2>1. CASE q \notin AnsweredBy(running.seq)
    BY <1>2, <1>4, <1>5, <1>6, <2>1, RequestStays
  <2>2. CASE q \in AnsweredBy(running.seq) /\ req'[q] = Idle
    BY <2>2, IdleFits
  <2>3. CASE q \in AnsweredBy(running.seq) /\ req'[q] # Idle
    <3>1. req[q].pc \in {"wait", "lead"}
      BY <2>3 DEF AnsweredBy
    <3> QED BY <1>1, <1>2, <1>4, <1>6, <2>3, <3>1, AfterFailFits, AnswerFits DEF pastVars
  <2> QED BY <2>1, <2>2, <2>3
<1> QED BY <1>4, <1>5, <1>6, <1>7 DEF IInv

----------------------------------------------------------------------------
(* Steps of a request that change the rest of the state                    *)

\* It starts a discovery.
LEMMA LeadKeeps ==
    ASSUME IInv, NEW p \in Proc, RefreshLead(p)
    PROVE  IInv'
<1> DEFINE n == discoveries + 1
           r == [req[p] EXCEPT !.pc = "lead", !.on = n]
<1>1. /\ req[p] \in Requests /\ req \in [Proc -> Requests] /\ RequestFits(req[p])
      /\ discoveries \in Nat /\ writes \in Nat
  BY DEF IInv, TypeOK
<1>2. /\ req' = [req EXCEPT ![p] = r] /\ req'[p] = r /\ req[p].pc = "ask" /\ running = None
      /\ discoveries' = discoveries + 1
      /\ running' = [seq |-> discoveries + 1, writes |-> writes, step |-> "list", todo |-> {},
                     seen |-> {}, at |-> 0]
      /\ UNCHANGED <<docker, last, cache, writes, dbVars, pastVars>>
  BY <1>1 DEF RefreshLead
<1> HIDE DEF n
<1>3. /\ r \in Requests /\ r.pc = "lead" /\ r.on = n
      /\ r.kind = req[p].kind /\ r.row = req[p].row /\ r.id = req[p].id /\ r.forced = req[p].forced
      /\ r.after = req[p].after /\ r.asked = req[p].asked /\ r.wrote = req[p].wrote
  <2>1. n \in Nat
    BY <1>1 DEF n
  <2> QED BY <1>1, <2>1 DEF Requests, Steps
<1> HIDE DEF r
<1> USE DEF n
<1>4. /\ running' \in Discoveries /\ running'.step = "list" /\ running'.seq = discoveries + 1
      /\ running'.writes = writes
  BY <1>1, <1>2 DEF Discoveries
<1>5. TypeOK' /\ \A q \in Proc \ {p} : req'[q] = req[q]
  BY <1>1, <1>2, <1>3, <1>4 DEF IInv, TypeOK, dbVars, pastVars
<1>6. (\A x \in Ident : RowFits(x))' /\ BindingsFit' /\ DiscoveryFits' /\ DiscoveryGoesOn
      /\ bindings \subseteq bindings' /\ \A x \in Ident : row[x] # None => Later(row[x], row'[x])
  <2>1. DiscoveryFits'
    BY <1>1, <1>2, <1>4 DEF IInv, DiscoveryFits, NewerThanWrites, pastVars
  <2>2. DiscoveryGoesOn
    BY <1>1, <1>2, <1>4 DEF IInv, TypeOK, DiscoveryGoesOn, pastVars
  <2> QED BY <1>2, <2>1, <2>2, RowsStay DEF IInv, RowFits, BindingsFit, dbVars
<1>7. RequestFits(req[p])'
  <2>1. MemoryFits(req[p])'
    BY <1>1, <1>2, <1>3 DEF RequestFits, MemoryFits, dbVars
  <2>2. OrderFits(req[p])'
    <3>1. req[p].after \in Nat /\ req[p].after <= discoveries
      BY <1>1, <1>2 DEF RequestFits, OrderFits, Requests
    <3> QED BY <1>1, <1>2, <1>3, <1>4, <3>1 DEF RequestFits, OrderFits, pastVars
  <2>3. ShownFits(req[p])'
    BY <1>2, <1>3 DEF ShownFits
  <2> QED BY <2>1, <2>2, <2>3 DEF RequestFits
<1>8. ASSUME NEW q \in Proc PROVE RequestFits(req[q])'
  BY <1>5, <1>6, <1>7, RequestStays
<1> QED BY <1>5, <1>6, <1>8 DEF IInv

\* Docker is asked to change the container of the binding that the request
\* was authorized for, which is recorded and was accepted.
LEMMA ChangeKeeps ==
    ASSUME IInv, NEW p \in Proc, ChangeState(p)
    PROVE  IInv'
<1> DEFINE n == changes + 1
           r == [req[p] EXCEPT !.pc = "sent", !.at = n]
<1>1. /\ req[p] \in Requests /\ req \in [Proc -> Requests] /\ RequestFits(req[p])
      /\ changes \in Nat /\ written \in Nat /\ discoveries \in Nat
      /\ UNCHANGED <<docker, fleetVars, writes, dbVars, written>>
  BY DEF ChangeState, IInv, TypeOK
<1>2. CASE req' = [req EXCEPT ![p] = Idle] /\ UNCHANGED changes
  BY <1>1, <1>2, EndKeeps DEF pastVars
<1>3. CASE /\ AssertObservedBinding(req[p], req[p].row.cont)
           /\ req' = [req EXCEPT ![p].pc = "sent", ![p].at = changes + 1] /\ changes' = changes + 1
  <2>1. req' = [req EXCEPT ![p] = r] /\ req'[p] = r
    BY <1>1, <1>3
  <2> HIDE DEF n
  <2>2. r \in Requests /\ r.pc = "sent" /\ r.at = n /\ r.row = req[p].row /\ r.id = req[p].id
        /\ r.kind = req[p].kind
    <3>1. n \in Nat
      BY <1>1 DEF n
    <3> QED BY <1>1, <3>1 DEF Requests, Steps
  <2> HIDE DEF r
  <2> USE DEF n
  <2>3. TypeOK' /\ \A q \in Proc \ {p} : req'[q] = req[q]
    BY <1>1, <1>3, <2>1, <2>2 DEF IInv, TypeOK, fleetVars, dbVars
  <2>4. (\A x \in Ident : RowFits(x))' /\ BindingsFit' /\ DiscoveryFits' /\ DiscoveryGoesOn
        /\ bindings \subseteq bindings' /\ \A x \in Ident : row[x] # None => Later(row[x], row'[x])
    <3>1. DiscoveryFits'
      BY <1>1, <1>3 DEF IInv, DiscoveryFits, NewerThanWrites, fleetVars
    <3>2. DiscoveryGoesOn
      BY <1>1, <1>3 DEF DiscoveryGoesOn, fleetVars
    <3> QED BY <1>1, <3>1, <3>2, RowsStay DEF IInv, RowFits, BindingsFit, dbVars
  <2>5. RequestFits(req[p])'
    <3>1. MemoryFits(req[p])'
      BY <1>1, <2>1, <2>2 DEF RequestFits, MemoryFits, dbVars
    <3>2. OrderFits(req[p])'
      BY <1>1, <1>3, <2>1, <2>2 DEF OrderFits
    <3>3. ShownFits(req[p])'
      <4> DEFINE x == req[p].id
                 b == Recorded(x, row[x])
      <4>1. /\ x \in Ident /\ row[x] # None /\ row[x].status = "active" /\ row[x].cont # None
            /\ row[x].rev = req[p].row.rev /\ row[x].cont = req[p].row.cont
            /\ row[x].fp = fpOf[req[p].row.cont]
        BY <1>1, <1>3 DEF AssertObservedBinding, Usable, Requests
      <4>2. b \in bindings /\ ~row[x].review
        BY <4>1 DEF IInv, RowFits
      <4>3. b.accepted /\ b.id = x /\ b.rev = row[x].rev /\ b.cont = row[x].cont /\ b.fp = row[x].fp
        BY <4>2 DEF Recorded
      <4> HIDE DEF b
      <4> QED BY <1>1, <2>1, <2>2, <4>1, <4>2, <4>3 DEF ShownFits, dbVars
    <3> QED BY <3>1, <3>2, <3>3 DEF RequestFits
  <2>6. ASSUME NEW q \in Proc PROVE RequestFits(req[q])'
    BY <2>3, <2>4, <2>5, RequestStays
  <2> QED BY <2>3, <2>4, <2>6 DEF IInv
<1> QED BY <1>2, <1>3 DEF ChangeState

\* The request is counted: no discovery has read the new number yet.
LEMMA CountKeeps ==
    ASSUME IInv, NEW p \in Proc, WriteCounted(p)
    PROVE  IInv'
<1>1. /\ req[p] \in Requests /\ req \in [Proc -> Requests] /\ RequestFits(req[p])
      /\ req[p].at \in Nat /\ req[p].at <= changes /\ changes \in Nat /\ discoveries \in Nat
      /\ writes \in Nat
      /\ req' = [req EXCEPT ![p] = Idle] /\ req'[p] = Idle
      /\ writes' = writes + 1 /\ written' = req[p].at
      /\ UNCHANGED <<docker, fleetVars, dbVars, changes>>
  BY DEF WriteCounted, IInv, TypeOK, RequestFits, OrderFits, Requests
<1>2. TypeOK' /\ \A q \in Proc \ {p} : req'[q] = req[q]
  BY <1>1, ConstantsFit DEF IInv, TypeOK, fleetVars, dbVars
<1>3. (\A x \in Ident : RowFits(x))' /\ BindingsFit' /\ DiscoveryFits' /\ DiscoveryGoesOn
      /\ bindings \subseteq bindings' /\ \A x \in Ident : row[x] # None => Later(row[x], row'[x])
  <2>1. DiscoveryFits'
    <3>1. /\ running # None => running.writes \in Nat /\ running.writes <= writes
          /\ last # None => last.writes \in Nat /\ last.writes <= writes
      BY DEF IInv, TypeOK, DiscoveryFits, NewerThanWrites, Discoveries
    <3> QED BY <1>1, <3>1 DEF IInv, DiscoveryFits, NewerThanWrites, fleetVars
  <2>2. DiscoveryGoesOn
    BY <1>1 DEF DiscoveryGoesOn, fleetVars
  <2> QED BY <1>1, <2>1, <2>2, RowsStay DEF IInv, RowFits, BindingsFit, dbVars
<1>4. ASSUME NEW q \in Proc PROVE RequestFits(req[q])'
  BY <1>1, <1>2, <1>3, IdleFits, RequestStays
<1> QED BY <1>2, <1>3, <1>4 DEF IInv

\* A review that finds the revision of its page accepts the container and
\* the fingerprint that the page showed.
LEMMA ReviewIsOfPage ==
    ASSUME IInv, NEW p \in Proc, req[p].pc = "accept",
           ReviewMatches(req[p])
    PROVE  LET now == row[req[p].id]
           IN  /\ req[p].id \in Ident /\ now \in Rows /\ now.cont \in Cont /\ now.pend \in Fps
               /\ now.cont = req[p].row.cont /\ now.pend = req[p].row.pend
<1> DEFINE now == row[req[p].id]
<1>1. /\ req[p].id \in Ident /\ MemoryFits(req[p])
      /\ now.status = "review_required" /\ now.cont # None /\ now.rev = req[p].row.rev
  BY DEF IInv, TypeOK, RequestFits, Requests, ReviewMatches
<1>2. Later(req[p].row, now)
  BY <1>1 DEF MemoryFits
<1>3. now \in Rows /\ (now.review <=> now.pend # None) /\ now.review
  BY <1>1, <1>2 DEF IInv, TypeOK, RowFits, Later
<1> HIDE DEF now
<1>4. now.cont \in Cont /\ now.pend \in Fps
  BY <1>1, <1>3 DEF Rows
<1>5. now.cont = req[p].row.cont /\ now.pend = req[p].row.pend
  BY <1>1, <1>2 DEF Later
<1> QED BY <1>1, <1>3, <1>4, <1>5 DEF now

LEMMA ReviewKeeps ==
    ASSUME IInv, NEW p \in Proc, ReviewBinding(p)
    PROVE  IInv'
<1> DEFINE x == req[p].id
           now == row[x]
           new == Accepted(now)
           b == [id |-> x, rev |-> new.rev, cont |-> now.cont, fp |-> now.pend, accepted |-> TRUE]
<1>1. /\ req \in [Proc -> Requests] /\ req' = [req EXCEPT ![p] = Idle] /\ req'[p] = Idle
      /\ req[p].pc = "accept" /\ UNCHANGED <<docker, fleetVars, writes, pastVars>>
      /\ discoveries \in Nat /\ changes \in Nat
      /\ row \in [Ident -> Rows \cup {None}] /\ BindingsFit /\ (\A y \in Ident : RowFits(y))
      /\ bindings \subseteq [id : Ident, rev : Nat, cont : Cont, fp : Fps, accepted : BOOLEAN]
  BY DEF ReviewBinding, IInv, TypeOK
<1>2. CASE ~ReviewMatches(req[p])
  BY <1>1, <1>2, EndKeeps DEF ReviewBinding, dbVars
<1>3. CASE ReviewMatches(req[p])
  <2>1. row' = [row EXCEPT ![x] = new] /\ bindings' = bindings \cup {b}
    BY <1>3 DEF ReviewBinding
  <2>2. x \in Ident /\ now \in Rows /\ now.cont \in Cont /\ now.pend \in Fps
    BY <1>1, <1>3, ReviewIsOfPage
  <2>3. /\ new \in Rows /\ new.status = "active" /\ new.rev = now.rev + 1 /\ new.fp = now.pend
        /\ new.pend = None /\ ~new.review /\ new.cont = now.cont /\ now.rev \in Nat
    <3> DEFINE n == now.rev + 1
    <3>1. now.rev \in Nat /\ n \in Nat
      BY <2>2 DEF Rows
    <3>2. new = [now EXCEPT !.status = "active", !.rev = n, !.fp = now.pend, !.pend = None,
                            !.review = FALSE]
      BY DEF Accepted
    <3> HIDE DEF now, new, n
    <3>3. /\ new \in Rows /\ new.status = "active" /\ new.rev = n /\ new.fp = now.pend
          /\ new.pend = None /\ ~new.review /\ new.cont = now.cont
      BY <2>2, <3>1, <3>2 DEF Rows, Statuses
    <3> QED BY <3>1, <3>3 DEF n
  <2> HIDE DEF new
  <2>4. /\ b \in [id : Ident, rev : Nat, cont : Cont, fp : Fps, accepted : BOOLEAN]
        /\ b.id = x /\ b.rev = new.rev /\ b = Recorded(x, new)
    <3>1. new.rev \in Nat
      BY <2>3 DEF Rows
    <3> QED BY <2>2, <2>3, <3>1 DEF Recorded
  <2> HIDE DEF b, now, x
  <2>5. /\ row'[x] = new /\ (\A y \in Ident \ {x} : row'[y] = row[y])
        /\ row' \in [Ident -> Rows \cup {None}] /\ row[x] = now /\ new # None /\ now # None
    BY <1>1, <2>1, <2>2, <2>3, ConstantsFit DEF now
  <2>6. TypeOK' /\ \A q \in Proc \ {p} : req'[q] = req[q]
    BY <1>1, <2>1, <2>4, <2>5, ConstantsFit DEF IInv, TypeOK, fleetVars, pastVars
  <2>7. ASSUME NEW y \in Ident PROVE row[y] # None => Later(row[y], row'[y])
    <3>1. CASE y = x
      BY <2>3, <2>5, <3>1 DEF Later
    <3>2. CASE y # x
      BY <1>1, <2>5, <3>2 DEF Later, Rows
    <3> QED BY <3>1, <3>2
  <2>8. ASSUME NEW y \in Ident PROVE RowFits(y)'
    <3>1. CASE y = x
      <4>1. Recorded(x, new) \in bindings'
        BY <2>1, <2>4
      <4> QED BY <2>2, <2>3, <2>5, <3>1, <4>1, ConstantsFit DEF RowFits
    <3>2. CASE y # x
      BY <1>1, <2>1, <2>5, <3>2 DEF RowFits, Recorded
    <3> QED BY <3>1, <3>2
  <2>9. BindingsFit'
    <3>1. ASSUME NEW a \in bindings
          PROVE  /\ row'[a.id] # None /\ a.rev <= row'[a.id].rev
                 /\ a.id = x => a.rev # b.rev
      <4>1. a.id \in Ident /\ a.rev \in Nat /\ row[a.id] # None /\ a.rev <= row[a.id].rev
        BY <1>1 DEF BindingsFit
      <4>2. CASE a.id = x
        BY <2>3, <2>4, <2>5, <4>1, <4>2
      <4>3. CASE a.id # x
        BY <2>5, <4>1, <4>3
      <4> QED BY <4>2, <4>3
    <3>2. b.rev <= row'[b.id].rev /\ row'[b.id] # None
      BY <2>3, <2>4, <2>5
    <3> QED BY <1>1, <2>1, <2>4, <3>1, <3>2 DEF BindingsFit
  <2>10. DiscoveryFits' /\ DiscoveryGoesOn
    BY <1>1 DEF IInv, TypeOK, DiscoveryFits, NewerThanWrites, DiscoveryGoesOn, fleetVars, pastVars
  <2>11. ASSUME NEW q \in Proc PROVE RequestFits(req[q])'
    BY <1>1, <2>1, <2>6, <2>7, <2>10, IdleFits, RequestStays
  <2> QED BY <2>6, <2>8, <2>9, <2>10, <2>11 DEF IInv
<1> QED BY <1>2, <1>3

----------------------------------------------------------------------------
(* The invariant, and the properties that follow from it                   *)

LEMMA RequestKeeps ==
    ASSUME IInv, NEW p \in Proc, Request(p)
    PROVE  IInv'
<1>1. CASE \E kind \in {"act", "view"}, x \in Ident : Ask(p, kind, x)
  BY <1>1, AskKeeps
<1>2. CASE RefreshReuse(p)
  BY <1>2, ReuseKeeps
<1>3. CASE RefreshLead(p)
  BY <1>3, LeadKeeps
<1>4. CASE RefreshJoin(p)
  BY <1>4, JoinKeeps
<1>5. CASE Leave(p)
  BY <1>5, EndKeeps DEF Leave
<1>6. CASE ResolveBinding(p)
  BY <1>6, ResolveKeeps
<1>7. CASE VerifyAuthorized(p)
  BY <1>7, VerifyKeeps
<1>8. CASE ChangeState(p)
  BY <1>8, ChangeKeeps
<1>9. CASE WriteCounted(p)
  BY <1>9, CountKeeps
<1>10. CASE SnapshotRead(p)
  BY <1>10, SnapshotReadKeeps
<1>11. CASE SnapshotStats(p)
  BY <1>11, StatsKeeps
<1>12. CASE SnapshotShow(p)
  BY <1>12, ShowKeeps
<1>13. CASE PageLeft(p)
  BY <1>13, EndKeeps DEF PageLeft
<1>14. CASE ReviewAsk(p)
  BY <1>14, ReviewAskKeeps
<1>15. CASE ReviewRead(p)
  BY <1>15, ReviewReadKeeps
<1>16. CASE ReviewBinding(p)
  BY <1>16, ReviewKeeps
<1> QED
  BY <1>1, <1>2, <1>3, <1>4, <1>5, <1>6, <1>7, <1>8, <1>9, <1>10, <1>11, <1>12, <1>13, <1>14,
     <1>15, <1>16 DEF Request

LEMMA NextIInv == IInv /\ [Next]_vars => IInv'
<1> SUFFICES ASSUME IInv, [Next]_vars PROVE IInv'
  OBVIOUS
<1>1. CASE \E c \in Cont : DockerChanges(c) \/ observeSummary(c)
  BY <1>1, DockerKeeps, ObserveKeeps
<1>2. CASE ListContainers
  BY <1>2, ListKeeps
<1>3. CASE DiscoverDone
  BY <1>3, DoneKeeps
<1>4. CASE DiscoverFails
  BY <1>4, FailKeeps
<1>5. CASE ReuseEnds
  BY <1>5, ReuseEndKeeps
<1>6. CASE \E p \in Proc : Request(p)
  BY <1>6, RequestKeeps
<1>7. CASE UNCHANGED vars
  BY <1>7 DEF vars, fleetVars, dbVars, pastVars, IInv, TypeOK, RowFits, BindingsFit,
       DiscoveryFits, NewerThanWrites, RequestFits, MemoryFits, OrderFits, ShownFits
<1> QED BY <1>1, <1>2, <1>3, <1>4, <1>5, <1>6, <1>7 DEF Next

LEMMA Invariance == Spec => []IInv
BY InitIInv, NextIInv, PTL DEF Spec

\* A request that must see Docker as it is gets an answer from after it
\* asked, a page never mixes two containers, and Docker is only asked to
\* change the container of an accepted binding: Service.refresh, snapshot
\* and ChangeState of internal/servers.
THEOREM RequestsAreSoundHolds == Spec => []RequestsAreSound
<1>1. IInv => RequestsAreSound
  <2> SUFFICES ASSUME IInv PROVE RequestsAreSound
    OBVIOUS
  <2>1. \A p \in Proc : OrderFits(req[p]) /\ ShownFits(req[p])
    BY DEF IInv, RequestFits
  <2>2. FreshAnswers
    BY <2>1 DEF FreshAnswers, OrderFits
  <2>3. PageIsCoherent
    BY <2>1 DEF PageIsCoherent, ShownFits
  <2>4. PinnedBinding
    BY <2>1 DEF PinnedBinding, ShownFits, IInv, BindingsFit
  <2> QED BY <2>2, <2>3, <2>4 DEF RequestsAreSound
<1> QED BY <1>1, Invariance, PTL

\* Every step but an accepted review leaves the trusted fingerprint of a row.
LEMMA TrustMoves ==
    ASSUME IInv, Next, NEW x \in Ident,
           row[x] # None, row[x].fp # None, row'[x].fp # row[x].fp
    PROVE  \E p \in Proc : /\ req[p].pc = "accept" /\ req'[p].pc = "idle"
                           /\ req[p].row.cont = row'[x].cont /\ req[p].row.pend = row'[x].fp
<1>1. CASE DiscoverDone
  <2>1. running.seen \in SUBSET Cont /\ row'[x] = Reconciled(x, running.seen)
    BY <1>1 DEF DiscoverDone, Apply, IInv, TypeOK, Discoveries
  <2> QED BY <2>1, ReconciledFits
<1>2. CASE \E p \in Proc : ReviewBinding(p)
  <2>1. PICK p \in Proc : ReviewBinding(p)
    BY <1>2
  <2>2. req[p].pc = "accept" /\ req'[p].pc = "idle" /\ row \in [Ident -> Rows \cup {None}]
    BY <2>1 DEF ReviewBinding, IInv, TypeOK, Idle
  <2>3. ReviewMatches(req[p]) /\ row' = [row EXCEPT ![req[p].id] = Accepted(row[req[p].id])]
    BY <2>1 DEF ReviewBinding, dbVars
  <2>4. /\ x = req[p].id /\ row'[x] = Accepted(row[x]) /\ row[x] \in Rows
        /\ row[x].cont = req[p].row.cont /\ row[x].pend = req[p].row.pend
    BY <2>2, <2>3, ReviewIsOfPage
  <2>5. row'[x].cont = row[x].cont /\ row'[x].fp = row[x].pend
    BY <2>4 DEF Accepted, Rows
  <2> QED BY <2>2, <2>4, <2>5
<1>3. CASE UNCHANGED row
  BY <1>3
<1>4. ASSUME NEW p \in Proc, Request(p), ~ReviewBinding(p) PROVE UNCHANGED dbVars
  <2>1. CASE \/ \E kind \in {"act", "view"}, y \in Ident : Ask(p, kind, y)
             \/ RefreshReuse(p) \/ RefreshLead(p) \/ RefreshJoin(p) \/ Leave(p)
    BY <2>1, Zenon DEF Ask, RefreshReuse, RefreshLead, RefreshJoin, Leave, dbVars
  <2>2. CASE ResolveBinding(p) \/ VerifyAuthorized(p) \/ ChangeState(p) \/ WriteCounted(p)
    BY <2>2, Zenon DEF ResolveBinding, VerifyAuthorized, ChangeState, WriteCounted, dbVars
  <2>3. CASE SnapshotRead(p) \/ SnapshotStats(p) \/ SnapshotShow(p) \/ PageLeft(p)
    BY <2>3, Zenon DEF SnapshotRead, SnapshotStats, SnapshotShow, PageLeft, dbVars
  <2>4. CASE ReviewAsk(p) \/ ReviewRead(p)
    BY <2>4, Zenon DEF ReviewAsk, ReviewRead, dbVars
  <2> QED BY <1>4, <2>1, <2>2, <2>3, <2>4 DEF Request
<1>5. CASE \/ \E c \in Cont : DockerChanges(c) \/ observeSummary(c)
           \/ ListContainers \/ DiscoverFails \/ ReuseEnds
  BY <1>5, Zenon DEF DockerChanges, observeSummary, ListContainers, DiscoverFails, ReuseEnds, dbVars
<1> QED BY <1>1, <1>2, <1>3, <1>4, <1>5 DEF Next, dbVars

\* Whatever a discovery sees, the fingerprint a server is trusted with
\* changes only when an administrator accepts the container and fingerprint
\* that the page showed: Store.Apply and ReviewBinding of internal/identity.
THEOREM AcceptedOnlyByReviewHolds == Spec => AcceptedOnlyByReview
<1> DEFINE Reviewed ==
      \A x \in Ident :
        row[x] # None /\ row[x].fp # None /\ row'[x].fp # row[x].fp =>
            \E p \in Proc : /\ req[p].pc = "accept" /\ req'[p].pc = "idle"
                            /\ req[p].row.cont = row'[x].cont /\ req[p].row.pend = row'[x].fp
<1>1. IInv /\ [Next]_vars => [Reviewed]_vars
  BY TrustMoves
<1>2. Spec => [][Reviewed]_vars
  <2> HIDE DEF Reviewed
  <2> QED BY <1>1, Invariance, PTL DEF Spec
<1> QED BY <1>2 DEF AcceptedOnlyByReview
=============================================================================
