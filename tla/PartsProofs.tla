----------------------------- MODULE PartsProofs ----------------------------
(***************************************************************************)
(* The safety of independent parts of Ludock, as MCParts checks them, for  *)
(* any values of their constants: each section is about one of them.       *)
(***************************************************************************)
EXTENDS Accounts, Update, DataJobs, Sockets, Database, FiniteSetTheorems, TLAPS

-----------------------------------------------------------------------------
(* Accounts: AdminRemains and AccessIsCurrent.                             *)
(*                                                                         *)
(* The inductive invariant adds what a request in progress remembers.  A   *)
(* hash that a request has made and not yet stored is nobody's (HashFits), *)
(* so an account that has the hash a sign-in verified has the password it  *)
(* verified (EraFits).  A request whose session ended holds a token that   *)
(* will not be given again (EndedFits).  The failures counted, with those  *)
(* of requests under way, are bounded by the throttle (CountFits).         *)

USE AccountsAssumption

AdminOps == Ops \ {"setup", "login", "change"}

\* A request that has made a hash and not stored it.
Fresh(c) == req[c].new # None /\ (req[c].pc \in {"work", "upgrade"} \/ At(c, "setup", "commit"))

\* A sign-in whose password was verified.
Verified(c) == req[c].op = "login" /\ req[c].pc \in {"work", "upgrade", "checked", "commit"}

\* Sign-ins that may still count a failure of u, those that will.
Guessing(u) == {c \in Client : req[c].op = "login" /\ req[c].user = u /\ req[c].pc \in {"asked", "work", "failed"}}
Failed(u) == {c \in Client : At(c, "login", "failed") /\ req[c].user = u}

ReqFits(c) ==
    /\ req[c].op = "none" <=> req[c].pc = "idle"
    /\ req[c].op \notin {"none", "setup"} => req[c].user \in User
    /\ req[c].op = "setup" => req[c].pc \in {"work", "commit", "mark"} /\ req[c].new \in Hash
    /\ Verified(c) => req[c].old \in Hash
    /\ At(c, "login", "upgrade") => req[c].new \in Hash
    /\ req[c].op = "change" => req[c].pc = "work" /\ req[c].old \in Hash /\ req[c].new \in Hash
    /\ req[c].op \in AdminOps => req[c].pc = "work"
    /\ req[c].op \in {"create", "reset"} => req[c].new \in Hash

SessionFits(t) == sessions[t] # None => Enabled(Owner(t)) /\ sessions[t].era = users[Owner(t)].era

HashFits(c) ==
    Fresh(c) => /\ \A u \in User : Exists(u) => users[u].hash # req[c].new
                /\ \A d \in Client : req[d].old # req[c].new
                /\ \A d \in Client \ {c} : req[d].new # req[c].new

EraFits(c) ==
    Verified(c) /\ Exists(req[c].user) /\ users[req[c].user].hash = req[c].old
        => users[req[c].user].era = req[c].era

EndedFits(c) ==
    /\ c \in ended /\ req[c].token # None => sessions[req[c].token] = None
    /\ req[c].op = "change" /\ req[c].token # None /\ sessions[req[c].token] # None =>
          Owner(req[c].token) = req[c].user

CountFits(u) ==
    /\ fails[u] + Cardinality(Guessing(u)) <= MaxFailures + Cardinality(Client) - 1
    /\ guesses[u] <= fails[u] + Cardinality(Failed(u))

IInv ==
    /\ TypeOK
    /\ made <= 1 /\ (made = 1 => Admins # {})
    /\ \A c \in Client : ReqFits(c) /\ HashFits(c) /\ EraFits(c) /\ EndedFits(c)
    /\ \A t \in Token : SessionFits(t)
    /\ \A u \in User : CountFits(u)
    /\ ~late

-----------------------------------------------------------------------------
(* Hashes and tokens                                                       *)

\* A hash that is left is none that anybody uses.
LEMMA HashIsNew ==
    ASSUME HashLeft
    PROVE  NewHash \in Hash \ Weak /\ NewHash \notin HashesInUse
BY DEF HashLeft, NewHash

\* So is a token.
LEMMA TokenIsNew ==
    ASSUME TokenLeft
    PROVE  NewToken \in Token /\ NewToken \notin TokensInUse
BY DEF TokenLeft, NewToken

-----------------------------------------------------------------------------
(* What a step does to the requests: at most one of them changes, in one   *)
(* of five ways, unless the panel restarts.                                *)

Put(c, r) == r \in Requests /\ req' = [req EXCEPT ![c] = r]

\* The hash is None or new.
MakesHash(r) == r.new = None \/ (r.new \in Hash /\ r.new \notin HashesInUse)

Begins(c, r) ==
    /\ req[c].pc = "idle" /\ MakesHash(r) /\ ended' = ended \ {c}
    /\ r.pc = IF r.op = "login" THEN "asked" ELSE "work"
    /\ \/ r.op = "setup" /\ r.new # None /\ r.old = None
       \/ /\ r.op = "login" /\ r.user \in User /\ fails[r.user] < MaxFailures
          /\ r.new = None /\ r.old = None
       \/ /\ r.op = "change" /\ r.user \in User /\ r.new # None /\ Enabled(r.user)
          /\ r.old = users[r.user].hash /\ r.token \in Token /\ sessions[r.token] # None
          /\ Owner(r.token) = r.user
       \/ /\ r.op \in AdminOps /\ r.user \in User /\ r.old = None
          /\ r.op \in {"create", "reset"} => r.new # None

Reads(c, r) ==
    /\ At(c, "login", "asked") /\ Enabled(req[c].user) /\ MakesHash(r)
    /\ r.op = "login" /\ r.pc = "work" /\ r.user = req[c].user /\ r.token = req[c].token
    /\ r.old = users[req[c].user].hash /\ r.era = users[req[c].user].era

Moves(c, r) ==
    /\ \/ /\ req[c].op = "setup"
          /\ \/ req[c].pc = "work" /\ r.pc = "commit"
             \/ req[c].pc = "commit" /\ r.pc = "mark"
       \/ /\ req[c].op = "login"
          /\ \/ req[c].pc = "asked" /\ r.pc = "failed"
             \/ req[c].pc = "work" /\ r.pc \in {"failed", "upgrade", "checked"}
             \/ req[c].pc = "checked" /\ r.pc = "commit"
          /\ r.pc = "upgrade" => req[c].new # None
          /\ r.pc = "failed" => guesses' = [guesses EXCEPT ![req[c].user] = @ + 1]
    /\ r.op = req[c].op /\ r.user = req[c].user /\ r.token = req[c].token
    /\ r.old = req[c].old /\ r.new = req[c].new /\ r.era = req[c].era

Upgrades(c, r) ==
    /\ UpgradePasswordHash(c)
    /\ r.op = "login" /\ r.pc = "checked" /\ r.user = req[c].user /\ r.token = req[c].token
    /\ r.old = req[c].new /\ r.new = req[c].new /\ r.era = req[c].era

Ends(c, r) ==
    /\ req[c].op # "none" /\ r = Idle
    /\ At(c, "login", "failed") => RecordLoginFailure(c) \/ GoneAway(c)

Changed(c, r) == Begins(c, r) \/ Reads(c, r) \/ Moves(c, r) \/ Upgrades(c, r) \/ Ends(c, r)

LEMMA PutIs ==
    ASSUME req \in [Client -> Requests], NEW c \in Client, NEW r, Put(c, r)
    PROVE  /\ req' \in [Client -> Requests] /\ r \in Requests
           /\ req'[c] = r
           /\ \A d \in Client \ {c} : req'[d] = req[d]
BY DEF Put

LEMMA IdleIs ==
    /\ Idle \in Requests /\ Idle.op = "none" /\ Idle.pc = "idle"
    /\ Idle.new = None /\ Idle.old = None /\ Idle.token = None /\ Idle.user = None
BY DEF Idle, Requests, Ops, Roles

\* A request that only moves on.
LEMMA StepIs ==
    ASSUME req \in [Client -> Requests], NEW c \in Client, NEW next, Step(c, next),
           next \in {"commit", "mark", "failed", "upgrade", "checked"}
    PROVE  LET r == [req[c] EXCEPT !.pc = next] IN
           /\ Put(c, r) /\ r.pc = next
           /\ r.op = req[c].op /\ r.user = req[c].user /\ r.token = req[c].token
           /\ r.old = req[c].old /\ r.new = req[c].new /\ r.era = req[c].era
<1> DEFINE r == [req[c] EXCEPT !.pc = next]
<1>1. req[c] \in Requests
  OBVIOUS
<1>2. r \in Requests /\ r.pc = next
  BY <1>1 DEF Requests
<1>3. /\ r.op = req[c].op /\ r.user = req[c].user /\ r.token = req[c].token
      /\ r.old = req[c].old /\ r.new = req[c].new /\ r.era = req[c].era
  BY <1>1 DEF Requests
<1>4. req' = [req EXCEPT ![c] = r]
  BY DEF Step
<1> QED
  BY <1>2, <1>3, <1>4 DEF Put

\* An answered request.
LEMMA AnswerIs ==
    ASSUME req \in [Client -> Requests], NEW c \in Client, Answer(c),
           req[c].op # "none", At(c, "login", "failed") => RecordLoginFailure(c) \/ GoneAway(c)
    PROVE  Put(c, Idle) /\ Changed(c, Idle)
BY IdleIs DEF Put, Changed, Ends, Answer

LEMMA BeginIs ==
    ASSUME NEW c \in Client, NEW r \in Requests, Ask(c, r)
    PROVE  Put(c, r) /\ req[c].pc = "idle" /\ ended' = ended \ {c}
BY DEF Ask, Put

\* A hash, where a request makes one.
LEMMA MadeIs ==
    ASSUME HashLeft
    PROVE  NewHash \in Hash /\ NewHash \notin HashesInUse
BY HashIsNew

LEMMA SetupBegins ==
    ASSUME TypeOK, NEW c \in Client, SetupBegin(c)
    PROVE  \E r : Put(c, r) /\ Changed(c, r)
<1> DEFINE r == [Idle EXCEPT !.op = "setup", !.pc = "work", !.new = NewHash]
<1>1. NewHash \in Hash /\ NewHash \notin HashesInUse /\ NewHash # None
  BY HashIsNew DEF SetupBegin, ParametersFit
<1>2. r \in Requests /\ r.op = "setup" /\ r.pc = "work" /\ r.new = NewHash /\ r.old = None
  BY <1>1, IdleIs DEF Idle, Requests, Ops, Roles
<1>3. Ask(c, r)
  BY DEF SetupBegin
<1> HIDE DEF r
<1>4. Put(c, r) /\ req[c].pc = "idle" /\ ended' = ended \ {c}
  BY <1>2, <1>3, BeginIs
<1>5. Begins(c, r)
  BY <1>1, <1>2, <1>4 DEF Begins, MakesHash
<1> QED
  BY <1>4, <1>5 DEF Changed

LEMMA LoginBegins ==
    ASSUME TypeOK, NEW c \in Client, NEW u \in User, LoginBegin(c, u)
    PROVE  \E r : Put(c, r) /\ Changed(c, r)
<1> DEFINE r == [Idle EXCEPT !.op = "login", !.pc = "asked", !.user = u]
<1>1. r \in Requests /\ r.op = "login" /\ r.pc = "asked" /\ r.user = u /\ r.new = None /\ r.old = None
  BY IdleIs DEF Idle, Requests, Ops, Roles
<1>2. Ask(c, r) /\ fails[u] < MaxFailures
  BY DEF LoginBegin
<1> HIDE DEF r
<1>3. Put(c, r) /\ req[c].pc = "idle" /\ ended' = ended \ {c}
  BY <1>1, <1>2, BeginIs
<1>4. Begins(c, r)
  BY <1>1, <1>2, <1>3 DEF Begins, MakesHash
<1> QED
  BY <1>3, <1>4 DEF Changed

\* The owner of a valid session is an enabled account.
LEMMA OwnerIs ==
    ASSUME TypeOK, NEW t \in Token \cup {None}, Valid(t)
    PROVE  /\ t \in Token /\ sessions[t] # None /\ Owner(t) \in User /\ Enabled(Owner(t))
           /\ users[Owner(t)] # None /\ users[Owner(t)].hash \in Hash
<1>1. t \in Token /\ sessions[t] # None /\ Enabled(Owner(t))
  BY DEF Valid, Owner
<1>2. sessions[t] \in SessionRows
  BY <1>1 DEF TypeOK
<1>3. Owner(t) \in User
  BY <1>2 DEF Owner, SessionRows
<1>4. users[Owner(t)] \in AccountRows
  BY <1>1, <1>3 DEF TypeOK, Enabled, Exists
<1> QED
  BY <1>1, <1>3, <1>4 DEF Enabled, Exists, AccountRows

LEMMA ChangeBegins ==
    ASSUME TypeOK, NEW c \in Client, ChangeBegin(c)
    PROVE  \E r : Put(c, r) /\ Changed(c, r)
<1> DEFINE t == cookie[c]
           u == Owner(t)
           r == [Idle EXCEPT !.op = "change", !.pc = "work", !.user = u, !.old = users[u].hash,
                             !.new = NewHash, !.token = t]
<1>1. t \in Token \cup {None} /\ Valid(t) /\ HashLeft
  BY DEF ChangeBegin, TypeOK
<1>2. NewHash \in Hash /\ NewHash \notin HashesInUse /\ NewHash # None
  BY <1>1, HashIsNew DEF ParametersFit
<1>3. t \in Token /\ u \in User /\ Enabled(u) /\ users[u].hash \in Hash /\ sessions[t] # None
  BY <1>1, OwnerIs
<1>4. Ask(c, r)
  <2>1. Signed(c, [Idle EXCEPT !.op = "change", !.pc = "work", !.user = u, !.old = users[u].hash,
                               !.new = NewHash])
    BY DEF ChangeBegin
  <2>2. [[Idle EXCEPT !.op = "change", !.pc = "work", !.user = u, !.old = users[u].hash,
                      !.new = NewHash] EXCEPT !.token = cookie[c]] = r
    BY DEF Idle
  <2> QED
    BY <2>1, <2>2 DEF Signed
<1> HIDE DEF u, t
<1>5. /\ r \in Requests /\ r.op = "change" /\ r.pc = "work" /\ r.user = u /\ r.token = t
      /\ r.new = NewHash /\ r.old = users[u].hash
  BY <1>2, <1>3, IdleIs DEF Idle, Requests, Ops, Roles
<1>6. Owner(t) = u
  BY DEF u
<1> HIDE DEF r
<1>7. Put(c, r) /\ req[c].pc = "idle" /\ ended' = ended \ {c}
  BY <1>4, <1>5, BeginIs
<1>8. Begins(c, r)
  BY <1>2, <1>3, <1>5, <1>6, <1>7 DEF Begins, MakesHash
<1> QED
  BY <1>7, <1>8 DEF Changed

\* A form that an administrator filled in.
Filled(i, op, u, role, off, caps, h, t) ==
    [i EXCEPT !.op = op, !.pc = "work", !.user = u, !.role = role, !.off = off, !.caps = caps,
              !.new = h, !.token = t]

LEMMA FilledIs ==
    ASSUME NEW i \in Requests, NEW op \in Ops, NEW u \in User, NEW role \in Roles, NEW off \in BOOLEAN,
           NEW caps \in SUBSET Capability, NEW h \in Hash \cup {None}, NEW t \in Token \cup {None},
           NEW r, r = Filled(i, op, u, role, off, caps, h, t)
    PROVE  r \in Requests /\ r.op = op /\ r.pc = "work" /\ r.user = u /\ r.new = h /\ r.old = i.old
<1>1. r \in Requests
  BY DEF Filled, Requests
<1>2. r.op = op /\ r.pc = "work" /\ r.user = u /\ r.new = h /\ r.old = i.old
  BY DEF Filled, Requests
<1> QED
  BY <1>1, <1>2

LEMMA AdminBegins ==
    ASSUME TypeOK, NEW c \in Client, NEW op \in AdminOps, NEW u \in User,
           NEW role \in Roles, NEW off \in BOOLEAN, NEW caps \in SUBSET Capability,
           AdminBegin(c, op, u, role, off, caps)
    PROVE  \E r : Put(c, r) /\ Changed(c, r)
<1> DEFINE t == cookie[c]
           h == IF op \in {"create", "reset"} THEN NewHash ELSE None
           r == Filled(Idle, op, u, role, off, caps, h, t)
<1>1. t \in Token \cup {None} /\ Valid(t) /\ HashLeft
  BY DEF AdminBegin, Signed, TypeOK
<1>2. /\ h \in Hash \cup {None} /\ (h = None \/ (h \in Hash /\ h \notin HashesInUse))
      /\ op \in {"create", "reset"} => h # None
  BY <1>1, HashIsNew DEF ParametersFit
<1>3. Ask(c, r)
  <2>1. Signed(c, [Idle EXCEPT !.op = op, !.pc = "work", !.user = u, !.role = role, !.off = off,
                               !.caps = caps, !.new = h])
    BY DEF AdminBegin
  <2>2. [[Idle EXCEPT !.op = op, !.pc = "work", !.user = u, !.role = role, !.off = off,
                      !.caps = caps, !.new = h] EXCEPT !.token = cookie[c]] = r
    BY DEF Filled
  <2> QED
    BY <2>1, <2>2 DEF Signed
<1> HIDE DEF h, t
<1>4. r \in Requests /\ r.op = op /\ r.pc = "work" /\ r.user = u /\ r.new = h /\ r.old = None
  <2>1. op \in Ops
    BY DEF AdminOps
  <2>2. Idle \in Requests /\ Idle.old = None
    BY IdleIs
  <2>3. h \in Hash \cup {None} /\ t \in Token \cup {None}
    BY <1>1, <1>2
  <2> QED
    BY <2>1, <2>2, <2>3, FilledIs
<1> HIDE DEF r
<1>5. Put(c, r) /\ req[c].pc = "idle" /\ ended' = ended \ {c}
  BY <1>3, <1>4, BeginIs
<1>6. op # "login" /\ op # "setup"
  BY DEF AdminOps
<1>7. Begins(c, r)
  BY <1>2, <1>4, <1>5, <1>6 DEF Begins, MakesHash
<1> QED
  BY <1>5, <1>7 DEF Changed

LEMMA AuthenticateReads ==
    ASSUME TypeOK, NEW c \in Client, ReqFits(c), Authenticate(c)
    PROVE  \E r : Put(c, r) /\ Changed(c, r)
<1> DEFINE u == req[c].user
           h == IF NeedsUpgrade(users[u].hash) THEN NewHash ELSE None
           r == [req[c] EXCEPT !.pc = "work", !.old = users[u].hash, !.era = users[u].era, !.new = h]
<1>0. req \in [Client -> Requests] /\ req[c] \in Requests
  BY DEF TypeOK
<1>1. At(c, "login", "asked") /\ req[c].op = "login" /\ u \in User
  BY DEF Authenticate, At, ReqFits
<1>2. CASE Step(c, "failed") /\ guesses' = [guesses EXCEPT ![u] = @ + 1]
  <2> DEFINE m == [req[c] EXCEPT !.pc = "failed"]
  <2>1. /\ Put(c, m) /\ m.pc = "failed"
        /\ m.op = req[c].op /\ m.user = req[c].user /\ m.token = req[c].token
        /\ m.old = req[c].old /\ m.new = req[c].new /\ m.era = req[c].era
    BY <1>0, <1>2, StepIs
  <2> HIDE DEF m
  <2>2. Moves(c, m)
    BY <1>1, <1>2, <2>1 DEF Moves, At
  <2> QED
    BY <2>1, <2>2 DEF Changed
<1>3. CASE Enabled(u) /\ HashLeft /\ req' = [req EXCEPT ![c] = r]
  <2>1. users[u] \in AccountRows
    BY <1>1, <1>3 DEF Enabled, Exists, TypeOK
  <2>2. users[u].hash \in Hash /\ users[u].era \in Hash
    BY <2>1 DEF AccountRows
  <2>3. h = None \/ (h \in Hash /\ h \notin HashesInUse)
    BY <1>3, HashIsNew
  <2> HIDE DEF h, u
  <2>4. /\ r \in Requests /\ r.op = req[c].op /\ r.pc = "work" /\ r.user = req[c].user
        /\ r.token = req[c].token /\ r.old = users[u].hash /\ r.era = users[u].era /\ r.new = h
    BY <1>0, <2>2, <2>3 DEF Requests
  <2>5. Put(c, r)
    BY <1>3, <2>4 DEF Put
  <2> HIDE DEF r
  <2>6. u = req[c].user
    BY DEF u
  <2>7. Reads(c, r)
    BY <1>1, <1>3, <2>3, <2>4, <2>6 DEF Reads, MakesHash
  <2> QED
    BY <2>5, <2>7 DEF Changed
<1>4. req' = [req EXCEPT ![c].pc = "work", ![c].old = users[u].hash, ![c].era = users[u].era, ![c].new = h]
        => req' = [req EXCEPT ![c] = r]
  BY <1>0
<1> QED
  BY <1>2, <1>3, <1>4 DEF Authenticate

LEMMA AgainMoves ==
    ASSUME TypeOK, NEW c \in Client, ReqFits(c), AuthenticateAgain(c)
    PROVE  \E r : Put(c, r) /\ Changed(c, r)
<1>0. req \in [Client -> Requests] /\ At(c, "login", "work")
  BY DEF TypeOK, AuthenticateAgain
<1>1. PICK next \in {"upgrade", "checked", "failed"} :
         /\ Step(c, next) /\ (next = "upgrade" => req[c].new # None)
         /\ next = "failed" => guesses' = [guesses EXCEPT ![req[c].user] = @ + 1]
  BY DEF AuthenticateAgain
<1> DEFINE m == [req[c] EXCEPT !.pc = next]
<1>2. /\ Put(c, m) /\ m.pc = next
      /\ m.op = req[c].op /\ m.user = req[c].user /\ m.token = req[c].token
      /\ m.old = req[c].old /\ m.new = req[c].new /\ m.era = req[c].era
  BY <1>0, <1>1, StepIs
<1> HIDE DEF m
<1>3. Moves(c, m)
  BY <1>0, <1>1, <1>2 DEF Moves, At
<1> QED
  BY <1>2, <1>3 DEF Changed

\* The other moves.
LEMMA OtherMoves ==
    ASSUME TypeOK, NEW c \in Client, NEW next, Step(c, next),
           \/ At(c, "setup", "work") /\ next = "commit"
           \/ At(c, "setup", "commit") /\ next = "mark"
           \/ At(c, "login", "checked") /\ next = "commit"
    PROVE  \E r : Put(c, r) /\ Changed(c, r)
<1>0. req \in [Client -> Requests]
  BY DEF TypeOK
<1> DEFINE m == [req[c] EXCEPT !.pc = next]
<1>2. /\ Put(c, m) /\ m.pc = next
      /\ m.op = req[c].op /\ m.user = req[c].user /\ m.token = req[c].token
      /\ m.old = req[c].old /\ m.new = req[c].new /\ m.era = req[c].era
  BY <1>0, StepIs
<1> HIDE DEF m
<1>3. Moves(c, m)
  BY <1>2 DEF Moves, At
<1> QED
  BY <1>2, <1>3 DEF Changed

LEMMA UpgradeIs ==
    ASSUME TypeOK, NEW c \in Client, ReqFits(c), UpgradePasswordHash(c)
    PROVE  \E r : Put(c, r) /\ Changed(c, r)
<1> DEFINE r == [req[c] EXCEPT !.pc = "checked", !.old = req[c].new]
<1>0. req \in [Client -> Requests] /\ req[c] \in Requests
  BY DEF TypeOK
<1>1. At(c, "login", "upgrade") /\ req[c].new \in Hash /\ req[c].op = "login"
  BY DEF UpgradePasswordHash, ReqFits, At
<1>2. req' = [req EXCEPT ![c] = r]
  BY <1>0 DEF UpgradePasswordHash
<1>3. /\ r \in Requests /\ r.op = "login" /\ r.pc = "checked" /\ r.user = req[c].user
      /\ r.token = req[c].token /\ r.old = req[c].new /\ r.new = req[c].new /\ r.era = req[c].era
  BY <1>0, <1>1 DEF Requests
<1> HIDE DEF r
<1>4. Put(c, r) /\ Upgrades(c, r)
  BY <1>2, <1>3 DEF Put, Upgrades
<1> QED
  BY <1>4 DEF Changed

\* The ways a request changes, together.
LEMMA RequestStep ==
    ASSUME TypeOK, \A c \in Client : ReqFits(c), Next
    PROVE  \/ UNCHANGED req
           \/ Restart
           \/ \E c \in Client : \E r : Put(c, r) /\ Changed(c, r)
<1> DEFINE Goal == \E c \in Client : \E r : Put(c, r) /\ Changed(c, r)
<1>0. req \in [Client -> Requests]
  BY DEF TypeOK
<1>2. ASSUME NEW c \in Client, NEW op \in AdminOps, NEW u \in User, NEW role \in Roles,
             NEW off \in BOOLEAN, NEW caps \in SUBSET Capability, AdminBegin(c, op, u, role, off, caps)
      PROVE  Goal
  BY <1>2, AdminBegins
<1>3. ASSUME NEW c \in Client, Answer(c), req[c].op # "none",
             At(c, "login", "failed") => RecordLoginFailure(c) \/ GoneAway(c)
      PROVE  Goal
  BY <1>0, <1>3, AnswerIs
<1>4. ASSUME NEW c \in Client, Rejected(c) \/ CreateUser(c) \/ UpdateAccess(c) \/ DeleteUser(c)
                                 \/ ResetPassword(c) \/ SetUserGrants(c)
      PROVE  Goal
  <2>1. Answer(c) /\ req[c].op \in AdminOps
    BY Zenon, <1>4 DEF Rejected, CreateUser, UpdateAccess, DeleteUser, ResetPassword, SetUserGrants,
                AdminAt, At, AdminOps, Ops
  <2> QED
    BY <1>3, <2>1 DEF AdminOps, Ops, At
<1>5. ASSUME NEW c \in Client, Admin(c)
      PROVE  Goal
  <2>0. /\ {} \in SUBSET Capability /\ FALSE \in BOOLEAN /\ "viewer" \in Roles
        /\ "create" \in AdminOps /\ "delete" \in AdminOps /\ "reset" \in AdminOps
    BY DEF AdminOps, Ops, Roles
  <2>1. CASE \E u \in User, role \in Roles : AdminBegin(c, "create", u, role, FALSE, {})
    BY Zenon, <1>2, <2>1, <2>0
  <2>2. CASE \E u \in User, role \in Roles, off \in BOOLEAN : AdminBegin(c, "access", u, role, off, {})
    BY <1>2, <2>2 DEF AdminOps, Ops
  <2>3. CASE \E u \in User, op \in {"delete", "reset"} : AdminBegin(c, op, u, "viewer", FALSE, {})
    BY Zenon, <1>2, <2>3, <2>0
  <2>4. CASE \E u \in User, caps \in SUBSET Capability : AdminBegin(c, "grants", u, "viewer", FALSE, caps)
    BY <1>2, <2>4 DEF AdminOps, Ops, Roles
  <2> QED
    BY Zenon, <1>4, <1>5, <2>1, <2>2, <2>3, <2>4 DEF Admin
<1>6. ASSUME NEW c \in Client, SignIn(c)
      PROVE  Goal
  <2>1. CASE \E u \in User : LoginBegin(c, u)
    BY <2>1, LoginBegins
  <2>2. CASE LoginBusy(c)
    BY <1>3, <2>2 DEF LoginBusy, At
  <2>3. CASE Authenticate(c)
    BY <2>3, AuthenticateReads
  <2>4. CASE AuthenticateAgain(c)
    BY <2>4, AgainMoves
  <2>5. CASE UpgradePasswordHash(c)
    BY <2>5, UpgradeIs
  <2>6. CASE ClearLoginThrottle(c)
    BY <2>6, OtherMoves DEF ClearLoginThrottle
  <2>7. CASE CreateSession(c)
    BY <1>3, <2>7 DEF CreateSession, At
  <2>8. CASE RecordLoginFailure(c)
    BY <1>3, <2>8 DEF RecordLoginFailure, At
  <2> QED
    BY Zenon, <1>6, <2>1, <2>2, <2>3, <2>4, <2>5, <2>6, <2>7, <2>8 DEF SignIn
<1>7. ASSUME NEW c \in Client,
             SetupBegin(c) \/ SetupCheck(c) \/ SetupCommit(c) \/ SetupMark(c)
      PROVE  Goal
  <2>1. CASE SetupBegin(c)
    BY <2>1, SetupBegins
  <2>2. CASE SetupCheck(c)
    BY <1>3, <2>2, OtherMoves DEF SetupCheck, At
  <2>3. CASE SetupCommit(c)
    BY <1>3, <2>3, OtherMoves DEF SetupCommit, At
  <2>4. CASE SetupMark(c)
    BY <1>3, <2>4 DEF SetupMark, At
  <2> QED
    BY <1>7, <2>1, <2>2, <2>3, <2>4
<1>8. ASSUME NEW c \in Client, AccountPage(c)
      PROVE  UNCHANGED req \/ Goal
  <2>1. CASE \E t \in Token : RevokeSession(c, t)
    BY <2>1 DEF RevokeSession
  <2>2. CASE ChangeBegin(c)
    BY <2>2, ChangeBegins
  <2>3. CASE ChangePassword(c)
    BY <1>3, <2>3 DEF ChangePassword, At
  <2> QED
    BY Zenon, <1>8, <2>1, <2>2, <2>3 DEF AccountPage
<1>9. ASSUME NEW c \in Client, GoneAway(c)
      PROVE  Goal
  BY <1>3, <1>9 DEF GoneAway, ReqFits
<1>10. ASSUME NEW c \in Client, FindSessionUser(c) \/ Logout(c)
       PROVE  UNCHANGED req
  BY <1>10 DEF FindSessionUser, Logout
<1>11. SetupExpires => UNCHANGED req
  BY DEF SetupExpires
<1>12. ASSUME NEW u \in User, WindowEnds(u) \/ RecoverPassword(u)
       PROVE  UNCHANGED req
  BY <1>12 DEF WindowEnds, RecoverPassword
<1>13. ASSUME NEW t \in Token, Expire(t)
       PROVE  UNCHANGED req
  BY <1>13 DEF Expire
<1> HIDE DEF Goal
<1> QED
  BY Zenon, <1>5, <1>6, <1>7, <1>8, <1>9, <1>10, <1>11, <1>12, <1>13 DEF Next, Goal

-----------------------------------------------------------------------------
(* The requests' part.                                                     *)

LEMMA IdleFits ==
    ASSUME NEW c \in Client, req'[c] = Idle
    PROVE  ReqFits(c)'
BY IdleIs DEF ReqFits, Verified, At, AdminOps, Ops

LEMMA ChangedFits ==
    ASSUME TypeOK, NEW c \in Client, ReqFits(c), NEW r, Put(c, r), Changed(c, r)
    PROVE  ReqFits(c)'
<1>1. req'[c] = r /\ r \in Requests /\ req[c] \in Requests
  BY PutIs DEF TypeOK
<1>2. /\ r.op \in Ops \cup {"none"} /\ r.old \in Hash \cup {None} /\ r.new \in Hash \cup {None}
      /\ req[c].new \in Hash \cup {None}
  BY <1>1 DEF Requests
<1>3. CASE Begins(c, r)
  <2>1. r.op = "change" => r.old \in Hash
    <3>1. ASSUME r.op = "change"
          PROVE  r.user \in User /\ Enabled(r.user) /\ r.old = users[r.user].hash
      BY <1>3, <3>1 DEF Begins, AdminOps
    <3>2. ASSUME r.op = "change"
          PROVE  users[r.user] \in AccountRows
      BY <3>1, <3>2 DEF Enabled, Exists, TypeOK
    <3>3. ASSUME r.op = "change"
          PROVE  users[r.user].hash \in Hash
      BY <3>2, <3>3 DEF AccountRows
    <3> QED
      BY <3>1, <3>3
  <2> QED
    BY <1>1, <1>2, <1>3, <2>1 DEF Begins, ReqFits, Verified, At, AdminOps, Ops
<1>4. CASE Reads(c, r)
  <2>1. req[c].user \in User /\ users[req[c].user] # None
    BY <1>4 DEF Reads, ReqFits, At, Enabled, Exists
  <2>2. users[req[c].user] \in AccountRows
    BY <2>1 DEF TypeOK
  <2>3. users[req[c].user].hash \in Hash
    BY <2>2 DEF AccountRows
  <2> QED
    BY <1>1, <1>2, <1>4, <2>1, <2>3 DEF Reads, ReqFits, Verified, At, AdminOps, Ops
<1>5. CASE Moves(c, r)
  BY <1>1, <1>2, <1>5 DEF Moves, ReqFits, Verified, At, AdminOps, Ops
<1>6. CASE Upgrades(c, r)
  <2>1. At(c, "login", "upgrade")
    BY <1>6 DEF Upgrades, UpgradePasswordHash
  <2> QED
    BY <1>1, <1>2, <1>6, <2>1 DEF Upgrades, ReqFits, Verified, At, AdminOps, Ops
<1>7. CASE Ends(c, r)
  BY <1>1, <1>7, IdleFits DEF Ends
<1> QED
  BY <1>3, <1>4, <1>5, <1>6, <1>7 DEF Changed

LEMMA RequestsFit ==
    ASSUME TypeOK, \A c \in Client : ReqFits(c), Next
    PROVE  req' \in [Client -> Requests] /\ \A c \in Client : ReqFits(c)'
<1>0. req \in [Client -> Requests]
  BY DEF TypeOK
<1>1. CASE UNCHANGED req
  BY <1>0, <1>1 DEF ReqFits, Verified, At
<1>2. CASE Restart
  BY <1>2, IdleIs, IdleFits DEF Restart
<1>3. ASSUME NEW c \in Client, NEW r, Put(c, r), Changed(c, r)
      PROVE  req' \in [Client -> Requests] /\ \A d \in Client : ReqFits(d)'
  <2>1. req' \in [Client -> Requests] /\ \A d \in Client \ {c} : req'[d] = req[d]
    BY <1>0, <1>3, PutIs
  <2>2. ReqFits(c)'
    BY <1>3, ChangedFits
  <2>3. ASSUME NEW d \in Client \ {c}
        PROVE  ReqFits(d)'
    BY <2>1, <2>3 DEF ReqFits, Verified, At
  <2> QED
    BY <2>1, <2>2, <2>3
<1> QED
  BY <1>1, <1>2, <1>3, RequestStep

-----------------------------------------------------------------------------
(* The accounts and their sessions.                                        *)

Whole ==
    /\ users \in [User -> {None} \cup AccountRows]
    /\ sessions \in [Token -> {None} \cup SessionRows]
    /\ made \in Nat /\ made <= 1 /\ (made = 1 => Admins # {})
    /\ \A t \in Token : SessionFits(t)

\* The steps that write accounts or sessions.
Writes(c) ==
    \/ SetupCommit(c) \/ UpgradePasswordHash(c) \/ CreateSession(c) \/ FindSessionUser(c)
    \/ Logout(c) \/ (\E t \in Token : RevokeSession(c, t)) \/ ChangePassword(c)
    \/ CreateUser(c) \/ UpdateAccess(c) \/ DeleteUser(c) \/ ResetPassword(c)

LEMMA WritersAre ==
    ASSUME Next
    PROVE  \/ UNCHANGED <<users, sessions, made>>
           \/ \E c \in Client : Writes(c)
           \/ \E u \in User : RecoverPassword(u)
           \/ \E t \in Token : Expire(t)
<1>1. ASSUME NEW c \in Client,
             SetupBegin(c) \/ SetupCheck(c) \/ SetupMark(c) \/ LoginBusy(c) \/ Authenticate(c)
               \/ AuthenticateAgain(c) \/ ClearLoginThrottle(c) \/ RecordLoginFailure(c)
               \/ ChangeBegin(c) \/ Rejected(c) \/ SetUserGrants(c) \/ GoneAway(c)
               \/ (\E u \in User : LoginBegin(c, u))
      PROVE  UNCHANGED <<users, sessions, made>>
  BY Zenon, <1>1 DEF SetupBegin, SetupCheck, SetupMark, LoginBusy, Authenticate, AuthenticateAgain,
              ClearLoginThrottle, RecordLoginFailure, ChangeBegin, Rejected, SetUserGrants,
              GoneAway, LoginBegin, dbVars, history
<1>2. ASSUME NEW c \in Client, NEW op, NEW u, NEW role, NEW off, NEW caps,
             AdminBegin(c, op, u, role, off, caps)
      PROVE  UNCHANGED <<users, sessions, made>>
  BY <1>2 DEF AdminBegin, dbVars
<1>3. ASSUME NEW c \in Client, Admin(c)
      PROVE  UNCHANGED <<users, sessions, made>> \/ Writes(c)
  BY Zenon, <1>1, <1>2, <1>3 DEF Admin, Writes
<1>4. ASSUME NEW c \in Client, SignIn(c) \/ AccountPage(c)
      PROVE  UNCHANGED <<users, sessions, made>> \/ Writes(c)
  BY Zenon, <1>1, <1>4 DEF SignIn, AccountPage, Writes
<1>5. SetupExpires \/ Restart => UNCHANGED <<users, sessions, made>>
  BY DEF SetupExpires, Restart, dbVars, history
<1>6. ASSUME NEW u \in User, WindowEnds(u)
      PROVE  UNCHANGED <<users, sessions, made>>
  BY <1>6 DEF WindowEnds
<1>7. ASSUME NEW c \in Client,
             SetupCommit(c) \/ FindSessionUser(c) \/ Logout(c)
      PROVE  Writes(c)
  BY Zenon, <1>7 DEF Writes
<1> QED
  BY Zenon, <1>1, <1>3, <1>4, <1>5, <1>6, <1>7 DEF Next

\* A session that stays, of an account that stays, fits.
LEMMA StaysFit ==
    ASSUME Whole, NEW t \in Token, sessions[t] # None, sessions'[t] = sessions[t],
           users'[Owner(t)] = users[Owner(t)]
    PROVE  SessionFits(t)'
BY DEF Whole, SessionFits, Owner, Enabled, Exists

WithPassword(u, h, e) == [users EXCEPT ![u].hash = h, ![u].era = e]

\* A new password changes nothing else of the account.
LEMMA PasswordIs ==
    ASSUME Whole, NEW u \in User, Exists(u), NEW h \in Hash,
           NEW e \in Hash, users' = WithPassword(u, h, e)
    PROVE  /\ users' \in [User -> {None} \cup AccountRows]
           /\ \A v \in User \ {u} : users'[v] = users[v]
           /\ users'[u] # None /\ users'[u].hash = h /\ users'[u].era = e
           /\ Enabled(u)' <=> Enabled(u)
           /\ Admins' = Admins
<1>1. users[u] \in AccountRows /\ users \in [User -> {None} \cup AccountRows]
  BY DEF Whole, Exists
<1>2. users'[u] = [users[u] EXCEPT !.hash = h, !.era = e] /\ users'[u] \in AccountRows
  BY <1>1 DEF AccountRows, WithPassword
<1>3. /\ users'[u].hash = h /\ users'[u].era = e /\ users'[u].role = users[u].role
      /\ users'[u].disabled = users[u].disabled
  BY <1>1, <1>2 DEF AccountRows
<1>4. \A v \in User \ {u} : users'[v] = users[v]
  BY <1>1 DEF WithPassword
<1>5. users' \in [User -> {None} \cup AccountRows]
  BY <1>1, <1>2 DEF WithPassword
<1>6. users'[u] # None
  BY <1>2 DEF ParametersFit
<1>7. Enabled(u)' <=> Enabled(u)
  BY <1>3, <1>6 DEF Enabled, Exists
<1>8. ASSUME NEW v \in User
      PROVE  v \in Admins' <=> v \in Admins
  <2>1. CASE v = u
    BY <1>3, <1>6, <2>1 DEF Admins, Enabled, Exists
  <2>2. CASE v # u
    BY <1>4, <2>2 DEF Admins, Enabled, Exists
  <2> QED
    BY <2>1, <2>2
<1>9. Admins' = Admins
  BY <1>8 DEF Admins
<1> QED
  BY <1>3, <1>4, <1>5, <1>6, <1>7, <1>9

-----------------------------------------------------------------------------
(* Each step that writes accounts or sessions keeps them whole.            *)

LEMMA SetupWhole ==
    ASSUME Whole, NEW c \in Client, ReqFits(c), SetupCommit(c)
    PROVE  Whole'
<1>1. CASE ~CreatesFirst
  BY <1>1 DEF SetupCommit, Whole, SessionFits, Admins, Enabled, Exists, Owner
<1>2. CASE CreatesFirst
  <2> DEFINE h == req[c].new
             t == NewToken
  <2>1. h \in Hash /\ t \in Token
    BY TokenIsNew DEF SetupCommit, ReqFits, At
  <2>2. PICK u \in User :
           /\ users' = [users EXCEPT ![u] = Account("admin", h)]
           /\ sessions' = [sessions EXCEPT ![t] = [user |-> u, era |-> h, expired |-> FALSE]]
           /\ made' = made + 1
    BY <1>2 DEF SetupCommit
  <2> HIDE DEF h, t
  <2>3. \A v \in User : users[v] = None
    BY <1>2 DEF CreatesFirst, SetupRequired, Exists
  <2>4. /\ Account("admin", h) \in AccountRows /\ Account("admin", h).role = "admin"
        /\ Account("admin", h).disabled = FALSE /\ Account("admin", h).era = h
    BY <2>1 DEF Account, AccountRows, Roles
  <2>5. users' \in [User -> {None} \cup AccountRows] /\ users'[u] = Account("admin", h)
    BY <2>2, <2>4 DEF Whole
  <2>6. users'[u] # None
    BY <2>4, <2>5 DEF ParametersFit
  <2>7. [user |-> u, era |-> h, expired |-> FALSE] \in SessionRows
    BY <2>1 DEF SessionRows
  <2>8. sessions' \in [Token -> {None} \cup SessionRows]
    BY <2>2, <2>7 DEF Whole
  <2>9. made = 0
    <3>1. Admins = {}
      BY <2>3 DEF Admins, Enabled, Exists
    <3> QED
      BY <3>1 DEF Whole
  <2>10. u \in Admins'
    BY <2>4, <2>5, <2>6 DEF Admins, Enabled, Exists
  <2>11. ASSUME NEW x \in Token
         PROVE  SessionFits(x)'
    <3>1. CASE x = t
      <4>1. sessions'[x].user = u /\ sessions'[x].era = h
        BY <2>1, <2>2, <3>1 DEF Whole
      <4> QED
        BY <2>4, <2>5, <2>6, <4>1 DEF SessionFits, Owner, Enabled, Exists
    <3>2. CASE x # t
      <4>1. sessions'[x] = sessions[x]
        BY <2>2, <3>2 DEF Whole
      <4>2. sessions[x] # None => sessions[x] \in SessionRows
        BY DEF Whole
      <4>3. sessions[x] # None => Owner(x) \in User
        BY <4>2 DEF SessionRows, Owner
      <4>4. sessions[x] = None
        BY <2>3, <4>3 DEF Whole, SessionFits, Enabled, Exists
      <4> QED
        BY <4>1, <4>4 DEF SessionFits
    <3> QED
      BY <3>1, <3>2
  <2> QED
    BY <2>2, <2>5, <2>8, <2>9, <2>10, <2>11 DEF Whole
<1> QED
  BY <1>1, <1>2

LEMMA UpgradeWhole ==
    ASSUME Whole, NEW c \in Client, ReqFits(c), UpgradePasswordHash(c)
    PROVE  Whole'
<1>0. req[c].user \in User /\ req[c].new \in Hash /\ UNCHANGED <<sessions, made>>
  BY DEF UpgradePasswordHash, ReqFits, At, history
<1>1. PICK u \in User, h \in Hash : u = req[c].user /\ h = req[c].new
  BY <1>0
<1>2. CASE ~Unchanged(c)
  <2>1. UNCHANGED users
    BY <1>2 DEF UpgradePasswordHash
  <2> QED
    BY <1>0, <2>1 DEF Whole, SessionFits, Admins, Enabled, Exists, Owner
<1>3. CASE Unchanged(c)
  <2>1. users' = [users EXCEPT ![u].hash = h] /\ Enabled(u) /\ Exists(u)
    BY <1>1, <1>3 DEF UpgradePasswordHash, Unchanged, Enabled
  <2>2. users[u] \in AccountRows
    BY <1>1, <2>1 DEF Whole, Exists
  <2>3. PICK e \in Hash : e = users[u].era
    BY <2>2 DEF AccountRows
  <2>4. [users[u] EXCEPT !.hash = h] = [users[u] EXCEPT !.hash = h, !.era = e]
    BY <2>2, <2>3 DEF AccountRows
  <2>5. users' = WithPassword(u, h, e)
    BY <1>1, <2>1, <2>4 DEF Whole, WithPassword
  <2>6. /\ users' \in [User -> {None} \cup AccountRows] /\ \A v \in User \ {u} : users'[v] = users[v]
        /\ users'[u] # None /\ users'[u].era = e /\ (Enabled(u)' <=> Enabled(u)) /\ Admins' = Admins
    BY <2>1, <2>5, PasswordIs
  <2>8. ASSUME NEW t \in Token, sessions[t] # None
        PROVE  SessionFits(t)'
    <3>1. sessions[t] \in SessionRows
      BY <2>8 DEF Whole
    <3>2. Owner(t) \in User
      BY <3>1 DEF SessionRows, Owner
    <3>3. CASE Owner(t) = u
      <4>1. sessions[t].era = e
        BY <2>3, <2>8, <3>3 DEF Whole, SessionFits
      <4>2. Enabled(u)'
        BY <2>1, <2>6
      <4> QED
        BY <1>0, <2>6, <3>3, <4>1, <4>2 DEF SessionFits, Owner, Enabled, Exists
    <3>4. CASE Owner(t) # u
      BY <1>0, <2>6, <2>8, <3>2, <3>4, StaysFit
    <3> QED
      BY <3>3, <3>4
  <2>9. \A t \in Token : SessionFits(t)'
    BY <1>0, <2>8 DEF SessionFits
  <2> QED
    BY <1>0, <2>6, <2>9 DEF Whole
<1> QED
  BY <1>2, <1>3

\* Sessions that end leave the others whole.
LEMMA EndWhole ==
    ASSUME Whole, NEW gone, UNCHANGED <<users, made>>, End(gone)
    PROVE  Whole'
<1>1. sessions' = [t \in Token |-> IF t \in gone THEN None ELSE sessions[t]]
  BY DEF End
<1>2. sessions' \in [Token -> {None} \cup SessionRows]
  BY <1>1 DEF Whole
<1>3. ASSUME NEW t \in Token
      PROVE  SessionFits(t)'
  BY <1>1 DEF Whole, SessionFits, Owner, Enabled, Exists
<1> QED
  BY <1>2, <1>3 DEF Whole, Admins, Enabled, Exists

LEMMA CreateWhole ==
    ASSUME Whole, NEW c \in Client, ReqFits(c), EraFits(c), CreateSession(c)
    PROVE  Whole'
<1>0. UNCHANGED <<users, made>>
  BY DEF CreateSession, history
<1>1. CASE ~Inserts(c)
  <2>1. UNCHANGED sessions
    BY <1>1 DEF CreateSession
  <2> QED
    BY <1>0, <2>1 DEF Whole, SessionFits, Admins, Enabled, Exists, Owner
<1>2. CASE Inserts(c)
  <2> DEFINE u == req[c].user
             e == req[c].era
             t == NewToken
             s == [user |-> u, era |-> e, expired |-> FALSE]
  <2>1. u \in User /\ t \in Token /\ Enabled(u) /\ Exists(u) /\ users[u].hash = req[c].old /\ Verified(c)
    BY <1>2, TokenIsNew DEF CreateSession, ReqFits, At, Inserts, Unchanged, Enabled, Verified
  <2>2. users[u].era = e
    BY <2>1 DEF EraFits
  <2>3. users[u] \in AccountRows
    BY <2>1 DEF Whole, Exists
  <2>4. e \in Hash
    BY <2>2, <2>3 DEF AccountRows
  <2>5. s \in SessionRows /\ s.user = u /\ s.era = e
    BY <2>1, <2>4 DEF SessionRows
  <2>6. sessions' = [x \in Token |->
                       IF x = t THEN s
                       ELSE IF sessions[x] # None /\ sessions[x].expired THEN None ELSE sessions[x]]
    BY <1>2 DEF CreateSession
  <2> HIDE DEF s
  <2>7. sessions' \in [Token -> {None} \cup SessionRows]
    BY <2>5, <2>6 DEF Whole
  <2>8. ASSUME NEW x \in Token
        PROVE  SessionFits(x)'
    <3>1. CASE x = t
      BY <1>0, <2>1, <2>2, <2>5, <2>6, <3>1 DEF SessionFits, Owner, Enabled, Exists
    <3>2. CASE x # t
      BY <1>0, <2>6, <3>2 DEF Whole, SessionFits, Owner, Enabled, Exists
    <3> QED
      BY <3>1, <3>2
  <2> QED
    BY <1>0, <2>7, <2>8 DEF Whole, Admins, Enabled, Exists
<1> QED
  BY <1>1, <1>2

\* A password that is set ends the account's sessions.
LEMMA SetWhole ==
    ASSUME Whole, NEW u \in User, Exists(u), NEW h \in Hash,
           SetPassword(u, h), UNCHANGED made
    PROVE  Whole'
<1>1. /\ users' \in [User -> {None} \cup AccountRows] /\ \A v \in User \ {u} : users'[v] = users[v]
      /\ Admins' = Admins
  BY PasswordIs DEF SetPassword, WithPassword
<1>2. sessions' = [t \in Token |-> IF t \in Of(u) THEN None ELSE sessions[t]]
  BY DEF SetPassword, End
<1>3. sessions' \in [Token -> {None} \cup SessionRows]
  BY <1>2 DEF Whole
<1>4. ASSUME NEW t \in Token, sessions'[t] # None
      PROVE  SessionFits(t)'
  <2>1. sessions'[t] = sessions[t] /\ sessions[t] # None /\ Owner(t) # u
    BY <1>2, <1>4 DEF Of, Owner
  <2>2. sessions[t] \in SessionRows
    BY <2>1 DEF Whole
  <2>3. Owner(t) \in User
    BY <2>2 DEF SessionRows, Owner
  <2> QED
    BY <1>1, <2>1, <2>3, StaysFit
<1>5. \A t \in Token : SessionFits(t)'
  BY <1>4 DEF SessionFits
<1> QED
  BY <1>1, <1>3, <1>5 DEF Whole

LEMMA ChangeWhole ==
    ASSUME Whole, NEW c \in Client, ReqFits(c), EndedFits(c),
           req[c] \in Requests, ChangePassword(c)
    PROVE  Whole'
<1>0. UNCHANGED made /\ req[c].user \in User /\ req[c].new \in Hash
  BY DEF ChangePassword, ReqFits, At
<1>1. PICK u \in User, h \in Hash : u = req[c].user /\ h = req[c].new
  BY <1>0
<1>2. CASE ~Changes(c)
  <2>1. UNCHANGED <<users, sessions>>
    BY <1>2 DEF ChangePassword
  <2> QED
    BY <1>0, <2>1 DEF Whole, SessionFits, Admins, Enabled, Exists, Owner
<1>3. CASE Changes(c)
  <2> DEFINE t == NewToken
             s == [user |-> u, era |-> h, expired |-> FALSE]
  <2>1. Exists(u) /\ Enabled(u)
    <3>1. req[c].token # None /\ sessions[req[c].token] # None /\ Enabled(Owner(req[c].token))
      BY <1>3 DEF Changes, Valid, Owner
    <3>2. Owner(req[c].token) = u
      BY <1>1, <3>1 DEF EndedFits, ChangePassword, At
    <3> QED
      BY <3>1, <3>2 DEF Enabled
  <2>2. t \in Token
    BY TokenIsNew DEF ChangePassword
  <2>3. s \in SessionRows /\ s.user = u /\ s.era = h
    BY DEF SessionRows
  <2>4. /\ users' = WithPassword(u, h, h)
        /\ sessions' = [x \in Token |-> IF x = t THEN s ELSE IF x \in Of(u) THEN None ELSE sessions[x]]
    BY <1>1, <1>3 DEF ChangePassword, WithPassword
  <2> HIDE DEF s, t
  <2>5. /\ users' \in [User -> {None} \cup AccountRows] /\ \A v \in User \ {u} : users'[v] = users[v]
        /\ users'[u] # None /\ users'[u].era = h /\ (Enabled(u)' <=> Enabled(u)) /\ Admins' = Admins
    BY <2>1, <2>4, PasswordIs
  <2>6. sessions' \in [Token -> {None} \cup SessionRows]
    BY <2>3, <2>4 DEF Whole
  <2>7. ASSUME NEW x \in Token, sessions'[x] # None
        PROVE  SessionFits(x)'
    <3>1. CASE x = t
      <4>1. sessions'[x] = s
        BY <2>4, <3>1
      <4>2. Enabled(u)'
        BY <2>1, <2>5
      <4> QED
        BY <2>3, <2>5, <4>1, <4>2 DEF SessionFits, Owner, Enabled, Exists
    <3>2. CASE x # t
      <4>1. sessions'[x] = sessions[x] /\ sessions[x] # None /\ Owner(x) # u
        BY <2>4, <2>7, <3>2 DEF Of, Owner
      <4>2. sessions[x] \in SessionRows
        BY <4>1 DEF Whole
      <4>3. Owner(x) \in User
        BY <4>2 DEF SessionRows, Owner
      <4> QED
        BY <2>5, <4>1, <4>3, StaysFit
    <3> QED
      BY <3>1, <3>2
  <2>8. \A x \in Token : SessionFits(x)'
    BY <2>7 DEF SessionFits
  <2> QED
    BY <1>0, <2>5, <2>6, <2>8 DEF Whole
<1> QED
  BY <1>2, <1>3

LEMMA CreateUserWhole ==
    ASSUME Whole, NEW c \in Client, ReqFits(c), req[c] \in Requests, CreateUser(c)
    PROVE  Whole'
<1>0. UNCHANGED <<sessions, made>> /\ req[c].user \in User /\ req[c].new \in Hash
  BY DEF CreateUser, AdminAt, ReqFits, At
<1>1. PICK u \in User, h \in Hash : u = req[c].user /\ h = req[c].new
  BY <1>0
<1>2. CASE Exists(u)
  <2>1. UNCHANGED users
    BY <1>1, <1>2 DEF CreateUser
  <2> QED
    BY <1>0, <2>1 DEF Whole, SessionFits, Admins, Enabled, Exists, Owner
<1>3. CASE ~Exists(u)
  <2> DEFINE a == Account(req[c].role, h)
  <2>1. users' = [users EXCEPT ![u] = a]
    BY <1>1, <1>3 DEF CreateUser
  <2>2. req[c].role \in Roles
    BY DEF Requests
  <2>3. a \in AccountRows
    BY <2>2 DEF Account, AccountRows
  <2> HIDE DEF a
  <2>4. /\ users' \in [User -> {None} \cup AccountRows] /\ \A v \in User \ {u} : users'[v] = users[v]
    BY <2>1, <2>3 DEF Whole
  <2>5. Admins \subseteq Admins'
    BY <1>3, <2>4 DEF Admins, Enabled, Exists
  <2>6. ASSUME NEW t \in Token, sessions[t] # None
        PROVE  SessionFits(t)'
    <3>1. sessions[t] \in SessionRows
      BY <2>6 DEF Whole
    <3>2. Owner(t) \in User
      BY <3>1 DEF SessionRows, Owner
    <3>3. Owner(t) # u
      BY <1>3, <2>6 DEF Whole, SessionFits, Enabled
    <3> QED
      BY <1>0, <2>4, <2>6, <3>2, <3>3, StaysFit
  <2>7. \A t \in Token : SessionFits(t)'
    BY <1>0, <2>6 DEF SessionFits
  <2> QED
    BY <1>0, <2>4, <2>5, <2>7 DEF Whole
<1> QED
  BY <1>2, <1>3

\* Other administrators remain, if the change does not remove the last one.
LEMMA OthersRemain ==
    ASSUME Whole, NEW u \in User, NEW role, NEW off,
           \A v \in User \ {u} : users'[v] = users[v], ~RemovesLastAdmin(u, role, off),
           role = "admin" /\ ~off => u \in Admins', Admins # {}
    PROVE  Admins' # {}
<1>1. \A v \in User \ {u} : v \in Admins <=> v \in Admins'
  BY DEF Admins, Enabled, Exists
<1>2. CASE u \notin Admins
  BY <1>1, <1>2 DEF Admins
<1>3. CASE u \in Admins /\ role = "admin" /\ ~off
  BY <1>3
<1>4. CASE Admins = {u} /\ ~(role = "admin" /\ ~off)
  <2>1. Cardinality(Admins) = 1
    BY <1>4, FS_Singleton
  <2> QED
    BY <1>4, <2>1 DEF RemovesLastAdmin
<1>5. CASE u \in Admins /\ Admins # {u}
  <2>1. PICK v \in Admins : v # u
    BY <1>5
  <2> QED
    BY <1>1, <2>1 DEF Admins
<1> QED
  BY <1>2, <1>3, <1>4, <1>5

LEMMA AccessWhole ==
    ASSUME Whole, NEW c \in Client, ReqFits(c), req[c] \in Requests, UpdateAccess(c)
    PROVE  Whole'
<1>0. UNCHANGED made /\ req[c].user \in User /\ req[c].role \in Roles /\ req[c].off \in BOOLEAN
  BY DEF UpdateAccess, AdminAt, ReqFits, At, Requests, AdminOps, Ops
<1>1. PICK u \in User, role \in Roles, off \in BOOLEAN :
         u = req[c].user /\ role = req[c].role /\ (off <=> req[c].off)
  BY <1>0
<1>2. CASE ~(Exists(u) /\ ~RemovesLastAdmin(u, role, off))
  <2>1. UNCHANGED <<users, sessions>>
    BY <1>1, <1>2 DEF UpdateAccess, RemovesLastAdmin
  <2> QED
    BY <1>0, <2>1 DEF Whole, SessionFits, Admins, Enabled, Exists, Owner
<1>3. CASE Exists(u) /\ ~RemovesLastAdmin(u, role, off)
  <2> DEFINE a == [users[u] EXCEPT !.role = role, !.disabled = off]
  <2>1. users[u] \in AccountRows
    BY <1>3 DEF Whole, Exists
  <2>2. a \in AccountRows /\ a.role = role /\ (a.disabled <=> off) /\ a.era = users[u].era
    BY <2>1 DEF AccountRows
  <2>3. /\ users' = [users EXCEPT ![u] = a]
        /\ IF off THEN End(Of(u)) ELSE UNCHANGED sessions
    BY <1>1, <1>3, <2>1 DEF UpdateAccess, RemovesLastAdmin, Whole
  <2> HIDE DEF a
  <2>4. /\ users' \in [User -> {None} \cup AccountRows] /\ \A v \in User \ {u} : users'[v] = users[v]
        /\ users'[u] = a /\ a # None
    BY <2>2, <2>3 DEF Whole, ParametersFit
  <2>5. ~off => (Enabled(u)' /\ (role = "admin" => u \in Admins'))
    BY <2>2, <2>4 DEF Enabled, Exists, Admins
  <2>6. Admins # {} => Admins' # {}
    BY <1>3, <2>4, <2>5, OthersRemain
  <2>7. sessions' \in [Token -> {None} \cup SessionRows]
    BY <2>3 DEF End, Whole
  <2>8. ASSUME NEW t \in Token, sessions'[t] # None
        PROVE  SessionFits(t)'
    <3>1. sessions'[t] = sessions[t] /\ sessions[t] # None /\ (off => Owner(t) # u)
      BY <2>3, <2>8 DEF End, Of, Owner
    <3>2. sessions[t] \in SessionRows
      BY <3>1 DEF Whole
    <3>3. Owner(t) \in User
      BY <3>2 DEF SessionRows, Owner
    <3>4. CASE Owner(t) # u
      BY <2>4, <3>1, <3>3, <3>4, StaysFit
    <3>5. CASE Owner(t) = u
      <4>1. Enabled(u)' /\ sessions[t].era = users'[u].era
        BY <2>2, <2>4, <2>5, <3>1, <3>5 DEF Whole, SessionFits
      <4> QED
        BY <3>1, <3>5, <4>1 DEF SessionFits, Owner, Enabled, Exists
    <3> QED
      BY <3>4, <3>5
  <2>9. \A t \in Token : SessionFits(t)'
    BY <2>8 DEF SessionFits
  <2> QED
    BY <1>0, <2>4, <2>6, <2>7, <2>9 DEF Whole
<1> QED
  BY <1>2, <1>3

LEMMA DeleteWhole ==
    ASSUME Whole, NEW c \in Client, ReqFits(c), DeleteUser(c)
    PROVE  Whole'
<1>0. UNCHANGED made /\ req[c].user \in User
  BY DEF DeleteUser, AdminAt, ReqFits, At, AdminOps, Ops
<1>1. PICK u \in User : u = req[c].user
  BY <1>0
<1>2. CASE ~(Exists(u) /\ ~RemovesLastAdmin(u, "viewer", TRUE))
  <2>1. UNCHANGED <<users, sessions>>
    BY <1>1, <1>2 DEF DeleteUser
  <2> QED
    BY <1>0, <2>1 DEF Whole, SessionFits, Admins, Enabled, Exists, Owner
<1>3. CASE Exists(u) /\ ~RemovesLastAdmin(u, "viewer", TRUE)
  <2>1. users' = [users EXCEPT ![u] = None] /\ End(Of(u))
    BY <1>1, <1>3 DEF DeleteUser
  <2>2. users' \in [User -> {None} \cup AccountRows] /\ \A v \in User \ {u} : users'[v] = users[v]
    BY <2>1 DEF Whole
  <2>3. Admins # {} => Admins' # {}
    BY <1>3, <2>2, OthersRemain
  <2>4. sessions' \in [Token -> {None} \cup SessionRows]
    BY <2>1 DEF End, Whole
  <2>5. ASSUME NEW t \in Token, sessions'[t] # None
        PROVE  SessionFits(t)'
    <3>1. sessions'[t] = sessions[t] /\ sessions[t] # None /\ Owner(t) # u
      BY <2>1, <2>5 DEF End, Of, Owner
    <3>2. sessions[t] \in SessionRows
      BY <3>1 DEF Whole
    <3>3. Owner(t) \in User
      BY <3>2 DEF SessionRows, Owner
    <3> QED
      BY <2>2, <3>1, <3>3, StaysFit
  <2>6. \A t \in Token : SessionFits(t)'
    BY <2>5 DEF SessionFits
  <2> QED
    BY <1>0, <2>2, <2>3, <2>4, <2>6 DEF Whole
<1> QED
  BY <1>2, <1>3

LEMMA ResetWhole ==
    ASSUME Whole, NEW c \in Client, ReqFits(c), ResetPassword(c)
    PROVE  Whole'
<1>0. UNCHANGED made /\ req[c].user \in User /\ req[c].new \in Hash
  BY DEF ResetPassword, AdminAt, ReqFits, At, AdminOps, Ops
<1>1. PICK u \in User, h \in Hash : u = req[c].user /\ h = req[c].new
  BY <1>0
<1>2. CASE ~Exists(u)
  <2>1. UNCHANGED <<users, sessions>>
    BY <1>1, <1>2 DEF ResetPassword
  <2> QED
    BY <1>0, <2>1 DEF Whole, SessionFits, Admins, Enabled, Exists, Owner
<1>3. CASE Exists(u)
  <2>1. SetPassword(u, h)
    BY <1>1, <1>3 DEF ResetPassword
  <2> QED
    BY <1>0, <1>3, <2>1, SetWhole
<1> QED
  BY <1>2, <1>3

LEMMA RecoverWhole ==
    ASSUME Whole, NEW u \in User, RecoverPassword(u)
    PROVE  Whole'
<1>1. PICK h \in Hash : SetPassword(u, h)
  BY HashIsNew DEF RecoverPassword
<1>2. Exists(u) /\ UNCHANGED made
  BY DEF RecoverPassword
<1> QED
  BY <1>1, <1>2, SetWhole

LEMMA ExpireWhole ==
    ASSUME Whole, NEW t \in Token, Expire(t)
    PROVE  Whole'
<1>1. UNCHANGED <<users, made>> /\ sessions[t] # None
  BY DEF Expire, history
<1>2. sessions[t] \in SessionRows
  BY <1>1 DEF Whole
<1> DEFINE s == [sessions[t] EXCEPT !.expired = TRUE]
<1>3. sessions' = [sessions EXCEPT ![t] = s]
  BY DEF Expire
<1>4. s \in SessionRows /\ s.user = sessions[t].user /\ s.era = sessions[t].era
  BY <1>2 DEF SessionRows
<1> HIDE DEF s
<1>5. sessions' \in [Token -> {None} \cup SessionRows]
  BY <1>3, <1>4 DEF Whole
<1>6. ASSUME NEW x \in Token
      PROVE  SessionFits(x)'
  <2>1. CASE x = t
    BY <1>1, <1>3, <1>4, <2>1 DEF Whole, SessionFits, Owner, Enabled, Exists
  <2>2. CASE x # t
    BY <1>1, <1>3, <2>2 DEF Whole, SessionFits, Owner, Enabled, Exists
  <2> QED
    BY <2>1, <2>2
<1> QED
  BY <1>1, <1>5, <1>6 DEF Whole, Admins, Enabled, Exists

LEMMA WholeStep ==
    ASSUME req \in [Client -> Requests], Whole, Next,
           \A c \in Client : ReqFits(c) /\ EraFits(c) /\ EndedFits(c)
    PROVE  Whole'
<1>1. CASE UNCHANGED <<users, sessions, made>>
  BY <1>1 DEF Whole, SessionFits, Admins, Enabled, Exists, Owner
<1>2. ASSUME NEW c \in Client, Writes(c)
      PROVE  Whole'
  <2>0. ReqFits(c) /\ EraFits(c) /\ EndedFits(c) /\ req[c] \in Requests
    OBVIOUS
  <2>1. CASE SetupCommit(c)
    BY <2>0, <2>1, SetupWhole
  <2>2. CASE UpgradePasswordHash(c)
    BY <2>0, <2>2, UpgradeWhole
  <2>3. CASE CreateSession(c)
    BY <2>0, <2>3, CreateWhole
  <2>4. CASE FindSessionUser(c)
    BY <2>4, EndWhole DEF FindSessionUser
  <2>5. CASE Logout(c)
    BY <2>5, EndWhole DEF Logout
  <2>6. CASE \E t \in Token : RevokeSession(c, t)
    BY <2>6, EndWhole DEF RevokeSession
  <2>7. CASE ChangePassword(c)
    BY <2>0, <2>7, ChangeWhole
  <2>8. CASE CreateUser(c)
    BY <2>0, <2>8, CreateUserWhole
  <2>9. CASE UpdateAccess(c)
    BY <2>0, <2>9, AccessWhole
  <2>10. CASE DeleteUser(c)
    BY <2>0, <2>10, DeleteWhole
  <2>11. CASE ResetPassword(c)
    BY <2>0, <2>11, ResetWhole
  <2> QED
    BY Zenon, <1>2, <2>1, <2>2, <2>3, <2>4, <2>5, <2>6, <2>7, <2>8, <2>9, <2>10, <2>11 DEF Writes
<1>3. ASSUME NEW u \in User, RecoverPassword(u)
      PROVE  Whole'
  BY <1>3, RecoverWhole
<1>4. ASSUME NEW t \in Token, Expire(t)
      PROVE  Whole'
  BY <1>4, ExpireWhole
<1> QED
  BY <1>1, <1>2, <1>3, <1>4, WritersAre

-----------------------------------------------------------------------------
(* The hashes.                                                             *)

\* No account gets another hash; or only the one that c had made.
Stays(u) == Exists(u) /\ users'[u].hash = users[u].hash /\ users'[u].era = users[u].era
HashesStay == \A u \in User : Exists(u)' => Stays(u)
Stored(c) ==
    req[c].new # None /\ \A u \in User : Exists(u)' => Stays(u) \/ users'[u].hash = req[c].new

\* What becomes of the hashes of a request: they are read and made, or they
\* stay, or they are not used any more.
Obtains(r) ==
    /\ r.new = None \/ r.new \notin HashesInUse
    /\ r.old \in {None} \cup {users[u].hash : u \in {v \in User : Exists(v)}}
Retains(c, r) == r.new = req[c].new /\ r.old = req[c].old /\ (Fresh(c)' => Fresh(c))
Forgets(c, r) ==
    ~Fresh(c)' /\ r.new \in {None, req[c].new} /\ r.old \in {None, req[c].old, req[c].new}

LEMMA ExistingHash ==
    ASSUME NEW u \in User, Exists(u)
    PROVE  users[u].hash \in HashesInUse
BY DEF HashesInUse

LEMMA AskedHashes ==
    ASSUME NEW c \in Client
    PROVE  req[c].old \in HashesInUse /\ req[c].new \in HashesInUse
BY DEF HashesInUse

LEMMA HashesFit ==
    ASSUME TypeOK, \A d \in Client : HashFits(d), NEW c \in Client, NEW r, Put(c, r),
           \/ HashesStay /\ (Obtains(r) \/ Retains(c, r) \/ Forgets(c, r))
           \/ Stored(c) /\ Forgets(c, r)
    PROVE  \A d \in Client : HashFits(d)'
<1>0. req'[c] = r /\ r \in Requests /\ \A d \in Client \ {c} : req'[d] = req[d]
  BY PutIs DEF TypeOK
<1> SUFFICES ASSUME NEW d \in Client, Fresh(d)'
             PROVE  /\ \A u \in User : Exists(u)' => users'[u].hash # req'[d].new
                    /\ \A x \in Client : req'[x].old # req'[d].new
                    /\ \A x \in Client \ {d} : req'[x].new # req'[d].new
  BY DEF HashFits
<1>1. CASE d # c
  <2>1. req'[d] = req[d] /\ Fresh(d)
    BY <1>0, <1>1 DEF Fresh, At
  <2>2. /\ \A u \in User : Exists(u) => users[u].hash # req[d].new
        /\ \A x \in Client : req[x].old # req[d].new
        /\ \A x \in Client \ {d} : req[x].new # req[d].new
        /\ req[d].new # None /\ req[d].new \in HashesInUse
    BY <2>1, AskedHashes DEF HashFits, Fresh
  <2>3. r.old # req[d].new /\ r.new # req[d].new
    BY <1>1, <2>2 DEF Obtains, Retains, Forgets
  <2> QED
    BY <1>0, <1>1, <2>1, <2>2, <2>3 DEF HashesStay, Stored, Stays
<1>2. CASE d = c /\ HashesStay /\ Obtains(r)
  <2>1. r.new # None
    BY <1>0, <1>2 DEF Fresh
  <2>2. r.new \notin HashesInUse /\ r.old # r.new
    BY <1>2, <2>1, ExistingHash DEF Obtains
  <2> QED
    BY <1>0, <1>2, <2>2, ExistingHash, AskedHashes DEF HashesStay, Stays
<1>3. CASE d = c /\ HashesStay /\ Retains(c, r)
  BY <1>0, <1>3 DEF HashFits, HashesStay, Stays, Retains
<1> QED
  BY <1>1, <1>2, <1>3 DEF Forgets

LEMMA ChangedHashes ==
    ASSUME TypeOK, NEW c \in Client, ReqFits(c), NEW r, Put(c, r), Changed(c, r)
    PROVE  /\ Obtains(r) \/ Retains(c, r) \/ Forgets(c, r)
           /\ At(c, "setup", "commit") \/ At(c, "login", "upgrade")
                \/ (req[c].op \in {"change", "create", "reset"} /\ req[c].pc = "work")
                => Forgets(c, r)
<1>0. req'[c] = r /\ r \in Requests
  BY PutIs DEF TypeOK
<1>1. CASE Begins(c, r)
  <2>1. r.new = None \/ r.new \notin HashesInUse
    BY <1>1 DEF Begins, MakesHash
  <2>2. r.old \in {None} \cup {users[u].hash : u \in {v \in User : Exists(v)}}
    BY <1>1 DEF Begins, Enabled
  <2>3. req[c].pc = "idle"
    BY <1>1 DEF Begins
  <2> QED
    BY <2>1, <2>2, <2>3 DEF Obtains, At
<1>2. CASE Reads(c, r)
  <2>1. r.new = None \/ r.new \notin HashesInUse
    BY <1>2 DEF Reads, MakesHash
  <2>2. req[c].user \in User /\ Exists(req[c].user)
    BY <1>2 DEF Reads, ReqFits, At, Enabled
  <2>3. r.old \in {None} \cup {users[u].hash : u \in {v \in User : Exists(v)}}
    BY <1>2, <2>2 DEF Reads
  <2>4. req[c].pc = "asked"
    BY <1>2 DEF Reads, At
  <2> QED
    BY <2>1, <2>3, <2>4 DEF Obtains, At
<1>3. CASE Moves(c, r)
  BY <1>0, <1>3 DEF Moves, Retains, Forgets, Fresh, At
<1>4. CASE Upgrades(c, r)
  BY <1>0, <1>4 DEF Upgrades, Forgets, Fresh, At
<1>5. CASE Ends(c, r)
  BY <1>0, <1>5, IdleIs DEF Ends, Forgets, Fresh, At
<1> QED
  BY <1>1, <1>2, <1>3, <1>4, <1>5 DEF Changed

\* The steps that store a hash.
StoreActions(c) ==
    SetupCommit(c) \/ UpgradePasswordHash(c) \/ ChangePassword(c) \/ CreateUser(c) \/ ResetPassword(c)

LEMMA HashWriters ==
    ASSUME TypeOK, \A c \in Client : ReqFits(c), Next
    PROVE  HashesStay \/ (\E c \in Client : StoreActions(c)) \/ (\E u \in User : RecoverPassword(u))
<1>0. users \in [User -> {None} \cup AccountRows]
  BY DEF TypeOK
<1>1. UNCHANGED users => HashesStay
  BY DEF HashesStay, Stays, Exists
<1>2. ASSUME NEW c \in Client,
             CreateSession(c) \/ FindSessionUser(c) \/ Logout(c) \/ \E t \in Token : RevokeSession(c, t)
      PROVE  UNCHANGED users
  BY <1>2 DEF CreateSession, FindSessionUser, Logout, RevokeSession
<1>3. ASSUME NEW t \in Token, Expire(t)
      PROVE  UNCHANGED users
  BY <1>3 DEF Expire
<1>4. ASSUME NEW c \in Client, UpdateAccess(c)
      PROVE  HashesStay
  <2>1. CASE UNCHANGED users
    BY <1>1, <2>1
  <2>2. CASE ~UNCHANGED users
    <3> DEFINE u == req[c].user
               a == [users[u] EXCEPT !.role = req[c].role, !.disabled = req[c].off]
    <3>1. Exists(u) /\ u \in User
      BY <1>4, <2>2 DEF UpdateAccess, AdminAt, At, ReqFits
    <3>2. users[u] \in AccountRows
      BY <1>0, <3>1 DEF Exists
    <3>3. users' = [users EXCEPT ![u] = a]
      BY <1>0, <1>4, <2>2, <3>1 DEF UpdateAccess
    <3>4. a.hash = users[u].hash /\ a.era = users[u].era
      BY <3>2 DEF AccountRows
    <3> HIDE DEF a, u
    <3> QED
      BY <1>0, <3>1, <3>3, <3>4 DEF HashesStay, Stays, Exists
  <2> QED
    BY <2>1, <2>2
<1>5. ASSUME NEW c \in Client, DeleteUser(c)
      PROVE  HashesStay
  <2>1. CASE UNCHANGED users
    BY <1>1, <2>1
  <2>2. CASE ~UNCHANGED users
    <3>1. users' = [users EXCEPT ![req[c].user] = None]
      BY <1>5, <2>2 DEF DeleteUser
    <3> QED
      BY <1>0, <3>1 DEF HashesStay, Stays, Exists
  <2> QED
    BY <2>1, <2>2
<1>6. ASSUME NEW c \in Client, Writes(c)
      PROVE  HashesStay \/ StoreActions(c)
  BY Zenon, <1>1, <1>2, <1>4, <1>5, <1>6 DEF Writes, StoreActions
<1> QED
  BY <1>1, <1>3, <1>6, WritersAre

\* What they store is the hash of the request.
LEMMA StoredIs ==
    ASSUME TypeOK, NEW c \in Client, ReqFits(c), EndedFits(c), StoreActions(c)
    PROVE  /\ Stored(c)
           /\ At(c, "setup", "commit") \/ At(c, "login", "upgrade")
                \/ (req[c].op \in {"change", "create", "reset"} /\ req[c].pc = "work")
<1>0. users \in [User -> {None} \cup AccountRows]
  BY DEF TypeOK
<1>1. ASSUME UNCHANGED users, req[c].new # None
      PROVE  Stored(c)
  <2>1. ASSUME NEW u \in User, Exists(u)'
        PROVE  Stays(u)
    BY <1>1, <2>1 DEF Stays, Exists
  <2> QED
    BY <1>1, <2>1 DEF Stored
<1>2. req[c].new \in Hash /\ req[c].new # None
  BY DEF StoreActions, SetupCommit, UpgradePasswordHash, ChangePassword, CreateUser, ResetPassword,
         AdminAt, At, ReqFits, ParametersFit
<1>3. ASSUME NEW u \in User, Exists(u), NEW e, users' = WithPassword(u, req[c].new, e)
      PROVE  Stored(c)
  <2>1. users[u] \in AccountRows
    BY <1>0, <1>3 DEF Exists
  <2>2. users'[u] = [users[u] EXCEPT !.hash = req[c].new, !.era = e]
    BY <1>0, <1>3 DEF WithPassword
  <2>3. users'[u].hash = req[c].new
    BY <2>1, <2>2 DEF AccountRows
  <2>4. \A v \in User \ {u} : users'[v] = users[v]
    BY <1>0, <1>3 DEF WithPassword
  <2> QED
    BY <1>2, <2>3, <2>4 DEF Stored, Stays, Exists
<1>4. CASE SetupCommit(c)
  <2>1. CASE ~UNCHANGED users
    <3>1. PICK u \in User : users' = [users EXCEPT ![u] = Account("admin", req[c].new)]
      BY <1>4, <2>1 DEF SetupCommit
    <3>2. Account("admin", req[c].new).hash = req[c].new
      BY DEF Account
    <3>3. users'[u].hash = req[c].new /\ \A v \in User \ {u} : users'[v] = users[v]
      BY <1>0, <3>1, <3>2
    <3> QED
      BY <1>2, <1>4, <3>3 DEF Stored, Stays, Exists, SetupCommit
  <2> QED
    BY <1>1, <1>2, <1>4, <2>1 DEF SetupCommit
<1>5. CASE UpgradePasswordHash(c)
  <2>1. CASE ~UNCHANGED users
    <3>1. req[c].user \in User /\ Exists(req[c].user)
      BY <1>5, <2>1 DEF UpgradePasswordHash, Unchanged, Enabled, ReqFits, At
    <3>2. users[req[c].user] \in AccountRows
      BY <1>0, <3>1 DEF Exists
    <3>3. users' = WithPassword(req[c].user, req[c].new, users[req[c].user].era)
      <4>1. users' = [users EXCEPT ![req[c].user].hash = req[c].new]
        BY <1>5, <2>1 DEF UpgradePasswordHash
      <4>2. [users[req[c].user] EXCEPT !.hash = req[c].new]
              = [users[req[c].user] EXCEPT !.hash = req[c].new, !.era = users[req[c].user].era]
        BY <3>2 DEF AccountRows
      <4> QED
        BY <1>0, <3>1, <4>1, <4>2 DEF WithPassword
    <3> QED
      BY <1>3, <1>5, <3>1, <3>3 DEF UpgradePasswordHash
  <2> QED
    BY <1>1, <1>2, <1>5, <2>1 DEF UpgradePasswordHash
<1>6. CASE ChangePassword(c)
  <2>0. At(c, "change", "work") /\ req[c].user \in User
    BY <1>6 DEF ChangePassword, ReqFits, At
  <2>1. CASE ~UNCHANGED users
    <3>0. Exists(req[c].user)
      <4>1. Valid(req[c].token)
        BY <1>6, <2>1 DEF ChangePassword, Changes
      <4>2. Owner(req[c].token) = req[c].user
        BY <2>0, <4>1 DEF EndedFits, Valid, At
      <4> QED
        BY <4>1, <4>2 DEF Valid, Owner, Enabled
    <3>1. users' = WithPassword(req[c].user, req[c].new, req[c].new)
      BY <1>6, <2>1 DEF ChangePassword, WithPassword
    <3> QED
      BY <1>3, <2>0, <3>0, <3>1 DEF At
  <2> QED
    BY <1>1, <1>2, <2>0, <2>1 DEF At
<1>7. CASE CreateUser(c)
  <2>0. At(c, "create", "work") /\ req[c].user \in User
    BY <1>7 DEF CreateUser, AdminAt, ReqFits, At
  <2>1. CASE ~UNCHANGED users
    <3>1. users' = [users EXCEPT ![req[c].user] = Account(req[c].role, req[c].new)]
      BY <1>7, <2>1 DEF CreateUser
    <3>2. Account(req[c].role, req[c].new).hash = req[c].new
      BY DEF Account
    <3>3. users'[req[c].user].hash = req[c].new /\ \A v \in User \ {req[c].user} : users'[v] = users[v]
      BY <1>0, <2>0, <3>1, <3>2
    <3> QED
      BY <1>2, <2>0, <3>3 DEF Stored, Stays, Exists, At
  <2> QED
    BY <1>1, <1>2, <2>0, <2>1 DEF At
<1>8. CASE ResetPassword(c)
  <2>0. At(c, "reset", "work") /\ req[c].user \in User
    BY <1>8 DEF ResetPassword, AdminAt, ReqFits, At
  <2>1. CASE ~UNCHANGED users
    <3>1. Exists(req[c].user) /\ users' = WithPassword(req[c].user, req[c].new, req[c].new)
      BY <1>8, <2>1 DEF ResetPassword, SetPassword, WithPassword
    <3> QED
      BY <1>3, <2>0, <3>1 DEF At
  <2> QED
    BY <1>1, <1>2, <2>0, <2>1 DEF At
<1> QED
  BY <1>4, <1>5, <1>6, <1>7, <1>8 DEF StoreActions

LEMMA HashStep ==
    ASSUME TypeOK, Next,
           \A c \in Client : ReqFits(c) /\ HashFits(c) /\ EndedFits(c)
    PROVE  \A c \in Client : HashFits(c)'
<1>1. ASSUME UNCHANGED req, HashesStay
      PROVE  \A d \in Client : HashFits(d)'
  BY <1>1 DEF HashFits, HashesStay, Stays, Fresh, At
<1>2. ASSUME NEW c \in Client, StoreActions(c)
      PROVE  \A d \in Client : HashFits(d)'
  <2>1. Stored(c) /\ (\/ At(c, "setup", "commit") \/ At(c, "login", "upgrade")
                      \/ (req[c].op \in {"change", "create", "reset"} /\ req[c].pc = "work"))
    BY <1>2, StoredIs
  <2>2. PICK r : Put(c, r) /\ Changed(c, r)
    <3>0. req \in [Client -> Requests] /\ ReqFits(c)
      BY DEF TypeOK
    <3>1. ASSUME Answer(c), req[c].op # "none", ~At(c, "login", "failed")
          PROVE  Put(c, Idle) /\ Changed(c, Idle)
      BY <3>0, <3>1, AnswerIs
    <3>2. CASE SetupCommit(c)
      BY <3>1, <3>2, OtherMoves DEF SetupCommit, At
    <3>3. CASE UpgradePasswordHash(c)
      BY <3>0, <3>3, UpgradeIs
    <3>4. CASE ChangePassword(c) \/ CreateUser(c) \/ ResetPassword(c)
      BY <3>1, <3>4 DEF ChangePassword, CreateUser, ResetPassword, AdminAt, At
    <3> QED
      BY <1>2, <3>2, <3>3, <3>4 DEF StoreActions
  <2>3. Forgets(c, r)
    BY <2>1, <2>2, ChangedHashes
  <2> QED
    BY <2>1, <2>2, <2>3, HashesFit
<1>3. ASSUME NEW u \in User, RecoverPassword(u)
      PROVE  \A d \in Client : HashFits(d)'
  <2>1. NewHash \notin HashesInUse /\ Exists(u) /\ UNCHANGED req
    BY <1>3, HashIsNew DEF RecoverPassword
  <2>2. users' = [users EXCEPT ![u].hash = NewHash, ![u].era = NewHash]
    BY <1>3 DEF RecoverPassword, SetPassword
  <2>3. users[u] \in AccountRows /\ users \in [User -> {None} \cup AccountRows]
    BY <2>1 DEF TypeOK, Exists
  <2>4. users'[u] = [users[u] EXCEPT !.hash = NewHash, !.era = NewHash]
    BY <2>2, <2>3
  <2>5. users'[u].hash = NewHash
    BY <2>3, <2>4 DEF AccountRows
  <2>6. \A v \in User \ {u} : users'[v] = users[v]
    BY <2>2, <2>3
  <2>7. ASSUME NEW d \in Client, Fresh(d)'
        PROVE  NewHash # req[d].new
    BY <2>1, AskedHashes
  <2> QED
    BY <2>1, <2>5, <2>6, <2>7 DEF HashFits, Exists, Fresh, At
<1>4. CASE HashesStay
  <2>1. ASSUME NEW c \in Client, NEW r, Put(c, r), Changed(c, r)
        PROVE  \A d \in Client : HashFits(d)'
    BY <1>4, <2>1, ChangedHashes, HashesFit
  <2>2. CASE Restart
    BY <2>2, IdleIs DEF Restart, HashFits, Fresh, At
  <2> QED
    BY <1>1, <1>4, <2>1, <2>2, RequestStep
<1> QED
  BY <1>2, <1>3, <1>4, HashWriters

-----------------------------------------------------------------------------
(* What a sign-in verified.                                                *)

\* A sign-in that keeps what it read keeps its era.
LEMMA EraKept ==
    ASSUME NEW c \in Client, EraFits(c),
           Verified(c)' => /\ Verified(c) /\ req'[c].user = req[c].user /\ req[c].user \in User
                           /\ req'[c].old = req[c].old /\ req'[c].era = req[c].era,
           \A u \in User : Exists(u)' => Stays(u) \/ users'[u].hash # req[c].old
    PROVE  EraFits(c)'
BY DEF EraFits, Stays, Exists

LEMMA VerifiedUser ==
    ASSUME NEW c \in Client, ReqFits(c), Verified(c)
    PROVE  req[c].user \in User
BY DEF Verified, ReqFits

LEMMA UpgradeEra ==
    ASSUME TypeOK, NEW c \in Client, ReqFits(c), HashFits(c), EraFits(c), UpgradePasswordHash(c)
    PROVE  EraFits(c)'
<1>1. At(c, "login", "upgrade") /\ Fresh(c) /\ Verified(c) /\ req[c].user \in User /\ req[c].new \in Hash
  BY DEF UpgradePasswordHash, At, Fresh, Verified, ReqFits, ParametersFit
<1>2. req'[c].old = req[c].new /\ req'[c].user = req[c].user /\ req'[c].era = req[c].era
  BY DEF UpgradePasswordHash, TypeOK, Requests
<1>3. CASE UNCHANGED users
  BY <1>1, <1>2, <1>3 DEF EraFits, HashFits, Exists
<1>4. CASE ~UNCHANGED users
  <2>1. Exists(req[c].user) /\ users[req[c].user].hash = req[c].old
           /\ users' = [users EXCEPT ![req[c].user].hash = req[c].new]
    BY <1>4 DEF UpgradePasswordHash, Unchanged, Enabled
  <2>2. users[req[c].user] \in AccountRows /\ users \in [User -> {None} \cup AccountRows]
    BY <1>1, <2>1 DEF TypeOK, Exists
  <2>3. users'[req[c].user] = [users[req[c].user] EXCEPT !.hash = req[c].new]
    BY <1>1, <2>1, <2>2
  <2>4. users'[req[c].user].era = users[req[c].user].era
    BY <2>2, <2>3 DEF AccountRows
  <2> QED
    BY <1>1, <1>2, <2>1, <2>4 DEF EraFits
<1> QED
  BY <1>3, <1>4

LEMMA EraStep ==
    ASSUME TypeOK, Next,
           \A c \in Client : ReqFits(c) /\ HashFits(c) /\ EraFits(c) /\ EndedFits(c)
    PROVE  \A c \in Client : EraFits(c)'
<1> SUFFICES ASSUME NEW c \in Client
             PROVE  EraFits(c)'
  OBVIOUS
<1>0. req \in [Client -> Requests] /\ ReqFits(c) /\ EraFits(c) /\ HashFits(c)
  BY DEF TypeOK
<1>1. ASSUME UNCHANGED (req[c]), \A u \in User : Exists(u)' => Stays(u) \/ users'[u].hash # req[c].old
      PROVE  EraFits(c)'
  <2>1. Verified(c)' => Verified(c)
    BY <1>1 DEF Verified
  <2> QED
    BY <1>0, <1>1, <2>1, VerifiedUser, EraKept
<1>2. CASE UpgradePasswordHash(c)
  BY <1>0, <1>2, UpgradeEra
<1>3. CASE HashesStay
  <2>1. CASE UNCHANGED req
    BY <1>1, <1>3, <2>1 DEF HashesStay
  <2>2. CASE Restart
    BY <2>2, IdleIs DEF Restart, EraFits, Verified
  <2>3. ASSUME NEW x \in Client, NEW r, Put(x, r), Changed(x, r)
        PROVE  EraFits(c)'
    <3>1. req'[x] = r /\ r \in Requests /\ \A d \in Client \ {x} : req'[d] = req[d]
      BY <1>0, <2>3, PutIs
    <3>2. CASE x # c
      BY <1>1, <1>3, <3>1, <3>2 DEF HashesStay
    <3>3. CASE x = c /\ Begins(c, r)
      BY <3>1, <3>3 DEF Begins, EraFits, Verified, AdminOps
    <3>4. CASE x = c /\ Reads(c, r)
      BY <1>0, <1>3, <3>1, <3>4 DEF Reads, EraFits, HashesStay, Stays, ReqFits, At
    <3>5. CASE x = c /\ Moves(c, r)
      <4>1. /\ req'[c].op = req[c].op /\ req'[c].user = req[c].user /\ req'[c].old = req[c].old
            /\ req'[c].era = req[c].era
        BY <3>1, <3>5 DEF Moves
      <4>2. Verified(c)' => Verified(c)
        BY <3>1, <3>5 DEF Moves, Verified
      <4> QED
        BY <1>0, <1>3, <4>1, <4>2, VerifiedUser, EraKept DEF HashesStay
    <3>6. CASE x = c /\ Upgrades(c, r)
      BY <1>2, <3>6 DEF Upgrades
    <3>7. CASE x = c /\ Ends(c, r)
      BY <3>1, <3>7, IdleIs DEF Ends, EraFits, Verified
    <3> QED
      BY <2>3, <3>2, <3>3, <3>4, <3>5, <3>6, <3>7 DEF Changed
  <2> QED
    BY <2>1, <2>2, <2>3, <1>0, RequestStep
<1>4. ASSUME NEW x \in Client, StoreActions(x)
      PROVE  EraFits(c)'
  <2>1. Stored(x) /\ (\/ At(x, "setup", "commit") \/ At(x, "login", "upgrade")
                      \/ (req[x].op \in {"change", "create", "reset"} /\ req[x].pc = "work"))
    BY <1>4, StoredIs
  <2>2. req[c].old # req[x].new
    BY <2>1 DEF HashFits, Fresh, Stored, At
  <2>3. \A u \in User : Exists(u)' => Stays(u) \/ users'[u].hash # req[c].old
    BY <2>1, <2>2 DEF Stored
  <2>4. CASE req'[c] = req[c]
    BY <1>1, <2>3, <2>4
  <2>5. CASE req'[c] # req[c] /\ ~UpgradePasswordHash(c)
    <3>1. x = c /\ (Answer(c) \/ (Step(c, "mark") /\ req[c].op = "setup"))
      BY <1>0, <1>4, <2>5 DEF StoreActions, SetupCommit, UpgradePasswordHash, ChangePassword,
                              CreateUser, ResetPassword, AdminAt, Answer, Step, At
    <3>2. ~Verified(c)'
      <4>1. CASE Answer(c)
        BY <1>0, <4>1, IdleIs DEF Answer, Verified
      <4>2. CASE Step(c, "mark")
        <5>1. req'[c].pc = "mark"
          BY <1>0, <4>2 DEF Step, Requests
        <5> QED
          BY <5>1 DEF Verified
      <4> QED
        BY <3>1, <4>1, <4>2
    <3> QED
      BY <3>2 DEF EraFits
  <2> QED
    BY <1>2, <2>4, <2>5
<1>5. ASSUME NEW u \in User, RecoverPassword(u)
      PROVE  EraFits(c)'
  <2>1. NewHash \notin HashesInUse /\ Exists(u) /\ UNCHANGED req
    BY <1>5, HashIsNew DEF RecoverPassword
  <2>2. users' = WithPassword(u, NewHash, NewHash)
    BY <1>5 DEF RecoverPassword, SetPassword, WithPassword
  <2>3. users[u] \in AccountRows /\ users \in [User -> {None} \cup AccountRows]
    BY <2>1 DEF TypeOK, Exists
  <2>4. users'[u] = [users[u] EXCEPT !.hash = NewHash, !.era = NewHash]
    BY <2>2, <2>3 DEF WithPassword
  <2>5. users'[u].hash = NewHash
    BY <2>3, <2>4 DEF AccountRows
  <2>6. \A v \in User \ {u} : users'[v] = users[v]
    BY <2>2, <2>3 DEF WithPassword
  <2>7. NewHash # req[c].old
    BY <2>1, AskedHashes
  <2>8. \A v \in User : Exists(v)' => Stays(v) \/ users'[v].hash # req[c].old
    BY <2>5, <2>6, <2>7 DEF Stays, Exists
  <2> QED
    BY <1>1, <2>1, <2>8
<1> QED
  BY <1>3, <1>4, <1>5, HashWriters

-----------------------------------------------------------------------------
(* Requests whose session ended.                                           *)

\* A session that there is was there, or has a token nobody holds.
TokensStay ==
    \A t \in Token : sessions'[t] # None =>
        \/ sessions[t] # None /\ sessions'[t].user = sessions[t].user
        \/ t \notin TokensInUse

\* Whom a step marks as overtaken has no session left.
EndsSessions == \A c \in ended' \ ended : c \in Client /\ sessions'[req[c].token] = None /\ req[c].token \in Token

LEMMA TokenUsed ==
    /\ \A t \in Token : sessions[t] # None => t \in TokensInUse
    /\ \A c \in Client : req[c].token \in TokensInUse
BY DEF TokensInUse

LEMMA EndIs ==
    ASSUME TypeOK, NEW gone \in SUBSET Token, End(gone)
    PROVE  TokensStay /\ EndsSessions
BY DEF End, TokensStay, EndsSessions, TypeOK

LEMMA CreateTokens ==
    ASSUME TypeOK, NEW c \in Client, CreateSession(c) \/ SetupCommit(c) \/ ChangePassword(c)
    PROVE  TokensStay /\ EndsSessions
<1>1. NewToken \in Token /\ NewToken \notin TokensInUse
  BY TokenIsNew DEF CreateSession, SetupCommit, ChangePassword
<1>2. CASE UNCHANGED sessions /\ UNCHANGED ended
  BY <1>2 DEF TokensStay, EndsSessions
<1>3. CASE CreateSession(c) /\ Inserts(c)
  BY <1>1, <1>3 DEF CreateSession, TokensStay, EndsSessions, history
<1>4. CASE SetupCommit(c) /\ CreatesFirst
  <2>1. PICK s : sessions' = [sessions EXCEPT ![NewToken] = s]
    BY <1>4 DEF SetupCommit
  <2> QED
    BY <1>1, <1>4, <2>1 DEF SetupCommit, TokensStay, EndsSessions, TypeOK
<1>5. CASE ChangePassword(c) /\ Changes(c)
  <2>1. PICK s, u : /\ sessions' = [x \in Token |-> IF x = NewToken THEN s ELSE IF x \in Of(u) THEN None ELSE sessions[x]]
                    /\ ended' = ended \cup {d \in Client \ {c} : req[d].token \in Of(u)}
    BY <1>5 DEF ChangePassword
  <2>2. TokensStay
    BY <1>1, <2>1 DEF TokensStay
  <2>3. ASSUME NEW d \in ended' \ ended
        PROVE  d \in Client /\ sessions'[req[d].token] = None /\ req[d].token \in Token
    BY <1>1, <2>1, <2>3, TokenUsed DEF Of
  <2> QED
    BY <2>2, <2>3 DEF EndsSessions
<1> QED
  BY <1>2, <1>3, <1>4, <1>5 DEF CreateSession, SetupCommit, ChangePassword, history

LEMMA TokensStep ==
    ASSUME TypeOK, Next
    PROVE  TokensStay /\ EndsSessions
<1>1. ASSUME UNCHANGED sessions, ended' \subseteq ended
      PROVE  TokensStay /\ EndsSessions
  BY <1>1 DEF TokensStay, EndsSessions
<1>2. ASSUME NEW u
      PROVE  Of(u) \in SUBSET Token
  BY DEF Of
<1>3. ASSUME NEW c \in Client,
             LoginBusy(c) \/ Authenticate(c) \/ AuthenticateAgain(c) \/ UpgradePasswordHash(c)
               \/ ClearLoginThrottle(c) \/ RecordLoginFailure(c) \/ SetupCheck(c) \/ SetupMark(c)
               \/ Rejected(c) \/ CreateUser(c) \/ SetUserGrants(c) \/ GoneAway(c)
      PROVE  UNCHANGED sessions /\ UNCHANGED ended
  BY Zenon, <1>3 DEF LoginBusy, Authenticate, AuthenticateAgain, UpgradePasswordHash,
     ClearLoginThrottle,
                     RecordLoginFailure, SetupCheck, SetupMark, Rejected, CreateUser, SetUserGrants,
                     GoneAway, dbVars, history
<1>4. ASSUME NEW c \in Client, NEW r, Ask(c, r)
      PROVE  ended' \subseteq ended
  BY <1>4 DEF Ask
<1>5. ASSUME NEW c \in Client, SetupBegin(c) \/ ChangeBegin(c) \/ \E u \in User : LoginBegin(c, u)
      PROVE  UNCHANGED sessions /\ ended' \subseteq ended
  <2>1. UNCHANGED sessions /\ \E r : Ask(c, r)
    BY Zenon, <1>5 DEF SetupBegin, ChangeBegin, LoginBegin, Signed, dbVars
  <2> QED
    BY <1>4, <2>1
<1>6. ASSUME NEW c \in Client, NEW op, NEW u, NEW role, NEW off, NEW caps,
             AdminBegin(c, op, u, role, off, caps)
      PROVE  UNCHANGED sessions /\ ended' \subseteq ended
  <2>1. UNCHANGED sessions /\ \E r : Ask(c, r)
    BY Zenon, <1>6 DEF AdminBegin, Signed, dbVars
  <2> QED
    BY <1>4, <2>1
<1>7. ASSUME NEW c \in Client, UpdateAccess(c) \/ DeleteUser(c) \/ ResetPassword(c)
      PROVE  TokensStay /\ EndsSessions
  <2>1. (\E u : End(Of(u))) \/ UNCHANGED <<sessions, ended>>
    BY <1>7 DEF UpdateAccess, DeleteUser, ResetPassword, SetPassword
  <2> QED
    BY <1>1, <1>2, <2>1, EndIs
<1>8. ASSUME NEW c \in Client, Admin(c)
      PROVE  TokensStay /\ EndsSessions
  <2>1. \/ UNCHANGED sessions /\ ended' \subseteq ended
        \/ UNCHANGED sessions /\ UNCHANGED ended
        \/ UpdateAccess(c) \/ DeleteUser(c) \/ ResetPassword(c)
    BY Zenon, <1>3, <1>6, <1>8 DEF Admin
  <2> QED
    BY <1>1, <1>7, <2>1
<1>9. ASSUME NEW c \in Client, SignIn(c)
      PROVE  TokensStay /\ EndsSessions
  <2>1. \/ UNCHANGED sessions /\ ended' \subseteq ended
        \/ UNCHANGED sessions /\ UNCHANGED ended
        \/ CreateSession(c)
    BY Zenon, <1>3, <1>5, <1>9 DEF SignIn
  <2> QED
    BY <1>1, <2>1, CreateTokens
<1>10. ASSUME NEW c \in Client, FindSessionUser(c) \/ Logout(c)
       PROVE  TokensStay /\ EndsSessions
  <2>1. cookie[c] \in Token /\ End({cookie[c]})
    BY <1>10 DEF FindSessionUser, Logout, Valid, TypeOK
  <2> QED
    BY <2>1, EndIs
<1>11. ASSUME NEW c \in Client, NEW t \in Token, RevokeSession(c, t)
       PROVE  TokensStay /\ EndsSessions
  BY <1>11, EndIs DEF RevokeSession
<1>12. ASSUME NEW t \in Token, Expire(t)
       PROVE  TokensStay /\ EndsSessions
  <2>1. sessions' = [sessions EXCEPT ![t].expired = TRUE] /\ sessions[t] # None /\ UNCHANGED ended
    BY <1>12 DEF Expire, history
  <2>2. sessions[t] \in SessionRows /\ sessions \in [Token -> {None} \cup SessionRows]
    BY <2>1 DEF TypeOK
  <2>3. sessions'[t] = [sessions[t] EXCEPT !.expired = TRUE]
    BY <2>1, <2>2
  <2>4. sessions'[t].user = sessions[t].user
    BY <2>2, <2>3 DEF SessionRows
  <2>5. \A x \in Token \ {t} : sessions'[x] = sessions[x]
    BY <2>1, <2>2
  <2> QED
    BY <2>1, <2>4, <2>5 DEF TokensStay, EndsSessions
<1>13. ASSUME NEW u \in User, RecoverPassword(u)
       PROVE  TokensStay /\ EndsSessions
  <2>1. End(Of(u))
    BY <1>13 DEF RecoverPassword, SetPassword
  <2> QED
    BY <1>2, <2>1, EndIs
<1>14. ASSUME NEW u \in User, WindowEnds(u)
       PROVE  UNCHANGED <<sessions, ended>>
  BY <1>14 DEF WindowEnds
<1>15. SetupExpires => UNCHANGED <<sessions, ended>>
  BY DEF SetupExpires, dbVars, history
<1>16. Restart => UNCHANGED sessions /\ ended' \subseteq ended
  BY DEF Restart, dbVars
<1>17. ASSUME NEW c \in Client, AccountPage(c)
       PROVE  TokensStay /\ EndsSessions
  <2>1. CASE \E t \in Token : RevokeSession(c, t)
    BY <1>11, <2>1
  <2>2. CASE ChangeBegin(c)
    BY <1>1, <1>5, <2>2
  <2>3. CASE ChangePassword(c)
    BY <2>3, CreateTokens
  <2> QED
    BY Zenon, <1>17, <2>1, <2>2, <2>3 DEF AccountPage
<1>18. ASSUME NEW c \in Client,
              SetupBegin(c) \/ SetupCheck(c) \/ SetupCommit(c) \/ SetupMark(c) \/ GoneAway(c)
       PROVE  TokensStay /\ EndsSessions
  BY <1>1, <1>3, <1>5, <1>18, CreateTokens
<1>19. \/ UNCHANGED <<sessions, ended>> \/ (UNCHANGED sessions /\ ended' \subseteq ended)
       => TokensStay /\ EndsSessions
  BY <1>1
<1> QED
  BY Zenon, <1>8, <1>9, <1>10, <1>12, <1>13, <1>14, <1>15, <1>16, <1>17, <1>18, <1>19 DEF Next

LEMMA EndedStep ==
    ASSUME TypeOK, Next, \A c \in Client : ReqFits(c) /\ EndedFits(c)
    PROVE  \A c \in Client : EndedFits(c)'
<1> SUFFICES ASSUME NEW c \in Client
             PROVE  EndedFits(c)'
  OBVIOUS
<1>0. req \in [Client -> Requests] /\ EndedFits(c) /\ TokensStay /\ EndsSessions
  BY TokensStep DEF TypeOK
<1>1. req[c].token \in Token \cup {None} /\ req[c].token \in TokensInUse
  BY <1>0, TokenUsed DEF Requests
<1>2. ASSUME req'[c].token \in {req[c].token, None},
             req'[c].op = "change" => req[c].op = "change" /\ req'[c].user = req[c].user
      PROVE  EndedFits(c)'
  BY <1>0, <1>1, <1>2 DEF EndedFits, TokensStay, EndsSessions, Owner
<1>3. CASE UNCHANGED req
  BY <1>2, <1>3
<1>4. CASE Restart
  BY <1>4, IdleIs DEF Restart, EndedFits
<1>5. ASSUME NEW x \in Client, NEW r, Put(x, r), Changed(x, r)
      PROVE  EndedFits(c)'
  <2>1. req'[x] = r /\ r \in Requests /\ \A d \in Client \ {x} : req'[d] = req[d]
    BY <1>0, <1>5, PutIs
  <2>2. CASE x # c
    BY <1>2, <2>1, <2>2
  <2>3. CASE x = c /\ Begins(c, r)
    <3>1. c \notin ended'
      BY <2>3 DEF Begins
    <3>2. ASSUME r.op = "change", sessions'[r.token] # None
          PROVE  sessions'[r.token].user = r.user
      <4>1. r.token \in Token /\ sessions[r.token] # None /\ Owner(r.token) = r.user
        BY <2>3, <3>2 DEF Begins, AdminOps
      <4> QED
        BY <1>0, <3>2, <4>1, TokenUsed DEF TokensStay, Owner
    <3> QED
      BY <2>1, <2>3, <3>1, <3>2 DEF EndedFits, Owner
  <2>4. CASE x = c /\ (Reads(c, r) \/ Moves(c, r) \/ Upgrades(c, r))
    BY <1>2, <2>1, <2>4 DEF Reads, Moves, Upgrades, At
  <2>5. CASE x = c /\ Ends(c, r)
    BY <1>2, <2>1, <2>5, IdleIs DEF Ends
  <2> QED
    BY <1>5, <2>2, <2>3, <2>4, <2>5 DEF Changed
<1> QED
  BY <1>3, <1>4, <1>5, RequestStep

LEMMA LateStep ==
    ASSUME TypeOK, Next, ~late, \A c \in Client : ReqFits(c) /\ EndedFits(c)
    PROVE  late' = FALSE
<1>1. ASSUME NEW c \in Client, Valid(req[c].token), Committed(c)
      PROVE  late' = FALSE
  <2>1. req[c].token # None /\ sessions[req[c].token] # None
    BY <1>1 DEF Valid
  <2>2. c \notin ended
    BY <2>1 DEF EndedFits
  <2>3. late' = (late \/ c \in ended)
    BY Zenon, <1>1 DEF Committed
  <2> QED
    BY <2>2, <2>3
<1>2. ASSUME NEW c \in Client, CreateUser(c) \/ UpdateAccess(c) \/ DeleteUser(c) \/ ResetPassword(c)
                                 \/ SetUserGrants(c) \/ ChangePassword(c)
      PROVE  UNCHANGED late \/ (Valid(req[c].token) /\ Committed(c))
  BY Zenon, <1>2 DEF CreateUser, UpdateAccess, DeleteUser, ResetPassword, SetUserGrants,
     ChangePassword,
                     AdminAt, AdminMutation, Changes
<1>3. ASSUME NEW c \in Client,
             LoginBusy(c) \/ Authenticate(c) \/ AuthenticateAgain(c) \/ UpgradePasswordHash(c)
               \/ ClearLoginThrottle(c) \/ RecordLoginFailure(c) \/ SetupCheck(c) \/ SetupMark(c)
               \/ Rejected(c) \/ GoneAway(c) \/ SetupBegin(c) \/ SetupCommit(c) \/ CreateSession(c)
               \/ FindSessionUser(c) \/ Logout(c) \/ ChangeBegin(c)
               \/ (\E t \in Token : RevokeSession(c, t)) \/ (\E u \in User : LoginBegin(c, u))
      PROVE  UNCHANGED late
  BY Zenon, <1>3 DEF LoginBusy, Authenticate, AuthenticateAgain, UpgradePasswordHash,
     ClearLoginThrottle,
                     RecordLoginFailure, SetupCheck, SetupMark, Rejected, GoneAway, SetupBegin, SetupCommit,
                     CreateSession, FindSessionUser, Logout, ChangeBegin, RevokeSession, LoginBegin, history
<1>4. ASSUME NEW c \in Client, NEW op, NEW u, NEW role, NEW off, NEW caps,
             AdminBegin(c, op, u, role, off, caps)
      PROVE  UNCHANGED late
  BY <1>4 DEF AdminBegin
<1>5. SetupExpires \/ Restart \/ (\E u \in User : WindowEnds(u) \/ RecoverPassword(u))
         \/ (\E t \in Token : Expire(t)) => UNCHANGED late
  BY Zenon DEF SetupExpires, Restart, WindowEnds, RecoverPassword, Expire, history
<1>6. UNCHANGED late => late' = FALSE
  BY DEF TypeOK
<1> QED
  BY Zenon, <1>1, <1>2, <1>3, <1>4, <1>5, <1>6 DEF Next, SignIn, AccountPage, Admin

-----------------------------------------------------------------------------
(* The throttle.                                                           *)

Bound == MaxFailures + Cardinality(Client) - 1

LEMMA Finite ==
    ASSUME NEW S \in SUBSET Client
    PROVE  IsFiniteSet(S) /\ Cardinality(S) \in Nat /\ Cardinality(S) <= Cardinality(Client)
           /\ Cardinality(Client) \in Nat /\ MaxFailures \in Nat \ {0}
BY FS_Subset, FS_CardinalityType DEF ParametersFit

LEMMA GuessersAre ==
    ASSUME NEW u
    PROVE  Guessing(u) \in SUBSET Client /\ Failed(u) \in SUBSET Client
           /\ Guessing(u)' \in SUBSET Client /\ Failed(u)' \in SUBSET Client
BY DEF Guessing, Failed

LEMMA CountKept ==
    ASSUME TypeOK, NEW u \in User, CountFits(u), fails'[u] = fails[u],
           guesses'[u] \in Nat, guesses'[u] <= guesses[u],
           Guessing(u)' \subseteq Guessing(u), Failed(u) \subseteq Failed(u)'
    PROVE  CountFits(u)'
<1> DEFINE G == Cardinality(Guessing(u))
           H == Cardinality(Guessing(u)')
           F == Cardinality(Failed(u))
           E == Cardinality(Failed(u)')
<1>1. /\ G \in Nat /\ H \in Nat /\ F \in Nat /\ E \in Nat /\ H <= G /\ F <= E
      /\ Cardinality(Client) \in Nat /\ MaxFailures \in Nat
  BY GuessersAre, Finite, FS_Subset
<1>2. fails[u] \in Nat /\ guesses[u] \in Nat
  BY DEF TypeOK
<1>3. fails[u] + G <= Bound /\ guesses[u] <= fails[u] + F
  BY DEF CountFits, Bound
<1> HIDE DEF G, H, F, E
<1>4. fails'[u] + H <= Bound /\ guesses'[u] <= fails'[u] + E
  BY <1>1, <1>2, <1>3 DEF Bound
<1> QED
  BY <1>4 DEF CountFits, Bound, H, E

LEMMA CountReset ==
    ASSUME NEW u \in User, fails'[u] = 0, guesses'[u] = 0
    PROVE  CountFits(u)'
<1> DEFINE H == Cardinality(Guessing(u)')
           E == Cardinality(Failed(u)')
<1>1. H \in Nat /\ E \in Nat /\ H <= Cardinality(Client) /\ Cardinality(Client) \in Nat /\ MaxFailures \in Nat \ {0}
  BY GuessersAre, Finite
<1> HIDE DEF H, E
<1>2. fails'[u] + H <= Bound /\ guesses'[u] <= fails'[u] + E
  BY <1>1 DEF Bound
<1> QED
  BY <1>2 DEF CountFits, Bound, H, E

\* A sign-in of u that passed the throttle.
LEMMA CountBegun ==
    ASSUME TypeOK, NEW u \in User, CountFits(u), fails'[u] = fails[u],
           guesses'[u] = guesses[u], fails[u] < MaxFailures, Failed(u)' = Failed(u)
    PROVE  CountFits(u)'
<1> DEFINE H == Cardinality(Guessing(u)')
           F == Cardinality(Failed(u))
<1>1. H \in Nat /\ F \in Nat /\ H <= Cardinality(Client) /\ Cardinality(Client) \in Nat /\ MaxFailures \in Nat
  BY GuessersAre, Finite
<1>2. fails[u] \in Nat /\ guesses[u] \in Nat
  BY DEF TypeOK
<1>3. guesses[u] <= fails[u] + F
  BY DEF CountFits
<1> HIDE DEF H, F
<1>4. fails'[u] + H <= Bound /\ guesses'[u] <= fails'[u] + F
  BY <1>1, <1>2, <1>3 DEF Bound
<1> QED
  BY <1>4 DEF CountFits, Bound, H, F

\* A guess that was wrong.
LEMMA CountFailed ==
    ASSUME TypeOK, NEW u \in User, NEW c \in Client, CountFits(u), fails'[u] = fails[u],
           guesses'[u] = guesses[u] + 1, Guessing(u)' = Guessing(u),
           Failed(u)' = Failed(u) \cup {c}, c \notin Failed(u)
    PROVE  CountFits(u)'
<1> DEFINE G == Cardinality(Guessing(u))
           F == Cardinality(Failed(u))
           E == Cardinality(Failed(u)')
<1>1. G \in Nat /\ F \in Nat /\ E = F + 1 /\ Cardinality(Client) \in Nat /\ MaxFailures \in Nat
  BY GuessersAre, Finite, FS_AddElement
<1>2. fails[u] \in Nat /\ guesses[u] \in Nat
  BY DEF TypeOK
<1>3. fails[u] + G <= Bound /\ guesses[u] <= fails[u] + F
  BY DEF CountFits, Bound
<1> HIDE DEF G, F, E
<1>4. fails'[u] + G <= Bound /\ guesses'[u] <= fails'[u] + E
  BY <1>1, <1>2, <1>3 DEF Bound
<1> QED
  BY <1>4 DEF CountFits, Bound, G, E

\* A failure that is counted, or that is forgotten.
LEMMA CountLeft ==
    ASSUME TypeOK, NEW u \in User, NEW c \in Client, CountFits(u),
           c \in Failed(u), Failed(u)' = Failed(u) \ {c}, Guessing(u)' = Guessing(u) \ {c},
           \/ fails'[u] = fails[u] + 1 /\ guesses'[u] = guesses[u]
           \/ /\ fails'[u] = fails[u]
              /\ guesses'[u] = IF guesses[u] > fails[u] THEN guesses[u] - 1 ELSE guesses[u]
    PROVE  CountFits(u)'
<1> DEFINE G == Cardinality(Guessing(u))
           H == Cardinality(Guessing(u)')
           F == Cardinality(Failed(u))
           E == Cardinality(Failed(u)')
<1>0. c \in Guessing(u)
  BY DEF Failed, Guessing, At
<1>1. /\ G \in Nat /\ F \in Nat /\ E \in Nat /\ H \in Nat /\ E = F - 1 /\ H = G - 1
      /\ Cardinality(Client) \in Nat /\ MaxFailures \in Nat
  BY <1>0, GuessersAre, Finite, FS_RemoveElement
<1>2. fails[u] \in Nat /\ guesses[u] \in Nat
  BY DEF TypeOK
<1>3. fails[u] + G <= Bound /\ guesses[u] <= fails[u] + F
  BY DEF CountFits, Bound
<1> HIDE DEF G, H, F, E
<1>4. fails'[u] + H <= Bound /\ guesses'[u] <= fails'[u] + E
  BY <1>1, <1>2, <1>3 DEF Bound
<1> QED
  BY <1>4 DEF CountFits, Bound, H, E

\* The steps that write the throttle's counts.
Counts(c) ==
    \/ ClearLoginThrottle(c) \/ RecordLoginFailure(c) \/ GoneAway(c) \/ Authenticate(c) \/ AuthenticateAgain(c)

LEMMA CountersAre ==
    ASSUME Next
    PROVE  \/ UNCHANGED <<fails, guesses>>
           \/ \E c \in Client : Counts(c)
           \/ \E u \in User : WindowEnds(u)
           \/ Restart
<1>1. ASSUME NEW c \in Client,
             SetupBegin(c) \/ SetupCheck(c) \/ SetupCommit(c) \/ SetupMark(c)
               \/ LoginBusy(c) \/ UpgradePasswordHash(c) \/ CreateSession(c)
               \/ FindSessionUser(c) \/ Logout(c) \/ ChangeBegin(c) \/ ChangePassword(c)
               \/ Rejected(c) \/ CreateUser(c) \/ UpdateAccess(c) \/ DeleteUser(c) \/ ResetPassword(c)
               \/ SetUserGrants(c)
               \/ (\E t \in Token : RevokeSession(c, t)) \/ (\E u \in User : LoginBegin(c, u))
      PROVE  UNCHANGED <<fails, guesses>>
  BY Zenon, <1>1 DEF SetupBegin, SetupCheck, SetupCommit, SetupMark, LoginBusy, UpgradePasswordHash,
                     CreateSession, FindSessionUser, Logout, ChangeBegin, ChangePassword, Rejected,
                     CreateUser, UpdateAccess, DeleteUser, ResetPassword, SetUserGrants, RevokeSession,
                     LoginBegin, dbVars, history
<1>2. ASSUME NEW c \in Client, NEW op, NEW u, NEW role, NEW off, NEW caps,
             AdminBegin(c, op, u, role, off, caps)
      PROVE  UNCHANGED <<fails, guesses>>
  BY <1>2 DEF AdminBegin, dbVars
<1>3. SetupExpires \/ (\E u \in User : RecoverPassword(u)) \/ (\E t \in Token : Expire(t))
         => UNCHANGED <<fails, guesses>>
  BY Zenon DEF SetupExpires, RecoverPassword, Expire, dbVars, history
<1> QED
  BY Zenon, <1>1, <1>2, <1>3 DEF Next, SignIn, AccountPage, Admin, Counts

\* A step of a sign-in that does not fail, seen from u.
LEMMA CountMoved ==
    ASSUME TypeOK, NEW u \in User, CountFits(u), fails'[u] = fails[u],
           guesses'[u] = guesses[u], NEW c \in Client, NEW r, Put(c, r),
           \/ c \notin Guessing(u)' \/ c \in Guessing(u),
           c \in Failed(u) => c \in Failed(u)'
    PROVE  CountFits(u)'
<1>1. \A d \in Client \ {c} : req'[d] = req[d]
  BY PutIs DEF TypeOK
<1>2. Guessing(u)' \subseteq Guessing(u) /\ Failed(u) \subseteq Failed(u)'
  BY <1>1 DEF Guessing, Failed, At
<1>3. guesses[u] \in Nat
  BY DEF TypeOK
<1> QED
  BY <1>2, <1>3, CountKept

LEMMA ClearCount ==
    ASSUME TypeOK, NEW c \in Client, ReqFits(c), ClearLoginThrottle(c),
           NEW u \in User, CountFits(u)
    PROVE  CountFits(u)'
<1>0. /\ fails' = [fails EXCEPT ![req[c].user] = 0]
      /\ guesses' = [guesses EXCEPT ![req[c].user] = 0]
      /\ fails \in [User -> Nat] /\ guesses \in [User -> Nat]
  BY DEF ClearLoginThrottle, TypeOK
<1>1. CASE u = req[c].user
  BY <1>0, <1>1, CountReset
<1>2. CASE u # req[c].user
  <2>1. fails'[u] = fails[u] /\ guesses'[u] = guesses[u]
    BY <1>0, <1>2
  <2>2. PICK r : Put(c, r)
    BY OtherMoves DEF ClearLoginThrottle
  <2>3. c \notin Guessing(u)' /\ c \notin Failed(u)
    BY <1>2 DEF Guessing, Failed, ClearLoginThrottle, At, Step, TypeOK, Requests
  <2> QED
    BY <2>1, <2>2, <2>3, CountMoved
<1> QED
  BY <1>1, <1>2

\* The sets when a sign-in that failed is answered.
LEMMA AnsweredSets ==
    ASSUME TypeOK, NEW c \in Client, Answer(c), NEW u \in User
    PROVE  Guessing(u)' = Guessing(u) \ {c} /\ Failed(u)' = Failed(u) \ {c}
<1>1. req'[c] = Idle /\ \A d \in Client \ {c} : req'[d] = req[d]
  BY DEF Answer, TypeOK
<1> QED
  BY <1>1, IdleIs DEF Guessing, Failed, At

LEMMA RecordCount ==
    ASSUME TypeOK, NEW c \in Client, ReqFits(c), RecordLoginFailure(c),
           NEW u \in User, CountFits(u)
    PROVE  CountFits(u)'
<1>0. /\ fails' = [fails EXCEPT ![req[c].user] = @ + 1] /\ UNCHANGED guesses
      /\ fails \in [User -> Nat] /\ guesses \in [User -> Nat] /\ At(c, "login", "failed")
  BY DEF RecordLoginFailure, Counted, TypeOK, history
<1>1. Guessing(u)' = Guessing(u) \ {c} /\ Failed(u)' = Failed(u) \ {c}
  BY AnsweredSets DEF RecordLoginFailure
<1>2. CASE u = req[c].user
  <2>1. c \in Failed(u)
    BY <1>0, <1>2 DEF Failed
  <2>2. fails'[u] = fails[u] + 1 /\ guesses'[u] = guesses[u]
    BY <1>0, <1>2
  <2> QED
    BY <1>1, <2>1, <2>2, CountLeft
<1>3. CASE u # req[c].user
  <2>1. c \notin Failed(u)
    BY <1>3 DEF Failed
  <2>2. fails'[u] = fails[u] /\ guesses'[u] = guesses[u] /\ guesses[u] \in Nat
    BY <1>0, <1>3
  <2>3. Guessing(u)' \subseteq Guessing(u) /\ Failed(u) \subseteq Failed(u)'
    BY <1>1, <2>1
  <2> QED
    BY <2>2, <2>3, CountKept
<1> QED
  BY <1>2, <1>3

LEMMA GoneCount ==
    ASSUME TypeOK, NEW c \in Client, ReqFits(c), GoneAway(c),
           NEW u \in User, CountFits(u)
    PROVE  CountFits(u)'
<1>0. /\ fails' = fails /\ fails \in [User -> Nat] /\ guesses \in [User -> Nat]
      /\ guesses' = IF At(c, "login", "failed") /\ guesses[req[c].user] > fails[req[c].user]
                    THEN [guesses EXCEPT ![req[c].user] = @ - 1] ELSE guesses
  BY DEF GoneAway, dbVars, TypeOK
<1>1. Guessing(u)' = Guessing(u) \ {c} /\ Failed(u)' = Failed(u) \ {c}
  BY AnsweredSets DEF GoneAway
<1>2. CASE c \in Failed(u)
  <2>1. At(c, "login", "failed") /\ u = req[c].user
    BY <1>2 DEF Failed
  <2>2. guesses'[u] = IF guesses[u] > fails[u] THEN guesses[u] - 1 ELSE guesses[u]
    BY <1>0, <2>1
  <2>3. fails'[u] = fails[u]
    BY <1>0
  <2> QED
    BY <1>1, <1>2, <2>2, <2>3, CountLeft
<1>3. CASE c \notin Failed(u)
  <2>1. At(c, "login", "failed") => u # req[c].user
    BY <1>3 DEF Failed
  <2>2. fails'[u] = fails[u] /\ guesses'[u] = guesses[u] /\ guesses[u] \in Nat
    BY <1>0, <2>1
  <2>3. Guessing(u)' \subseteq Guessing(u) /\ Failed(u) \subseteq Failed(u)'
    BY <1>1, <1>3
  <2> QED
    BY <2>2, <2>3, CountKept
<1> QED
  BY <1>2, <1>3

\* A guess is verified: it is wrong, or the sign-in goes on.
LEMMA GuessCount ==
    ASSUME TypeOK, NEW c \in Client, ReqFits(c), Authenticate(c) \/ AuthenticateAgain(c),
           NEW u \in User, CountFits(u)
    PROVE  CountFits(u)'
<1>0. /\ req \in [Client -> Requests] /\ fails \in [User -> Nat] /\ guesses \in [User -> Nat]
      /\ fails' = fails /\ req[c].op = "login" /\ req[c].pc \in {"asked", "work"}
      /\ req[c].user \in User
  BY DEF Authenticate, AuthenticateAgain, TypeOK, dbVars, At, ReqFits
<1>1. PICK next \in {"work", "failed", "upgrade", "checked"} :
         /\ \A d \in Client \ {c} : req'[d] = req[d]
         /\ req'[c].pc = next /\ req'[c].op = "login" /\ req'[c].user = req[c].user
         /\ guesses' = IF next = "failed" THEN [guesses EXCEPT ![req[c].user] = @ + 1] ELSE guesses
  <2>1. CASE Authenticate(c)
    BY <1>0, <2>1 DEF Authenticate, Step, Requests
  <2>2. CASE AuthenticateAgain(c)
    BY <1>0, <2>2 DEF AuthenticateAgain, Step, Requests
  <2> QED
    BY <2>1, <2>2
<1>2. CASE u # req[c].user \/ next # "failed"
  <2>1. fails'[u] = fails[u] /\ guesses'[u] = guesses[u] /\ guesses[u] \in Nat
    BY <1>0, <1>1, <1>2
  <2>2. Guessing(u)' \subseteq Guessing(u) /\ Failed(u) \subseteq Failed(u)'
    BY <1>0, <1>1 DEF Guessing, Failed, At
  <2> QED
    BY <2>1, <2>2, CountKept
<1>3. CASE u = req[c].user /\ next = "failed"
  <2>1. fails'[u] = fails[u] /\ guesses'[u] = guesses[u] + 1
    BY <1>0, <1>1, <1>3
  <2>2. Guessing(u)' = Guessing(u) /\ Failed(u)' = Failed(u) \cup {c} /\ c \notin Failed(u)
    BY <1>0, <1>1, <1>3 DEF Guessing, Failed, At
  <2> QED
    BY <2>1, <2>2, CountFailed
<1> QED
  BY <1>2, <1>3

LEMMA CountStep ==
    ASSUME TypeOK, Next, \A c \in Client : ReqFits(c), NEW u \in User, CountFits(u)
    PROVE  CountFits(u)'
<1>0. req \in [Client -> Requests] /\ fails[u] \in Nat /\ guesses[u] \in Nat
  BY DEF TypeOK
<1>1. ASSUME NEW c \in Client, Counts(c)
      PROVE  CountFits(u)'
  BY <1>1, ClearCount, RecordCount, GoneCount, GuessCount DEF Counts
<1>2. ASSUME NEW v \in User, WindowEnds(v)
      PROVE  CountFits(u)'
  <2>1. /\ fails' = [fails EXCEPT ![v] = 0] /\ guesses' = [guesses EXCEPT ![v] = 0] /\ UNCHANGED req
        /\ fails \in [User -> Nat] /\ guesses \in [User -> Nat]
    BY <1>2 DEF WindowEnds, TypeOK
  <2>2. CASE u = v
    BY <2>1, <2>2, CountReset
  <2>3. CASE u # v
    <3>1. fails'[u] = fails[u] /\ guesses'[u] = guesses[u]
      BY <2>1, <2>3
    <3>2. Guessing(u)' = Guessing(u) /\ Failed(u)' = Failed(u)
      BY <2>1 DEF Guessing, Failed, At
    <3> QED
      BY <1>0, <3>1, <3>2, CountKept
  <2> QED
    BY <2>2, <2>3
<1>3. CASE Restart
  <2>1. /\ fails'[u] = fails[u] /\ guesses'[u] \in Nat /\ guesses'[u] <= fails[u]
        /\ \A d \in Client : req'[d] = Idle
    BY <1>0, <1>3 DEF Restart, dbVars
  <2>2. Guessing(u)' = {} /\ Failed(u)' = {}
    BY <2>1, IdleIs DEF Guessing, Failed, At
  <2>3. Cardinality({}) = 0
    BY FS_EmptySet
  <2>4. fails[u] <= Bound
    <3> DEFINE G == Cardinality(Guessing(u))
    <3>1. G \in Nat /\ Cardinality(Client) \in Nat /\ MaxFailures \in Nat
      BY GuessersAre, Finite
    <3>2. fails[u] + G <= Bound
      BY DEF CountFits, Bound
    <3> HIDE DEF G
    <3> QED
      BY <1>0, <3>1, <3>2 DEF Bound
  <2>5. MaxFailures \in Nat /\ Cardinality(Client) \in Nat
    BY GuessersAre, Finite
  <2> QED
    BY <1>0, <2>1, <2>2, <2>3, <2>4, <2>5 DEF CountFits, Bound
<1>4. CASE UNCHANGED <<fails, guesses>> /\ ~\E c \in Client : Counts(c)
  <2>0. fails'[u] = fails[u] /\ guesses'[u] = guesses[u]
    BY <1>4
  <2>1. CASE UNCHANGED req
    <3>1. Guessing(u)' = Guessing(u) /\ Failed(u)' = Failed(u)
      BY <2>1 DEF Guessing, Failed, At
    <3> QED
      BY <1>0, <2>0, <3>1, CountKept
  <2>2. ASSUME NEW c \in Client, NEW r, Put(c, r), Changed(c, r)
        PROVE  CountFits(u)'
    <3>1. req'[c] = r /\ r \in Requests /\ \A d \in Client \ {c} : req'[d] = req[d]
      BY <1>0, <2>2, PutIs
    <3>2. CASE Begins(c, r) /\ r.op = "login" /\ r.user = u
      <4>1. fails[u] < MaxFailures /\ req[c].pc = "idle" /\ r.pc = "asked"
        BY <3>2 DEF Begins, AdminOps
      <4>2. Failed(u)' = Failed(u)
        BY <3>1, <4>1 DEF Failed, At
      <4> QED
        BY <2>0, <4>1, <4>2, CountBegun
    <3>3. CASE Begins(c, r) /\ ~(r.op = "login" /\ r.user = u)
      <4>1. c \notin Guessing(u)' /\ c \notin Failed(u)
        BY <3>1, <3>3 DEF Begins, Guessing, Failed, At
      <4> QED
        BY <2>0, <2>2, <4>1, CountMoved
    <3>4. CASE Reads(c, r)
      <4>1. (c \in Guessing(u)' => c \in Guessing(u)) /\ c \notin Failed(u)
        BY <3>1, <3>4 DEF Reads, Guessing, Failed, At
      <4> QED
        BY <2>0, <2>2, <4>1, CountMoved
    <3>5. CASE Moves(c, r)
      <4>1. (c \in Guessing(u)' => c \in Guessing(u)) /\ c \notin Failed(u)
        BY <3>1, <3>5 DEF Moves, Guessing, Failed, At
      <4> QED
        BY <2>0, <2>2, <4>1, CountMoved
    <3>6. CASE Upgrades(c, r)
      <4>1. c \notin Guessing(u)' /\ c \notin Failed(u)
        BY <3>1, <3>6 DEF Upgrades, UpgradePasswordHash, Guessing, Failed, At
      <4> QED
        BY <2>0, <2>2, <4>1, CountMoved
    <3>7. CASE Ends(c, r)
      <4>1. ~At(c, "login", "failed")
        BY <1>4, <3>7 DEF Ends, Counts
      <4>2. c \notin Guessing(u)' /\ c \notin Failed(u)
        BY <3>1, <3>7, <4>1, IdleIs DEF Ends, Guessing, Failed
      <4> QED
        BY <2>0, <2>2, <4>2, CountMoved
    <3> QED
      BY <2>2, <3>2, <3>3, <3>4, <3>5, <3>6, <3>7 DEF Changed
  <2> QED
    BY <1>3, <2>1, <2>2, RequestStep
<1> QED
  BY <1>1, <1>2, <1>3, <1>4, CountersAre

-----------------------------------------------------------------------------
(* The invariant, step by step.                                            *)

LEMMA GrantsStep ==
    ASSUME TypeOK, Next
    PROVE  grants' \in [User -> SUBSET Capability]
<1>1. ASSUME NEW c \in Client, DeleteUser(c) \/ SetUserGrants(c)
      PROVE  grants' \in [User -> SUBSET Capability]
  <2>1. req[c].caps \in SUBSET Capability
    BY DEF TypeOK, Requests
  <2> QED
    BY <1>1, <2>1 DEF DeleteUser, SetUserGrants, TypeOK
<1>2. ASSUME NEW c \in Client, NEW op, NEW u, NEW role, NEW off, NEW caps,
             AdminBegin(c, op, u, role, off, caps)
      PROVE  UNCHANGED grants
  BY Zenon, <1>2 DEF AdminBegin, dbVars
<1>3. ASSUME NEW c \in Client,
             SetupBegin(c) \/ SetupCheck(c) \/ SetupCommit(c) \/ SetupMark(c) \/ SignIn(c)
               \/ FindSessionUser(c) \/ Logout(c) \/ AccountPage(c) \/ GoneAway(c)
               \/ Rejected(c) \/ CreateUser(c) \/ UpdateAccess(c) \/ ResetPassword(c)
      PROVE  UNCHANGED grants
  BY Zenon, <1>3 DEF SetupBegin, SetupCheck, SetupCommit, SetupMark, SignIn, LoginBegin, LoginBusy,
                     Authenticate, AuthenticateAgain, UpgradePasswordHash, ClearLoginThrottle,
                     CreateSession, RecordLoginFailure, FindSessionUser, Logout, AccountPage,
                     RevokeSession, ChangeBegin, ChangePassword, GoneAway, Rejected, CreateUser,
                     UpdateAccess, ResetPassword, dbVars
<1>4. SetupExpires \/ Restart \/ (\E u \in User : WindowEnds(u) \/ RecoverPassword(u))
        \/ (\E t \in Token : Expire(t)) => UNCHANGED grants
  BY Zenon DEF SetupExpires, Restart, WindowEnds, RecoverPassword, Expire, dbVars
<1>5. grants \in [User -> SUBSET Capability]
  BY DEF TypeOK
<1> QED
  BY Zenon, <1>1, <1>2, <1>3, <1>4, <1>5 DEF Next, Admin

LEMMA CountersStep ==
    ASSUME TypeOK, Next, \A c \in Client : ReqFits(c)
    PROVE  fails' \in [User -> Nat] /\ guesses' \in [User -> Nat]
<1>0. /\ fails \in [User -> Nat] /\ guesses \in [User -> Nat]
      /\ \A c \in Client : req[c].op = "login" => req[c].user \in User
  BY DEF TypeOK, ReqFits
<1>1. ASSUME NEW c \in Client, Counts(c)
      PROVE  fails' \in [User -> Nat] /\ guesses' \in [User -> Nat]
  <2>1. CASE ClearLoginThrottle(c)
    BY <1>0, <2>1 DEF ClearLoginThrottle
  <2>2. CASE RecordLoginFailure(c)
    BY <1>0, <2>2 DEF RecordLoginFailure, Counted, At, history
  <2>3. CASE GoneAway(c)
    <3>1. UNCHANGED fails
      BY <2>3 DEF GoneAway, dbVars
    <3>2. CASE At(c, "login", "failed") /\ guesses[req[c].user] > fails[req[c].user]
      <4>1. req[c].user \in User
        BY <1>0, <3>2 DEF At
      <4>2. guesses[req[c].user] - 1 \in Nat
        BY <1>0, <3>2, <4>1
      <4> QED
        BY <1>0, <2>3, <3>1, <3>2, <4>1, <4>2 DEF GoneAway
    <3> QED
      BY <1>0, <2>3, <3>1, <3>2 DEF GoneAway
  <2>4. CASE Authenticate(c)
    BY <1>0, <2>4 DEF Authenticate, At, dbVars
  <2>5. CASE AuthenticateAgain(c)
    BY <1>0, <2>5 DEF AuthenticateAgain, At, dbVars
  <2> QED
    BY <1>1, <2>1, <2>2, <2>3, <2>4, <2>5 DEF Counts
<1>2. ASSUME NEW u \in User, WindowEnds(u)
      PROVE  fails' \in [User -> Nat] /\ guesses' \in [User -> Nat]
  BY <1>0, <1>2 DEF WindowEnds
<1>3. CASE Restart
  BY <1>0, <1>3 DEF Restart, dbVars
<1> QED
  BY <1>0, <1>1, <1>2, <1>3, CountersAre

LEMMA SetupStep ==
    ASSUME TypeOK, Next
    PROVE  setup' \in [open : BOOLEAN, completed : BOOLEAN]
<1>1. ASSUME NEW c \in Client, SetupMark(c)
      PROVE  setup' \in [open : BOOLEAN, completed : BOOLEAN]
  BY <1>1 DEF SetupMark, TypeOK
<1>2. SetupExpires => setup' \in [open : BOOLEAN, completed : BOOLEAN]
  BY DEF SetupExpires, TypeOK
<1>2a. Restart => setup' \in [open : BOOLEAN, completed : BOOLEAN]
  <2>1. [open |-> TRUE, completed |-> FALSE] \in [open : BOOLEAN, completed : BOOLEAN]
    BY Zenon
  <2> QED
    BY Zenon, <2>1 DEF Restart
<1>3. ASSUME NEW c \in Client, NEW op, NEW u, NEW role, NEW off, NEW caps,
             AdminBegin(c, op, u, role, off, caps)
      PROVE  UNCHANGED setup
  BY Zenon, <1>3 DEF AdminBegin
<1>4. ASSUME NEW c \in Client,
             SetupBegin(c) \/ SetupCheck(c) \/ SetupCommit(c) \/ SignIn(c)
               \/ FindSessionUser(c) \/ Logout(c) \/ AccountPage(c) \/ GoneAway(c)
               \/ Rejected(c) \/ CreateUser(c) \/ UpdateAccess(c) \/ DeleteUser(c) \/ ResetPassword(c)
               \/ SetUserGrants(c)
      PROVE  UNCHANGED setup
  BY Zenon, <1>4 DEF SetupBegin, SetupCheck, SetupCommit, SignIn, LoginBegin, LoginBusy,
                     Authenticate, AuthenticateAgain, UpgradePasswordHash, ClearLoginThrottle,
                     CreateSession, RecordLoginFailure, FindSessionUser, Logout, AccountPage,
                     RevokeSession, ChangeBegin, ChangePassword, GoneAway, Rejected, CreateUser,
                     UpdateAccess, DeleteUser, ResetPassword, SetUserGrants
<1>5. (\E u \in User : WindowEnds(u) \/ RecoverPassword(u)) \/ (\E t \in Token : Expire(t))
        => UNCHANGED setup
  BY Zenon DEF WindowEnds, RecoverPassword, Expire
<1>6. setup \in [open : BOOLEAN, completed : BOOLEAN]
  BY DEF TypeOK
<1> QED
  BY Zenon, <1>1, <1>2, <1>3, <1>2a, <1>4, <1>5, <1>6 DEF Next, Admin

LEMMA CookieStep ==
    ASSUME TypeOK, Next
    PROVE  cookie' \in [Client -> Token \cup {None}]
<1>0. cookie \in [Client -> Token \cup {None}]
  BY DEF TypeOK
<1>1. ASSUME NEW c \in Client, SetupCommit(c) \/ CreateSession(c) \/ ChangePassword(c)
      PROVE  cookie' \in [Client -> Token \cup {None}]
  <2>1. NewToken \in Token
    BY <1>1, TokenIsNew DEF SetupCommit, CreateSession, ChangePassword
  <2>2. UNCHANGED cookie \/ SetSessionCookie(c, NewToken)
    BY Zenon, <1>1 DEF SetupCommit, CreateSession, ChangePassword
  <2> QED
    BY <1>0, <2>1, <2>2 DEF SetSessionCookie
<1>2. ASSUME NEW c \in Client, NEW t \in Token, Logout(c) \/ RevokeSession(c, t)
      PROVE  cookie' \in [Client -> Token \cup {None}]
  BY <1>0, <1>2 DEF Logout, RevokeSession, SetSessionCookie
<1>2a. ASSUME NEW c \in Client, Logout(c)
      PROVE  cookie' \in [Client -> Token \cup {None}]
  BY <1>0, <1>2a DEF Logout, SetSessionCookie
<1>3. ASSUME NEW c \in Client, NEW op, NEW u, NEW role, NEW off, NEW caps,
             AdminBegin(c, op, u, role, off, caps)
      PROVE  UNCHANGED cookie
  BY Zenon, <1>3 DEF AdminBegin
<1>4. ASSUME NEW c \in Client,
             SetupBegin(c) \/ SetupCheck(c) \/ SetupMark(c) \/ LoginBusy(c)
               \/ Authenticate(c) \/ AuthenticateAgain(c) \/ UpgradePasswordHash(c)
               \/ ClearLoginThrottle(c) \/ RecordLoginFailure(c) \/ FindSessionUser(c)
               \/ ChangeBegin(c) \/ GoneAway(c) \/ Rejected(c) \/ CreateUser(c) \/ UpdateAccess(c)
               \/ DeleteUser(c) \/ ResetPassword(c) \/ SetUserGrants(c)
               \/ (\E u \in User : LoginBegin(c, u))
      PROVE  UNCHANGED cookie
  BY Zenon, <1>4 DEF SetupBegin, SetupCheck, SetupMark, LoginBegin, LoginBusy,
                     Authenticate, AuthenticateAgain, UpgradePasswordHash, ClearLoginThrottle,
                     RecordLoginFailure, FindSessionUser, ChangeBegin, GoneAway, Rejected, CreateUser,
                     UpdateAccess, DeleteUser, ResetPassword, SetUserGrants
<1>5. SetupExpires \/ Restart \/ (\E u \in User : WindowEnds(u) \/ RecoverPassword(u))
        \/ (\E t \in Token : Expire(t)) => UNCHANGED cookie
  BY Zenon DEF SetupExpires, Restart, WindowEnds, RecoverPassword, Expire
<1> QED
  BY Zenon, <1>0, <1>1, <1>2, <1>2a, <1>3, <1>4, <1>5 DEF Next, SignIn, AccountPage, Admin

LEMMA InitFits ==
    ASSUME Init
    PROVE  IInv
<1>1. PICK old \in SUBSET User, h \in Weak :
         /\ users = [u \in User |-> IF u \in old THEN Account("admin", h) ELSE None]
         /\ made = IF old = {} THEN 0 ELSE 1
  BY DEF Init
<1>2. /\ h \in Hash
      /\ \A u \in User : Account("admin", h) \in AccountRows /\ Account("admin", h) # None
  <2>1. h \in Hash
    BY DEF ParametersFit
  <2>2. Account("admin", h) \in AccountRows
    BY Zenon, <2>1 DEF Account, AccountRows, Roles
  <2> QED
    BY <2>1, <2>2 DEF ParametersFit
<1>3. /\ Idle \in Requests /\ \A c \in Client : req[c] = Idle
      /\ \A c \in Client : ReqFits(c) /\ HashFits(c) /\ EraFits(c) /\ EndedFits(c)
  <2>1. Idle \in Requests /\ \A c \in Client : req[c] = Idle
    BY IdleIs DEF Init
  <2>2. \A c \in Client : req[c].op = "none" /\ req[c].pc = "idle" /\ req[c].new = None /\ req[c].token = None
    BY <2>1, IdleIs
  <2>3. ASSUME NEW c \in Client
        PROVE  ReqFits(c)
    BY <2>2 DEF ReqFits, Verified, At, AdminOps, Ops
  <2>4. ASSUME NEW c \in Client
        PROVE  HashFits(c) /\ EraFits(c) /\ EndedFits(c)
    BY <2>2 DEF HashFits, EraFits, EndedFits, Fresh, Verified, At
  <2> QED
    BY <2>1, <2>3, <2>4
<1>4. \A t \in Token : SessionFits(t)
  BY DEF Init, SessionFits
<1>5. ASSUME NEW u \in User
      PROVE  CountFits(u)
  <2>1. Guessing(u) = {} /\ Failed(u) = {}
    BY <1>3, IdleIs DEF Guessing, Failed, At
  <2>2. fails[u] = 0 /\ guesses[u] = 0
    BY DEF Init
  <2>3. Cardinality(Client) \in Nat /\ MaxFailures \in Nat \ {0} /\ Cardinality({}) = 0
    BY FS_EmptySet, GuessersAre, Finite
  <2> QED
    BY <2>1, <2>2, <2>3 DEF CountFits
<1>6. made <= 1 /\ (made = 1 => Admins # {}) /\ made \in Nat
  <2>1. CASE old = {}
    BY <1>1, <2>1
  <2>2. CASE old # {}
    <3>1. PICK u \in old : TRUE
      BY <2>2
    <3>2. users[u] = Account("admin", h) /\ u \in User
      BY <1>1, <3>1
    <3>3. u \in Admins
      BY <1>2, <3>2 DEF Admins, Enabled, Exists, Account
    <3> QED
      BY <1>1, <2>2, <3>3
  <2> QED
    BY <2>1, <2>2
<1>7. TypeOK
  <2>1. users \in [User -> {None} \cup AccountRows]
    BY <1>1, <1>2
  <2>2. sessions \in [Token -> {None} \cup SessionRows] /\ grants \in [User -> SUBSET Capability]
        /\ cookie \in [Client -> Token \cup {None}]
    BY Zenon DEF Init
  <2>3. fails \in [User -> Nat] /\ guesses \in [User -> Nat]
    BY DEF Init
  <2>4. setup \in [open : BOOLEAN, completed : BOOLEAN] /\ late \in BOOLEAN /\ ended \in SUBSET Client
    BY Zenon DEF Init
  <2>5. req \in [Client -> Requests]
    BY <1>3 DEF Init
  <2> QED
    BY <1>6, <2>1, <2>2, <2>3, <2>4, <2>5 DEF TypeOK
<1>8. ~late
  BY DEF Init
<1> QED
  BY <1>3, <1>4, <1>5, <1>6, <1>7, <1>8 DEF IInv

LEMMA StepFits ==
    ASSUME IInv, Next
    PROVE  IInv'
<1>1. /\ TypeOK /\ ~late /\ Whole /\ req \in [Client -> Requests]
      /\ \A c \in Client : ReqFits(c) /\ HashFits(c) /\ EraFits(c) /\ EndedFits(c)
  BY DEF IInv, TypeOK, Whole
<1>2. Whole'
  BY <1>1, WholeStep
<1>3. req' \in [Client -> Requests] /\ \A c \in Client : ReqFits(c)'
  BY <1>1, RequestsFit
<1>4. \A c \in Client : HashFits(c)' /\ EraFits(c)' /\ EndedFits(c)'
  BY <1>1, HashStep, EraStep, EndedStep
<1>5. \A u \in User : CountFits(u)'
  BY <1>1, CountStep DEF IInv
<1>6. late' = FALSE
  BY <1>1, LateStep
<1>7. ended' \in SUBSET Client
  BY <1>1, TokensStep DEF EndsSessions, TypeOK
<1>8. /\ grants' \in [User -> SUBSET Capability]
      /\ setup' \in [open : BOOLEAN, completed : BOOLEAN]
      /\ cookie' \in [Client -> Token \cup {None}]
      /\ fails' \in [User -> Nat] /\ guesses' \in [User -> Nat]
  BY <1>1, GrantsStep, SetupStep, CookieStep, CountersStep
<1>9. TypeOK'
  BY Zenon, <1>2, <1>3, <1>6, <1>7, <1>8 DEF TypeOK, Whole
<1> QED
  BY Zenon, <1>2, <1>3, <1>4, <1>5, <1>6, <1>9 DEF IInv, Whole

LEMMA StaysFitting ==
    ASSUME IInv, UNCHANGED vars
    PROVE  IInv'
<1>1. TypeOK'
  BY Zenon DEF vars, dbVars, history, IInv, TypeOK
<1>2. \A c \in Client : ReqFits(c)' /\ HashFits(c)'
  BY Zenon DEF vars, dbVars, history, IInv, ReqFits, HashFits, Guessing, Failed, At, Fresh,
     Verified, Admins, Enabled, Exists, Owner
<1>3. \A c \in Client : EraFits(c)' /\ EndedFits(c)'
  BY Zenon DEF vars, dbVars, history, IInv, EraFits, EndedFits, Guessing, Failed, At, Fresh,
     Verified, Admins, Enabled, Exists, Owner
<1>4. (\A t \in Token : SessionFits(t)') /\ (\A u \in User : CountFits(u)')
  BY Zenon DEF vars, dbVars, history, IInv, SessionFits, CountFits, Guessing, Failed, At, Fresh,
     Verified, Admins, Enabled, Exists, Owner
<1>5. (made <= 1 /\ (made = 1 => Admins # {}) /\ ~late)'
  BY Zenon DEF vars, dbVars, history, IInv, Admins, Enabled, Exists, Owner
<1> QED BY Zenon, <1>1, <1>2, <1>3, <1>4, <1>5 DEF IInv

LEMMA InvariantHolds == Spec => []IInv
<1>1. Init => IInv
  BY InitFits
<1>2. IInv /\ [Next]_vars => IInv'
  BY StepFits, StaysFitting
<1> QED
  BY <1>1, <1>2, PTL DEF Spec

-----------------------------------------------------------------------------
\* An account's capabilities are within its role's and none come without "view".
LEMMA AccessFits ==
    ASSUME TypeOK, NEW u \in User, Access(u) # {}
    PROVE  Access(u) \subseteq RoleCeiling(users[u].role) /\ "view" \in Access(u)
<1>1. Enabled(u) /\ Access(u) = RoleCapabilities(u)
  BY DEF Access
<1>2. users[u].role \in Roles
  BY <1>1 DEF TypeOK, Enabled, Exists, AccountRows
<1>3. "view" \in RoleCeiling(users[u].role) /\ (users[u].role = "admin" => RoleCeiling(users[u].role) = Capability)
  BY <1>2 DEF RoleCeiling, Roles, Capability
<1> QED
  BY <1>1, <1>3 DEF RoleCapabilities, Capability

LEMMA GuessesFit ==
    ASSUME TypeOK, NEW u \in User, CountFits(u)
    PROVE  guesses[u] <= MaxFailures + Cardinality(Client) - 1
<1> DEFINE G == Cardinality(Guessing(u))
           F == Cardinality(Failed(u))
<1>1. Failed(u) \subseteq Guessing(u)
  BY DEF Failed, Guessing, At
<1>2. G \in Nat /\ F \in Nat /\ F <= G /\ Cardinality(Client) \in Nat /\ MaxFailures \in Nat
  BY <1>1, GuessersAre, Finite, FS_Subset
<1>3. fails[u] \in Nat /\ guesses[u] \in Nat
  BY DEF TypeOK
<1>4. fails[u] + G <= MaxFailures + Cardinality(Client) - 1 /\ guesses[u] <= fails[u] + F
  BY DEF CountFits
<1> HIDE DEF G, F
<1> QED
  BY <1>2, <1>3, <1>4

(* Setup creates one account at most, and from then on an enabled          *)
(* administrator remains: for any number of accounts, browsers and         *)
(* requests, whichever race.                                               *)
THEOREM AdminRemainsHolds == Spec => []AdminRemains
<1>1. IInv => AdminRemains
  BY DEF IInv, AdminRemains
<1> QED
  BY <1>1, InvariantHolds, PTL

(* A session belongs to an enabled account and to the password it has; an  *)
(* account may do no more than its role; no request commits a change after *)
(* its session ended; and the throttle bounds the guesses at a password:   *)
(* for any numbers, whichever requests race.                               *)
THEOREM AccessIsCurrentHolds == Spec => []AccessIsCurrent
<1>1. IInv => AccessIsCurrent
  BY AccessFits, GuessesFit DEF IInv, AccessIsCurrent, SessionFits
<1> QED
  BY <1>1, InvariantHolds, PTL

-----------------------------------------------------------------------------
(* Update.  The inductive invariant ties each step to the stage that was   *)
(* saved (PlaceFits): the stage alone tells recovery which way to go, and  *)
(* what Ludock may have done to the original (OrigFits), to the            *)
(* replacement (ReplFits) and so that they never run at once (Apart).      *)

\* The steps of an update, by how far the swap is.
Early == {"check", "pull", "recordStop", "stop", "stopped", "backup", "creating"}
Creating == {"policy", "create", "saveID", "image", "assertStopped", "starting"}
Back == {"removeReplacement", "inspectOriginal", "restorePolicy"}
Forth == {"removeOriginal", "givePolicy", "rename", "replaced"}
Restoring == {"restoreState", "restart", "restored"}
Ended == {"finish", "done"}

\* What each step tells of the stage saved and of the mode.
PlaceFits ==
    /\ row = "finished" <=> pc = "done"
    /\ pc \in RunSteps => mode = "run"
    /\ pc \in Early => stage = "none"
    /\ pc \in Creating => stage = "creating"
    /\ pc \in {"start", "await"} => stage = "starting"
    /\ pc \in {"confirm", "replacing"} => stage \in {"creating", "starting"}
    /\ pc \in Back => stage \in {"creating", "starting"} /\ mode # "run"
    /\ pc \in Forth => stage = "replacing"
    /\ pc = "settle" /\ mode = "run" => stage = "replacing"
    /\ pc = "undo" => stage # "replacing" /\ mode # "run"
    /\ pc \in Restoring => stage \in {"none", "creating"} /\ mode # "run"
    /\ pc \in Ended /\ stage = "replacing" => reported

\* Only a removed container has a remover; one that Ludock started has run.
ContainerFits(c) ==
    /\ c.state = "gone" <=> c.remover # "nobody"
    /\ Running(c) /\ c.starter = "ludock" => c.ran

\* The original by the stage: removed by Ludock only once the replacement took over, started
\* again by Ludock only while the replacement never ran.
OrigFits ==
    /\ ContainerFits(orig) /\ orig.state # "none" /\ orig.name = "server"
    /\ orig.ran => stage \in {"none", "creating"} /\ pc \notin RunSteps
    /\ orig.remover = "ludock" => stage \in {"replacing", "replaced"}
    /\ stage = "none" => orig.policy = "own"
    /\ pc \in {"undo"} \cup Restoring \cup Ended /\ stage \in {"creating", "starting"} =>
          orig.policy = "own" \/ reported
    /\ stage = "replaced" \/ pc \in Forth \ {"removeOriginal"} => ~Present(orig)

\* The replacement: removed by Ludock only on the way back, restarted by Docker only when it
\* has taken over.
ReplFits ==
    /\ ContainerFits(repl)
    /\ Running(repl) => repl.starter # "nobody"
    /\ repl.starter = "docker" => repl.policy = "own"
    /\ repl.ran => stage \in {"starting", "replacing", "replaced"}
    /\ repl.remover = "ludock" => stage \in {"creating", "starting"} /\ pc \notin RunSteps
    /\ stage = "none" \/ pc \in {"policy", "create"} => repl.state = "none"
    /\ stage \in {"starting", "replacing", "replaced"}
         \/ pc \in {"saveID", "image", "assertStopped", "starting", "confirm", "replacing"} =>
          repl.state # "none"
    /\ repl.policy = "own" => stage \in {"replacing", "replaced"} /\ ~Present(orig)
    /\ pc \in (Back \cup {"undo"} \cup Restoring \cup Ended) \ {"removeReplacement"}
         /\ stage \in {"creating", "starting"} => ~Present(repl)
    /\ stage = "replaced" \/ pc \in {"rename", "replaced"} => repl.policy = "own"
    /\ stage = "replaced" \/ pc = "replaced" => repl.name = "server"

\* From the check before the first start on, the original is down and stays so, unless
\* somebody else starts it.
Apart ==
    /\ pc \in {"create", "saveID", "image", "assertStopped", "starting", "start", "await", "confirm",
              "replacing"} => orig.policy = "no"
    /\ \/ pc \in {"starting", "replacing"}
       \/ stage \in {"starting", "replacing", "replaced"} /\ Present(repl)
       =>
          \/ ~Present(orig)
          \/ orig.policy = "no" /\ (Running(orig) => orig.starter = "other")

UpdateInv == UpdateTypeOK /\ PlaceFits /\ OrigFits /\ ReplFits /\ Apart

\* The stages, and what reached compares.
LEMMA StageIs == UpdateTypeOK => stage \in {"none", "creating", "starting", "replacing", "replaced"}
BY DEF UpdateTypeOK, Stages

LEMMA ReachedIs ==
    ASSUME UpdateTypeOK
    PROVE  reached("starting") <=> stage \in {"starting", "replacing", "replaced"}
<1>1. DOMAIN Stages = 1..5 /\ Stages[1] = "none" /\ Stages[2] = "creating" /\ Stages[3] = "starting"
      /\ Stages[4] = "replacing" /\ Stages[5] = "replaced"
  BY DEF Stages
<1>2. \A i \in 1..5 : i = 1 \/ i = 2 \/ i = 3 \/ i = 4 \/ i = 5
  OBVIOUS
<1> QED BY StageIs, <1>1, <1>2 DEF reached

\* Every step leaves Ludock at a place that its saved stage fits.
LEMMA PlaceKeeps ==
    ASSUME UpdateInv, UpdateNext
    PROVE  PlaceFits'
<1> USE DEF GoTo, unchangedRest, savedVars, boundVars, dockerVars, PlaceFits, RunSteps,
     SettleSteps, Early, Creating, Back, Forth, Restoring, Ended, Settled, Fails
<1>0. /\ PlaceFits /\ row \in {"running", "finished"} /\ mode \in {"run", "undo", "recover"}
      /\ stage \in {"none", "creating", "starting", "replacing", "replaced"}
      /\ pc \in RunSteps \cup SettleSteps \cup EndSteps \cup {"down", "done"}
  BY StageIs DEF UpdateInv, UpdateTypeOK
<1>a. reached("starting") <=> stage \in {"starting", "replacing", "replaced"}
  BY ReachedIs DEF UpdateInv
<1>1. CASE Check
  BY <1>0, <1>1 DEF Check
<1>2. CASE Pull
  BY <1>0, <1>2 DEF Pull
<1>3. CASE RecordStop
  BY <1>0, <1>3 DEF RecordStop
<1>4. CASE StopServer
  BY <1>0, <1>4 DEF StopServer
<1>5. CASE SaveStopped
  BY <1>0, <1>5 DEF SaveStopped
<1>6. CASE Backup
  BY <1>0, <1>6 DEF Backup
<1>7. CASE SaveStage
  BY <1>0, <1>7 DEF SaveStage
<1>8. CASE NoRestart
  BY <1>0, <1>8 DEF NoRestart
<1>9. CASE Create
  BY <1>0, <1>9 DEF Create
<1>10. CASE SaveID
  BY <1>0, <1>10 DEF SaveID
<1>11. CASE CheckImage
  BY <1>0, <1>11 DEF CheckImage
<1>12. CASE AssertStopped
  BY <1>0, <1>12 DEF AssertStopped
<1>13. CASE StartReplacement
  BY <1>0, <1>13 DEF StartReplacement
<1>14. CASE awaitReplacement
  BY <1>0, <1>14 DEF awaitReplacement
<1>15. CASE settleSwap
  BY <1>0, <1>15 DEF settleSwap
<1>16. CASE RemoveReplacement
  BY <1>0, <1>16 DEF RemoveReplacement
<1>17. CASE InspectOriginal
  BY <1>0, <1>17 DEF InspectOriginal
<1>18. CASE RestorePolicy
  BY <1>0, <1>18 DEF RestorePolicy
<1>19. CASE RemoveOriginal
  BY <1>0, <1>19 DEF RemoveOriginal
<1>20. CASE GivePolicy
  BY <1>0, <1>20 DEF GivePolicy
<1>21. CASE Rename
  BY <1>0, <1>21 DEF Rename
<1>22. CASE SaveReplaced
  BY <1>0, <1>22 DEF SaveReplaced
<1>23. CASE Undo
  BY <1>0, <1>a, <1>23 DEF Undo
<1>24. CASE RestoreState
  BY <1>0, <1>24 DEF RestoreState
<1>25. CASE RestartOriginal
  BY <1>0, <1>25 DEF RestartOriginal
<1>26. CASE SaveRestored
  BY <1>0, <1>26 DEF SaveRestored
<1>27. CASE Finish
  BY <1>0, <1>27 DEF Finish
<1>28. CASE StepFails
  BY <1>0, <1>28 DEF StepFails
<1>29. CASE RestoreStateFails
  BY <1>0, <1>29 DEF RestoreStateFails
<1>30. CASE Recover
  BY <1>0, <1>30 DEF Recover
<1>31. CASE Crash
  BY <1>0, <1>31 DEF Crash
<1>32. CASE DockerRestart
  BY <1>0, <1>32 DEF DockerRestart
<1>33. CASE Outsider
  BY <1>0, <1>33 DEF Outsider
<1>34. CASE Done
  BY <1>0, <1>34 DEF Done, updateVars
<1> QED BY <1>1, <1>2, <1>3, <1>4, <1>5, <1>6, <1>7, <1>8, <1>9, <1>10, <1>11, <1>12, <1>13,
     <1>14, <1>15, <1>16, <1>17, <1>18, <1>19, <1>20, <1>21, <1>22, <1>23, <1>24, <1>25, <1>26,
     <1>27, <1>28, <1>29, <1>30, <1>31, <1>32, <1>33, <1>34 DEF UpdateNext, LudockStep

\* What Docker does to a container.
LEMMA StartedIs ==
    ASSUME NEW c \in Containers, NEW by \in {"ludock", "docker", "other"}
    PROVE  /\ Started(c, by) \in Containers
           /\ Running(c) => Started(c, by) = c
           /\ ~Running(c) => /\ Started(c, by).state = "running" /\ Started(c, by).starter = by
                            /\ Started(c, by).policy = c.policy /\ Started(c, by).name = c.name
                            /\ Started(c, by).remover = c.remover
                            /\ (Started(c, by).ran <=> c.ran \/ by = "ludock")
<1>1. CASE Running(c)
  BY <1>1 DEF Started
<1>2. CASE ~Running(c) /\ by = "ludock"
  <2>1. (c.ran \/ by = "ludock") = TRUE
    BY <1>2
  <2>2. Started(c, by) = [c EXCEPT !.state = "running", !.startedAt = c.startedAt + 1, !.starter = by, !.ran = TRUE]
    BY <1>2, <2>1, Zenon DEF Started
  <2>3. Started(c, by).ran = TRUE
    BY <2>2 DEF Containers
  <2>4. Started(c, by).ran <=> c.ran \/ by = "ludock"
    BY <1>2, <2>3, Zenon
  <2>5. /\ Started(c, by) \in Containers
        /\ Started(c, by).state = "running" /\ Started(c, by).starter = by
        /\ Started(c, by).policy = c.policy /\ Started(c, by).name = c.name
        /\ Started(c, by).remover = c.remover
    <3> DEFINE n == c.startedAt + 1  d == Started(c, by)
    <3>1. n \in Nat
      BY DEF Containers
    <3>2. d = [c EXCEPT !.state = "running", !.startedAt = n, !.starter = by, !.ran = TRUE]
      BY <2>2
    <3> HIDE DEF n, d
    <3>3. /\ d \in Containers /\ d.state = "running" /\ d.starter = by
          /\ d.policy = c.policy /\ d.name = c.name /\ d.remover = c.remover
      BY <3>1, <3>2 DEF Containers
    <3> QED BY <3>3 DEF d
  <2> QED BY <1>2, <2>4, <2>5, Zenon
<1>3. CASE ~Running(c) /\ by # "ludock"
  <2>1. c.ran \in BOOLEAN
    BY DEF Containers
  <2>2. (c.ran \/ by = "ludock") = c.ran
    BY <1>3, <2>1
  <2>3. Started(c, by) = [c EXCEPT !.state = "running", !.startedAt = c.startedAt + 1, !.starter = by]
    <3>1. [c EXCEPT !.state = "running", !.startedAt = c.startedAt + 1, !.starter = by, !.ran = c.ran]
            = [c EXCEPT !.state = "running", !.startedAt = c.startedAt + 1, !.starter = by]
      BY DEF Containers
    <3> QED BY <1>3, <2>2, <3>1, Zenon DEF Started
  <2>4. Started(c, by).ran = c.ran
    BY <2>3 DEF Containers
  <2>5. Started(c, by).ran <=> c.ran \/ by = "ludock"
    BY <1>3, <2>4, Zenon
  <2>6. /\ Started(c, by) \in Containers
        /\ Started(c, by).state = "running" /\ Started(c, by).starter = by
        /\ Started(c, by).policy = c.policy /\ Started(c, by).name = c.name
        /\ Started(c, by).remover = c.remover
    <3> DEFINE n == c.startedAt + 1  d == Started(c, by)
    <3>1. n \in Nat
      BY DEF Containers
    <3>2. d = [c EXCEPT !.state = "running", !.startedAt = n, !.starter = by]
      BY <2>3
    <3> HIDE DEF n, d
    <3>3. /\ d \in Containers /\ d.state = "running" /\ d.starter = by
          /\ d.policy = c.policy /\ d.name = c.name /\ d.remover = c.remover
      BY <3>1, <3>2 DEF Containers
    <3> QED BY <3>3 DEF d
  <2> QED BY <1>3, <2>5, <2>6, Zenon
<1> QED BY <1>1, <1>2, <1>3

LEMMA StoppedIs ==
    ASSUME NEW c \in Containers
    PROVE  /\ Stopped(c) \in Containers
           /\ ~Present(c) => Stopped(c) = c
           /\ Present(c) => Stopped(c).state = "stopped"
           /\ Stopped(c).starter = c.starter /\ Stopped(c).policy = c.policy /\ Stopped(c).name = c.name
           /\ Stopped(c).remover = c.remover /\ Stopped(c).ran = c.ran
BY DEF Stopped, Containers

LEMMA RemovedIs ==
    ASSUME NEW c \in Containers, NEW by \in {"ludock", "other"}
    PROVE  /\ Removed(c, by) \in Containers
           /\ ~Present(c) => Removed(c, by) = c
           /\ Present(c) => Removed(c, by).state = "gone" /\ Removed(c, by).remover = by
           /\ Removed(c, by).starter = c.starter /\ Removed(c, by).policy = c.policy
           /\ Removed(c, by).name = c.name /\ Removed(c, by).ran = c.ran
BY DEF Removed, Containers

LEMMA GivenIs ==
    ASSUME NEW c \in Containers, NEW p \in {"own", "no"}
    PROVE  /\ [c EXCEPT !.policy = p] \in Containers /\ [c EXCEPT !.name = "server"] \in Containers
           /\ [c EXCEPT !.state = "stopped"] \in Containers
           /\ [c EXCEPT !.policy = p].policy = p
           /\ [c EXCEPT !.name = "server"].name = "server"
           /\ [c EXCEPT !.state = "stopped"].state = "stopped"
BY DEF Containers

\* The containers stay typed.
LEMMA ContainersKeep ==
    ASSUME UpdateInv, UpdateNext
    PROVE  orig' \in Containers /\ repl' \in Containers
<1> USE DEF GoTo, unchangedRest, savedVars, boundVars, dockerVars, Fails
<1>a. orig \in Containers /\ repl \in Containers
  BY DEF UpdateInv, UpdateTypeOK
<1>b. Stopped(orig) \in Containers /\ Stopped(repl) \in Containers
  BY <1>a, StoppedIs
<1>c. \A s \in {"ludock", "docker", "other"} :
          /\ Started(orig, s) \in Containers /\ Started(repl, s) \in Containers
          /\ Started(Stopped(orig), s) \in Containers /\ Started(Stopped(repl), s) \in Containers
  BY <1>a, <1>b, StartedIs
<1>d. \A s \in {"ludock", "other"} :
          Removed(orig, s) \in Containers /\ Removed(repl, s) \in Containers
  BY <1>a, RemovedIs
<1>e. /\ \A p \in {"own", "no"} :
             [orig EXCEPT !.policy = p] \in Containers /\ [repl EXCEPT !.policy = p] \in Containers
      /\ [repl EXCEPT !.name = "server"] \in Containers
      /\ [repl EXCEPT !.state = "stopped"] \in Containers
  BY <1>a, GivenIs
<1>0. /\ orig \in Containers /\ repl \in Containers
      /\ Stopped(orig) \in Containers /\ Stopped(repl) \in Containers
  BY <1>a, <1>b
<1>1. CASE Check
  BY <1>0, <1>1 DEF Check
<1>2. CASE Pull
  BY <1>0, <1>2 DEF Pull
<1>3. CASE RecordStop
  BY <1>0, <1>3 DEF RecordStop
<1>4. CASE StopServer
  BY <1>0, <1>4 DEF StopServer
<1>5. CASE SaveStopped
  BY <1>0, <1>5 DEF SaveStopped
<1>6. CASE Backup
  BY <1>0, <1>6 DEF Backup
<1>7. CASE SaveStage
  BY <1>0, <1>7 DEF SaveStage
<1>8. CASE NoRestart
  BY <1>0, <1>e, <1>8 DEF NoRestart
<1>9. CASE Create
  BY <1>0, <1>e, <1>9 DEF Create
<1>10. CASE SaveID
  BY <1>0, <1>10 DEF SaveID
<1>11. CASE CheckImage
  BY <1>0, <1>11 DEF CheckImage
<1>12. CASE AssertStopped
  BY <1>0, <1>12 DEF AssertStopped
<1>13. CASE StartReplacement
  BY <1>0, <1>c, <1>13 DEF StartReplacement
<1>14. CASE awaitReplacement
  BY <1>0, <1>14 DEF awaitReplacement
<1>15. CASE settleSwap
  BY <1>0, <1>15 DEF settleSwap
<1>16. CASE RemoveReplacement
  BY <1>0, <1>d, <1>16 DEF RemoveReplacement
<1>17. CASE InspectOriginal
  BY <1>0, <1>17 DEF InspectOriginal
<1>18. CASE RestorePolicy
  BY <1>0, <1>e, <1>18 DEF RestorePolicy
<1>19. CASE RemoveOriginal
  BY <1>0, <1>d, <1>19 DEF RemoveOriginal
<1>20. CASE GivePolicy
  BY <1>0, <1>e, <1>20 DEF GivePolicy
<1>21. CASE Rename
  BY <1>0, <1>e, <1>21 DEF Rename
<1>22. CASE SaveReplaced
  BY <1>0, <1>22 DEF SaveReplaced
<1>23. CASE Undo
  BY <1>0, <1>23 DEF Undo
<1>24. CASE RestoreState
  BY <1>0, <1>24 DEF RestoreState
<1>25. CASE RestartOriginal
  BY <1>0, <1>c, <1>25 DEF RestartOriginal
<1>26. CASE SaveRestored
  BY <1>0, <1>26 DEF SaveRestored
<1>27. CASE Finish
  BY <1>0, <1>27 DEF Finish
<1>28. CASE StepFails
  BY <1>0, <1>c, <1>e, <1>28 DEF StepFails, MayHaveHappened
<1>29. CASE RestoreStateFails
  BY <1>0, <1>29 DEF RestoreStateFails
<1>30. CASE Recover
  BY <1>0, <1>30 DEF Recover
<1>31. CASE Crash
  BY <1>0, <1>31 DEF Crash
<1>32. CASE DockerRestart
  BY <1>0, <1>c, <1>32 DEF DockerRestart
<1>33. CASE Outsider
  BY <1>0, <1>c, <1>d, <1>33 DEF Outsider
<1>34. CASE Done
  BY <1>0, <1>34 DEF Done, updateVars
<1> QED BY <1>1, <1>2, <1>3, <1>4, <1>5, <1>6, <1>7, <1>8, <1>9, <1>10, <1>11, <1>12, <1>13,
     <1>14, <1>15, <1>16, <1>17, <1>18, <1>19, <1>20, <1>21, <1>22, <1>23, <1>24, <1>25, <1>26,
     <1>27, <1>28, <1>29, <1>30, <1>31, <1>32, <1>33, <1>34 DEF UpdateNext, LudockStep

\* What the row records of the stop and the start.
Records == [initial : {"unset", "yes", "no"}, initialAt : Nat, settled : BOOLEAN,
            stoppedAt : Nat, startRequested : BOOLEAN, stateRestored : BOOLEAN]

\* Every step keeps the types.
LEMMA UpdateTyped ==
    ASSUME UpdateInv, UpdateNext
    PROVE  UpdateTypeOK'
<1> USE DEF GoTo, unchangedRest, savedVars, boundVars, Fails, RunSteps, SettleSteps, EndSteps,
     Settled
<1>0. UpdateTypeOK /\ orig' \in Containers /\ repl' \in Containers
  BY ContainersKeep DEF UpdateInv
<1>a. /\ rec.initial \in {"unset", "yes", "no"} /\ rec.settled \in BOOLEAN /\ orig.startedAt \in Nat
  BY <1>0 DEF UpdateTypeOK, Containers
<1> USE DEF UpdateTypeOK
<1>1. CASE Check
  BY <1>0, <1>1 DEF Check, Running
<1>2. CASE Pull
  BY <1>0, <1>2 DEF Pull
<1>3. CASE RecordStop
  <2>1. PICK i \in {"yes", "no"} : rec' = [rec EXCEPT !.initial = i, !.initialAt = orig.startedAt]
    BY <1>3 DEF RecordStop
  <2>2. rec' \in Records
    BY <1>0, <1>a, <2>1 DEF Records
  <2> QED BY <1>0, <1>3, <2>2 DEF RecordStop, Records
<1>4. CASE StopServer
  BY <1>0, <1>4 DEF StopServer
<1>5. CASE SaveStopped
  <2>1. rec' \in Records
    BY <1>0, <1>a, <1>5 DEF SaveStopped, Records
  <2> QED BY <1>0, <1>5, <2>1 DEF SaveStopped, Records
<1>6. CASE Backup
  BY <1>0, <1>6 DEF Backup
<1>7. CASE SaveStage
  <2>1. \E i \in DOMAIN Stages : stage' = Stages[i]
    BY <1>0, <1>7 DEF SaveStage, Stages
  <2> QED BY <1>0, <1>7, <2>1 DEF SaveStage
<1>8. CASE NoRestart
  BY <1>0, <1>8 DEF NoRestart
<1>9. CASE Create
  BY <1>0, <1>9 DEF Create
<1>10. CASE SaveID
  BY <1>0, <1>10 DEF SaveID
<1>11. CASE CheckImage
  BY <1>0, <1>11 DEF CheckImage
<1>12. CASE AssertStopped
  BY <1>0, <1>12 DEF AssertStopped
<1>13. CASE StartReplacement
  BY <1>0, <1>13 DEF StartReplacement
<1>14. CASE awaitReplacement
  BY <1>0, <1>14 DEF awaitReplacement
<1>15. CASE settleSwap
  <2>1. pc' \in {"settle", "undo", "finish", "removeReplacement", "inspectOriginal", "removeOriginal"}
    BY <1>0, <1>15 DEF settleSwap
  <2>2. mode' \in {"run", "undo", "recover"} /\ reported' \in BOOLEAN
    BY <1>0, <1>15 DEF settleSwap
  <2>3. UNCHANGED <<row, rec, stage, plan, crashes, externals>>
    BY <1>15 DEF settleSwap, savedVars
  <2> QED BY <1>0, <2>1, <2>2, <2>3
<1>16. CASE RemoveReplacement
  BY <1>0, <1>16 DEF RemoveReplacement
<1>17. CASE InspectOriginal
  <2>1. /\ pc' \in SettleSteps \cup EndSteps /\ mode' \in {"run", "undo", "recover"}
        /\ reported' \in BOOLEAN
    BY <1>0, <1>17 DEF InspectOriginal
  <2>2. UNCHANGED <<row, rec, stage, plan, crashes, externals>>
    BY <1>17 DEF InspectOriginal, savedVars
  <2> QED BY <1>0, <2>1, <2>2
<1>18. CASE RestorePolicy
  <2>1. /\ pc' \in SettleSteps \cup EndSteps /\ mode' \in {"run", "undo", "recover"}
        /\ reported' \in BOOLEAN
    BY <1>0, <1>18 DEF RestorePolicy
  <2>2. UNCHANGED <<row, rec, stage, plan, crashes, externals>>
    BY <1>18 DEF RestorePolicy, savedVars
  <2> QED BY <1>0, <2>1, <2>2
<1>19. CASE RemoveOriginal
  BY <1>0, <1>19 DEF RemoveOriginal
<1>20. CASE GivePolicy
  <2>1. /\ pc' \in SettleSteps \cup EndSteps /\ mode' \in {"run", "undo", "recover"}
        /\ reported' \in BOOLEAN
    BY <1>0, <1>20 DEF GivePolicy
  <2>2. UNCHANGED <<row, rec, stage, plan, crashes, externals>>
    BY <1>20 DEF GivePolicy, savedVars
  <2> QED BY <1>0, <2>1, <2>2
<1>21. CASE Rename
  <2>1. /\ pc' \in SettleSteps \cup EndSteps /\ mode' \in {"run", "undo", "recover"}
        /\ reported' \in BOOLEAN
    BY <1>0, <1>21 DEF Rename
  <2>2. UNCHANGED <<row, rec, stage, plan, crashes, externals>>
    BY <1>21 DEF Rename, savedVars
  <2> QED BY <1>0, <2>1, <2>2
<1>22. CASE SaveReplaced
  <2>1. \E i \in DOMAIN Stages : stage' = Stages[i]
    BY <1>0, <1>22 DEF SaveReplaced, Stages
  <2> QED BY <1>0, <1>22, <2>1 DEF SaveReplaced
<1>23. CASE Undo
  BY <1>0, <1>23 DEF Undo
<1>24. CASE RestoreState
  BY <1>0, <1>24 DEF RestoreState
<1>25. CASE RestartOriginal
  BY <1>0, <1>25 DEF RestartOriginal
<1>26. CASE SaveRestored
  BY <1>0, <1>26 DEF SaveRestored
<1>27. CASE Finish
  BY <1>0, <1>27 DEF Finish
<1>28. CASE StepFails
  BY <1>0, <1>28 DEF StepFails
<1>29. CASE RestoreStateFails
  BY <1>0, <1>29 DEF RestoreStateFails
<1>30. CASE Recover
  BY <1>0, <1>30 DEF Recover
<1>31. CASE Crash
  BY <1>0, UpdateAssumption, <1>31 DEF Crash
<1>32. CASE DockerRestart
  BY <1>0, UpdateAssumption, <1>32 DEF DockerRestart
<1>33. CASE Outsider
  BY <1>0, UpdateAssumption, <1>33 DEF Outsider
<1>34. CASE Done
  BY <1>0, <1>34 DEF Done, updateVars
<1> QED BY <1>1, <1>2, <1>3, <1>4, <1>5, <1>6, <1>7, <1>8, <1>9, <1>10, <1>11, <1>12, <1>13,
     <1>14, <1>15, <1>16, <1>17, <1>18, <1>19, <1>20, <1>21, <1>22, <1>23, <1>24, <1>25, <1>26,
     <1>27, <1>28, <1>29, <1>30, <1>31, <1>32, <1>33, <1>34 DEF UpdateNext, LudockStep

\* What a request that reports an error may have done, from the step it was sent in.
LEMMA MayHaveIs ==
    ASSUME UpdateInv, MayHaveHappened
    PROVE  /\ \/ orig' = orig
              \/ pc = "stop" /\ orig' = Stopped(orig)
              \/ pc = "policy" /\ orig' = [orig EXCEPT !.policy = "no"]
           /\ \/ repl' = repl
              \/ pc = "create" /\ repl' = [repl EXCEPT !.state = "stopped"]
              \/ pc = "start" /\ Present(repl) /\ repl' = Started(repl, "ludock")
BY DEF MayHaveHappened, dockerVars

LEMMA FailingIs ==
    ASSUME UpdateInv, StepFails
    PROVE  /\ UNCHANGED <<row, rec, stage, plan, reported, boundVars>> /\ mode' = "undo"
           /\ pc' \in {"finish", "restoreState", "settle"}
           /\ pc' = "finish" => pc = "check"
           /\ pc' = "restoreState" => stage = "none" /\ pc \in RunSteps
           /\ mode = "run" /\ pc \in RunSteps \cup SettleSteps
BY DEF StepFails, GoTo, savedVars, UpdateInv, PlaceFits, SettleSteps, Back, Forth

\* Every step leaves an original that fits.
LEMMA OrigKeeps ==
    ASSUME UpdateInv, UpdateNext
    PROVE  OrigFits'
<1> USE DEF GoTo, unchangedRest, savedVars, boundVars, dockerVars, OrigFits, ContainerFits,
     Present, Running, RunSteps, Forth, Restoring, Ended, Settled, Fails
<1>0. /\ OrigFits /\ PlaceFits /\ orig \in Containers
      /\ stage \in {"none", "creating", "starting", "replacing", "replaced"}
  BY StageIs DEF UpdateInv, UpdateTypeOK
<1>1. CASE Check
  BY <1>0, <1>1 DEF Check, PlaceFits, Early, Creating, Back
<1>2. CASE Pull
  BY <1>0, <1>2 DEF Pull, PlaceFits, Early, Creating, Back
<1>3. CASE RecordStop
  BY <1>0, <1>3 DEF RecordStop, PlaceFits, Early, Creating, Back
<1>4. CASE StopServer
  BY <1>0, StoppedIs, <1>4 DEF StopServer, PlaceFits, Early, Creating, Back
<1>5. CASE SaveStopped
  BY <1>0, <1>5 DEF SaveStopped, PlaceFits, Early, Creating, Back
<1>6. CASE Backup
  BY <1>0, <1>6 DEF Backup, PlaceFits, Early, Creating, Back
<1>7. CASE SaveStage
  BY <1>0, <1>7 DEF SaveStage, PlaceFits, Early, Creating, Back
<1>8. CASE NoRestart
  BY <1>0, <1>8 DEF NoRestart, PlaceFits, Early, Creating, Back, Containers
<1>9. CASE Create
  BY <1>0, <1>9 DEF Create, PlaceFits, Early, Creating, Back
<1>10. CASE SaveID
  BY <1>0, <1>10 DEF SaveID, PlaceFits, Early, Creating, Back
<1>11. CASE CheckImage
  BY <1>0, <1>11 DEF CheckImage, PlaceFits, Early, Creating, Back
<1>12. CASE AssertStopped
  BY <1>0, <1>12 DEF AssertStopped, PlaceFits, Early, Creating, Back
<1>13. CASE StartReplacement
  BY <1>0, <1>13 DEF StartReplacement, PlaceFits, Early, Creating, Back
<1>14. CASE awaitReplacement
  BY <1>0, <1>14 DEF awaitReplacement, PlaceFits, Early, Creating, Back
<1>15. CASE settleSwap
  BY <1>0, <1>15 DEF settleSwap, PlaceFits, Early, Creating, Back
<1>16. CASE RemoveReplacement
  BY <1>0, <1>16 DEF RemoveReplacement, PlaceFits, Early, Creating, Back
<1>17. CASE InspectOriginal
  BY <1>0, <1>17 DEF InspectOriginal, PlaceFits, Early, Creating, Back
<1>18. CASE RestorePolicy
  BY <1>0, <1>18 DEF RestorePolicy, PlaceFits, Early, Creating, Back, Containers
<1>19. CASE RemoveOriginal
  BY <1>0, RemovedIs, <1>19 DEF RemoveOriginal, PlaceFits, Early, Creating, Back
<1>20. CASE GivePolicy
  BY <1>0, <1>20 DEF GivePolicy, PlaceFits, Early, Creating, Back
<1>21. CASE Rename
  BY <1>0, <1>21 DEF Rename, PlaceFits, Early, Creating, Back
<1>22. CASE SaveReplaced
  BY <1>0, <1>22 DEF SaveReplaced, PlaceFits, Early, Creating, Back
<1>23. CASE Undo
  BY <1>0, <1>23 DEF Undo, PlaceFits, Early, Creating, Back
<1>24. CASE RestoreState
  BY <1>0, <1>24 DEF RestoreState, PlaceFits, Early, Creating, Back
<1>25. CASE RestartOriginal
  BY <1>0, StartedIs, <1>25 DEF RestartOriginal, PlaceFits, Early, Creating, Back
<1>26. CASE SaveRestored
  BY <1>0, <1>26 DEF SaveRestored, PlaceFits, Early, Creating, Back
<1>27. CASE Finish
  BY <1>0, <1>27 DEF Finish, PlaceFits, Early, Creating, Back
<1>28. CASE StepFails
  <2>1. CASE orig' = orig
    BY <1>0, <2>1, <1>28, FailingIs DEF PlaceFits, Early, Creating, Back, SettleSteps
  <2>2. CASE pc = "stop" /\ orig' = Stopped(orig)
    BY <1>0, <2>2, <1>28, FailingIs, StoppedIs DEF PlaceFits, Early, Creating, Back
  <2>3. CASE pc = "policy" /\ orig' = [orig EXCEPT !.policy = "no"]
    BY <1>0, <2>3, <1>28, FailingIs DEF PlaceFits, Early, Creating, Back, Containers
  <2> QED BY <1>28, <2>1, <2>2, <2>3, MayHaveIs DEF StepFails
<1>29. CASE RestoreStateFails
  BY <1>0, <1>29 DEF RestoreStateFails, PlaceFits, Early, Creating, Back
<1>30. CASE Recover
  BY <1>0, <1>30 DEF Recover, PlaceFits, Early, Creating, Back
<1>31. CASE Crash
  BY <1>0, <1>31 DEF Crash, PlaceFits, Early, Creating, Back
<1>32. CASE DockerRestart
  BY <1>0, StartedIs, StoppedIs, <1>32 DEF DockerRestart, PlaceFits, Early, Creating, Back
<1>33. CASE Outsider
  BY <1>0, StartedIs, StoppedIs, RemovedIs, <1>33 DEF Outsider, PlaceFits, Early, Creating, Back
<1>34. CASE Done
  BY <1>0, <1>34 DEF Done, updateVars
<1> QED BY <1>1, <1>2, <1>3, <1>4, <1>5, <1>6, <1>7, <1>8, <1>9, <1>10, <1>11, <1>12, <1>13,
     <1>14, <1>15, <1>16, <1>17, <1>18, <1>19, <1>20, <1>21, <1>22, <1>23, <1>24, <1>25, <1>26,
     <1>27, <1>28, <1>29, <1>30, <1>31, <1>32, <1>33, <1>34 DEF UpdateNext, LudockStep

\* What a failing step may have done to the containers.
ContainersMay ==
    /\ \/ orig' = orig
       \/ pc = "stop" /\ orig' = Stopped(orig)
       \/ pc = "policy" /\ orig' = [orig EXCEPT !.policy = "no"]
    /\ \/ repl' = repl
       \/ pc = "create" /\ repl' = [repl EXCEPT !.state = "stopped"]
       \/ pc = "start" /\ Present(repl) /\ repl' = Started(repl, "ludock")

\* The stages saved, each before the step it names.
LEMMA NextStageIs ==
    ASSUME SaveStage
    PROVE  /\ \/ pc = "creating" /\ stage' = "creating" /\ pc' = "policy"
              \/ pc = "starting" /\ stage' = "starting" /\ pc' = "start"
              \/ pc = "replacing" /\ stage' = "replacing" /\ pc' = "settle"
           /\ UNCHANGED <<row, rec, mode, plan, orig, repl, reported>>
BY DEF SaveStage, GoTo, unchangedRest, dockerVars

\* Every step leaves a replacement that fits.
LEMMA ReplKeeps ==
    ASSUME UpdateInv, UpdateNext
    PROVE  ReplFits'
<1> USE DEF GoTo, unchangedRest, savedVars, boundVars, dockerVars, ReplFits, ContainerFits,
     Present, Running, RunSteps, Forth, Back, Restoring, Ended, Settled, Fails
<1>0. /\ ReplFits /\ PlaceFits /\ orig \in Containers /\ repl \in Containers
      /\ stage \in {"none", "creating", "starting", "replacing", "replaced"}
      /\ pc \in Forth \ {"removeOriginal"} => ~Present(orig)
  BY StageIs DEF UpdateInv, UpdateTypeOK, OrigFits
<1>1. CASE Check
  BY <1>0, <1>1 DEF Check, PlaceFits, Early, Creating
<1>2. CASE Pull
  BY <1>0, <1>2 DEF Pull, PlaceFits, Early, Creating
<1>3. CASE RecordStop
  BY <1>0, <1>3 DEF RecordStop, PlaceFits, Early, Creating
<1>4. CASE StopServer
  BY <1>0, StoppedIs, <1>4 DEF StopServer, PlaceFits, Early, Creating
<1>5. CASE SaveStopped
  BY <1>0, <1>5 DEF SaveStopped, PlaceFits, Early, Creating
<1>6. CASE Backup
  BY <1>0, <1>6 DEF Backup, PlaceFits, Early, Creating
<1>7. CASE SaveStage
  <2>0. UNCHANGED <<row, rec, mode, plan, orig, repl, reported>>
    BY <1>7, NextStageIs
  <2>1. CASE pc = "creating" /\ stage' = "creating" /\ pc' = "policy"
    BY <1>0, <2>1, <2>0 DEF Early, PlaceFits, Early, Creating
  <2>2. CASE pc = "starting" /\ stage' = "starting" /\ pc' = "start"
    BY <1>0, <2>2, <2>0 DEF Early, PlaceFits, Early, Creating
  <2>3. CASE pc = "replacing" /\ stage' = "replacing" /\ pc' = "settle"
    BY <1>0, <2>3, <2>0 DEF Early, PlaceFits, Early, Creating
  <2> QED BY <2>1, <2>2, <2>3, <1>7, NextStageIs
<1>8. CASE NoRestart
  BY <1>0, <1>8 DEF NoRestart, PlaceFits, Early, Creating, Containers
<1>9. CASE Create
  BY <1>0, <1>9 DEF Create, PlaceFits, Early, Creating, Containers
<1>10. CASE SaveID
  BY <1>0, <1>10 DEF SaveID, PlaceFits, Early, Creating
<1>11. CASE CheckImage
  BY <1>0, <1>11 DEF CheckImage, PlaceFits, Early, Creating
<1>12. CASE AssertStopped
  BY <1>0, <1>12 DEF AssertStopped, PlaceFits, Early, Creating
<1>13. CASE StartReplacement
  BY <1>0, StartedIs, <1>13 DEF StartReplacement, PlaceFits, Early, Creating
<1>14. CASE awaitReplacement
  BY <1>0, <1>14 DEF awaitReplacement, PlaceFits, Early, Creating
<1>15. CASE settleSwap
  BY <1>0, <1>15 DEF settleSwap, PlaceFits, Early, Creating
<1>16. CASE RemoveReplacement
  BY <1>0, RemovedIs, <1>16 DEF RemoveReplacement, PlaceFits, Early, Creating
<1>17. CASE InspectOriginal
  BY <1>0, <1>17 DEF InspectOriginal, PlaceFits, Early, Creating
<1>18. CASE RestorePolicy
  BY <1>0, <1>18 DEF RestorePolicy, PlaceFits, Early, Creating, Containers
<1>19. CASE RemoveOriginal
  BY <1>0, RemovedIs, <1>19 DEF RemoveOriginal, PlaceFits, Early, Creating
<1>20. CASE GivePolicy
  BY <1>0, <1>20 DEF GivePolicy, PlaceFits, Early, Creating, Containers
<1>21. CASE Rename
  BY <1>0, <1>21 DEF Rename, PlaceFits, Early, Creating, Containers
<1>22. CASE SaveReplaced
  BY <1>0, <1>22 DEF SaveReplaced, PlaceFits, Early, Creating
<1>23. CASE Undo
  BY <1>0, <1>23 DEF Undo, PlaceFits, Early, Creating
<1>24. CASE RestoreState
  BY <1>0, <1>24 DEF RestoreState, PlaceFits, Early, Creating
<1>25. CASE RestartOriginal
  BY <1>0, StartedIs, <1>25 DEF RestartOriginal, PlaceFits, Early, Creating
<1>26. CASE SaveRestored
  BY <1>0, <1>26 DEF SaveRestored, PlaceFits, Early, Creating
<1>27. CASE Finish
  BY <1>0, <1>27 DEF Finish, PlaceFits, Early, Creating
<1>28. CASE StepFails
  <2>0. ContainersMay
    BY <1>28, MayHaveIs DEF StepFails, ContainersMay
  <2>1. CASE repl' = repl
    BY <1>0, <2>0, <2>1, <1>28, FailingIs, StoppedIs DEF PlaceFits, Early, Creating, Back,
       SettleSteps, ContainersMay, Containers
  <2>2. CASE pc = "create" /\ repl' = [repl EXCEPT !.state = "stopped"]
    BY <1>0, <2>0, <2>2, <1>28, FailingIs DEF PlaceFits, Early, Creating, Back, Containers,
       ContainersMay
  <2>3. CASE pc = "start" /\ Present(repl) /\ repl' = Started(repl, "ludock")
    BY <1>0, <2>0, <2>3, <1>28, FailingIs, StartedIs DEF PlaceFits, Early, Creating, Back,
       ContainersMay
  <2> QED BY <2>0, <2>1, <2>2, <2>3 DEF ContainersMay
<1>29. CASE RestoreStateFails
  BY <1>0, <1>29 DEF RestoreStateFails, PlaceFits, Early, Creating
<1>30. CASE Recover
  BY <1>0, <1>30 DEF Recover, PlaceFits, Early, Creating
<1>31. CASE Crash
  BY <1>0, <1>31 DEF Crash, PlaceFits, Early, Creating
<1>32. CASE DockerRestart
  BY <1>0, StartedIs, StoppedIs, <1>32 DEF DockerRestart, PlaceFits, Early, Creating
<1>33. CASE Outsider
  BY <1>0, StartedIs, StoppedIs, RemovedIs, <1>33 DEF Outsider, PlaceFits, Early, Creating
<1>34. CASE Done
  BY <1>0, <1>34 DEF Done, updateVars
<1> QED BY <1>1, <1>2, <1>3, <1>4, <1>5, <1>6, <1>7, <1>8, <1>9, <1>10, <1>11, <1>12, <1>13,
     <1>14, <1>15, <1>16, <1>17, <1>18, <1>19, <1>20, <1>21, <1>22, <1>23, <1>24, <1>25, <1>26,
     <1>27, <1>28, <1>29, <1>30, <1>31, <1>32, <1>33, <1>34 DEF UpdateNext, LudockStep

\* Every step keeps the two apart.
LEMMA ApartKeeps ==
    ASSUME UpdateInv, UpdateNext
    PROVE  Apart'
<1> USE DEF GoTo, unchangedRest, savedVars, boundVars, dockerVars, Apart, Present, Running,
     RunSteps, Settled, Fails
<1>0. /\ Apart /\ PlaceFits /\ orig \in Containers /\ repl \in Containers
      /\ stage \in {"none", "creating", "starting", "replacing", "replaced"}
      /\ pc \in Back \ {"removeReplacement"} => ~Present(repl)
  BY StageIs DEF UpdateInv, UpdateTypeOK, ReplFits, PlaceFits, Back
<1>1. CASE Check
  BY <1>0, <1>1 DEF Check, PlaceFits, Early, Creating, Back, Forth, Restoring
<1>2. CASE Pull
  BY <1>0, <1>2 DEF Pull, PlaceFits, Early, Creating, Back, Forth, Restoring
<1>3. CASE RecordStop
  BY <1>0, <1>3 DEF RecordStop, PlaceFits, Early, Creating, Back, Forth, Restoring
<1>4. CASE StopServer
  BY <1>0, StoppedIs, <1>4 DEF StopServer, PlaceFits, Early, Creating, Back, Forth, Restoring
<1>5. CASE SaveStopped
  BY <1>0, <1>5 DEF SaveStopped, PlaceFits, Early, Creating, Back, Forth, Restoring
<1>6. CASE Backup
  BY <1>0, <1>6 DEF Backup, PlaceFits, Early, Creating, Back, Forth, Restoring
<1>7. CASE SaveStage
  <2>0. UNCHANGED <<row, rec, mode, plan, orig, repl, reported>>
    BY <1>7, NextStageIs
  <2>1. CASE pc = "creating" /\ stage' = "creating" /\ pc' = "policy"
    BY <1>0, <2>1, <2>0 DEF Early, PlaceFits, Early, Creating, Back, Forth, Restoring
  <2>2. CASE pc = "starting" /\ stage' = "starting" /\ pc' = "start"
    BY <1>0, <2>2, <2>0 DEF Early, PlaceFits, Early, Creating, Back, Forth, Restoring
  <2>3. CASE pc = "replacing" /\ stage' = "replacing" /\ pc' = "settle"
    BY <1>0, <2>3, <2>0 DEF Early, PlaceFits, Early, Creating, Back, Forth, Restoring
  <2> QED BY <2>1, <2>2, <2>3, <1>7, NextStageIs
<1>8. CASE NoRestart
  BY <1>0, <1>8 DEF NoRestart, PlaceFits, Early, Creating, Back, Forth, Restoring, Containers
<1>9. CASE Create
  BY <1>0, <1>9 DEF Create, PlaceFits, Early, Creating, Back, Forth, Restoring, Containers
<1>10. CASE SaveID
  BY <1>0, <1>10 DEF SaveID, PlaceFits, Early, Creating, Back, Forth, Restoring
<1>11. CASE CheckImage
  BY <1>0, <1>11 DEF CheckImage, PlaceFits, Early, Creating, Back, Forth, Restoring
<1>12. CASE AssertStopped
  BY <1>0, <1>12 DEF AssertStopped, PlaceFits, Early, Creating, Back, Forth, Restoring,
     StillStopped
<1>13. CASE StartReplacement
  BY <1>0, StartedIs, <1>13 DEF StartReplacement, PlaceFits, Early, Creating, Back, Forth,
     Restoring
<1>14. CASE awaitReplacement
  BY <1>0, <1>14 DEF awaitReplacement, PlaceFits, Early, Creating, Back, Forth, Restoring
<1>15. CASE settleSwap
  BY <1>0, <1>15 DEF settleSwap, PlaceFits, Early, Creating, Back, Forth, Restoring
<1>16. CASE RemoveReplacement
  BY <1>0, RemovedIs, <1>16 DEF RemoveReplacement, PlaceFits, Early, Creating, Back, Forth,
     Restoring
<1>17. CASE InspectOriginal
  BY <1>0, <1>17 DEF InspectOriginal, PlaceFits, Early, Creating, Back, Forth, Restoring
<1>18. CASE RestorePolicy
  BY <1>0, <1>18 DEF RestorePolicy, PlaceFits, Early, Creating, Back, Forth, Restoring, Containers
<1>19. CASE RemoveOriginal
  BY <1>0, RemovedIs, <1>19 DEF RemoveOriginal, PlaceFits, Early, Creating, Back, Forth, Restoring
<1>20. CASE GivePolicy
  BY <1>0, <1>20 DEF GivePolicy, PlaceFits, Early, Creating, Back, Forth, Restoring, Containers
<1>21. CASE Rename
  BY <1>0, <1>21 DEF Rename, PlaceFits, Early, Creating, Back, Forth, Restoring, Containers
<1>22. CASE SaveReplaced
  BY <1>0, <1>22 DEF SaveReplaced, PlaceFits, Early, Creating, Back, Forth, Restoring
<1>23. CASE Undo
  BY <1>0, <1>23 DEF Undo, PlaceFits, Early, Creating, Back, Forth, Restoring
<1>24. CASE RestoreState
  BY <1>0, <1>24 DEF RestoreState, PlaceFits, Early, Creating, Back, Forth, Restoring
<1>25. CASE RestartOriginal
  BY <1>0, StartedIs, <1>25 DEF RestartOriginal, PlaceFits, Early, Creating, Back, Forth,
     Restoring
<1>26. CASE SaveRestored
  BY <1>0, <1>26 DEF SaveRestored, PlaceFits, Early, Creating, Back, Forth, Restoring
<1>27. CASE Finish
  BY <1>0, <1>27 DEF Finish, PlaceFits, Early, Creating, Back, Forth, Restoring
<1>28. CASE StepFails
  <2>0. ContainersMay
    BY <1>28, MayHaveIs DEF StepFails, ContainersMay
  <2>1. CASE repl' = repl
    BY <1>0, <2>0, <2>1, <1>28, FailingIs, StoppedIs DEF PlaceFits, Early, Creating, Back, Forth,
       SettleSteps, ContainersMay, Containers
  <2>2. CASE pc = "create" /\ repl' = [repl EXCEPT !.state = "stopped"]
    BY <1>0, <2>0, <2>2, <1>28, FailingIs DEF PlaceFits, Early, Creating, Back, Forth, Containers,
       ContainersMay
  <2>3. CASE pc = "start" /\ Present(repl) /\ repl' = Started(repl, "ludock")
    BY <1>0, <2>0, <2>3, <1>28, FailingIs, StartedIs DEF PlaceFits, Early, Creating, Back, Forth,
       ContainersMay
  <2> QED BY <2>0, <2>1, <2>2, <2>3 DEF ContainersMay
<1>29. CASE RestoreStateFails
  BY <1>0, <1>29 DEF RestoreStateFails, PlaceFits, Early, Creating, Back, Forth, Restoring
<1>30. CASE Recover
  BY <1>0, <1>30 DEF Recover, PlaceFits, Early, Creating, Back, Forth, Restoring
<1>31. CASE Crash
  BY <1>0, <1>31 DEF Crash, PlaceFits, Early, Creating, Back, Forth, Restoring
<1>32. CASE DockerRestart
  BY <1>0, StartedIs, StoppedIs, <1>32 DEF DockerRestart, PlaceFits, Early, Creating, Back, Forth,
     Restoring
<1>33. CASE Outsider
  BY <1>0, StartedIs, StoppedIs, RemovedIs, <1>33 DEF Outsider, PlaceFits, Early, Creating, Back,
     Forth, Restoring
<1>34. CASE Done
  BY <1>0, <1>34 DEF Done, updateVars
<1> QED BY <1>1, <1>2, <1>3, <1>4, <1>5, <1>6, <1>7, <1>8, <1>9, <1>10, <1>11, <1>12, <1>13,
     <1>14, <1>15, <1>16, <1>17, <1>18, <1>19, <1>20, <1>21, <1>22, <1>23, <1>24, <1>25, <1>26,
     <1>27, <1>28, <1>29, <1>30, <1>31, <1>32, <1>33, <1>34 DEF UpdateNext, LudockStep

\* The invariant holds at first, in a stutter and after every step.
LEMMA FirstRecordIs ==
    [initial |-> "unset", initialAt |-> 0, settled |-> FALSE, stoppedAt |-> 0,
     startRequested |-> FALSE, stateRestored |-> FALSE] \in Records
BY Zenon DEF Records

LEMMA UpdateStarts == UpdateInit => UpdateInv
<1> SUFFICES ASSUME UpdateInit PROVE UpdateInv
  OBVIOUS
<1>1. /\ row = "running" /\ stage = "none" /\ pc = "check" /\ mode = "run" /\ plan = FALSE
      /\ reported = FALSE /\ crashes = 0 /\ externals = 0 /\ rec \in Records
  BY FirstRecordIs DEF UpdateInit
<1>2. PICK s \in {"stopped", "running"} :
          orig = [state |-> s, policy |-> "own", startedAt |-> 1, starter |-> "nobody",
                  ran |-> FALSE, remover |-> "nobody", name |-> "server"]
  BY DEF UpdateInit
<1>3. repl = [state |-> "none", policy |-> "no", startedAt |-> 0, starter |-> "nobody",
              ran |-> FALSE, remover |-> "nobody", name |-> "temporary"]
  BY DEF UpdateInit
<1>4. /\ orig \in Containers
      /\ orig.state \in {"stopped", "running"} /\ orig.policy = "own" /\ orig.starter = "nobody"
      /\ ~orig.ran /\ orig.remover = "nobody" /\ orig.name = "server"
  BY <1>2, Zenon DEF Containers
<1>5. /\ repl \in Containers
      /\ repl.state = "none" /\ repl.policy = "no" /\ repl.starter = "nobody"
      /\ ~repl.ran /\ repl.remover = "nobody"
  BY <1>3 DEF Containers
<1>6. UpdateTypeOK
  <2>1. 1 \in DOMAIN Stages /\ Stages[1] = "none"
    BY DEF Stages
  <2>2. crashes \in 0..MaxCrashes /\ externals \in 0..MaxExternal
    BY <1>1, UpdateAssumption
  <2>3. /\ row \in {"running", "finished"} /\ pc \in RunSteps /\ mode \in {"run", "undo", "recover"}
    BY <1>1 DEF RunSteps
  <2> QED BY <1>1, <1>4, <1>5, <2>1, <2>2, <2>3 DEF UpdateTypeOK, Records
<1>7. PlaceFits
  BY <1>1 DEF PlaceFits, RunSteps, Early, Creating, Back, Forth, Restoring, Ended
<1>8. OrigFits
  BY <1>1, <1>4 DEF OrigFits, ContainerFits, Present, Running, Forth, Restoring, Ended
<1>9. ReplFits
  BY <1>1, <1>5 DEF ReplFits, ContainerFits, Present, Running, RunSteps, Back, Restoring, Ended
<1>10. Apart
  BY <1>1 DEF Apart
<1> QED BY <1>6, <1>7, <1>8, <1>9, <1>10 DEF UpdateInv

LEMMA UpdateStutters ==
    ASSUME UpdateInv, UNCHANGED updateVars
    PROVE  UpdateInv'
<1>1. UNCHANGED <<row, rec, stage, pc, mode, plan, orig, repl, reported, crashes, externals>>
  BY DEF updateVars, savedVars, dockerVars, boundVars
<1>2. UpdateTypeOK'
  BY <1>1 DEF UpdateInv, UpdateTypeOK
<1>3. PlaceFits'
  BY <1>1 DEF UpdateInv, PlaceFits
<1>4. OrigFits'
  BY <1>1 DEF UpdateInv, OrigFits, ContainerFits, Present, Running
<1>5. ReplFits'
  BY <1>1 DEF UpdateInv, ReplFits, ContainerFits, Present, Running
<1>6. Apart'
  BY <1>1 DEF UpdateInv, Apart, Present, Running
<1> QED BY <1>2, <1>3, <1>4, <1>5, <1>6 DEF UpdateInv

LEMMA UpdateKeeps ==
    ASSUME UpdateInv, [UpdateNext]_updateVars
    PROVE  UpdateInv'
<1>1. CASE UpdateNext
  BY <1>1, UpdateTyped, PlaceKeeps, OrigKeeps, ReplKeeps, ApartKeeps DEF UpdateInv
<1>2. CASE UNCHANGED updateVars
  BY <1>2, UpdateStutters
<1> QED BY <1>1, <1>2

\* The invariant implies each of the four promises.
LEMMA OneRemains == UpdateInv => OneServerRemains
<1> SUFFICES ASSUME UpdateInv PROVE OneServerRemains
  OBVIOUS
<1>0. /\ UpdateTypeOK /\ PlaceFits /\ OrigFits /\ ReplFits /\ Apart
      /\ orig \in Containers /\ repl \in Containers
      /\ stage \in {"none", "creating", "starting", "replacing", "replaced"}
  BY StageIs DEF UpdateInv, UpdateTypeOK
<1>1. NeverBothRun
  BY <1>0 DEF NeverBothRun, OrigFits, ReplFits, ContainerFits, Apart, Running, Present, Containers
<1>2. NeverRemovesBoth
  BY <1>0 DEF NeverRemovesBoth, OrigFits, ReplFits
<1>3. OldNeverFollowsNew
  BY <1>0 DEF OldNeverFollowsNew, OrigFits, ReplFits
<1>4. EndsWithOneServer
  <2> SUFFICES ASSUME row = "finished", ~reported, "other" \notin {orig.remover, repl.remover}
               PROVE  \E c \in {orig, repl} :
                          /\ Present(c) /\ c.name = "server" /\ c.policy = "own"
                          /\ \A d \in {orig, repl} : Present(d) => d = c
    BY DEF EndsWithOneServer
  <2>1. pc = "done" /\ stage # "replacing"
    BY <1>0 DEF PlaceFits, Ended
  <2>2. CASE stage \in {"none", "creating", "starting"}
    <3>1. Present(orig) /\ orig.name = "server" /\ orig.policy = "own"
      BY <1>0, <2>1, <2>2 DEF OrigFits, ContainerFits, Present, Ended, Containers
    <3>2. ~Present(repl)
      BY <1>0, <2>1, <2>2 DEF ReplFits, Present, Back, Ended
    <3> QED BY <3>1, <3>2
  <2>3. CASE stage = "replaced"
    <3>1. Present(repl) /\ repl.name = "server" /\ repl.policy = "own"
      BY <1>0, <2>1, <2>3 DEF ReplFits, ContainerFits, Present, Containers
    <3>2. ~Present(orig)
      BY <1>0, <2>3 DEF OrigFits
    <3> QED BY <3>1, <3>2
  <2> QED BY <1>0, <2>1, <2>2, <2>3
<1> QED BY <1>0, <1>1, <1>2, <1>3, <1>4 DEF OneServerRemains

(* An update never runs or removes both containers, never runs the old one *)
(* after the new one, and ends with one that has the server's name and     *)
(* policy, whatever fails, crashes or is done by others (Update): for any  *)
(* number of crashes, of restarts of Docker and of deeds of others.        *)
THEOREM OneServerRemainsHolds == UpdateSpec => []OneServerRemains
<1>1. UpdateInv /\ [UpdateNext]_updateVars => UpdateInv'
  BY UpdateKeeps
<1> QED BY UpdateStarts, <1>1, OneRemains, PTL DEF UpdateSpec

-----------------------------------------------------------------------------
(* DataJobs.  The argument is about instances: every start is another one, *)
(* so a server that anybody started after the stop is not the stopped      *)
(* instance any more, and the check after the copy, which looks for it,    *)
(* cannot pass, even when the server is down again (CopyFits).             *)

\* What an operation records, and its steps by the part of the job.
Recoveries == [initial : {"unset", "yes", "no"}, initialAt : Nat, settled : BOOLEAN,
               stoppedAt : Nat, complete : BOOLEAN, helper : BOOLEAN, startRequested : BOOLEAN,
               stateRestored : BOOLEAN]
StopSteps == {"record", "dispatch", "await", "check"}
CopySteps == {"helper", "copy", "copying", "copied", "row"}
KeptSteps == {"marker", "prune", "cleanup"}
StartSteps == {"starting", "started"}
KeepSteps == {"keep", "keepOnly", "deferred"}
RestoreSteps == {"restore", "restart", "restored"}

\* The instance that was stopped is not of the future.
InstFits == recovery.stoppedAt <= inst
\* The data helper exists during the copy, or after a crash.
HelperFits == helper => step \in {"copy", "copying", "copied", "row", "recover"} \cup KeptSteps
\* Who started the server since it was stopped started another instance, so that the check
\* after the copy finds out; only a copy that passed it has a row, and what follows from a row.
CopyFits ==
    /\ step \in {"helper", "copy", "copying", "copied"} => (srv => inst > recovery.stoppedAt)
    /\ step \in {"copying", "copied"} => (tainted => inst > recovery.stoppedAt)
    /\ step = "row" => ~tainted
    /\ backup = "row" => ~tainted /\ step \notin StopSteps \cup CopySteps
    /\ recovery.complete => backup = "row"
    /\ step \in {"marker", "prune"} => backup = "row"
    /\ step \in {"cleanup", "backedUp"} /\ ok => backup = "row"
    /\ step \in StopSteps \cup CopySteps => ok
\* A restart starts only after a whole backup, and only once: what was sent was recorded.
StartFits ==
    /\ step \in StartSteps => backup = "row"
    /\ step \in StartSteps \cup KeepSteps => kind = "restart"
    /\ step \in RestoreSteps /\ kind = "restart" => backup = "row"
    /\ step \in {"started", "restart"} => starts = 0 /\ recovery.startRequested
    /\ starts > 0 => /\ starts = 1 /\ recovery.startRequested /\ inst > recovery.stoppedAt
                     /\ (kind = "restart" => backup = "row") /\ ~helper
                     /\ step \in KeepSteps \cup {"restore", "restored", "done", "recover"}
\* A backup ends with a server that ran started, or says so.
EndFits ==
    step = "done" /\ kind = "backup" /\ recovery.initial = "yes" =>
        recovery.stateRestored \/ recovery.startRequested \/ unrestored
\* The inductive invariant.
DataInv == DataTypeOK /\ InstFits /\ HelperFits /\ CopyFits /\ StartFits /\ EndFits

\* How a step changes the record: never back, and the stopped instance only by the stop.
RecordKept ==
    /\ recovery' \in Recoveries
    /\ step # "record" => recovery'.initial = recovery.initial
    /\ step # "await" => recovery'.stoppedAt = recovery.stoppedAt
    /\ step = "await" => recovery'.stoppedAt \in {recovery.stoppedAt, inst}
    /\ recovery'.complete => recovery.complete \/ step = "marker"
    /\ recovery.startRequested => recovery'.startRequested
    /\ recovery.stateRestored => recovery'.stateRestored

\* Every step keeps the record so.
LEMMA RecordKeeps ==
    ASSUME DataInv, DataNext
    PROVE  RecordKept
<1> USE DEF Save
<1>0. recovery \in Recoveries /\ inst \in Nat
  BY DEF DataInv, DataTypeOK, Recoveries
<1>1. CASE StopCompletes
  <2>1. recovery' = recovery
    BY <1>1 DEF StopCompletes, serverVars, jobVars
  <2> QED BY <1>0, <2>1 DEF RecordKept
<1>2. CASE GameExits
  <2>1. recovery' = recovery
    BY <1>2 DEF GameExits, serverVars, jobVars
  <2> QED BY <1>0, <2>1 DEF RecordKept
<1>3. CASE OwnerStarts
  <2>1. recovery' = recovery
    BY <1>3 DEF OwnerStarts, serverVars, jobVars
  <2> QED BY <1>0, <2>1 DEF RecordKept
<1>4. CASE DeadlinePasses
  <2>1. recovery' = recovery
    BY <1>4 DEF DeadlinePasses, serverVars, jobVars
  <2> QED BY <1>0, <2>1 DEF RecordKept
<1>5. CASE RecordDataStop
  <2>1. PICK i \in {"yes", "no"} : recovery' = [recovery EXCEPT !.initial = i, !.initialAt = inst]
    BY <1>5 DEF RecordDataStop
  <2>2. step = "record"
    BY <1>5 DEF RecordDataStop
  <2> QED BY <1>0, <2>1, <2>2 DEF RecordKept, Recoveries
<1>6. CASE DispatchStop
  <2>1. recovery' = recovery
    BY <1>6 DEF DispatchStop, serverVars, jobVars
  <2> QED BY <1>0, <2>1 DEF RecordKept
<1>7. CASE SaveDataStopped
  <2>1. recovery' = [recovery EXCEPT !.settled = TRUE, !.stoppedAt = inst] /\ step = "await"
    BY <1>7 DEF SaveDataStopped
  <2> QED BY <1>0, <2>1 DEF RecordKept, Recoveries
<1>8. CASE AssertDataStopped
  <2>1. recovery' = recovery
    BY <1>8 DEF AssertDataStopped, serverVars, jobVars
  <2> QED BY <1>0, <2>1 DEF RecordKept
<1>9. CASE NewDataHelper
  <2>1. recovery' = recovery
    BY <1>9 DEF NewDataHelper, serverVars, jobVars
  <2> QED BY <1>0, <2>1 DEF RecordKept
<1>10. CASE SaveHelper
  <2>1. recovery' = [recovery EXCEPT !.helper = TRUE]
    BY <1>10 DEF SaveHelper
  <2> QED BY <1>0, <2>1 DEF RecordKept, Recoveries
<1>11. CASE WriteSnapshot
  <2>1. recovery' = recovery
    BY <1>11 DEF WriteSnapshot, serverVars, jobVars
  <2> QED BY <1>0, <2>1 DEF RecordKept
<1>12. CASE Record
  <2>1. recovery' = recovery
    BY <1>12 DEF Record, serverVars, jobVars
  <2> QED BY <1>0, <2>1 DEF RecordKept
<1>13. CASE SaveMarker
  <2>1. step = "marker" /\ recovery' \in {recovery, [recovery EXCEPT !.complete = TRUE]}
    BY <1>13 DEF SaveMarker
  <2>2. CASE recovery' = recovery
    BY <1>0, <2>2 DEF RecordKept
  <2>3. CASE recovery' = [recovery EXCEPT !.complete = TRUE]
    BY <1>0, <2>1, <2>3 DEF RecordKept, Recoveries
  <2> QED BY <2>1, <2>2, <2>3
<1>14. CASE Prune
  <2>1. recovery' = recovery
    BY <1>14 DEF Prune, serverVars, jobVars
  <2> QED BY <1>0, <2>1 DEF RecordKept
<1>15. CASE Cleanup
  <2>1. recovery' \in {recovery, [recovery EXCEPT !.helper = FALSE]}
    BY <1>15 DEF Cleanup
  <2>2. CASE recovery' = recovery
    BY <1>0, <2>2 DEF RecordKept
  <2>3. CASE recovery' = [recovery EXCEPT !.helper = FALSE]
    BY <1>0, <2>3 DEF RecordKept, Recoveries
  <2> QED BY <2>1, <2>2, <2>3
<1>16. CASE BackupFails
  <2>1. recovery' = recovery
    BY <1>16 DEF BackupFails, serverVars, jobVars
  <2> QED BY <1>0, <2>1 DEF RecordKept
<1>17. CASE AfterBackup
  <2>1. recovery' = recovery
    BY <1>17 DEF AfterBackup, serverVars, jobVars
  <2> QED BY <1>0, <2>1 DEF RecordKept
<1>18. CASE SaveStarting
  <2>1. recovery' \in {recovery, [recovery EXCEPT !.startRequested = TRUE]}
    BY <1>18 DEF SaveStarting
  <2>2. CASE recovery' = recovery
    BY <1>0, <2>2 DEF RecordKept
  <2>3. CASE recovery' = [recovery EXCEPT !.startRequested = TRUE]
    BY <1>0, <2>3 DEF RecordKept, Recoveries
  <2> QED BY <2>1, <2>2, <2>3
<1>19. CASE RestartAnswered
  <2>1. recovery' \in {recovery, [recovery EXCEPT !.stateRestored = TRUE]}
    BY <1>19 DEF RestartAnswered
  <2>2. CASE recovery' = recovery
    BY <1>0, <2>2 DEF RecordKept
  <2>3. CASE recovery' = [recovery EXCEPT !.stateRestored = TRUE]
    BY <1>0, <2>3 DEF RecordKept, Recoveries
  <2> QED BY <2>1, <2>2, <2>3
<1>20. CASE Restore
  <2>1. recovery' \in {recovery, [recovery EXCEPT !.startRequested = TRUE]}
    BY <1>20 DEF Restore
  <2>2. CASE recovery' = recovery
    BY <1>0, <2>2 DEF RecordKept
  <2>3. CASE recovery' = [recovery EXCEPT !.startRequested = TRUE]
    BY <1>0, <2>3 DEF RecordKept, Recoveries
  <2> QED BY <2>1, <2>2, <2>3
<1>21. CASE RestartServer
  <2>1. recovery' = recovery
    BY <1>21 DEF RestartServer, serverVars, jobVars
  <2> QED BY <1>0, <2>1 DEF RecordKept
<1>22. CASE SaveDataRestored
  <2>1. recovery' \in {recovery, [recovery EXCEPT !.stateRestored = TRUE]}
    BY <1>22 DEF SaveDataRestored
  <2>2. CASE recovery' = recovery
    BY <1>0, <2>2 DEF RecordKept
  <2>3. CASE recovery' = [recovery EXCEPT !.stateRestored = TRUE]
    BY <1>0, <2>3 DEF RecordKept, Recoveries
  <2> QED BY <2>1, <2>2, <2>3
<1>23. CASE SettleStop
  <2>1. \/ recovery' = recovery
        \/ recovery' = [recovery EXCEPT !.settled = TRUE]
        \/ recovery' = [recovery EXCEPT !.settled = TRUE,
                                      !.stateRestored = recovery.stateRestored \/ step = "restore"]
    BY <1>23 DEF SettleStop
  <2>2. CASE recovery' = recovery
    BY <1>0, <2>2 DEF RecordKept
  <2>3. CASE recovery' = [recovery EXCEPT !.settled = TRUE]
    BY <1>0, <2>3 DEF RecordKept, Recoveries
  <2>4. CASE recovery' = [recovery EXCEPT !.settled = TRUE,
                                      !.stateRestored = recovery.stateRestored \/ step = "restore"]
    <3>1. CASE recovery.stateRestored \/ step = "restore"
      <4>1. recovery' = [recovery EXCEPT !.settled = TRUE, !.stateRestored = TRUE]
        BY <2>4, <3>1
      <4> QED BY <1>0, <4>1 DEF RecordKept, Recoveries
    <3>2. CASE ~(recovery.stateRestored \/ step = "restore")
      <4>1. recovery' = [recovery EXCEPT !.settled = TRUE, !.stateRestored = FALSE]
        BY <2>4, <3>2
      <4> QED BY <1>0, <3>2, <4>1 DEF RecordKept, Recoveries
    <3> QED BY <3>1, <3>2
  <2> QED BY <2>1, <2>2, <2>3, <2>4
<1>24. CASE KeepStopped
  <2>1. recovery' = recovery
    BY <1>24 DEF KeepStopped, serverVars, jobVars
  <2> QED BY <1>0, <2>1 DEF RecordKept
<1>25. CASE Deferred
  <2>1. recovery' = recovery
    BY <1>25 DEF Deferred, serverVars, jobVars
  <2> QED BY <1>0, <2>1 DEF RecordKept
<1>26. CASE CrashJob
  <2>1. recovery' = recovery
    BY <1>26 DEF CrashJob, serverVars, jobVars
  <2> QED BY <1>0, <2>1 DEF RecordKept
<1>27. CASE RecoverBackup
  <2>1. recovery' \in {recovery, [recovery EXCEPT !.helper = FALSE]}
    BY <1>27 DEF RecoverBackup
  <2>2. CASE recovery' = recovery
    BY <1>0, <2>2 DEF RecordKept
  <2>3. CASE recovery' = [recovery EXCEPT !.helper = FALSE]
    BY <1>0, <2>3 DEF RecordKept, Recoveries
  <2> QED BY <2>1, <2>2, <2>3
<1> QED
  BY <1>1, <1>2, <1>3, <1>4, <1>5, <1>6, <1>7, <1>8, <1>9, <1>10, <1>11, <1>12, <1>13, <1>14,
     <1>15, <1>16, <1>17, <1>18, <1>19, <1>20, <1>21, <1>22, <1>23, <1>24, <1>25, <1>26,
     <1>27 DEF DataNext

\* The types, by kind.
FlagsTyped ==
    /\ kind \in {"backup", "restart"} /\ ok \in BOOLEAN /\ backup \in {"none", "partial", "row"}
    /\ helper \in BOOLEAN /\ srv \in BOOLEAN /\ stopping \in BOOLEAN /\ overdue \in BOOLEAN
    /\ unrestored \in BOOLEAN /\ tainted \in BOOLEAN

CountsTyped == inst \in Nat /\ starts \in Nat /\ dataCrashes \in 0..MaxDataCrashes

LEMMA DataTypes ==
    DataTypeOK <=> FlagsTyped /\ CountsTyped /\ step \in Steps /\ recovery \in Recoveries
BY DEF DataTypeOK, FlagsTyped, CountsTyped, Recoveries

\* Every step keeps the types.
LEMMA FlagsStay ==
    ASSUME DataInv, DataNext
    PROVE  FlagsTyped'
<1> USE DEF Goto, serverVars, jobVars, Start, RemoveHelpers, FlagsTyped
<1>0. FlagsTyped
  BY DataTypes DEF DataInv
<1>1. CASE StopCompletes
  BY <1>0, <1>1 DEF StopCompletes
<1>2. CASE GameExits
  BY <1>0, <1>2 DEF GameExits
<1>3. CASE OwnerStarts
  BY <1>0, <1>3 DEF OwnerStarts
<1>4. CASE DeadlinePasses
  BY <1>0, <1>4 DEF DeadlinePasses
<1>5. CASE RecordDataStop
  BY <1>0, <1>5 DEF RecordDataStop
<1>6. CASE DispatchStop
  BY <1>0, <1>6 DEF DispatchStop
<1>7. CASE SaveDataStopped
  BY <1>0, <1>7 DEF SaveDataStopped
<1>8. CASE AssertDataStopped
  BY <1>0, <1>8 DEF AssertDataStopped
<1>9. CASE NewDataHelper
  BY <1>0, <1>9 DEF NewDataHelper
<1>10. CASE SaveHelper
  BY <1>0, <1>10 DEF SaveHelper
<1>11. CASE WriteSnapshot
  BY <1>0, <1>11 DEF WriteSnapshot
<1>12. CASE Record
  BY <1>0, <1>12 DEF Record
<1>13. CASE SaveMarker
  BY <1>0, <1>13 DEF SaveMarker
<1>14. CASE Prune
  BY <1>0, <1>14 DEF Prune
<1>15. CASE Cleanup
  BY <1>0, <1>15 DEF Cleanup
<1>16. CASE BackupFails
  BY <1>0, <1>16 DEF BackupFails
<1>17. CASE AfterBackup
  BY <1>0, <1>17 DEF AfterBackup
<1>18. CASE SaveStarting
  BY <1>0, <1>18 DEF SaveStarting
<1>19. CASE RestartAnswered
  <2>1. srv' = TRUE \/ srv' = srv
    BY <1>19 DEF RestartAnswered
  <2>2. ok' \in {ok, TRUE, FALSE} /\ unrestored' \in {unrestored, TRUE}
    BY <1>19 DEF RestartAnswered
  <2>3. UNCHANGED <<kind, backup, helper, stopping, overdue, tainted>>
    BY <1>19 DEF RestartAnswered
  <2> QED BY <1>0, <2>1, <2>2, <2>3
<1>20. CASE Restore
  <2>1. unrestored' = TRUE \/ unrestored' = unrestored
    BY <1>20 DEF Restore
  <2>2. UNCHANGED <<kind, ok, backup, helper, srv, stopping, overdue, tainted>>
    BY <1>20 DEF Restore
  <2> QED BY <1>0, <2>1, <2>2
<1>21. CASE RestartServer
  <2>1. srv' = TRUE \/ srv' = srv
    BY <1>21 DEF RestartServer
  <2>2. ok' \in {ok, TRUE, FALSE} /\ unrestored' \in {unrestored, TRUE}
    BY <1>21 DEF RestartServer
  <2>3. UNCHANGED <<kind, backup, helper, stopping, overdue, tainted>>
    BY <1>21 DEF RestartServer
  <2> QED BY <1>0, <2>1, <2>2, <2>3
<1>22. CASE SaveDataRestored
  BY <1>0, <1>22 DEF SaveDataRestored
<1>23. CASE SettleStop
  <2>1. unrestored' = TRUE \/ unrestored' = unrestored
    BY <1>23 DEF SettleStop
  <2>2. UNCHANGED <<kind, ok, backup, helper, srv, stopping, overdue, tainted>>
    BY <1>23 DEF SettleStop
  <2> QED BY <1>0, <2>1, <2>2
<1>24. CASE KeepStopped
  BY <1>0, <1>24 DEF KeepStopped
<1>25. CASE Deferred
  BY <1>0, <1>25 DEF Deferred
<1>26. CASE CrashJob
  BY <1>0, <1>26 DEF CrashJob
<1>27. CASE RecoverBackup
  BY <1>0, <1>27 DEF RecoverBackup
<1> QED
  BY <1>1, <1>2, <1>3, <1>4, <1>5, <1>6, <1>7, <1>8, <1>9, <1>10, <1>11, <1>12, <1>13, <1>14,
     <1>15, <1>16, <1>17, <1>18, <1>19, <1>20, <1>21, <1>22, <1>23, <1>24, <1>25, <1>26,
     <1>27 DEF DataNext

LEMMA CountsStay ==
    ASSUME DataInv, DataNext
    PROVE  CountsTyped'
<1> USE DEF Goto, serverVars, jobVars, Start
<1>0. CountsTyped
  BY DataTypes DEF DataInv
<1>a. inst' \in {inst, inst + 1}
  BY DEF DataNext, StopCompletes, GameExits, OwnerStarts, DeadlinePasses, RecordDataStop,
     DispatchStop, SaveDataStopped, AssertDataStopped, NewDataHelper, SaveHelper, WriteSnapshot,
     Record, SaveMarker, Prune, Cleanup, BackupFails, AfterBackup, SaveStarting, RestartAnswered,
     Restore, RestartServer, SaveDataRestored, SettleStop, KeepStopped, Deferred, CrashJob,
     RecoverBackup
<1>b. starts' \in {starts, starts + 1}
  BY DEF DataNext, StopCompletes, GameExits, OwnerStarts, DeadlinePasses, RecordDataStop,
     DispatchStop, SaveDataStopped, AssertDataStopped, NewDataHelper, SaveHelper, WriteSnapshot,
     Record, SaveMarker, Prune, Cleanup, BackupFails, AfterBackup, SaveStarting, RestartAnswered,
     Restore, RestartServer, SaveDataRestored, SettleStop, KeepStopped, Deferred, CrashJob,
     RecoverBackup
<1>c. \/ dataCrashes' = dataCrashes
      \/ dataCrashes < MaxDataCrashes /\ dataCrashes' = dataCrashes + 1
  BY DEF DataNext, StopCompletes, GameExits, OwnerStarts, DeadlinePasses, RecordDataStop,
     DispatchStop, SaveDataStopped, AssertDataStopped, NewDataHelper, SaveHelper, WriteSnapshot,
     Record, SaveMarker, Prune, Cleanup, BackupFails, AfterBackup, SaveStarting, RestartAnswered,
     Restore, RestartServer, SaveDataRestored, SettleStop, KeepStopped, Deferred, CrashJob,
     RecoverBackup
<1>1. inst' \in Nat /\ starts' \in Nat
  BY <1>0, <1>a, <1>b DEF CountsTyped
<1>2. dataCrashes' \in 0..MaxDataCrashes
  BY <1>0, <1>c, DataAssumption DEF CountsTyped
<1> QED BY <1>1, <1>2 DEF CountsTyped

LEMMA StepStays ==
    ASSUME DataInv, DataNext
    PROVE  step' \in Steps
<1> USE DEF Goto, Steps
<1>0. step \in Steps
  BY DataTypes DEF DataInv
<1>1. CASE StopCompletes
  BY <1>0, <1>1 DEF StopCompletes
<1>2. CASE GameExits
  BY <1>0, <1>2 DEF GameExits
<1>3. CASE OwnerStarts
  BY <1>0, <1>3 DEF OwnerStarts
<1>4. CASE DeadlinePasses
  BY <1>0, <1>4 DEF DeadlinePasses
<1>5. CASE RecordDataStop
  BY <1>0, <1>5 DEF RecordDataStop
<1>6. CASE DispatchStop
  BY <1>0, <1>6 DEF DispatchStop
<1>7. CASE SaveDataStopped
  BY <1>0, <1>7 DEF SaveDataStopped
<1>8. CASE AssertDataStopped
  BY <1>0, <1>8 DEF AssertDataStopped
<1>9. CASE NewDataHelper
  BY <1>0, <1>9 DEF NewDataHelper
<1>10. CASE SaveHelper
  BY <1>0, <1>10 DEF SaveHelper
<1>11. CASE WriteSnapshot
  BY <1>0, <1>11 DEF WriteSnapshot
<1>12. CASE Record
  BY <1>0, <1>12 DEF Record
<1>13. CASE SaveMarker
  BY <1>0, <1>13 DEF SaveMarker
<1>14. CASE Prune
  BY <1>0, <1>14 DEF Prune
<1>15. CASE Cleanup
  BY <1>0, <1>15 DEF Cleanup
<1>16. CASE BackupFails
  BY <1>0, <1>16 DEF BackupFails
<1>17. CASE AfterBackup
  BY <1>0, <1>17 DEF AfterBackup
<1>18. CASE SaveStarting
  BY <1>0, <1>18 DEF SaveStarting
<1>19. CASE RestartAnswered
  BY <1>0, <1>19 DEF RestartAnswered
<1>20. CASE Restore
  BY <1>0, <1>20 DEF Restore
<1>21. CASE RestartServer
  BY <1>0, <1>21 DEF RestartServer
<1>22. CASE SaveDataRestored
  BY <1>0, <1>22 DEF SaveDataRestored
<1>23. CASE SettleStop
  BY <1>0, <1>23 DEF SettleStop
<1>24. CASE KeepStopped
  BY <1>0, <1>24 DEF KeepStopped
<1>25. CASE Deferred
  BY <1>0, <1>25 DEF Deferred
<1>26. CASE CrashJob
  BY <1>0, <1>26 DEF CrashJob
<1>27. CASE RecoverBackup
  BY <1>0, <1>27 DEF RecoverBackup
<1> QED
  BY <1>1, <1>2, <1>3, <1>4, <1>5, <1>6, <1>7, <1>8, <1>9, <1>10, <1>11, <1>12, <1>13, <1>14,
     <1>15, <1>16, <1>17, <1>18, <1>19, <1>20, <1>21, <1>22, <1>23, <1>24, <1>25, <1>26,
     <1>27 DEF DataNext

\* Every step keeps the parts of the invariant.
LEMMA InstKeeps ==
    ASSUME DataInv, DataNext
    PROVE  InstFits'
<1>1. /\ recovery.stoppedAt \in Nat /\ inst \in Nat /\ recovery.stoppedAt <= inst
      /\ recovery'.stoppedAt \in {recovery.stoppedAt, inst}
  BY RecordKeeps DEF DataInv, DataTypeOK, InstFits, RecordKept
<1>2. inst' \in {inst, inst + 1}
  BY DEF DataNext, StopCompletes, GameExits, OwnerStarts, DeadlinePasses, RecordDataStop,
     DispatchStop, SaveDataStopped, AssertDataStopped, NewDataHelper, SaveHelper, WriteSnapshot,
     Record, SaveMarker, Prune, Cleanup, BackupFails, AfterBackup, SaveStarting, RestartAnswered,
     Restore, RestartServer, SaveDataRestored, SettleStop, KeepStopped, Deferred, CrashJob,
     RecoverBackup, serverVars, Start
<1> QED BY <1>1, <1>2 DEF InstFits

LEMMA HelperKeeps ==
    ASSUME DataInv, DataNext
    PROVE  HelperFits'
<1> USE DEF Goto, serverVars, RemoveHelpers, KeptSteps, HelperFits
<1>0. HelperFits
  BY DEF DataInv
<1>1. CASE StopCompletes
  BY <1>0, <1>1 DEF StopCompletes
<1>2. CASE GameExits
  BY <1>0, <1>2 DEF GameExits
<1>3. CASE OwnerStarts
  BY <1>0, <1>3 DEF OwnerStarts
<1>4. CASE DeadlinePasses
  BY <1>0, <1>4 DEF DeadlinePasses
<1>5. CASE RecordDataStop
  BY <1>0, <1>5 DEF RecordDataStop
<1>6. CASE DispatchStop
  BY <1>0, <1>6 DEF DispatchStop
<1>7. CASE SaveDataStopped
  BY <1>0, <1>7 DEF SaveDataStopped
<1>8. CASE AssertDataStopped
  BY <1>0, <1>8 DEF AssertDataStopped
<1>9. CASE NewDataHelper
  BY <1>0, <1>9 DEF NewDataHelper
<1>10. CASE SaveHelper
  BY <1>0, <1>10 DEF SaveHelper
<1>11. CASE WriteSnapshot
  BY <1>0, <1>11 DEF WriteSnapshot
<1>12. CASE Record
  BY <1>0, <1>12 DEF Record
<1>13. CASE SaveMarker
  BY <1>0, <1>13 DEF SaveMarker
<1>14. CASE Prune
  BY <1>0, <1>14 DEF Prune
<1>15. CASE Cleanup
  BY <1>0, <1>15 DEF Cleanup
<1>16. CASE BackupFails
  BY <1>0, <1>16 DEF BackupFails
<1>17. CASE AfterBackup
  BY <1>0, <1>17 DEF AfterBackup
<1>18. CASE SaveStarting
  BY <1>0, <1>18 DEF SaveStarting
<1>19. CASE RestartAnswered
  BY <1>0, <1>19 DEF RestartAnswered
<1>20. CASE Restore
  BY <1>0, <1>20 DEF Restore
<1>21. CASE RestartServer
  BY <1>0, <1>21 DEF RestartServer
<1>22. CASE SaveDataRestored
  BY <1>0, <1>22 DEF SaveDataRestored
<1>23. CASE SettleStop
  BY <1>0, <1>23 DEF SettleStop
<1>24. CASE KeepStopped
  BY <1>0, <1>24 DEF KeepStopped
<1>25. CASE Deferred
  BY <1>0, <1>25 DEF Deferred
<1>26. CASE CrashJob
  BY <1>0, <1>26 DEF CrashJob
<1>27. CASE RecoverBackup
  BY <1>0, <1>27 DEF RecoverBackup
<1> QED
  BY <1>1, <1>2, <1>3, <1>4, <1>5, <1>6, <1>7, <1>8, <1>9, <1>10, <1>11, <1>12, <1>13, <1>14,
     <1>15, <1>16, <1>17, <1>18, <1>19, <1>20, <1>21, <1>22, <1>23, <1>24, <1>25, <1>26,
     <1>27 DEF DataNext

LEMMA CopyKeeps ==
    ASSUME DataInv, DataNext
    PROVE  CopyFits'
<1> USE DEF Goto, serverVars, RemoveHelpers, StopSteps, CopySteps, CopyFits
<1>0. /\ CopyFits /\ RecordKept /\ ok \in BOOLEAN /\ inst \in Nat /\ recovery.stoppedAt \in Nat
      /\ recovery.stoppedAt <= inst
  BY RecordKeeps DEF DataInv, DataTypeOK, InstFits
<1>1. CASE StopCompletes
  BY <1>0, <1>1 DEF StopCompletes, RecordKept
<1>2. CASE GameExits
  BY <1>0, <1>2 DEF GameExits, RecordKept
<1>3. CASE OwnerStarts
  <2>1. /\ inst' = inst + 1 /\ inst' > recovery.stoppedAt /\ recovery'.stoppedAt \in {recovery.stoppedAt, inst}
        /\ recovery' = recovery /\ UNCHANGED <<step, ok, backup>>
    BY <1>0, <1>3 DEF OwnerStarts, RecordKept
  <2>2. tainted' = (tainted \/ step = "copying")
    BY <1>3 DEF OwnerStarts
  <2> QED BY <1>0, <2>1, <2>2
<1>4. CASE DeadlinePasses
  BY <1>0, <1>4 DEF DeadlinePasses, RecordKept
<1>5. CASE RecordDataStop
  BY <1>0, <1>5 DEF RecordDataStop, RecordKept
<1>6. CASE DispatchStop
  BY <1>0, <1>6 DEF DispatchStop, RecordKept
<1>7. CASE SaveDataStopped
  BY <1>0, <1>7 DEF SaveDataStopped, RecordKept
<1>8. CASE AssertDataStopped
  BY <1>0, <1>8 DEF AssertDataStopped, ServerStillStopped, SameInstance, RecordKept
<1>9. CASE NewDataHelper
  BY <1>0, <1>9 DEF NewDataHelper, RecordKept
<1>10. CASE SaveHelper
  BY <1>0, <1>10 DEF SaveHelper, RecordKept
<1>11. CASE WriteSnapshot
  BY <1>0, <1>11 DEF WriteSnapshot, RecordKept
<1>12. CASE Record
  BY <1>0, <1>12 DEF Record, RecordKept
<1>13. CASE SaveMarker
  BY <1>0, <1>13 DEF SaveMarker, RecordKept
<1>14. CASE Prune
  BY <1>0, <1>14 DEF Prune, RecordKept
<1>15. CASE Cleanup
  BY <1>0, <1>15 DEF Cleanup, RecordKept
<1>16. CASE BackupFails
  BY <1>0, <1>16 DEF BackupFails, RecordKept
<1>17. CASE AfterBackup
  BY <1>0, <1>17 DEF AfterBackup, RecordKept
<1>18. CASE SaveStarting
  BY <1>0, <1>18 DEF SaveStarting, RecordKept
<1>19. CASE RestartAnswered
  BY <1>0, <1>19 DEF RestartAnswered, Start, RecordKept
<1>20. CASE Restore
  BY <1>0, <1>20 DEF Restore, RecordKept
<1>21. CASE RestartServer
  BY <1>0, <1>21 DEF RestartServer, Start, RecordKept
<1>22. CASE SaveDataRestored
  BY <1>0, <1>22 DEF SaveDataRestored, RecordKept
<1>23. CASE SettleStop
  BY <1>0, <1>23 DEF SettleStop, RecordKept
<1>24. CASE KeepStopped
  BY <1>0, <1>24 DEF KeepStopped, RecordKept
<1>25. CASE Deferred
  BY <1>0, <1>25 DEF Deferred, RecordKept
<1>26. CASE CrashJob
  BY <1>0, <1>26 DEF CrashJob, RecordKept
<1>27. CASE RecoverBackup
  BY <1>0, <1>27 DEF RecoverBackup, RecordKept
<1> QED
  BY <1>1, <1>2, <1>3, <1>4, <1>5, <1>6, <1>7, <1>8, <1>9, <1>10, <1>11, <1>12, <1>13, <1>14,
     <1>15, <1>16, <1>17, <1>18, <1>19, <1>20, <1>21, <1>22, <1>23, <1>24, <1>25, <1>26,
     <1>27 DEF DataNext

LEMMA StartKeeps ==
    ASSUME DataInv, DataNext
    PROVE  StartFits'
<1> USE DEF Goto, serverVars, jobVars, RemoveHelpers, StartSteps, KeepSteps, RestoreSteps,
     StartFits
<1>0. /\ StartFits /\ RecordKept /\ starts \in Nat /\ inst \in Nat /\ recovery.stoppedAt \in Nat
      /\ recovery.stoppedAt <= inst /\ kind \in {"backup", "restart"}
      /\ step \in {"cleanup", "backedUp"} /\ ok => backup = "row"
      /\ recovery.complete => backup = "row"
      /\ helper => step \in {"copy", "copying", "copied", "row", "recover"} \cup KeptSteps
  BY RecordKeeps DEF DataInv, DataTypeOK, InstFits, CopyFits, HelperFits
<1>1. CASE StopCompletes
  BY <1>0, <1>1 DEF StopCompletes, RecordKept, KeptSteps
<1>2. CASE GameExits
  BY <1>0, <1>2 DEF GameExits, RecordKept, KeptSteps
<1>3. CASE OwnerStarts
  BY <1>0, <1>3 DEF OwnerStarts, RecordKept, KeptSteps
<1>4. CASE DeadlinePasses
  BY <1>0, <1>4 DEF DeadlinePasses, RecordKept, KeptSteps
<1>5. CASE RecordDataStop
  BY <1>0, <1>5 DEF RecordDataStop, RecordKept, KeptSteps
<1>6. CASE DispatchStop
  BY <1>0, <1>6 DEF DispatchStop, RecordKept, KeptSteps
<1>7. CASE SaveDataStopped
  BY <1>0, <1>7 DEF SaveDataStopped, RecordKept, KeptSteps
<1>8. CASE AssertDataStopped
  BY <1>0, <1>8 DEF AssertDataStopped, RecordKept, KeptSteps
<1>9. CASE NewDataHelper
  BY <1>0, <1>9 DEF NewDataHelper, RecordKept, KeptSteps
<1>10. CASE SaveHelper
  BY <1>0, <1>10 DEF SaveHelper, RecordKept, KeptSteps
<1>11. CASE WriteSnapshot
  BY <1>0, <1>11 DEF WriteSnapshot, RecordKept, KeptSteps
<1>12. CASE Record
  BY <1>0, <1>12 DEF Record, RecordKept, KeptSteps
<1>13. CASE SaveMarker
  BY <1>0, <1>13 DEF SaveMarker, RecordKept, KeptSteps
<1>14. CASE Prune
  BY <1>0, <1>14 DEF Prune, RecordKept, KeptSteps
<1>15. CASE Cleanup
  BY <1>0, <1>15 DEF Cleanup, RecordKept, KeptSteps
<1>16. CASE BackupFails
  BY <1>0, <1>16 DEF BackupFails, RecordKept, KeptSteps
<1>17. CASE AfterBackup
  BY <1>0, <1>17 DEF AfterBackup, RecordKept, KeptSteps
<1>18. CASE SaveStarting
  <2>1. recovery' = [recovery EXCEPT !.startRequested = TRUE] => recovery'.startRequested
    BY DEF DataInv, DataTypeOK
  <2> QED BY <1>0, <2>1, <1>18 DEF SaveStarting, RecordKept, Save
<1>19. CASE RestartAnswered
  BY <1>0, <1>19 DEF RestartAnswered, Start, RecordKept, KeptSteps
<1>20. CASE Restore
  <2>1. recovery' = [recovery EXCEPT !.startRequested = TRUE] => recovery'.startRequested
    BY DEF DataInv, DataTypeOK
  <2> QED BY <1>0, <2>1, <1>20 DEF Restore, RecordKept, Save
<1>21. CASE RestartServer
  BY <1>0, <1>21 DEF RestartServer, Start, RecordKept, KeptSteps
<1>22. CASE SaveDataRestored
  BY <1>0, <1>22 DEF SaveDataRestored, RecordKept, KeptSteps
<1>23. CASE SettleStop
  BY <1>0, <1>23 DEF SettleStop, RecordKept, KeptSteps
<1>24. CASE KeepStopped
  BY <1>0, <1>24 DEF KeepStopped, Completed, RecordKept, KeptSteps
<1>25. CASE Deferred
  BY <1>0, <1>25 DEF Deferred, Completed, RecordKept, KeptSteps
<1>26. CASE CrashJob
  BY <1>0, <1>26 DEF CrashJob, RecordKept, KeptSteps
<1>27. CASE RecoverBackup
  BY <1>0, <1>27 DEF RecoverBackup, Completed, RecordKept, KeptSteps
<1> QED
  BY <1>1, <1>2, <1>3, <1>4, <1>5, <1>6, <1>7, <1>8, <1>9, <1>10, <1>11, <1>12, <1>13, <1>14,
     <1>15, <1>16, <1>17, <1>18, <1>19, <1>20, <1>21, <1>22, <1>23, <1>24, <1>25, <1>26,
     <1>27 DEF DataNext

LEMMA EndKeeps ==
    ASSUME DataInv, DataNext
    PROVE  EndFits'
<1> USE DEF Goto, serverVars, jobVars, EndFits
<1>0. /\ EndFits /\ RecordKept /\ kind \in {"backup", "restart"}
      /\ step \in StartSteps \cup KeepSteps => kind = "restart"
  BY RecordKeeps DEF DataInv, DataTypeOK, StartFits
<1>1. CASE StopCompletes
  BY <1>0, <1>1 DEF StopCompletes, RecordKept, KeepSteps, StartSteps
<1>2. CASE GameExits
  BY <1>0, <1>2 DEF GameExits, RecordKept, KeepSteps, StartSteps
<1>3. CASE OwnerStarts
  BY <1>0, <1>3 DEF OwnerStarts, RecordKept, KeepSteps, StartSteps
<1>4. CASE DeadlinePasses
  BY <1>0, <1>4 DEF DeadlinePasses, RecordKept, KeepSteps, StartSteps
<1>5. CASE RecordDataStop
  BY <1>0, <1>5 DEF RecordDataStop, RecordKept, KeepSteps, StartSteps
<1>6. CASE DispatchStop
  BY <1>0, <1>6 DEF DispatchStop, RecordKept, KeepSteps, StartSteps
<1>7. CASE SaveDataStopped
  BY <1>0, <1>7 DEF SaveDataStopped, RecordKept, KeepSteps, StartSteps
<1>8. CASE AssertDataStopped
  BY <1>0, <1>8 DEF AssertDataStopped, RecordKept, KeepSteps, StartSteps
<1>9. CASE NewDataHelper
  BY <1>0, <1>9 DEF NewDataHelper, RecordKept, KeepSteps, StartSteps
<1>10. CASE SaveHelper
  BY <1>0, <1>10 DEF SaveHelper, RecordKept, KeepSteps, StartSteps
<1>11. CASE WriteSnapshot
  BY <1>0, <1>11 DEF WriteSnapshot, RecordKept, KeepSteps, StartSteps
<1>12. CASE Record
  BY <1>0, <1>12 DEF Record, RecordKept, KeepSteps, StartSteps
<1>13. CASE SaveMarker
  BY <1>0, <1>13 DEF SaveMarker, RecordKept, KeepSteps, StartSteps
<1>14. CASE Prune
  BY <1>0, <1>14 DEF Prune, RecordKept, KeepSteps, StartSteps
<1>15. CASE Cleanup
  BY <1>0, <1>15 DEF Cleanup, RecordKept, KeepSteps, StartSteps
<1>16. CASE BackupFails
  BY <1>0, <1>16 DEF BackupFails, RecordKept, KeepSteps, StartSteps
<1>17. CASE AfterBackup
  BY <1>0, <1>17 DEF AfterBackup, RecordKept, KeepSteps, StartSteps
<1>18. CASE SaveStarting
  BY <1>0, <1>18 DEF SaveStarting, RecordKept, KeepSteps, StartSteps
<1>19. CASE RestartAnswered
  BY <1>0, <1>19 DEF RestartAnswered, RecordKept, KeepSteps, StartSteps
<1>20. CASE Restore
  BY <1>0, <1>20 DEF Restore, RecordKept, KeepSteps, StartSteps
<1>21. CASE RestartServer
  BY <1>0, <1>21 DEF RestartServer, RecordKept, KeepSteps, StartSteps
<1>22. CASE SaveDataRestored
  <2>1. recovery' = [recovery EXCEPT !.stateRestored = TRUE] => recovery'.stateRestored
    BY DEF DataInv, DataTypeOK
  <2> QED BY <1>0, <2>1, <1>22 DEF SaveDataRestored, RecordKept, Save
<1>23. CASE SettleStop
  <2>1. /\ step = "restore"
        /\ recovery' = [recovery EXCEPT !.settled = TRUE,
                                       !.stateRestored = recovery.stateRestored \/ step = "restore"]
        => recovery'.stateRestored
    BY DEF DataInv, DataTypeOK
  <2> QED BY <1>0, <2>1, <1>23 DEF SettleStop, RecordKept, Save, KeepSteps
<1>24. CASE KeepStopped
  BY <1>0, <1>24 DEF KeepStopped, RecordKept, KeepSteps, StartSteps
<1>25. CASE Deferred
  BY <1>0, <1>25 DEF Deferred, RecordKept, KeepSteps, StartSteps
<1>26. CASE CrashJob
  BY <1>0, <1>26 DEF CrashJob, RecordKept, KeepSteps, StartSteps
<1>27. CASE RecoverBackup
  BY <1>0, <1>27 DEF RecoverBackup, RecordKept, KeepSteps, StartSteps
<1> QED
  BY <1>1, <1>2, <1>3, <1>4, <1>5, <1>6, <1>7, <1>8, <1>9, <1>10, <1>11, <1>12, <1>13, <1>14,
     <1>15, <1>16, <1>17, <1>18, <1>19, <1>20, <1>21, <1>22, <1>23, <1>24, <1>25, <1>26,
     <1>27 DEF DataNext

\* The invariant holds at first, in a stutter and after every step.
LEMMA DataStarts == DataInit => DataInv
<1> SUFFICES ASSUME DataInit PROVE DataInv
  OBVIOUS
<1> DEFINE first == [initial |-> "unset", initialAt |-> 0, settled |-> FALSE, stoppedAt |-> 0,
                     complete |-> FALSE, helper |-> FALSE, startRequested |-> FALSE,
                     stateRestored |-> FALSE]
<1>1. /\ first \in Recoveries /\ first.stoppedAt = 0 /\ first.initial = "unset" /\ ~first.complete
  BY Zenon DEF Recoveries
<1>2. recovery = first
  BY DEF DataInit
<1> HIDE DEF first
<1>3. /\ kind \in {"backup", "restart"} /\ step = "record" /\ ok = TRUE /\ backup = "none"
      /\ helper = FALSE /\ srv \in BOOLEAN /\ inst = 1 /\ stopping = FALSE /\ overdue = FALSE
      /\ unrestored = FALSE /\ tainted = FALSE /\ starts = 0 /\ dataCrashes = 0
  BY DEF DataInit
<1>4. dataCrashes \in 0..MaxDataCrashes /\ inst \in Nat /\ starts \in Nat
  BY <1>3, DataAssumption
<1>5. DataTypeOK
  BY <1>1, <1>2, <1>3, <1>4, DataTypes DEF FlagsTyped, CountsTyped, Steps
<1>6. InstFits /\ HelperFits
  BY <1>1, <1>2, <1>3 DEF InstFits, HelperFits
<1>7. CopyFits
  BY <1>1, <1>2, <1>3 DEF CopyFits, StopSteps, CopySteps
<1>8. StartFits
  BY <1>3 DEF StartFits, StartSteps, KeepSteps, RestoreSteps
<1>9. EndFits
  BY <1>3 DEF EndFits
<1> QED BY <1>5, <1>6, <1>7, <1>8, <1>9 DEF DataInv

LEMMA DataStutters ==
    ASSUME DataInv, UNCHANGED dataVars
    PROVE  DataInv'
<1>1. UNCHANGED <<kind, recovery, step, ok, backup, helper, srv, inst, stopping, overdue,
                  unrestored, tainted, starts, dataCrashes>>
  BY DEF dataVars, serverVars, jobVars
<1>2. DataTypeOK'
  BY <1>1 DEF DataInv, DataTypeOK
<1>3. InstFits' /\ HelperFits' /\ EndFits'
  BY <1>1 DEF DataInv, InstFits, HelperFits, EndFits
<1>4. CopyFits'
  BY <1>1 DEF DataInv, CopyFits
<1>5. StartFits'
  BY <1>1 DEF DataInv, StartFits
<1> QED BY <1>2, <1>3, <1>4, <1>5 DEF DataInv

LEMMA DataKeeps ==
    ASSUME DataInv, [DataNext]_dataVars
    PROVE  DataInv'
<1>1. CASE DataNext
  <2>1. FlagsTyped' /\ CountsTyped' /\ step' \in Steps /\ recovery' \in Recoveries
    BY <1>1, FlagsStay, CountsStay, StepStays, RecordKeeps DEF RecordKept
  <2>2. DataTypeOK'
    BY <2>1 DEF DataTypeOK, FlagsTyped, CountsTyped, Recoveries
  <2> QED
    BY <1>1, <2>2, InstKeeps, HelperKeeps, CopyKeeps, StartKeeps, EndKeeps DEF DataInv
<1>2. CASE UNCHANGED dataVars
  BY <1>2, DataStutters
<1> QED BY <1>1, <1>2

\* The invariant implies what is promised.
LEMMA CopiesFit == DataInv => CopiedWhileDown
<1> SUFFICES ASSUME DataInv PROVE CopiedWhileDown
  OBVIOUS
<1>1. /\ DataTypeOK /\ starts \in Nat /\ (backup = "row" => ~tainted)
  BY DEF DataInv, DataTypeOK, CopyFits
<1>2. /\ starts <= 1 /\ (starts > 0 => ~helper)
      /\ kind = "restart" /\ starts > 0 => backup = "row"
  BY <1>1 DEF DataInv, StartFits
<1> QED BY <1>1, <1>2 DEF DataInv, EndFits, CopiedWhileDown

(* A recorded backup is a copy made while the server was down from         *)
(* beginning to end; Ludock starts the server at most once, when           *)
(* restarting only after a whole backup; and a backup leaves a server that *)
(* ran started, or says that it did not (DataJobs): for any number of      *)
(* starts by the owner and of crashes, with any answer lost.               *)
THEOREM CopiedWhileDownHolds == DataSpec => []CopiedWhileDown
<1>1. DataInv /\ [DataNext]_dataVars => DataInv'
  BY DataKeeps
<1> QED BY DataStarts, <1>1, CopiesFit, PTL DEF DataSpec

-----------------------------------------------------------------------------
(* Sockets.  A connection is counted from its admission on, before it is   *)
(* upgraded; so the table grows only by a connection that the check        *)
(* admitted (TableAdmits) and otherwise shrinks (TableShrinks).            *)

\* A connection and its record.
ConnStates == {"new", "refused", "pending", "upgraded", "serving", "ending", "done"}
ConnRecords == [pc : ConnStates, closed : BOOLEAN, buffered : Nat, drained : BOOLEAN]

\* The parts of the invariant.  Once shutdown began, a connection that serves is closed or is
\* one of those that CloseSockets took: one that was being upgraded does not serve any more.
AllClosing == shutdown => \A c \in Conn : ConnAt(c, "serving") => conn[c].closed \/ c \in closing
BufferBounded == \A c \in Conn : conn[c].buffered <= MaxBuffer
SocketTypes == conn \in [Conn -> ConnRecords] /\ shutdown \in BOOLEAN /\ closing \subseteq Conn
TableBounded ==
    /\ Cardinality(Open) <= MaxSockets /\ Cardinality(NotAdmin) <= MaxSockets - Reserved
    /\ \A u \in {UserOf[c] : c \in Conn} : Cardinality(OfUser(u)) <= MaxPerUser
SocketsInv == SocketTypes /\ TableBounded /\ AllClosing /\ BufferBounded

\* Cardinalities of parts of the table.
LEMMA Fewer ==
    ASSUME NEW S \in SUBSET Conn, NEW T \in SUBSET S
    PROVE  /\ Cardinality(S) \in Nat /\ Cardinality(T) \in Nat
           /\ Cardinality(T) <= Cardinality(S)
  <1>1. IsFiniteSet(Conn)
    BY SocketsAssumption
  <1>2. IsFiniteSet(S)
    BY <1>1, FS_Subset
  <1>3. IsFiniteSet(T) /\ Cardinality(T) <= Cardinality(S)
    BY <1>2, FS_Subset
  <1> QED
    BY <1>2, <1>3, FS_CardinalityType

LEMMA OneMore ==
    ASSUME NEW S \in SUBSET Conn, NEW c \in Conn, NEW T \in SUBSET (S \cup {c})
    PROVE  /\ Cardinality(S) \in Nat /\ Cardinality(T) \in Nat
           /\ Cardinality(T) <= Cardinality(S) + 1
  <1>1. IsFiniteSet(S)
    BY SocketsAssumption, FS_Subset
  <1>2. Cardinality(S) \in Nat
    BY <1>1, FS_CardinalityType
  <1>3. Cardinality(S \cup {c}) = Cardinality(S) \/ Cardinality(S \cup {c}) = Cardinality(S) + 1
    BY <1>1, FS_AddElement
  <1>4. S \cup {c} \in SUBSET Conn
    OBVIOUS
  <1>5. Cardinality(T) \in Nat /\ Cardinality(T) <= Cardinality(S \cup {c})
    BY <1>4, Fewer
  <1> QED
    BY <1>2, <1>3, <1>5

LEMMA ConnUpdates ==
    ASSUME NEW f \in [Conn -> ConnRecords], NEW c \in Conn, NEW r \in ConnRecords
    PROVE  [f EXCEPT ![c] = r] \in [Conn -> ConnRecords]
  OBVIOUS

\* What a record may become.
LEMMA ConnIs ==
    ASSUME NEW r \in ConnRecords
    PROVE  /\ \A s \in ConnStates : [r EXCEPT !.pc = s] \in ConnRecords
           /\ [r EXCEPT !.closed = TRUE] \in ConnRecords
           /\ r.closed \in BOOLEAN /\ r.buffered \in Nat /\ r.drained \in BOOLEAN
  BY DEF ConnRecords

LEMMA NoConnIs ==
    NoConn \in ConnRecords /\ NoConn.buffered = 0
    /\ [NoConn EXCEPT !.pc = "done"] \in ConnRecords
  BY DEF NoConn, ConnRecords, ConnStates

\* The invariant holds at first.
LEMMA SocketsStart == SocketsInit => SocketsInv
  <1> SUFFICES ASSUME SocketsInit
               PROVE  SocketsInv
    OBVIOUS
  <1>1. SocketTypes
    BY NoConnIs DEF SocketsInit, SocketTypes
  <1>2. \A c \in Conn : conn[c].pc = "new"
    BY DEF SocketsInit, NoConn
  <1>3. Open = {} /\ NotAdmin = {} /\ \A u : OfUser(u) = {}
    BY <1>2 DEF Open, NotAdmin, OfUser
  <1>4. Cardinality({}) = 0
    BY FS_EmptySet
  <1>5. TableBounded
    BY <1>3, <1>4, SocketsAssumption DEF TableBounded
  <1>6. AllClosing
    BY DEF SocketsInit, AllClosing
  <1>7. BufferBounded
    BY NoConnIs, SocketsAssumption DEF SocketsInit, BufferBounded
  <1> QED
    BY <1>1, <1>5, <1>6, <1>7 DEF SocketsInv

\* A table that loses connections, or does not change, stays within its limits.
LEMMA TableShrinks ==
    ASSUME TableBounded, Open' \subseteq Open
    PROVE  TableBounded'
  <1>1. Open \in SUBSET Conn /\ NotAdmin \in SUBSET Conn /\ \A u : OfUser(u) \in SUBSET Conn
    BY DEF Open, NotAdmin, OfUser
  <1>2. NotAdmin' \subseteq NotAdmin /\ \A u : OfUser(u)' \subseteq OfUser(u)
    BY DEF NotAdmin, OfUser
  <1>3. Cardinality(Open') <= MaxSockets
    <2>1. /\ Cardinality(Open) \in Nat /\ Cardinality(Open') \in Nat
          /\ Cardinality(Open') <= Cardinality(Open)
      BY <1>1, Fewer
    <2> QED
      BY <2>1, SocketsAssumption DEF TableBounded
  <1>4. Cardinality(NotAdmin') <= MaxSockets - Reserved
    <2>1. /\ Cardinality(NotAdmin) \in Nat /\ Cardinality(NotAdmin') \in Nat
          /\ Cardinality(NotAdmin') <= Cardinality(NotAdmin)
      BY <1>1, <1>2, Fewer
    <2> QED
      BY <2>1, SocketsAssumption DEF TableBounded
  <1>5. ASSUME NEW u \in {UserOf[c] : c \in Conn}
        PROVE  Cardinality(OfUser(u)') <= MaxPerUser
    <2>1. /\ Cardinality(OfUser(u)) \in Nat /\ Cardinality(OfUser(u)') \in Nat
          /\ Cardinality(OfUser(u)') <= Cardinality(OfUser(u))
      BY <1>1, <1>2, Fewer
    <2>2. Cardinality(OfUser(u)) <= MaxPerUser
      BY DEF TableBounded
    <2> QED
      BY <2>1, <2>2, SocketsAssumption
  <1> QED
    BY <1>3, <1>4, <1>5 DEF TableBounded

\* A connection that the check admits fits in.
LEMMA TableAdmits ==
    ASSUME TableBounded, NEW c \in Conn, Admits(c), Open' \subseteq Open \cup {c}
    PROVE  TableBounded'
  <1>1. Open \in SUBSET Conn /\ NotAdmin \in SUBSET Conn /\ \A u : OfUser(u) \in SUBSET Conn
    BY DEF Open, NotAdmin, OfUser
  <1>2. Cardinality(Open') <= MaxSockets
    <2>1. /\ Cardinality(Open) \in Nat /\ Cardinality(Open') \in Nat
          /\ Cardinality(Open') <= Cardinality(Open) + 1
      BY <1>1, OneMore
    <2>2. Cardinality(Open) < MaxSockets
      BY DEF Admits
    <2> QED
      BY <2>1, <2>2, SocketsAssumption
  <1>3. Cardinality(NotAdmin') <= MaxSockets - Reserved
    <2>1. CASE UserOf[c] \in Administrators
      <3>1. NotAdmin' \subseteq NotAdmin
        BY <2>1 DEF NotAdmin
      <3>2. /\ Cardinality(NotAdmin) \in Nat /\ Cardinality(NotAdmin') \in Nat
            /\ Cardinality(NotAdmin') <= Cardinality(NotAdmin)
        BY <1>1, <3>1, Fewer
      <3> QED
        BY <3>2, SocketsAssumption DEF TableBounded
    <2>2. CASE UserOf[c] \notin Administrators
      <3>1. NotAdmin' \subseteq NotAdmin \cup {c}
        BY DEF NotAdmin
      <3>2. /\ Cardinality(NotAdmin) \in Nat /\ Cardinality(NotAdmin') \in Nat
            /\ Cardinality(NotAdmin') <= Cardinality(NotAdmin) + 1
        BY <1>1, <3>1, OneMore
      <3>3. Cardinality(NotAdmin) < MaxSockets - Reserved
        BY <2>2 DEF Admits
      <3> QED
        BY <3>2, <3>3, SocketsAssumption
    <2> QED
      BY <2>1, <2>2
  <1>4. ASSUME NEW u \in {UserOf[d] : d \in Conn}
        PROVE  Cardinality(OfUser(u)') <= MaxPerUser
    <2>1. CASE UserOf[c] = u
      <3>1. OfUser(u)' \subseteq OfUser(u) \cup {c}
        BY DEF OfUser
      <3>2. /\ Cardinality(OfUser(u)) \in Nat /\ Cardinality(OfUser(u)') \in Nat
            /\ Cardinality(OfUser(u)') <= Cardinality(OfUser(u)) + 1
        BY <1>1, <3>1, OneMore
      <3>3. Cardinality(OfUser(u)) < MaxPerUser
        BY <2>1 DEF Admits
      <3> QED
        BY <3>2, <3>3, SocketsAssumption
    <2>2. CASE UserOf[c] # u
      <3>1. OfUser(u)' \subseteq OfUser(u)
        BY <2>2 DEF OfUser
      <3>2. /\ Cardinality(OfUser(u)) \in Nat /\ Cardinality(OfUser(u)') \in Nat
            /\ Cardinality(OfUser(u)') <= Cardinality(OfUser(u))
        BY <1>1, <3>1, Fewer
      <3>3. Cardinality(OfUser(u)) <= MaxPerUser
        BY DEF TableBounded
      <3> QED
        BY <3>2, <3>3, SocketsAssumption
    <2> QED
      BY <2>1, <2>2
  <1> QED
    BY <1>2, <1>3, <1>4 DEF TableBounded

\* What the record of one connection may become.
Follows(c, r) ==
    /\ r \in ConnRecords /\ conn' = [conn EXCEPT ![c] = r] /\ r.buffered <= MaxBuffer
    /\ UNCHANGED shutdown
    /\ \/ closing' = closing
       \/ closing' = closing \ {c} /\ (r.pc = "serving" => r.closed)
    /\ r.pc = "serving" => \/ conn[c].pc = "serving" /\ (conn[c].closed => r.closed)
                           \/ ~shutdown

\* A step of one connection keeps all but the limits; and the limits, when it is in the table.
LEMMA FollowsKeeps ==
    ASSUME SocketsInv, NEW c \in Conn, NEW r, Follows(c, r)
    PROVE  SocketTypes' /\ AllClosing' /\ BufferBounded'
  <1>1. conn \in [Conn -> ConnRecords] /\ r \in ConnRecords /\ conn' = [conn EXCEPT ![c] = r]
    BY DEF SocketsInv, SocketTypes, Follows
  <1>2. /\ conn' \in [Conn -> ConnRecords] /\ conn'[c] = r
        /\ \A d \in Conn \ {c} : conn'[d] = conn[d]
    BY <1>1
  <1>3. SocketTypes'
    BY <1>2 DEF SocketsInv, SocketTypes, Follows
  <1>4. BufferBounded'
    <2> SUFFICES ASSUME NEW d \in Conn
                 PROVE  conn'[d].buffered <= MaxBuffer
      BY DEF BufferBounded
    <2>1. CASE d = c
      BY <1>2, <2>1 DEF Follows
    <2>2. CASE d # c
      BY <1>2, <2>2 DEF SocketsInv, BufferBounded
    <2> QED
      BY <2>1, <2>2
  <1>5. AllClosing'
    <2> SUFFICES ASSUME shutdown', NEW d \in Conn, conn'[d].pc = "serving"
                 PROVE  conn'[d].closed \/ d \in closing'
      BY DEF AllClosing, ConnAt
    <2>0. shutdown
      BY DEF Follows
    <2>1. CASE d # c
      <3>1. conn[d].closed \/ d \in closing
        BY <1>2, <2>0, <2>1 DEF SocketsInv, AllClosing, ConnAt
      <3>2. d \in closing => d \in closing'
        BY <2>1 DEF Follows
      <3> QED
        BY <1>2, <2>1, <3>1, <3>2
    <2>2. CASE d = c
      <3>1. r.pc = "serving"
        BY <1>2, <2>2
      <3>2. conn[c].pc = "serving" /\ (conn[c].closed => r.closed)
        BY <2>0, <3>1 DEF Follows
      <3>3. conn[c].closed \/ c \in closing
        BY <2>0, <3>2 DEF SocketsInv, AllClosing, ConnAt
      <3>4. c \in closing' \/ r.closed \/ c \notin closing
        BY <3>1 DEF Follows
      <3> QED
        BY <1>2, <2>2, <3>2, <3>3, <3>4
    <2> QED
      BY <2>1, <2>2
  <1> QED
    BY <1>3, <1>4, <1>5

\* A connection that stays in the table, or leaves it.
LEMMA FollowsShrinks ==
    ASSUME SocketsInv, NEW c \in Conn, NEW r, Follows(c, r),
           c \in Open \/ r.pc \notin {"pending", "upgraded", "serving", "ending"}
    PROVE  SocketsInv'
  <1>1. conn \in [Conn -> ConnRecords] /\ conn' = [conn EXCEPT ![c] = r]
    BY DEF SocketsInv, SocketTypes, Follows
  <1>2. Open' \subseteq Open
    <2> SUFFICES ASSUME NEW d \in Conn, conn'[d].pc \in {"pending", "upgraded", "serving", "ending"}
                 PROVE  d \in Open
      BY DEF Open
    <2>1. CASE d = c
      BY <1>1, <2>1
    <2>2. CASE d # c
      BY <1>1, <2>2 DEF Open
    <2> QED
      BY <2>1, <2>2
  <1>3. TableBounded'
    BY <1>2, TableShrinks DEF SocketsInv
  <1> QED
    BY <1>3, FollowsKeeps DEF SocketsInv

\* The invariant holds in a stutter and after every step.
LEMMA SocketsStutter == SocketsInv /\ UNCHANGED socketVars => SocketsInv'
  <1> SUFFICES ASSUME SocketsInv, UNCHANGED socketVars
               PROVE  SocketsInv'
    OBVIOUS
  <1>1. UNCHANGED <<conn, shutdown, closing>>
    BY DEF socketVars
  <1>2. SocketTypes'
    BY <1>1 DEF SocketsInv, SocketTypes
  <1>3. AllClosing' /\ BufferBounded'
    BY <1>1 DEF SocketsInv, AllClosing, BufferBounded, ConnAt
  <1>4. Open' \subseteq Open
    BY <1>1 DEF Open
  <1>5. TableBounded'
    BY <1>4, TableShrinks DEF SocketsInv
  <1> QED
    BY <1>2, <1>3, <1>5 DEF SocketsInv

LEMMA SocketsKeep == SocketsInv /\ SocketsNext => SocketsInv'
  <1> SUFFICES ASSUME SocketsInv, SocketsNext
               PROVE  SocketsInv'
    OBVIOUS
  <1>a. ASSUME NEW c \in Conn
        PROVE  /\ conn \in [Conn -> ConnRecords] /\ conn[c] \in ConnRecords
               /\ conn[c].buffered <= MaxBuffer /\ conn[c].buffered \in Nat
               /\ conn[c].closed \in BOOLEAN /\ conn[c].drained \in BOOLEAN
    <2>1. conn \in [Conn -> ConnRecords] /\ conn[c].buffered <= MaxBuffer
      BY DEF SocketsInv, SocketTypes, BufferBounded
    <2>2. conn[c] \in ConnRecords
      BY <2>1
    <2> QED
      BY <2>1, <2>2, ConnIs
  <1>b. MaxBuffer \in Nat /\ 0 <= MaxBuffer
    BY SocketsAssumption
  <1>d. ASSUME NEW c \in Conn, Return(c), UNCHANGED <<shutdown, closing>>
        PROVE  SocketsInv'
    <2> DEFINE r == [NoConn EXCEPT !.pc = "done"]
    <2>1. r \in ConnRecords /\ r.pc = "done" /\ r.buffered = 0
      BY DEF NoConn, ConnRecords, ConnStates
    <2>2. Follows(c, r)
      BY <1>d, <1>b, <2>1 DEF Follows, Return
    <2> QED
      BY <2>1, <2>2, FollowsShrinks
  <1>c. ASSUME NEW c \in Conn, NEW s \in ConnStates, ConnGoto(c, s),
               UNCHANGED <<shutdown, closing>>,
               s = "serving" => ~shutdown,
               c \in Open \/ s \notin {"pending", "upgraded", "serving", "ending"}
        PROVE  SocketsInv'
    <2> DEFINE r == [conn[c] EXCEPT !.pc = s]
    <2>1. r \in ConnRecords
      BY <1>a, ConnIs
    <2>2. r.pc = s /\ r.buffered = conn[c].buffered
      BY <1>a DEF ConnRecords
    <2>3. conn' = [conn EXCEPT ![c] = r]
      BY <1>c DEF ConnGoto
    <2>4. Follows(c, r)
      <3>1. conn[c].buffered <= MaxBuffer
        BY <1>a
      <3>2. s = "serving" => ~shutdown
        BY <1>c
      <3>3. UNCHANGED <<shutdown, closing>>
        BY <1>c
      <3> HIDE DEF r
      <3> QED
        BY <2>1, <2>2, <2>3, <3>1, <3>2, <3>3 DEF Follows
    <2> QED
      BY <1>c, <2>2, <2>4, FollowsShrinks
  <1>1. ASSUME NEW c \in Conn, Admit(c)
        PROVE  SocketsInv'
    <2>1. /\ conn[c].pc = "new" /\ UNCHANGED <<shutdown, closing>>
          /\ ConnGoto(c, IF Admits(c) THEN "pending" ELSE "refused")
      BY <1>1 DEF Admit, ConnAt
    <2>2. CASE ~Admits(c)
      <3>1. ConnGoto(c, "refused")
        BY <2>1, <2>2
      <3>2. "refused" \in ConnStates
        BY DEF ConnStates
      <3> QED
        BY <1>c, <2>1, <3>1, <3>2
    <2>3. CASE Admits(c)
      <3> DEFINE r == [conn[c] EXCEPT !.pc = "pending"]
      <3>1. r \in ConnRecords /\ r.pc = "pending" /\ r.buffered = conn[c].buffered
        BY <1>a DEF ConnRecords, ConnStates
      <3>2. conn' = [conn EXCEPT ![c] = r]
        BY <2>1, <2>3 DEF ConnGoto
      <3>3. Follows(c, r)
        BY <1>a, <2>1, <3>1, <3>2 DEF Follows
      <3>4. Open' \subseteq Open \cup {c}
        BY <1>a, <3>2 DEF Open
      <3>5. TableBounded'
        BY <2>3, <3>4, TableAdmits DEF SocketsInv
      <3> QED
        BY <3>3, <3>5, FollowsKeeps DEF SocketsInv
    <2> QED
      BY <2>2, <2>3
  <1>2. ASSUME NEW c \in Conn, Accept(c)
        PROVE  SocketsInv'
    <2>1. /\ conn[c].pc = "pending" /\ UNCHANGED <<shutdown, closing>>
          /\ (ConnGoto(c, "upgraded") \/ Return(c))
      BY <1>2 DEF Accept, ConnAt
    <2>2. c \in Open /\ "upgraded" \in ConnStates
      BY <2>1 DEF Open, ConnStates
    <2> QED
      BY <1>c, <1>d, <2>1, <2>2
  <1>3. ASSUME NEW c \in Conn, Swap(c)
        PROVE  SocketsInv'
    <2>1. /\ conn[c].pc = "upgraded" /\ UNCHANGED <<shutdown, closing>>
          /\ (shutdown /\ Return(c)) \/ (~shutdown /\ ConnGoto(c, "serving"))
      BY <1>3 DEF Swap, ConnAt
    <2>2. c \in Open /\ "serving" \in ConnStates
      BY <2>1 DEF Open, ConnStates
    <2> QED
      BY <1>c, <1>d, <2>1, <2>2
  <1>4. ASSUME NEW c \in Conn, Send(c)
        PROVE  SocketsInv'
    <2>1. conn[c].pc = "serving" /\ conn[c].closed = FALSE /\ UNCHANGED <<shutdown, closing>>
      BY <1>a, <1>4 DEF Send, ConnAt
    <2>2. c \in Open
      BY <2>1 DEF Open
    <2>3. CASE conn[c].buffered < MaxBuffer
      <3> DEFINE n == conn[c].buffered + 1
                 r == [conn[c] EXCEPT !.closed = FALSE, !.buffered = n]
      <3>0. n \in Nat /\ n <= MaxBuffer
        BY <1>a, <1>b, <2>3
      <3>1. r \in ConnRecords /\ r.pc = conn[c].pc /\ r.buffered = n
        <4> HIDE DEF n
        <4> QED
          BY <1>a, <3>0 DEF ConnRecords
      <3>2. conn' = [conn EXCEPT ![c] = r]
        <4>1. (conn[c].buffered >= MaxBuffer) = FALSE
          BY <1>a, <1>b, <2>3
        <4> QED
          BY <1>4, <1>a, <2>3, <4>1 DEF Send
      <3>4. Follows(c, r)
        <4>1. r.buffered <= MaxBuffer
          BY <3>0, <3>1
        <4> HIDE DEF r, n
        <4> QED
          BY <2>1, <3>1, <3>2, <4>1 DEF Follows
      <3> QED
        BY <2>2, <3>4, FollowsShrinks
    <2>4. CASE ~(conn[c].buffered < MaxBuffer)
      <3> DEFINE r == [conn[c] EXCEPT !.closed = TRUE]
      <3>1. /\ r \in ConnRecords /\ r.pc = conn[c].pc
            /\ r.buffered = conn[c].buffered /\ r.closed = TRUE
        BY <1>a DEF ConnRecords
      <3>2. conn' = [conn EXCEPT ![c] = r]
        <4>1. (conn[c].buffered >= MaxBuffer) = TRUE
          BY <1>a, <1>b, <2>4
        <4> QED
          BY <1>4, <1>a, <2>4, <4>1 DEF Send
      <3>4. Follows(c, r)
        BY <1>a, <2>1, <3>1, <3>2 DEF Follows
      <3> QED
        BY <2>2, <3>4, FollowsShrinks
    <2> QED
      BY <2>3, <2>4
  <1>5. ASSUME NEW c \in Conn, WriteQueue(c)
        PROVE  SocketsInv'
    <2>1. /\ conn[c].pc \in {"serving", "ending"} /\ UNCHANGED <<shutdown, closing>>
          /\ \/ conn' = [conn EXCEPT ![c].buffered = 0, ![c].drained = conn[c].closed]
             \/ conn' = [conn EXCEPT ![c].buffered = 0, ![c].drained = TRUE, ![c].closed = TRUE]
      BY <1>5 DEF WriteQueue
    <2>2. c \in Open
      BY <2>1 DEF Open
    <2>3. CASE conn' = [conn EXCEPT ![c].buffered = 0, ![c].drained = conn[c].closed]
      <3> DEFINE r == [conn[c] EXCEPT !.buffered = 0, !.drained = conn[c].closed]
      <3>1. r \in ConnRecords /\ r.pc = conn[c].pc /\ r.buffered = 0 /\ r.closed = conn[c].closed
        BY <1>a DEF ConnRecords
      <3>2. conn' = [conn EXCEPT ![c] = r]
        BY <1>a, <2>3
      <3>4. Follows(c, r)
        <4>1. r.pc = "serving" => conn[c].pc = "serving" /\ (conn[c].closed => r.closed)
          BY <3>1
        <4>2. r.buffered <= MaxBuffer
          BY <1>b, <3>1
        <4>3. r \in ConnRecords
          BY <3>1
        <4> HIDE DEF r
        <4> QED
          BY <2>1, <3>2, <4>1, <4>2, <4>3 DEF Follows
      <3> QED
        BY <2>2, <3>4, FollowsShrinks
    <2>4. CASE conn' = [conn EXCEPT ![c].buffered = 0, ![c].drained = TRUE, ![c].closed = TRUE]
      <3> DEFINE r == [conn[c] EXCEPT !.buffered = 0, !.drained = TRUE, !.closed = TRUE]
      <3>1. r \in ConnRecords /\ r.pc = conn[c].pc /\ r.buffered = 0 /\ r.closed = TRUE
        BY <1>a DEF ConnRecords
      <3>2. conn' = [conn EXCEPT ![c] = r]
        BY <1>a, <2>4
      <3>4. Follows(c, r)
        BY <1>b, <2>1, <3>1, <3>2 DEF Follows
      <3> QED
        BY <2>2, <3>4, FollowsShrinks
    <2> QED
      BY <2>1, <2>3, <2>4
  <1>6. ASSUME NEW c \in Conn, Close(c)
        PROVE  SocketsInv'
    <2>1. /\ conn[c].pc = "serving" /\ UNCHANGED <<shutdown, closing>>
          /\ conn' = [conn EXCEPT ![c].closed = TRUE]
      BY <1>6 DEF Close, ConnAt
    <2>2. c \in Open
      BY <2>1 DEF Open
    <2> DEFINE r == [conn[c] EXCEPT !.closed = TRUE]
    <2>3. /\ r \in ConnRecords /\ r.pc = conn[c].pc
          /\ r.buffered = conn[c].buffered /\ r.closed = TRUE
      BY <1>a DEF ConnRecords
    <2>4. conn' = [conn EXCEPT ![c] = r]
      BY <2>1
    <2>5. Follows(c, r)
      BY <1>a, <2>1, <2>3, <2>4 DEF Follows
    <2> QED
      BY <2>2, <2>5, FollowsShrinks
  <1>7. ASSUME NEW c \in Conn, HandlerEnds(c)
        PROVE  SocketsInv'
    <2>1. /\ conn[c].pc = "serving" /\ UNCHANGED <<shutdown, closing>>
          /\ conn' = [conn EXCEPT ![c].pc = "ending", ![c].closed = TRUE]
      BY <1>7 DEF HandlerEnds, ConnAt
    <2>2. c \in Open
      BY <2>1 DEF Open
    <2> DEFINE r == [conn[c] EXCEPT !.pc = "ending", !.closed = TRUE]
    <2>3. r \in ConnRecords /\ r.pc = "ending" /\ r.buffered = conn[c].buffered /\ r.closed = TRUE
      BY <1>a DEF ConnRecords, ConnStates
    <2>4. conn' = [conn EXCEPT ![c] = r]
      BY <2>1
    <2>5. Follows(c, r)
      BY <1>a, <2>1, <2>3, <2>4 DEF Follows
    <2> QED
      BY <2>2, <2>5, FollowsShrinks
  <1>8. ASSUME NEW c \in Conn, ConnCloses(c)
        PROVE  SocketsInv'
    <2>1. Return(c) /\ UNCHANGED <<shutdown, closing>>
      BY <1>8 DEF ConnCloses
    <2> QED
      BY <1>d, <2>1
  <1>9. ASSUME NEW c \in Conn, CloseSocket(c)
        PROVE  SocketsInv'
    <2>1. /\ closing' = closing \ {c} /\ UNCHANGED shutdown
          /\ conn' = [conn EXCEPT ![c].closed = (conn[c].closed \/ conn[c].pc \in {"serving", "ending"})]
      BY <1>a, <1>9 DEF CloseSocket
    <2>2. CASE conn[c].pc \in {"serving", "ending"}
      <3> DEFINE r == [conn[c] EXCEPT !.closed = TRUE]
      <3>1. /\ r \in ConnRecords /\ r.pc = conn[c].pc
            /\ r.buffered = conn[c].buffered /\ r.closed = TRUE
        BY <1>a DEF ConnRecords
      <3>2. conn' = [conn EXCEPT ![c] = r]
        <4>1. (conn[c].closed \/ conn[c].pc \in {"serving", "ending"}) = TRUE
          BY <2>2
        <4> QED
          BY <2>1, <4>1
      <3>3. Follows(c, r)
        BY <1>a, <2>1, <3>1, <3>2 DEF Follows
      <3>4. c \in Open
        BY <2>2 DEF Open
      <3> QED
        BY <3>3, <3>4, FollowsShrinks
    <2>3. CASE conn[c].pc \notin {"serving", "ending"}
      <3> DEFINE r == conn[c]
      <3>1. conn' = conn
        <4>1. (conn[c].closed \/ conn[c].pc \in {"serving", "ending"}) = conn[c].closed
          BY <1>a, <2>3
        <4>2. conn' = [conn EXCEPT ![c].closed = conn[c].closed]
          BY <2>1, <4>1
        <4>3. [conn[c] EXCEPT !.closed = conn[c].closed] = conn[c]
          BY <1>a DEF ConnRecords
        <4>4. conn' = [conn EXCEPT ![c] = [conn[c] EXCEPT !.closed = conn[c].closed]]
          BY <4>2
        <4>5. [conn EXCEPT ![c] = conn[c]] = conn
          BY <1>a
        <4> QED
          BY <4>3, <4>4, <4>5
      <3>2. Open' \subseteq Open
        BY <3>1 DEF Open
      <3>3. TableBounded'
        BY <3>2, TableShrinks DEF SocketsInv
      <3>4. SocketTypes' /\ BufferBounded'
        BY <2>1, <3>1 DEF SocketsInv, SocketTypes, BufferBounded
      <3>5. AllClosing'
        BY <2>1, <2>3, <3>1 DEF SocketsInv, AllClosing, ConnAt
      <3> QED
        BY <3>3, <3>4, <3>5 DEF SocketsInv
    <2> QED
      BY <2>2, <2>3
  <1>10. CASE StopSockets
    <2>1. closing' = Open /\ shutdown' = TRUE /\ conn' = conn
      BY <1>10 DEF StopSockets
    <2>2. Open' \subseteq Open /\ Open \subseteq Conn
      BY <2>1 DEF Open
    <2>3. TableBounded'
      BY <2>2, TableShrinks DEF SocketsInv
    <2>4. SocketTypes' /\ BufferBounded'
      BY <2>1, <2>2 DEF SocketsInv, SocketTypes, BufferBounded
    <2>5. AllClosing'
      BY <2>1 DEF AllClosing, ConnAt, Open
    <2> QED
      BY <2>3, <2>4, <2>5 DEF SocketsInv
  <1> QED
    BY <1>1, <1>2, <1>3, <1>4, <1>5, <1>6, <1>7, <1>8, <1>9, <1>10 DEF SocketsNext

\* The invariant implies what is promised.
LEMMA SocketsFit == SocketsInv => SocketsBounded
  <1> SUFFICES ASSUME SocketsInv
               PROVE  SocketsBounded
    OBVIOUS
  <1>1. SocketsTypeOK
    BY DEF SocketsInv, SocketTypes, SocketsTypeOK, ConnRecords, ConnStates
  <1>2. shutdown /\ closing = {} => \A c \in Conn : ConnAt(c, "serving") => conn[c].closed
    BY DEF SocketsInv, AllClosing
  <1> QED
    BY <1>1, <1>2 DEF SocketsInv, TableBounded, BufferBounded, SocketsBounded

(* Concurrent handshakes never pass the limits together, no connection     *)
(* survives CloseSockets, and the output held for a browser is bounded     *)
(* (Sockets): for any finite set of connections of any users, any limits   *)
(* and any reserve within them.                                            *)
THEOREM SocketsBoundedHolds == SocketsSpec => []SocketsBounded
  <1>1. SocketsInv /\ [SocketsNext]_socketVars => SocketsInv'
    BY SocketsKeep, SocketsStutter
  <1> QED
    BY SocketsStart, <1>1, SocketsFit, PTL DEF SocketsSpec
-----------------------------------------------------------------------------
(* DatabaseKeepsItsKey of Database.                                        *)
(*                                                                         *)
(* A file depends on a key, is Ludock's and has a version all at once, and *)
(* then the published key is its own and durable (FileFits).  A key is     *)
(* published only while there is none, by a process that found a file      *)
(* without a version; no other can have made it depend on a key since,     *)
(* because whoever commits has read a published key and synced it          *)
(* (OpeningFits).  The version read under the write lock is the one of the *)
(* commit, since only the holder writes the schema.                        *)

\* What the variables hold.
DatabasePlaces == {"off", "connect", "load", "publish", "syncMine", "read", "syncRead", "assert",
                   "begin", "migrate", "finish", "open"}
AnyKey == {NoKey} \cup Keys
Openings == [pc : DatabasePlaces, keyed : BOOLEAN, staged : AnyKey, key : AnyKey, from : Nat]
Schemas == {FirstVersions(n) : n \in Nat}
DatabaseFiles == [owner : {"none", "other", "ludock"}, schema : Schemas, check : AnyKey,
                  wal : BOOLEAN]
Entries == [seen : AnyKey, durable : AnyKey]
DatabaseTyped ==
    /\ db \in DatabaseFiles /\ entry \in Entries /\ keysMade \in 0..MaxKeys
    /\ proc \in [Proc -> Openings] /\ writer \in Proc \cup {Nobody}
    /\ dbFaults \in 0..MaxDatabaseFaults

\* The file is Ludock's, has a version and depends on a key, or none of these; its key is the
\* published one, which no power loss takes.
FileFits ==
    /\ db.owner = "ludock" <=> Version # 0
    /\ db.check # NoKey <=> Version # 0
    /\ db.check # NoKey => entry.seen \in {NoKey, db.check} /\ entry.durable = entry.seen
    /\ entry.durable \in {NoKey, entry.seen}
    /\ db.owner = "other" => ~db.wal

\* What a process that opens the file relies on.
OpeningFits(p) ==
    /\ proc[p].pc # "off" => db.owner # "other"
    /\ writer = p => proc[p].pc = "migrate" /\ proc[p].from = Version
    /\ (proc[p].pc = "load" /\ ~proc[p].keyed) \/ proc[p].pc = "publish" =>
          (entry.seen = NoKey => db.check = NoKey)
    /\ proc[p].pc = "publish" => proc[p].staged # NoKey
    /\ proc[p].pc = "syncMine" => entry.seen # NoKey
    /\ proc[p].pc \in {"syncRead", "assert", "begin", "migrate"} =>
          proc[p].key = entry.seen /\ entry.seen # NoKey
    /\ proc[p].pc \in {"assert", "begin", "migrate"} => entry.durable = entry.seen
    /\ proc[p].pc \in {"finish", "open"} => proc[p].key = db.check /\ Version >= Latest[p]

DatabaseInv == DatabaseTyped /\ FileFits /\ \A p \in Proc : OpeningFits(p)

-----------------------------------------------------------------------------
\* The first versions, and what a schema is.
LEMMA FirstVersionsAre ==
    ASSUME NEW n \in Nat
    PROVE  /\ FirstVersions(n) \in Seq(Nat) /\ Len(FirstVersions(n)) = n
           /\ DOMAIN FirstVersions(n) = 1..n /\ \A i \in 1..n : FirstVersions(n)[i] = i
  BY DEF FirstVersions

LEMMA SchemaIs ==
    ASSUME NEW s \in Schemas
    PROVE  Len(s) \in Nat /\ s = FirstVersions(Len(s))
  BY FirstVersionsAre DEF Schemas

\* The end of a sequence, and two sequences joined.
LEMMA LaterAre ==
    ASSUME NEW s \in Seq(Nat), NEW n \in Nat, NEW l \in Nat, Len(s) = l, n < l
    PROVE  /\ SubSeq(s, n + 1, l) \in Seq(Nat) /\ Len(SubSeq(s, n + 1, l)) = l - n
           /\ \A i \in 1..(l - n) : SubSeq(s, n + 1, l)[i] = s[n + i]
  OBVIOUS

LEMMA JoinedAre ==
    ASSUME NEW s \in Seq(Nat), NEW t \in Seq(Nat)
    PROVE  /\ s \o t \in Seq(Nat) /\ Len(s \o t) = Len(s) + Len(t)
           /\ \A i \in 1..Len(s) : (s \o t)[i] = s[i]
           /\ \A i \in 1..Len(t) : (s \o t)[Len(s) + i] = t[i]
  OBVIOUS

\* The migrations above a version, behind those up to it, are the first of the release.
LEMMA MigrationsFollow ==
    ASSUME NEW n \in Nat, NEW l \in Nat, n < l
    PROVE  FirstVersions(n) \o SubSeq(FirstVersions(l), n + 1, l) = FirstVersions(l)
  <1> DEFINE a == FirstVersions(n)
             b == SubSeq(FirstVersions(l), n + 1, l)
             c == a \o b
  <1>1. a \in Seq(Nat) /\ Len(a) = n /\ \A i \in 1..n : a[i] = i
    BY FirstVersionsAre
  <1>2. /\ FirstVersions(l) \in Seq(Nat) /\ Len(FirstVersions(l)) = l
        /\ \A i \in 1..l : FirstVersions(l)[i] = i
    BY FirstVersionsAre
  <1>3. b \in Seq(Nat) /\ Len(b) = l - n /\ \A i \in 1..(l - n) : b[i] = n + i
    BY <1>2, LaterAre
  <1> HIDE DEF a, b
  <1>4. /\ c \in Seq(Nat) /\ Len(c) = n + (l - n)
        /\ \A i \in 1..n : c[i] = a[i]
        /\ \A i \in 1..(l - n) : c[n + i] = b[i]
    <2>1. /\ c \in Seq(Nat) /\ Len(c) = Len(a) + Len(b)
          /\ \A i \in 1..Len(a) : c[i] = a[i]
          /\ \A i \in 1..Len(b) : c[Len(a) + i] = b[i]
      BY <1>1, <1>3, JoinedAre
    <2> QED
      BY <1>1, <1>3, <2>1
  <1> HIDE DEF c
  <1>5. Len(c) = l
    BY <1>4
  <1>6. ASSUME NEW i \in 1..l
        PROVE  c[i] = i
    <2>1. CASE i <= n
      BY <1>1, <1>4, <2>1
    <2>2. CASE i > n
      <3>1. i - n \in 1..(l - n) /\ n + (i - n) = i
        BY <2>2
      <3> QED
        BY <1>3, <1>4, <3>1
    <2> QED
      BY <2>1, <2>2
  <1>7. c = FirstVersions(l)
    <2>1. FirstVersions(l) = [i \in 1..l |-> i]
      BY DEF FirstVersions
    <2>2. c = [i \in 1..Len(c) |-> c[i]]
      BY <1>4
    <2> QED
      BY <1>5, <1>6, <2>1, <2>2
  <1> QED
    BY <1>7 DEF a, b, c

\* A release with nothing newer adds nothing.
LEMMA NothingFollows ==
    ASSUME NEW n \in Nat, NEW l \in Nat, l <= n
    PROVE  FirstVersions(n) \o SubSeq(FirstVersions(l), n + 1, l) = FirstVersions(n)
  <1>1. SubSeq(FirstVersions(l), n + 1, l) = <<>>
    BY FirstVersionsAre
  <1>2. FirstVersions(n) \in Seq(Nat)
    BY FirstVersionsAre
  <1> QED
    BY <1>1, <1>2

\* What the records hold.
LEMMA FileIs ==
    ASSUME DatabaseTyped
    PROVE  /\ db.owner \in {"none", "other", "ludock"} /\ db.schema \in Schemas
           /\ db.check \in AnyKey /\ db.wal \in BOOLEAN /\ Version \in Nat
           /\ db.schema = FirstVersions(Version)
           /\ entry.seen \in AnyKey /\ entry.durable \in AnyKey
  BY SchemaIs DEF DatabaseTyped, DatabaseFiles, Entries, Version

LEMMA OpeningIs ==
    ASSUME NEW o \in Openings
    PROVE  /\ o.pc \in DatabasePlaces /\ o.keyed \in BOOLEAN /\ o.staged \in AnyKey
           /\ o.key \in AnyKey /\ o.from \in Nat
  BY DEF Openings

\* Another process is where it was.
Elsewhere(p) == \A q \in Proc \ {p} : proc'[q] = proc[q]

LEMMA GoesOn ==
    ASSUME proc \in [Proc -> Openings], NEW p \in Proc, NEW c \in DatabasePlaces, ProcGoto(p, c)
    PROVE  /\ proc' \in [Proc -> Openings] /\ Elsewhere(p) /\ proc'[p].pc = c
           /\ proc'[p].keyed = proc[p].keyed /\ proc'[p].staged = proc[p].staged
           /\ proc'[p].key = proc[p].key /\ proc'[p].from = proc[p].from
  <1> DEFINE o == [proc[p] EXCEPT !.pc = c]
  <1>1. proc[p] \in Openings
    OBVIOUS
  <1>2. /\ o \in Openings /\ o.pc = c /\ o.keyed = proc[p].keyed /\ o.staged = proc[p].staged
        /\ o.key = proc[p].key /\ o.from = proc[p].from
    BY <1>1 DEF Openings
  <1>3. proc' = [proc EXCEPT ![p] = o]
    BY DEF ProcGoto
  <1> HIDE DEF o
  <1>4. proc'[p] = o /\ Elsewhere(p) /\ proc' \in [Proc -> Openings]
    BY <1>2, <1>3 DEF Elsewhere
  <1> QED
    BY <1>2, <1>4

LEMMA NotRunningIs == NotRunning \in Openings /\ NotRunning.pc = "off"
  <1>1. "off" \in DatabasePlaces /\ NoKey \in AnyKey /\ 0 \in Nat /\ FALSE \in BOOLEAN
    BY DEF DatabasePlaces, AnyKey
  <1> QED
    BY <1>1 DEF NotRunning, Openings

LEMMA Stops ==
    ASSUME proc \in [Proc -> Openings], NEW p \in Proc, ProcStops(p)
    PROVE  proc' \in [Proc -> Openings] /\ Elsewhere(p) /\ proc'[p] = NotRunning
  BY NotRunningIs DEF ProcStops, Elsewhere

-----------------------------------------------------------------------------
\* A step of one process that writes neither the file nor the key.
LEMMA ProcessKeeps ==
    ASSUME DatabaseInv, NEW p \in Proc, proc' \in [Proc -> Openings], Elsewhere(p),
           UNCHANGED <<db, entry>>, keysMade' \in 0..MaxKeys, dbFaults' \in 0..MaxDatabaseFaults,
           \/ writer' = writer
           \/ writer = p /\ writer' = Nobody
           \/ writer = Nobody /\ writer' = p,
           OpeningFits(p)'
    PROVE  DatabaseInv'
  <1>1. DatabaseTyped'
    BY DEF DatabaseInv, DatabaseTyped
  <1>2. FileFits'
    BY DEF DatabaseInv, FileFits, Version
  <1>3. ASSUME NEW q \in Proc, q # p
        PROVE  OpeningFits(q)'
    <2>1. proc'[q] = proc[q] /\ OpeningFits(q) /\ (writer' = q => writer = q)
      BY <1>3, DatabaseAssumption DEF DatabaseInv, Elsewhere
    <2> QED
      BY <2>1 DEF OpeningFits, Version
  <1>4. \A q \in Proc : OpeningFits(q)'
    BY <1>3
  <1> QED
    BY <1>1, <1>2, <1>4 DEF DatabaseInv

\* It stops, with or without the lock.
LEMMA StopKeeps ==
    ASSUME DatabaseInv, NEW p \in Proc, ProcStops(p), UNCHANGED <<db, entry>>,
           keysMade' \in 0..MaxKeys, dbFaults' \in 0..MaxDatabaseFaults,
           \/ writer' = writer /\ writer # p
           \/ writer = p /\ writer' = Nobody
    PROVE  DatabaseInv'
  <1>1. proc' \in [Proc -> Openings] /\ Elsewhere(p) /\ proc'[p] = NotRunning
    BY Stops DEF DatabaseInv, DatabaseTyped
  <1>2. writer' # p
    BY DatabaseAssumption
  <1>3. OpeningFits(p)'
    BY <1>1, <1>2, NotRunningIs DEF OpeningFits
  <1> QED
    BY <1>1, <1>3, ProcessKeeps

\* Only a process that migrates has the lock.
LEMMA WriterMigrates ==
    ASSUME DatabaseInv, NEW p \in Proc, proc[p].pc # "migrate"
    PROVE  writer # p
  BY DEF DatabaseInv, OpeningFits

LEMMA FaultCounts ==
    ASSUME DatabaseInv, DatabaseFault \/ UNCHANGED dbFaults
    PROVE  dbFaults' \in 0..MaxDatabaseFaults
  BY DatabaseAssumption DEF DatabaseInv, DatabaseTyped, DatabaseFault

\* Each step keeps the invariant: first those that only read.
LEMMA InspectKeeps ==
    ASSUME DatabaseInv, NEW p \in Proc, Inspect(p)
    PROVE  DatabaseInv'
  <1>1. /\ DatabaseTyped /\ FileFits /\ OpeningFits(p) /\ proc \in [Proc -> Openings]
        /\ proc[p] \in Openings /\ keysMade \in 0..MaxKeys
        /\ dbFaults \in 0..MaxDatabaseFaults
    BY DEF DatabaseInv, DatabaseTyped
  <1>2. /\ proc' \in [Proc -> Openings] /\ Elsewhere(p) /\ proc'[p].pc = "connect"
        /\ proc'[p].keyed = proc[p].keyed /\ proc'[p].staged = proc[p].staged
        /\ proc'[p].key = proc[p].key /\ proc'[p].from = proc[p].from
    BY <1>1, GoesOn DEF Inspect, DatabasePlaces
  <1>3. OpeningFits(p)'
    BY <1>1, <1>2, WriterMigrates DEF Inspect, OpeningFits, ProcAt, Compatible, Version
  <1> QED
    BY <1>1, <1>2, <1>3, ProcessKeeps DEF Inspect

LEMMA BeginTxKeeps ==
    ASSUME DatabaseInv, NEW p \in Proc, BeginTx(p)
    PROVE  DatabaseInv'
  <1>1. /\ DatabaseTyped /\ FileFits /\ OpeningFits(p) /\ proc \in [Proc -> Openings]
        /\ proc[p] \in Openings /\ keysMade \in 0..MaxKeys
        /\ dbFaults \in 0..MaxDatabaseFaults
    BY DEF DatabaseInv, DatabaseTyped
  <1>2. /\ proc' \in [Proc -> Openings] /\ Elsewhere(p) /\ proc'[p].pc = "migrate"
        /\ proc'[p].keyed = proc[p].keyed /\ proc'[p].staged = proc[p].staged
        /\ proc'[p].key = proc[p].key /\ proc'[p].from = proc[p].from
    BY <1>1, GoesOn DEF BeginTx, DatabasePlaces
  <1>3. OpeningFits(p)'
    BY <1>1, <1>2, WriterMigrates DEF BeginTx, OpeningFits, ProcAt, Compatible, Version
  <1> QED
    BY <1>1, <1>2, <1>3, ProcessKeeps DEF BeginTx

LEMMA RefuseKeeps ==
    ASSUME DatabaseInv, NEW p \in Proc, Refuse(p)
    PROVE  DatabaseInv'
  <1>1. /\ DatabaseTyped /\ FileFits /\ OpeningFits(p) /\ proc \in [Proc -> Openings]
        /\ proc[p] \in Openings /\ keysMade \in 0..MaxKeys
        /\ dbFaults \in 0..MaxDatabaseFaults
    BY DEF DatabaseInv, DatabaseTyped
  <1>2. writer # p
    BY WriterMigrates DEF Refuse
  <1> QED
    BY <1>1, <1>2, StopKeeps DEF Refuse

LEMMA CloseDatabaseKeeps ==
    ASSUME DatabaseInv, NEW p \in Proc, CloseDatabase(p)
    PROVE  DatabaseInv'
  <1>1. /\ DatabaseTyped /\ FileFits /\ OpeningFits(p) /\ proc \in [Proc -> Openings]
        /\ proc[p] \in Openings /\ keysMade \in 0..MaxKeys
        /\ dbFaults \in 0..MaxDatabaseFaults
    BY DEF DatabaseInv, DatabaseTyped
  <1>2. writer # p
    BY WriterMigrates DEF CloseDatabase, ProcAt
  <1> QED
    BY <1>1, <1>2, StopKeeps DEF CloseDatabase

LEMMA KillKeeps ==
    ASSUME DatabaseInv, NEW p \in Proc, Kill(p)
    PROVE  DatabaseInv'
  <1>1. /\ DatabaseTyped /\ FileFits /\ OpeningFits(p) /\ proc \in [Proc -> Openings]
        /\ proc[p] \in Openings /\ keysMade \in 0..MaxKeys
        /\ dbFaults \in 0..MaxDatabaseFaults
    BY DEF DatabaseInv, DatabaseTyped
  <1>2. dbFaults' \in 0..MaxDatabaseFaults
    BY FaultCounts DEF Kill
  <1>3. \/ writer' = writer /\ writer # p
        \/ writer = p /\ writer' = Nobody
    BY DEF Kill
  <1> QED
    BY <1>1, <1>2, <1>3, StopKeeps DEF Kill

LEMMA ReadVersionKeeps ==
    ASSUME DatabaseInv, NEW p \in Proc, ReadVersion(p)
    PROVE  DatabaseInv'
  <1>1. /\ DatabaseTyped /\ FileFits /\ OpeningFits(p) /\ proc \in [Proc -> Openings]
        /\ proc[p] \in Openings /\ keysMade \in 0..MaxKeys
        /\ dbFaults \in 0..MaxDatabaseFaults
    BY DEF DatabaseInv, DatabaseTyped
  <1> DEFINE o == [proc[p] EXCEPT !.pc = "load", !.keyed = (Version >= 1)]
  <1>2. "load" \in DatabasePlaces /\ (Version >= 1) \in BOOLEAN
    BY DEF DatabasePlaces
  <1>3. o \in Openings /\ o.pc = "load" /\ (o.keyed <=> Version >= 1)
    <2>1. CASE Version >= 1
      <3>1. o = [proc[p] EXCEPT !.pc = "load", !.keyed = TRUE]
        BY <2>1
      <3> QED
        BY <1>1, <1>2, <2>1, <3>1 DEF Openings
    <2>2. CASE ~(Version >= 1)
      <3>1. (Version >= 1) = FALSE
        BY <2>2
      <3>2. o = [proc[p] EXCEPT !.pc = "load", !.keyed = FALSE]
        BY <3>1
      <3> QED
        BY <1>1, <1>2, <2>2, <3>2 DEF Openings
    <2> QED
      BY <2>1, <2>2
  <1>4. proc' = [proc EXCEPT ![p] = o]
    BY DEF ReadVersion
  <1> HIDE DEF o
  <1>5. proc' \in [Proc -> Openings] /\ Elsewhere(p) /\ proc'[p] = o
    BY <1>1, <1>3, <1>4 DEF Elsewhere
  <1>6. UNCHANGED <<db, entry, keysMade, writer, dbFaults>> /\ proc[p].pc = "connect"
    BY DEF ReadVersion, ProcAt
  <1>7. Version \in Nat
    BY <1>1, FileIs
  <1>8. OpeningFits(p)'
    BY <1>1, <1>3, <1>5, <1>6, <1>7, WriterMigrates DEF OpeningFits, FileFits, Version
  <1> QED
    BY <1>1, <1>5, <1>6, <1>8, ProcessKeeps

LEMMA LoadKeyKeeps ==
    ASSUME DatabaseInv, NEW p \in Proc, LoadKey(p)
    PROVE  DatabaseInv'
  <1>1. /\ DatabaseTyped /\ FileFits /\ OpeningFits(p) /\ proc \in [Proc -> Openings]
        /\ proc[p] \in Openings /\ keysMade \in 0..MaxKeys
        /\ dbFaults \in 0..MaxDatabaseFaults
    BY DEF DatabaseInv, DatabaseTyped
  <1>2. proc[p].pc = "load" /\ writer # p /\ UNCHANGED <<db, entry, writer, dbFaults>>
    BY WriterMigrates DEF LoadKey, ProcAt
  <1>3. CASE ProcGoto(p, "read") /\ UNCHANGED keysMade
    <2>1. proc' \in [Proc -> Openings] /\ Elsewhere(p) /\ proc'[p].pc = "read"
      BY <1>1, <1>3, GoesOn DEF DatabasePlaces
    <2>2. OpeningFits(p)'
      BY <1>1, <1>2, <2>1 DEF OpeningFits
    <2> QED
      BY <1>1, <1>2, <1>3, <2>1, <2>2, ProcessKeeps
  <1>4. CASE ProcStops(p) /\ UNCHANGED keysMade
    BY <1>1, <1>2, <1>4, StopKeeps
  <1>5. CASE /\ entry.seen = NoKey /\ ~proc[p].keyed /\ keysMade < MaxKeys
             /\ keysMade' = keysMade + 1
             /\ proc' = [proc EXCEPT ![p].pc = "publish", ![p].staged = keysMade + 1]
    <2> DEFINE o == [proc[p] EXCEPT !.pc = "publish", !.staged = keysMade + 1]
    <2>1. "publish" \in DatabasePlaces /\ keysMade + 1 \in Keys /\ keysMade + 1 \in AnyKey
      BY <1>1, <1>5, DatabaseAssumption DEF DatabasePlaces, Keys, AnyKey
    <2>2. o \in Openings /\ o.pc = "publish" /\ o.staged = keysMade + 1
      BY <1>1, <2>1 DEF Openings
    <2>3. proc' = [proc EXCEPT ![p] = o]
      BY <1>5
    <2> HIDE DEF o
    <2>4. proc' \in [Proc -> Openings] /\ Elsewhere(p) /\ proc'[p] = o
      BY <1>1, <2>2, <2>3 DEF Elsewhere
    <2>5. o.staged # NoKey /\ keysMade' \in 0..MaxKeys
      BY <2>1, <2>2, <1>1, <1>5, DatabaseAssumption DEF Keys, NoKey
    <2>6. OpeningFits(p)'
      BY <1>1, <1>2, <1>5, <2>2, <2>4, <2>5 DEF OpeningFits
    <2> QED
      BY <1>1, <1>2, <2>4, <2>5, <2>6, ProcessKeeps
  <1> QED
    BY <1>3, <1>4, <1>5 DEF LoadKey

LEMMA AssertKeyKeeps ==
    ASSUME DatabaseInv, NEW p \in Proc, AssertKey(p)
    PROVE  DatabaseInv'
  <1>1. /\ DatabaseTyped /\ FileFits /\ OpeningFits(p) /\ proc \in [Proc -> Openings]
        /\ proc[p] \in Openings /\ keysMade \in 0..MaxKeys
        /\ dbFaults \in 0..MaxDatabaseFaults
    BY DEF DatabaseInv, DatabaseTyped
  <1>2. /\ proc[p].pc = "assert" /\ writer # p
        /\ UNCHANGED <<db, entry, keysMade, writer, dbFaults>>
    BY WriterMigrates DEF AssertKey, ProcAt
  <1>3. CASE ProcStops(p)
    BY <1>1, <1>2, <1>3, StopKeeps
  <1>4. CASE ProcGoto(p, "begin")
    <2>1. /\ proc' \in [Proc -> Openings] /\ Elsewhere(p) /\ proc'[p].pc = "begin"
          /\ proc'[p].key = proc[p].key
      BY <1>1, <1>4, GoesOn DEF DatabasePlaces
    <2>2. OpeningFits(p)'
      BY <1>1, <1>2, <2>1 DEF OpeningFits
    <2> QED
      BY <1>1, <1>2, <2>1, <2>2, ProcessKeeps
  <1> QED
    BY <1>3, <1>4 DEF AssertKey

LEMMA LockTxKeeps ==
    ASSUME DatabaseInv, NEW p \in Proc, LockTx(p)
    PROVE  DatabaseInv'
  <1>1. /\ DatabaseTyped /\ FileFits /\ OpeningFits(p) /\ proc \in [Proc -> Openings]
        /\ proc[p] \in Openings /\ keysMade \in 0..MaxKeys
        /\ dbFaults \in 0..MaxDatabaseFaults
    BY DEF DatabaseInv, DatabaseTyped
  <1>2. /\ proc[p].pc = "migrate" /\ writer = Nobody /\ writer' = p
        /\ UNCHANGED <<db, entry, keysMade, dbFaults>>
    BY DEF LockTx, ProcAt
  <1>3. Version \in Nat
    BY <1>1, FileIs
  <1> DEFINE o == [proc[p] EXCEPT !.from = Version]
  <1>4. /\ o \in Openings /\ o.pc = "migrate" /\ o.from = Version /\ o.key = proc[p].key
        /\ o.keyed = proc[p].keyed
    BY <1>1, <1>2, <1>3 DEF Openings
  <1>5. proc' = [proc EXCEPT ![p] = o]
    BY DEF LockTx
  <1> HIDE DEF o
  <1>6. proc' \in [Proc -> Openings] /\ Elsewhere(p) /\ proc'[p] = o
    BY <1>1, <1>4, <1>5 DEF Elsewhere
  <1>7. OpeningFits(p)'
    BY <1>1, <1>2, <1>4, <1>6 DEF OpeningFits, Version
  <1> QED
    BY <1>1, <1>2, <1>6, <1>7, ProcessKeeps

-----------------------------------------------------------------------------
\* A step of one process that writes the key directory: a key that is there stays, and is
\* durable then; one is put there only for a file that depends on none.
LEMMA EntryKeeps ==
    ASSUME DatabaseInv, NEW p \in Proc, proc' \in [Proc -> Openings], Elsewhere(p),
           UNCHANGED <<db, keysMade, writer, dbFaults>>, entry' \in Entries, writer # p,
           \/ /\ entry.seen # NoKey
              /\ entry'.seen = entry.seen /\ entry'.durable = entry.seen
           \/ /\ entry.seen = NoKey /\ db.check = NoKey
              /\ entry'.seen # NoKey /\ entry'.durable = NoKey,
           OpeningFits(p)'
    PROVE  DatabaseInv'
  <1>1. DatabaseTyped'
    BY DEF DatabaseInv, DatabaseTyped
  <1>2. FileFits'
    BY DEF DatabaseInv, FileFits, Version
  <1>3. ASSUME NEW q \in Proc, q # p
        PROVE  OpeningFits(q)'
    <2>1. proc'[q] = proc[q] /\ OpeningFits(q)
      BY <1>3 DEF DatabaseInv, Elsewhere
    <2> QED
      BY <2>1 DEF OpeningFits, Version
  <1>4. \A q \in Proc : OpeningFits(q)'
    BY <1>3
  <1> QED
    BY <1>1, <1>2, <1>4 DEF DatabaseInv

LEMMA PublishKeeps ==
    ASSUME DatabaseInv, NEW p \in Proc, Publish(p)
    PROVE  DatabaseInv'
  <1>1. /\ DatabaseTyped /\ FileFits /\ OpeningFits(p) /\ proc \in [Proc -> Openings]
        /\ proc[p] \in Openings /\ keysMade \in 0..MaxKeys
        /\ dbFaults \in 0..MaxDatabaseFaults
    BY DEF DatabaseInv, DatabaseTyped
  <1>2. proc[p].pc = "publish" /\ writer # p /\ UNCHANGED <<db, keysMade, writer>>
    BY WriterMigrates DEF Publish, ProcAt
  <1>3. CASE /\ entry.seen = NoKey /\ entry' = [entry EXCEPT !.seen = proc[p].staged]
             /\ ProcGoto(p, "syncMine") /\ UNCHANGED dbFaults
    <2>1. proc' \in [Proc -> Openings] /\ Elsewhere(p) /\ proc'[p].pc = "syncMine"
      BY <1>1, <1>3, GoesOn DEF DatabasePlaces
    <2>2. proc[p].staged \in AnyKey /\ proc[p].staged # NoKey /\ db.check = NoKey
      BY <1>1, <1>2, <1>3, OpeningIs DEF OpeningFits
    <2>3. entry' \in Entries /\ entry'.seen = proc[p].staged /\ entry'.durable = entry.durable
      BY <1>1, <1>3, <2>2 DEF DatabaseTyped, Entries
    <2>4. entry.durable = NoKey
      BY <1>1, <1>3 DEF FileFits
    <2>5. OpeningFits(p)'
      BY <1>1, <1>2, <2>1, <2>2, <2>3 DEF OpeningFits
    <2> QED
      BY <1>2, <1>3, <2>1, <2>2, <2>3, <2>4, <2>5, EntryKeeps
  <1>4. CASE ProcGoto(p, "read") /\ UNCHANGED <<entry, dbFaults>>
    <2>1. proc' \in [Proc -> Openings] /\ Elsewhere(p) /\ proc'[p].pc = "read"
      BY <1>1, <1>4, GoesOn DEF DatabasePlaces
    <2>2. OpeningFits(p)'
      BY <1>1, <1>2, <1>4, <2>1 DEF OpeningFits
    <2> QED
      BY <1>1, <1>2, <1>4, <2>1, <2>2, ProcessKeeps
  <1>5. CASE DatabaseFault /\ ProcStops(p) /\ UNCHANGED entry
    BY <1>1, <1>2, <1>5, FaultCounts, StopKeeps
  <1> QED
    BY <1>3, <1>4, <1>5 DEF Publish

LEMMA SyncParentDirectoryKeeps ==
    ASSUME DatabaseInv, NEW p \in Proc, SyncParentDirectory(p)
    PROVE  DatabaseInv'
  <1>1. /\ DatabaseTyped /\ FileFits /\ OpeningFits(p) /\ proc \in [Proc -> Openings]
        /\ proc[p] \in Openings /\ keysMade \in 0..MaxKeys
        /\ dbFaults \in 0..MaxDatabaseFaults
    BY DEF DatabaseInv, DatabaseTyped
  <1>2. proc[p].pc = "syncMine" /\ writer # p /\ UNCHANGED <<db, keysMade, writer, dbFaults>>
    BY WriterMigrates DEF SyncParentDirectory, ProcAt
  <1>3. proc' \in [Proc -> Openings] /\ Elsewhere(p) /\ proc'[p].pc = "read"
    BY <1>1, GoesOn DEF SyncParentDirectory, DatabasePlaces
  <1>4. entry' \in Entries /\ entry'.seen = entry.seen /\ entry'.durable = entry.seen
    BY <1>1 DEF SyncParentDirectory, DatabaseTyped, Entries
  <1>5. entry.seen # NoKey /\ OpeningFits(p)'
    BY <1>1, <1>2, <1>3 DEF OpeningFits
  <1> QED
    BY <1>2, <1>3, <1>4, <1>5, EntryKeeps

LEMMA ReadPublishedKeyKeeps ==
    ASSUME DatabaseInv, NEW p \in Proc, ReadPublishedKey(p)
    PROVE  DatabaseInv'
  <1>1. /\ DatabaseTyped /\ FileFits /\ OpeningFits(p) /\ proc \in [Proc -> Openings]
        /\ proc[p] \in Openings /\ keysMade \in 0..MaxKeys
        /\ dbFaults \in 0..MaxDatabaseFaults
    BY DEF DatabaseInv, DatabaseTyped
  <1>2. writer # p /\ UNCHANGED <<db, keysMade, writer, dbFaults>>
    BY WriterMigrates DEF ReadPublishedKey, ProcAt
  <1>3. CASE /\ ProcAt(p, "read") /\ entry.seen \in Keys /\ UNCHANGED entry
             /\ proc' = [proc EXCEPT ![p].pc = "syncRead", ![p].key = entry.seen]
    <2> DEFINE o == [proc[p] EXCEPT !.pc = "syncRead", !.key = entry.seen]
    <2>1. "syncRead" \in DatabasePlaces /\ entry.seen \in AnyKey /\ entry.seen # NoKey
      BY <1>3 DEF DatabasePlaces, Keys, AnyKey, NoKey
    <2>2. o \in Openings /\ o.pc = "syncRead" /\ o.key = entry.seen
      BY <1>1, <2>1 DEF Openings
    <2>3. proc' = [proc EXCEPT ![p] = o]
      BY <1>3
    <2> HIDE DEF o
    <2>4. proc' \in [Proc -> Openings] /\ Elsewhere(p) /\ proc'[p] = o
      BY <1>1, <2>2, <2>3 DEF Elsewhere
    <2>5. OpeningFits(p)'
      BY <1>1, <1>2, <1>3, <2>1, <2>2, <2>4 DEF OpeningFits, ProcAt
    <2> QED
      BY <1>1, <1>2, <1>3, <2>4, <2>5, ProcessKeeps
  <1>4. CASE ProcStops(p) /\ UNCHANGED entry
    BY <1>1, <1>2, <1>4, StopKeeps
  <1>5. CASE ProcAt(p, "syncRead") /\ SyncsRead(p)
    <2>1. /\ proc' \in [Proc -> Openings] /\ Elsewhere(p) /\ proc'[p].pc = "assert"
          /\ proc'[p].key = proc[p].key
      BY <1>1, <1>5, GoesOn DEF SyncsRead, DatabasePlaces
    <2>2. entry' \in Entries /\ entry'.seen = entry.seen /\ entry'.durable = entry.seen
      BY <1>1, <1>5 DEF SyncsRead, DatabaseTyped, Entries
    <2>3. entry.seen # NoKey /\ OpeningFits(p)'
      BY <1>1, <1>2, <1>5, <2>1, <2>2 DEF OpeningFits, ProcAt
    <2> QED
      BY <1>2, <2>1, <2>2, <2>3, EntryKeeps
  <1> QED
    BY <1>3, <1>4, <1>5 DEF ReadPublishedKey

-----------------------------------------------------------------------------
\* The transaction: what it writes is Ludock's file with the key that was read.
LEMMA CommitWrites ==
    ASSUME DatabaseInv, NEW p \in Proc, proc[p].pc = "migrate", writer = p,
           db' = [db EXCEPT !.owner = "ludock", !.schema = Upgraded(p),
                            !.check = IF proc[p].from = 0 THEN proc[p].key ELSE @]
    PROVE  /\ db' \in DatabaseFiles /\ db'.owner = "ludock" /\ db'.wal = db.wal
           /\ db'.check = entry.seen /\ entry.seen # NoKey /\ entry.durable = entry.seen
           /\ proc[p].key = entry.seen /\ Version' \in Nat /\ Version' # 0
           /\ Version' >= Version /\ Version' >= Latest[p]
           /\ db.check # NoKey => db'.check = db.check
  <1>1. /\ DatabaseTyped /\ FileFits /\ OpeningFits(p) /\ proc[p] \in Openings
        /\ proc[p].key \in AnyKey /\ Latest[p] \in Nat \ {0}
    BY OpeningIs, DatabaseAssumption DEF DatabaseInv, DatabaseTyped
  <1>2. /\ proc[p].from = Version /\ Version \in Nat /\ db.schema = FirstVersions(Version)
        /\ db.check \in AnyKey /\ entry.seen \in AnyKey
    BY <1>1, FileIs DEF OpeningFits
  <1>3. /\ proc[p].key = entry.seen /\ entry.seen # NoKey /\ entry.durable = entry.seen
    BY <1>1 DEF OpeningFits
  <1>4. (IF proc[p].from = 0 THEN proc[p].key ELSE db.check) = entry.seen
    BY <1>1, <1>2, <1>3 DEF FileFits
  <1> DEFINE l == Latest[p]
             n == Version
             m == IF n < l THEN l ELSE n
  <1>5. Upgraded(p) = FirstVersions(m)
    <2>1. Upgraded(p) = FirstVersions(n) \o SubSeq(FirstVersions(l), n + 1, l)
      BY <1>2 DEF Upgraded, Migrations
    <2>2. l \in Nat /\ n \in Nat
      BY <1>1, <1>2
    <2> HIDE DEF l, n
    <2>3. CASE n < l
      BY <2>1, <2>2, <2>3, MigrationsFollow
    <2>4. CASE ~(n < l)
      BY <2>1, <2>2, <2>4, NothingFollows
    <2> QED
      BY <2>3, <2>4
  <1>6. m \in Nat /\ m # 0 /\ m >= n /\ m >= l
    BY <1>1, <1>2
  <1>7. Upgraded(p) \in Schemas /\ Len(Upgraded(p)) = m
    BY <1>5, <1>6, FirstVersionsAre DEF Schemas
  <1> HIDE DEF m
  <1>8. /\ db' \in DatabaseFiles /\ db'.owner = "ludock" /\ db'.wal = db.wal
        /\ db'.check = entry.seen /\ db'.schema = Upgraded(p)
    <2>1. db' = [db EXCEPT !.owner = "ludock", !.schema = Upgraded(p), !.check = entry.seen]
      BY <1>4
    <2> QED
      BY <1>1, <1>2, <1>7, <2>1 DEF DatabaseTyped, DatabaseFiles
  <1>9. Version' = m
    BY <1>7, <1>8 DEF Version
  <1>10. db.check # NoKey => entry.seen = db.check
    BY <1>1, <1>3 DEF FileFits
  <1> QED
    BY <1>3, <1>6, <1>8, <1>9, <1>10

\* Another process that opens the file finds in it what it relied on.
LEMMA OthersFit ==
    ASSUME NEW q \in Proc, OpeningFits(q), proc'[q] = proc[q], UNCHANGED entry,
           writer # q, writer' # q, db'.owner # "other", Version \in Nat, Version' \in Nat,
           Latest[q] \in Nat, Version' >= Version, db.check # NoKey => db'.check = db.check,
           entry.seen # NoKey \/ db'.check = db.check,
           proc[q].pc \in {"finish", "open"} => db.check # NoKey
    PROVE  OpeningFits(q)'
  BY DEF OpeningFits

\* An open file depends on a key.
LEMMA OpenHasKey ==
    ASSUME DatabaseInv, NEW q \in Proc, proc[q].pc \in {"finish", "open"}
    PROVE  db.check # NoKey
  <1>1. Version >= Latest[q] /\ Version \in Nat /\ Latest[q] \in Nat \ {0} /\ FileFits
    BY FileIs, DatabaseAssumption DEF DatabaseInv, OpeningFits
  <1> QED
    BY <1>1 DEF FileFits

LEMMA CommitKeeps ==
    ASSUME DatabaseInv, NEW p \in Proc, Commit(p)
    PROVE  DatabaseInv'
  <1>1. /\ DatabaseTyped /\ FileFits /\ OpeningFits(p) /\ proc \in [Proc -> Openings]
        /\ proc[p] \in Openings /\ keysMade \in 0..MaxKeys
        /\ dbFaults \in 0..MaxDatabaseFaults
    BY DEF DatabaseInv, DatabaseTyped
  <1>2. /\ proc[p].pc = "migrate" /\ writer = p /\ writer' = Nobody /\ Version \in Nat
        /\ UNCHANGED <<entry, keysMade>>
    BY <1>1, FileIs DEF Commit, ProcAt
  <1>3. CASE DatabaseFault /\ ProcStops(p) /\ UNCHANGED db
    BY <1>1, <1>2, <1>3, FaultCounts, StopKeeps
  <1>4. CASE /\ db' = [db EXCEPT !.owner = "ludock", !.schema = Upgraded(p),
                                  !.check = IF proc[p].from = 0 THEN proc[p].key ELSE @]
             /\ ProcGoto(p, "finish") /\ UNCHANGED dbFaults
    <2>1. /\ proc' \in [Proc -> Openings] /\ Elsewhere(p) /\ proc'[p].pc = "finish"
          /\ proc'[p].key = proc[p].key
      BY <1>1, <1>4, GoesOn DEF DatabasePlaces
    <2>2. /\ db' \in DatabaseFiles /\ db'.owner = "ludock" /\ db'.wal = db.wal
          /\ db'.check = entry.seen /\ entry.seen # NoKey /\ entry.durable = entry.seen
          /\ proc[p].key = entry.seen /\ Version' \in Nat /\ Version' # 0
          /\ Version' >= Version /\ Version' >= Latest[p]
          /\ db.check # NoKey => db'.check = db.check
      BY <1>2, <1>4, CommitWrites
    <2>3. DatabaseTyped'
      BY <1>1, <1>2, <1>4, <2>1, <2>2 DEF DatabaseTyped
    <2>4. FileFits'
      BY <1>2, <2>2 DEF FileFits
    <2>5. writer' # p
      BY <1>2, DatabaseAssumption
    <2>6. OpeningFits(p)'
      BY <1>2, <2>1, <2>2, <2>5 DEF OpeningFits
    <2>7. ASSUME NEW q \in Proc, q # p
          PROVE  OpeningFits(q)'
      <3>1. /\ OpeningFits(q) /\ proc'[q] = proc[q] /\ writer # q /\ writer' # q
            /\ Latest[q] \in Nat
        BY <1>2, <2>1, <2>7, DatabaseAssumption DEF DatabaseInv, Elsewhere
      <3>2. proc[q].pc \in {"finish", "open"} => db.check # NoKey
        BY OpenHasKey
      <3>3. db'.owner # "other"
        BY <2>2
      <3> QED
        BY <1>2, <2>2, <3>1, <3>2, <3>3, OthersFit
    <2>8. \A q \in Proc : OpeningFits(q)'
      BY <2>6, <2>7
    <2> QED
      BY <2>3, <2>4, <2>8 DEF DatabaseInv
  <1> QED
    BY <1>3, <1>4 DEF Commit

LEMMA FinishOpeningKeeps ==
    ASSUME DatabaseInv, NEW p \in Proc, FinishOpening(p)
    PROVE  DatabaseInv'
  <1>1. /\ DatabaseTyped /\ FileFits /\ OpeningFits(p) /\ proc \in [Proc -> Openings]
        /\ proc[p] \in Openings /\ keysMade \in 0..MaxKeys
        /\ dbFaults \in 0..MaxDatabaseFaults
    BY DEF DatabaseInv, DatabaseTyped
  <1>2. /\ proc[p].pc = "finish" /\ writer # p /\ db' = [db EXCEPT !.wal = TRUE]
        /\ UNCHANGED <<entry, keysMade, writer, dbFaults>>
    BY WriterMigrates DEF FinishOpening, ProcAt
  <1>3. /\ proc' \in [Proc -> Openings] /\ Elsewhere(p) /\ proc'[p].pc = "open"
        /\ proc'[p].key = proc[p].key
    BY <1>1, GoesOn DEF FinishOpening, DatabasePlaces
  <1>4. /\ db' \in DatabaseFiles /\ db'.owner = db.owner /\ db'.schema = db.schema
        /\ db'.check = db.check
    BY <1>1, <1>2 DEF DatabaseTyped, DatabaseFiles
  <1>5. Version' = Version /\ Version \in Nat /\ db.owner # "other"
    BY <1>1, <1>2, <1>4, FileIs DEF Version, OpeningFits
  <1>6. DatabaseTyped'
    BY <1>1, <1>2, <1>3, <1>4 DEF DatabaseTyped
  <1>7. FileFits'
    BY <1>1, <1>2, <1>4, <1>5 DEF FileFits
  <1>8. OpeningFits(p)'
    BY <1>1, <1>2, <1>3, <1>4, <1>5 DEF OpeningFits
  <1>9. ASSUME NEW q \in Proc, q # p
        PROVE  OpeningFits(q)'
    <2>1. OpeningFits(q) /\ proc'[q] = proc[q]
      BY <1>3, <1>9 DEF DatabaseInv, Elsewhere
    <2> QED
      BY <1>2, <1>4, <1>5, <2>1 DEF OpeningFits
  <1>10. \A q \in Proc : OpeningFits(q)'
    BY <1>8, <1>9
  <1> QED
    BY <1>6, <1>7, <1>10 DEF DatabaseInv

-----------------------------------------------------------------------------
\* Nobody runs: the key may go, and what a power loss leaves is durable.
LEMMA PowerLossKeeps ==
    ASSUME DatabaseInv, PowerLoss
    PROVE  DatabaseInv'
  <1>1. DatabaseTyped /\ FileFits /\ UNCHANGED <<db, keysMade>> /\ writer' = Nobody
    BY DEF DatabaseInv, PowerLoss
  <1>2. proc' = [p \in Proc |-> NotRunning] /\ dbFaults' \in 0..MaxDatabaseFaults
    BY FaultCounts DEF PowerLoss
  <1>3. entry' = entry \/ entry' = [entry EXCEPT !.seen = entry.durable]
    BY DEF PowerLoss
  <1>4. /\ entry' \in Entries /\ entry'.durable = entry.durable
        /\ entry'.seen \in {entry.seen, entry.durable}
    BY <1>1, <1>3 DEF DatabaseTyped, Entries
  <1>5. DatabaseTyped'
    BY <1>1, <1>2, <1>4, NotRunningIs DEF DatabaseTyped
  <1>6. FileFits'
    BY <1>1, <1>4 DEF FileFits, Version
  <1>7. ASSUME NEW p \in Proc
        PROVE  OpeningFits(p)'
    <2>1. proc'[p] = NotRunning /\ writer' # p
      BY <1>1, <1>2, DatabaseAssumption
    <2> QED
      BY <2>1, NotRunningIs DEF OpeningFits
  <1> QED
    BY <1>5, <1>6, <1>7 DEF DatabaseInv

LEMMA LoseKeyKeeps ==
    ASSUME DatabaseInv, LoseKey
    PROVE  DatabaseInv'
  <1>1. /\ DatabaseTyped /\ FileFits /\ UNCHANGED <<db, keysMade, proc, writer>>
        /\ entry' = [seen |-> NoKey, durable |-> NoKey] /\ entry.seen # NoKey
    BY DEF DatabaseInv, LoseKey
  <1>2. dbFaults' \in 0..MaxDatabaseFaults
    BY FaultCounts DEF LoseKey
  <1>3. entry' \in Entries /\ entry'.seen = NoKey /\ entry'.durable = NoKey
    BY <1>1 DEF Entries, AnyKey
  <1>4. DatabaseTyped'
    BY <1>1, <1>2, <1>3 DEF DatabaseTyped
  <1>5. FileFits'
    BY <1>1, <1>3 DEF FileFits, Version
  <1>6. ASSUME NEW p \in Proc
        PROVE  OpeningFits(p)'
    <2>1. OpeningFits(p) /\ proc[p].pc = "off"
      BY DEF DatabaseInv, LoseKey, ProcAt
    <2> QED
      BY <1>1, <2>1 DEF OpeningFits
  <1> QED
    BY <1>4, <1>5, <1>6 DEF DatabaseInv

-----------------------------------------------------------------------------
LEMMA DatabaseInvInit == DatabaseInit => DatabaseInv
  <1> SUFFICES ASSUME DatabaseInit
               PROVE  DatabaseInv
    OBVIOUS
  <1>1. 0 \in 0..MaxKeys /\ 1 \in 0..MaxKeys /\ 1 \in Keys /\ 0 \in 0..MaxDatabaseFaults
    BY DatabaseAssumption DEF Keys
  <1>2. NoKey \in AnyKey /\ 1 \in AnyKey /\ 1 # NoKey
    BY <1>1 DEF AnyKey, NoKey
  <1>3. ASSUME NEW o \in {"none", "other", "ludock"}, NEW n \in Nat, NEW k \in {NoKey, 1},
               o = "ludock" <=> n # 0, k # NoKey <=> n # 0,
               db = DatabaseFile(o, n, k), entry = [seen |-> k, durable |-> k],
               keysMade \in 0..MaxKeys
        PROVE  DatabaseInv
    <2>1. FirstVersions(n) \in Schemas /\ Len(FirstVersions(n)) = n
      BY FirstVersionsAre DEF Schemas
    <2>2. /\ db \in DatabaseFiles /\ db.owner = o /\ db.schema = FirstVersions(n)
          /\ db.check = k /\ db.wal = FALSE
      BY <1>2, <1>3, <2>1 DEF DatabaseFile, DatabaseFiles
    <2>3. entry \in Entries /\ entry.seen = k /\ entry.durable = k
      BY <1>2, <1>3 DEF Entries
    <2>4. proc = [p \in Proc |-> NotRunning] /\ writer = Nobody /\ dbFaults = 0
      BY DEF DatabaseInit
    <2>5. DatabaseTyped
      BY <1>1, <1>3, <2>2, <2>3, <2>4, NotRunningIs DEF DatabaseTyped
    <2>6. FileFits
      BY <1>3, <2>1, <2>2, <2>3 DEF FileFits, Version
    <2>7. ASSUME NEW p \in Proc
          PROVE  OpeningFits(p)
      <3>1. proc[p] = NotRunning /\ writer # p
        BY <2>4, DatabaseAssumption
      <3> QED
        BY <3>1, NotRunningIs DEF OpeningFits
    <2> QED
      BY <2>5, <2>6, <2>7 DEF DatabaseInv
  <1>4. CASE /\ db = DatabaseFile("none", 0, NoKey)
             /\ entry = [seen |-> NoKey, durable |-> NoKey] /\ keysMade = 0
    BY <1>1, <1>2, <1>3, <1>4
  <1>5. CASE /\ db = DatabaseFile("other", 0, NoKey)
             /\ entry = [seen |-> NoKey, durable |-> NoKey] /\ keysMade = 0
    BY <1>1, <1>2, <1>3, <1>5
  <1>6. ASSUME NEW n \in Oldest..Newest, db = DatabaseFile("ludock", n, 1),
               entry = [seen |-> 1, durable |-> 1], keysMade = 1
        PROVE  DatabaseInv
    <2>1. n \in Nat /\ n # 0
      BY DatabaseAssumption
    <2> QED
      BY <1>1, <1>2, <1>3, <1>6, <2>1
  <1> QED
    BY <1>4, <1>5, <1>6 DEF DatabaseInit

LEMMA DatabaseInvNext == DatabaseInv /\ [DatabaseNext]_databaseVars => DatabaseInv'
  <1>1. DatabaseInv /\ DatabaseNext => DatabaseInv'
    BY InspectKeeps, RefuseKeeps, ReadVersionKeeps, LoadKeyKeeps, PublishKeeps,
       SyncParentDirectoryKeeps, ReadPublishedKeyKeeps, AssertKeyKeeps, BeginTxKeeps, LockTxKeeps,
       CommitKeeps, FinishOpeningKeeps, CloseDatabaseKeeps, KillKeeps, PowerLossKeeps, LoseKeyKeeps
       DEF DatabaseNext
  <1>2. DatabaseInv /\ UNCHANGED databaseVars => DatabaseInv'
    BY DEF databaseVars, DatabaseInv, DatabaseTyped, FileFits, OpeningFits, Version
  <1> QED
    BY <1>1, <1>2

LEMMA DatabaseInvHolds == DatabaseSpec => []DatabaseInv
  BY DatabaseInvInit, DatabaseInvNext, PTL DEF DatabaseSpec

\* A file newer than all of these is opened by none and written by none.
NewerUntouched == NewerThanAll => ~db.wal /\ \A p \in Proc : proc[p].pc = "off"

\* A transaction leaves no version that is newer than all, unless it was there.
LEMMA CommitIsOwn ==
    ASSUME DatabaseInv, NEW p \in Proc, Commit(p), NewerThanAll'
    PROVE  UNCHANGED Version
  <1>1. /\ DatabaseTyped /\ OpeningFits(p) /\ Latest[p] \in Nat \ {0} /\ writer = p
        /\ Latest[p] < Version'
    BY DatabaseAssumption DEF DatabaseInv, Commit, NewerThanAll
  <1>2. proc[p].from = Version /\ Version \in Nat /\ db.schema = FirstVersions(Version)
    BY <1>1, FileIs DEF OpeningFits
  <1>3. CASE UNCHANGED db
    BY <1>3 DEF Version
  <1>4. CASE db' = [db EXCEPT !.owner = "ludock", !.schema = Upgraded(p),
                              !.check = IF proc[p].from = 0 THEN proc[p].key ELSE @]
    <2> DEFINE l == Latest[p]
               n == Version
    <2>1. db'.schema = FirstVersions(n) \o SubSeq(FirstVersions(l), n + 1, l)
      BY <1>1, <1>2, <1>4 DEF Upgraded, Migrations, DatabaseTyped, DatabaseFiles
    <2>2. l \in Nat /\ n \in Nat /\ l < Version' /\ Version' = Len(db'.schema)
      BY <1>1, <1>2 DEF Version
    <2> HIDE DEF l, n
    <2>3. CASE n < l
      <3>1. Version' = l
        BY <2>1, <2>2, <2>3, MigrationsFollow, FirstVersionsAre
      <3> QED
        BY <2>2, <3>1
    <2>4. CASE ~(n < l)
      <3>1. Version' = n
        BY <2>1, <2>2, <2>4, NothingFollows, FirstVersionsAre
      <3> QED
        BY <3>1 DEF n
    <2> QED
      BY <2>3, <2>4
  <1> QED
    BY <1>3, <1>4 DEF Commit

LEMMA NewerUntouchedInit == DatabaseInit => NewerUntouched
  <1> HAVE DatabaseInit
  <1>1. ~db.wal
    BY DEF DatabaseInit, DatabaseFile
  <1>2. \A p \in Proc : proc[p].pc = "off"
    BY NotRunningIs DEF DatabaseInit
  <1> QED
    BY <1>1, <1>2 DEF NewerUntouched

LEMMA NewerUntouchedNext ==
    DatabaseInv /\ NewerUntouched /\ [DatabaseNext]_databaseVars => NewerUntouched'
  <1> SUFFICES ASSUME DatabaseInv, NewerUntouched, [DatabaseNext]_databaseVars, NewerThanAll'
               PROVE  ~db'.wal /\ \A p \in Proc : proc'[p].pc = "off"
    BY DEF NewerUntouched
  <1>1. /\ proc \in [Proc -> Openings] /\ Version \in Nat
        /\ \A p \in Proc : Latest[p] \in Nat \ {0}
    BY FileIs, DatabaseAssumption DEF DatabaseInv, DatabaseTyped
  <1>2. UNCHANGED Version
    <2>1. CASE \E p \in Proc : Commit(p)
      BY <2>1, CommitIsOwn
    <2>2. CASE \E p \in Proc : FinishOpening(p)
      BY <2>2 DEF FinishOpening, Version, DatabaseInv, DatabaseTyped, DatabaseFiles
    <2>3. CASE UNCHANGED db
      BY <2>3 DEF Version
    <2> QED
      BY <2>1, <2>2, <2>3 DEF DatabaseNext, databaseVars, Inspect, Refuse, ReadVersion, LoadKey,
         Publish, SyncParentDirectory, ReadPublishedKey, AssertKey, BeginTx, LockTx, CloseDatabase,
         Kill, PowerLoss, LoseKey
  <1>3. ~db.wal /\ \A p \in Proc : proc[p].pc = "off" /\ Latest[p] < Version
    BY <1>2 DEF NewerUntouched, NewerThanAll
  <1>4. ASSUME NEW p \in Proc
        PROVE  ~Compatible(p)
    BY <1>1, <1>3 DEF Compatible
  <1>5. UNCHANGED databaseVars \/ PowerLoss \/ LoseKey
    BY <1>3, <1>4, Zenon DEF DatabaseNext, ProcAt, Inspect, Refuse, ReadVersion, LoadKey, Publish,
       SyncParentDirectory, ReadPublishedKey, AssertKey, BeginTx, LockTx, Commit, FinishOpening,
       CloseDatabase, Kill
  <1>6. UNCHANGED db /\ (UNCHANGED proc \/ proc' = [p \in Proc |-> NotRunning])
    BY <1>5 DEF databaseVars, PowerLoss, LoseKey
  <1> QED
    BY <1>3, <1>6, NotRunningIs

LEMMA NewerUntouchedHolds == DatabaseSpec => []NewerUntouched
  BY DatabaseInvHolds, NewerUntouchedInit, NewerUntouchedNext, PTL DEF DatabaseSpec

LEMMA KeyIsKept == DatabaseInv /\ NewerUntouched => DatabaseKeepsItsKey
  <1> SUFFICES ASSUME DatabaseInv, NewerUntouched
               PROVE  DatabaseKeepsItsKey
    OBVIOUS
  <1>1. DatabaseTyped /\ FileFits /\ \A p \in Proc : OpeningFits(p)
    BY DEF DatabaseInv
  <1>2. /\ db.owner \in {"none", "other", "ludock"} /\ db.check \in AnyKey
        /\ db.wal \in BOOLEAN /\ Version \in Nat /\ db.schema = FirstVersions(Version)
    BY <1>1, FileIs
  <1>3. ASSUME NEW p \in Proc
        PROVE  proc[p].pc \in DatabasePlaces
    BY <1>1, OpeningIs DEF DatabaseTyped
  <1>4. DatabaseTypeOK
    BY <1>1, <1>2, <1>3 DEF DatabaseTypeOK, DatabaseTyped, Entries, AnyKey, DatabasePlaces
  <1>5. \A p \in Proc : ProcAt(p, "open") => proc[p].key = db.check /\ Version >= Latest[p]
    BY <1>1 DEF OpeningFits, ProcAt
  <1>6. db.check # NoKey => entry.seen \in {NoKey, db.check} /\ entry.durable = entry.seen
    BY <1>1 DEF FileFits
  <1>7. db.owner = "other" => Version = 0 /\ ~db.wal
    BY <1>1 DEF FileFits
  <1>8. NewerThanAll => ~db.wal /\ \A p \in Proc : ProcAt(p, "off")
    BY DEF NewerUntouched, ProcAt
  <1> QED
    BY <1>2, <1>4, <1>5, <1>6, <1>7, <1>8 DEF DatabaseKeepsItsKey

(* Whatever processes of whatever releases race, die or lose power, a      *)
(* database that depends on a key never gets another, no power loss parts  *)
(* them, every migration is applied once and in order, and a file of       *)
(* another program or of a release newer than all is never written to      *)
(* (Database): for any number of processes, releases, keys and failures.   *)
THEOREM DatabaseKeepsItsKeyHolds == DatabaseSpec => []DatabaseKeepsItsKey
  BY DatabaseInvHolds, NewerUntouchedHolds, KeyIsKept, PTL

=============================================================================
