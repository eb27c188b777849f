------------------------------ MODULE Accounts ------------------------------
(***************************************************************************)
(* Accounts, sessions and grants (internal/auth/service.go, setup.go and   *)
(* password.go, internal/db/accounts.go, internal/authz/authz.go and the   *)
(* handlers in internal/web/session.go, auth_handlers.go, account.go and   *)
(* users.go).                                                              *)
(*                                                                         *)
(* A client signs in, sets the panel up or acts with the session in its    *)
(* cookie.  Password work is slow, so each request reads the database,     *)
(* hashes, and commits in a transaction; any request of another client,    *)
(* the console's recovery and a restart may come between.                  *)
(*                                                                         *)
(* Simplifications: a hash is an opaque value, fresh at every hashing; a   *)
(* guess is right or wrong when it is verified; of the throttles that one  *)
(* attempt counts against, the one per account and source is kept (the     *)
(* others have the same code and larger limits); there is one server, and  *)
(* one capability of each kind that the code tells apart.                  *)
(***************************************************************************)
EXTENDS Naturals, FiniteSets

CONSTANTS User, Client, Token, Hash,
          Weak,          \* hashes of older parameters
          None,
          MaxFailures,   \* loginAccountSourceMax
          MaxAsked       \* bound: requests and events of the environment

VARIABLES
    \* the database
    users, sessions, grants, fails,
    \* the SetupWindow of this process
    setup,
    \* browsers and their requests in progress
    cookie, req,
    asked,
    \* history: accounts that setup created, refused guesses since the count
    \* was cleared (less those whose request ended before it counted them),
    \* requests whose session ended under them, and those that committed
    \* nevertheless
    made, guesses, ended, late

dbVars == <<users, sessions, grants, fails>>
history == <<made, guesses, ended, late>>
vars == <<dbVars, setup, cookie, req, asked, history>>

Roles == {"admin", "operator", "viewer"}
Capability == {"view", "read", "write", "update"}

AccountRows == [role : Roles, disabled : BOOLEAN, hash : Hash, era : Hash]
SessionRows == [user : User, era : Hash, expired : BOOLEAN]

ParametersFit ==
    /\ None \notin User \cup Token \cup Hash \cup AccountRows \cup SessionRows
    /\ Weak \subseteq Hash /\ IsFiniteSet(Client)
    /\ MaxFailures \in Nat \ {0} /\ MaxAsked \in Nat

ASSUME AccountsAssumption == ParametersFit

RoleCeiling(role) ==
    CASE role = "admin"    -> Capability
      [] role = "operator" -> {"view", "read", "write"}
      [] OTHER             -> {"view", "read"}

Account(role, hash) == [role |-> role, disabled |-> FALSE, hash |-> hash, era |-> hash]
Exists(u) == users[u] # None
Enabled(u) == Exists(u) /\ ~users[u].disabled
Admins == {u \in User : Enabled(u) /\ users[u].role = "admin"}

Ops == {"setup", "login", "change", "create", "access", "delete", "reset", "grants"}
Requests == [op : Ops \cup {"none"}, pc : {"idle", "asked", "work", "checked", "upgrade", "commit", "mark", "failed"},
             token : Token \cup {None}, user : User \cup {None}, role : Roles, off : BOOLEAN,
             caps : SUBSET Capability, old : Hash \cup {None}, new : Hash \cup {None},
             era : Hash \cup {None}]
Idle == [op |-> "none", pc |-> "idle", token |-> None, user |-> None, role |-> "viewer",
         off |-> FALSE, caps |-> {}, old |-> None, new |-> None, era |-> None]

TypeOK ==
    /\ users \in [User -> {None} \cup AccountRows]
    /\ sessions \in [Token -> {None} \cup SessionRows]
    /\ grants \in [User -> SUBSET Capability] /\ fails \in [User -> Nat]
    /\ setup \in [open : BOOLEAN, completed : BOOLEAN]
    /\ cookie \in [Client -> Token \cup {None}] /\ req \in [Client -> Requests]
    /\ made \in Nat /\ guesses \in [User -> Nat]
    /\ ended \in SUBSET Client /\ late \in BOOLEAN

(* A new database, or one of an older release, whose hashes are weak.      *)
Init ==
    /\ \E old \in SUBSET User, h \in Weak :
          /\ users = [u \in User |-> IF u \in old THEN Account("admin", h) ELSE None]
          /\ made = IF old = {} THEN 0 ELSE 1
    /\ sessions = [t \in Token |-> None] /\ grants = [u \in User |-> {}]
    /\ fails = [u \in User |-> 0] /\ setup = [open |-> TRUE, completed |-> FALSE]
    /\ cookie = [c \in Client |-> None] /\ req = [c \in Client |-> Idle]
    /\ asked = 0 /\ guesses = [u \in User |-> 0] /\ ended = {} /\ late = FALSE

-----------------------------------------------------------------------------
(* Hashes, tokens and identifiers are new whenever one is made; HashLeft   *)
(* and TokenLeft are the bound on how many there are.                      *)

HashesInUse == {users[u].hash : u \in {v \in User : Exists(v)}}
                 \cup {users[u].era : u \in {v \in User : Exists(v)}}
                 \cup UNION {{req[c].old, req[c].new, req[c].era} : c \in Client}
                 \cup {sessions[t].era : t \in {x \in Token : sessions[x] # None}}
HashLeft == \E h \in Hash \ Weak : h \notin HashesInUse
NewHash == CHOOSE h \in Hash \ Weak : h \notin HashesInUse
NeedsUpgrade(h) == h \in Weak

TokensInUse == {t \in Token : sessions[t] # None} \cup {cookie[c] : c \in Client}
                 \cup {req[c].token : c \in Client}
TokenLeft == \E t \in Token : t \notin TokensInUse
NewToken == CHOOSE t \in Token : t \notin TokensInUse

SetupRequired == \A u \in User : ~Exists(u)

(* PasswordWork.Do runs one request at a time for a subject.               *)
Busy(op, u) == \E c \in Client : req[c].op = op /\ req[c].user = u /\ req[c].pc \in {"work", "upgrade"}

Valid(t) == t # None /\ sessions[t] # None /\ ~sessions[t].expired /\ Enabled(sessions[t].user)
Owner(t) == sessions[t].user

(* Ending sessions overtakes the requests that were made with them.        *)
End(gone) ==
    /\ sessions' = [t \in Token |-> IF t \in gone THEN None ELSE sessions[t]]
    /\ ended' = ended \cup {c \in Client : req[c].token \in gone}
Of(u) == {t \in Token : sessions[t] # None /\ sessions[t].user = u}

SetPassword(u, h) == users' = [users EXCEPT ![u].hash = h, ![u].era = h] /\ End(Of(u))

Ask(c, request) ==
    /\ req[c].pc = "idle" /\ asked < MaxAsked /\ asked' = asked + 1
    /\ req' = [req EXCEPT ![c] = request]
    /\ ended' = ended \ {c}
Step(c, pc) == req' = [req EXCEPT ![c].pc = pc]
Answer(c) == req' = [req EXCEPT ![c] = Idle]
SetSessionCookie(c, t) == cookie' = [cookie EXCEPT ![c] = t]
At(c, op, pc) == req[c].op = op /\ req[c].pc = pc

-----------------------------------------------------------------------------
(* Setup: the window and the code are checked before and after hashing;    *)
(* the account and its session commit together, only while there is none.  *)

AssertAuthorized == SetupRequired /\ setup.open /\ ~setup.completed

SetupBegin(c) ==
    /\ AssertAuthorized /\ HashLeft
    /\ Ask(c, [Idle EXCEPT !.op = "setup", !.pc = "work", !.new = NewHash])
    /\ UNCHANGED <<dbVars, setup, cookie, made, guesses, late>>

SetupCheck(c) ==
    /\ At(c, "setup", "work")
    /\ IF AssertAuthorized THEN Step(c, "commit") ELSE Answer(c)
    /\ UNCHANGED <<dbVars, setup, cookie, asked, history>>

CreatesFirst == SetupRequired

SetupCommit(c) ==
    /\ At(c, "setup", "commit") /\ TokenLeft
    /\ IF CreatesFirst
       THEN \E u \in User : LET t == NewToken IN
            /\ ~Exists(u)
            /\ users' = [users EXCEPT ![u] = Account("admin", req[c].new)]
            /\ sessions' = [sessions EXCEPT ![t] = [user |-> u, era |-> req[c].new, expired |-> FALSE]]
            /\ SetSessionCookie(c, t)
            /\ made' = made + 1 /\ Step(c, "mark")
       ELSE Answer(c) /\ UNCHANGED <<users, sessions, cookie, made>>
    /\ UNCHANGED <<grants, fails, setup, asked, guesses, ended, late>>

SetupMark(c) ==
    /\ At(c, "setup", "mark") /\ Answer(c)
    /\ setup' = [setup EXCEPT !.completed = TRUE]
    /\ UNCHANGED <<dbVars, cookie, asked, history>>

SetupExpires ==
    /\ setup.open /\ setup' = [setup EXCEPT !.open = FALSE]
    /\ UNCHANGED <<dbVars, cookie, req, asked, history>>

-----------------------------------------------------------------------------
(* Login: the throttle is read first; then, one request per account, the   *)
(* account is read and the guess verified, and the account read again.     *)

LoginBegin(c, u) ==
    /\ fails[u] < MaxFailures /\ ~SetupRequired
    /\ Ask(c, [Idle EXCEPT !.op = "login", !.pc = "asked", !.user = u])
    /\ UNCHANGED <<dbVars, setup, cookie, made, guesses, late>>

LoginBusy(c) ==
    /\ At(c, "login", "asked") /\ Busy("login", req[c].user) /\ Answer(c)
    /\ UNCHANGED <<dbVars, setup, cookie, asked, history>>

Authenticate(c) ==
    LET u == req[c].user IN
    /\ At(c, "login", "asked") /\ ~Busy("login", u)
    /\ \/ /\ Enabled(u) /\ HashLeft
          /\ req' = [req EXCEPT ![c].pc = "work", ![c].old = users[u].hash, ![c].era = users[u].era,
                                ![c].new = IF NeedsUpgrade(users[u].hash) THEN NewHash ELSE None]
          /\ UNCHANGED guesses
       \/ Step(c, "failed") /\ guesses' = [guesses EXCEPT ![u] = @ + 1]
    /\ UNCHANGED <<dbVars, setup, cookie, asked, made, ended, late>>

Unchanged(c) == Enabled(req[c].user) /\ users[req[c].user].hash = req[c].old

AuthenticateAgain(c) ==
    /\ At(c, "login", "work")
    /\ IF Unchanged(c)
       THEN Step(c, IF req[c].new # None THEN "upgrade" ELSE "checked") /\ UNCHANGED guesses
       ELSE Step(c, "failed") /\ guesses' = [guesses EXCEPT ![req[c].user] = @ + 1]
    /\ UNCHANGED <<dbVars, setup, cookie, asked, made, ended, late>>

(* A hash that changed meanwhile is not replaced; the session is refused   *)
(* then, because it must match the upgraded hash.                          *)
UpgradePasswordHash(c) ==
    /\ At(c, "login", "upgrade")
    /\ users' = IF Unchanged(c) THEN [users EXCEPT ![req[c].user].hash = req[c].new] ELSE users
    /\ req' = [req EXCEPT ![c].pc = "checked", ![c].old = req[c].new]
    /\ UNCHANGED <<sessions, grants, fails, setup, cookie, asked, history>>

ClearLoginThrottle(c) ==
    /\ At(c, "login", "checked") /\ Step(c, "commit")
    /\ fails' = [fails EXCEPT ![req[c].user] = 0] /\ guesses' = [guesses EXCEPT ![req[c].user] = 0]
    /\ UNCHANGED <<users, sessions, grants, setup, cookie, asked, made, ended, late>>

MutantTrustsCheck(c) == Exists(req[c].user)
Inserts(c) == Unchanged(c)

CreateSession(c) ==
    LET t == NewToken IN
    /\ At(c, "login", "commit") /\ Answer(c) /\ TokenLeft
    /\ IF Inserts(c)
       THEN /\ sessions' = [x \in Token |->
                              IF x = t THEN [user |-> req[c].user, era |-> req[c].era, expired |-> FALSE]
                              ELSE IF sessions[x] # None /\ sessions[x].expired THEN None ELSE sessions[x]]
            /\ SetSessionCookie(c, t)
       ELSE UNCHANGED <<sessions, cookie>>
    /\ UNCHANGED <<users, grants, fails, setup, asked, history>>

Counted(c) == [fails EXCEPT ![req[c].user] = @ + 1]

RecordLoginFailure(c) ==
    /\ At(c, "login", "failed") /\ Answer(c) /\ fails' = Counted(c)
    /\ UNCHANGED <<users, sessions, grants, setup, cookie, asked, history>>

(* The window, or the block, of an account's failures ends.                *)
WindowEnds(u) ==
    /\ fails[u] > 0 /\ asked < MaxAsked /\ asked' = asked + 1
    /\ fails' = [fails EXCEPT ![u] = 0] /\ guesses' = [guesses EXCEPT ![u] = 0]
    /\ UNCHANGED <<users, sessions, grants, setup, cookie, req, made, ended, late>>

-----------------------------------------------------------------------------
(* Requests with a session: authed reads the form between two lookups.  A  *)
(* lookup removes a session that has expired.                              *)

Signed(c, request) == Valid(cookie[c]) /\ Ask(c, [request EXCEPT !.token = cookie[c]])

FindSessionUser(c) ==
    /\ cookie[c] # None /\ sessions[cookie[c]] # None /\ ~Valid(cookie[c])
    /\ End({cookie[c]})
    /\ UNCHANGED <<users, grants, fails, setup, cookie, req, asked, made, guesses, late>>

Expire(t) ==
    /\ sessions[t] # None /\ ~sessions[t].expired /\ asked < MaxAsked /\ asked' = asked + 1
    /\ sessions' = [sessions EXCEPT ![t].expired = TRUE]
    /\ UNCHANGED <<users, grants, fails, setup, cookie, req, history>>

Logout(c) ==
    /\ Valid(cookie[c]) /\ req[c].op = "none"
    /\ End({cookie[c]}) /\ SetSessionCookie(c, None)
    /\ UNCHANGED <<users, grants, fails, setup, req, asked, made, guesses, late>>

RevokeSession(c, t) ==
    /\ Valid(cookie[c]) /\ req[c].op = "none" /\ t \in Of(Owner(cookie[c])) /\ End({t})
    /\ cookie' = [cookie EXCEPT ![c] = IF @ = t THEN None ELSE @]
    /\ UNCHANGED <<users, grants, fails, setup, req, asked, made, guesses, late>>

(* A committed request: was its session ended since it was made?           *)
Committed(c) == late' = (late \/ c \in ended)

ChangeBegin(c) ==
    /\ Valid(cookie[c]) /\ HashLeft
    /\ LET u == Owner(cookie[c]) IN
       Signed(c, [Idle EXCEPT !.op = "change", !.pc = "work", !.user = u, !.old = users[u].hash,
                              !.new = NewHash])
    /\ UNCHANGED <<dbVars, setup, cookie, made, guesses, late>>

Changes(c) == Valid(req[c].token) /\ users[req[c].user].hash = req[c].old

ChangePassword(c) ==
    LET u == req[c].user  t == NewToken  h == req[c].new IN
    /\ At(c, "change", "work") /\ Answer(c) /\ TokenLeft
    /\ IF Changes(c)
       THEN /\ users' = [users EXCEPT ![u].hash = h, ![u].era = h]
            /\ sessions' = [x \in Token |-> IF x = t THEN [user |-> u, era |-> h, expired |-> FALSE]
                                            ELSE IF x \in Of(u) THEN None ELSE sessions[x]]
            /\ ended' = ended \cup {d \in Client \ {c} : req[d].token \in Of(u)}
            /\ SetSessionCookie(c, t) /\ Committed(c)
       ELSE UNCHANGED <<users, sessions, ended, cookie, late>>
    /\ UNCHANGED <<grants, fails, setup, asked, made, guesses>>

-----------------------------------------------------------------------------
(* An administrator's changes.  The role is read with the session, before  *)
(* any hashing; AdminMutation checks both again in the transaction.        *)

AdminBegin(c, op, u, role, off, caps) ==
    /\ IF op = "create" THEN ~Exists(u) ELSE Exists(u)
    /\ (op = "delete" => u # Owner(cookie[c])) /\ HashLeft
    /\ Signed(c, [Idle EXCEPT !.op = op, !.pc = "work", !.user = u, !.role = role, !.off = off,
                              !.caps = caps,
                              !.new = IF op \in {"create", "reset"} THEN NewHash ELSE None])
    /\ UNCHANGED <<dbVars, setup, cookie, made, guesses, late>>

AdminMutation(c) == Valid(req[c].token) /\ Owner(req[c].token) \in Admins

MutantCountsOthers(u, role, off) == FALSE
RemovesLastAdmin(u, role, off) == u \in Admins /\ ~(role = "admin" /\ ~off) /\ Cardinality(Admins) <= 1

(* A rejected transaction writes nothing.                                  *)
Rejected(c) ==
    /\ req[c].pc = "work" /\ req[c].op \in Ops \ {"setup", "login", "change"} /\ ~AdminMutation(c)
    /\ Answer(c) /\ UNCHANGED <<dbVars, setup, cookie, asked, history>>

AdminAt(c, op) == At(c, op, "work") /\ AdminMutation(c) /\ Answer(c)

CreateUser(c) ==
    LET u == req[c].user IN
    /\ AdminAt(c, "create")
    /\ IF ~Exists(u) THEN users' = [users EXCEPT ![u] = Account(req[c].role, req[c].new)] /\ Committed(c)
       ELSE UNCHANGED <<users, late>>
    /\ UNCHANGED <<sessions, grants, fails, setup, cookie, asked, made, guesses, ended>>

UpdateAccess(c) ==
    LET u == req[c].user IN
    /\ AdminAt(c, "access")
    /\ IF Exists(u) /\ ~RemovesLastAdmin(u, req[c].role, req[c].off)
       THEN /\ users' = [users EXCEPT ![u].role = req[c].role, ![u].disabled = req[c].off]
            /\ IF req[c].off THEN End(Of(u)) ELSE UNCHANGED <<sessions, ended>>
            /\ Committed(c)
       ELSE UNCHANGED <<users, sessions, ended, late>>
    /\ UNCHANGED <<grants, fails, setup, cookie, asked, made, guesses>>

DeleteUser(c) ==
    LET u == req[c].user IN
    /\ AdminAt(c, "delete")
    /\ IF Exists(u) /\ ~RemovesLastAdmin(u, "viewer", TRUE)
       THEN /\ users' = [users EXCEPT ![u] = None] /\ grants' = [grants EXCEPT ![u] = {}]
            /\ End(Of(u)) /\ Committed(c)
       ELSE UNCHANGED <<users, sessions, grants, ended, late>>
    /\ UNCHANGED <<fails, setup, cookie, asked, made, guesses>>

ResetPassword(c) ==
    LET u == req[c].user IN
    /\ AdminAt(c, "reset")
    /\ IF Exists(u)
       THEN SetPassword(u, req[c].new) /\ Committed(c)
       ELSE UNCHANGED <<users, sessions, ended, late>>
    /\ UNCHANGED <<grants, fails, setup, cookie, asked, made, guesses>>

ValidGrant(role, caps) ==
    /\ role # "admin" /\ caps \subseteq RoleCeiling(role)
    /\ caps # {} => "view" \in caps
    /\ "write" \in caps => "read" \in caps

SetUserGrants(c) ==
    LET u == req[c].user IN
    /\ AdminAt(c, "grants")
    /\ IF Exists(u) /\ ValidGrant(users[u].role, req[c].caps)
       THEN grants' = [grants EXCEPT ![u] = req[c].caps] /\ Committed(c)
       ELSE UNCHANGED <<grants, late>>
    /\ UNCHANGED <<users, sessions, fails, setup, cookie, asked, made, guesses, ended>>

(* What an account may do with the server: roleCapabilities of its current *)
(* row and grant, read in one query.                                       *)
RoleCapabilities(u) ==
    IF users[u].role = "admin" THEN Capability
    ELSE {a \in RoleCeiling(users[u].role) \cap grants[u] :
            "view" \in grants[u] /\ (a = "write" => "read" \in grants[u])}
Access(u) == IF Enabled(u) THEN RoleCapabilities(u) ELSE {}

-----------------------------------------------------------------------------
(* "ludock recover" runs in a process of its own.                          *)
RecoverPassword(u) ==
    LET h == NewHash IN
    /\ Exists(u) /\ HashLeft /\ asked < MaxAsked /\ asked' = asked + 1
    /\ SetPassword(u, h)
    /\ UNCHANGED <<grants, fails, setup, cookie, req, made, guesses, late>>

(* A browser gives up: the context of its request ends, and the next call  *)
(* to the database fails.                                                  *)
GoneAway(c) ==
    LET u == req[c].user IN
    /\ req[c].pc \notin {"idle", "mark"} /\ Answer(c)
    /\ asked < MaxAsked /\ asked' = asked + 1
    /\ guesses' = IF At(c, "login", "failed") /\ guesses[u] > fails[u]
                  THEN [guesses EXCEPT ![u] = @ - 1] ELSE guesses
    /\ UNCHANGED <<dbVars, setup, cookie, made, ended, late>>

(* The panel restarts: requests end, and the setup window opens again.     *)
Restart ==
    /\ asked < MaxAsked /\ asked' = asked + 1
    /\ req' = [c \in Client |-> Idle] /\ setup' = [open |-> TRUE, completed |-> FALSE]
    /\ ended' = {}
    /\ guesses' = [u \in User |-> IF guesses[u] > fails[u] THEN fails[u] ELSE guesses[u]]
    /\ UNCHANGED <<dbVars, cookie, made, late>>

Admin(c) ==
    \/ /\ asked < MaxAsked /\ req[c].pc = "idle"
       /\ Valid(cookie[c]) /\ Owner(cookie[c]) \in Admins
       /\ \/ \E u \in User, role \in Roles : AdminBegin(c, "create", u, role, FALSE, {})
          \/ \E u \in User, role \in Roles, off \in BOOLEAN : AdminBegin(c, "access", u, role, off, {})
          \/ \E u \in User, op \in {"delete", "reset"} : AdminBegin(c, op, u, "viewer", FALSE, {})
          \/ \E u \in User, caps \in SUBSET Capability : AdminBegin(c, "grants", u, "viewer", FALSE, caps)
    \/ Rejected(c) \/ CreateUser(c) \/ UpdateAccess(c) \/ DeleteUser(c) \/ ResetPassword(c)
    \/ SetUserGrants(c)

SignIn(c) ==
    \/ \E u \in User : LoginBegin(c, u)
    \/ LoginBusy(c) \/ Authenticate(c) \/ AuthenticateAgain(c) \/ UpgradePasswordHash(c)
    \/ ClearLoginThrottle(c) \/ CreateSession(c) \/ RecordLoginFailure(c)

AccountPage(c) == \/ \E t \in Token : RevokeSession(c, t)
                  \/ ChangeBegin(c) \/ ChangePassword(c)

Next ==
    \/ \E c \in Client :
          \/ SetupBegin(c) \/ SetupCheck(c) \/ SetupCommit(c) \/ SetupMark(c)
          \/ SignIn(c) \/ FindSessionUser(c) \/ Logout(c) \/ AccountPage(c)
          \/ Admin(c) \/ GoneAway(c)
    \/ SetupExpires \/ Restart
    \/ \E u \in User : WindowEnds(u) \/ RecoverPassword(u)
    \/ \E t \in Token : Expire(t)

Spec == Init /\ [][Next]_vars

-----------------------------------------------------------------------------
(* Setup creates one account at most, whichever requests and restarts race *)
(* (CreateFirstUser), and from then on an enabled administrator remains,   *)
(* also when administrators demote, disable or delete each other at the    *)
(* same time (RemovesLastAdmin).                                           *)
AdminRemains ==
    /\ TypeOK
    /\ made <= 1
    /\ made = 1 => Admins # {}

(* A session in the database belongs to an enabled account and was opened  *)
(* by the password it has now, however a sign-in raced a reset, a change,  *)
(* a recovery, a disabling or an upgrade of the hash (insertSession); no   *)
(* account may do more than its present role allows, although grants stay  *)
(* stored when a role is lowered (roleCapabilities); no request commits a  *)
(* change after its session ended, though it hashed a password in between  *)
(* (AdminMutation, ChangePassword); and a password is guessed at most      *)
(* MaxFailures times in a window, and once more for each other request     *)
(* that passed the check of the throttle before the last failure counted.  *)
AccessIsCurrent ==
    /\ \A t \in Token : sessions[t] # None =>
          Enabled(Owner(t)) /\ sessions[t].era = users[Owner(t)].era
    /\ \A u \in User : Access(u) # {} =>
          Access(u) \subseteq RoleCeiling(users[u].role) /\ "view" \in Access(u)
    /\ ~late
    /\ \A u \in User : guesses[u] <= MaxFailures + Cardinality(Client) - 1

=============================================================================
