------------------------------ MODULE MCParts -------------------------------
(***************************************************************************)
(* Instances of the parts of Ludock whose invariants are proved and that   *)
(* are checked for safety alone.  They are independent of each other:      *)
(* every behaviour is one of one part, named by component, and leaves the  *)
(* state of the others as it is.  x and y stand for the users, requests,   *)
(* helpers and so on that a part does not tell apart.                      *)
(***************************************************************************)
EXTENDS Accounts, Update, DataJobs, Sockets, Files, Database, DockerClient, TLC

CONSTANTS x1, x2, y1, y2,
          Parts,      \* those that run
          MaxInAll    \* bound: requests and events of Files, calls and faults of DockerClient

VARIABLE component

\* A daemon that knows the newest API and one that does not.
Versions == {[api |-> 56, least |-> 24], [api |-> 43, least |-> 24]}

\* Two administrators, one of them with two tabs, and two users.
Connections == {"a1", "a2", "a3", "b1", "b2"}
Owners == [c \in Connections |->
             CASE c = "a1" -> "admin" [] c \in {"a2", "a3"} -> "root" [] c = "b1" -> "x" [] OTHER -> "y"]

\* A process of an older and one of a newer release.
Releases == [p \in {"old", "new"} |-> IF p = "old" THEN 2 ELSE 3]

-----------------------------------------------------------------------------
(* The state of a part while another one runs.                             *)
NoAccounts == Init /\ made = 0
NoUpdate == UpdateInit /\ Running(orig)
NoData == DataInit /\ kind = "restart"
NoSockets == SocketsInit
NoFiles == FilesInit /\ \A n \in Names : folder[n] = 0
NoDatabase == DatabaseInit /\ db.owner = "none"
NoDocker == DockerInit /\ engine.api = 56 /\ image /\ box = "absent"
allVars == <<component, vars, updateVars, dataVars, socketVars, fileVars, databaseVars, clientVars>>

PartsInit ==
    /\ component \in Parts
    /\ IF component = "accounts" THEN Init ELSE NoAccounts
    /\ IF component = "update" THEN UpdateInit ELSE NoUpdate
    /\ IF component = "data" THEN DataInit ELSE NoData
    /\ IF component = "sockets" THEN SocketsInit ELSE NoSockets
    /\ IF component = "files" THEN FilesInit ELSE NoFiles
    /\ IF component = "database" THEN DatabaseInit ELSE NoDatabase
    /\ IF component = "docker" THEN DockerInit ELSE NoDocker

PartsNext ==
    /\ UNCHANGED component
    /\ \/ /\ component = "accounts" /\ Next
          /\ UNCHANGED <<updateVars, dataVars, socketVars, fileVars, databaseVars, clientVars>>
       \/ /\ component = "update" /\ UpdateNext
          /\ UNCHANGED <<vars, dataVars, socketVars, fileVars, databaseVars, clientVars>>
       \/ /\ component = "data" /\ DataNext
          /\ UNCHANGED <<vars, updateVars, socketVars, fileVars, databaseVars, clientVars>>
       \/ /\ component = "sockets" /\ SocketsNext
          /\ UNCHANGED <<vars, updateVars, dataVars, fileVars, databaseVars, clientVars>>
       \/ /\ component = "files" /\ FilesNext /\ calls' + events' <= MaxInAll
          /\ UNCHANGED <<vars, updateVars, dataVars, socketVars, databaseVars, clientVars>>
       \/ /\ component = "database" /\ DatabaseNext
          /\ UNCHANGED <<vars, updateVars, dataVars, socketVars, fileVars, clientVars>>
       \/ /\ component = "docker" /\ DockerNext /\ callsMade' + dockerFaults' <= MaxInAll
          /\ UNCHANGED <<vars, updateVars, dataVars, socketVars, fileVars, databaseVars>>

PartsSpec == PartsInit /\ [][PartsNext]_allVars

Alike == Permutations({x1, x2}) \cup Permutations({y1, y2})

-----------------------------------------------------------------------------
(* Properties: each is stated, with what it takes, in its part's module;   *)
(* AdminRemains, AccessIsCurrent, OneServerRemains, CopiedWhileDown,       *)
(* SocketsBounded, HelpersConfined, ChangesAreWhole, DatabaseKeepsItsKey   *)
(* and AnswersProve are those of Accounts, Update, DataJobs, Sockets,      *)
(* Files, Database and DockerClient, and NewerIsRefused that of Database.  *)
=============================================================================
