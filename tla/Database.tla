------------------------------- MODULE Database -------------------------------
(***************************************************************************)
(* Opening the database (internal/db/db.go and migrations.go) and the      *)
(* identity key beside it (internal/db/identitykey.go).                    *)
(*                                                                         *)
(* Several processes, of the same or of different releases, may open one   *)
(* path at the same time: a container that is being replaced, or a command *)
(* next to the service.  A process can be killed at any step, and a power  *)
(* loss takes every directory entry that was not synced; a commit survives *)
(* both.  The key directory is staged, synced and renamed; the database    *)
(* that depends on it is committed only after its entry is durable.        *)
(*                                                                         *)
(* Simplifications: modes and owners of the key's files are as they should *)
(* be; a schema is the sequence of the migrations applied to it.           *)
(***************************************************************************)
EXTENDS Naturals, Sequences

CONSTANTS Proc,
          Latest,             \* the newest migration each process has
          Oldest, Newest,     \* the versions an existing database may have
          MaxKeys,            \* bound: keys generated
          MaxDatabaseFaults   \* bound: kills, losses and failures

Nobody == "nobody"
ASSUME DatabaseAssumption ==
    /\ Latest \in [Proc -> Nat \ {0}] /\ Oldest \in Nat \ {0} /\ Newest \in Nat
    /\ MaxKeys \in Nat \ {0} /\ MaxDatabaseFaults \in Nat /\ Nobody \notin Proc

VARIABLES
    db,        \* the file: whose it is, its schema, its key check, its journal mode
    entry,     \* the published key directory, and the one a power loss leaves
    keysMade,  \* keys generated
    proc,      \* the processes
    writer,    \* SQLite's write lock
    dbFaults

databaseVars == <<db, entry, keysMade, proc, writer, dbFaults>>

NoKey == 0
Keys == 1..MaxKeys
NotRunning == [pc |-> "off", keyed |-> FALSE, staged |-> NoKey, key |-> NoKey, from |-> 0]

FirstVersions(n) == [i \in 1..n |-> i]
DatabaseFile(owner, n, check) ==
    [owner |-> owner, schema |-> FirstVersions(n), check |-> check, wal |-> FALSE]

(* An empty file, another program's, an earlier Ludock's with its key, or  *)
(* that of a release newer than all of these.                              *)
DatabaseInit ==
    /\ \/ db = DatabaseFile("none", 0, NoKey) /\ entry = [seen |-> NoKey, durable |-> NoKey] /\ keysMade = 0
       \/ db = DatabaseFile("other", 0, NoKey) /\ entry = [seen |-> NoKey, durable |-> NoKey] /\ keysMade = 0
       \/ \E n \in Oldest..Newest :
             db = DatabaseFile("ludock", n, 1) /\ entry = [seen |-> 1, durable |-> 1] /\ keysMade = 1
    /\ proc = [p \in Proc |-> NotRunning] /\ writer = Nobody /\ dbFaults = 0

ProcAt(p, pc) == proc[p].pc = pc
ProcGoto(p, pc) == proc' = [proc EXCEPT ![p].pc = pc]
ProcStops(p) == proc' = [proc EXCEPT ![p] = NotRunning]
DatabaseFault == dbFaults < MaxDatabaseFaults /\ dbFaults' = dbFaults + 1
Version == Len(db.schema)

DatabaseTypeOK ==
    /\ db.owner \in {"none", "other", "ludock"} /\ db.check \in {NoKey} \cup Keys
    /\ db.wal \in BOOLEAN /\ keysMade \in 0..MaxKeys
    /\ entry \in [seen : {NoKey} \cup Keys, durable : {NoKey} \cup Keys]
    /\ writer \in Proc \cup {Nobody} /\ dbFaults \in 0..MaxDatabaseFaults
    /\ \A p \in Proc :
          proc[p].pc \in {"off", "connect", "load", "publish", "syncMine", "read", "syncRead",
                          "assert", "begin", "migrate", "finish", "open"}

-----------------------------------------------------------------------------
(* AssertCompatible: an empty database, or Ludock's within the versions.   *)
Compatible(p) ==
    \/ db.owner = "none" /\ Version = 0
    \/ db.owner = "ludock" /\ Version \in 1..Latest[p]

(* inspect looks at an existing file before anything is written; the       *)
(* connection is checked again, and so is the schema before migrating.     *)
Inspect(p) ==
    /\ ProcAt(p, "off") /\ Compatible(p) /\ ProcGoto(p, "connect")
    /\ UNCHANGED <<db, entry, keysMade, writer, dbFaults>>

Refuse(p) ==
    /\ proc[p].pc \in {"connect", "begin"} /\ ~Compatible(p) /\ ProcStops(p)
    /\ UNCHANGED <<db, entry, keysMade, writer, dbFaults>>

ReadVersion(p) ==
    /\ ProcAt(p, "connect") /\ Compatible(p)
    /\ proc' = [proc EXCEPT ![p].pc = "load", ![p].keyed = (Version >= 1)]
    /\ UNCHANGED <<db, entry, keysMade, writer, dbFaults>>

-----------------------------------------------------------------------------
(* LoadKey: read what is there; without it, a database that depends on a   *)
(* key is refused, and a new one gets a key.                               *)

LoadKey(p) ==
    /\ ProcAt(p, "load")
    /\ \/ entry.seen # NoKey /\ ProcGoto(p, "read") /\ UNCHANGED keysMade
       \/ entry.seen = NoKey /\ proc[p].keyed /\ ProcStops(p) /\ UNCHANGED keysMade
       \/ /\ entry.seen = NoKey /\ ~proc[p].keyed /\ keysMade < MaxKeys /\ keysMade' = keysMade + 1
          /\ proc' = [proc EXCEPT ![p].pc = "publish", ![p].staged = keysMade + 1]
    /\ UNCHANGED <<db, entry, writer, dbFaults>>

(* publishKeyDirectory: the staged directory is complete and synced; the   *)
(* rename cannot replace another creator's, whose key is then read.        *)
Publish(p) ==
    /\ ProcAt(p, "publish")
    /\ \/ /\ entry.seen = NoKey /\ entry' = [entry EXCEPT !.seen = proc[p].staged]
          /\ ProcGoto(p, "syncMine") /\ UNCHANGED dbFaults
       \/ entry.seen # NoKey /\ ProcGoto(p, "read") /\ UNCHANGED <<entry, dbFaults>>
       \/ DatabaseFault /\ ProcStops(p) /\ UNCHANGED entry
    /\ UNCHANGED <<db, keysMade, writer>>

SyncParentDirectory(p) ==
    /\ ProcAt(p, "syncMine") /\ entry' = [entry EXCEPT !.durable = entry.seen] /\ ProcGoto(p, "read")
    /\ UNCHANGED <<db, keysMade, writer, dbFaults>>

MutantTrusts(p) == ProcGoto(p, "assert") /\ UNCHANGED entry
SyncsRead(p) == ProcGoto(p, "assert") /\ entry' = [entry EXCEPT !.durable = entry.seen]

(* readPublishedKey: the winner of a race may not have synced its entry.   *)
ReadPublishedKey(p) ==
    /\ \/ ProcAt(p, "read") /\ entry.seen \in Keys
          /\ proc' = [proc EXCEPT ![p].pc = "syncRead", ![p].key = entry.seen] /\ UNCHANGED entry
       \/ ProcAt(p, "read") /\ entry.seen \notin Keys /\ ProcStops(p) /\ UNCHANGED entry
       \/ ProcAt(p, "syncRead") /\ SyncsRead(p)
    /\ UNCHANGED <<db, keysMade, writer, dbFaults>>

AssertKey(p) ==
    /\ ProcAt(p, "assert")
    /\ IF proc[p].keyed /\ db.check # proc[p].key THEN ProcStops(p) ELSE ProcGoto(p, "begin")
    /\ UNCHANGED <<db, entry, keysMade, writer, dbFaults>>

-----------------------------------------------------------------------------
(* ApplyMigrations: one immediate transaction, which reads the version     *)
(* again.                                                                  *)

BeginTx(p) ==
    /\ ProcAt(p, "begin") /\ Compatible(p) /\ ProcGoto(p, "migrate")
    /\ UNCHANGED <<db, entry, keysMade, writer, dbFaults>>

LockTx(p) ==
    /\ ProcAt(p, "migrate") /\ writer = Nobody /\ writer' = p
    /\ proc' = [proc EXCEPT ![p].from = Version]
    /\ UNCHANGED <<db, entry, keysMade, dbFaults>>

Migrations(p) == FirstVersions(Latest[p])
\* Those above the version.
Upgraded(p) == db.schema \o SubSeq(Migrations(p), proc[p].from + 1, Latest[p])

(* The commit, or a failed statement, whose transaction is rolled back.    *)
Commit(p) ==
    /\ ProcAt(p, "migrate") /\ writer = p /\ writer' = Nobody
    /\ \/ /\ db' = [db EXCEPT !.owner = "ludock", !.schema = Upgraded(p),
                              !.check = IF proc[p].from = 0 THEN proc[p].key ELSE @]
          /\ ProcGoto(p, "finish") /\ UNCHANGED dbFaults
       \/ DatabaseFault /\ ProcStops(p) /\ UNCHANGED db
    /\ UNCHANGED <<entry, keysMade>>

FinishOpening(p) ==
    /\ ProcAt(p, "finish") /\ db' = [db EXCEPT !.wal = TRUE] /\ ProcGoto(p, "open")
    /\ UNCHANGED <<entry, keysMade, writer, dbFaults>>

CloseDatabase(p) ==
    /\ ProcAt(p, "open") /\ ProcStops(p)
    /\ UNCHANGED <<db, entry, keysMade, writer, dbFaults>>

-----------------------------------------------------------------------------
(* A process is killed; the power fails; the key directory is lost while   *)
(* Ludock is not running.                                                  *)

Kill(p) ==
    /\ ~ProcAt(p, "off") /\ DatabaseFault /\ ProcStops(p)
    /\ writer' = IF writer = p THEN Nobody ELSE writer
    /\ UNCHANGED <<db, entry, keysMade>>

PowerLoss ==
    /\ DatabaseFault /\ proc' = [p \in Proc |-> NotRunning] /\ writer' = Nobody
    /\ entry' \in {entry, [entry EXCEPT !.seen = entry.durable]}
    /\ UNCHANGED <<db, keysMade>>

LoseKey ==
    /\ DatabaseFault /\ \A p \in Proc : ProcAt(p, "off")
    /\ entry.seen # NoKey /\ entry' = [seen |-> NoKey, durable |-> NoKey]
    /\ UNCHANGED <<db, keysMade, proc, writer>>

DatabaseNext ==
    \/ \E p \in Proc :
          \/ Inspect(p) \/ Refuse(p) \/ ReadVersion(p) \/ LoadKey(p) \/ Publish(p) \/ SyncParentDirectory(p)
          \/ ReadPublishedKey(p) \/ AssertKey(p) \/ BeginTx(p) \/ LockTx(p) \/ Commit(p)
          \/ FinishOpening(p) \/ CloseDatabase(p) \/ Kill(p)
    \/ PowerLoss \/ LoseKey

DatabaseSpec == DatabaseInit /\ [][DatabaseNext]_databaseVars

-----------------------------------------------------------------------------
NewerThanAll == \A p \in Proc : Latest[p] < Version

(* Whatever processes race, die or lose power: a database that depends on  *)
(* a key never gets another one, and a power loss never separates them     *)
(* (readPublishedKey syncs the winner's entry before SQLite commits); an   *)
(* open database has the key its fingerprints were made with; every        *)
(* migration is applied once and in order, though the version was read     *)
(* before the transaction (ApplyMigrations); and a file of another program *)
(* or of a release newer than all of these is never written to.            *)
DatabaseKeepsItsKey ==
    /\ DatabaseTypeOK
    /\ db.check # NoKey => entry.seen \in {NoKey, db.check} /\ entry.durable = entry.seen
    /\ \A p \in Proc : ProcAt(p, "open") => proc[p].key = db.check /\ Version >= Latest[p]
    /\ db.schema = FirstVersions(Version)
    /\ db.owner = "other" => Version = 0 /\ ~db.wal
    /\ NewerThanAll => ~db.wal /\ \A p \in Proc : ProcAt(p, "off")

(* A process never commits to a file whose schema is newer than its own:   *)
(* AssertCompatible refuses one (migrations.go:237-238, "within [earliest, *)
(* latest]"; ErrIncompatible says that the data have not been changed).    *)
(* It is asked before the transaction and not in it: a file that was empty *)
(* or old enough then may have been migrated by a newer release since.     *)
NewerIsRefused ==
    [][\A p \in Proc : ProcAt(p, "migrate") /\ ProcAt(p, "finish")' => Version <= Latest[p]]_databaseVars

=============================================================================
